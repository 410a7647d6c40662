---------------------------- MODULE CertStoreProofs ----------------------------
(***************************************************************************)
(* What each statement on the certificate cache does to a table, for any   *)
(* table and any time: the facts that the proofs about handlers cite.      *)
(***************************************************************************)
EXTENDS CertStore, TLAPS

\* Each operation of the cache takes tables to tables.
LEMMA TableType ==
  ASSUME NEW table \in SUBSET Row, NEW id \in Keys, NEW c \in Cert, NEW time \in Nat
  PROVE  /\ GetCert(table, id) \subseteq table
         /\ StoreCert(table, id, c) \subseteq Row
         /\ MarkIntuneNotified(table, id) \subseteq Row
         /\ PurgeExpired(table, time) \subseteq table
<1>1. GetCert(table, id) \subseteq table
  BY DEF GetCert
<1>2. StoreCert(table, id, c) \subseteq Row
  <2>1. [id |-> id, cert |-> c, notified |-> FALSE] \in Row
    BY DEF Row
  <2> QED BY <2>1 DEF StoreCert
<1>3. MarkIntuneNotified(table, id) \subseteq Row
  BY DEF MarkIntuneNotified, Row
<1>4. PurgeExpired(table, time) \subseteq table
  BY DEF PurgeExpired
<1> QED BY <1>1, <1>2, <1>3, <1>4

\* Marking touches neither ids nor certificates, and notes only one id.
LEMMA MarkEffect ==
  ASSUME NEW table \in SUBSET Row, NEW id \in Keys,
         \A q, r \in table : q.id = r.id => q = r
  PROVE  /\ \A s \in MarkIntuneNotified(table, id) : \E r \in table :
              s.id = r.id /\ s.cert = r.cert /\ (s.notified => r.notified \/ s.id = id)
         /\ \A r \in table : \E s \in MarkIntuneNotified(table, id) :
              s.id = r.id /\ s.cert = r.cert /\ (r.notified => s.notified)
         /\ \A s, t \in MarkIntuneNotified(table, id) : s.id = t.id => s = t
<1> DEFINE marked(r) == IF r.id = id THEN [r EXCEPT !.notified = TRUE] ELSE r
<1>1. MarkIntuneNotified(table, id) = {marked(r) : r \in table}
  BY DEF MarkIntuneNotified
<1>2. \A r \in table : marked(r).id = r.id /\ marked(r).cert = r.cert
  BY DEF Row
<1>3. \A r \in table : /\ r.id = id => marked(r).notified
                       /\ r.id # id => marked(r) = r
  BY DEF Row
<1> HIDE DEF marked
<1> QED BY <1>1, <1>2, <1>3

\* Storing adds at most one row, and none beside one of the same id.
LEMMA StoreEffect ==
  ASSUME NEW table, NEW id, NEW c
  PROVE  \/ /\ \A r \in table : r.id # id
            /\ StoreCert(table, id, c)
                 = table \cup {[id |-> id, cert |-> c, notified |-> FALSE]}
         \/ StoreCert(table, id, c) = table
BY DEF StoreCert, GetCert

\* The primary key is kept by each statement that writes the table.
THEOREM PrimaryKeyKept ==
  ASSUME NEW table \in SUBSET Row, NEW id \in Keys, NEW c \in Cert, NEW time \in Nat,
         \A q, r \in table : q.id = r.id => q = r
  PROVE  /\ \A q, r \in StoreCert(table, id, c) : q.id = r.id => q = r
         /\ \A q, r \in MarkIntuneNotified(table, id) : q.id = r.id => q = r
         /\ \A q, r \in PurgeExpired(table, time) : q.id = r.id => q = r
<1> DEFINE row == [id |-> id, cert |-> c, notified |-> FALSE]
<1>1. row.id = id
  OBVIOUS
<1>2. \/ (\A r \in table : r.id # id) /\ StoreCert(table, id, c) = table \cup {row}
      \/ StoreCert(table, id, c) = table
  BY StoreEffect
<1> HIDE DEF row
<1>3. \A q, r \in StoreCert(table, id, c) : q.id = r.id => q = r
  BY <1>1, <1>2
<1>4. \A q, r \in MarkIntuneNotified(table, id) : q.id = r.id => q = r
  BY MarkEffect
<1>5. \A q, r \in PurgeExpired(table, time) : q.id = r.id => q = r
  BY DEF PurgeExpired
<1> QED BY <1>3, <1>4, <1>5

\* StoreCert leaves a row of the enrollment, and once there is one, whatever
\* another handler stores for it changes nothing: the first certificate wins.
THEOREM FirstCertificateWins ==
  ASSUME NEW table \in SUBSET Row, NEW id \in Keys, NEW c \in Cert, NEW d \in Cert
  PROVE  /\ table \subseteq StoreCert(table, id, c)
         /\ GetCert(StoreCert(table, id, c), id) # {}
         /\ StoreCert(StoreCert(table, id, c), id, d) = StoreCert(table, id, c)
<1>1. table \subseteq StoreCert(table, id, c)
  BY DEF StoreCert
<1>2. GetCert(StoreCert(table, id, c), id) # {}
  <2> DEFINE row == [id |-> id, cert |-> c, notified |-> FALSE]
  <2>1. CASE GetCert(table, id) = {}
    <3>1. row \in StoreCert(table, id, c) /\ row.id = id
      BY <2>1 DEF StoreCert
    <3> QED BY <3>1 DEF GetCert
  <2>2. CASE GetCert(table, id) # {}
    BY <2>2 DEF StoreCert
  <2> QED BY <2>1, <2>2
<1>3. \A t : GetCert(t, id) # {} => StoreCert(t, id, d) = t
  BY DEF StoreCert
<1> QED BY <1>1, <1>2, <1>3

\* Marking a row that is marked changes nothing: a retry of
\* MarkIntuneNotified after a lost answer is harmless.
THEOREM MarkTwice ==
  ASSUME NEW table \in SUBSET Row, NEW id \in Keys
  PROVE  MarkIntuneNotified(MarkIntuneNotified(table, id), id) = MarkIntuneNotified(table, id)
<1> DEFINE marked(r) == IF r.id = id THEN [r EXCEPT !.notified = TRUE] ELSE r
<1>1. \A t : MarkIntuneNotified(t, id) = {marked(r) : r \in t}
  BY DEF MarkIntuneNotified
<1>2. \A r \in table : marked(marked(r)) = marked(r)
  BY DEF Row
<1> HIDE DEF marked
<1> QED BY <1>1, <1>2

\* PurgeExpired deletes no row whose certificate is still valid, deletes every
\* row past the grace period, and running it again later is as good as
\* running it once.
THEOREM PurgeEffect ==
  ASSUME NEW table \in SUBSET Row, NEW time \in Nat, NEW later \in Nat, time <= later
  PROVE  /\ PurgeExpired(table, time) \subseteq table
         /\ \A r \in table : ~Expired(r.cert, time) => r \in PurgeExpired(table, time)
         /\ \A r \in PurgeExpired(table, time) : time <= r.cert.notAfter + PurgeGrace
         /\ PurgeExpired(PurgeExpired(table, time), later) = PurgeExpired(table, later)
<1>1. \A r \in table : r.cert.notAfter \in Nat
  BY DEF Row, Cert
<1>2. PurgeGrace \in Nat
  BY PurgeGraceAssumption
<1>3. \A n \in Nat : /\ ~(time > n) => n + PurgeGrace >= time
                     /\ n + PurgeGrace >= later => n + PurgeGrace >= time
                     /\ n + PurgeGrace >= time => time <= n + PurgeGrace
  BY <1>2
<1> QED BY <1>1, <1>3 DEF PurgeExpired, Expired

\* The purge and a mark commute: it does not matter which of the hourly purge
\* and a handler's MarkIntuneNotified reaches the database first.
THEOREM PurgeAndMarkCommute ==
  ASSUME NEW table \in SUBSET Row, NEW id \in Keys, NEW time \in Nat
  PROVE  PurgeExpired(MarkIntuneNotified(table, id), time)
           = MarkIntuneNotified(PurgeExpired(table, time), id)
<1> DEFINE marked(r) == IF r.id = id THEN [r EXCEPT !.notified = TRUE] ELSE r
<1> DEFINE kept(r) == r.cert.notAfter + PurgeGrace >= time
<1>1. \A t : MarkIntuneNotified(t, id) = {marked(r) : r \in t}
  BY DEF MarkIntuneNotified
<1>2. \A t : PurgeExpired(t, time) = {r \in t : kept(r)}
  BY DEF PurgeExpired
<1>3. \A r \in table : marked(r).cert = r.cert
  BY DEF Row
<1>4. \A r \in table : kept(marked(r)) <=> kept(r)
  BY <1>3
<1> HIDE DEF marked, kept
<1>5. PurgeExpired(MarkIntuneNotified(table, id), time)
        = {s \in {marked(r) : r \in table} : kept(s)}
  BY <1>1, <1>2, Zenon
<1>6. MarkIntuneNotified(PurgeExpired(table, time), id)
        = {marked(r) : r \in {q \in table : kept(q)}}
  BY <1>1, <1>2, Zenon
<1>7. {s \in {marked(r) : r \in table} : kept(s)}
        = {marked(r) : r \in {q \in table : kept(q)}}
  BY <1>4
<1> QED BY <1>5, <1>6, <1>7
================================================================================
