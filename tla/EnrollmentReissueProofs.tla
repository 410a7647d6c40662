------------------------ MODULE EnrollmentReissueProofs ------------------------
(***************************************************************************)
(* How many certificates an enrollment costs, for any set of handlers, any *)
(* number of requests and any faults: without overlapping requests, and    *)
(* with them.                                                              *)
(***************************************************************************)
EXTENDS EnrollmentProofs, FiniteSetTheorems

-----------------------------------------------------------------------------
(* Without overlap, duplicates cost no more certificates than things fail. *)

Certs(k) == {c \in issued : c.key = k}

\* A certificate beyond the faults is in the cache, or about to be stored.
Accounted(k) ==
  \/ \E r \in store : r.id = k
  \/ \E h \in Handlers : pc[h] = "store" /\ req[h] = k /\ h \notin cancelled
ReissueInv ==
  /\ IsFiniteSet(issued)
  /\ \A k \in Keys :
       \/ \E c \in Certs(k) : Expired(c, now)
       \/ Cardinality(Certs(k)) <= faults
       \/ Cardinality(Certs(k)) <= faults + 1 /\ Accounted(k)

\* The certificates of an enrollment are finitely many, and one more
\* signature adds one at most.
LEMMA CertsCounted ==
  ASSUME IsFiniteSet(issued), NEW k, NEW c
  PROVE  /\ Cardinality(Certs(k)) \in Nat
         /\ IsFiniteSet(issued \cup {c})
         /\ Cardinality({d \in issued \cup {c} : d.key = k}) \in Nat
         /\ Cardinality({d \in issued \cup {c} : d.key = k}) <= Cardinality(Certs(k)) + 1
         /\ c.key # k => {d \in issued \cup {c} : d.key = k} = Certs(k)
<1>1. IsFiniteSet(Certs(k))
  BY FS_Subset DEF Certs
<1>2. Cardinality(Certs(k)) \in Nat
  BY <1>1, FS_CardinalityType
<1>3. IsFiniteSet(issued \cup {c})
  BY FS_AddElement
<1>6. Cardinality({d \in issued \cup {c} : d.key = k}) \in Nat
  <2>1. IsFiniteSet({d \in issued \cup {c} : d.key = k})
    BY <1>3, FS_Subset
  <2> QED BY <2>1, FS_CardinalityType
<1>4. CASE c.key = k
  <2>1. {d \in issued \cup {c} : d.key = k} = Certs(k) \cup {c}
    BY <1>4 DEF Certs
  <2>2. Cardinality(Certs(k) \cup {c}) <= Cardinality(Certs(k)) + 1
    <3>1. Cardinality(Certs(k) \cup {c})
            = IF c \in Certs(k) THEN Cardinality(Certs(k)) ELSE Cardinality(Certs(k)) + 1
      BY <1>1, FS_AddElement
    <3>2. \A n \in Nat : n <= n + 1 /\ n + 1 <= n + 1
      OBVIOUS
    <3> QED BY <1>2, <3>1, <3>2, Zenon
  <2> QED BY <1>2, <1>3, <1>4, <1>6, <2>1, <2>2
<1>5. CASE c.key # k
  <2>1. {d \in issued \cup {c} : d.key = k} = Certs(k)
    BY <1>5 DEF Certs
  <2>2. \A n \in Nat : n <= n + 1
    OBVIOUS
  <2> QED BY <1>2, <1>3, <1>5, <1>6, <2>1, <2>2
<1> QED BY <1>4, <1>5

\* A step that signs nothing keeps the bound: if something goes wrong there is
\* one more fault to count, if not the cache or the handler still has the
\* certificate, or it has expired.
LEMMA NothingSigned ==
  ASSUME TypeOK, ReissueInv, UNCHANGED issued, now' \in Nat, now' >= now,
         \/ faults' = faults + 1
         \/ /\ faults' = faults
            /\ \A k \in Keys : Accounted(k) =>
                 Accounted(k)' \/ \E c \in Certs(k) : Expired(c, now')
  PROVE  ReissueInv'
<1>1. IsFiniteSet(issued')
  BY DEF ReissueInv
<1>2. ASSUME NEW k \in Keys
      PROVE  \/ \E c \in Certs(k)' : Expired(c, now')
             \/ Cardinality(Certs(k)') <= faults'
             \/ Cardinality(Certs(k)') <= faults' + 1 /\ Accounted(k)'
  <2>1. Certs(k)' = Certs(k)
    BY DEF Certs
  <2>2. Cardinality(Certs(k)) \in Nat
    BY CertsCounted DEF ReissueInv
  <2>3. faults \in Nat /\ now \in Nat /\ \A c \in Certs(k) : c.notAfter \in Nat
    BY DEF TypeOK, Cert, Certs
  <2>4. (\E c \in Certs(k) : Expired(c, now)) => \E c \in Certs(k) : Expired(c, now')
    BY <2>3 DEF Expired
  <2>5. \/ \E c \in Certs(k) : Expired(c, now)
        \/ Cardinality(Certs(k)) <= faults
        \/ Cardinality(Certs(k)) <= faults + 1 /\ Accounted(k)
    BY DEF ReissueInv
  <2>6. CASE faults' = faults + 1
    BY <2>1, <2>2, <2>3, <2>4, <2>5, <2>6
  <2>7. CASE /\ faults' = faults
             /\ Accounted(k) => Accounted(k)' \/ \E c \in Certs(k) : Expired(c, now')
    BY <2>1, <2>4, <2>5, <2>7
  <2> QED BY <2>6, <2>7
<1> QED BY <1>1, <1>2 DEF ReissueInv

\* However a call ends, faults are only counted up.
LEMMA FaultsCount ==
  ASSUME TypeOK, NEW h \in Handlers, NEW call,
         Runs(h) \/ Fails(h, call) \/ Loses(h, call) \/ EnvelopeFails(h)
  PROVE  faults' = faults + 1 \/ UNCHANGED <<faults, cancelled>>
BY DEF Runs, Fails, Loses, Strikes, EnvelopeFails

\* A call other than SignCSR and StoreCert signs nothing, and keeps which
\* enrollments have a row.
LEMMA CallEffect ==
  ASSUME SafetyInv, NEW h \in Handlers, Step(h), ~Sign(h), ~Store(h)
  PROVE  /\ UNCHANGED <<issued, now>>
         /\ faults' = faults + 1 \/ UNCHANGED <<faults, cancelled>>
         /\ pc[h] # "store" /\ pc'[h] # "store"
         /\ \A g \in Handlers \ {h} : pc'[g] = pc[g] /\ req'[g] = req[g]
         /\ \A r \in store : \E s \in store' : s.id = r.id
         /\ \A s \in store' : \E r \in store : s.id = r.id
<1> USE DEF handlerVars, intuneVars, caVars, envVars, Idle, Serving, Goto, Continue, Hold, End,
            Refuse
<1>0. TypeOK /\ PrimaryKey
  BY DEF SafetyInv, SafetyCore
<1>1. UNCHANGED <<issued, now>>
  BY DEF Step, Lookup, Renotify, Remark, ReplyStored, Verify, Report, Notify, Mark, Reply,
     NotifySuccess, MarkNotified
<1>2. faults' = faults + 1 \/ UNCHANGED <<faults, cancelled>>
  BY <1>0, FaultsCount DEF Step, Lookup, Renotify, Remark, ReplyStored, Verify, Report, Notify,
     Mark, Reply, NotifySuccess, MarkNotified, Deliver
<1>3. /\ pc[h] # "store" /\ pc'[h] # "store"
      /\ \A g \in Handlers \ {h} : pc'[g] = pc[g] /\ req'[g] = req[g]
  BY <1>0 DEF TypeOK, Step, Lookup, Renotify, Remark, ReplyStored, Verify, Report, Notify, Mark,
     Reply, NotifySuccess, MarkNotified, Deliver
<1>4. /\ \A r \in store : \E s \in store' : s.id = r.id
      /\ \A s \in store' : \E r \in store : s.id = r.id
  <2>1. CASE UNCHANGED store
    BY <2>1
  <2>2. CASE store' = MarkIntuneNotified(store, req[h])
    <3>1. req[h] \in Keys /\ store \in SUBSET Row
      BY <1>0 DEF TypeOK, Step, Lookup, Renotify, Remark, ReplyStored, Verify, Report, Notify,
         Mark, Reply
    <3> QED BY <1>0, <2>2, <3>1, MarkEffect DEF PrimaryKey
  <2> QED
    BY <2>1, <2>2 DEF Step, Lookup, Renotify, Remark, ReplyStored, Verify, Report, Notify, Mark,
       Reply, NotifySuccess, MarkNotified
<1> QED BY <1>1, <1>2, <1>3, <1>4

\* Without overlap SignCSR is only called with nothing in the cache and
\* nothing about to be stored, and its certificate is stored unless
\* something goes wrong.
LEMMA ReissueStep ==
  ~Overlap /\ SafetyInv /\ SequentialInv /\ ReissueInv /\ [Next]_vars => ReissueInv'
<1> SUFFICES ASSUME ~Overlap, SafetyInv, SequentialInv, ReissueInv, [Next]_vars, TypeOK
             PROVE  ReissueInv'
  BY DEF SafetyInv, SafetyCore
<1>0. \A g, h \in Handlers : Serving(g) /\ Serving(h) /\ req[g] = req[h] => g = h
  BY DEF SequentialInv
<1> USE DEF handlerVars, intuneVars, caVars, envVars, Idle, Serving, Goto, Continue, Hold,
            End, Refuse
<1>1. now \in Nat /\ now >= now /\ faults \in Nat /\ faults # faults + 1
  BY DEF TypeOK
<1>2. ASSUME NEW h \in Handlers, Step(h), ~Sign(h), ~Store(h) PROVE ReissueInv'
  <2>1. /\ UNCHANGED <<issued, now>>
        /\ faults' = faults + 1 \/ UNCHANGED <<faults, cancelled>>
        /\ pc[h] # "store"
        /\ \A g \in Handlers \ {h} : pc'[g] = pc[g] /\ req'[g] = req[g]
        /\ \A r \in store : \E s \in store' : s.id = r.id
    BY <1>2, CallEffect
  <2>2. UNCHANGED cancelled => \A k \in Keys : Accounted(k) => Accounted(k)'
    BY <2>1 DEF Accounted
  <2> QED BY <1>1, <2>1, <2>2, NothingSigned
<1>3. ASSUME NEW h \in Handlers, Store(h) PROVE ReissueInv'
  <2>1. UNCHANGED <<issued, now>>
    BY <1>3 DEF Store
  <2>2. faults' = faults + 1 \/ UNCHANGED <<faults, cancelled>>
    BY <1>3, FaultsCount DEF Store
  <2>3. /\ pc[h] = "store"
        /\ \A g \in Handlers \ {h} : pc'[g] = pc[g] /\ req'[g] = req[g]
    BY <1>3 DEF TypeOK, Store
  <2>4. \/ h \in cancelled /\ UNCHANGED store
        \/ faults' = faults + 1
        \/ store' = StoreCert(store, req[h], crt[h])
    BY <1>3 DEF Store, Fails, Strikes
  <2>5. CASE h \in cancelled /\ UNCHANGED <<store, cancelled>>
    <3>1. \A k \in Keys : Accounted(k) => Accounted(k)'
      BY <2>3, <2>5 DEF Accounted
    <3> QED BY <1>1, <2>1, <2>2, <3>1, NothingSigned
  <2>6. CASE store' = StoreCert(store, req[h], crt[h]) /\ UNCHANGED cancelled
    <3>1. /\ \A r \in store : r \in store'
          /\ \E r \in store' : r.id = req[h]
      <4> DEFINE row == [id |-> req[h], cert |-> crt[h], notified |-> FALSE]
      <4>1. CASE \A r \in store : r.id # req[h]
        <5>1. store' = store \cup {row} /\ row.id = req[h]
          BY <2>6, <4>1 DEF StoreCert, GetCert
        <5> HIDE DEF row
        <5> QED BY <5>1
      <4>2. CASE \E r \in store : r.id = req[h]
        BY <2>6, <4>2 DEF StoreCert, GetCert
      <4> QED BY <4>1, <4>2
    <3>2. ASSUME NEW k \in Keys, Accounted(k) PROVE Accounted(k)'
      <4>1. CASE \E r \in store : r.id = k
        BY <3>1, <4>1 DEF Accounted
      <4>2. CASE k = req[h]
        BY <3>1, <4>2 DEF Accounted
      <4>3. ASSUME NEW g \in Handlers \ {h}, pc[g] = "store", req[g] = k, g \notin cancelled
            PROVE  Accounted(k)'
        BY <2>3, <2>6, <4>3 DEF Accounted
      <4> QED BY <3>2, <4>1, <4>2, <4>3 DEF Accounted
    <3> QED BY <1>1, <2>1, <2>2, <3>2, NothingSigned
  <2>7. CASE faults' = faults + 1
    BY <1>1, <2>1, <2>7, NothingSigned
  <2> QED BY <2>2, <2>4, <2>5, <2>6, <2>7
<1>4. ASSUME NEW h \in Handlers, Sign(h) PROVE ReissueInv'
  <2> DEFINE key == req[h]
  <2> DEFINE c == NewCert(key)
  <2>1. pc[h] = "sign" /\ UNCHANGED <<now, store>>
    BY <1>4 DEF Sign
  <2>2. \A g \in Handlers \ {h} : pc'[g] = pc[g] /\ req'[g] = req[g]
    BY <1>4 DEF TypeOK, Sign
  <2>3. c.key = key
    BY DEF NewCert
  <2>4. \/ UNCHANGED issued /\ (faults' = faults + 1 \/ UNCHANGED <<faults, cancelled>>)
        \/ issued' = issued \cup {c} /\ faults' = faults + 1
        \/ /\ issued' = issued \cup {c} /\ UNCHANGED <<faults, cancelled>>
           /\ pc'[h] = "store" /\ req'[h] = key /\ h \notin cancelled
    BY <1>4 DEF Sign, SignedByCA, Runs, Fails, Loses, Strikes, TypeOK
  <2> HIDE DEF c, key
  <2>5. \/ \E d \in Certs(key) : Expired(d, now)
        \/ Cardinality(Certs(key)) <= faults
    <3>1. key \in Keys
      BY <2>1 DEF TypeOK, key
    <3>2. ASSUME NEW r \in store, r.id = key PROVE \E d \in Certs(key) : Expired(d, now)
      <4>1. r.cert \in Certs(key)
        BY <3>2 DEF SafetyInv, SafetyCore, RowsInv, Certs
      <4>2. Expired(r.cert, now)
        BY <2>1, <3>2 DEF SequentialInv, BranchInv, GetCert, key
      <4> QED BY <4>1, <4>2
    <3>3. \A g \in Handlers : pc[g] = "store" => req[g] # key
      BY <1>0, <2>1 DEF key
    <3> QED BY <3>1, <3>2, <3>3 DEF ReissueInv, Accounted
  <2>6. UNCHANGED cancelled => \A k \in Keys : Accounted(k) => Accounted(k)'
    BY <2>1, <2>2 DEF Accounted
  <2>7. CASE UNCHANGED issued
    BY <1>1, <2>1, <2>4, <2>6, <2>7, NothingSigned
  <2>8. CASE issued' = issued \cup {c} /\ issued' # issued
    <3>1. IsFiniteSet(issued')
      BY <2>8, CertsCounted DEF ReissueInv
    <3>2. ASSUME NEW k \in Keys
          PROVE  \/ \E d \in Certs(k)' : Expired(d, now')
                 \/ Cardinality(Certs(k)') <= faults'
                 \/ Cardinality(Certs(k)') <= faults' + 1 /\ Accounted(k)'
      <4>1. /\ Certs(k) \subseteq Certs(k)'
            /\ Cardinality(Certs(k)) \in Nat
            /\ Cardinality(Certs(k)') \in Nat
            /\ Cardinality(Certs(k)') <= Cardinality(Certs(k)) + 1
            /\ k # key => Certs(k)' = Certs(k)
        BY <2>3, <2>8, CertsCounted DEF Certs, ReissueInv
      <4>5. (\E d \in Certs(k) : Expired(d, now)) => \E d \in Certs(k)' : Expired(d, now')
        BY <2>1, <4>1
      <4>2. CASE k # key
        <5>1. \/ \E d \in Certs(k) : Expired(d, now)
              \/ Cardinality(Certs(k)) <= faults
              \/ Cardinality(Certs(k)) <= faults + 1 /\ Accounted(k)
          BY DEF ReissueInv
        <5> QED BY <1>1, <2>1, <2>4, <2>6, <2>8, <4>1, <4>2, <4>5, <5>1
      <4>3. CASE k = key /\ faults' = faults + 1
        BY <1>1, <2>5, <4>1, <4>3, <4>5
      <4>4. CASE k = key /\ faults' # faults + 1
        <5>1. /\ UNCHANGED <<faults, cancelled>> /\ pc'[h] = "store" /\ req'[h] = key
              /\ h \notin cancelled
          BY <2>4, <2>8, <4>4
        <5>2. Accounted(k)'
          BY <4>4, <5>1 DEF Accounted
        <5> QED BY <1>1, <2>5, <4>1, <4>4, <4>5, <5>1, <5>2
      <4> QED BY <4>2, <4>3, <4>4
    <3> QED BY <3>1, <3>2 DEF ReissueInv
  <2> QED BY <2>4, <2>7, <2>8
<1>5. ASSUME NEW h \in Handlers, Disconnect(h) PROVE ReissueInv'
  <2>1. UNCHANGED <<issued, now>> /\ faults' = faults + 1
    BY <1>5 DEF Disconnect, Strikes
  <2> QED BY <1>1, <2>1, NothingSigned
<1>6. ASSUME NEW h \in Handlers, Dismiss(h) \/ \E k \in Keys : Receive(h, k) PROVE ReissueInv'
  <2>1. UNCHANGED <<issued, now, store, faults>> /\ cancelled' \subseteq cancelled
    BY <1>6 DEF Dismiss, Receive
  <2>2. /\ pc[h] # "store"
        /\ \A g \in Handlers \ {h} : pc'[g] = pc[g] /\ req'[g] = req[g]
    BY <1>6 DEF Dismiss, Receive, TypeOK
  <2>3. \A k \in Keys : Accounted(k) => Accounted(k)'
    BY <2>1, <2>2 DEF Accounted
  <2> QED BY <1>1, <2>1, <2>3, NothingSigned
<1>7. CASE Crash
  <2>1. UNCHANGED <<issued, now>> /\ faults' = faults + 1
    BY <1>7 DEF Crash, Strikes
  <2> QED BY <1>1, <2>1, NothingSigned
<1>8. CASE Purge
  <2>1. UNCHANGED <<issued, now, faults, pc, req, cancelled>>
    BY <1>8 DEF Purge
  <2>2. ASSUME NEW r \in store, r \notin store'
        PROVE  r.cert \in Certs(r.id) /\ Expired(r.cert, now)
    <3>1. r.cert.notAfter \in Nat
      BY DEF TypeOK, Row, Cert
    <3>2. r.cert \in issued /\ r.cert.key = r.id
      BY DEF SafetyInv, SafetyCore, RowsInv
    <3>3. ~(r.cert.notAfter + PurgeGrace >= now)
      BY <1>8, <2>2 DEF Purge, PurgeExpired
    <3> QED BY <1>1, <3>1, <3>2, <3>3, PurgeGraceAssumption DEF Expired, Certs
  <2>3. \A k \in Keys : Accounted(k) =>
          Accounted(k)' \/ \E c \in Certs(k) : Expired(c, now')
    BY <2>1, <2>2 DEF Accounted
  <2> QED BY <1>1, <2>1, <2>3, NothingSigned
<1>9. CASE Tick
  <2>1. UNCHANGED <<issued, faults, pc, req, cancelled, store>> /\ now' = now + 1
    BY <1>9 DEF Tick
  <2>2. \A k \in Keys : Accounted(k) => Accounted(k)'
    BY <2>1 DEF Accounted
  <2>3. now' \in Nat /\ now' >= now
    BY <1>1, <2>1
  <2> QED BY <2>1, <2>2, <2>3, NothingSigned
<1>10. CASE UNCHANGED vars
  <2>1. UNCHANGED <<issued, now, faults>> /\ \A k \in Keys : Accounted(k) => Accounted(k)'
    BY <1>10 DEF vars, Accounted
  <2> QED BY <1>1, <2>1, NothingSigned
<1> QED BY <1>2, <1>3, <1>4, <1>5, <1>6, <1>7, <1>8, <1>9, <1>10 DEF Next

(***************************************************************************)
(* If requests of one enrollment never overlap, the certificates of an     *)
(* enrollment are at most one more than the faults, until one expires: the *)
(* cache answers the duplicates (README, "Certificate store lookup").      *)
(***************************************************************************)
THEOREM ReissuesAreBounded == ~Overlap /\ Spec => []ReissuesBoundedByFaults
<1> SUFFICES ASSUME ~Overlap PROVE Spec => []ReissuesBoundedByFaults
  OBVIOUS
<1>1. Init => ReissueInv
  <2> SUFFICES ASSUME Init PROVE ReissueInv
    OBVIOUS
  <2>1. issued = {} /\ faults = 0
    BY DEF Init
  <2>2. \A k \in Keys : Certs(k) = {}
    BY <2>1 DEF Certs
  <2> QED BY <2>1, <2>2, FS_EmptySet DEF ReissueInv
<1>2. SafetyInv /\ SequentialInv /\ [Next]_vars => SequentialInv'
  BY SequentialStep
<1>3. SafetyInv /\ SequentialInv /\ ReissueInv /\ [Next]_vars => ReissueInv'
  BY ReissueStep
<1>4. TypeOK /\ ReissueInv => ReissuesBoundedByFaults
  <2> SUFFICES ASSUME TypeOK, ReissueInv, NEW k \in Keys
               PROVE  \/ \E c \in Certs(k) : Expired(c, now)
                      \/ Cardinality(Certs(k)) <= faults + 1
    BY DEF ReissuesBoundedByFaults, Certs
  <2>1. Cardinality(Certs(k)) \in Nat /\ faults \in Nat
    BY CertsCounted DEF ReissueInv, TypeOK
  <2> QED BY <2>1 DEF ReissueInv
<1> QED
  BY <1>1, <1>2, <1>3, <1>4, SequentialInit, SafetyInvariant, TypeCorrect, PTL DEF Spec

-----------------------------------------------------------------------------
(* With overlap, each handler may cost one certificate more. *)

\* Handlers that are about to store a certificate of k, and handlers that
\* are past the lookup and may still ask step-ca for one.
Storing(k) == {h \in Handlers : pc[h] = "store" /\ req[h] = k /\ h \notin cancelled}
Signing(k) == {h \in Handlers : pc[h] \in {"verify", "sign"} /\ req[h] = k}

\* A fault may waste the certificate of every handler: a crash does.
Wasted == Cardinality(Handlers) * faults

\* As long as the cache has no row, a certificate was wasted or is about to be
\* stored; once it has one, only who is past the lookup can ask for another.
Bounded(k) ==
  \/ \E c \in Certs(k) : Expired(c, now)
  \/ /\ \A r \in store : r.id # k
     /\ Cardinality(Certs(k)) <= Wasted + Cardinality(Storing(k))
  \/ /\ \E r \in store : r.id = k
     /\ Cardinality(Certs(k)) + Cardinality(Signing(k)) <= Wasted + Cardinality(Handlers)
OverlapInv == IsFiniteSet(issued) /\ \A k \in Keys : Bounded(k)

\* The handlers of one enrollment are finitely many, and none is at two calls,
\* before a step or after it.
LEMMA HandlersCounted ==
  ASSUME IsFiniteSet(Handlers), NEW k
  PROVE  /\ Cardinality(Handlers) \in Nat
         /\ IsFiniteSet(Storing(k)) /\ Cardinality(Storing(k)) \in Nat
         /\ IsFiniteSet(Signing(k)) /\ Cardinality(Signing(k)) \in Nat
         /\ Cardinality(Storing(k)) + Cardinality(Signing(k)) <= Cardinality(Handlers)
         /\ IsFiniteSet(Storing(k)') /\ Cardinality(Storing(k)') \in Nat
         /\ IsFiniteSet(Signing(k)') /\ Cardinality(Signing(k)') \in Nat
         /\ Cardinality(Storing(k)') + Cardinality(Signing(k)') <= Cardinality(Handlers)
<1>1. ASSUME NEW S \in SUBSET Handlers, NEW V \in SUBSET Handlers, S \cap V = {}
      PROVE  /\ IsFiniteSet(S) /\ Cardinality(S) \in Nat
             /\ IsFiniteSet(V) /\ Cardinality(V) \in Nat
             /\ Cardinality(S) + Cardinality(V) <= Cardinality(Handlers)
  <2>1. IsFiniteSet(S) /\ IsFiniteSet(V)
    BY FS_Subset
  <2>2. Cardinality(S \cap V) = 0
    BY <1>1, FS_EmptySet
  <2>3. Cardinality(S \cup V) = Cardinality(S) + Cardinality(V) - Cardinality(S \cap V)
    BY <2>1, FS_Union
  <2>4. S \cup V \in SUBSET Handlers
    OBVIOUS
  <2>5. Cardinality(S \cup V) <= Cardinality(Handlers)
    BY <2>4, FS_Subset
  <2>6. Cardinality(S) \in Nat /\ Cardinality(V) \in Nat
    BY <2>1, FS_CardinalityType
  <2> QED BY <2>1, <2>2, <2>3, <2>5, <2>6
<1>2. /\ Storing(k) \in SUBSET Handlers /\ Signing(k) \in SUBSET Handlers
      /\ Storing(k) \cap Signing(k) = {}
  BY DEF Storing, Signing
<1>3. /\ Storing(k)' \in SUBSET Handlers /\ Signing(k)' \in SUBSET Handlers
      /\ Storing(k)' \cap Signing(k)' = {}
  BY DEF Storing, Signing
<1>4. Cardinality(Handlers) \in Nat
  BY FS_CardinalityType
<1> QED BY <1>1, <1>2, <1>3, <1>4

\* One more fault wastes one more certificate per handler.
LEMMA WastedCounted ==
  ASSUME IsFiniteSet(Handlers), TypeOK
  PROVE  /\ Wasted \in Nat
         /\ faults' = faults + 1 => Wasted' = Wasted + Cardinality(Handlers)
         /\ faults' = faults => Wasted' = Wasted
<1>1. Cardinality(Handlers) \in Nat /\ faults \in Nat
  BY FS_CardinalityType DEF TypeOK
<1>2. \A m, n \in Nat : m * n \in Nat /\ m * (n + 1) = m * n + m
  OBVIOUS
<1> QED BY <1>1, <1>2 DEF Wasted

\* An expired certificate stays expired.
LEMMA ExpiredStays ==
  ASSUME TypeOK, NEW k, now' \in Nat, now' >= now, Certs(k) \subseteq Certs(k)',
         \E c \in Certs(k) : Expired(c, now)
  PROVE  \E c \in Certs(k)' : Expired(c, now')
<1>1. now \in Nat /\ \A c \in Certs(k) : c.notAfter \in Nat
  BY DEF TypeOK, Cert, Certs
<1> QED BY <1>1 DEF Expired

\* A step in which something goes wrong keeps the bound, as long as it signs
\* no certificate beyond the one that some handler was entitled to.
LEMMA FaultKeepsBound ==
  ASSUME IsFiniteSet(Handlers), TypeOK, IsFiniteSet(issued), NEW k, Bounded(k),
         now' \in Nat, now' >= now, faults' = faults + 1,
         \/ Certs(k)' = Certs(k)
         \/ /\ Certs(k) \subseteq Certs(k)' /\ Cardinality(Certs(k)') \in Nat
            /\ Cardinality(Certs(k)') <= Cardinality(Certs(k)) + 1
            /\ Cardinality(Signing(k)) >= 1
  PROVE  Bounded(k)'
<1>1. CASE \E c \in Certs(k) : Expired(c, now)
  BY <1>1, ExpiredStays DEF Bounded
<1>2. CASE ~\E c \in Certs(k) : Expired(c, now)
  <2>1. /\ Cardinality(Handlers) \in Nat
        /\ Cardinality(Storing(k)) \in Nat /\ Cardinality(Signing(k)) \in Nat
        /\ Cardinality(Storing(k)) + Cardinality(Signing(k)) <= Cardinality(Handlers)
    BY HandlersCounted
  <2>2. /\ Cardinality(Storing(k)') \in Nat /\ Cardinality(Signing(k)') \in Nat
        /\ Cardinality(Storing(k)') + Cardinality(Signing(k)') <= Cardinality(Handlers)
    BY HandlersCounted
  <2>3. Wasted \in Nat /\ Wasted' = Wasted + Cardinality(Handlers)
    BY WastedCounted
  <2>4. Cardinality(Certs(k)) \in Nat
    BY CertsCounted
  <2>5. \/ Cardinality(Certs(k)) <= Wasted + Cardinality(Storing(k))
        \/ Cardinality(Certs(k)) + Cardinality(Signing(k)) <= Wasted + Cardinality(Handlers)
    BY <1>2 DEF Bounded
  <2>6. Cardinality(Certs(k)') \in Nat
    BY <2>4
  <2>7. Cardinality(Certs(k)') <= Wasted + Cardinality(Handlers)
    BY <2>1, <2>3, <2>4, <2>5, <2>6
  <2>8. /\ Cardinality(Certs(k)') <= Wasted' + Cardinality(Storing(k)')
        /\ Cardinality(Certs(k)') + Cardinality(Signing(k)') <= Wasted' + Cardinality(Handlers)
    BY <2>1, <2>2, <2>3, <2>6, <2>7
  <2> QED BY <2>8 DEF Bounded
<1> QED BY <1>1, <1>2

\* A step that signs nothing for k, empties no row of k, loses nothing about
\* to be stored and, if there is a row, lets nobody past the lookup, keeps it.
LEMMA QuietKeepsBound ==
  ASSUME IsFiniteSet(Handlers), TypeOK, IsFiniteSet(issued), NEW k, Bounded(k),
         now' \in Nat, now' >= now, faults' = faults, Certs(k)' = Certs(k),
         (\E r \in store : r.id = k) <=> (\E r \in store' : r.id = k),
         Storing(k) \subseteq Storing(k)',
         \/ \E c \in Certs(k) : Expired(c, now)
         \/ \A r \in store : r.id # k
         \/ Signing(k)' \subseteq Signing(k)
  PROVE  Bounded(k)'
<1>1. CASE \E c \in Certs(k) : Expired(c, now)
  BY <1>1, ExpiredStays DEF Bounded
<1>2. CASE ~\E c \in Certs(k) : Expired(c, now)
  <2>1. Cardinality(Handlers) \in Nat /\ Wasted \in Nat /\ Wasted' = Wasted
    BY WastedCounted, HandlersCounted
  <2>2. /\ IsFiniteSet(Storing(k)) /\ Cardinality(Storing(k)) \in Nat
        /\ IsFiniteSet(Signing(k)) /\ Cardinality(Signing(k)) \in Nat
    BY HandlersCounted
  <2>3. /\ IsFiniteSet(Storing(k)') /\ Cardinality(Storing(k)') \in Nat
        /\ IsFiniteSet(Signing(k)') /\ Cardinality(Signing(k)') \in Nat
    BY HandlersCounted DEF Storing, Signing
  <2>4. Cardinality(Certs(k)) \in Nat /\ Cardinality(Certs(k)') = Cardinality(Certs(k))
    BY CertsCounted
  <2>5. CASE \A r \in store : r.id # k
    <3>1. Cardinality(Storing(k)) <= Cardinality(Storing(k)')
      BY <2>3, FS_Subset
    <3>2. Cardinality(Certs(k)) <= Wasted + Cardinality(Storing(k))
      BY <1>2, <2>5 DEF Bounded
    <3>3. Cardinality(Certs(k)') <= Wasted' + Cardinality(Storing(k)')
      BY <2>1, <2>2, <2>3, <2>4, <3>1, <3>2
    <3> QED BY <2>5, <3>3 DEF Bounded
  <2>6. CASE \E r \in store : r.id = k
    <3>1. Cardinality(Signing(k)') <= Cardinality(Signing(k))
      BY <1>2, <2>2, <2>6, FS_Subset
    <3>2. Cardinality(Certs(k)) + Cardinality(Signing(k)) <= Wasted + Cardinality(Handlers)
      BY <1>2, <2>6 DEF Bounded
    <3>3. Cardinality(Certs(k)') + Cardinality(Signing(k)') <= Wasted' + Cardinality(Handlers)
      BY <2>1, <2>2, <2>3, <2>4, <3>1, <3>2
    <3> QED BY <2>6, <3>3 DEF Bounded
  <2> QED BY <2>5, <2>6
<1> QED BY <1>1, <1>2

\* A handler goes past the lookup only if the cache has no live row, and asks
\* step-ca only from there.
LEMMA CallKeepsBound ==
  ASSUME IsFiniteSet(Handlers), SafetyInv, OverlapInv, NEW k \in Keys,
         NEW h \in Handlers, Step(h), ~Sign(h), ~Store(h)
  PROVE  Bounded(k)'
<1> USE DEF handlerVars, intuneVars, caVars, envVars, Idle, Serving, Goto, Continue, Hold, End,
            Refuse
<1>0. /\ TypeOK /\ now \in Nat /\ now >= now /\ IsFiniteSet(issued) /\ Bounded(k)
      /\ RowsInv
  BY DEF SafetyInv, SafetyCore, TypeOK, OverlapInv
<1>1. /\ UNCHANGED <<issued, now>>
      /\ faults' = faults + 1 \/ UNCHANGED <<faults, cancelled>>
      /\ pc[h] # "store" /\ pc'[h] # "store"
      /\ \A g \in Handlers \ {h} : pc'[g] = pc[g] /\ req'[g] = req[g]
      /\ \A r \in store : \E s \in store' : s.id = r.id
      /\ \A s \in store' : \E r \in store : s.id = r.id
  BY CallEffect
<1>2. Certs(k)' = Certs(k)
  BY <1>1 DEF Certs
<1>3. CASE faults' = faults + 1
  BY <1>0, <1>1, <1>2, <1>3, FaultKeepsBound
<1>4. CASE UNCHANGED <<faults, cancelled>>
  <2>1. Storing(k) \subseteq Storing(k)'
    BY <1>1, <1>4 DEF Storing
  <2>2. \/ pc'[h] \notin {"verify", "sign"}
        \/ pc[h] \in {"verify", "sign"} /\ req'[h] = req[h]
        \/ (\A r \in store : r.id = req[h] => Expired(r.cert, now)) /\ req'[h] = req[h]
    BY <1>0 DEF TypeOK, Step, Lookup, Renotify, Remark, ReplyStored, Verify, Report, Notify, Mark,
       Reply, NotifySuccess, MarkNotified, Deliver, GetCert
  <2>3. \/ \E c \in Certs(k) : Expired(c, now)
        \/ \A r \in store : r.id # k
        \/ Signing(k)' \subseteq Signing(k)
    <3>1. ASSUME NEW r \in store, r.id = k, Expired(r.cert, now)
          PROVE  \E c \in Certs(k) : Expired(c, now)
      BY <1>0, <3>1 DEF RowsInv, Certs
    <3> QED BY <1>1, <2>2, <3>1 DEF Signing
  <2>4. (\E r \in store : r.id = k) <=> (\E r \in store' : r.id = k)
    BY <1>1
  <2> QED BY <1>0, <1>1, <1>2, <1>4, <2>1, <2>3, <2>4, QuietKeepsBound
<1> QED BY <1>1, <1>3, <1>4

\* SignCSR turns a handler past the lookup into one about to store.
LEMMA SignKeepsBound ==
  ASSUME IsFiniteSet(Handlers), SafetyInv, OverlapInv, NEW k \in Keys,
         NEW h \in Handlers, Sign(h)
  PROVE  IsFiniteSet(issued)' /\ Bounded(k)'
<1> USE DEF handlerVars, intuneVars, caVars, envVars, Idle, Serving, Goto, Continue, Hold, End,
            Refuse
<1> DEFINE key == req[h]
<1> DEFINE c == NewCert(key)
<1>0. TypeOK /\ now \in Nat /\ now >= now /\ IsFiniteSet(issued) /\ Bounded(k)
  BY DEF SafetyInv, SafetyCore, TypeOK, OverlapInv
<1>1. pc[h] = "sign" /\ UNCHANGED <<now, store>>
  BY DEF Sign
<1>2. /\ \A g \in Handlers \ {h} : pc'[g] = pc[g] /\ req'[g] = req[g]
      /\ req'[h] = req[h] /\ pc'[h] \in {"store", "report"}
  BY <1>0 DEF TypeOK, Sign
<1>3. \/ /\ UNCHANGED issued
         /\ faults' = faults + 1 \/ UNCHANGED <<faults, cancelled>>
      \/ issued' = issued \cup {c} /\ faults' = faults + 1
      \/ /\ issued' = issued \cup {c} /\ UNCHANGED <<faults, cancelled>>
         /\ pc'[h] = "store" /\ req'[h] = key /\ h \notin cancelled
  BY <1>0 DEF Sign, SignedByCA, Runs, Fails, Loses, Strikes, TypeOK
<1>4. c.key = key
  BY DEF NewCert
<1>5. h \in Signing(key) /\ Signing(k)' \subseteq Signing(k) \ {h}
  BY <1>1, <1>2 DEF Signing, key
<1>6. UNCHANGED cancelled => Storing(k) \subseteq Storing(k)'
  BY <1>1, <1>2 DEF Storing
<1> HIDE DEF c, key
<1>7. /\ IsFiniteSet(issued \cup {c})
      /\ issued' = issued \cup {c} =>
           /\ Certs(k) \subseteq Certs(k)' /\ Cardinality(Certs(k)') \in Nat
           /\ Cardinality(Certs(k)') <= Cardinality(Certs(k)) + 1
           /\ k # key => Certs(k)' = Certs(k)
  BY <1>0, <1>4, CertsCounted DEF Certs
<1>8. Cardinality(Signing(key)) >= 1 /\ Cardinality(Signing(key)) \in Nat
  <2>1. IsFiniteSet(Signing(key)) /\ Cardinality(Signing(key)) \in Nat
    BY HandlersCounted
  <2>2. Cardinality(Signing(key)) # 0
    BY <1>5, <2>1, FS_EmptySet
  <2> QED BY <2>1, <2>2
<1>9. CASE UNCHANGED issued \/ k # key
  <2>1. Certs(k)' = Certs(k) /\ IsFiniteSet(issued)'
    BY <1>0, <1>3, <1>7, <1>9 DEF Certs
  <2>2. CASE faults' = faults + 1
    BY <1>0, <1>1, <2>1, <2>2, FaultKeepsBound
  <2>3. CASE UNCHANGED <<faults, cancelled>>
    BY <1>0, <1>1, <1>5, <1>6, <2>1, <2>3, QuietKeepsBound
  <2> QED BY <1>3, <2>1, <2>2, <2>3
<1>10. CASE issued' = issued \cup {c} /\ k = key /\ faults' = faults + 1
  BY <1>0, <1>1, <1>7, <1>8, <1>10, FaultKeepsBound
<1>11. CASE /\ issued' = issued \cup {c} /\ k = key /\ UNCHANGED <<faults, cancelled>>
            /\ pc'[h] = "store" /\ req'[h] = key /\ h \notin cancelled
  <2>1. IsFiniteSet(issued)'
    BY <1>7, <1>11
  <2>2. CASE \E d \in Certs(k) : Expired(d, now)
    BY <1>0, <1>1, <1>7, <1>11, <2>1, <2>2, ExpiredStays DEF Bounded
  <2>3. CASE ~\E d \in Certs(k) : Expired(d, now)
    <3>1. Wasted \in Nat /\ Wasted' = Wasted /\ Cardinality(Handlers) \in Nat
      BY <1>0, <1>11, WastedCounted, HandlersCounted
    <3>2. Cardinality(Certs(k)) \in Nat
      BY <1>0, CertsCounted
    <3>3. CASE \A r \in store : r.id # k
      <4>1. Storing(k) \cup {h} \subseteq Storing(k)' /\ h \notin Storing(k)
        BY <1>1, <1>6, <1>11 DEF Storing
      <4>2. /\ IsFiniteSet(Storing(k)) /\ Cardinality(Storing(k)) \in Nat
            /\ IsFiniteSet(Storing(k)') /\ Cardinality(Storing(k)') \in Nat
        BY HandlersCounted
      <4>3. Cardinality(Storing(k) \cup {h}) = Cardinality(Storing(k)) + 1
        BY <4>1, <4>2, FS_AddElement
      <4>4. Cardinality(Storing(k) \cup {h}) <= Cardinality(Storing(k)')
        BY <4>1, <4>2, FS_Subset
      <4>5. Cardinality(Certs(k)) <= Wasted + Cardinality(Storing(k))
        BY <1>0, <2>3, <3>3 DEF Bounded
      <4>6. Cardinality(Certs(k)') <= Wasted' + Cardinality(Storing(k)')
        BY <1>7, <1>11, <3>1, <3>2, <4>2, <4>3, <4>4, <4>5
      <4> QED BY <1>1, <2>1, <3>3, <4>6 DEF Bounded
    <3>4. CASE \E r \in store : r.id = k
      <4>1. /\ IsFiniteSet(Signing(k)) /\ Cardinality(Signing(k)) \in Nat
            /\ IsFiniteSet(Signing(k)') /\ Cardinality(Signing(k)') \in Nat
        BY HandlersCounted
      <4>2. /\ IsFiniteSet(Signing(k) \ {h})
            /\ Cardinality(Signing(k) \ {h}) = Cardinality(Signing(k)) - 1
        BY <1>5, <1>11, <4>1, FS_RemoveElement
      <4>3. Cardinality(Signing(k)') <= Cardinality(Signing(k) \ {h})
        BY <1>5, <4>2, FS_Subset
      <4>4. Cardinality(Certs(k)) + Cardinality(Signing(k)) <= Wasted + Cardinality(Handlers)
        BY <1>0, <2>3, <3>4 DEF Bounded
      <4>5. Cardinality(Certs(k)') + Cardinality(Signing(k)') <= Wasted' + Cardinality(Handlers)
        BY <1>7, <1>11, <3>1, <3>2, <4>1, <4>2, <4>3, <4>4
      <4> QED BY <1>1, <2>1, <3>4, <4>5 DEF Bounded
    <3> QED BY <3>3, <3>4
  <2> QED BY <2>1, <2>2, <2>3
<1> QED BY <1>3, <1>7, <1>9, <1>10, <1>11

\* StoreCert takes the step from wasted certificates to a row in the cache.
LEMMA StoreKeepsBound ==
  ASSUME IsFiniteSet(Handlers), SafetyInv, OverlapInv, NEW k \in Keys,
         NEW h \in Handlers, Store(h)
  PROVE  Bounded(k)'
<1> USE DEF handlerVars, intuneVars, caVars, envVars, Idle, Serving, Goto, Continue
<1>0. TypeOK /\ now \in Nat /\ now >= now /\ IsFiniteSet(issued) /\ Bounded(k)
  BY DEF SafetyInv, SafetyCore, TypeOK, OverlapInv
<1>1. /\ pc[h] = "store" /\ pc'[h] = "notify" /\ req' = req /\ UNCHANGED <<issued, now>>
      /\ \A g \in Handlers \ {h} : pc'[g] = pc[g]
  BY <1>0 DEF Store, TypeOK
<1>2. \/ faults' = faults + 1
      \/ h \in cancelled /\ UNCHANGED <<store, faults, cancelled>>
      \/ /\ store' = StoreCert(store, req[h], crt[h])
         /\ UNCHANGED <<faults, cancelled>>
  BY DEF Store, Runs, Fails, Loses, Strikes
<1>3. Certs(k)' = Certs(k)
  BY <1>1 DEF Certs
<1>4. Signing(k)' = Signing(k)
  BY <1>1 DEF Signing
<1>5. CASE faults' = faults + 1
  BY <1>0, <1>1, <1>3, <1>5, FaultKeepsBound
<1>6. CASE h \in cancelled /\ UNCHANGED <<store, faults, cancelled>>
  <2>1. Storing(k) \subseteq Storing(k)'
    BY <1>1, <1>6 DEF Storing
  <2> QED BY <1>0, <1>1, <1>3, <1>4, <1>6, <2>1, QuietKeepsBound
<1>7. CASE /\ store' = StoreCert(store, req[h], crt[h])
           /\ UNCHANGED <<faults, cancelled>>
  <2> DEFINE row == [id |-> req[h], cert |-> crt[h], notified |-> FALSE]
  <2>1. \/ (\A r \in store : r.id # req[h]) /\ store' = store \cup {row}
        \/ (\E r \in store : r.id = req[h]) /\ store' = store
    BY <1>7 DEF StoreCert, GetCert
  <2>2. row.id = req[h]
    OBVIOUS
  <2> HIDE DEF row
  <2>3. CASE \E c \in Certs(k) : Expired(c, now)
    BY <1>0, <1>1, <1>3, <2>3, ExpiredStays DEF Bounded
  <2>4. CASE k # req[h]
    <3>1. Storing(k) \subseteq Storing(k)'
      BY <1>1, <1>7, <2>4 DEF Storing
    <3>2. (\E r \in store : r.id = k) <=> (\E r \in store' : r.id = k)
      BY <2>1, <2>2, <2>4
    <3> QED BY <1>0, <1>1, <1>3, <1>4, <1>7, <3>1, <3>2, QuietKeepsBound
  <2>5. CASE k = req[h] /\ ~\E c \in Certs(k) : Expired(c, now)
    <3>1. \E r \in store' : r.id = k
      BY <2>1, <2>2, <2>5
    <3>2. /\ Cardinality(Storing(k)) \in Nat /\ Cardinality(Signing(k)) \in Nat
          /\ Cardinality(Storing(k)) + Cardinality(Signing(k)) <= Cardinality(Handlers)
          /\ Cardinality(Handlers) \in Nat
      BY HandlersCounted
    <3>3. Wasted \in Nat /\ Wasted' = Wasted /\ Cardinality(Certs(k)) \in Nat
      BY <1>0, <1>7, WastedCounted, CertsCounted
    <3>4. \/ Cardinality(Certs(k)) <= Wasted + Cardinality(Storing(k))
          \/ Cardinality(Certs(k)) + Cardinality(Signing(k)) <= Wasted + Cardinality(Handlers)
      BY <1>0, <2>5 DEF Bounded
    <3>5. Cardinality(Certs(k)) + Cardinality(Signing(k)) <= Wasted + Cardinality(Handlers)
      BY <3>2, <3>3, <3>4
    <3>6. Cardinality(Certs(k)') + Cardinality(Signing(k)') <= Wasted' + Cardinality(Handlers)
      BY <1>3, <1>4, <3>3, <3>5
    <3> QED BY <3>1, <3>6 DEF Bounded
  <2> QED BY <2>3, <2>4, <2>5
<1> QED BY <1>2, <1>5, <1>6, <1>7

\* Every call, fault, purge and tick keeps the bound, however handlers overlap.
LEMMA OverlapStep ==
  IsFiniteSet(Handlers) /\ SafetyInv /\ OverlapInv /\ [Next]_vars => OverlapInv'
<1> SUFFICES ASSUME IsFiniteSet(Handlers), SafetyInv, OverlapInv, [Next]_vars
             PROVE  OverlapInv'
  OBVIOUS
<1>0. /\ TypeOK /\ RowsInv /\ now \in Nat /\ now >= now /\ now + 1 \in Nat /\ now + 1 >= now
      /\ IsFiniteSet(issued) /\ \A k \in Keys : Bounded(k)
  BY DEF SafetyInv, SafetyCore, TypeOK, OverlapInv
<1> USE DEF handlerVars, intuneVars, caVars, envVars, Idle, Serving
<1>1. ASSUME NEW h \in Handlers, Step(h) PROVE OverlapInv'
  <2>1. CASE Sign(h)
    <3>1. req[h] \in Keys
      BY <1>0, <2>1 DEF Sign, TypeOK
    <3>2. IsFiniteSet(issued)'
      BY <2>1, <3>1, SignKeepsBound
    <3>3. \A k \in Keys : Bounded(k)'
      BY <2>1, SignKeepsBound
    <3> QED BY <3>2, <3>3 DEF OverlapInv
  <2>2. CASE Store(h)
    BY <1>0, <2>2, StoreKeepsBound DEF OverlapInv, Store
  <2>3. CASE ~Sign(h) /\ ~Store(h)
    BY <1>0, <1>1, <2>3, CallEffect, CallKeepsBound DEF OverlapInv
  <2> QED BY <2>1, <2>2, <2>3
<1>2. CASE Crash \/ \E h \in Handlers : Disconnect(h)
  <2>1. UNCHANGED <<issued, now>> /\ faults' = faults + 1
    BY <1>2 DEF Crash, Disconnect, Strikes
  <2>2. \A k \in Keys : Certs(k)' = Certs(k)
    BY <2>1 DEF Certs
  <2> QED BY <1>0, <2>1, <2>2, FaultKeepsBound DEF OverlapInv
<1>3. ASSUME NEW h \in Handlers, Dismiss(h) \/ \E k \in Keys : Receive(h, k)
      PROVE  OverlapInv'
  <2>1. UNCHANGED <<issued, now, store, faults>> /\ cancelled' \subseteq cancelled
    BY <1>3 DEF Dismiss, Receive
  <2>2. /\ pc[h] # "store" /\ pc'[h] \in {"lookup", "refused"}
        /\ \A g \in Handlers \ {h} : pc'[g] = pc[g] /\ req'[g] = req[g]
    BY <1>0, <1>3 DEF Dismiss, Receive, TypeOK, Goto, Refuse, End
  <2>3. ASSUME NEW k \in Keys
        PROVE  /\ Certs(k)' = Certs(k) /\ Storing(k) \subseteq Storing(k)'
               /\ Signing(k)' \subseteq Signing(k)
    BY <2>1, <2>2 DEF Certs, Storing, Signing
  <2> QED BY <1>0, <2>1, <2>3, QuietKeepsBound DEF OverlapInv
<1>4. CASE Purge
  <2>1. UNCHANGED <<issued, now, faults, pc, req, cancelled>> /\ store' = PurgeExpired(store, now)
    BY <1>4 DEF Purge
  <2>2. ASSUME NEW k \in Keys PROVE Bounded(k)'
    <3>1. Certs(k)' = Certs(k) /\ Storing(k)' = Storing(k) /\ Signing(k)' = Signing(k)
      BY <2>1 DEF Certs, Storing, Signing
    <3>2. CASE \E c \in Certs(k) : Expired(c, now)
      BY <1>0, <2>1, <3>1, <3>2, ExpiredStays DEF Bounded
    <3>3. CASE ~\E c \in Certs(k) : Expired(c, now)
      <4>1. \A r \in store : r.id = k => ~Expired(r.cert, now)
        BY <1>0, <3>3 DEF RowsInv, Certs
      <4>2. \A r \in store : r.id = k => r \in store'
        BY <1>0, <2>1, <4>1, PurgeEffect DEF TypeOK
      <4>3. store' \subseteq store
        BY <2>1 DEF PurgeExpired
      <4>4. (\E r \in store : r.id = k) <=> (\E r \in store' : r.id = k)
        BY <4>2, <4>3
      <4> QED BY <1>0, <2>1, <3>1, <4>4, QuietKeepsBound
    <3> QED BY <3>2, <3>3
  <2> QED BY <1>0, <2>1, <2>2 DEF OverlapInv
<1>5. CASE Tick \/ UNCHANGED vars
  <2>1. /\ UNCHANGED <<issued, faults, pc, req, cancelled, store>>
        /\ now' \in Nat /\ now' >= now
    BY <1>0, <1>5 DEF Tick, vars
  <2>2. ASSUME NEW k \in Keys
        PROVE  Certs(k)' = Certs(k) /\ Storing(k)' = Storing(k) /\ Signing(k)' = Signing(k)
    BY <2>1 DEF Certs, Storing, Signing
  <2> QED BY <1>0, <2>1, <2>2, QuietKeepsBound DEF OverlapInv
<1> QED BY <1>1, <1>2, <1>3, <1>4, <1>5 DEF Next

(***************************************************************************)
(* However the requests of an enrollment overlap, and whatever fails, its  *)
(* certificates are at most one per handler, and one more per handler and  *)
(* fault, until one expires.  The two disjuncts of the invariant are what  *)
(* the primary key of the cache is good for: before the first StoreCert a  *)
(* certificate more is a handler's, after it no new handler asks for one.  *)
(***************************************************************************)
THEOREM ReissuesAreBoundedWithOverlap ==
  IsFiniteSet(Handlers) /\ Spec => []ReissuesBoundedByHandlers
<1> SUFFICES ASSUME IsFiniteSet(Handlers) PROVE Spec => []ReissuesBoundedByHandlers
  OBVIOUS
<1>1. Init => OverlapInv
  <2> SUFFICES ASSUME Init PROVE OverlapInv
    OBVIOUS
  <2>1. issued = {} /\ store = {}
    BY DEF Init
  <2>2. IsFiniteSet(issued)
    BY <2>1, FS_EmptySet
  <2>3. ASSUME NEW k \in Keys PROVE Bounded(k)
    <3>1. Cardinality(Certs(k)) = 0
      BY <2>1, FS_EmptySet DEF Certs
    <3>2. Wasted \in Nat /\ Cardinality(Storing(k)) \in Nat
      BY TypeInit, WastedCounted, HandlersCounted
    <3>3. Cardinality(Certs(k)) <= Wasted + Cardinality(Storing(k))
      BY <3>1, <3>2
    <3> QED BY <2>1, <3>3 DEF Bounded
  <2> QED BY <2>2, <2>3 DEF OverlapInv
<1>2. SafetyInv /\ OverlapInv /\ [Next]_vars => OverlapInv'
  BY OverlapStep
<1>3. SafetyInv /\ OverlapInv => ReissuesBoundedByHandlers
  <2> SUFFICES ASSUME TypeOK, OverlapInv, NEW k \in Keys
               PROVE  \/ \E c \in Certs(k) : Expired(c, now)
                      \/ Cardinality(Certs(k)) <= Cardinality(Handlers) * (faults + 1)
    BY DEF SafetyInv, SafetyCore, ReissuesBoundedByHandlers, Certs
  <2>1. /\ Cardinality(Handlers) \in Nat /\ faults \in Nat /\ Wasted \in Nat
        /\ Cardinality(Certs(k)) \in Nat
        /\ Cardinality(Storing(k)) \in Nat /\ Cardinality(Signing(k)) \in Nat
        /\ Cardinality(Storing(k)) + Cardinality(Signing(k)) <= Cardinality(Handlers)
    BY HandlersCounted, CertsCounted, WastedCounted DEF OverlapInv, TypeOK
  <2>2. \A m, n \in Nat : m * (n + 1) = m * n + m
    OBVIOUS
  <2>3. Cardinality(Handlers) * (faults + 1) = Wasted + Cardinality(Handlers)
    BY <2>1, <2>2 DEF Wasted
  <2>4. \/ \E c \in Certs(k) : Expired(c, now)
        \/ Cardinality(Certs(k)) <= Wasted + Cardinality(Storing(k))
        \/ Cardinality(Certs(k)) + Cardinality(Signing(k)) <= Wasted + Cardinality(Handlers)
    BY DEF OverlapInv, Bounded
  <2> QED BY <2>1, <2>3, <2>4
<1> QED BY <1>1, <1>2, <1>3, SafetyInvariant, PTL DEF Spec
================================================================================
