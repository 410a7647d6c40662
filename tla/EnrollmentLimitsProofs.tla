------------------------- MODULE EnrollmentLimitsProofs -------------------------
(***************************************************************************)
(* How far the promises about failures and about the record go: what alone *)
(* may divert a good request, and under which conditions the two sentences *)
(* of the documentation that the code does not keep in general do hold.    *)
(***************************************************************************)
EXTENDS EnrollmentProofs

-----------------------------------------------------------------------------
(* A good request is refused for a cause. *)

\* One step: a branch of handleCSRRequest that leaves the path to the
\* certificate of a good request does so on an error only.
LEMMA DivertedForCause ==
  ASSUME TypeOK, [Next]_vars, NEW h \in Handlers,
         Serving(h), pc[h] # "report", pc'[h] \in {"refused", "report"},
         req[h] \in Provisioned, SignRequestAccepted(Csr[req[h]], setup)
  PROVE  h \in cancelled \/ faults' > faults
<1> USE DEF TypeOK, Serving, Idle, Goto, Continue, Hold, End, Refuse
<1>1. faults \in Nat /\ faults + 1 > faults
  BY DEF TypeOK
<1>2. ASSUME NEW call, Fails(h, call) \/ Loses(h, call)
      PROVE  h \in cancelled \/ faults' > faults
  BY <1>1, <1>2 DEF Fails, Loses, Strikes
<1>3. CASE Lookup(h)
  BY <1>2, <1>3 DEF Lookup
<1>4. CASE Renotify(h) \/ Notify(h)
  BY <1>2, <1>4 DEF Renotify, Notify, NotifySuccess
<1>5. CASE Verify(h)
  BY <1>2, <1>5 DEF Verify
<1>6. CASE Sign(h)
  BY <1>2, <1>6 DEF Sign
<1>7. CASE ReplyStored(h) \/ Reply(h)
  BY <1>1, <1>7 DEF ReplyStored, Reply, Deliver, EnvelopeFails, Strikes
<1>8. CASE Remark(h) \/ Mark(h) \/ Store(h)
  BY <1>8 DEF Remark, Mark, Store, MarkNotified
<1>9. ASSUME NEW g \in Handlers, g # h,
             Step(g) \/ Dismiss(g) \/ \E k \in Keys : Receive(g, k)
      PROVE  pc'[h] = pc[h]
  BY <1>9 DEF Step, Lookup, Renotify, Remark, ReplyStored, Verify, Sign, Report, Store, Notify,
     Mark, Reply, NotifySuccess, MarkNotified, Deliver, Dismiss, Receive
<1>10. ~Dismiss(h) /\ ~Report(h) /\ \A k \in Keys : ~Receive(h, k)
  BY DEF Dismiss, Report, Receive
<1>11. CASE Crash \/ Purge \/ Tick \/ UNCHANGED vars \/ \E g \in Handlers : Disconnect(g)
  BY <1>11 DEF Crash, Purge, Tick, vars, Disconnect, handlerVars
<1> QED
  BY <1>3, <1>4, <1>5, <1>6, <1>7, <1>8, <1>9, <1>10, <1>11 DEF Next, Step

(***************************************************************************)
(* However requests overlap and whatever earlier failures left behind, a   *)
(* request that Intune provisioned and step-ca would sign is turned away   *)
(* only by an error of this very call or by the disconnect of its client.  *)
(***************************************************************************)
THEOREM RefusalsHaveCauses == Spec => RefusedForCause
<1>1. TypeOK /\ [Next]_vars =>
        [\A h \in Handlers :
           Serving(h) /\ pc[h] # "report" /\ pc'[h] \in {"refused", "report"}
           /\ req[h] \in Provisioned /\ SignRequestAccepted(Csr[req[h]], setup)
             => h \in cancelled \/ faults' > faults]_vars
  BY DivertedForCause
<1> QED BY <1>1, TypeCorrect, PTL DEF Spec, RefusedForCause

-----------------------------------------------------------------------------
(* When failures are reported. *)

\* Without disconnects no context is cancelled, and then a refusal behind
\* VerifyCSR is a failed notification or was reported.
LEMMA ReportedStep ==
  ASSUME Faulty \cap {"notify", "disconnect"} = {}, TypeOK, cancelled = {}, [Next]_vars
  PROVE  /\ cancelled' = {}
         /\ \A h \in Handlers :
              pc[h] \in {"sign", "report", "store", "notify", "mark", "reply"}
              /\ pc'[h] = "refused" => verdict'[req[h]] = "failure"
<1> USE DEF TypeOK, Serving, Idle, Goto, Continue, Hold, End, Refuse
<1>1. \A h, call : /\ ~Strikes("notify") /\ ~Strikes("disconnect")
                   /\ Loses(h, call) => UNCHANGED cancelled
  BY DEF Strikes, Loses
<1>2. cancelled' = {}
  <2>1. ASSUME NEW h \in Handlers, Step(h) PROVE cancelled' = {}
    BY <1>1, <2>1 DEF Step, Lookup, Renotify, Remark, ReplyStored, Verify, Sign, Report, Store,
       Notify, Mark, Reply, NotifySuccess, MarkNotified, Deliver, EnvelopeFails, Runs, Fails
  <2>2. ASSUME NEW h \in Handlers, Disconnect(h) \/ Dismiss(h) \/ \E k \in Keys : Receive(h, k)
        PROVE  cancelled' = {}
    BY <1>1, <2>2 DEF Disconnect, Dismiss, Receive
  <2>3. CASE Crash \/ Purge \/ Tick \/ UNCHANGED vars
    BY <2>3 DEF Crash, Purge, Tick, vars
  <2> QED BY <2>1, <2>2, <2>3 DEF Next
<1>3. ASSUME NEW h \in Handlers,
             pc[h] \in {"sign", "report", "store", "notify", "mark", "reply"}, pc'[h] = "refused"
      PROVE  verdict'[req[h]] = "failure"
  <2>1. CASE Report(h)
    BY <1>1, <1>3, <2>1 DEF Report, AcceptFailure, Fails
  <2>2. CASE Notify(h)
    BY <1>1, <1>3, <2>2 DEF Notify, NotifySuccess, Fails, Loses
  <2>3. ~Sign(h) /\ ~Store(h) /\ ~Mark(h) /\ ~Reply(h)
    BY <1>3 DEF Sign, Store, Mark, Reply, MarkNotified, Deliver
  <2>4. ASSUME NEW g \in Handlers, g # h,
               Step(g) \/ Dismiss(g) \/ \E k \in Keys : Receive(g, k)
        PROVE  pc'[h] = pc[h]
    BY <2>4 DEF Step, Lookup, Renotify, Remark, ReplyStored, Verify, Sign, Report, Store, Notify,
       Mark, Reply, NotifySuccess, MarkNotified, Deliver, Dismiss, Receive
  <2>5. ~Lookup(h) /\ ~Renotify(h) /\ ~Remark(h) /\ ~ReplyStored(h) /\ ~Verify(h)
    BY <1>3 DEF Lookup, Renotify, Remark, ReplyStored, Verify
  <2>6. ~Dismiss(h) /\ \A k \in Keys : ~Receive(h, k)
    BY <1>3 DEF Dismiss, Receive
  <2>7. CASE Crash \/ Purge \/ Tick \/ UNCHANGED vars \/ \E g \in Handlers : Disconnect(g)
    BY <1>3, <2>7 DEF Crash, Purge, Tick, vars, Disconnect, handlerVars
  <2> QED BY <1>3, <2>1, <2>2, <2>3, <2>4, <2>5, <2>6, <2>7 DEF Next, Step
<1> QED BY <1>2, <1>3

(***************************************************************************)
(* "All failures must be reported back to Intune" holds of every request   *)
(* that is refused, if clients stay and notifications get through: neither *)
(* a failing step-ca, cache, mark or envelope nor an overlap leaves a      *)
(* refusal unreported.                                                     *)
(***************************************************************************)
THEOREM FailuresAreReported ==
  Faulty \cap {"notify", "disconnect"} = {} /\ Spec => FailuresReported
<1> SUFFICES ASSUME Faulty \cap {"notify", "disconnect"} = {} PROVE Spec => FailuresReported
  OBVIOUS
<1> DEFINE Inv == cancelled = {}
<1>1. Init => Inv
  BY DEF Init
<1>2. TypeOK /\ Inv /\ [Next]_vars =>
        /\ Inv'
        /\ [\A h \in Handlers :
               pc[h] \in {"sign", "report", "store", "notify", "mark", "reply"}
               /\ pc'[h] = "refused" => verdict'[req[h]] = "failure"]_vars
  BY ReportedStep
<1> HIDE DEF Inv
<1> QED BY <1>1, <1>2, TypeCorrect, PTL DEF Spec, FailuresReported

-----------------------------------------------------------------------------
(* When the cache is a record of the certificates that clients hold. *)

Recorded(c) == \E r \in store : r.cert = c
SomeExpired(k) == \E c \in issued : c.key = k /\ Expired(c, now)

\* A handler that found its certificate in the cache or has stored it.
OnRecord(h) == \/ pc[h] \in {"renotify", "remark", "replyStored"}
               \/ pc[h] \in {"notify", "mark", "reply"} /\ h \notin cancelled

\* Until a certificate of the enrollment expires, what its clients hold and
\* what its handlers found or stored is in the cache.
RecordInv ==
  /\ \A d \in delivered : SomeExpired(d.key) \/ Recorded(d.cert)
  /\ \A h \in Handlers :
       OnRecord(h) => SomeExpired(req[h]) \/ Recorded(crt[h])

\* What is recorded stays so until a certificate of the enrollment expires,
\* and one that has expired stays expired: the purge deletes nothing else.
LEMMA RecordStays ==
  ASSUME SafetyInv, [Next]_vars
  PROVE  /\ \A k : SomeExpired(k) => SomeExpired(k)'
         /\ \A c : Recorded(c) => Recorded(c)' \/ SomeExpired(c.key)'
<1>0. TypeOK /\ RowsInv
  BY DEF SafetyInv, SafetyCore
<1>1. issued \subseteq issued' /\ now \in Nat /\ now' \in Nat /\ now' >= now
  <2>1. now \in Nat /\ now >= now /\ now + 1 \in Nat /\ now + 1 >= now
    BY <1>0 DEF TypeOK
  <2>2. ASSUME NEW h \in Handlers,
               Step(h) \/ Disconnect(h) \/ Dismiss(h) \/ \E k \in Keys : Receive(h, k)
        PROVE  issued \subseteq issued' /\ now' = now
    BY <2>2 DEF Step, Lookup, Renotify, Remark, ReplyStored, Verify, Sign, Report, Store, Notify,
       Mark, Reply, NotifySuccess, MarkNotified, SignedByCA, Disconnect, Dismiss, Receive, caVars,
       envVars
  <2>3. CASE Crash \/ Purge \/ Tick \/ UNCHANGED vars
    BY <2>1, <2>3 DEF Crash, Purge, Tick, vars, caVars, envVars
  <2> QED BY <2>1, <2>2, <2>3 DEF Next
<1>2. ASSUME NEW k, SomeExpired(k) PROVE SomeExpired(k)'
  <2>1. PICK c \in issued : c.key = k /\ Expired(c, now)
    BY <1>2 DEF SomeExpired
  <2>2. c \in issued' /\ Expired(c, now')
    BY <1>0, <1>1, <2>1 DEF Expired, TypeOK, Cert
  <2> QED BY <2>1, <2>2 DEF SomeExpired
<1>3. ASSUME NEW c, Recorded(c), ~SomeExpired(c.key)' PROVE Recorded(c)'
  <2>1. PICK r \in store : r.cert = c
    BY <1>3 DEF Recorded
  <2>2. c \in issued'
    BY <1>0, <1>1, <2>1 DEF RowsInv
  <2>3. ~Expired(c, now')
    BY <1>3, <2>2 DEF SomeExpired
  <2>4. \E s \in store' : s.id = r.id /\ s.cert = r.cert /\ (r.notified => s.notified)
    BY <2>1, <2>3, LiveRowStep
  <2> QED BY <2>1, <2>4 DEF Recorded
<1> QED BY <1>2, <1>3

\* A row that a handler finds at StoreCert has expired, as long as requests of
\* one enrollment do not overlap; otherwise its own certificate is stored.
LEMMA StoreRecords ==
  ASSUME SafetyInv, SequentialInv, "store" \notin Faulty, NEW h \in Handlers, Store(h),
         h \notin cancelled, NEW k, k = req[h], NEW c, c = crt[h]
  PROVE  SomeExpired(k)' \/ Recorded(c)'
<1> DEFINE row == [id |-> k, cert |-> c, notified |-> FALSE]
<1>1. pc[h] = "store" /\ UNCHANGED <<issued, now>>
  BY DEF Store, caVars, envVars
<1>2. store' = StoreCert(store, k, c)
  BY DEF Store, Runs, Loses, Fails, Strikes
<1>3. CASE \E r \in store : r.id = k
  <2>1. PICK r \in store : r.id = k
    BY <1>3
  <2>2. Expired(r.cert, now)
    BY <1>1, <2>1 DEF SequentialInv, BranchInv, GetCert
  <2>3. r.cert \in issued /\ r.cert.key = k
    BY <2>1 DEF SafetyInv, SafetyCore, RowsInv
  <2> QED BY <1>1, <2>2, <2>3 DEF SomeExpired
<1>4. CASE ~\E r \in store : r.id = k
  <2>1. row \in store' /\ row.cert = c
    BY <1>2, <1>4 DEF StoreCert, GetCert
  <2> HIDE DEF row
  <2> QED BY <1>1, <2>1 DEF Recorded
<1> QED BY <1>3, <1>4

\* Without overlap and with a cache that stores, each step keeps the record.
LEMMA RecordStep ==
  ASSUME "store" \notin Faulty, SafetyInv, SequentialInv, RecordInv, [Next]_vars
  PROVE  RecordInv'
<1>0. TypeOK /\ HandlersInv /\ OwnCertificate
  BY DEF SafetyInv, SafetyCore
<1>1. /\ \A k : SomeExpired(k) => SomeExpired(k)'
      /\ \A c : Recorded(c) => Recorded(c)' \/ SomeExpired(c.key)'
  BY RecordStays
<1> USE DEF TypeOK, Serving, Idle, Goto, Continue, Hold, End, Refuse
<1>2. ASSUME NEW d \in delivered' PROVE SomeExpired(d.key)' \/ Recorded(d.cert)'
  <2>1. CASE d \in delivered
    BY <1>0, <1>1, <2>1 DEF RecordInv, OwnCertificate
  <2>2. CASE d \notin delivered
    <3>1. PICK h \in Handlers : ReplyStored(h) \/ Reply(h)
      BY <2>2 DEF Next, Step, Lookup, Renotify, Remark, Verify, Sign, Report, Store, Notify, Mark,
         NotifySuccess, MarkNotified, Disconnect, Dismiss, Receive, Crash, Purge, Tick, vars
    <3>2. h \notin cancelled /\ d.key = req[h] /\ d.cert = crt[h]
      BY <2>2, <3>1 DEF ReplyStored, Reply, Deliver, EnvelopeFails, Runs
    <3>3. pc[h] \in {"replyStored", "reply"} /\ crt[h].key = req[h]
      BY <1>0, <3>1 DEF ReplyStored, Reply, HandlersInv, Holding
    <3> QED BY <1>1, <3>2, <3>3 DEF RecordInv, OnRecord
  <2> QED BY <2>1, <2>2
<1>3. ASSUME NEW h \in Handlers, OnRecord(h)', NEW k, k = req'[h], NEW c, c = crt'[h]
      PROVE  SomeExpired(k)' \/ Recorded(c)'
  <2> USE <1>3 DEF OnRecord
  <2>1. CASE Lookup(h)
    <3>1. PICK r \in store : c = r.cert /\ r.id = k
      BY <1>0, <2>1 DEF Lookup, GetCert
    <3>2. Recorded(c)
      BY <3>1 DEF Recorded
    <3>3. c.key = k
      BY <3>1 DEF SafetyInv, SafetyCore, RowsInv
    <3> QED BY <1>1, <3>2, <3>3
  <2>2. CASE Store(h)
    <3>1. h \notin cancelled /\ k = req[h] /\ c = crt[h]
      BY <1>0, <2>2 DEF Store, Runs, Loses, Fails
    <3> QED BY <2>2, <3>1, StoreRecords
  <2>3. CASE OnRecord(h) /\ k = req[h] /\ c = crt[h]
    <3>1. c.key = k
      BY <1>0, <2>3 DEF HandlersInv, Holding
    <3> QED BY <1>1, <2>3, <3>1 DEF RecordInv
  <2>4. ASSUME Step(h), ~Lookup(h), ~Store(h)
        PROVE  OnRecord(h) /\ k = req[h] /\ c = crt[h]
    BY <1>0, <2>4 DEF Step, Renotify, Remark, ReplyStored, Verify, Sign, Report, Notify,
       Mark, Reply, NotifySuccess, MarkNotified, Deliver, EnvelopeFails, Runs, Fails, Loses
  <2>5. ASSUME NEW g \in Handlers,
               \/ g # h /\ (Step(g) \/ Dismiss(g) \/ \E e \in Keys : Receive(g, e))
               \/ Disconnect(g)
        PROVE  OnRecord(h) /\ k = req[h] /\ c = crt[h]
    BY <1>0, <2>5 DEF Step, Lookup, Renotify, Remark, ReplyStored, Verify, Sign, Report, Store,
       Notify, Mark, Reply, NotifySuccess, MarkNotified, Deliver, EnvelopeFails, Runs, Fails,
       Loses, Dismiss, Receive, Disconnect, handlerVars
  <2>6. ~Dismiss(h) /\ (\A e \in Keys : ~Receive(h, e)) /\ ~Crash
    BY <1>0 DEF Dismiss, Receive, Crash
  <2>7. CASE Purge \/ Tick \/ UNCHANGED vars
    <3>1. UNCHANGED <<pc, req, crt, cancelled>>
      BY <2>7 DEF Purge, Tick, vars, handlerVars
    <3> QED BY <2>3, <3>1
  <2> QED BY <2>1, <2>2, <2>3, <2>4, <2>5, <2>6, <2>7 DEF Next
<1>4. ASSUME NEW h \in Handlers, OnRecord(h)'
      PROVE  (SomeExpired(req[h]) \/ Recorded(crt[h]))'
  BY <1>3, <1>4 DEF SomeExpired, Recorded
<1>5. ASSUME NEW d \in delivered' PROVE (SomeExpired(d.key) \/ Recorded(d.cert))'
  BY <1>2, <1>5
<1> QED BY <1>4, <1>5 DEF RecordInv

NothingExpired == \A c \in issued : ~Expired(c, now)

(***************************************************************************)
(* "The SQLite database maintains a record of every certificate" that a    *)
(* client holds, until one expires, if requests of one enrollment do not   *)
(* overlap and StoreCert does not fail.  Disconnects, lost answers, marks  *)
(* that fail, crashes and the purge make no exception.                     *)
(***************************************************************************)
THEOREM DeliveredAreRecorded ==
  ~Overlap /\ "store" \notin Faulty /\ Spec /\ []NothingExpired => []LiveDeliveredRecorded
<1> SUFFICES ASSUME ~Overlap, "store" \notin Faulty
             PROVE  Spec /\ []NothingExpired => []LiveDeliveredRecorded
  OBVIOUS
<1>1. Init => RecordInv
  BY DEF Init, RecordInv, OnRecord
<1>2. SafetyInv /\ SequentialInv /\ [Next]_vars => SequentialInv'
  BY SequentialStep
<1>3. SafetyInv /\ SequentialInv /\ RecordInv /\ [Next]_vars => RecordInv'
  BY RecordStep
<1>4. RecordInv /\ NothingExpired => LiveDeliveredRecorded
  BY DEF RecordInv, NothingExpired, LiveDeliveredRecorded, SomeExpired, Recorded
<1> QED BY <1>1, <1>2, <1>3, <1>4, SequentialInit, SafetyInvariant, PTL DEF Spec
================================================================================
