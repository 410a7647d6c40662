---------------------------- MODULE EnrollmentProofs ----------------------------
(***************************************************************************)
(* Theorems about Enrollment, for any set of handlers and enrollments, any *)
(* lifetimes, any number of faults and requests.                           *)
(***************************************************************************)
EXTENDS Enrollment, CertStoreProofs, TLAPS

-----------------------------------------------------------------------------
(* Type correctness. *)

\* The new certificate step-ca signs is a certificate (Sign).
LEMMA NewCertType ==
  ASSUME TypeOK, NEW k \in Keys
  PROVE  NewCert(k) \in Cert
BY EnrollmentAssumption DEF TypeOK, NewCert, Cert

\* However a call ends, the fault counter and the cancellations keep their type.
LEMMA OutcomeType ==
  ASSUME TypeOK, NEW h \in Handlers, NEW call,
         Runs(h) \/ Fails(h, call) \/ Loses(h, call)
  PROVE  faults' \in Nat /\ cancelled' \subseteq Handlers
BY EnrollmentAssumption DEF TypeOK, Runs, Fails, Loses, Strikes

\* A freshly started server and an empty cache are well typed (NewSCEPServer).
LEMMA TypeInit == Init => TypeOK
BY EnrollmentAssumption DEF Init, TypeOK, Serving, Idle, Calls, Holding, Row, Cert

\* Every call of a handler, and everything its environment does, keeps the types.
LEMMA TypeStep == TypeOK /\ [Next]_vars => TypeOK'
<1> SUFFICES ASSUME TypeOK, [Next]_vars PROVE TypeOK'
  OBVIOUS
<1> USE DEF TypeOK, handlerVars, intuneVars, caVars, envVars, Idle, Calls, Holding, Serving,
            Goto, Continue, Hold, End, Refuse
<1>1. ASSUME NEW h \in Handlers, Lookup(h) PROVE TypeOK'
  <2>1. req[h] \in Keys
    BY <1>1 DEF Lookup
  <2>2. GetCert(store, req[h]) \subseteq Row
    BY <2>1 DEF GetCert
  <2>3. faults' \in Nat /\ cancelled' \subseteq Handlers
    BY <1>1, OutcomeType DEF Lookup
  <2> QED BY <1>1, <2>1, <2>2, <2>3 DEF Lookup, Row
<1>2. ASSUME NEW h \in Handlers, NEW l \in {"remark", "mark"}, NotifySuccess(h, l),
             Serving(h), crt[h] \in Cert
      PROVE  TypeOK'
  <2>1. faults' \in Nat /\ cancelled' \subseteq Handlers
    BY <1>2, OutcomeType DEF NotifySuccess
  <2> QED BY <1>2, <2>1 DEF NotifySuccess, AcceptSuccess
<1>3. ASSUME NEW h \in Handlers, NEW l \in {"replyStored", "reply"}, MarkNotified(h, l),
             Serving(h), crt[h] \in Cert
      PROVE  TypeOK'
  <2>1. faults' \in Nat /\ cancelled' \subseteq Handlers
    BY <1>3, OutcomeType DEF MarkNotified
  <2>2. MarkIntuneNotified(store, req[h]) \subseteq Row
    BY <1>3 DEF MarkIntuneNotified, Row
  <2> QED BY <1>3, <2>1, <2>2 DEF MarkNotified
<1>4. ASSUME NEW h \in Handlers, ReplyStored(h) \/ Reply(h), crt[h] \in Cert
      PROVE  TypeOK'
  <2>1. req[h] \in Keys
    BY <1>4 DEF ReplyStored, Reply
  <2>2. faults' \in Nat /\ cancelled' \subseteq Handlers
    BY <1>4 DEF ReplyStored, Reply, Deliver, EnvelopeFails, Runs, Fails, Strikes
  <2>3. delivered' \subseteq [key : Keys, cert : Cert]
    BY <1>4, <2>1 DEF ReplyStored, Reply, Deliver, EnvelopeFails
  <2> QED BY <1>4, <2>1, <2>2, <2>3 DEF ReplyStored, Reply, Deliver, EnvelopeFails
<1>5. ASSUME NEW h \in Handlers, Verify(h) PROVE TypeOK'
  <2>1. faults' \in Nat /\ cancelled' \subseteq Handlers
    BY <1>5, OutcomeType DEF Verify
  <2> QED BY <1>5, <2>1 DEF Verify
<1>6. ASSUME NEW h \in Handlers, Sign(h) PROVE TypeOK'
  <2>1. NewCert(req[h]) \in Cert
    BY <1>6, NewCertType DEF Sign
  <2>2. faults' \in Nat /\ cancelled' \subseteq Handlers
    BY <1>6, OutcomeType DEF Sign
  <2> QED BY <1>6, <2>1, <2>2 DEF Sign, SignedByCA
<1>7. ASSUME NEW h \in Handlers, Report(h) PROVE TypeOK'
  <2>1. faults' \in Nat /\ cancelled' \subseteq Handlers
    BY <1>7, OutcomeType DEF Report
  <2> QED BY <1>7, <2>1 DEF Report, AcceptFailure
<1>8. ASSUME NEW h \in Handlers, Store(h), crt[h] \in Cert PROVE TypeOK'
  <2>1. faults' \in Nat /\ cancelled' \subseteq Handlers
    BY <1>8, OutcomeType DEF Store
  <2>2. StoreCert(store, req[h], crt[h]) \subseteq Row
    BY <1>8, TableType DEF Store
  <2> QED BY <1>8, <2>1, <2>2 DEF Store
<1>9. ASSUME NEW h \in Handlers, Disconnect(h) PROVE TypeOK'
  BY <1>9 DEF Disconnect, Strikes
<1>10. ASSUME NEW h \in Handlers, NEW k \in Keys, Receive(h, k) PROVE TypeOK'
  BY <1>10 DEF Receive
<1>16. ASSUME NEW h \in Handlers, Dismiss(h) PROVE TypeOK'
  BY <1>16 DEF Dismiss, TypeOK
<1>11. CASE Crash
  BY <1>11 DEF Crash, Strikes
<1>12. CASE Purge
  BY <1>12 DEF Purge, PurgeExpired
<1>13. CASE Tick
  BY <1>13 DEF Tick
<1>14. CASE UNCHANGED vars
  BY <1>14 DEF vars
<1>15. ASSUME NEW h \in Handlers, Step(h) PROVE TypeOK'
  <2>1. CASE Lookup(h) BY <2>1, <1>1
  <2>2. CASE Renotify(h) BY <2>2, <1>2 DEF Renotify
  <2>3. CASE Remark(h) BY <2>3, <1>3 DEF Remark
  <2>4. CASE ReplyStored(h) BY <2>4, <1>4 DEF ReplyStored
  <2>5. CASE Verify(h) BY <2>5, <1>5
  <2>6. CASE Sign(h) BY <2>6, <1>6
  <2>7. CASE Report(h) BY <2>7, <1>7
  <2>8. CASE Store(h) BY <2>8, <1>8 DEF Store
  <2>9. CASE Notify(h) BY <2>9, <1>2 DEF Notify
  <2>10. CASE Mark(h) BY <2>10, <1>3 DEF Mark
  <2>11. CASE Reply(h) BY <2>11, <1>4 DEF Reply
  <2> QED
    BY <1>15, <2>1, <2>2, <2>3, <2>4, <2>5, <2>6, <2>7, <2>8, <2>9, <2>10, <2>11
    DEF Step
<1> QED BY <1>9, <1>10, <1>11, <1>12, <1>13, <1>14, <1>15, <1>16 DEF Next

(***************************************************************************)
(* Type correctness: every variable keeps its type, a serving handler has  *)
(* an enrollment, and a certificate wherever handleCSRRequest uses one.    *)
(***************************************************************************)
THEOREM TypeCorrect == Spec => []TypeOK
BY TypeInit, TypeStep, PTL DEF Spec

-----------------------------------------------------------------------------
(* The safety invariant: the gate, own certificates, confirmed enrollments. *)

\* The invariant holds when the server starts: nothing is signed or stored yet.
LEMMA SafetyInit == Init => SafetyInv
<1> SUFFICES ASSUME Init PROVE SafetyInv
  OBVIOUS
<1> QED
  BY TypeInit DEF Init, SafetyInv, SafetyCore, PrimaryKey, GateHolds, HandlersInv, RowsInv,
     OwnCertificate, DeliveredKeyConfirmed, Holding

\* Every branch of handleCSRRequest, every purge and every restart keeps the
\* invariant, with or without overlapping requests.
LEMMA SafetyStep == SafetyInv /\ [Next]_vars => SafetyInv'
<1> SUFFICES ASSUME SafetyInv, [Next]_vars, TypeOK, TypeOK' PROVE SafetyCore'
  BY TypeStep DEF SafetyInv, SafetyCore
<1> USE DEF SafetyInv, SafetyCore, PrimaryKey, GateHolds, HandlersInv, RowsInv,
            OwnCertificate, DeliveredKeyConfirmed, handlerVars, intuneVars,
            caVars, envVars, Idle, Holding, Serving, Goto, Continue, Hold, End, Refuse
<1>1. ASSUME NEW h \in Handlers, Lookup(h) PROVE SafetyCore'
  BY <1>1 DEF Lookup, TypeOK, GetCert
<1>2. ASSUME NEW h \in Handlers, NEW l \in {"remark", "mark"}, NotifySuccess(h, l),
             pc[h] \in {"renotify", "notify"}
      PROVE  SafetyCore'
  BY <1>2 DEF NotifySuccess, AcceptSuccess, TypeOK
<1>3. ASSUME NEW h \in Handlers, NEW l \in {"replyStored", "reply"}, MarkNotified(h, l),
             pc[h] \in {"remark", "mark"}, l = "reply" <=> pc[h] = "mark"
      PROVE  SafetyCore'
  <2>1. CASE UNCHANGED store
    BY <1>3, <2>1 DEF MarkNotified, TypeOK
  <2>2. CASE store' = MarkIntuneNotified(store, req[h])
    <3>1. req[h] \in Keys /\ \E c \in confirmed : c.key = req[h]
      BY <1>3 DEF TypeOK
    <3>2. PrimaryKey' /\ RowsInv'
      BY <1>3, <2>2, <3>1, MarkEffect DEF MarkNotified, TypeOK
    <3> QED BY <1>3, <3>1, <3>2 DEF MarkNotified, TypeOK
  <2> QED BY <1>3, <2>1, <2>2 DEF MarkNotified
<1>4. ASSUME NEW h \in Handlers, ReplyStored(h) \/ Reply(h)
      PROVE  SafetyCore'
  BY <1>4 DEF ReplyStored, Reply, Deliver, EnvelopeFails, TypeOK
<1>5. ASSUME NEW h \in Handlers, Verify(h) PROVE SafetyCore'
  BY <1>5 DEF Verify, TypeOK
<1>6. ASSUME NEW h \in Handlers, Sign(h) PROVE SafetyCore'
  BY <1>6 DEF Sign, SignedByCA, NewCert, TypeOK, Cert
<1>7. ASSUME NEW h \in Handlers, Report(h) PROVE SafetyCore'
  BY <1>7 DEF Report, AcceptFailure, TypeOK
<1>8. ASSUME NEW h \in Handlers, Store(h) PROVE SafetyCore'
  <2> DEFINE row == [id |-> req[h], cert |-> crt[h], notified |-> FALSE]
  <2>1. \/ UNCHANGED store
        \/ (\A r \in store : r.id # req[h]) /\ store' = store \cup {row}
    BY <1>8, StoreEffect DEF Store
  <2>2. row.id = req[h] /\ row.cert = crt[h] /\ ~row.notified
    OBVIOUS
  <2>3. crt[h] \in issued /\ crt[h].key = req[h]
    BY <1>8 DEF Store
  <2>4. UNCHANGED <<issued, confirmed>>
    BY <1>8 DEF Store
  <2> HIDE DEF row
  <2>5. PrimaryKey' /\ RowsInv'
    BY <2>1, <2>2, <2>3, <2>4
  <2> QED BY <1>8, <2>5 DEF Store, TypeOK
<1>9. ASSUME NEW h \in Handlers, Disconnect(h) PROVE SafetyCore'
  BY <1>9 DEF Disconnect
<1>10. ASSUME NEW h \in Handlers, NEW k \in Keys, Receive(h, k) PROVE SafetyCore'
  BY <1>10 DEF Receive, TypeOK
<1>16. ASSUME NEW h \in Handlers, Dismiss(h) PROVE SafetyCore'
  BY <1>16 DEF Dismiss, TypeOK
<1>11. CASE Crash
  BY <1>11 DEF Crash
<1>12. CASE Purge
  BY <1>12 DEF Purge, PurgeExpired
<1>13. CASE Tick
  BY <1>13 DEF Tick
<1>14. CASE UNCHANGED vars
  BY <1>14 DEF vars
<1>15. ASSUME NEW h \in Handlers, Step(h) PROVE SafetyCore'
  <2>1. CASE Renotify(h) BY <2>1, <1>2 DEF Renotify
  <2>2. CASE Remark(h) BY <2>2, <1>3 DEF Remark
  <2>3. CASE Notify(h) BY <2>3, <1>2 DEF Notify
  <2>4. CASE Mark(h) BY <2>4, <1>3 DEF Mark
  <2> QED
    BY <1>15, <1>1, <1>4, <1>5, <1>6, <1>7, <1>8, <2>1, <2>2, <2>3, <2>4 DEF Step
<1> QED BY <1>9, <1>10, <1>11, <1>12, <1>13, <1>14, <1>15, <1>16 DEF Next

(***************************************************************************)
(* The inductive invariant holds in every reachable state.                 *)
(***************************************************************************)
THEOREM SafetyInvariant == Spec => []SafetyInv
BY SafetyInit, SafetyStep, PTL DEF Spec

\* One row per enrollment, however handlers interleave (StoreCert).
THEOREM OneRowPerEnrollment == Spec => []PrimaryKey
<1>1. SafetyInv => PrimaryKey
  BY DEF SafetyInv, SafetyCore
<1> QED BY <1>1, SafetyInvariant, PTL

\* The gate: no certificate for an enrollment that Intune did not provision
\* and validate (the order of VerifyCSR and SignCSR in handleCSRRequest).
THEOREM Gate == Spec => []GateHolds
<1>1. SafetyInv => GateHolds
  BY DEF SafetyInv, SafetyCore
<1> QED BY <1>1, SafetyInvariant, PTL

\* No enrollment is answered with another's certificate.
THEOREM OwnCertificateOnly == Spec => []OwnCertificate
<1>1. SafetyInv => OwnCertificate
  BY DEF SafetyInv, SafetyCore
<1> QED BY <1>1, SafetyInvariant, PTL

\* No certificate is delivered for an enrollment Intune was not notified of,
\* whatever overlaps, fails or restarts.
THEOREM DeliveredAfterNotification == Spec => []DeliveredKeyConfirmed
<1>1. SafetyInv => DeliveredKeyConfirmed
  BY DEF SafetyInv, SafetyCore
<1> QED BY <1>1, SafetyInvariant, PTL

-----------------------------------------------------------------------------
(* Only sound CSRs are signed. *)

\* What handlePKIOperation lets through to the cache has passed validateCsr,
\* and what passes validateCsr is what the README calls acceptable.
LEMMA AdmittedSound ==
  ASSUME NEW k \in Admitted PROVE Sound(Csr[k])
<1>1. PICK r \in HttpRequest : /\ r.operation = "PKIOperation"
                               /\ r.message # NoMessage /\ r.message.key = k
                               /\ ServeHTTP(r) = "valid"
  BY DEF Admitted
<1>2. HandlePKIOperation(Body(r)) = "valid"
  BY <1>1 DEF ServeHTTP
<1>3. Body(r) # NoMessage /\ OpenCsr(Body(r)) = "valid"
  BY <1>2 DEF HandlePKIOperation
<1>4. Body(r) = r.message
  BY <1>3 DEF Body
<1>5. ValidateCsr(Csr[k]) = "valid"
  BY <1>1, <1>3, <1>4 DEF OpenCsr
<1>6. Csr[k] \in CsrType
  BY CsrAssumption DEF Admitted
<1> QED BY <1>5, <1>6 DEF ValidateCsr, Sound, SupportedAlgorithms, CsrType

\* Every request that is served, and every certificate, is for a sound CSR:
\* Receive is the only way in, and SignCSR signs for the request it serves.
LEMMA SoundStep == TypeOK /\ SoundInv /\ [Next]_vars => SoundInv'
<1> SUFFICES ASSUME TypeOK, SoundInv, [Next]_vars PROVE SoundInv'
  OBVIOUS
<1> USE DEF SoundInv, IssuedSound, handlerVars, intuneVars, caVars, envVars, Serving, Idle,
            Goto, Continue, Hold, End, Refuse, TypeOK
<1>1. ASSUME NEW h \in Handlers, NEW k \in Keys, Receive(h, k) PROVE SoundInv'
  BY <1>1, AdmittedSound DEF Receive
<1>2. ASSUME NEW h \in Handlers, Sign(h) PROVE SoundInv'
  <2>1. issued' = issued \cup {NewCert(req[h])} \/ UNCHANGED issued
    BY <1>2 DEF Sign, SignedByCA
  <2>2. NewCert(req[h]).key = req[h] /\ Sound(Csr[req[h]])
    BY <1>2 DEF Sign, NewCert
  <2> QED BY <1>2, <2>1, <2>2 DEF Sign
<1>3. ASSUME NEW h \in Handlers, Step(h), ~Sign(h) PROVE SoundInv'
  <2>1. UNCHANGED <<issued, Csr>>
    BY <1>3 DEF Step, Lookup, Renotify, Remark, ReplyStored, Verify, Report, Store, Notify, Mark,
       Reply, NotifySuccess, MarkNotified
  <2>2. Serving(h) /\ (req'[h] = req[h] \/ ~Serving(h)')
    BY <1>3 DEF Step, Lookup, Renotify, Remark, ReplyStored, Verify, Report, Store, Notify, Mark,
       Reply, NotifySuccess, MarkNotified, Deliver
  <2>3. \A g \in Handlers \ {h} : pc'[g] = pc[g] /\ req'[g] = req[g]
    BY <1>3 DEF Step, Lookup, Renotify, Remark, ReplyStored, Verify, Report, Store, Notify, Mark,
       Reply, NotifySuccess, MarkNotified, Deliver
  <2> QED BY <2>1, <2>2, <2>3
<1>4. ASSUME NEW h \in Handlers, Disconnect(h) \/ Dismiss(h) PROVE SoundInv'
  BY <1>4 DEF Disconnect, Dismiss
<1>5. CASE Crash \/ Purge \/ Tick \/ UNCHANGED vars
  BY <1>5 DEF Crash, Purge, Tick, vars
<1> QED BY <1>1, <1>2, <1>3, <1>4, <1>5 DEF Next

\* step-ca never signs a CSR that the README does not call acceptable.
THEOREM OnlySoundCsrsSigned == Spec => []IssuedSound
<1>1. Init => SoundInv
  BY DEF Init, SoundInv, IssuedSound, Serving, Idle
<1>2. SoundInv => IssuedSound
  BY DEF SoundInv
<1> QED BY <1>1, <1>2, SoundStep, TypeCorrect, PTL DEF Spec

-----------------------------------------------------------------------------
(* Live rows are stable. *)

\* One step keeps every row whose certificate is still valid after it
\* (StoreCert, MarkIntuneNotified and PurgeExpired are all that write rows).
LEMMA LiveRowStep ==
  SafetyInv /\ [Next]_vars =>
    \A r \in store : ~Expired(r.cert, now') =>
      \E s \in store' : s.id = r.id /\ s.cert = r.cert /\ (r.notified => s.notified)
<1> SUFFICES ASSUME SafetyInv, [Next]_vars, NEW r \in store, ~Expired(r.cert, now')
             PROVE  \E s \in store' :
                      s.id = r.id /\ s.cert = r.cert /\ (r.notified => s.notified)
  OBVIOUS
<1> USE DEF handlerVars, intuneVars, caVars, envVars
<1>1. CASE UNCHANGED store
  BY <1>1
<1>2. CASE \E h \in Handlers : Remark(h) \/ Mark(h)
  <2> PICK h \in Handlers : Remark(h) \/ Mark(h)
    BY <1>2
  <2>1. UNCHANGED store \/ store' = MarkIntuneNotified(store, req[h])
    BY DEF Remark, Mark, MarkNotified
  <2>2. req[h] \in Keys /\ store \in SUBSET Row
    BY DEF SafetyInv, SafetyCore, TypeOK, Serving, Idle, Remark, Mark
  <2> QED BY <2>1, <2>2, MarkEffect DEF SafetyInv, SafetyCore, PrimaryKey
<1>3. CASE \E h \in Handlers : Store(h)
  BY <1>3, StoreEffect DEF Store
<1>4. CASE Purge
  <2>1. store \in SUBSET Row /\ now \in Nat /\ now <= now /\ now' = now
    BY <1>4 DEF SafetyInv, SafetyCore, TypeOK, Purge
  <2>2. r \in store'
    BY <1>4, <2>1, PurgeEffect DEF Purge
  <2> QED BY <2>2
<1>5. ASSUME NEW h \in Handlers, Step(h), ~Remark(h), ~Mark(h), ~Store(h)
      PROVE  UNCHANGED store
  BY <1>5 DEF Step, Lookup, Renotify, ReplyStored, Verify, Sign, Report, Notify, Reply,
     NotifySuccess
<1> QED
  BY <1>1, <1>2, <1>3, <1>4, <1>5 DEF Next, Disconnect, Dismiss, Receive, Crash, Tick, vars

\* No purge, late insert or restart loses a certificate that is still valid.
THEOREM LiveRowsStay == Spec => LiveRowStable
<1>1. SafetyInv /\ [Next]_vars =>
        [\A r \in store : ~Expired(r.cert, now') =>
           \E s \in store' : /\ s.id = r.id
                             /\ s.cert = r.cert
                             /\ r.notified => s.notified]_vars
  BY LiveRowStep
<1> QED BY <1>1, SafetyInvariant, PTL DEF Spec, LiveRowStable

-----------------------------------------------------------------------------
(* Without overlap, Intune is told of the very certificate that is delivered. *)

\* The sequential invariant holds when the server starts: nobody is served.
LEMMA SequentialInit == Init => SequentialInv
BY DEF Init, SequentialInv, Serving, Idle, BranchInv, NotifiedRowsConfirmed,
   DeliveredIsConfirmed

\* While requests of one enrollment do not overlap, every call of
\* handleCSRRequest keeps what the branches know of the cached row.
LEMMA SequentialStep ==
  ~Overlap /\ SafetyInv /\ SequentialInv /\ [Next]_vars => SequentialInv'
<1> SUFFICES ASSUME ~Overlap, SafetyInv, SequentialInv, [Next]_vars, TypeOK
             PROVE  SequentialInv'
  BY DEF SafetyInv, SafetyCore
<1> USE DEF SequentialInv, BranchInv, NotifiedRowsConfirmed, DeliveredIsConfirmed, GetCert,
            handlerVars, intuneVars, caVars, envVars, Idle, Holding, Serving, Goto, Continue,
            Hold, End, Refuse
<1>1. ASSUME NEW h \in Handlers, Lookup(h) PROVE SequentialInv'
  BY <1>1 DEF Lookup, TypeOK, SafetyInv, SafetyCore, PrimaryKey
<1>2. ASSUME NEW h \in Handlers, NEW l \in {"remark", "mark"}, NotifySuccess(h, l),
             pc[h] \in {"renotify", "notify"}, l = "mark" <=> pc[h] = "notify"
      PROVE  SequentialInv'
  BY <1>2 DEF NotifySuccess, AcceptSuccess, TypeOK
<1>3. ASSUME NEW h \in Handlers, NEW l \in {"replyStored", "reply"}, MarkNotified(h, l),
             pc[h] \in {"remark", "mark"}, l = "reply" <=> pc[h] = "mark"
      PROVE  SequentialInv'
  <2>1. CASE UNCHANGED store
    BY <1>3, <2>1 DEF MarkNotified, TypeOK, SafetyInv, SafetyCore, HandlersInv
  <2>2. CASE store' = MarkIntuneNotified(store, req[h])
    BY <1>3, <2>2, MarkEffect DEF MarkNotified, TypeOK, SafetyInv, SafetyCore, PrimaryKey, HandlersInv
  <2> QED BY <1>3, <2>1, <2>2 DEF MarkNotified
<1>4. ASSUME NEW h \in Handlers, ReplyStored(h) \/ Reply(h)
      PROVE  SequentialInv'
  BY <1>4 DEF ReplyStored, Reply, Deliver, EnvelopeFails, TypeOK, SafetyInv, SafetyCore, HandlersInv
<1>5. ASSUME NEW h \in Handlers, Verify(h) PROVE SequentialInv'
  BY <1>5 DEF Verify, TypeOK
<1>6. ASSUME NEW h \in Handlers, Sign(h) PROVE SequentialInv'
  BY <1>6 DEF Sign, TypeOK
<1>7. ASSUME NEW h \in Handlers, Report(h) PROVE SequentialInv'
  BY <1>7 DEF Report, AcceptFailure, TypeOK
<1>8. ASSUME NEW h \in Handlers, Store(h) PROVE SequentialInv'
  <2> DEFINE row == [id |-> req[h], cert |-> crt[h], notified |-> FALSE]
  <2>1. UNCHANGED store \/ store' = store \cup {row}
    BY <1>8, StoreEffect DEF Store
  <2>2. row.id = req[h] /\ row.cert = crt[h] /\ ~row.notified
    OBVIOUS
  <2> HIDE DEF row
  <2> QED BY <1>8, <2>1, <2>2 DEF Store, TypeOK
<1>9. ASSUME NEW h \in Handlers, Disconnect(h) PROVE SequentialInv'
  BY <1>9 DEF Disconnect
<1>10. ASSUME NEW h \in Handlers, NEW k \in Keys, Receive(h, k) PROVE SequentialInv'
  BY <1>10 DEF Receive, TypeOK
<1>16. ASSUME NEW h \in Handlers, Dismiss(h) PROVE SequentialInv'
  BY <1>16 DEF Dismiss, TypeOK
<1>11. CASE Crash
  BY <1>11 DEF Crash
<1>12. CASE Purge
  BY <1>12 DEF Purge, PurgeExpired
<1>13. CASE Tick
  <2>1. \A r \in store : Expired(r.cert, now) => Expired(r.cert, now')
    BY <1>13 DEF Tick, Expired, TypeOK, Row, Cert
  <2> QED BY <1>13, <2>1 DEF Tick
<1>14. CASE UNCHANGED vars
  BY <1>14 DEF vars
<1>15. ASSUME NEW h \in Handlers, Step(h) PROVE SequentialInv'
  <2>1. CASE Renotify(h) BY <2>1, <1>2 DEF Renotify
  <2>2. CASE Remark(h) BY <2>2, <1>3 DEF Remark
  <2>3. CASE Notify(h) BY <2>3, <1>2 DEF Notify
  <2>4. CASE Mark(h) BY <2>4, <1>3 DEF Mark
  <2> QED
    BY <1>15, <1>1, <1>4, <1>5, <1>6, <1>7, <1>8, <2>1, <2>2, <2>3, <2>4 DEF Step
<1> QED BY <1>9, <1>10, <1>11, <1>12, <1>13, <1>14, <1>15, <1>16 DEF Next

(***************************************************************************)
(* If requests of one enrollment never overlap, every delivered certificate*)
(* is one that Intune accepted the success notification of (README,        *)
(* "Storage and Intune notification").                                     *)
(***************************************************************************)
THEOREM DeliveredCertificateConfirmed == ~Overlap /\ Spec => []DeliveredIsConfirmed
<1> SUFFICES ASSUME ~Overlap PROVE Spec => []DeliveredIsConfirmed
  OBVIOUS
<1>1. SafetyInv /\ SequentialInv /\ [Next]_vars => SequentialInv'
  BY SequentialStep
<1>2. SequentialInv => DeliveredIsConfirmed
  BY DEF SequentialInv
<1> QED BY <1>1, <1>2, SequentialInit, SafetyInvariant, PTL DEF Spec

\* The flag of a live row is about the certificate in the row.
THEOREM NotifiedRowsAreConfirmed == ~Overlap /\ Spec => []NotifiedRowsConfirmed
<1> SUFFICES ASSUME ~Overlap PROVE Spec => []NotifiedRowsConfirmed
  OBVIOUS
<1>1. SafetyInv /\ SequentialInv /\ [Next]_vars => SequentialInv'
  BY SequentialStep
<1>2. SequentialInv => NotifiedRowsConfirmed
  BY DEF SequentialInv
<1> QED BY <1>1, <1>2, SequentialInit, SafetyInvariant, PTL DEF Spec

-----------------------------------------------------------------------------
(* Without overlap, success is the last word Intune has on who is served. *)

\* Intune's last word is success wherever a live row or a handler relies on
\* it; who reports a failure finds no live row.
SyncInv ==
  /\ \A h \in Handlers :
       /\ pc[h] \in {"remark", "replyStored", "mark", "reply"} => verdict[req[h]] = "success"
       /\ pc[h] = "report" => \A r \in GetCert(store, req[h]) : Expired(r.cert, now)
  /\ \A r \in store : r.notified /\ ~Expired(r.cert, now) => verdict[r.id] = "success"

\* While requests of one enrollment do not overlap and every envelope can be
\* built, a failure is never reported behind a success (handleCSRRequest).
LEMMA SyncStep ==
  ~Overlap /\ "envelope" \notin Faulty /\ SafetyInv /\ SequentialInv /\ SyncInv /\ [Next]_vars
    => SyncInv'
<1> SUFFICES ASSUME ~Overlap, "envelope" \notin Faulty, SafetyInv, SequentialInv, SyncInv,
                    [Next]_vars, TypeOK
             PROVE  SyncInv'
  BY DEF SafetyInv, SafetyCore
<1>0. \A g, h \in Handlers : Serving(g) /\ Serving(h) /\ req[g] = req[h] => g = h
  BY DEF SequentialInv
<1> USE DEF SyncInv, GetCert, handlerVars, intuneVars, caVars, envVars, Idle, Holding, Serving,
            Goto, Continue, Hold, End, Refuse, TypeOK
<1>1. ASSUME NEW h \in Handlers, Lookup(h) PROVE SyncInv'
  BY <1>1 DEF Lookup
<1>2. ASSUME NEW h \in Handlers, NEW l \in {"remark", "mark"}, NotifySuccess(h, l),
             pc[h] \in {"renotify", "notify"}
      PROVE  SyncInv'
  <2>1. req[h] \in Keys /\ \A r \in store : r.id \in Keys
    BY <1>2 DEF Row
  <2>2. UNCHANGED <<store, now>>
    BY <1>2 DEF NotifySuccess
  <2>3. \A k \in Keys : verdict[k] = "success" => verdict'[k] = "success"
    BY <1>2, <2>1 DEF NotifySuccess, AcceptSuccess
  <2>4. pc'[h] = l => verdict'[req[h]] = "success"
    BY <1>2, <2>1 DEF NotifySuccess, AcceptSuccess
  <2>5. pc'[h] \in {l, "refused"} /\ (pc'[h] = l => req' = req)
    BY <1>2 DEF NotifySuccess
  <2>6. \A g \in Handlers \ {h} : pc'[g] = pc[g] /\ req'[g] = req[g]
    BY <1>2 DEF NotifySuccess
  <2> QED BY <2>1, <2>2, <2>3, <2>4, <2>5, <2>6
<1>3. ASSUME NEW h \in Handlers, NEW l \in {"replyStored", "reply"}, MarkNotified(h, l),
             pc[h] \in {"remark", "mark"}
      PROVE  SyncInv'
  <2>1. CASE UNCHANGED store
    BY <1>3, <2>1 DEF MarkNotified
  <2>2. CASE store' = MarkIntuneNotified(store, req[h])
    BY <1>0, <1>3, <2>2, MarkEffect DEF MarkNotified, SafetyInv, SafetyCore, PrimaryKey
  <2> QED BY <1>3, <2>1, <2>2 DEF MarkNotified
<1>4. ASSUME NEW h \in Handlers, ReplyStored(h) \/ Reply(h) PROVE SyncInv'
  BY <1>4 DEF ReplyStored, Reply, Deliver, EnvelopeFails, Strikes
<1>5. ASSUME NEW h \in Handlers, Verify(h) PROVE SyncInv'
  BY <1>5 DEF Verify
<1>6. ASSUME NEW h \in Handlers, Sign(h) PROVE SyncInv'
  <2>1. \A r \in GetCert(store, req[h]) : Expired(r.cert, now)
    BY <1>6 DEF Sign, SequentialInv, BranchInv
  <2> QED BY <1>6, <2>1 DEF Sign
<1>7. ASSUME NEW h \in Handlers, Report(h) PROVE SyncInv'
  <2>1. \A g \in Handlers \ {h} : Serving(g) => req[g] # req[h]
    BY <1>0, <1>7 DEF Report
  <2>2. \A r \in store : r.id = req[h] => Expired(r.cert, now)
    BY <1>7 DEF Report
  <2>3. UNCHANGED <<store, now>> /\ pc'[h] = "refused"
    BY <1>7 DEF Report
  <2>4. \A g \in Handlers \ {h} : pc'[g] = pc[g] /\ req'[g] = req[g]
    BY <1>7 DEF Report
  <2>5. \A k \in Keys : k # req[h] => verdict'[k] = verdict[k]
    BY <1>7 DEF Report, AcceptFailure
  <2>6. \A r \in store : r.id \in Keys
    BY DEF Row
  <2> QED BY <2>1, <2>2, <2>3, <2>4, <2>5, <2>6
<1>8. ASSUME NEW h \in Handlers, Store(h) PROVE SyncInv'
  <2> DEFINE row == [id |-> req[h], cert |-> crt[h], notified |-> FALSE]
  <2>1. UNCHANGED store \/ store' = store \cup {row}
    BY <1>8, StoreEffect DEF Store
  <2>2. row.id = req[h] /\ ~row.notified
    OBVIOUS
  <2>3. \A g \in Handlers \ {h} : Serving(g) => req[g] # req[h]
    BY <1>0, <1>8 DEF Store
  <2> HIDE DEF row
  <2> QED BY <1>8, <2>1, <2>2, <2>3 DEF Store
<1>9. ASSUME NEW h \in Handlers, Disconnect(h) \/ Dismiss(h) PROVE SyncInv'
  BY <1>9 DEF Disconnect, Dismiss
<1>10. ASSUME NEW h \in Handlers, NEW k \in Keys, Receive(h, k) PROVE SyncInv'
  BY <1>10 DEF Receive
<1>11. CASE Crash
  BY <1>11 DEF Crash
<1>12. CASE Purge
  BY <1>12 DEF Purge, PurgeExpired
<1>13. CASE Tick
  <2>1. \A r \in store : Expired(r.cert, now) => Expired(r.cert, now')
    BY <1>13 DEF Tick, Expired, Row, Cert
  <2> QED BY <1>13, <2>1 DEF Tick
<1>14. CASE UNCHANGED vars
  BY <1>14 DEF vars
<1>15. ASSUME NEW h \in Handlers, Step(h) PROVE SyncInv'
  <2>1. CASE Renotify(h) BY <2>1, <1>2 DEF Renotify
  <2>2. CASE Remark(h) BY <2>2, <1>3 DEF Remark
  <2>3. CASE Notify(h) BY <2>3, <1>2 DEF Notify
  <2>4. CASE Mark(h) BY <2>4, <1>3 DEF Mark
  <2> QED
    BY <1>15, <1>1, <1>4, <1>5, <1>6, <1>7, <1>8, <2>1, <2>2, <2>3, <2>4 DEF Step
<1> QED BY <1>9, <1>10, <1>11, <1>12, <1>13, <1>14, <1>15 DEF Next

\* A client is served while Intune has the enrollment down as a success.  The
\* premise on envelopes is needed: the failure of one is reported behind the
\* success and leaves a row that is answered from.
THEOREM ServedWhileInSync == ~Overlap /\ "envelope" \notin Faulty /\ Spec => ServedInSync
<1> SUFFICES ASSUME ~Overlap, "envelope" \notin Faulty PROVE Spec => ServedInSync
  OBVIOUS
<1>1. Init => SyncInv
  BY DEF Init, SyncInv
<1>2. SafetyInv /\ SequentialInv /\ [Next]_vars => SequentialInv'
  BY SequentialStep
<1>3. SafetyInv /\ SequentialInv /\ SyncInv /\ [Next]_vars => SyncInv'
  BY SyncStep
<1>4. SyncInv /\ [Next]_vars =>
        [\A h \in Handlers : pc[h] \in {"reply", "replyStored"} /\ pc'[h] = "served"
           => verdict[req[h]] = "success"]_vars
  BY DEF SyncInv
<1> QED
  BY <1>1, <1>2, <1>3, <1>4, SequentialInit, SafetyInvariant, PTL DEF Spec, ServedInSync

-----------------------------------------------------------------------------
(* Enrollment implements the contract of module Issuance. *)

\* Each step of a handler is a step of the contract or leaves it alone: only
\* VerifyCSR validates, only SignCSR issues, only NotifySuccess confirms.
LEMMA ContractStep ==
  SafetyInv /\ (~Overlap => SequentialInv) /\ [Next]_vars
    => [Contract!Next]_(Contract!vars)
<1> SUFFICES ASSUME SafetyInv, ~Overlap => SequentialInv, [Next]_vars, TypeOK
             PROVE  Contract!Next \/ UNCHANGED Contract!vars
  BY DEF SafetyInv, SafetyCore
<1> USE DEF Contract!vars, handlerVars, intuneVars, caVars, envVars
<1>1. ASSUME NEW h \in Handlers, Verify(h)
      PROVE  Contract!Next \/ UNCHANGED Contract!vars
  <2>1. req[h] \in Keys
    BY <1>1 DEF Verify, TypeOK, Serving, Idle
  <2>2. Contract!Validate(req[h]) \/ UNCHANGED Contract!vars
    BY <1>1 DEF Verify, Contract!Validate
  <2> QED BY <2>1, <2>2 DEF Contract!Next
<1>2. ASSUME NEW h \in Handlers, Sign(h)
      PROVE  Contract!Next \/ UNCHANGED Contract!vars
  <2> DEFINE c == NewCert(req[h])
  <2>1. c.key = req[h]
    BY DEF NewCert
  <2>2. req[h] \in verified
    BY <1>2 DEF Sign, SafetyInv, SafetyCore, HandlersInv
  <2> HIDE DEF c
  <2>3. \/ UNCHANGED Contract!vars
        \/ issued' = issued \cup {c} /\ UNCHANGED <<verified, confirmed, delivered>>
    BY <1>2 DEF Sign, SignedByCA, c
  <2>4. UNCHANGED Contract!vars \/ (c \in issued' /\ Contract!Issue(c))
    BY <2>1, <2>2, <2>3 DEF Contract!Issue
  <2> QED BY <2>4 DEF Contract!Next
<1>3. ASSUME NEW h \in Handlers, Renotify(h) \/ Notify(h)
      PROVE  Contract!Next \/ UNCHANGED Contract!vars
  <2>1. crt[h] \in issued
    BY <1>3 DEF Renotify, Notify, Holding, SafetyInv, SafetyCore, HandlersInv
  <2>2. Contract!Confirm(crt[h]) \/ UNCHANGED Contract!vars
    BY <1>3, <2>1 DEF Renotify, Notify, NotifySuccess, AcceptSuccess, Contract!Confirm
  <2> QED BY <2>1, <2>2 DEF Contract!Next
<1>4. ASSUME NEW h \in Handlers, ReplyStored(h) \/ Reply(h)
      PROVE  Contract!Next \/ UNCHANGED Contract!vars
  <2>1. crt[h] \in issued /\ crt[h].key = req[h]
    BY <1>4 DEF ReplyStored, Reply, Holding, SafetyInv, SafetyCore, HandlersInv
  <2>2. Contract!Told(crt[h])
    BY <1>4, <2>1 DEF ReplyStored, Reply, SafetyInv, SafetyCore, HandlersInv, SequentialInv, Contract!Told
  <2>3. Contract!Deliver(crt[h]) \/ UNCHANGED Contract!vars
    BY <1>4, <2>1, <2>2 DEF ReplyStored, Reply, Deliver, EnvelopeFails, Contract!Deliver
  <2> QED BY <2>1, <2>3 DEF Contract!Next
<1>5. ASSUME NEW h \in Handlers,
             \/ Lookup(h) \/ Remark(h) \/ Report(h) \/ Store(h) \/ Mark(h)
             \/ Disconnect(h) \/ Dismiss(h)
      PROVE  UNCHANGED Contract!vars
  BY <1>5 DEF Lookup, Remark, Report, Store, Mark, Disconnect, Dismiss, MarkNotified,
     AcceptFailure
<1>6. ASSUME NEW h \in Handlers, NEW k \in Keys, Receive(h, k)
      PROVE  UNCHANGED Contract!vars
  BY <1>6 DEF Receive
<1>7. CASE Crash \/ Purge \/ Tick \/ UNCHANGED vars
  BY <1>7 DEF Crash, Purge, Tick, vars
<1> QED BY <1>1, <1>2, <1>3, <1>4, <1>5, <1>6, <1>7 DEF Next, Step

(***************************************************************************)
(* The handlers, with their cache, faults and restarts, implement the      *)
(* contract: strict without overlap, lenient with it.                      *)
(***************************************************************************)
THEOREM Implementation == Spec => ImplementsContract
<1>1. Init => Contract!Init
  BY DEF Init, Contract!Init
<1>2. Init => (~Overlap => SequentialInv)
  BY SequentialInit
<1>3. SafetyInv /\ (~Overlap => SequentialInv) /\ [Next]_vars => (~Overlap => SequentialInv)'
  BY SequentialStep
<1> DEFINE Inv == ~Overlap => SequentialInv
<1>4. Init => Inv BY <1>2
<1>5. SafetyInv /\ Inv /\ [Next]_vars => Inv' BY <1>3
<1>6. SafetyInv /\ Inv /\ [Next]_vars => [Contract!Next]_(Contract!vars)
  BY ContractStep
<1> HIDE DEF Inv
<1> QED BY <1>1, <1>4, <1>5, <1>6, SafetyInvariant, PTL DEF Spec, ImplementsContract
=============================================================================
