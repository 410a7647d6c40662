------------------------------ MODULE Enrollment ------------------------------
(***************************************************************************)
(* handleCSRRequest of internal/scep: the handlers that net/http runs      *)
(* concurrently, one per request, each a sequence of calls to the          *)
(* certificate cache, to Intune (verify and notify) and to step-ca (sign). *)
(* One action is one call together with the branch taken on its result, so *)
(* handlers, purges, disconnects and crashes interleave between the calls. *)
(*                                                                         *)
(* Every call may fail; a call that changes the other side may also take   *)
(* effect there and still return an error here.                            *)
(***************************************************************************)
EXTENDS CertStore, ScepFrontEnd, StepToken, FiniteSets

CONSTANTS
  Handlers,     \* goroutines serving requests
  Provisioned,  \* enrollments whose challenge Intune issued
  Lifetime,     \* validity of a certificate, in ticks
  Setups,       \* what the key of the step client and the skew of step-ca may be
  NoCert,       \* the nil *x509.Certificate
  NoKey,        \* the enrollment of a handler that serves none
  Faulty,       \* what may go wrong: some of FaultNames
  Overlap,      \* may two requests of one enrollment be served at once?
  MaxTime,      \* bound on the clock
  MaxFaults,    \* bound on the number of things that go wrong
  MaxTries      \* bound on the requests per enrollment

FaultNames == {"lookup", "verify", "sign", "store", "notify", "mark",
               "envelope", "deliver", "disconnect", "crash"}

ASSUME EnrollmentAssumption ==
  /\ Provisioned \subseteq Keys
  /\ Csr \in [Keys -> CsrType]
  /\ Lifetime \in Nat
  /\ Setups \subseteq [jwk : {"P-256", "P-384", "RSA"}, skew : Int]
  /\ NoCert \notin Cert
  /\ NoKey \notin Keys
  /\ Faulty \subseteq FaultNames
  /\ Overlap \in BOOLEAN
  /\ {MaxTime, MaxFaults, MaxTries} \subseteq Nat

VARIABLES
  pc,        \* per handler, the call it makes next, or how it ended
  req,       \* per handler, the enrollment it serves
  crt,       \* per handler, the certificate it holds
  cancelled, \* handlers whose request context is cancelled
  store,     \* the certificate cache
  setup,     \* the key of the step client and the skew of step-ca's clock
  now,       \* the clock
  serial,    \* serial number of step-ca's next certificate
  issued,    \* certificates step-ca has signed
  verified,  \* enrollments Intune has validated
  confirmed, \* certificates Intune was told were issued successfully
  verdict,   \* per enrollment, the last notification Intune accepted
  delivered, \* certificates that reached a client
  faults,    \* how many things have gone wrong
  tries      \* per enrollment, how many requests were made

handlerVars == <<pc, req, crt>>
intuneVars == <<verified, confirmed, verdict>>
caVars == <<serial, issued>>
envVars == <<setup, now, tries>>
vars == <<pc, req, crt, cancelled, store, setup, now, serial, issued, verified,
          confirmed, verdict, delivered, faults, tries>>

Idle == {"ready", "served", "refused"}
Calls == {"lookup", "renotify", "remark", "replyStored", "verify", "sign",
          "report", "store", "notify", "mark", "reply"}
Holding == {"renotify", "remark", "replyStored", "store", "notify", "mark", "reply"}
Serving(h) == pc[h] \notin Idle

Init ==
  /\ pc = [h \in Handlers |-> "ready"]
  /\ req = [h \in Handlers |-> NoKey]
  /\ crt = [h \in Handlers |-> NoCert]
  /\ cancelled = {}
  /\ store = {}
  /\ setup \in Setups
  /\ now = 0
  /\ serial = 0
  /\ issued = {}
  /\ verified = {}
  /\ confirmed = {}
  /\ verdict = [k \in Keys |-> "none"]
  /\ delivered = {}
  /\ faults = 0
  /\ tries = [k \in Keys |-> 0]

-----------------------------------------------------------------------------
(* How a call made with the context of the request can end. *)

Strikes(f) == f \in Faulty /\ faults < MaxFaults /\ faults' = faults + 1

\* It takes effect and returns no error.
Runs(h) == h \notin cancelled /\ UNCHANGED <<cancelled, faults>>

\* It returns an error and has no effect: always so once the context is
\* cancelled.
Fails(h, call) ==
  /\ UNCHANGED cancelled
  /\ \/ h \in cancelled /\ UNCHANGED faults
     \/ h \notin cancelled /\ Strikes(call)

\* It takes effect and returns an error: the answer is lost, or the client
\* disconnects while the call is outstanding.
Loses(h, call) ==
  /\ h \notin cancelled
  /\ \/ Strikes(call) /\ UNCHANGED cancelled
     \/ Strikes("disconnect") /\ cancelled' = cancelled \cup {h}

Goto(h, l) == pc' = [pc EXCEPT ![h] = l]
Continue(h, l) == Goto(h, l) /\ UNCHANGED <<req, crt>>
Hold(h, c, l) == Goto(h, l) /\ crt' = [crt EXCEPT ![h] = c] /\ UNCHANGED req

\* The request ends: with the certificate, or with a SCEP failure response.
End(h, how) ==
  /\ Goto(h, how)
  /\ crt' = [crt EXCEPT ![h] = NoCert]
  /\ req' = [req EXCEPT ![h] = NoKey]
Refuse(h) == End(h, "refused")

-----------------------------------------------------------------------------
(* A request arrives whose message opens and whose CSR is valid ... *)
Receive(h, k) ==
  /\ ~Serving(h)
  /\ k \in Admitted
  /\ tries[k] < MaxTries
  /\ Overlap \/ \A g \in Handlers : Serving(g) => req[g] # k
  /\ tries' = [tries EXCEPT ![k] = @ + 1]
  /\ Goto(h, "lookup")
  /\ req' = [req EXCEPT ![h] = k]
  /\ cancelled' = cancelled \ {h}
  /\ UNCHANGED <<crt, store, setup, now, caVars, intuneVars, delivered, faults>>

(* ... or one that the front end answers alone. *)
Dismiss(h) ==
  /\ ~Serving(h)
  /\ Dismissals # {}
  /\ Refuse(h)
  /\ UNCHANGED <<cancelled, store, envVars, caVars, intuneVars, delivered, faults>>

\* Mutants of Lookup: intune_notified is not looked at; a row that Intune does
\* not know of is refused rather than notified again; an expired row refuses
\* until it is purged; a certificate is renewed in its last tick.
LookupTrustsCache(h) ==
  /\ pc[h] = "lookup"
  /\ UNCHANGED <<store, envVars, caVars, intuneVars, delivered>>
  /\ Runs(h)
  /\ \/ /\ \A r \in GetCert(store, req[h]) : Expired(r.cert, now)
        /\ Continue(h, "verify")
     \/ \E r \in GetCert(store, req[h]) :
          ~Expired(r.cert, now) /\ Hold(h, r.cert, "replyStored")
LookupRefusesUnnotified(h) ==
  /\ pc[h] = "lookup"
  /\ UNCHANGED <<store, envVars, caVars, intuneVars, delivered>>
  /\ Runs(h)
  /\ \/ GetCert(store, req[h]) = {} /\ Continue(h, "verify")
     \/ \E r \in GetCert(store, req[h]) :
          IF r.notified THEN Hold(h, r.cert, "replyStored") ELSE Refuse(h)
LookupRefusesExpired(h) ==
  /\ pc[h] = "lookup"
  /\ UNCHANGED <<store, envVars, caVars, intuneVars, delivered>>
  /\ Runs(h)
  /\ \/ GetCert(store, req[h]) = {} /\ Continue(h, "verify")
     \/ \E r \in GetCert(store, req[h]) :
          IF Expired(r.cert, now) THEN Refuse(h)
          ELSE Hold(h, r.cert, IF r.notified THEN "replyStored" ELSE "renotify")
LookupRenewsEarly(h) ==
  /\ pc[h] = "lookup"
  /\ UNCHANGED <<store, envVars, caVars, intuneVars, delivered>>
  /\ Runs(h)
  /\ \/ /\ \A r \in GetCert(store, req[h]) : now >= r.cert.notAfter
        /\ Continue(h, "verify")
     \/ \E r \in GetCert(store, req[h]) :
          now < r.cert.notAfter /\ Hold(h, r.cert, IF r.notified THEN "replyStored" ELSE "renotify")

(* GetCert.  An expired certificate counts as none; a live one is returned *)
(* at once if Intune knows of it.                                          *)
Lookup(h) ==
  /\ pc[h] = "lookup"
  /\ UNCHANGED <<store, envVars, caVars, intuneVars, delivered>>
  /\ \/ /\ Runs(h)
        /\ \/ /\ \A r \in GetCert(store, req[h]) : Expired(r.cert, now)
              /\ Continue(h, "verify")
           \/ \E r \in GetCert(store, req[h]) :
                /\ ~Expired(r.cert, now)
                /\ Hold(h, r.cert, IF r.notified THEN "replyStored" ELSE "renotify")
     \/ Fails(h, "lookup") /\ Refuse(h)

(* Intune accepts a notification about the enrollment of handler h. *)
AcceptSuccess(h) ==
  /\ confirmed' = confirmed \cup {crt[h]}
  /\ verdict' = [verdict EXCEPT ![req[h]] = "success"]
  /\ UNCHANGED verified
AcceptFailure(h) ==
  /\ verdict' = [verdict EXCEPT ![req[h]] = "failure"]
  /\ UNCHANGED <<verified, confirmed>>

\* Mutant of NotifySuccess: its error is only logged.
NotifySuccessLogged(h, next) ==
  /\ UNCHANGED <<store, envVars, caVars, delivered>>
  /\ Continue(h, next)
  /\ \/ Runs(h) /\ AcceptSuccess(h)
     \/ Fails(h, "notify") /\ UNCHANGED intuneVars

(* NotifySuccess, then at label next; any error refuses the request. *)
NotifySuccess(h, next) ==
  /\ UNCHANGED <<store, envVars, caVars, delivered>>
  /\ \/ Runs(h) /\ AcceptSuccess(h) /\ Continue(h, next)
     \/ Loses(h, "notify") /\ AcceptSuccess(h) /\ Refuse(h)
     \/ Fails(h, "notify") /\ UNCHANGED intuneVars /\ Refuse(h)

(* MarkIntuneNotified, then at label next; an error is only logged. *)
MarkNotified(h, next) ==
  /\ Continue(h, next)
  /\ UNCHANGED <<envVars, caVars, intuneVars, delivered>>
  /\ \/ /\ Runs(h) \/ Loses(h, "mark")
        /\ store' = MarkIntuneNotified(store, req[h])
     \/ Fails(h, "mark") /\ UNCHANGED store

(* msg.Success and the write of the response.  Building the envelope does  *)
(* not look at the context; the write may not reach the client.            *)
Deliver(h) ==
  /\ End(h, "served")
  /\ \/ Runs(h) /\ delivered' = delivered \cup {[key |-> req[h], cert |-> crt[h]]}
     \/ Fails(h, "deliver") /\ UNCHANGED delivered
EnvelopeFails(h) == Strikes("envelope") /\ UNCHANGED <<cancelled, delivered>>

-----------------------------------------------------------------------------
(* The branch for a live certificate found in the cache. *)
Renotify(h) == pc[h] = "renotify" /\ NotifySuccess(h, "remark")
Remark(h) == pc[h] = "remark" /\ MarkNotified(h, "replyStored")
ReplyStored(h) ==
  /\ pc[h] = "replyStored"
  /\ UNCHANGED <<store, envVars, caVars, intuneVars>>
  /\ \/ Deliver(h)
     \/ EnvelopeFails(h) /\ Refuse(h)

\* Mutant of Verify: the verdict of Intune is not looked at.
VerifyUnchecked(h) ==
  /\ pc[h] = "verify"
  /\ UNCHANGED <<store, envVars, caVars, confirmed, verdict, delivered>>
  /\ Runs(h)
  /\ verified' = verified \cup ({req[h]} \cap Provisioned)
  /\ Continue(h, "sign")

(* The branch for a new enrollment: VerifyCSR and its verdict ... *)
Verify(h) ==
  /\ pc[h] = "verify"
  /\ UNCHANGED <<store, envVars, caVars, confirmed, verdict, delivered>>
  /\ \/ /\ Runs(h)
        /\ \/ /\ req[h] \in Provisioned
              /\ verified' = verified \cup {req[h]}
              /\ Continue(h, "sign")
           \/ req[h] \notin Provisioned /\ UNCHANGED verified /\ Refuse(h)
     \/ Fails(h, "verify") /\ UNCHANGED verified /\ Refuse(h)

\* Mutant of NewCert: the validity is counted backwards.
NewCertBackdated(k) == [sn |-> serial, key |-> k, notAfter |-> now - Lifetime]

NewCert(k) == [sn |-> serial, key |-> k, notAfter |-> now + Lifetime]
SignedByCA(c) == issued' = issued \cup {c} /\ serial' = serial + 1

(* ... SignCSR, on an error reported to Intune ... *)
Sign(h) ==
  /\ pc[h] = "sign"
  /\ UNCHANGED <<store, envVars, intuneVars, delivered>>
  /\ \/ /\ Runs(h)
        /\ SignRequestAccepted(Csr[req[h]], setup)
        /\ SignedByCA(NewCert(req[h]))
        /\ Hold(h, NewCert(req[h]), "store")
     \/ /\ Loses(h, "sign")
        /\ SignRequestAccepted(Csr[req[h]], setup)
        /\ SignedByCA(NewCert(req[h]))
        /\ Continue(h, "report")
     \/ /\ \/ Fails(h, "sign")
           \/ Runs(h) /\ ~SignRequestAccepted(Csr[req[h]], setup)
        /\ Continue(h, "report")
        /\ UNCHANGED caVars

\* Mutant of Report: insists that Intune hears of the failure.
ReportInsists(h) ==
  /\ pc[h] = "report"
  /\ UNCHANGED <<store, envVars, caVars, delivered>>
  /\ Runs(h) /\ AcceptFailure(h) /\ Refuse(h)

(* ... NotifyFailure, whose own error nobody looks at ... *)
Report(h) ==
  /\ pc[h] = "report"
  /\ Refuse(h)
  /\ UNCHANGED <<store, envVars, caVars, delivered>>
  /\ \/ (Runs(h) \/ Loses(h, "notify")) /\ AcceptFailure(h)
     \/ Fails(h, "notify") /\ UNCHANGED intuneVars

\* Mutant of Store: NotifySuccess is left out.
StoreSkipsNotify(h) ==
  /\ pc[h] = "store"
  /\ Continue(h, "mark")
  /\ Runs(h)
  /\ store' = StoreCert(store, req[h], crt[h])
  /\ UNCHANGED <<envVars, caVars, intuneVars, delivered>>

(* ... StoreCert, whose error is only logged ... *)
Store(h) ==
  /\ pc[h] = "store"
  /\ Continue(h, "notify")
  /\ UNCHANGED <<envVars, caVars, intuneVars, delivered>>
  /\ \/ /\ Runs(h) \/ Loses(h, "store")
        /\ store' = StoreCert(store, req[h], crt[h])
     \/ Fails(h, "store") /\ UNCHANGED store

(* ... NotifySuccess, MarkIntuneNotified, and the response. *)
Notify(h) == pc[h] = "notify" /\ NotifySuccess(h, "mark")
Mark(h) == pc[h] = "mark" /\ MarkNotified(h, "reply")
Reply(h) ==
  /\ pc[h] = "reply"
  /\ UNCHANGED <<store, envVars, caVars, intuneVars>>
  /\ \/ Deliver(h)
     \/ EnvelopeFails(h) /\ Continue(h, "report")

-----------------------------------------------------------------------------
(* The client of h goes away; net/http cancels the request's context. *)
Disconnect(h) ==
  /\ Serving(h)
  /\ h \notin cancelled
  /\ Strikes("disconnect")
  /\ cancelled' = cancelled \cup {h}
  /\ UNCHANGED <<handlerVars, store, envVars, caVars, intuneVars, delivered>>

(* The process dies and restarts: the cache is all that it keeps. *)
Crash ==
  /\ Strikes("crash")
  /\ pc' = [h \in Handlers |-> "ready"]
  /\ req' = [h \in Handlers |-> NoKey]
  /\ crt' = [h \in Handlers |-> NoCert]
  /\ cancelled' = {}
  /\ UNCHANGED <<store, envVars, caVars, intuneVars, delivered>>

(* The hourly purge.  One whose statement fails changes nothing. *)
Purge ==
  /\ store' = PurgeExpired(store, now)
  /\ UNCHANGED <<handlerVars, cancelled, envVars, caVars, intuneVars,
                 delivered, faults>>

Tick ==
  /\ now < MaxTime
  /\ now' = now + 1
  /\ UNCHANGED <<handlerVars, cancelled, store, caVars, intuneVars,
                 delivered, faults, setup, tries>>

-----------------------------------------------------------------------------
Step(h) ==
  \/ Lookup(h) \/ Renotify(h) \/ Remark(h) \/ ReplyStored(h)
  \/ Verify(h) \/ Sign(h) \/ Report(h) \/ Store(h)
  \/ Notify(h) \/ Mark(h) \/ Reply(h)

Next ==
  \/ \E h \in Handlers :
       Step(h) \/ Disconnect(h) \/ Dismiss(h) \/ \E k \in Keys : Receive(h, k)
  \/ Crash \/ Purge \/ Tick

Spec == Init /\ [][Next]_vars

(* Every call returns (they have timeouts), and a client that has not been *)
(* given up tries again.                                                   *)
FairSpec ==
  /\ Spec
  /\ \A h \in Handlers : WF_vars(Step(h))
  /\ \A k \in Keys : WF_vars(\E h \in Handlers : Receive(h, k))

-----------------------------------------------------------------------------
TypeOK ==
  /\ pc \in [Handlers -> Idle \cup Calls]
  /\ req \in [Handlers -> Keys \cup {NoKey}]
  /\ \A h \in Handlers : /\ Serving(h) => req[h] \in Keys
                         /\ pc[h] \in Holding => crt[h] \in Cert
  /\ crt \in [Handlers -> Cert \cup {NoCert}]
  /\ cancelled \subseteq Handlers
  /\ store \subseteq Row
  /\ setup \in Setups
  /\ now \in Nat
  /\ serial \in Nat
  /\ issued \subseteq Cert
  /\ verified \subseteq Keys
  /\ confirmed \subseteq Cert
  /\ verdict \in [Keys -> {"none", "success", "failure"}]
  /\ delivered \subseteq [key : Keys, cert : Cert]
  /\ faults \in Nat
  /\ tries \in [Keys -> Nat]

(***************************************************************************)
(* Properties.                                                             *)
(***************************************************************************)

\* The cache holds one row per enrollment, whatever handlers insert into it
\* (StoreCert keeps the first row on a conflict).
PrimaryKey == \A r, s \in store : r.id = s.id => r = s

\* The security gate: step-ca signs only for an enrollment Intune issued the
\* challenge of and has validated, on every path to SignCSR.
GateHolds == \A c \in issued : c.key \in verified \cap Provisioned

\* Whatever request arrives, step-ca signs only CSRs that the README calls
\* acceptable: no path to SignCSR goes round handlePKIOperation and validateCsr.
IssuedSound == \A c \in issued : Sound(Csr[c.key])

\* A client gets a certificate that step-ca signed for its own request: the
\* cache never answers one enrollment with the certificate of another.
OwnCertificate ==
  \A d \in delivered : d.cert \in issued /\ d.cert.key = d.key

\* Before any certificate of an enrollment reaches a client, Intune accepted
\* a success notification for that enrollment.  This much holds even when
\* requests of one enrollment overlap.
DeliveredKeyConfirmed ==
  \A d \in delivered : \E c \in confirmed : c.key = d.key

\* The delivered certificate is one that Intune was told of.  The code
\* ensures it as long as requests of one enrollment do not overlap.
DeliveredIsConfirmed == \A d \in delivered : d.cert \in confirmed

\* The flag intune_notified of a live row, on which handleCSRRequest relies
\* when it skips NotifySuccess, is about the certificate in that row.
NotifiedRowsConfirmed ==
  \A r \in store : r.notified /\ ~Expired(r.cert, now) => r.cert \in confirmed

\* Neither a purge nor a late handler removes or replaces a cached
\* certificate that is still valid, nor forgets that Intune knows of it.
LiveRowStable ==
  [][\A r \in store : ~Expired(r.cert, now') =>
       \E s \in store' : /\ s.id = r.id
                         /\ s.cert = r.cert
                         /\ r.notified => s.notified]_vars

\* When a client is served, the last word Intune has on the enrollment is
\* success, after any sequence of failed and repeated attempts.
ServedInSync ==
  [][\A h \in Handlers : pc[h] \in {"reply", "replyStored"} /\ pc'[h] = "served"
       => verdict[req[h]] = "success"]_vars

\* Duplicate requests share one certificate: until a certificate of the
\* enrollment expires, each fault costs at most one more.
ReissuesBoundedByFaults ==
  \A k \in Keys :
    LET certs == {c \in issued : c.key = k}
    IN  (\E c \in certs : Expired(c, now)) \/ Cardinality(certs) <= faults + 1

\* The same where duplicates overlap: each handler may be past the lookup when
\* the first certificate is stored, and a crash may lose what all of them hold,
\* but nothing else makes step-ca sign again.
ReissuesBoundedByHandlers ==
  \A k \in Keys :
    LET certs == {c \in issued : c.key = k}
    IN  \/ \E c \in certs : Expired(c, now)
        \/ Cardinality(certs) <= Cardinality(Handlers) * (faults + 1)

\* A request that Intune provisioned and step-ca would sign leaves the path to
\* its certificate only where something fails or after its client went away:
\* no duplicate, and no row an earlier failure left, makes a branch refuse it.
RefusedForCause ==
  [][\A h \in Handlers :
       Serving(h) /\ pc[h] # "report" /\ pc'[h] \in {"refused", "report"}
       /\ req[h] \in Provisioned /\ SignRequestAccepted(Csr[req[h]], setup)
         => h \in cancelled \/ faults' > faults]_vars

\* "The SQLite database maintains a record of every certificate that has
\* been issued" (README), read for valid certificates that clients hold.
LiveDeliveredRecorded ==
  \A d \in delivered : Expired(d.cert, now) \/ \E r \in store : r.cert = d.cert

\* "From this point on, all failues must be reported back to Intune"
\* (handleCSRRequest, after a successful VerifyCSR).
FailuresReported ==
  [][\A h \in Handlers :
       pc[h] \in {"sign", "report", "store", "notify", "mark", "reply"} /\ pc'[h] = "refused"
         => verdict'[req[h]] = "failure"]_vars

\* Every request is answered: no branch of handleCSRRequest waits forever.
Answered == \A h \in Handlers : Serving(h) ~> ~Serving(h)

\* A provisioned client with an acceptable CSR that keeps trying gets its
\* certificate: no failed attempt, crash, expiry (of a certificate it never
\* got) or purge leaves the cache in a state that refuses it, the method announced by GetCACaps is one that is served,
\* and step-ca takes the token at both ends of its window.
ProvisionedServed ==
  \A k \in Provisioned : Sound(Csr[k]) => <>(\E d \in delivered : d.key = k)

(***************************************************************************)
(* The inductive invariants behind the safety properties.                  *)
(***************************************************************************)

\* What a handler knows at each call.
HandlersInv ==
  \A h \in Handlers :
    /\ pc[h] \in Holding => crt[h] \in issued /\ crt[h].key = req[h]
    /\ pc[h] = "sign" => req[h] \in verified
    /\ pc[h] \in {"remark", "mark", "reply"} => crt[h] \in confirmed
    /\ pc[h] = "replyStored" => \E c \in confirmed : c.key = req[h]

\* What the cache says is true, of the enrollment at least.
RowsInv ==
  \A r \in store : /\ r.cert \in issued
                   /\ r.cert.key = r.id
                   /\ r.notified => \E c \in confirmed : c.key = r.id

\* Holds whether or not requests overlap.
SafetyCore ==
  /\ PrimaryKey
  /\ verified \subseteq Provisioned
  /\ GateHolds
  /\ HandlersInv
  /\ RowsInv
  /\ OwnCertificate
  /\ DeliveredKeyConfirmed
SafetyInv == TypeOK /\ SafetyCore

\* Whoever is served has a sound CSR, and so has every certificate.
SoundInv ==
  /\ IssuedSound
  /\ \A h \in Handlers : Serving(h) => Sound(Csr[req[h]])

\* A handler on the branch of a new enrollment finds no live row but its own,
\* one on the branch of a cached certificate finds no row but that one's.
BranchInv ==
  \A h \in Handlers : \A r \in GetCert(store, req[h]) :
    /\ pc[h] \in {"verify", "sign", "store"} => Expired(r.cert, now)
    /\ pc[h] \in {"notify", "mark", "reply"} => Expired(r.cert, now) \/ r.cert = crt[h]
    /\ pc[h] \in {"renotify", "remark"} => r.cert = crt[h]

\* Holds as long as requests of one enrollment do not overlap.
SequentialInv ==
  /\ \A g, h \in Handlers : Serving(g) /\ Serving(h) /\ req[g] = req[h] => g = h
  /\ BranchInv
  /\ \A h \in Handlers : pc[h] = "replyStored" => crt[h] \in confirmed
  /\ NotifiedRowsConfirmed
  /\ DeliveredIsConfirmed

(* The enrollment service implements the contract of module Issuance: the  *)
(* strict one if requests of one enrollment do not overlap.                *)
Contract == INSTANCE Issuance WITH Strict <- ~Overlap
ImplementsContract == Contract!Init /\ [][Contract!Next]_(Contract!vars)
==============================================================================
