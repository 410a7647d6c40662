# PIMPTune in TLA+

PIMPTune is a SCEP registration authority: it answers Windows clients that
enroll through Microsoft Intune. For each certificate signing request it asks
Intune whether the challenge is one it issued, has `step-ca` sign the request,
tells Intune of the certificate, and keeps the result in an SQLite table so that
a repeated request gets the same certificate.

This directory holds TLA+ models of that program, the TLC configurations that
check them on small instances, and proofs that TLAPS checks for all instances.
`PROJECT.json` maps every definition to the lines it models, and lists the
hazards, the runs, the mutants and the theorems.

## Inventory

| Part | State | Operations | Talks to |
|---|---|---|---|
| Enrollment handler (`internal/scep/handle_pki_operation.go`) | per request: the enrollment, the certificate in hand | `handleCSRRequest` | store, Intune client, step client |
| Certificate store (`internal/store`) | one SQLite table, one connection | `GetCert`, `StoreCert`, `MarkIntuneNotified`, `PurgeExpired`, open, close | called by handlers and the purge worker |
| Intune client (`internal/ms`) | token cache and endpoint cache, each with a mutex | `VerifyCSR`, `NotifySuccess`, `NotifyFailure`, `postJsonWithRetry` | Azure AD, Graph, Intune |
| Step client (`internal/step`) | none after start-up | `SignCSR`, `CreateToken`, `GetCRL` | step-ca |
| Process lifecycle (`cmd`, `internal/cli`) | where start-up is, server, store, context | `main`, `run`, `initialize`, the shutdown goroutine | all of them |
| Purge worker (`internal/scep/server.go`) | ticker, attempts | `StartPurging` | store |
| SCEP front end (`internal/scep`) | none | dispatch, `validateCsr`, `sendFailureResponse`, `GetCACaps`, `GetCACert` | net/http |
| Configuration (`internal/cli/config.go`, `app.go`) | none | `loadParams`, the validator of the port | files |
| Utilities (`internal/utils`) | none | keys, chains, JWKs, roles, names, `CreateDBID`, `PostJson` | |
| CRL and CRT servers (`internal/crt`) | none | one handler each | step client |
| Release builder (`builder`) | directories and archives on disk, a `WaitGroup` | `main`, `buildAndPackage` in one goroutine per target | the Go tool chain |

`net/http` runs one goroutine per request. Handlers share the table, the two
caches of the Intune client, and what Intune and step-ca remember; they share
nothing else. All calls of a handler take the context of its request, which
`net/http` cancels when the client goes away.

**What is hard.** Requests of one enrollment may overlap, since clients retry.
Every remote call may take effect and still fail, and a disconnect makes every
*later* call of the handler fail, `StoreCert` included, while the certificate
exists. The errors of three calls (`StoreCert`, `MarkIntuneNotified`,
`NotifyFailure`) are only logged or discarded. The process may die between any
two calls. Certificates expire while their rows stay for another day. The caches
of the Intune client are checked and read in two critical sections. On a signal,
`main` and the shutdown goroutine race. The checks of a configuration are spread
over three functions, and some only make sense together. The release builder
discards what its goroutines return, and the errors of the `Close` calls that
finish an archive.

**What makes each part correct.**
- Handler: nothing is signed that Intune did not validate; a client gets its own
  certificate; Intune knows of what is delivered; requests end; retries succeed.
- Store: one row per enrollment, stable while the certificate is valid.
- Intune client: a cache is filled once per period and read as it was filled; a
  token outlasts the call it is presented in; every call ends, with an outcome
  its caller can rely on.
- Lifecycle: no request before everything is ready, the store open as long as it
  is used, exit code 0 only on request, a signal always ends the process, and so
  does a broken listener, with an error.
- Purge worker: expired rows go in the end; a failed purge stops nothing.
- SCEP front end: only requests and CSRs that pass every check reach the cache,
  Intune and step-ca; the method it announces is one it serves.
- Step client: a token names what the CSR names, and step-ca takes it although
  its clock is some way off.
- Configuration: whatever the command line, a process that serves does so with
  keys, secrets, chain and routes that fit together. One thing escapes: whether
  the JWK is of the kind that can sign.
- Release builder: `main` outlives its goroutines; a success means an archive
  with the binary of this build; a failure loses no binary. The last two have two
  exceptions, in which the code removes the only copy: a `Close` whose error is
  lost, and a target named twice.

## Modules

| Module | Models | Kind |
|---|---|---|
| `CertStore` | the table and its four statements, as operators on a set of rows | library |
| `ScepFrontEnd` | dispatch, opening of the message, `validateCsr`, `GetCACaps` | library |
| `StepToken` | the token of `CreateToken` and whether step-ca takes it | library |
| `Enrollment` | `handleCSRRequest` in any number of goroutines, with Intune and step-ca around it | state machine |
| `Issuance` | what enrollment promises: validate, issue, confirm, deliver in this order | abstract specification |
| `CertStoreProofs` | what the four statements keep and how they combine | proofs |
| `EnrollmentProofs` | the theorems about `Enrollment`: types, safety, sequential service, refinement | proofs |
| `EnrollmentReissueProofs` | how many certificates an enrollment costs, without and with overlap | proofs |
| `EnrollmentLimitsProofs` | what alone may divert a request, and when the promises hold that the code does not keep in general | proofs |
| `IntuneClient` | the caches, the mutexes, the retries of `MSClient` | state machine |
| `RemoteCall` | what one call to Intune promises its caller | abstract specification |
| `IntuneClientProofs` | the theorems about `IntuneClient` | proofs |
| `Config` | the rules of `loadParams`, with the parsers of keys, chains, JWKs and tokens | library |
| `Lifecycle` | start-up, service, shutdown, purge worker, exit | state machine |
| `Service` | what the process promises its supervisor and its clients: prepare, serve, stop, be over | abstract specification |
| `LifecycleProofs` | the theorems about `Lifecycle` | proofs |
| `Builder` | the release builder and what it leaves on disk | state machine |
| `Release` | what a build promises: every target comes to one end and stays there | abstract specification |
| `BuilderProofs` | the theorems about `Builder` | proofs |
| `MCEnrollment`, `MCIntuneClient`, `MCLifecycle`, `MCBuilder` | the instances TLC checks | |

`Enrollment` EXTENDS `CertStore`, `ScepFrontEnd` and `StepToken`; `Lifecycle`
EXTENDS `Config`. `Enrollment` sees a remote call as one action with three
outcomes: `Runs` (took effect, no error), `Fails` (no effect, error) and `Loses`
(took effect, error). `RemoteCall` states the same for one call to Intune, and
`IntuneClient` implements it: that is how the two models fit together.
`EnrollmentProofs` EXTENDS `CertStoreProofs`, and the two other modules about
`Enrollment` extend `EnrollmentProofs`.

### Enrollment

`pc[h]` names the call that handler `h` makes next. An action is that call with
the branch taken on its result, so that everything else can happen between two
calls:

| Label | Call | Lines of `handle_pki_operation.go` |
|---|---|---|
| `lookup` | `GetCert`, and the expiry check | 109-136 |
| `renotify`, `remark`, `replyStored` | `NotifySuccess`, `MarkIntuneNotified`, envelope and write, for a cached certificate | 136-167, 238-242 |
| `verify`, `sign`, `store`, `notify`, `mark`, `reply` | the same for a new enrollment, after `VerifyCSR`, `SignCSR`, `StoreCert` | 172-242 |
| `report` | `NotifyFailure` | 194, 232 |

A member of `Keys` is a pair (CSR, challenge). Distinct pairs are taken to have
distinct SHA-256 hashes. A certificate is a serial number, the enrollment it
was signed for and its `NotAfter`; `issued`, `verified`, `confirmed` and
`verdict` are the memory of step-ca and Intune. The columns `transaction_id` and
`certificate_signing_request` are functions of the id. The driver stores
`expiration` as text in UTC, whose order is that of the times.

### ScepFrontEnd and StepToken

`Csr` gives what matters of the CSR of each enrollment: whether its signature
verifies, the algorithms, the size of the key, whether it has a common name, the
names it asks for. `ServeHTTP` says what any HTTP request is answered with.
`Admitted` are the enrollments for which some request a client would send (with
the method that `GetCACaps` announces) reaches the cache: `Receive` is for these,
and `Dismiss` is any other request, which ends with an answer of the front end
and leaves no trace. So a change of `ValidateCsr`, of the dispatch or of
`GetCACaps` changes which behaviours `Enrollment` has.

`setup` is the key the operator configured and the skew of step-ca's clock. `Sign`
succeeds only if `SignRequestAccepted`: the key signs ES256, and the token that
`CreateToken` makes is within its validity by step-ca's clock and names what
the CSR names.

### IntuneClient

A call goes through `CheckToken`/`FetchToken`/`ReadToken`, then the same three for
the endpoint, then `Post` and `Backoff`. A caller at `fetchToken` is one that
holds `muToken` across a fetch; `MuToken` is the set of these, and the mutex is
free when it is empty. All other critical sections are one action each.
`since[p]` and `CallTime` bound the time from the token check to the last
attempt: the clients' timeouts (10 s for each attempt) and waits (0.5 s, 1 s)
keep it below the slack of five minutes, which is assumed as
`CallTime <= Slack`. How often Graph's and Azure's own clients retry is theirs;
that they too end within the slack is part of the assumption.

### Lifecycle

`main` is where `main`, `run` and `initialize` are. A step that takes the context
may fail with its cancellation, which `main` turns into exit code 0; other
errors give 1, a panic 2. `params` is what `loadParams` made of one of the
`Configurations`; each later step goes on only if the parameters let it
(`PopulateEndpoint` needs the secret, `WarmToken` a token with the role,
`NewStepClient` a URL, `Routes` paths that do not collide). `shutdown` is the goroutine of `run`. When `main` is
`"exited"`, nothing moves: Go does not wait for goroutines. `ListenAndServe` has two
ways to return from `"serving"`: `ServeReturns`, because the shutdown goroutine closed
the listener, and `ServeFails`, because it broke (a permanent error of `Accept`);
then `run` returns `SCEP server error`, `main` exits with 1, and neither `Shutdown` nor
`Close` is called. `MaxFaults` bounds
the failures of a purge that are neither due to the signal nor the closed store.

`Phase`, `Verdict` and `Fit` map this state to `Service`: a phase that only moves
on, a verdict read off the exit code, and whether the configuration is sound (but
for the kind of the JWK) and was tried against Intune. `Service` has no purge worker
and no `main`; it lets the process be over at any time while it stops, because that
is what it does, and out of service without stopping only as `"failed"`.

### Config

A flag is a value or the empty string, a file is what it holds: a key pair, a key
with its PEM label and whether it is locked, a sequence of PEM blocks, a JWK of
some type. `Valid` is the conjunction of the early returns of `loadParams`,
`Params` the value it returns. `SoundParams` says what a configuration must be
like for enrollments to be served, and is written from the meaning of the
parameters; of the operators of the code it shares only `UrlValid`. A sound
configuration has a P-256 key. As no step of the start-up looks at the kind of a
private JWK, the code cannot keep to that: `SoundButForKey` names the configurations
of which nothing else is wrong, and `OnlyKeyKindUnchecked` says that these are the
only unsound ones that come to serve. The names of the three paths are whole paths:
`chi` looks a mounted path up exactly, so that a path inside another is mounted
beside it and does not panic, and only equal names `Collide`.

### Builder

`job[j]` is the next step of goroutine `j`: make the directory, `go build`, create
the archive, write and close it, remove the directory. `dir` and `archive` say
whose binary they hold: none, one of an earlier build (`"old"`) or of this one
(`"new"`). `swallowed` marks the goroutines whose deferred `Close` failed, which
the code does not notice. Goroutines of a repeated target share `dir` and
`archive` and may overwrite each other. Both are `Overlooked`: `BinaryKept` and
`SuccessIsWhole` except them, because there the code returns nil and removes the
directory over an archive that may be truncated or overwritten. What they say
of every goroutine is that nothing of an earlier build passes for a success.
`FlagExits` are the exits of `flag.Parse` itself, on `-h` and on an unknown flag.

`Fate(j)` maps this state to `Release`. It is read off the disk and not off the
goroutine's own idea of its success: `"released"` needs the archive to hold this
build, `"kept"` is a failure with the binary still on disk, `"failed"` is one before
there was a binary (an archive of an earlier build may then still lie there, while
the program exits with 0), `"truncated"` and `"shared"` are the two exceptions above,
and what should not be is `"lost"`, which `Release` does not know.

## Runs

| Run | Instance | Checks |
|---|---|---|
| `enrollment_concurrent` | 2 handlers, 6 enrollments (one not provisioned, four with a CSR that fails one check each), 3 requests each, overlapping; every kind of request; any 2 faults of 10 kinds; 3 clock values | `TypeOK`, `PrimaryKey`, `GateHolds`, `IssuedSound`, `OwnCertificate`, `DeliveredKeyConfirmed`, `LiveRowStable`, `ReissuesBoundedByHandlers`, `RefusedForCause`, `ImplementsContract` |
| `enrollment_sequential` | 1 handler, 1 enrollment, 5 requests, 3 faults, clock to 5 with certificates of 2 ticks; step-ca in step, 1 s past the token's end, or a P-384 key | `DeliveredIsConfirmed`, `NotifiedRowsConfirmed`, `ReissuesBoundedByFaults`, `ServedInSync` |
| `enrollment_liveness` | 2 handlers, 2 enrollments, 3 requests each, 1 fault, clock to 2 with certificates of 1 tick and no grace period, so that one expires and is purged between retries; step-ca's clock at either end of the token's window (-30 s, +300 s) | `Answered`, `ProvisionedServed` |
| `intune_client` | 2 callers, 3 calls, 2 retries, clock to 3, token and endpoint of 2 ticks | `TypeOK`, `NoRedundantFetch`, `PresentedTokenUnexpired`, `ImplementsRemoteCall`, `CallsRunDown`, `CallsEnd` |
| `lifecycle` | every command line that differs from a good one in the paths, the application and its secret, the RA's files, the chain, or step-ca's settings; 2 requests, 3 attempts per purge, 4 failed attempts, a listener that may break | `TypeOK`, `ServesOnlyWhenReady`, `OnlyKeyKindUnchecked`, `StoreOpenForRequests`, `ZeroMeansSignalled`, `SignalEndsProcess`, `ExpiredRowsPurged`, `ImplementsService` |
| `builder` | up to 3 goroutines, 2 targets, any leftovers, any step failing, an interrupt | `TypeOK`, `WaitsForAll`, `BinaryKept`, `SuccessIsWhole`, `BuildEnds`, `ImplementsRelease` |

**Why the bounds are enough.** Two handlers are all that a conflict of the table
takes: one that inserts and one that finds the row or fails to insert; a third
request after them reads what they left (`MaxTries = 3`). Two faults are a failed
call and a failed report of it, or a fault in each of two overlapping requests.
In `enrollment_sequential` there is time for a certificate to expire, to be kept
through the grace period, to be purged and to be issued and to expire again.
In `enrollment_liveness` the second of the two enrollments is one whose CSR is refused. With
three requests and two handlers `ReissuesBoundedByHandlers` can only be broken while no
fault has happened, since each fault raises the bound by two: TLC tests it free of
faults, and under faults it rests on `ReissuesAreBoundedWithOverlap`. In
`intune_client` the clock passes two expiries of each cache and two retries
follow the first attempt. In `lifecycle` four failures use up one round of
attempts and reach into the next. The groups of flags that `MCConfigurations`
varies do not meet in any check of the code, so varying one group at a time
covers the combinations that matter: a file and a flag of one secret, a
certificate and a key, paths pairwise. In `MCEnrollment` there is one CSR per
check of `validateCsr`, one at the limit of 2048 bits, one with an empty and a repeated
name, one with none. In `builder` three goroutines on two targets
are a shared target beside one that is not. What the theorems cover holds without the
bounds.

`enrollment_concurrent` uses the symmetry of handlers; the runs with liveness use
none.

**Divergences.** Six runs end in a violation of what the repository says, each
found while modelling:

| Run | Statement | What happens |
|---|---|---|
| `enrollment_duplicates` | README.md:114, records stay in sync with what was delivered | Two overlapping duplicates, no fault: the second marks the row of the first as notified, and a third request is served a certificate that Intune was never told of. |
| `enrollment_envelope` | the same | The envelope fails after a notified success; Intune is told of a failure, the row stays marked, and a repeated request delivers the certificate without a word to Intune. |
| `enrollment_expired` | README.md:149, a record of every certificate issued | With an expired row still in the table, `ON CONFLICT DO NOTHING` drops the new certificate. Assumes that Intune validates the same challenge again. |
| `enrollment_report` | comment at handle_pki_operation.go:187 | A refused success notification is not followed by `NotifyFailure`. |
| `intune_client_caches` | README.md:129, caches protected by mutexes | A caller resets the token between another's check and its read; if its fetch fails, the other dereferences nil. The same gap before the endpoint is read is not what the run reaches. |
| `lifecycle_shutdown` | README.md:59, waits for in-flight requests, then closes the database | `ListenAndServe` returns as soon as the listener is closed, and the process exits at once. |

`ServedInSync` is therefore checked without the envelope fault in
`enrollment_sequential`, and `DeliveredIsConfirmed` without overlap
(`Overlap = FALSE`). With overlap what remains true is `DeliveredKeyConfirmed`:
Intune accepted *some* success for the enrollment. The abstract contract has both
forms, chosen by `Strict`. Under which conditions each of the six statements does
hold is proved, see below.

Three more disagreements were met that no run is about. `GetCert` and `CertPoll` are
answered with a SCEP failure in a response with status 200, where README.md:82
says 501 (`HandlePKIOperation`). The JWT carries the fingerprint of the root
certificate (step.go:139), where README.md:139 says that of the public key of the CSR.
And start-up accepts a P-384, an RSA or a symmetric JWK although the signer is
made for ES256 (step.go:69): every request is then refused, where README.md:45 speaks of
failing fast. `Config` and `StepToken` have both sides of this:
`OnlyKeyKindUnchecked` says that it is the only thing that escapes the start-up, and
`enrollment_sequential` that such requests leave no trace.

## Fairness

- `Enrollment`: weak fairness of every handler's step, as each call returns: the
  HTTP clients of Intune and step-ca have timeouts of 10 s, retries are bounded,
  SQLite waits 5 s for a lock, and `net/http` schedules the goroutine. Weak
  fairness of `Receive` says that a client keeps trying while it may (`MaxTries`
  more often than things fail, `MaxFaults`); only `ProvisionedServed` needs it.
- `IntuneClient`: strong fairness of a caller's step, because a caller that waits
  for a mutex is enabled only while the mutex is free; `sync.Mutex` hands itself
  to a starving waiter. `CallsEnd` does not assume that a fetch succeeds.
- `Lifecycle`: weak fairness of `main`, of the shutdown goroutine and of the purge
  worker. Nothing is assumed of requests: they may hang, and `SignalEndsProcess`
  holds all the same. Nor need the listener ever break (`ServeFails` has no fairness).
- `Builder`: weak fairness of `main` and of every goroutine: Go schedules them, and
  `go build` and the file system return. Nothing is assumed of how they end.

## Proofs

`CertStoreProofs` proves of any table, with no state machine around it:

- `PrimaryKeyKept`: each of the statements keeps one row per id.
- `FirstCertificateWins`: `ON CONFLICT DO NOTHING` makes a second `StoreCert` of an
  enrollment a no-op, be the row expired or not.
- `MarkTwice`, `PurgeEffect`, `PurgeAndMarkCommute`: a mark is idempotent, a purge
  takes rows past their grace period and no other, and the two commute, so that the
  purge worker needs no lock beside the handlers.

`EnrollmentProofs` proves, for any sets of handlers and enrollments, any
lifetimes and any faults:

- `TypeCorrect`: `TypeOK`, from `TypeInit` and `TypeStep`.
- `SafetyInvariant`: `SafetyInv` is inductive. `GateHolds` alone is not: a
  handler at `sign` must be known to have verified. So `HandlersInv` says what a
  handler knows at each label (past `verify` the enrollment is verified, from
  `store` on the certificate is an issued one of this enrollment, past `notify`
  it is confirmed, at `replyStored` the enrollment has a confirmed one), and
  `RowsInv` says what a row knows (its certificate was issued for its id, and if
  marked, the enrollment has a confirmed certificate). `OneRowPerEnrollment`,
  `Gate`, `OwnCertificateOnly` and `DeliveredAfterNotification` are its conjuncts.
- `LiveRowsStay`: the action property `LiveRowStable`.
- `DeliveredCertificateConfirmed` and `NotifiedRowsAreConfirmed`, from
  `~Overlap`: `SequentialInv` adds that at most one handler serves an enrollment
  and, in `BranchInv`, that no live row appears behind the back of a handler on
  the branch of a new enrollment, and that a handler on the other branch holds
  the certificate of the row.
- `OnlySoundCsrsSigned`: whatever `Csr` is, no CSR that the README would not
  accept is signed for. `SoundInv` adds that every enrollment being served is
  sound, which comes from the definition of `Admitted`, unfolded down to
  `ValidateCsr`.
- `ServedWhileInSync`: the action property `ServedInSync`, from `~Overlap` and
  `"envelope" \notin Faulty`. `SyncInv` says that `verdict` is success wherever
  a handler or a marked live row relies on it, and that a handler at `report` finds
  no live row: as no envelope fails, failures are only reported where nothing is cached.
- `Implementation`: every behaviour of `Enrollment` is one of `Issuance`, strict
  when requests do not overlap, lenient otherwise.

`EnrollmentReissueProofs` is about what duplicates cost:

- `ReissuesAreBounded`: `ReissuesBoundedByFaults`, from `~Overlap`. `ReissueInv`
  says that the certificates of an enrollment none of which has expired are no more
  than the faults, or one more that is accounted for (`Accounted`): it has a row, or
  is about to be stored by a handler whose context is live. Cardinalities come from
  `FiniteSetTheorems`.
- `ReissuesAreBoundedWithOverlap`: `ReissuesBoundedByHandlers` for finitely many
  handlers. The bound alone is not inductive. `OverlapInv` tells two situations
  apart: while the enrollment has no row, each of its certificates is wasted or held by
  a handler that is about to store it (`Storing`); once it has one, only handlers that
  were past the lookup before may sign again (`Signing`), and certificates and these
  handlers together keep to the bound. `Wasted` is the number of handlers for each
  fault, since a crash turns what all of them hold to waste.

`EnrollmentLimitsProofs` proves how far the promises go that the runs refute or that
no invariant says:

- `RefusalsHaveCauses`: the action property `RefusedForCause`. No duplicate and
  nothing an earlier failure left behind makes a branch turn a good request away.
- `FailuresAreReported`: `FailuresReported`, if notifications do not fail and
  clients stay; requests may overlap.
- `DeliveredAreRecorded`: `LiveDeliveredRecorded` as long as nothing has expired, if
  requests do not overlap and `StoreCert` does not fail. `RecordInv` says that
  what a handler from `notify` on holds is in the table.

`IntuneClientProofs` proves, for any number of callers, calls and retries:

- `ClientSafety`: `SafetyInv` is inductive. It adds to `TypeOK` that a wait only
  comes before an attempt that remains (`CountsInv`, for the bound of the
  attempts), that one caller at a time fetches and that whatever is still good is
  what is cached (`CachesInv`), and that the token a caller may read is at least as
  good as the one it checked (`TokensLast`). `ClientTypes`,
  `OneFetchPerPeriod` (`NoRedundantFetch`) and `TokenOutlastsCall`
  (`PresentedTokenUnexpired`, from `CallTime <= Slack <= TokenLife`) follow.
- `CallsRunDownAlways`: the action property `CallsRunDown`, that every step of a busy
  caller lowers `StepsLeft`, which is at most `2 * MaxRetries + 7`. It is the part of
  `CallsEnd` that is a matter of safety: fairness only has to see to it that the
  steps are made.
- `ClientImplementation`: every behaviour of `IntuneClient` is one of `RemoteCall`.
- `LoneCallerReadsItsCache` and `FilledCachesAreRead`: `PopulatedCacheIsRead` holds of a
  single caller, and of any number of callers if no fetch fails. `LoneInv` and
  `FilledInv` differ in when the token may be missing: never between populate and
  read, or only while somebody fetches. So the violation of `intune_client_caches`
  takes two callers and a failed fetch.

`LifecycleProofs` proves, for any set of command lines, any tokens, any number of
requests, attempts and faults:

- `LifecycleTypes`: `TypeOK`.
- `ServesWhenReady`: `ReadyInv` says, for each point of the start-up, which of its
  results must be there; a request needs `main` to have been at `"serving"`.
- `KeyKindAloneEscapes`: `OnlyKeyKindUnchecked`. `ConfigInv` follows the parameters
  through the start-up as four shrinking sets (what `loadParams` returns, what
  Microsoft accepts, what has a step-ca to call, what can be routed), the last of
  which implies `SoundParams` or `SoundButForKey`.
- `ServesSoundConfigIfKeysSign`: every process that serves has a sound configuration
  if all keys that `loadParams` accepts are P-256, a condition the code does not ensure.
- `StoreOpenWhileServing`: `DrainInv`, that no request is active once Shutdown has
  returned before its time.
- `ZeroOnlyIfSignalled`: `SignalInv`, that the shutdown goroutine moves only on a
  signal.
- `WaitingWouldFinishRequests`: `InFlightRequestsFinish`, if `main` leaves
  `"serving"` with code 0 only after `Shutdown` has returned (`WaitsForShutdown`, which
  `run` does not ensure). Nothing else is missing for what README.md:59 says.
- `LifecycleImplementsService`: every behaviour of `Lifecycle` is one of `Service`. It
  uses all the invariants above except `SignalInv`, and `OpenInv`, that the store is
  opened once; start-up, service and the rest are mapped in a lemma each.

`BuilderProofs` proves, for any targets and any number of goroutines:

- `BuilderTypes` and `MainWaits`: `WaitInv` says that the counter of the `WaitGroup`
  is the number of goroutines at work, so that it is zero only when all have ended.
- `BinariesKept` and `SuccessesWhole`: `OutputInv` says where the binary of a
  goroutine is at each step, for a target that is named once, and that from its own
  `go build` on no goroutine sees anything of an earlier build. Both theorems have the
  exceptions of their properties (`Overlooked`); no promise is made of those cases.
- `BuilderImplementsRelease`: every behaviour of `Builder` is one of `Release`.
  `WorkSettles` says that a goroutine's step changes no fate but its own, `FateInv`
  that no fate is `"lost"`, and `Planned` that `main` only launches what there is.

In these two modules conditions on Boolean flags and arithmetic are kept in
separate conjuncts and steps.

The assumptions are the named `ASSUME`s of the modules; TLC evaluates them in
every run. The inductive invariants were checked with TLC before they were
proved. Hypotheses that are not assumptions stand in the theorem itself: `~Overlap`,
that a kind of fault does not occur, that the handlers are finitely many, or an
action formula such as `FetchesSucceed`. The runs that expect a violation show what
happens without them.

Only model-checked: the liveness properties (`Answered`, `ProvisionedServed`,
`CallsEnd`, `SignalEndsProcess`, `ExpiredRowsPurged`, `BuildEnds`), which are beyond
the prover under fairness. Every other property of any run, passing or not, is stated
by a theorem, those of the violation runs under the conditions named above.

## Not modelled, and why

- Cryptography and encodings: PKCS#7, X.509, JWT signatures, PEM, ZIP and tar.
  `Config`, `ScepFrontEnd` and `Builder` have what they decide, not how.
- `BuildBundle`, `GenerateActivityID`, the fingerprints, `EscapeODataString`: an
  encoding and opaque identifiers.
- Device compliance (README.md:104-106 of the repository): there is no code for it.
- `GetCRL`, `internal/crt`: stateless proxies. `middleware.go`: not installed.
- The contents of logs and of notifications.
- The 15 s `WriteTimeout`: an answer that comes too late is a `deliver` fault.
- `StartPurging`'s guard against a second worker: it is called once.
- A token or endpoint that is wrong though fresh: Intune then refuses the request.

## Plan

1. Done: `CertStore`, `Issuance`, `Enrollment`, `RemoteCall`, `IntuneClient`,
   `Lifecycle`, with their runs and proofs.
2. Done: `ScepFrontEnd` and `StepToken` as parts of `Enrollment`, `Config` as a part
   of `Lifecycle`, `Builder`. The pure functions are checked by what the
   composed system does with them, not apart from it.
3. Done: `LifecycleProofs`, `BuilderProofs`, and `IssuedSound`, `ServedInSync` and
   `ReissuesBoundedByFaults` for `Enrollment`.
4. Done: `CertStoreProofs`, `EnrollmentReissueProofs` for overlapping requests,
   `EnrollmentLimitsProofs`, `Release` and `Service` with the refinements of
   `Builder` and `Lifecycle`, the conditions under which the violated properties hold.
5. Left: lemmas about `TryParseKey`, `ParseJWK` and the other parsers of `Config` apart
   from what `ConfigInv` needs of them; the purge worker's own contract, that a failed purge
   is taken up again at the next tick.
