--------------------------------- MODULE Config ---------------------------------
(***************************************************************************)
(* The command line of pimptune run (internal/cli): which combinations of  *)
(* flags loadParams accepts, and the parameters it makes of them.          *)
(*                                                                         *)
(* A flag that is not given is the empty string.  The flag of a file is    *)
(* what the file holds, or Unreadable.                                     *)
(***************************************************************************)
EXTENDS Naturals, Sequences

Unreadable == "unreadable"
Given(value) == value # ""

\* One of a secret's two flags.
OneOf(value, file) == ~(Given(value) /\ Given(file))

\* Text of a file without the white space around it, for the texts told apart.
TrimSpace(text) == IF text = "right\n" THEN "right" ELSE text

RsaKeys == {"rsa1", "rsa2"}
Keypairs == RsaKeys \cup {"ec1"}
Jwks == {"P-256", "P-384", "RSA", "secret", "public"}

-----------------------------------------------------------------------------
(* Paths: [slashes, name, trailing], how many slashes lead the name and    *)
(* whether one follows it.  A name is a whole path: to chi, which looks a  *)
(* pattern up exactly, one path inside another does not collide with it.   *)

LeadingSlash(path) == path.slashes > 0
Normal(path) == [path EXCEPT !.slashes = 1]

\* Mutant of Collide: chi tells /scep from /scep/.
CollideExactly(p, q) == p = q
\* chi mounts one handler on a path, with or without a slash at its end.
Collide(p, q) == p.name = q.name

-----------------------------------------------------------------------------
(* Intune. *)

\* The secret of a file is taken as it is.
IntuneClientSecret(f) ==
  IF Given(f.intuneClientSecret) THEN f.intuneClientSecret ELSE f.intuneClientSecretFile

IntuneValid(f) ==
  /\ f.intuneTenantID /\ Given(f.intuneClientID)
  /\ OneOf(f.intuneClientSecret, f.intuneClientSecretFile)
  /\ Given(IntuneClientSecret(f)) /\ IntuneClientSecret(f) \notin {"empty", Unreadable}

ScepRole == "scep_challenge_provider"

\* Mutant of TokenHasRole: any token with roles will do.
TokenHasAnyRole(token, roleName) == token.parts = 3 /\ token.decodes /\ token.roles # {}
\* A token has three parts, claims that decode and roles, in whatever case.
TokenHasRole(token, roleName) ==
  /\ token.parts = 3 /\ token.decodes
  /\ \E role \in token.roles : role.folded = roleName

-----------------------------------------------------------------------------
(* The certificate and the key of the RA.  A certificate is its key pair;  *)
(* a key file is [label, locked, key], from its first PEM block.           *)

RaKeyPassword(f) ==
  IF Given(f.raKeyPasswordFile) THEN TrimSpace(f.raKeyPasswordFile) ELSE f.raKeyPassword

KeyLabels ==
  {"ENCRYPTED PRIVATE KEY", "PRIVATE KEY", "RSA PRIVATE KEY", "EC PRIVATE KEY",
   "ANY PRIVATE KEY"}

\* The key in a file, or "none".
TryParseKey(file, password) ==
  IF /\ file.label \in KeyLabels
     /\ file.locked => password = "right"
     /\ file.label = "ENCRYPTED PRIVATE KEY" => file.locked
     /\ file.label = "RSA PRIVATE KEY" => file.key \in RsaKeys
     /\ file.label = "EC PRIVATE KEY" => file.key \notin RsaKeys
  THEN file.key ELSE "none"

\* Mutant of CheckCrtKeyMatch: only the types are compared.
CheckCrtKeyMatchTypes(crt, key) == crt \in RsaKeys <=> key \in RsaKeys
CheckCrtKeyMatch(crt, key) == crt = key

RaValid(f) ==
  /\ f.raCrt \in Keypairs
  /\ OneOf(f.raKeyPassword, f.raKeyPasswordFile) /\ f.raKeyPasswordFile # Unreadable
  /\ LET key == TryParseKey(f.raKey, RaKeyPassword(f))
     IN  key \in RsaKeys /\ CheckCrtKeyMatch(f.raCrt, key)

-----------------------------------------------------------------------------
(* The CA chain: a sequence of PEM blocks. *)

\* Blocks of another type than CERTIFICATE are passed over.
TryParseChain(blocks) == SelectSeq(blocks, LAMBDA b : b # "other")

ChainValid(f) ==
  LET chain == TryParseChain(f.caChain)
  IN  Len(chain) > 0 /\ \A i \in 1..Len(chain) : chain[i] \in {"issuing", "root"}

-----------------------------------------------------------------------------
(* step-ca. *)

\* The password flag wins over the file, which is not even read then.
JwkPassword(f) ==
  IF Given(f.stepJwkPassword) THEN f.stepJwkPassword ELSE TrimSpace(f.stepJwkPasswordFile)

\* A key in plain text needs no password, and is parsed whatever it is.
ParseJWK(file, password) ==
  IF file.key \in Jwks /\ (file.locked => password = "right") THEN file.key ELSE "none"

NoUrl == [scheme |-> "", host |-> FALSE]
UrlValid(url) == url.scheme \in {"http", "https"} /\ url.host

\* A key of any type but a public one will do.
StepValid(f) ==
  /\ f.stepApiUrl # NoUrl /\ f.stepProvisionerName
  /\ JwkPassword(f) # Unreadable
  /\ ParseJWK(f.stepJwkFile, JwkPassword(f)) \notin {"none", "public"}

-----------------------------------------------------------------------------
\* The validator of the flag.
PortValid(f) == f.port > 0

Valid(f) ==
  /\ PortValid(f)
  /\ LeadingSlash(f.scepPath) /\ LeadingSlash(f.crtPath) /\ LeadingSlash(f.crlPath)
  /\ IntuneValid(f) /\ RaValid(f) /\ ChainValid(f) /\ StepValid(f)
  /\ f.databasePath

Params(f) ==
  [paths |-> <<Normal(f.scepPath), Normal(f.crtPath), Normal(f.crlPath)>>,
   clientID |-> f.intuneClientID,
   secret |-> IntuneClientSecret(f),
   raCrt |-> f.raCrt,
   raKey |-> TryParseKey(f.raKey, RaKeyPassword(f)),
   caChain |-> TryParseChain(f.caChain),
   stepApiUrl |-> f.stepApiUrl,
   stepJWK |-> ParseJWK(f.stepJwkFile, JwkPassword(f))]

-----------------------------------------------------------------------------
\* A configuration that enrollments can be served with: the client encrypts
\* to the certificate of the key that decrypts, the chain that is handed out
\* holds CAs only, the key step-ca is asked with can sign ES256, which is
\* all that NewStepClient makes a signer for, the application's secret opens
\* the gate of Intune, step-ca's URL can be called, and the three servers are
\* mounted on three paths.
SoundParams(p, token) ==
  /\ p.raKey = p.raCrt /\ p.raKey \in RsaKeys
  /\ Len(p.caChain) > 0 /\ \A i \in 1..Len(p.caChain) : p.caChain[i] \in {"issuing", "root"}
  /\ p.stepJWK = "P-256"
  /\ p.secret = "right" /\ ScepRole \in {role.folded : role \in token.roles}
  /\ UrlValid(p.stepApiUrl)
  /\ \A i, j \in 1..3 : p.paths[i].name = p.paths[j].name => i = j

\* Nothing is wrong but the kind of the JWK, a private key that cannot sign
\* ES256: start-up does not look at it, and then no request is ever signed.
SoundButForKey(p, token) ==
  /\ p.stepJWK \in {"P-384", "RSA", "secret"}
  /\ SoundParams([p EXCEPT !.stepJWK = "P-256"], token)
==============================================================================
