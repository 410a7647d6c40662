------------------------------ MODULE MCLifecycle ------------------------------
EXTENDS Lifecycle

Path(name) == [slashes |-> 1, name |-> name, trailing |-> FALSE]
KeyFile(label, locked, key) == [label |-> label, locked |-> locked, key |-> key]
JwkFile(locked, key) == [locked |-> locked, key |-> key]
NoKeyFile == KeyFile("", FALSE, "none")

\* What the tenant issues to each application.
Token(parts, decodes, roles) == [parts |-> parts, decodes |-> decodes, roles |-> roles]
AsIs == [written |-> ScepRole, folded |-> ScepRole]
Shouted == [written |-> "SCEP_CHALLENGE_PROVIDER", folded |-> ScepRole]
Another == [written |-> "device.read", folded |-> "device.read"]
MCTokenOf ==
  [c \in {"app", "shouting", "other", "none", "opaque", "garbled"} |->
     CASE c = "app" -> Token(3, TRUE, {AsIs, Another})
       [] c = "shouting" -> Token(3, TRUE, {Shouted})
       [] c = "other" -> Token(3, TRUE, {Another})
       [] c = "none" -> Token(3, TRUE, {})
       [] c = "opaque" -> Token(1, FALSE, {AsIs})
       [] c = "garbled" -> Token(3, FALSE, {})]

Good ==
  [port |-> 8080,
   scepPath |-> Path("scep"), crtPath |-> Path("crt"), crlPath |-> Path("crl"),
   intuneTenantID |-> TRUE, intuneClientID |-> "app",
   intuneClientSecret |-> "right", intuneClientSecretFile |-> "",
   raCrt |-> "rsa1", raKey |-> KeyFile("PRIVATE KEY", FALSE, "rsa1"),
   raKeyPassword |-> "", raKeyPasswordFile |-> "",
   caChain |-> <<"issuing", "root">>,
   stepApiUrl |-> [scheme |-> "https", host |-> TRUE], stepProvisionerName |-> TRUE,
   stepJwkFile |-> JwkFile(FALSE, "P-256"),
   stepJwkPassword |-> "", stepJwkPasswordFile |-> "",
   databasePath |-> TRUE]

\* The path of the SCEP server in all the ways it can be written, the other
\* two paths the same.
Paths ==
  {[Good EXCEPT !.scepPath = p] :
     p \in [slashes : 0..2, name : {"scep", "crl", "crt"}, trailing : BOOLEAN]}
  \cup {[Good EXCEPT !.crtPath = p] : p \in [slashes : 0..1, name : {"crl"}, trailing : BOOLEAN]}
  \cup {[Good EXCEPT !.crlPath.slashes = n] : n \in 0..2}

\* The application, its secret and the two ways to give it.
Secrets == {"", "right", "right\n", "wrong"}
Applications ==
  {[Good EXCEPT !.intuneTenantID = t, !.intuneClientID = c,
                !.intuneClientSecret = s, !.intuneClientSecretFile = file] :
     t \in BOOLEAN, c \in {""} \cup DOMAIN MCTokenOf,
     s \in Secrets, file \in Secrets \cup {"empty", Unreadable}}

\* The RA's certificate and key, the key in any form, its password.
RaFiles ==
  {[Good EXCEPT !.raCrt = crt, !.raKey = file, !.raKeyPassword = s, !.raKeyPasswordFile = p] :
     crt \in {"none"} \cup Keypairs,
     file \in {NoKeyFile} \cup [label : KeyLabels \cup {"EC PARAMETERS"},
                                locked : BOOLEAN, key : {"none"} \cup Keypairs],
     s \in {"", "right", "wrong"}, p \in {"", "right\n", Unreadable}}

\* The chain: up to two blocks of any kind.
Blocks == {"issuing", "root", "leaf", "other", "bad"}
Chains ==
  {[Good EXCEPT !.caChain = chain] :
     chain \in {<<>>} \cup {<<b>> : b \in Blocks} \cup (Blocks \X Blocks)}

\* step-ca's URL, its key and the key's password.
StepSettings ==
  {[Good EXCEPT !.stepApiUrl = url, !.stepProvisionerName = n] :
     url \in [scheme : {"", "http", "https", "ftp"}, host : BOOLEAN], n \in BOOLEAN}
  \cup
  {[Good EXCEPT !.stepJwkFile = file, !.stepJwkPassword = s, !.stepJwkPasswordFile = p] :
     file \in [locked : BOOLEAN, key : {"none"} \cup Jwks],
     s \in {"", "right", "wrong"}, p \in {"", "right\n", "wrong", Unreadable}}

MCConfigurations ==
  Paths \cup Applications \cup RaFiles \cup Chains \cup StepSettings
  \cup {[Good EXCEPT !.port = 0], [Good EXCEPT !.databasePath = FALSE]}

OneConfiguration == {Good}
==============================================================================
