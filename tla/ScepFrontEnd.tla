------------------------------ MODULE ScepFrontEnd ------------------------------
(***************************************************************************)
(* What internal/scep does with an HTTP request before it touches the      *)
(* cache, Intune or step-ca: the dispatch on operation and message type,   *)
(* the opening of the envelope and the checks of the CSR.  All of it is a  *)
(* function of the request.                                                *)
(***************************************************************************)
EXTENDS Naturals, Sequences

CONSTANTS
  Csr,      \* per enrollment, what matters of its CSR
  NoMessage \* a body that is no SCEP message, an empty one included

CsrType == [verifies : BOOLEAN, algorithm : STRING, keyAlgorithm : STRING,
            bits : Nat, commonName : BOOLEAN, names : Seq(STRING)]

Enrollments == DOMAIN Csr

ASSUME CsrAssumption == \A k \in Enrollments : Csr[k] \in CsrType

MessageType == {"PKCSReq", "RenewalReq", "UpdateReq", "GetCRL", "GetCert", "CertPoll", "other"}
PKIMessage == [type : MessageType, decrypts : BOOLEAN, hasCsr : BOOLEAN, key : Enrollments]

\* A request to the SCEP path; a GET carries its message in the query.
HttpRequest ==
  [method : {"GET", "POST"},
   operation : {"GetCACaps", "GetCACert", "PKIOperation", "other"},
   message : PKIMessage \cup {NoMessage}]

-----------------------------------------------------------------------------
SupportedAlgorithms ==
  {"SHA256WithRSA", "SHA384WithRSA", "SHA512WithRSA", "ECDSAWithSHA256",
   "ECDSAWithSHA384", "ECDSAWithSHA512", "SHA1WithRSA", "ECDSAWithSHA1"}

\* Mutant of ValidateCsr: the size of an RSA key is not looked at.
ValidateCsrAnySize(csr) ==
  IF ~csr.verifies THEN "badMessageCheck"
  ELSE IF csr.algorithm \notin SupportedAlgorithms THEN "badAlg"
  ELSE IF ~csr.commonName THEN "badRequest"
  ELSE "valid"

ValidateCsr(csr) ==
  IF ~csr.verifies THEN "badMessageCheck"
  ELSE IF csr.algorithm \notin SupportedAlgorithms THEN "badAlg"
  ELSE IF csr.keyAlgorithm = "RSA" /\ csr.bits < 2048 THEN "badRequest"
  ELSE IF ~csr.commonName THEN "badRequest"
  ELSE "valid"

\* handleCSRRequest up to the lookup in the cache.
OpenCsr(msg) ==
  IF msg.decrypts /\ msg.hasCsr THEN ValidateCsr(Csr[msg.key]) ELSE "badMessageCheck"

\* Only the body is read, whatever the method.
Body(r) == IF r.method = "POST" THEN r.message ELSE NoMessage

HandlePKIOperation(msg) ==
  CASE msg = NoMessage -> "http400"
    [] msg # NoMessage /\ msg.type \in {"PKCSReq", "RenewalReq", "UpdateReq"} -> OpenCsr(msg)
    [] msg # NoMessage /\ msg.type = "GetCRL" -> "crl"
    [] OTHER -> "badRequest"

ServeHTTP(r) ==
  CASE r.operation = "GetCACaps" -> "caps"
    [] r.operation = "GetCACert" -> "bundle"
    [] r.operation = "PKIOperation" -> HandlePKIOperation(Body(r))
    [] OTHER -> "http400"

-----------------------------------------------------------------------------
\* Mutant of GetCACaps: POSTPKIOperation is not announced.
GetCACapsWithoutPost == {"SHA-256", "SHA-512", "AES", "DES3", "SCEPStandard"}

GetCACaps == {"POSTPKIOperation", "SHA-256", "SHA-512", "AES", "DES3", "SCEPStandard"}

\* A client posts its messages if the server announces that it may.
ClientMethod == IF "POSTPKIOperation" \in GetCACaps THEN "POST" ELSE "GET"

\* Enrollments whose requests get as far as the cache ...
Admitted ==
  {k \in Enrollments : \E r \in HttpRequest :
     /\ r.method = ClientMethod
     /\ r.operation = "PKIOperation"
     /\ r.message # NoMessage /\ r.message.key = k
     /\ ServeHTTP(r) = "valid"}

\* ... and the answers that other requests are given.
Dismissals == {ServeHTTP(r) : r \in HttpRequest} \ {"valid"}

\* "Before touching any external APIs, the CSR is locally validated" (README),
\* and what it says an acceptable CSR is.
Sound(csr) ==
  /\ csr.verifies
  /\ csr.commonName
  /\ csr.algorithm \in {"SHA256WithRSA", "SHA384WithRSA", "SHA512WithRSA", "SHA1WithRSA",
       "ECDSAWithSHA256", "ECDSAWithSHA384", "ECDSAWithSHA512", "ECDSAWithSHA1"}
  /\ csr.keyAlgorithm = "RSA" => csr.bits >= 2048
==============================================================================
