------------------------------ MODULE CertStore ------------------------------
(***************************************************************************)
(* The certificate cache of internal/store: one SQLite table, read and     *)
(* written by single SQL statements over one connection, so each operation *)
(* is one atomic function of the table.  A table is a set of rows.         *)
(*                                                                         *)
(* The primary key is the hash of the pair (CSR, challenge) that           *)
(* utils.CreateDBID computes; a member of Keys stands for that pair, and   *)
(* distinct pairs are taken to have distinct hashes.                       *)
(***************************************************************************)
EXTENDS Naturals

CONSTANTS
  Keys,        \* enrollments: the pairs (CSR, challenge)
  PurgeGrace   \* how long an expired row is kept, in ticks (24 hours)

ASSUME PurgeGraceAssumption == PurgeGrace \in Nat

(***************************************************************************)
(* A certificate: serial number, the enrollment whose request was signed,  *)
(* and the end of its validity.                                            *)
(***************************************************************************)
Cert == [sn : Nat, key : Keys, notAfter : Nat]

\* The columns transaction_id and certificate_signing_request are functions
\* of the id and expiration is one of the certificate, so neither is kept.
Row == [id : Keys, cert : Cert, notified : BOOLEAN]

\* time.Now().After(crt.NotAfter)
Expired(crt, time) == time > crt.notAfter

\* Mutant of GetCert: every row matches, as if the ids collided.
GetCertAny(table, id) == table

\* SELECT ... WHERE id = ?: the matching rows, at most one of them.
GetCert(table, id) == {r \in table : r.id = id}

\* Mutants of StoreCert: a conflict replaces the row; a table without a
\* primary key; a row born notified.
StoreCertReplaces(table, id, crt) ==
  (table \ GetCert(table, id)) \cup {[id |-> id, cert |-> crt, notified |-> FALSE]}
StoreCertDuplicate(table, id, crt) ==
  table \cup {[id |-> id, cert |-> crt, notified |-> FALSE]}
StoreCertNotified(table, id, crt) ==
  IF GetCert(table, id) = {}
    THEN table \cup {[id |-> id, cert |-> crt, notified |-> TRUE]}
    ELSE table

\* INSERT ... ON CONFLICT DO NOTHING
StoreCert(table, id, crt) ==
  IF GetCert(table, id) = {}
    THEN table \cup {[id |-> id, cert |-> crt, notified |-> FALSE]}
    ELSE table

\* UPDATE ... SET intune_notified = TRUE WHERE id = ?
MarkIntuneNotified(table, id) ==
  {IF r.id = id THEN [r EXCEPT !.notified = TRUE] ELSE r : r \in table}

\* Mutant of PurgeExpired: the grace period has the wrong sign.
PurgeExpiredEarly(table, time) ==
  {r \in table : r.cert.notAfter >= time + PurgeGrace}

\* DELETE ... WHERE expiration < now - 24h
PurgeExpired(table, time) ==
  {r \in table : r.cert.notAfter + PurgeGrace >= time}
==============================================================================
