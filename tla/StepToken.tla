------------------------------- MODULE StepToken -------------------------------
(***************************************************************************)
(* The one-time token with which internal/step asks step-ca for a          *)
(* certificate, and whether step-ca takes it.  Times are in seconds of our *)
(* clock; step-ca's clock is ahead of it by a skew.                        *)
(***************************************************************************)
EXTENDS Integers, Sequences

Seqs == INSTANCE SequencesExt

\* Mutant of DedupStrings: the first name is all that is kept.
DedupStringsFirst(input) == SubSeq(input, 1, 1)

\* Each string once, in the order of first use, and no empty one.
DedupStrings(input) ==
  Seqs!FoldLeft(LAMBDA result, str :
             IF str = "" \/ str \in Seqs!ToSet(result) THEN result ELSE Append(result, str),
           <<>>, input)

ExtractSANsFromCSR(csr) == DedupStrings(csr.names)

\* Mutant of NotBefore: the token is not back-dated.
NotBeforeNow(now) == now
NotBefore(now) == now - 30
\* Mutant of Expiry: the token ends when it is made.
ExpiryAtOnce(now) == now
Expiry(now) == now + 300

CreateToken(csr, now) ==
  [notBefore |-> NotBefore(now), expiry |-> Expiry(now), sans |-> ExtractSANsFromCSR(csr)]

\* The signer is made for ES256 whatever the key is, and fails on another.
KeySigns(jwk) == jwk = "P-256"

\* step-ca takes a token within its validity if it names what the CSR names.
Authorizes(token, csr, time) ==
  /\ token.notBefore <= time /\ time <= token.expiry
  /\ Seqs!ToSet(token.sans) = Seqs!ToSet(csr.names) \ {""}

\* CreateToken and the sign request, for a client with the given key.
SignRequestAccepted(csr, setup) ==
  KeySigns(setup.jwk) /\ Authorizes(CreateToken(csr, 0), csr, setup.skew)
==============================================================================
