----------------------------- MODULE MCEnrollment -----------------------------
EXTENDS Enrollment, TLC

\* Handlers are interchangeable; used by the safety runs only.
HandlerSymmetry == Permutations(Handlers)

\* Two acceptable CSRs, one with a repeated and an empty name, and one CSR per
\* check of validateCsr.
GoodCsr == [verifies |-> TRUE, algorithm |-> "SHA256WithRSA", keyAlgorithm |-> "RSA",
            bits |-> 2048, commonName |-> TRUE, names |-> <<"host", "", "mail", "host">>]
CsrOf ==
  [k1 |-> GoodCsr,
   k2 |-> [GoodCsr EXCEPT !.algorithm = "ECDSAWithSHA1", !.keyAlgorithm = "EC", !.bits = 256,
                          !.names = <<>>],
   forged |-> [GoodCsr EXCEPT !.verifies = FALSE],
   pss |-> [GoodCsr EXCEPT !.algorithm = "SHA256WithRSAPSS"],
   short |-> [GoodCsr EXCEPT !.bits = 2047],
   unnamed |-> [GoodCsr EXCEPT !.commonName = FALSE]]
MCCsr == [k \in Keys |-> CsrOf[k]]

\* step-ca's clock at either end of the token's window, at its middle, and
\* step-ca out of reach: just past one end, or a key that cannot sign ES256.
InStep == {[jwk |-> "P-256", skew |-> 0]}
AtTheEnds == {[jwk |-> "P-256", skew |-> -30], [jwk |-> "P-256", skew |-> 300]}
InAndOutOfStep == InStep \cup {[jwk |-> "P-256", skew |-> 301], [jwk |-> "P-384", skew |-> 0]}
==============================================================================
