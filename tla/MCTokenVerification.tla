------------------------- MODULE MCTokenVerification -------------------------
EXTENDS TokenVerification

\* All calls present the same token; the issuer can sign with another key as well.
MCTokens == {[kid |-> "k1", jti |-> "t1"]}
=============================================================================
