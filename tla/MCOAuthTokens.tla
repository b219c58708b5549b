--------------------------- MODULE MCOAuthTokens ---------------------------
EXTENDS OAuthTokens, TLC

CONSTANTS w1, w2, i1, k1

MCKeysOf == i1 :> {k1}

(* the requests in flight are interchangeable *)
Symmetry == Permutations(Workers)
=============================================================================
