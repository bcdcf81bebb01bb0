---------------------------- MODULE MCSigningKeys ----------------------------
(***************************************************************************)
(* Two requests share the copy of two keys, over a time in which a key can *)
(* be retired while its answer is under way, serve to the last tick, and   *)
(* be refused.                                                             *)
(***************************************************************************)
EXTENDS SigningKeys

CONSTANTS q1, q2, k1, k2

TwoRequests == {q1, q2}
TwoKeys == {k1, k2}

\* Tokens that name their key, one that names none, and one that is not valid.
MCTokens == [kid : {k1}, signer : {k1, Stranger}] \cup [kid : {k2, NoId}, signer : {k2}]
=============================================================================
