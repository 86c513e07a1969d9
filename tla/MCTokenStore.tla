---------------------------- MODULE MCTokenStore ----------------------------
(***************************************************************************)
(* Two concurrent requests, two identities without an e-mail (the worst    *)
(* case for Matches), one of which gets refresh tokens, three grants.      *)
(***************************************************************************)
EXTENDS TokenStore, TLC

CONSTANTS u1, u2, p1, p2

MCEmailOf == [u \in Users |-> NoEmail]

Symmetry == Permutations(Procs)
=============================================================================
