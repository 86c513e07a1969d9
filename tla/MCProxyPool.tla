---------------------------- MODULE MCProxyPool -----------------------------
(***************************************************************************)
(* Three proxies, in every list of up to three URLs, blanks and            *)
(* repetitions included, and three dials or calls at a time.               *)
(***************************************************************************)
EXTENDS ProxyPool, TLC

CONSTANTS a, b, c, d1, d2, d3

MCLists == UNION {[1..n -> Proxies \cup {Blank}] : n \in 0..3}

Symmetry == Permutations(Proxies) \cup Permutations(Dials)
=============================================================================
