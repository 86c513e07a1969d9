---------------------------- MODULE MCAdminState ----------------------------
(***************************************************************************)
(* Settings: a proxy, the same one with a slash at its end, another one,   *)
(* and a URL that New refuses; two requests at a time, three in all.       *)
(* Elsewhere two or three of everything.                                   *)
(***************************************************************************)
EXTENDS AdminState, TLC

CONSTANTS a, as, b, x, r1, r2, r3, k1, k2, k3, l1, l2, n1, n2

MCPlain == [u \in Proxies |-> IF u = as THEN a ELSE u]

MCPuts == {[proxies |-> <<>>, rest |-> "custom"],
           [proxies |-> <<b, Blank, b>>, rest |-> "none"]}

MCPosts == {<<a>>, <<as, b>>, <<b, x>>}

\* Of the requests that a store serves at a time, two are alike, and so are session keys.
Symmetry == Permutations({r1, r2}) \cup Permutations({n1, n2})
=============================================================================
