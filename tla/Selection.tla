----------------------------- MODULE Selection ------------------------------
(***************************************************************************)
(* The loop that builds a list from another one: it walks over the list    *)
(* and appends the elements it keeps, as in Store.Delete                   *)
(* (internal/auth/cache.go) and NewPool (internal/outbound/pool.go).       *)
(***************************************************************************)
EXTENDS Naturals, Sequences

\* The elements of s at the places in I, in the order of s.
Selected(s, I) ==
    LET kept[n \in 0..Len(s)] ==
            IF n = 0 THEN <<>>
            ELSE IF n \in I THEN Append(kept[n - 1], s[n]) ELSE kept[n - 1]
    IN  kept[Len(s)]
=============================================================================
