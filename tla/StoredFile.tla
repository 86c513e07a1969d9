----------------------------- MODULE StoredFile -----------------------------
(***************************************************************************)
(* A file that a store of the administration console keeps: os.WriteFile   *)
(* truncates it and writes it in place, and a store that comes up takes a  *)
(* file it cannot decode for one that is not there.                        *)
(***************************************************************************)

CONSTANT Torn   \* the content of a file that has been truncated or half written

\* What a file holds after a write of v that has reported an error: what it held before
\* (it could not be opened), a part of v, or all of v (closing it failed).
AfterError(file, v) == {file, Torn, v}

\* What a store that drops the error of its write may leave behind.
AfterWrite(file, v) == {v} \cup AfterError(file, v)

\* os.ReadFile and json.Unmarshal at start-up.
Loaded(file, empty) == IF file = Torn THEN empty ELSE file
=============================================================================
