---------------------------- MODULE MCResponses ----------------------------
(* ResponsesAdapter over short answers: a word, a blank, and a fence. *)
EXTENDS ResponsesAdapter

CONSTANTS a, f, s, q

MCRune == {a, f, s, q, Blank}
MCDeltas == {<<a>>, <<Blank>>, <<f, f>>, <<a, a, a>>}
MCSummary == <<a, a>>
MCFence == <<f, f>>
MCShellMark == <<f, f, s>>
MCCommandMark == <<q, s, q>>
=============================================================================
