---------------------------- MODULE MCChatStream ----------------------------
(* ChatStream with short markers: f f for a fence, f f s for a shell block, and *)
(* q c q for a command, of HoldBack + 1 runes as in the code.                   *)
EXTENDS ChatStream

CONSTANTS a, f, s, q, c

MCRune == {a, f, s, q, c, Blank}
MCDeltas == {<<a>>, <<f>>, <<s>>, <<q>>, <<q, c>>, <<a, a, f>>}
MCSummary == <<a, a>>
MCFence == <<f, f>>
MCShellMark == <<f, f, s>>
MCCommandMark == <<q, c, q>>
=============================================================================
