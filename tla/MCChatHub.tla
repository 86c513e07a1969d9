----------------------------- MODULE MCChatHub -----------------------------
(* ChatHub on a few answers of at most six runes. *)
EXTENDS ChatHub

CONSTANTS a, b, c, d, n

\* A plain answer, one with blanks between its words, one of a single rune, and one that
\* comes back to its first rune.
MCAnswers == {<<a, b, c, d>>, <<a, Blank, b, Blank, c>>, <<a>>, <<a, b, Blank, a>>}

\* These are answers that StreamKeepsUp is about.
ASSUME AnswersAreTellable == \A t \in MCAnswers : Tellable(t)

MCNarration == <<n>>

\* An ordinary answer that holds a word with the letters "cite": "I am excited now".
MCMentionAnswers == {<<a, Blank, Mention, Blank, c>>}
=============================================================================
