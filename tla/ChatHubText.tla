---------------------------- MODULE ChatHubText ----------------------------
(***************************************************************************)
(* The pure text operators of internal/chathub/client.go: citation         *)
(* cleaning, the deduplication of ChatHub's overlapping frames, and the    *)
(* choice of the final answer. A text is a sequence of runes.              *)
(*                                                                         *)
(* Three runes matter to the cleaning. Blank is white space other than a   *)
(* newline. Marker is a complete citation marker (a private-use sequence,  *)
(* a <cite> element or "cite turn3"): cleaning deletes it. Mention is a    *)
(* word that merely contains the letters "cite" ("excited"): it is no      *)
(* marker, but it makes the cleaning run. Markers cut in two by a frame    *)
(* boundary are not represented.                                           *)
(***************************************************************************)
EXTENDS Naturals, FiniteSets, SequencesExt, Selection

CONSTANTS
    Blank, Marker, Mention,  \* the three runes above
    SmallFrame               \* 8: a frame of at most so many runes is a cursor token

ASSUME TextAssumption ==
    /\ SmallFrame \in Nat
    /\ Blank # Marker /\ Marker # Mention /\ Mention # Blank

-----------------------------------------------------------------------------

\* strings.TrimSpace.
TrimBlanks(t) ==
    LET visible == {i \in DOMAIN t : t[i] # Blank}
        first   == CHOOSE i \in visible : \A j \in visible : i <= j
        last    == CHOOSE i \in visible : \A j \in visible : j <= i
    IN  IF visible = {} THEN <<>> ELSE SubSeq(t, first, last)

\* Blanks at both ends go, and a blank behind a blank goes.
TidyBlanks(t) ==
    LET u == TrimBlanks(t)
    IN  Selected(u, {i \in DOMAIN u : i > 1 => <<u[i - 1], u[i]>> # <<Blank, Blank>>})

Without(t, r) == Selected(t, {i \in DOMAIN t : t[i] # r})

\* CleanM365Citations: a text without a trace of citations is returned as it is.
CleanM365Citations(t) ==
    IF \E i \in DOMAIN t : t[i] \in {Marker, Mention}
    THEN TidyBlanks(Without(t, Marker))
    ELSE t

DedupeSignature(t) == Without(CleanM365Citations(t), Blank)

Holds(t, part) ==
    \E i \in 0..(Len(t) - Len(part)) : SubSeq(t, i + 1, i + Len(part)) = part

\* What is left of `whole` after its prefix `head`.
Beyond(head, whole) == SubSeq(whole, Len(head) + 1, Len(whole))

\* A defect: tokens the stream already ends with are not recognised.
AlreadyApplied_Never(streamed, incoming) == FALSE

\* The frame repeats text the stream already ends with.
AlreadyApplied(streamed, incoming) ==
    \/ IsSuffix(incoming, streamed)
    \/ IsSuffix(CleanM365Citations(incoming), CleanM365Citations(streamed))

\* The frame restates the whole answer in other white space.
Restatement(streamed, incoming) ==
    /\ DedupeSignature(streamed) # <<>>
    /\ Holds(DedupeSignature(incoming), DedupeSignature(streamed))
    /\ Len(incoming) >= Len(streamed)

\* unseenDelta: the part of the frame that the stream lacks; <<>> stands for skip.
UnseenDelta(streamed, raw) ==
    LET incoming == CleanM365Citations(raw)
        cStream  == CleanM365Citations(streamed)
    IN  CASE incoming = <<>>                      -> <<>>
          [] IsPrefix(streamed, incoming)         -> Beyond(streamed, incoming)
          [] /\ ~IsPrefix(streamed, incoming)
             /\ cStream # <<>>
             /\ IsPrefix(cStream, incoming)       -> Beyond(cStream, incoming)
          [] OTHER ->
               IF \/ AlreadyApplied(streamed, incoming)
                  \/ Restatement(streamed, incoming)
                  \/ Len(incoming) > SmallFrame
               THEN <<>>
               ELSE incoming

-----------------------------------------------------------------------------

\* overlapRatio(a, b) >= 0.7, in integers: seven in ten of the disjoint bigrams of
\* the shorter text occur in the longer one (single runes below four runes).
Overlaps(a, b) ==
    LET short == IF Len(a) > Len(b) THEN b ELSE a
        long  == IF Len(a) > Len(b) THEN a ELSE b
        step  == IF Len(short) < 4 THEN 1 ELSE 2
        grams == {i \in 0..(Len(short) - step) : i % step = 0}
        hits  == {i \in grams : Holds(long, SubSeq(short, i + 1, i + step))}
    IN  /\ a # <<>> /\ b # <<>>
        /\ 10 * Cardinality(hits) >= 7 * Cardinality(grams)

\* A defect: trusts the live stream over the completion frame.
FinalTextReconcile_StreamFirst(streamed, final) ==
    IF streamed = <<>> THEN final ELSE streamed

\* finalTextReconcile: the text of the result once the stream has ended.
FinalTextReconcile(streamed, final) ==
    LET s    == CleanM365Citations(TrimBlanks(streamed))
        f    == CleanM365Citations(TrimBlanks(final))
        sSig == DedupeSignature(s)
        fSig == DedupeSignature(f)
        finalWins ==
            \/ s = <<>>
            \/ IsPrefix(s, f)
            \/ /\ ~IsPrefix(f, s)
               /\ sSig # <<>> /\ fSig # <<>>
               /\ \/ Holds(fSig, sSig) /\ Len(f) >= (Len(s) * 3) \div 4
                  \/ Overlaps(sSig, fSig) /\ Len(f) > Len(s)
    IN  IF f # <<>> /\ finalWins THEN f ELSE s
=============================================================================
