------------------------------ MODULE ChatHub ------------------------------
(***************************************************************************)
(* One call of Client.chatWithHandlers (internal/chathub/client.go): it    *)
(* uploads, dials, shakes hands, sends the prompt, and then reads SignalR  *)
(* frames until a completion frame, an error, or a deadline.               *)
(*                                                                         *)
(* ChatHub, the service, is modelled from how the code uses it. It writes  *)
(* an answer from left to right and tells of its progress in update frames *)
(* that carry a cursor token (writeAtCursor: the runes just written), a    *)
(* snapshot (the text so far, citation markers inserted), or both; in a    *)
(* progress frame the cursor narrates work that is no part of the answer.  *)
(* An item frame (type 2) may hold the final answer; a completion frame    *)
(* (type 3) ends the turn. Frames arrive in order; the connection may drop *)
(* between any two.                                                        *)
(***************************************************************************)
EXTENDS ChatHubText

CONSTANTS
    Answers,     \* the texts ChatHub may be writing, without citation markers
    CiteSpots,   \* the runes after which a marker may be inserted
    Narration,   \* a cursor text of a progress frame
    Tools,       \* the native tools whose calls ChatHub may report
    MaxFrames    \* bound: frames of one turn (the code reads on for 5 minutes)

ASSUME ChatHubAssumption ==
    /\ \A t \in Answers : t \in Seq(ToSet(t))
    /\ MaxFrames \in Nat
    /\ Narration # <<>>

VARIABLES
    pc,          \* the step of chatWithHandlers
    streamedText,\* the local of that name: all deltas handed to the caller
    final,       \* the local of that name: the text of the last item frame
    seen,        \* seenStreamTools
    toolEvents,  \* the tool events handed to the caller, in order
    outcome,     \* "none", "result" or "error": what the call returned
    resText,     \* Result.Text
    answer, gen, \* ChatHub: the text it is writing, and how many runes are written
    fresh,       \* ChatHub: where the last cursor token began
    called,      \* ChatHub: the tools its frames have reported
    completion,  \* ChatHub: "none", "ok" or "error", the completion frame it sent
    frames       \* frames read so far

vars == <<pc, streamedText, final, seen, toolEvents, outcome, resText,
          answer, gen, fresh, called, completion, frames>>

local    == <<streamedText, final, seen, toolEvents>>
returned == <<outcome, resText>>
service  == <<answer, gen, fresh, called, completion>>

Setup == <<"validate", "upload", "dial", "handshake", "send", "read">>

NoText == <<>>

-----------------------------------------------------------------------------

Init ==
    /\ pc = "validate"
    /\ streamedText = NoText /\ final = NoText
    /\ seen = {} /\ toolEvents = <<>>
    /\ outcome = "none" /\ resText = NoText
    /\ answer \in Answers /\ gen = 0 /\ fresh = 0
    /\ called = {} /\ completion = "none"
    /\ frames = 0

\* A defect: returns without an error.
ReturnError_Silent ==
    /\ pc' = "returned"
    /\ UNCHANGED returned

\* Every early return of an error, with an empty Result.
ReturnError ==
    /\ pc' = "returned"
    /\ outcome' = "error" /\ resText' = NoText

\* Validation, upload, dial, handshake and send: each succeeds or ends the call.
SetUp(k) ==
    /\ pc = Setup[k]
    /\ UNCHANGED <<local, service, frames>>
    /\ \/ pc' = Setup[k + 1] /\ UNCHANGED returned
       \/ ReturnError

-----------------------------------------------------------------------------
(* ChatHub's side of an update frame. *)

\* The text so far, with a marker behind some of the runes in CiteSpots.
Cited(t, spots) ==
    LET cited[i \in 0..Len(t)] ==
            IF i = 0 THEN <<>>
            ELSE cited[i - 1] \o (IF t[i] \in spots THEN <<t[i], Marker>> ELSE <<t[i]>>)
    IN  cited[Len(t)]

\* A frame ends behind a visible rune: tokens carry their leading blank.
WordEnd(n) == n > 0 => answer[n] # Blank

\* ChatHub goes on to rune n and says so by cursor token, snapshot, or both. A token that
\* comes alone is short ("writeAtCursor frames are tiny token fragments").
AnswerFrames(n) ==
    LET token    == SubSeq(answer, gen + 1, n)
        snapshots == {Cited(SubSeq(answer, 1, n), spots) : spots \in SUBSET CiteSpots}
    IN  (IF n - gen \in 1..SmallFrame THEN {[cursor |-> token, snapshot |-> NoText]} ELSE {})
        \cup {[cursor |-> c, snapshot |-> s] : c \in {NoText, token}, s \in snapshots}

\* The last cursor token once more, after a snapshot that has it already.
LateToken == [cursor |-> SubSeq(answer, fresh + 1, gen), snapshot |-> NoText]

-----------------------------------------------------------------------------
(* The read loop. *)

Reading ==
    /\ pc = "read" /\ completion = "none"
    /\ frames < MaxFrames
    /\ frames' = frames + 1

\* emitSnapshot after emitDelta's own cleaning: what the stream becomes.
EmitSnapshot(streamed, text) ==
    streamed \o CleanM365Citations(UnseenDelta(streamed, text))

\* The cursor token first, then the bot messages of the frame.
EmitFrame(f) == EmitSnapshot(EmitSnapshot(streamedText, f.cursor), f.snapshot)

\* An update frame of answer text.
ReadAnswerUpdate ==
    /\ Reading
    /\ \/ \E n \in gen..Len(answer) :
            /\ WordEnd(n)
            /\ gen' = n
            /\ fresh' = IF n > gen THEN gen ELSE fresh
            /\ \E f \in AnswerFrames(n) : streamedText' = EmitFrame(f)
       \/ /\ streamedText' = EmitFrame(LateToken)
          /\ UNCHANGED <<gen, fresh>>
    /\ UNCHANGED <<pc, final, seen, toolEvents, returned, answer, called, completion>>

\* A defect: looks for tool calls in messages[] only.
ToolEventsOf_MessagesOnly(t, inMessages) == IF inMessages THEN <<t>> ELSE <<>>

\* extractToolEvents reports a call once per turn, wherever in the update it stands;
\* classifyUpdateMessages reports it again, each time, when it stands in messages[].
ToolEventsOf(t, inMessages) ==
    (IF t \in seen THEN <<>> ELSE <<t>>) \o (IF inMessages THEN <<t>> ELSE <<>>)

\* A frame with a Progress message is a toolFrame: its cursor text is dropped.
ProgressText(f) == streamedText

\* An update frame of progress: a tool call, in messages[] or elsewhere, or none.
ReadProgressUpdate ==
    /\ Reading
    /\ streamedText' = ProgressText([cursor |-> Narration])
    /\ \/ UNCHANGED <<seen, toolEvents, called>>
       \/ \E t \in Tools, inMessages \in BOOLEAN :
            /\ called' = called \cup {t}
            /\ toolEvents' = toolEvents \o ToolEventsOf(t, inMessages)
            /\ seen' = seen \cup {t}
    /\ UNCHANGED <<pc, final, returned, answer, gen, fresh, completion>>

\* An item frame with the whole answer; its result may also lack a message.
ReadItem ==
    /\ Reading
    /\ \/ \E spots \in SUBSET CiteSpots : final' = Cited(answer, spots)
       \/ UNCHANGED final
    /\ UNCHANGED <<pc, streamedText, seen, toolEvents, returned, service>>

\* A ping is answered and changes nothing else.
ReadPing ==
    /\ Reading
    /\ UNCHANGED <<pc, local, returned, service>>

\* ChatHub completes a turn whose answer it has sent, by stream or by item frame.
ReadCompletion ==
    /\ pc = "read" /\ completion = "none"
    /\ \/ gen = Len(answer)
       \/ final # NoText
    /\ completion' = "ok"
    /\ pc' = "returned"
    /\ outcome' = "result"
    /\ resText' = FinalTextReconcile(streamedText, final)
    /\ UNCHANGED <<local, answer, gen, fresh, called, frames>>

ReadCompletionError ==
    /\ pc = "read" /\ completion = "none"
    /\ completion' = "error"
    /\ ReturnError
    /\ UNCHANGED <<local, answer, gen, fresh, called, frames>>

\* A defect: a dropped connection returns what has been streamed so far.
ReadFails_Partial ==
    /\ pc = "read"
    /\ pc' = "returned"
    /\ outcome' = "result" /\ resText' = FinalTextReconcile(streamedText, final)
    /\ UNCHANGED <<local, service, frames>>

\* A defect: a failed read is retried on the same, dead connection.
ReadFails_Retry ==
    /\ pc = "read"
    /\ UNCHANGED vars

\* The read fails (90 s without a frame, a dropped connection), the context is done,
\* or the 5 minutes are over.
ReadFails ==
    /\ pc = "read"
    /\ ReturnError
    /\ UNCHANGED <<local, service, frames>>

Done == pc = "returned" /\ UNCHANGED vars

SetUpSteps == \E k \in 1..(Len(Setup) - 1) : SetUp(k)

Next ==
    \/ SetUpSteps
    \/ ReadAnswerUpdate
    \/ ReadProgressUpdate
    \/ ReadItem
    \/ ReadPing
    \/ ReadCompletion
    \/ ReadCompletionError
    \/ ReadFails
    \/ Done

\* Every blocking step has a deadline: the dial its context, the writes 15 s, a read
\* 90 s, and the read loop 5 minutes, after which ReadFails is the only step left.
Spec == Init /\ [][Next]_vars /\ WF_vars(SetUpSteps) /\ WF_vars(ReadFails)

-----------------------------------------------------------------------------
(* Properties. *)

Rune == (UNION {ToSet(a) : a \in Answers}) \cup {Blank, Marker, Mention} \cup ToSet(Narration)

\* Every variable has its type, and the call returns exactly with an outcome.
TypeOK ==
    /\ pc \in ToSet(Setup) \cup {"returned"}
    /\ streamedText \in Seq(Rune) /\ final \in Seq(Rune)
    /\ seen \subseteq Tools /\ toolEvents \in Seq(Tools)
    /\ outcome \in {"none", "result", "error"} /\ resText \in Seq(Rune)
    /\ answer \in Answers /\ gen \in 0..Len(answer) /\ fresh \in 0..gen
    /\ called \subseteq Tools /\ completion \in {"none", "ok", "error"}
    /\ frames \in 0..MaxFrames
    /\ outcome = "none" <=> pc # "returned"

\* An answer without citations of its own, with single blanks, and only between words.
Tidy(t) ==
    \A i \in DOMAIN t :
        /\ t[i] \notin {Marker, Mention}
        /\ t[i] = Blank => i \in 2..(Len(t) - 1) /\ t[i + 1] # Blank

\* An answer whose cursor tokens can be told from a repetition: none has all the text
\* before it as its prefix, and no short one is what that text ends with or restates it.
Tellable(t) ==
    /\ Tidy(t)
    /\ \A i, j \in DOMAIN t :
        LET before == SubSeq(t, 1, i)
            token  == SubSeq(t, i + 1, j)
        IN  i < j /\ t[i] # Blank /\ t[j] # Blank =>
                /\ ~IsPrefix(before, token)
                /\ j - i <= SmallFrame => /\ ~IsSuffix(token, before)
                                          /\ ~Restatement(before, token)

\* What unseenDelta is for: cursor tokens and snapshots overlap in any order, late
\* tokens come after the snapshot that has them, markers appear in later snapshots,
\* and still the stream holds exactly the answer written so far: nothing twice,
\* nothing lost, no marker, no narration.
StreamKeepsUp == streamedText = SubSeq(answer, 1, gen)

\* The result is the whole answer without markers, whether the stream or only an item
\* frame carried it; finalTextReconcile picks the text that is complete.
ResultIsWhole == outcome = "result" => resText = answer

\* A partial answer is never returned as a result: a result implies the completion
\* frame, and an error returns no text (the comments at the read error and at the
\* deadline of chatWithHandlers).
NoPartialSuccess ==
    /\ outcome = "result" => completion = "ok"
    /\ outcome = "error" => resText = NoText

\* Every tool call of any update frame has reached the caller, wherever in the update
\* it stood, and no call was made up.
ToolCallsReported == ToSet(toolEvents) = called

\* The call returns.
Returns == <>(pc = "returned")
=============================================================================
