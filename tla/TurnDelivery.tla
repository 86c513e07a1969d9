---------------------------- MODULE TurnDelivery ----------------------------
(***************************************************************************)
(* What a streamed turn of the gateway promises its client, whatever the   *)
(* buffering in between: the client receives a growing prefix of what the  *)
(* model says, and the stream ends once. It is done only when all has been *)
(* delivered, and refused only when nothing has.                           *)
(***************************************************************************)
EXTENDS SequencesExt

VARIABLES
    source,      \* what the model has said so far
    delivered,   \* what has been sent on to the client
    end          \* "open", then "done", "calls", "refused" or "cut"

vars == <<source, delivered, end>>

Init == source = <<>> /\ delivered = <<>> /\ end = "open"

\* Both texts only grow, and the client is never ahead of the model.
Flow ==
    /\ end = "open"
    /\ IsPrefix(source, source')
    /\ IsPrefix(delivered, delivered')
    /\ IsPrefix(delivered', source')

Speak == Flow /\ end' = "open"

\* The answer is complete.
Finish == Flow /\ end' = "done" /\ delivered' = source'

\* The turn asks for tool calls, or the connection ends before the answer does.
Break == Flow /\ end' \in {"calls", "cut"}

\* The request is turned down before a word of it is answered.
Refuse == Flow /\ end' = "refused" /\ delivered' = <<>>

Next == Speak \/ Finish \/ Break \/ Refuse

Spec == Init /\ [][Next]_vars
=============================================================================
