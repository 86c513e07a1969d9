----------------------------- MODULE MCToolLoop -----------------------------
(* ToolLoop with a tool that writes, its call in two spellings, and one that reads. *)
EXTENDS ToolLoop

MCCalls == {"write", "w r i t e", "read"}
MCCanonical == [c \in MCCalls |-> IF c = "w r i t e" THEN "write" ELSE c]
=============================================================================
