----------------------------- MODULE MCChatClient -----------------------------
(* This user and another one, two rooms, and a word too long for either.   *)
EXTENDS ChatClient

\* With a third line: one attempt to enter and no forwarded message.  Only typing, asking
\* and forwarding are bounded, which nobody has to do.
Few ==
  lines > 2 => asked = 1 /\ forwards = 0

===============================================================================
