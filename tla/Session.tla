--------------------------------- MODULE Session ---------------------------------
(***************************************************************************)
(* What the server relies on in a client: it asks to be let in, one        *)
(* REGISTER_USER or LOGIN at a time, goes on asking only while it has been *)
(* refused or the server has gone, makes its other requests only once it   *)
(* has been let in, and sends no empty text.  ChatServer takes its clients *)
(* to be like this (Entering, Chatting); ChatClient is the program.        *)
(***************************************************************************)
EXTENDS Naturals

CONSTANT None

VARIABLES
  stage,    \* "out", "asking", "in" or "over"
  serving,  \* the server has not closed the connection
  let_in,   \* the server has registered the client or logged it in
  request   \* the last request sent, with the length of its text

sessionVars == <<stage, serving, let_in, request>>

AskId == {"REGISTER_USER", "LOGIN"}
TextId == {"CHAT_ROOM_DATA", "PRIVATE_DATA"}
RequestId ==
  TextId \cup {"SHOW_CHAT_ROOMS", "SHOW_USERS", "JOIN", "EXIT", "CREATE_CHAT_ROOM"}

Init == stage = "out" /\ serving = TRUE /\ let_in = FALSE /\ request = None

Ask(m) ==
  /\ stage = "out" /\ m # None /\ m.id \in AskId
  /\ stage' = "asking" /\ request' = m /\ UNCHANGED <<serving, let_in>>

LetIn == stage = "asking" /\ serving /\ let_in' = TRUE /\ UNCHANGED <<stage, serving, request>>

Refused ==
  /\ stage = "asking" /\ (serving => ~let_in)
  /\ stage' = "out" /\ UNCHANGED <<serving, let_in, request>>

Enter ==
  /\ stage = "asking" /\ let_in
  /\ stage' = "in" /\ UNCHANGED <<serving, let_in, request>>

Request(m) ==
  /\ stage = "in" /\ m # None /\ m.id \in RequestId
  /\ m.id \in TextId => m.data_lenght > 0
  /\ request' = m /\ UNCHANGED <<stage, serving, let_in>>

Close == serving' = FALSE /\ UNCHANGED <<stage, let_in, request>>

End == stage' = "over" /\ UNCHANGED <<serving, let_in, request>>

Next ==
  \/ Ask(request') \/ Request(request')
  \/ LetIn \/ Refused \/ Enter \/ Close \/ End

Spec == Init /\ [][Next]_sessionVars

===============================================================================
