-------------------------------- MODULE MCWire --------------------------------
(* Instances of Wire for TLC.                                              *)
EXTENDS Wire

Msg(i, e, l, p) == [id |-> i, err |-> e, len |-> l, ptr |-> p]

\* What a client sends, from its one thread that writes.
Requests ==
  {Msg(i, 0, 0, TRUE) : i \in {REGISTER_USER, LOGIN, SHOW_CHAT_ROOMS, SHOW_USERS, JOIN, EXIT,
                               CREATE_CHAT_ROOM}}
    \cup {Msg(i, 0, l, TRUE) : i \in {CHAT_ROOM_DATA, PRIVATE_DATA}, l \in {1, 3}}

\* What the server answers a client whose requests succeed or fail, lists that are empty
\* and private messages to nobody included, and what it forwards to it.
Answers ==
  {Msg(i, e, 0, TRUE) : i \in {REGISTER_USER_RESPONSE, LOGIN_RESPONSE, JOIN_RESPONSE,
                               EXIT_RESPONSE, CREATE_CHAT_ROOM_RESPONSE}, e \in {0, 3}}
    \cup {Msg(i, 0, 2, TRUE) : i \in {SHOW_CHAT_ROOMS_RESPONSE, SHOW_USERS_RESPONSE,
                                      CHAT_ROOM_DATA, PRIVATE_DATA}}
    \cup {Msg(SHOW_CHAT_ROOMS_RESPONSE, 2, 0, TRUE), Msg(SHOW_USERS_RESPONSE, 4, 0, TRUE)}
    \cup {Msg(PRIVATE_DATA, 4, 2, p) : p \in BOOLEAN}

AllMessages == Requests \cup Answers

\* What read() finds in text: two ASCII characters, more than any id.
AText == 24930

===============================================================================
