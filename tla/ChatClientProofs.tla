---------------------------- MODULE ChatClientProofs ----------------------------
(* Proofs about ChatClient: for any names, rooms and bounds.               *)
EXTENDS ChatClient, SequenceTheorems, TLAPS

-------------------------------------------------------------------------------
(* The invariant                                                           *)

Asks == {"REGISTER_USER", "LOGIN"}
AskAnswers == {"REGISTER_USER_RESPONSE", "LOGIN_RESPONSE"}

Ids(q) == {q[i].id : i \in DOMAIN q}

\* No room has been joined before the client is in.
NotYetJoined == phase \in {"prompt", "asking"} => joined = None

\* join_creat_chatroom is called with the name of a room behind "/Group".
Prompted == pc = "PROMPT" => input = "/Group" /\ behind \in Word \ {TooLong} /\ group

\* From a JOIN on whose question was answered with one word, resp is 'j' only on the way to
\* GROUP: the next line is the end of that one, or with the terminal closed still "/Group"
\* with the same room behind it.
RoomKept ==
  phase = "in" /\ joined # None /\ ~spilled =>
    /\ pc = "GROUP" => room = joined
    /\ resp /\ pc # "GROUP" =>
         /\ pc # "CHAT" /\ behind = joined /\ group
         /\ pc = "INPUT" => rest = "newline" \/ (rest = "nothing" /\ eof /\ input = "/Group")
         /\ pc = "CHATRULE" => rest = "nothing" /\ (input = "empty" \/ (eof /\ input = "/Group"))

\* A text for a room is then for the room of that JOIN.
Addressed ==
  joined # None /\ ~spilled /\ request # None /\ request.id = "CHAT_ROOM_DATA" => request.to = joined

\* At the prompt nothing is on its way, and while the server is up it has not let the
\* client in.
Outside ==
  phase = "prompt" =>
    /\ inbox = <<>>
    /\ serving => pending = <<>> /\ answering = None /\ ~let_in

\* The client has asked: what it will take for the answer lets it in if and only if the
\* server has, and the answer is on its way once.
Asking ==
  phase = "asking" =>
    /\ request # None /\ request.id \in Asks
    /\ inbox # <<>> => /\ Admits(Head(inbox)) <=> let_in
                       /\ ~let_in => Tail(inbox) = <<>>
                       /\ Head(inbox).id \in AskAnswers => Ids(Tail(inbox)) \cap AskAnswers = {}
                       /\ Head(inbox).id \in TextId => forwards > 0
                       /\ Head(inbox).id \in AskAnswers \cup TextId
    /\ serving => \/ pending = <<request>> /\ answering = None /\ inbox = <<>> /\ ~let_in
                  \/ /\ pending = <<>> /\ answering # None /\ Ids(inbox) \cap AskAnswers = {}
                     /\ Admits(answering) <=> let_in
                     /\ ~let_in => inbox = <<>>
                  \/ pending = <<>> /\ answering = None /\ inbox # <<>>

\* Once in, the client does not ask again, and an answer to its asking comes only if it
\* took another message for it.
Inside ==
  phase = "in" =>
    /\ serving => Ids(pending) \cap Asks = {}
    /\ ~misread => Ids(inbox) \cap AskAnswers = {} /\ (serving => answering = None)

\* Only messages of these kinds come from the server.
KnownIds ==
  /\ answering # None => answering.id \in AskAnswers
  /\ Ids(inbox) \subseteq Texts \cup Answers \cup AskAnswers

\* A message that was not the answer was taken for it only if one has been forwarded.
MisreadForwarded == misread => forwards > 0

IInv ==
  /\ TypeOK /\ NotYetJoined /\ Prompted /\ RoomKept /\ Addressed
  /\ Outside /\ Asking /\ Inside /\ KnownIds /\ MisreadForwarded /\ WildPrintCause

-------------------------------------------------------------------------------
(* Queues                                                                  *)

\* What is appended comes last, behind the head if there is one.
LEMMA Appended ==
  ASSUME NEW S, NEW q \in Seq(S), NEW m \in S
  PROVE  /\ Append(q, m) \in Seq(S) /\ Append(q, m) # <<>>
         /\ Len(Append(q, m)) = Len(q) + 1
         /\ Ids(Append(q, m)) = Ids(q) \cup {m.id}
         /\ q = <<>> => Head(Append(q, m)) = m /\ Tail(Append(q, m)) = <<>>
         /\ q # <<>> => Head(Append(q, m)) = Head(q) /\ Tail(Append(q, m)) = Append(Tail(q), m)
<1>1. /\ Append(q, m) \in Seq(S) /\ Append(q, m) # <<>>
      /\ Len(Append(q, m)) = Len(q) + 1
  BY AppendProperties
<1>2. Ids(Append(q, m)) = Ids(q) \cup {m.id}
  <2>1. /\ DOMAIN Append(q, m) = DOMAIN q \cup {Len(q) + 1}
        /\ \A i \in DOMAIN q : Append(q, m)[i] = q[i]
        /\ Append(q, m)[Len(q) + 1] = m
    OBVIOUS
  <2> QED BY <2>1 DEF Ids
<1> QED BY <1>1, <1>2, HeadTailAppend

\* A queue that is not empty has a head; the rest has no other elements.
LEMMA Taken ==
  ASSUME NEW S, NEW q \in Seq(S), q # <<>>
  PROVE  /\ Head(q) \in S /\ Tail(q) \in Seq(S) /\ Len(Tail(q)) = Len(q) - 1
         /\ Head(q).id \in Ids(q) /\ Ids(Tail(q)) \subseteq Ids(q)
<1>1. Head(q) \in S /\ Tail(q) \in Seq(S) /\ Len(Tail(q)) = Len(q) - 1
  OBVIOUS
<1>2. Head(q) = q[1] /\ 1 \in DOMAIN q
  OBVIOUS
<1>3. \A i \in DOMAIN Tail(q) : Tail(q)[i] = q[i + 1] /\ i + 1 \in DOMAIN q
  OBVIOUS
<1> QED BY <1>1, <1>2, <1>3 DEF Ids

\* An empty queue holds nothing.
LEMMA NoIds == Ids(<<>>) = {}
BY DEF Ids

-------------------------------------------------------------------------------
(* Prompts and input                                                       *)

\* What TypeOK says of each variable.
Flags ==
  /\ group \in BOOLEAN /\ resp \in BOOLEAN /\ eof \in BOOLEAN
  /\ rest \in {"nothing", "newline", "words"} /\ spilled \in BOOLEAN
  /\ buffer2 \in BOOLEAN /\ wild \in BOOLEAN /\ framed \in BOOLEAN
  /\ let_in \in BOOLEAN /\ serving \in BOOLEAN /\ misread \in BOOLEAN

Queues ==
  /\ phase \in {"prompt", "asking", "in", "ended"} /\ asked \in 0 .. MaxAsked
  /\ request \in Message \cup {None}
  /\ forwards \in 0 .. MaxForwards
  /\ answering \in Incoming \cup {None} /\ inbox \in Seq(Incoming)
  /\ pending \in Seq(Message) /\ Len(pending) <= MaxPending + 1

Typed ==
  /\ pc \in {"INPUT", "CHATRULE", "PROMPT", "CHAT", "GROUP"}
  /\ input \in Command /\ behind \in Word \cup {None} /\ room \in Word \cup {None}
  /\ lines \in 0 .. MaxLines /\ joined \in Word \cup {None}

\* The type invariant by groups of variables.
LEMMA TypesApart == TypeOK <=> Flags /\ Queues /\ Typed
<1>1. TypeOK <=>
        /\ {group, resp, eof, buffer2, wild, framed, let_in, serving} \subseteq BOOLEAN
        /\ {misread, spilled} \subseteq BOOLEAN /\ rest \in {"nothing", "newline", "words"}
        /\ Queues /\ Typed
  BY DEF TypeOK, Queues, Typed
<1>2. Flags <=>
        /\ {group, resp, eof, buffer2, wild, framed, let_in, serving} \subseteq BOOLEAN
        /\ {misread, spilled} \subseteq BOOLEAN /\ rest \in {"nothing", "newline", "words"}
  BY Zenon DEF Flags
<1> QED BY <1>1, <1>2

\* The same after a step.
LEMMA TypesApartNext == TypeOK' <=> Flags' /\ Queues' /\ Typed'
BY TypesApart, PTL

\* A message is what it was made of.
LEMMA Messages ==
  ASSUME NEW id \in RequestId, NEW to \in Word \cup {None}, NEW n \in Nat
  PROVE  /\ Msg(id, to, n) \in Message /\ Msg(id, to, n) # None
         /\ Msg(id, to, n).id = id /\ Msg(id, to, n).to = to /\ Msg(id, to, n).data_lenght = n
BY WordsAssumption DEF Msg, Message

\* What a client in the service may send.
ChatId == RequestId \ Asks

\* A step of control_user_input: it sends nothing, or one request, and may end the client.
InputStep ==
  /\ phase = "in" /\ phase' \in {"in", "ended"}
  /\ \/ UNCHANGED <<request, pending>>
     \/ /\ request' \in Message /\ request'.id \in ChatId
        /\ request'.id \in TextId => request'.data_lenght > 0
        /\ Len(pending) <= MaxPending /\ pending' = Append(pending, request')
        /\ phase' = "in"
  /\ UNCHANGED <<asked, let_in, answering, inbox, forwards, serving, readerVars, misread>>

\* A request that goes out is one such step (send_universal_india_message).
LEMMA SendStep ==
  ASSUME NEW id \in ChatId, NEW to \in Word \cup {None}, NEW n \in Nat,
         id \in TextId => n > 0,
         phase = "in", Len(pending) <= MaxPending, Env, Send(Msg(id, to, n))
  PROVE  InputStep
<1>1. id \in RequestId
  BY DEF ChatId
<1> DEFINE m == Msg(id, to, n)
<1>2. m \in Message /\ m.id = id /\ m.data_lenght = n
  BY <1>1, Messages
<1> HIDE DEF m
<1>3. Send(m)
  BY DEF m
<1> QED BY <1>2, <1>3 DEF InputStep, Send, Env

\* Whatever the user types is one such step (control_user_input).
LEMMA InputSteps ==
  ASSUME Typed, control_user_input
  PROVE  InputStep
<1>0. /\ {"PRIVATE_DATA", "CHAT_ROOM_DATA", "SHOW_CHAT_ROOMS", "SHOW_USERS", "JOIN", "EXIT",
           "CREATE_CHAT_ROOM"} \subseteq ChatId
      /\ {"SHOW_CHAT_ROOMS", "SHOW_USERS", "JOIN", "EXIT", "CREATE_CHAT_ROOM"} \cap TextId = {}
      /\ behind \in Word \cup {None} /\ room \in Word \cup {None} /\ None \in Word \cup {None}
  BY DEF ChatId, RequestId, TextId, Asks, Typed
<1>1. CASE fgets_input
  BY <1>1 DEF fgets_input, At, Env, InputStep
<1>2. CASE chat
  <2>1. phase = "in" /\ Len(pending) <= MaxPending /\ Env
    BY <1>2 DEF chat, At
  <2>2. CASE UNCHANGED <<phase, request, pending>>
    BY <2>1, <2>2 DEF InputStep, Env
  <2>3. CASE SendText(Msg("PRIVATE_DATA", behind, 1))
    <3>1. Send(Msg("PRIVATE_DATA", behind, 1))
      BY <2>3 DEF Send, SendText
    <3> QED BY <1>0, <2>1, <3>1, SendStep
  <2> QED BY <1>2, <2>2, <2>3 DEF chat
<1>3. CASE groupchat
  <2>1. phase = "in" /\ Len(pending) <= MaxPending /\ Env
    BY <1>3 DEF groupchat, At
  <2>2. CASE UNCHANGED <<phase, request, pending>>
    BY <2>1, <2>2 DEF InputStep, Env
  <2>3. CASE SendText(Msg("CHAT_ROOM_DATA", room, 1))
    <3>1. Send(Msg("CHAT_ROOM_DATA", room, 1))
      BY <2>3 DEF Send, SendText
    <3> QED BY <1>0, <2>1, <3>1, SendStep
  <2> QED BY <1>3, <2>2, <2>3 DEF groupchat
<1>4. CASE help \/ quit \/ private \/ group_named \/ out_of_option \/ enter_room
  BY <1>4 DEF help, quit, private, group_named, out_of_option, enter_room, Rule, At, Silent,
              Env, InputStep
<1>5. CASE lists
  <2>1. /\ phase = "in" /\ Len(pending) <= MaxPending /\ Env
        /\ \/ Send(Msg("SHOW_CHAT_ROOMS", None, 0)) \/ Send(Msg("SHOW_USERS", None, 0))
    BY <1>5 DEF lists, Rule, At
  <2> QED BY <1>0, <2>1, SendStep
<1>6. CASE join_creat_chatroom
  <2>1. /\ phase = "in" /\ Len(pending) <= MaxPending /\ Env
        /\ \/ Send(Msg("JOIN", behind, 0)) \/ Send(Msg("CREATE_CHAT_ROOM", behind, 0))
           \/ phase' = "ended" /\ UNCHANGED <<request, pending>>
    BY <1>6 DEF join_creat_chatroom, At
  <2>2. CASE phase' = "ended" /\ UNCHANGED <<request, pending>>
    BY <2>1, <2>2 DEF InputStep, Env
  <2> QED BY <1>0, <2>1, <2>2, SendStep
<1>7. CASE exit_room
  <2>1. /\ phase = "in" /\ Len(pending) <= MaxPending /\ Env
        /\ \/ Send(Msg("EXIT", behind, 0)) \/ Silent
    BY <1>7 DEF exit_room, Rule, At
  <2>2. CASE Silent
    BY <2>1, <2>2 DEF Silent, InputStep, Env
  <2> QED BY <1>0, <2>1, <2>2, SendStep
<1> QED BY <1>1, <1>2, <1>3, <1>4, <1>5, <1>6, <1>7 DEF control_user_input

\* The line copied to input, and what stands behind its command.
LEMMA CopiedTyped ==
  ASSUME Typed, Copied
  PROVE  /\ pc' = "CHATRULE" /\ (eof' = eof \/ eof' = TRUE)
         /\ input' \in Command /\ behind' \in Word \cup {None}
<1>1. pc' = "CHATRULE" /\ (eof' = eof \/ eof' = TRUE)
  BY DEF Copied
<1>2. CASE input' = "empty" /\ UNCHANGED behind
  BY <1>1, <1>2 DEF Typed, Command
<1>3. ASSUME NEW c \in Command, NEW x \in Word \cup {None}, input' = c,
             behind' = Behind(c, x) \/ behind' \in Word
      PROVE  input' \in Command /\ behind' \in Word \cup {None}
  BY <1>3 DEF Behind, Typed
<1> QED BY <1>1, <1>2, <1>3 DEF Copied

\* The buffers keep their types.
LEMMA InputTyped ==
  ASSUME TypeOK, control_user_input
  PROVE  /\ Typed' /\ group' \in BOOLEAN /\ resp' \in BOOLEAN /\ eof' \in BOOLEAN
         /\ rest' \in {"nothing", "newline", "words"} /\ spilled' \in BOOLEAN
<1>0. Typed /\ Flags
  BY TypesApart
<1>1. lines' \in 0 .. MaxLines
  <2>1. UNCHANGED lines \/ (lines < MaxLines /\ lines' = lines + 1)
    BY DEF control_user_input, fgets_input, chat, groupchat, help, quit, lists, private,
           group_named, join_creat_chatroom, enter_room, exit_room, out_of_option, Copied,
           SendText, Line, Buffer
  <2> QED BY <1>0, <2>1, BoundsAssumption DEF Typed
<1>2. CASE fgets_input
  <2>1. input' \in Command /\ behind' \in Word \cup {None} /\ eof' \in BOOLEAN
    <3>1. CASE UNCHANGED behind \/ behind' \in Word \cup {None}
      BY <1>0, <1>2, <3>1 DEF fgets_input, Typed, Flags, Command
    <3>2. ASSUME NEW c \in Command, NEW x \in Word \cup {None}, input' = c,
                 behind' = Behind(c, x), UNCHANGED eof
          PROVE  input' \in Command /\ behind' \in Word \cup {None} /\ eof' \in BOOLEAN
      BY <1>0, <3>2 DEF Behind, Typed, Flags
    <3> QED BY <1>2, <3>1, <3>2 DEF fgets_input
  <2> QED BY <1>0, <1>1, <1>2, <2>1 DEF fgets_input, Typed, Flags
<1>3. CASE chat
  <2>1. UNCHANGED <<group, resp, room, rest, joined, spilled>>
    BY <1>3 DEF chat
  <2>2. Copied \/ UNCHANGED <<eof, pc, input, behind>>
    BY <1>3 DEF chat, SendText
  <2>3. CASE Copied
    <3>1. /\ pc' = "CHATRULE" /\ (eof' = eof \/ eof' = TRUE)
          /\ input' \in Command /\ behind' \in Word \cup {None}
      BY <1>0, <2>3, CopiedTyped
    <3> QED BY <1>0, <1>1, <2>1, <3>1 DEF Typed, Flags
  <2>4. CASE UNCHANGED <<eof, pc, input, behind>>
    BY <1>0, <1>1, <2>1, <2>4 DEF Typed, Flags
  <2> QED BY <2>2, <2>3, <2>4
<1>4. CASE groupchat
  <2>1. UNCHANGED <<group, room, rest, joined, spilled>> /\ (resp' = FALSE \/ UNCHANGED resp)
    BY <1>4 DEF groupchat, LeavesRoom
  <2>2. Copied \/ UNCHANGED <<eof, pc, input, behind>>
    BY <1>4 DEF groupchat, SendText
  <2>3. Typed' /\ eof' \in BOOLEAN
    <3>1. CASE Copied
      <4>1. /\ pc' = "CHATRULE" /\ (eof' = eof \/ eof' = TRUE)
            /\ input' \in Command /\ behind' \in Word \cup {None}
        BY <1>0, <3>1, CopiedTyped
      <4> QED BY <1>0, <1>1, <2>1, <4>1 DEF Typed, Flags
    <3>2. CASE UNCHANGED <<eof, pc, input, behind>>
      BY <1>0, <1>1, <2>1, <3>2 DEF Typed, Flags
    <3> QED BY <2>2, <3>1, <3>2
  <2> QED BY <1>0, <2>1, <2>3 DEF Flags
<1>5. CASE help \/ quit \/ private \/ group_named \/ out_of_option \/ lists \/ exit_room
  BY <1>0, <1>1, <1>5 DEF help, quit, private, group_named, out_of_option, lists, exit_room,
                          Buffer, Typed, Flags
<1>6. CASE join_creat_chatroom \/ enter_room
  BY <1>0, <1>1, <1>6 DEF join_creat_chatroom, enter_room, Buffer, Typed, Flags
<1> QED BY <1>2, <1>3, <1>4, <1>5, <1>6 DEF control_user_input

\* Every step of control_user_input keeps the room of the last JOIN.
LEMMA RoomStep ==
  ASSUME TypeOK, Prompted, RoomKept, Addressed, control_user_input
  PROVE  Prompted' /\ RoomKept' /\ Addressed'
<1>0. /\ Typed /\ InputStep
      /\ None \notin Word
  BY TypesApart, InputSteps, WordsAssumption
<1>1. CASE fgets_input
  <2>1. /\ pc = "INPUT" /\ phase = "in" /\ pc' = "CHATRULE" /\ rest' = "nothing"
        /\ UNCHANGED <<phase, request, group, resp, room, joined, spilled>>
    BY <1>1 DEF fgets_input, At
  <2>2. \/ rest = "newline" /\ input' = "empty" /\ UNCHANGED <<behind, eof>>
        \/ rest = "words"
        \/ rest = "nothing" /\ ~eof
        \/ rest = "nothing" /\ eof' = TRUE /\ UNCHANGED <<input, behind>>
    BY <1>1 DEF fgets_input, Line
  <2> QED BY <2>1, <2>2 DEF Prompted, RoomKept, Addressed
<1>2. CASE chat
  <2>1. /\ pc = "CHAT" /\ phase = "in" /\ pc' \in {"CHAT", "CHATRULE"}
        /\ UNCHANGED <<group, resp, room, rest, joined, spilled>>
    BY <1>2 DEF chat, At, Copied, SendText
  <2>2. UNCHANGED request \/ (request' = Msg("PRIVATE_DATA", behind, 1) /\ request'.id = "PRIVATE_DATA")
    BY <1>2 DEF chat, SendText, Msg
  <2> QED BY <2>1, <2>2 DEF Prompted, RoomKept, Addressed
<1>3. CASE groupchat
  <2>1. /\ pc = "GROUP" /\ phase = "in" /\ UNCHANGED <<room, joined, spilled>>
        /\ (pc' = "GROUP" /\ UNCHANGED request) \/ (pc' = "CHATRULE" /\ resp' = FALSE /\ UNCHANGED request)
           \/ (pc' = "GROUP" /\ request' = Msg("CHAT_ROOM_DATA", room, 1))
    BY <1>3 DEF groupchat, At, Copied, SendText, LeavesRoom
  <2>2. Msg("CHAT_ROOM_DATA", room, 1).to = room
    BY DEF Msg
  <2> QED BY <2>1, <2>2 DEF Prompted, RoomKept, Addressed
<1>4. CASE help \/ quit \/ private \/ out_of_option
  BY <1>4 DEF help, quit, private, out_of_option, Rule, At, Silent, Buffer,
              Prompted, RoomKept, Addressed
<1>5. CASE lists \/ exit_room
  <2>1. /\ pc = "CHATRULE" /\ phase = "in" /\ input \in {"/list", "/users", "/EXIT"}
        /\ pc' = "INPUT" /\ UNCHANGED <<resp, room, joined, spilled, input, behind, rest, eof>>
    BY <1>5 DEF lists, exit_room, Rule, At, Buffer
  <2>2. UNCHANGED request \/ request'.id # "CHAT_ROOM_DATA"
    BY <1>5 DEF lists, exit_room, Send, Silent, Msg
  <2> QED BY <2>1, <2>2 DEF Prompted, RoomKept, Addressed
<1>6. CASE group_named
  <2>1. /\ pc = "CHATRULE" /\ phase = "in" /\ input = "/Group" /\ group' = (behind # None)
        /\ pc' = IF behind \in Word \ {TooLong} THEN "PROMPT" ELSE "INPUT"
        /\ UNCHANGED <<phase, request, resp, room, joined, spilled, input, behind, rest, eof>>
    BY <1>6 DEF group_named, Rule, At, Silent, Buffer
  <2> QED BY <1>0, <2>1 DEF Prompted, RoomKept, Addressed
<1>7. CASE join_creat_chatroom
  <2>1. /\ pc = "PROMPT" /\ phase = "in" /\ pc' = "INPUT"
        /\ rest' \in IF eof THEN {"nothing"} ELSE {"newline", "words"}
        /\ IF resp' /\ phase' = "in" THEN joined' = behind /\ spilled' = (rest' = "words")
           ELSE UNCHANGED <<joined, spilled>>
        /\ UNCHANGED <<input, behind, group, room, eof>>
    BY <1>7 DEF join_creat_chatroom, At
  <2>2. UNCHANGED request \/ request'.id # "CHAT_ROOM_DATA"
    BY <1>7 DEF join_creat_chatroom, Send, Msg
  <2>3. phase' = "ended" \/ request'.id # "CHAT_ROOM_DATA"
    BY <1>7 DEF join_creat_chatroom, Send, Msg
  <2> QED BY <1>0, <2>1, <2>2, <2>3 DEF Prompted, RoomKept, Addressed
<1>8. CASE enter_room
  <2>1. /\ pc = "CHATRULE" /\ phase = "in" /\ pc' = "GROUP" /\ resp
        /\ group /\ phase' = "in" => room' = behind
        /\ UNCHANGED <<request, group, resp, joined, spilled>>
    BY <1>8 DEF enter_room, Rule, At
  <2> QED BY <2>1 DEF Prompted, RoomKept, Addressed
<1> QED BY <1>1, <1>2, <1>3, <1>4, <1>5, <1>6, <1>7, <1>8 DEF control_user_input

\* Steps of the others leave the input alone.
LEMMA RoomFrame ==
  ASSUME IInv, UNCHANGED <<pc, input, behind, group, resp, room, eof, lines, joined, spilled>>,
         UNCHANGED rest \/ joined = None, UNCHANGED request \/ joined = None,
         phase' \in {"prompt", "asking"} => joined = None,
         phase' = "in" => phase = "in" \/ joined = None
  PROVE  Typed' /\ NotYetJoined' /\ Prompted' /\ RoomKept' /\ Addressed'
<1>1. Typed
  BY TypesApart DEF IInv
<1> QED BY <1>1 DEF IInv, Typed, NotYetJoined, Prompted, RoomKept, Addressed

-------------------------------------------------------------------------------
(* What comes and goes                                                     *)

\* The answer to an attempt to enter says whether it lets the client in; the others are
\* of another kind.
LEMMA ResponseOf ==
  ASSUME NEW id, NEW m \in Response(id)
  PROVE  /\ m \in Incoming /\ m # None
         /\ id \in Asks => /\ m.id \in AskAnswers
                           /\ request.id = id => (Admits(m) <=> m.error_code = SUCCESS)
         /\ id \notin Asks => m.id \in Texts \cup Answers /\ m.id \notin AskAnswers
<1> USE DEF SUCCESS, NICK_NAME_IN_USE, CHAT_ROOM_DOES_NOT_EXIST, USER_DOES_NOT_EXIST, WRONG_PW
<1>1. PICK i, e : /\ m = From(i, e) /\ i \in TextId \cup ResponseId /\ e \in Nat
                  /\ id \in Asks => i \in AskAnswers
                  /\ id \notin Asks => i \in Texts \cup Answers /\ i \notin AskAnswers
                  /\ id = "LOGIN" => e \in {SUCCESS, USER_DOES_NOT_EXIST, WRONG_PW}
  BY DEF Response, Asks, AskAnswers, Texts, Answers, TextId, ResponseId
<1>2. m \in Incoming /\ m.id = i /\ m.error_code = e
  BY <1>1 DEF From, Incoming
<1>3. id \in Asks /\ request.id = id => (Admits(m) <=> m.error_code = SUCCESS)
  BY <1>1, <1>2 DEF Admits, Asks
<1> QED BY <1>1, <1>2, <1>3, WordsAssumption

\* A forwarded message lets anybody in, and is none of the answers to asking.
LEMMA ForwardedIs ==
  ASSUME NEW id \in TextId
  PROVE  LET m == From(id, SUCCESS) IN
         /\ m \in Incoming /\ m.id = id /\ Admits(m)
         /\ m.id \in Texts /\ m.id \notin AskAnswers
BY DEF From, Incoming, TextId, Admits, Texts, AskAnswers, SUCCESS, USER_DOES_NOT_EXIST, WRONG_PW

\* The parts of the invariant about messages.
Traffic ==
  Outside /\ Asking /\ Inside /\ KnownIds /\ MisreadForwarded /\ WildPrintCause

\* What the user types does not touch what the server sends.
LEMMA InputKeeps ==
  ASSUME IInv, control_user_input
  PROVE  IInv'
<1>1. InputStep /\ Flags /\ Queues
  BY InputSteps, TypesApart DEF IInv
<1>2. Prompted' /\ RoomKept' /\ Addressed'
  BY RoomStep DEF IInv
<1>3. NotYetJoined'
  BY <1>1 DEF InputStep, NotYetJoined
<1>4. Queues' /\ (serving => Ids(pending') \cap Asks = {})
  <2>1. CASE UNCHANGED <<request, pending>>
    BY <1>1, <2>1 DEF InputStep, Queues, IInv, Inside
  <2>2. CASE /\ request' \in Message /\ request'.id \in ChatId
             /\ Len(pending) <= MaxPending /\ pending' = Append(pending, request')
    <3>1. /\ pending' \in Seq(Message) /\ Len(pending') = Len(pending) + 1
          /\ Ids(pending') = Ids(pending) \cup {request'.id}
      BY <1>1, <2>2, Appended DEF Queues
    <3>2. Len(pending') <= MaxPending + 1
      BY <1>1, <2>2, <3>1, BoundsAssumption DEF Queues
    <3> QED BY <1>1, <2>2, <3>1, <3>2 DEF InputStep, Queues, IInv, Inside, ChatId
  <2> QED BY <1>1, <2>1, <2>2 DEF InputStep
<1>5. Traffic'
  BY <1>1, <1>4 DEF InputStep, Traffic, IInv, Outside, Asking, Inside, KnownIds, MisreadForwarded,
                    WildPrintCause, readerVars
<1>6. TypeOK'
  <2>1. Flags'
    BY <1>1, InputTyped DEF InputStep, Flags, readerVars, IInv
  <2>2. Typed'
    BY InputTyped DEF IInv
  <2> QED BY <1>4, <2>1, <2>2, TypesApartNext
<1> QED BY <1>2, <1>3, <1>5, <1>6 DEF IInv, Traffic

\* The invariant from its parts.
LEMMA Together ==
  ASSUME Flags', Queues', Typed', NotYetJoined', Prompted', RoomKept', Addressed', Traffic'
  PROVE  IInv'
BY TypesApartNext DEF IInv, Traffic

-------------------------------------------------------------------------------
(* The prompts                                                             *)

\* Asking: nothing of an earlier attempt is on its way.
LEMMA AskKeeps ==
  ASSUME IInv, NEW id \in Asks, ask(id)
  PROVE  IInv'
<1>1. Flags /\ Queues /\ Outside /\ MisreadForwarded /\ WildPrintCause /\ KnownIds /\ NotYetJoined
  BY TypesApart DEF IInv
<1>2. /\ phase = "prompt" /\ joined = None /\ inbox = <<>> /\ asked < MaxAsked /\ asked' = asked + 1
      /\ serving => pending = <<>> /\ answering = None /\ ~let_in
      /\ UNCHANGED <<let_in, answering, inbox, forwards, serving, inputVars, readerVars, misread>>
  BY <1>1 DEF ask, Outside, NotYetJoined
<1>3. Msg(id, me, 0) \in Message /\ Msg(id, me, 0) # None /\ Msg(id, me, 0).id = id
  BY Messages, WordsAssumption DEF Asks, RequestId, Word
<1>4. Flags'
  BY <1>1, <1>2 DEF Flags, inputVars, readerVars
<1>5. asked' \in 0 .. MaxAsked
  BY <1>1, <1>2, BoundsAssumption DEF Queues
<1>6. Typed' /\ NotYetJoined' /\ Prompted' /\ RoomKept' /\ Addressed'
  <2>1. phase' \in {"asking", "ended"}
    BY DEF ask
  <2> QED BY <1>2, <2>1, RoomFrame DEF inputVars
<1>7. CASE phase' = "asking" /\ request' = Msg(id, me, 0)
           /\ pending' = IF serving THEN Append(pending, request') ELSE pending
  <2>1. request' \in Message /\ request' # None /\ request'.id \in Asks
    BY <1>3, <1>7
  <2>2. serving => pending' = <<request'>> /\ pending' \in Seq(Message) /\ Len(pending') = 1
    BY <1>2, <1>7, <2>1
  <2>3. Queues'
    <3>1. pending' \in Seq(Message) /\ Len(pending') <= MaxPending + 1
      BY <1>1, <1>7, <2>2, BoundsAssumption DEF Queues
    <3> QED BY <1>1, <1>2, <1>5, <1>7, <2>1, <3>1 DEF Queues
  <2>4. Traffic'
    BY <1>1, <1>2, <1>7, <2>1, <2>2 DEF Traffic, Outside, Asking, Inside, KnownIds, MisreadForwarded,
                                        WildPrintCause, readerVars
  <2> QED BY <1>4, <1>6, <2>3, <2>4, Together
<1>8. CASE phase' = "ended" /\ UNCHANGED <<request, pending>>
  <2>1. Queues'
    BY <1>1, <1>2, <1>5, <1>8 DEF Queues
  <2>2. Traffic'
    BY <1>1, <1>2, <1>8 DEF Traffic, Outside, Asking, Inside, KnownIds, MisreadForwarded,
                            WildPrintCause, readerVars
  <2> QED BY <1>4, <1>6, <2>1, <2>2, Together
<1> QED BY <1>7, <1>8 DEF ask

\* What is taken for the answer enters if and only if the client was let in.
LEMMA AnsweredKeeps ==
  ASSUME IInv, answered
  PROVE  IInv'
<1>1. /\ Flags /\ Queues /\ Outside /\ Asking /\ MisreadForwarded /\ WildPrintCause /\ KnownIds
      /\ NotYetJoined
  BY TypesApart DEF IInv
<1>2. /\ phase = "asking" /\ joined = None /\ inbox # <<>> /\ inbox' = Tail(inbox)
      /\ phase' = IF Admits(Head(inbox)) THEN "in" ELSE "prompt"
      /\ misread' = (misread \/ Head(inbox).id \in TextId)
      /\ UNCHANGED <<asked, request, pc, input, behind, group, resp, room, eof, lines, joined,
                     spilled, readerVars, let_in, answering, pending, forwards, serving>>
  BY <1>1 DEF answered, NotYetJoined
<1>3. Typed' /\ NotYetJoined' /\ Prompted' /\ RoomKept' /\ Addressed'
  BY <1>2, RoomFrame
<1>4. Tail(inbox) \in Seq(Incoming) /\ Ids(Tail(inbox)) \subseteq Ids(inbox)
  BY <1>1, <1>2, Taken DEF Queues
<1>5. Queues'
  BY <1>1, <1>2, <1>4 DEF Queues
<1>6. misread' \in BOOLEAN /\ rest' \in {"nothing", "newline", "words"}
  BY <1>1, <1>2 DEF Flags, answered
<1>7. Flags'
  BY <1>1, <1>2, <1>6 DEF Flags, readerVars
<1>8. MisreadForwarded' /\ KnownIds'
  BY <1>1, <1>2, <1>4 DEF MisreadForwarded, KnownIds, Asking
<1>9. WildPrintCause'
  BY <1>1, <1>2 DEF WildPrintCause, readerVars
<1>10. CASE ~let_in
  <2>1. phase' = "prompt" /\ inbox' = <<>> /\ (serving => pending = <<>> /\ answering = None)
    BY <1>1, <1>2, <1>10 DEF Asking
  <2>2. Traffic'
    BY <1>2, <1>8, <1>9, <1>10, <2>1 DEF Traffic, Outside, Asking, Inside
  <2> QED BY <1>3, <1>5, <1>7, <2>2, Together
<1>11. CASE let_in
  <2>1. phase' = "in"
    BY <1>1, <1>2, <1>11 DEF Asking
  <2>2. serving => pending = <<>>
    BY <1>1, <1>2, <1>11 DEF Asking
  <2>3. ~misread' => Ids(inbox') \cap AskAnswers = {} /\ (serving => answering = None)
    <3> SUFFICES ASSUME ~misread'
                 PROVE  Ids(inbox') \cap AskAnswers = {} /\ (serving => answering = None)
      OBVIOUS
    <3>1. Head(inbox).id \in AskAnswers
      BY <1>1, <1>2 DEF Asking
    <3>2. Head(inbox).id \in Ids(inbox)
      BY <1>1, <1>2, Taken DEF Queues
    <3> QED BY <1>1, <1>2, <3>1, <3>2 DEF Asking
  <2>4. Traffic'
    BY <1>2, <1>8, <1>9, <2>1, <2>2, <2>3, NoIds DEF Traffic, Outside, Asking, Inside
  <2> QED BY <1>3, <1>5, <1>7, <2>4, Together
<1> QED BY <1>10, <1>11

\* At the end of the stream nothing comes any more.
LEMMA UnansweredKeeps ==
  ASSUME IInv, unanswered
  PROVE  IInv'
<1>1. /\ Flags /\ Queues /\ Typed /\ Traffic /\ NotYetJoined
  BY TypesApart DEF IInv, Traffic
<1>2. /\ phase = "asking" /\ joined = None /\ inbox = <<>> /\ ~serving /\ phase' \in {"prompt", "ended"}
      /\ UNCHANGED <<asked, request, inputVars, readerVars, serverVars, misread>>
  BY <1>1 DEF unanswered, NotYetJoined
<1>3. Typed' /\ NotYetJoined' /\ Prompted' /\ RoomKept' /\ Addressed'
  BY <1>2, RoomFrame DEF inputVars
<1>4. Flags' /\ Queues'
  BY <1>1, <1>2 DEF Flags, Queues, inputVars, readerVars, serverVars
<1>5. Traffic'
  BY <1>1, <1>2 DEF Traffic, Outside, Asking, Inside, KnownIds, MisreadForwarded, WildPrintCause,
                    readerVars, serverVars
<1> QED BY <1>3, <1>4, <1>5, Together

-------------------------------------------------------------------------------
(* The reading thread                                                      *)

\* What is read has a case, unless it is the answer to asking, which has been taken for
\* something else, or the frame is lost.
LEMMA ReaderKeeps ==
  ASSUME IInv, handle_server_message
  PROVE  IInv'
<1>1. /\ Flags /\ Queues /\ Inside /\ MisreadForwarded /\ WildPrintCause /\ KnownIds
  BY TypesApart DEF IInv
<1>2. /\ phase = "in"
      /\ UNCHANGED <<asked, request, inputVars, let_in, answering, pending, forwards, serving, misread>>
  BY DEF handle_server_message
<1>3. /\ phase' \in {"in", "ended"} /\ (inbox' = inbox \/ (inbox # <<>> /\ inbox' = Tail(inbox)))
      /\ buffer2' \in BOOLEAN /\ wild' \in BOOLEAN /\ framed' \in BOOLEAN
      /\ \/ ~framed'
         \/ UNCHANGED <<wild, framed>>
         \/ /\ inbox # <<>> /\ UNCHANGED framed
            /\ wild' = (wild \/ (~buffer2 /\ ~HasCase(Head(inbox).id)))
  <2>1. CASE print
    BY <1>1, <1>2, <2>1 DEF print, Flags
  <2>2. CASE garble
    BY <1>1, <1>2, <2>2 DEF garble, Flags
  <2>3. CASE disconnected
    BY <1>1, <1>2, <2>3 DEF disconnected, Flags, readerVars
  <2> QED BY <2>1, <2>2, <2>3 DEF handle_server_message
<1>4. inbox' \in Seq(Incoming) /\ Ids(inbox') \subseteq Ids(inbox)
  BY <1>1, <1>3, Taken DEF Queues
<1>5. Typed' /\ NotYetJoined' /\ Prompted' /\ RoomKept' /\ Addressed'
  BY <1>2, <1>3, RoomFrame DEF inputVars
<1>6. Flags' /\ Queues'
  BY <1>1, <1>2, <1>3, <1>4 DEF Flags, Queues, inputVars
<1>7. Outside' /\ Asking' /\ Inside' /\ KnownIds' /\ MisreadForwarded'
  BY <1>1, <1>2, <1>3, <1>4 DEF Outside, Asking, Inside, KnownIds, MisreadForwarded
<1>8. WildPrintCause'
  <2>1. inbox # <<>> /\ ~misread => HasCase(Head(inbox).id)
    <3> SUFFICES ASSUME inbox # <<>>, ~misread PROVE HasCase(Head(inbox).id)
      OBVIOUS
    <3>1. Head(inbox).id \in Ids(inbox)
      BY <1>1, Taken DEF Queues
    <3> QED BY <1>1, <1>2, <3>1 DEF Inside, KnownIds, HasCase
  <2>2. UNCHANGED <<misread, forwards>>
    BY <1>2
  <2> QED BY <1>1, <1>3, <2>1, <2>2 DEF WildPrintCause, MisreadForwarded
<1> QED BY <1>5, <1>6, <1>7, <1>8, Together DEF Traffic

-------------------------------------------------------------------------------
(* The server                                                              *)

\* The server does nothing to the client.
LEMMA ServerFrame ==
  ASSUME IInv, Client
  PROVE  /\ Typed' /\ NotYetJoined' /\ Prompted' /\ RoomKept' /\ Addressed'
         /\ Flags /\ Queues /\ Traffic /\ phase # "ended"
         /\ UNCHANGED <<phase, asked, request, buffer2, wild, framed, misread, group, resp, rest, eof, spilled>>
<1>1. UNCHANGED <<promptVars, inputVars, readerVars, misread>> /\ phase # "ended"
  BY DEF Client
<1>2. Typed' /\ NotYetJoined' /\ Prompted' /\ RoomKept' /\ Addressed'
  BY <1>1, RoomFrame DEF IInv, promptVars, inputVars, NotYetJoined
<1>3. Flags /\ Queues /\ Traffic
  BY TypesApart DEF IInv, Traffic
<1> QED BY <1>1, <1>2, <1>3 DEF promptVars, inputVars, readerVars

\* Only a client that is waiting for it is let in or refused.
LEMMA LetsInKeeps ==
  ASSUME IInv, lets_in
  PROVE  IInv' /\ phase = "asking" /\ ~let_in
<1>0. Client
  BY DEF lets_in
<1>1. /\ Flags /\ Queues /\ Outside /\ Asking /\ Inside /\ MisreadForwarded /\ WildPrintCause
      /\ KnownIds /\ phase # "ended"
      /\ UNCHANGED <<phase, asked, request, buffer2, wild, framed, misread, group, resp, rest, eof, spilled>>
  BY <1>0, ServerFrame DEF Traffic
<1>2. /\ serving /\ answering = None /\ pending # <<>> /\ Head(pending).id \in Asks
      /\ answering' \in Response(Head(pending).id)
      /\ let_in' = (answering'.error_code = SUCCESS)
      /\ pending' = Tail(pending) /\ UNCHANGED <<inbox, forwards, serving>>
  BY DEF lets_in, Asks
<1>3. Head(pending).id \in Ids(pending) /\ pending' \in Seq(Message) /\ Len(pending') = Len(pending) - 1
  BY <1>1, <1>2, Taken DEF Queues
<1>4. phase = "asking"
  BY <1>1, <1>2, <1>3 DEF Outside, Inside, Queues
<1>5. pending = <<request>> /\ inbox = <<>> /\ ~let_in
  BY <1>1, <1>2, <1>4 DEF Asking
<1>6. /\ answering' \in Incoming /\ answering' # None /\ answering'.id \in AskAnswers
      /\ Admits(answering') <=> answering'.error_code = SUCCESS
  <2>1. Head(pending) = request
    BY <1>5
  <2>2. PICK id, m : m \in Response(id) /\ id = request.id /\ m = answering'
    BY <1>2, <2>1
  <2>3. id \in Asks
    BY <1>2, <2>1, <2>2
  <2>4. m \in Incoming /\ m # None /\ m.id \in AskAnswers /\ (Admits(m) <=> m.error_code = SUCCESS)
    BY <2>2, <2>3, ResponseOf
  <2> QED BY <2>2, <2>4
<1>7. Flags'
  BY <1>1, <1>2 DEF Flags
<1>8. Queues'
  BY <1>1, <1>2, <1>3, <1>6, BoundsAssumption DEF Queues
<1>9. pending' = <<>>
  BY <1>2, <1>5
<1>10. Asking'
  <2>1. Admits(answering)' <=> let_in'
    BY <1>1, <1>2, <1>6 DEF Admits
  <2> QED BY <1>1, <1>2, <1>4, <1>5, <1>6, <1>9, <2>1, NoIds DEF Asking
<1>11. Traffic'
  BY <1>1, <1>2, <1>4, <1>6, <1>10 DEF Traffic, Outside, Inside, KnownIds, MisreadForwarded, WildPrintCause
<1> QED BY <1>0, <1>4, <1>5, <1>7, <1>8, <1>11, ServerFrame, Together

\* The answer comes behind what has been forwarded.
LEMMA RespondsKeeps ==
  ASSUME IInv, responds
  PROVE  IInv'
<1>0. Client
  BY DEF responds
<1>1. /\ Flags /\ Queues /\ Outside /\ Asking /\ Inside /\ MisreadForwarded /\ WildPrintCause
      /\ KnownIds /\ phase # "ended"
      /\ UNCHANGED <<phase, asked, request, buffer2, wild, framed, misread, group, resp, rest, eof, spilled>>
  BY <1>0, ServerFrame DEF Traffic
<1>2. /\ serving /\ answering # None /\ inbox' = Append(inbox, answering) /\ answering' = None
      /\ UNCHANGED <<let_in, pending, forwards, serving>>
  BY DEF responds
<1>3. /\ inbox' \in Seq(Incoming) /\ inbox' # <<>> /\ Ids(inbox') = Ids(inbox) \cup {answering.id}
      /\ inbox = <<>> => Head(inbox') = answering /\ Tail(inbox') = <<>>
      /\ inbox # <<>> => Head(inbox') = Head(inbox) /\ Tail(inbox') = Append(Tail(inbox), answering)
  BY <1>1, <1>2, Appended DEF Queues
<1>4. answering.id \in AskAnswers
  BY <1>1, <1>2 DEF KnownIds
<1>5. Flags' /\ Queues'
  BY <1>1, <1>2, <1>3 DEF Flags, Queues
<1>6. phase \in {"asking", "in"}
  BY <1>1, <1>2 DEF Outside, Queues
<1>7. Asking'
  <2> SUFFICES ASSUME phase = "asking" PROVE Asking'
    BY <1>1 DEF Asking
  <2>1. /\ pending = <<>> /\ Ids(inbox) \cap AskAnswers = {} /\ (Admits(answering) <=> let_in)
        /\ ~let_in => inbox = <<>>
    BY <1>1, <1>2 DEF Asking
  <2>2. request' # None /\ request'.id \in Asks
    BY <1>1 DEF Asking
  <2>3. CASE inbox = <<>>
    <3>1. /\ Head(inbox') = answering /\ Ids(Tail(inbox')) = {} /\ Tail(inbox') = <<>>
          /\ answering.id \in AskAnswers
      BY <1>3, <1>4, <2>3, NoIds
    <3>2. (Admits(Head(inbox)))' <=> let_in'
      BY <1>1, <1>2, <2>1, <3>1 DEF Admits
    <3>3. Head(inbox').id \notin TextId
      BY <3>1 DEF AskAnswers, TextId
    <3> QED BY <1>1, <1>2, <1>3, <2>1, <2>2, <3>1, <3>2, <3>3 DEF Asking
  <2>4. CASE inbox # <<>>
    <3>1. Head(inbox).id \in Ids(inbox)
      BY <1>1, <2>4, Taken DEF Queues
    <3>2. /\ Head(inbox).id \notin AskAnswers /\ let_in /\ (Admits(Head(inbox)) <=> let_in)
          /\ Head(inbox).id \in TextId /\ forwards > 0
      BY <1>1, <2>1, <2>4, <3>1 DEF Asking
    <3> QED BY <1>1, <1>2, <1>3, <2>1, <2>2, <2>4, <3>2 DEF Asking, Admits
  <2> QED BY <2>3, <2>4
<1>8. Traffic'
  BY <1>1, <1>2, <1>3, <1>4, <1>6, <1>7 DEF Traffic, Outside, Inside, KnownIds, MisreadForwarded, WildPrintCause
<1> QED BY <1>0, <1>5, <1>8, ServerFrame, Together

\* Requests other than asking are made, and answered, inside.
LEMMA HandlesKeeps ==
  ASSUME IInv, handles
  PROVE  IInv'
<1>0. Client
  BY DEF handles
<1>1. /\ Flags /\ Queues /\ Outside /\ Asking /\ Inside /\ MisreadForwarded /\ WildPrintCause
      /\ KnownIds /\ phase # "ended"
      /\ UNCHANGED <<phase, asked, request, buffer2, wild, framed, misread, group, resp, rest, eof, spilled>>
  BY <1>0, ServerFrame DEF Traffic
<1>2. /\ serving /\ answering = None /\ pending # <<>> /\ Head(pending).id \notin Asks
      /\ pending' = Tail(pending) /\ UNCHANGED <<let_in, answering, forwards, serving>>
      /\ UNCHANGED inbox \/ \E m \in Response(Head(pending).id) : inbox' = Append(inbox, m)
  BY DEF handles, Asks
<1>3. /\ pending' \in Seq(Message) /\ Len(pending') = Len(pending) - 1
      /\ Ids(pending') \subseteq Ids(pending)
  BY <1>1, <1>2, Taken DEF Queues
<1>4. phase = "in"
  <2>1. phase = "asking" => pending = <<request>> /\ request.id \in Asks
    BY <1>1, <1>2 DEF Asking
  <2> QED BY <1>1, <1>2, <2>1 DEF Outside, Queues
<1>5. inbox' \in Seq(Incoming) /\ Ids(inbox') \subseteq Ids(inbox) \cup (Texts \cup Answers)
      /\ Ids(inbox') \cap AskAnswers \subseteq Ids(inbox)
  <2>1. CASE UNCHANGED inbox
    BY <1>1, <2>1 DEF Queues
  <2>2. CASE \E m \in Response(Head(pending).id) : inbox' = Append(inbox, m)
    <3>1. PICK id, m : m \in Response(id) /\ id = Head(pending).id /\ inbox' = Append(inbox, m)
      BY <2>2
    <3>2. m \in Incoming /\ m.id \in Texts \cup Answers /\ m.id \notin AskAnswers
      BY <1>2, <3>1, ResponseOf
    <3>3. inbox' \in Seq(Incoming) /\ Ids(inbox') = Ids(inbox) \cup {m.id}
      BY <1>1, <3>1, <3>2, Appended DEF Queues
    <3> QED BY <3>2, <3>3
  <2> QED BY <1>2, <2>1, <2>2
<1>6. Flags'
  BY <1>1, <1>2 DEF Flags
<1>7. Queues'
  BY <1>1, <1>2, <1>3, <1>5, BoundsAssumption DEF Queues
<1>8. Outside' /\ Asking' /\ MisreadForwarded' /\ WildPrintCause'
  BY <1>1, <1>2, <1>4 DEF Outside, Asking, MisreadForwarded, WildPrintCause
<1>9. Inside' /\ KnownIds'
  BY <1>1, <1>2, <1>3, <1>4, <1>5 DEF Inside, KnownIds
<1> QED BY <1>0, <1>6, <1>7, <1>8, <1>9, ServerFrame, Together DEF Traffic

\* A message of another user comes only to a client the server has let in.
LEMMA ForwardKeeps ==
  ASSUME IInv, forward
  PROVE  IInv'
<1>0. Client
  BY DEF forward
<1>1. /\ Flags /\ Queues /\ Outside /\ Asking /\ Inside /\ MisreadForwarded /\ WildPrintCause
      /\ KnownIds /\ phase # "ended"
      /\ UNCHANGED <<phase, asked, request, buffer2, wild, framed, misread, group, resp, rest, eof, spilled>>
  BY <1>0, ServerFrame DEF Traffic
<1>2. /\ serving /\ let_in /\ forwards < MaxForwards /\ forwards' = forwards + 1
      /\ UNCHANGED <<let_in, answering, pending, serving>>
  BY DEF forward
<1>3. PICK id \in TextId : inbox' = Append(inbox, From(id, SUCCESS))
  BY DEF forward
<1> DEFINE m == From(id, SUCCESS)
<1>4. m \in Incoming /\ m.id = id /\ Admits(m) /\ m.id \in Texts /\ m.id \notin AskAnswers
  BY ForwardedIs
<1>5. /\ inbox' \in Seq(Incoming) /\ inbox' # <<>> /\ Ids(inbox') = Ids(inbox) \cup {m.id}
      /\ inbox = <<>> => Head(inbox') = m /\ Tail(inbox') = <<>>
      /\ inbox # <<>> => Head(inbox') = Head(inbox) /\ Tail(inbox') = Append(Tail(inbox), m)
  BY <1>1, <1>3, <1>4, Appended DEF Queues
<1> HIDE DEF m
<1>6. forwards' \in 0 .. MaxForwards /\ forwards' > 0
  BY <1>1, <1>2, BoundsAssumption DEF Queues
<1>7. Flags' /\ Queues'
  BY <1>1, <1>2, <1>5, <1>6 DEF Flags, Queues
<1>8. Outside' /\ MisreadForwarded' /\ WildPrintCause' /\ KnownIds'
  BY <1>1, <1>2, <1>4, <1>5, <1>6 DEF Outside, MisreadForwarded, WildPrintCause, KnownIds
<1>9. Inside'
  BY <1>1, <1>2, <1>4, <1>5 DEF Inside
<1>10. Asking'
  <2> SUFFICES ASSUME phase = "asking" PROVE Asking'
    BY <1>1 DEF Asking
  <2>1. request' # None /\ request'.id \in Asks
    BY <1>1 DEF Asking
  <2>2. CASE inbox = <<>>
    <3>1. (Admits(Head(inbox)))'
      BY <1>1, <1>4, <1>5, <2>2 DEF Admits
    <3>2. /\ Head(inbox') = m /\ Ids(Tail(inbox')) = {} /\ Ids(inbox') = {m.id}
      BY <1>5, <2>2, NoIds
    <3>3. (Admits(answering))' <=> Admits(answering)
      BY <1>1, <1>2 DEF Admits
    <3>4. serving => pending = <<>> /\ answering # None
      BY <1>1, <1>2, <2>2 DEF Asking
    <3>5. m.id \in TextId
      BY <1>4
    <3> QED BY <1>1, <1>2, <1>4, <1>5, <1>6, <2>1, <2>2, <3>1, <3>2, <3>3, <3>4, <3>5 DEF Asking
  <2>3. CASE inbox # <<>>
    <3>1. Tail(inbox) \in Seq(Incoming)
      BY <1>1, <2>3, Taken DEF Queues
    <3>2. Ids(Tail(inbox')) = Ids(Tail(inbox)) \cup {m.id}
      <4>1. PICK q \in Seq(Incoming) : q = Tail(inbox)
        BY <3>1
      <4>2. Ids(Append(q, m)) = Ids(q) \cup {m.id}
        BY <1>4, Appended
      <4> QED BY <1>5, <2>3, <4>1, <4>2
    <3>3. (Admits(Head(inbox)))' <=> Admits(Head(inbox))
      BY <1>1, <1>5, <2>3 DEF Admits
    <3>4. Head(inbox') = Head(inbox)
      BY <1>5, <2>3
    <3>5. (Admits(answering))' <=> Admits(answering)
      BY <1>1, <1>2 DEF Admits
    <3> QED BY <1>1, <1>2, <1>4, <1>5, <1>6, <2>1, <2>3, <3>2, <3>3, <3>4, <3>5 DEF Asking
  <2> QED BY <2>2, <2>3
<1> QED BY <1>0, <1>7, <1>8, <1>9, <1>10, ServerFrame, Together DEF Traffic

\* The end of the server leaves what it has sent.
LEMMA ClosesKeeps ==
  ASSUME IInv, closes
  PROVE  IInv'
<1>0. Client
  BY DEF closes
<1>1. /\ Flags /\ Queues /\ Traffic
      /\ UNCHANGED <<phase, asked, request, buffer2, wild, framed, misread, group, resp, rest, eof, spilled>>
  BY <1>0, ServerFrame
<1>2. serving' = FALSE /\ UNCHANGED <<let_in, answering, pending, inbox, forwards>>
  BY DEF closes
<1>3. Flags' /\ Queues'
  <2>1. Flags'
    BY <1>1, <1>2 DEF Flags
  <2>2. Queues'
    BY <1>1, <1>2 DEF Queues
  <2> QED BY <2>1, <2>2
<1>4. Traffic'
  BY <1>1, <1>2 DEF Traffic, Outside, Asking, Inside, MisreadForwarded, WildPrintCause, KnownIds, Admits
<1> QED BY <1>0, <1>3, <1>4, ServerFrame, Together

-------------------------------------------------------------------------------
(* The theorems                                                            *)

\* The invariant holds before the client has sent anything (main).
LEMMA InitInv == Init => IInv
<1> SUFFICES ASSUME Init PROVE IInv
  OBVIOUS
<1>1. TypeOK
  <2>1. Flags
    BY DEF Init, Flags
  <2>2. Typed /\ Queues
    BY BoundsAssumption DEF Init, Typed, Queues, Command
  <2> QED BY <2>1, <2>2, TypesApart
<1> QED BY <1>1, NoIds DEF Init, IInv, NotYetJoined, Prompted, RoomKept, Addressed, Outside, Asking,
                           Inside, KnownIds, MisreadForwarded, WildPrintCause

\* Every step of the client and of the server keeps the invariant.
LEMMA StepInv == IInv /\ [Next]_vars => IInv'
<1> SUFFICES ASSUME IInv, [Next]_vars PROVE IInv'
  OBVIOUS
<1>1. CASE UNCHANGED vars
  <2>1. Flags' /\ Queues' /\ Typed'
    BY <1>1, TypesApart DEF vars, promptVars, inputVars, readerVars, serverVars, IInv, Flags, Queues, Typed
  <2> QED BY <1>1, <2>1, Together
          DEF vars, promptVars, inputVars, readerVars, serverVars, IInv, Traffic, NotYetJoined,
              Prompted, RoomKept, Addressed, Outside, Asking, Inside, KnownIds, MisreadForwarded,
              WildPrintCause, Admits
<1>2. CASE ask("REGISTER_USER") \/ ask("LOGIN")
  BY <1>2, AskKeeps DEF Asks
<1>3. CASE server
  BY <1>3, LetsInKeeps, RespondsKeeps, HandlesKeeps, ForwardKeeps, ClosesKeeps DEF server
<1> QED BY <1>1, <1>2, <1>3, AnsweredKeeps, UnansweredKeeps, InputKeeps, ReaderKeeps DEF Next

\* The invariant holds in every state the client reaches.
LEMMA Invariant == Spec => []IInv
BY InitInv, StepInv, PTL DEF Spec

\* The client's variables keep their types, and a text for a chat room goes to the room
\* of the last JOIN if its question was answered with one word: whatever else is typed, in
\* any order, with the terminal closed or not, and whatever the server does.
THEOREM TextsGoToTheRoomJoined == Spec => []RoomOfLastJoin
<1>1. IInv => RoomOfLastJoin
  BY DEF IInv, RoomOfLastJoin, Addressed
<1> QED BY Invariant, <1>1, PTL

\* The unset buffer2 is printed only after a forwarded message was taken for the answer,
\* or after an empty list was read.
THEOREM WildPrintHasCause == Spec => []WildPrintCause
<1>1. IInv => WildPrintCause
  BY DEF IInv
<1> QED BY Invariant, <1>1, PTL

-------------------------------------------------------------------------------
(* The client implements Session                                           *)

\* A step of the client or the server is a step of Session, or changes nothing there.
LEMMA SessionStep == IInv /\ [Next]_vars => [SessionOfServer!Next]_(SessionOfServer!sessionVars)
<1> SUFFICES ASSUME IInv, [Next]_vars
             PROVE  SessionOfServer!Next \/ UNCHANGED SessionOfServer!sessionVars
  OBVIOUS
<1> USE DEF SessionOfServer!Next, SessionOfServer!sessionVars
<1>0. Typed /\ Traffic /\ let_in \in BOOLEAN
  BY TypesApart DEF IInv, Traffic, Flags
<1>1. CASE UNCHANGED <<phase, serving, let_in, request>>
  BY <1>1
<1>2. ASSUME phase' = "ended", UNCHANGED <<serving, let_in, request>>
      PROVE  SessionOfServer!Next
  BY <1>2 DEF SessionOfServer!End
<1>3. ASSUME NEW id \in Asks, ask(id)
      PROVE  SessionOfServer!Next
  <2>1. phase = "prompt" /\ UNCHANGED <<serving, let_in>>
    BY <1>3 DEF ask
  <2>2. CASE phase' = "ended" /\ UNCHANGED request
    BY <1>2, <2>1, <2>2
  <2>3. CASE phase' = "asking" /\ request' = Msg(id, me, 0)
    <3>1. request' # None /\ request'.id = id
      <4>1. id \in RequestId
        BY DEF Asks, RequestId
      <4>2. me \in Word \cup {None} /\ 0 \in Nat
        BY WordsAssumption DEF Word
      <4> QED BY <2>3, <4>1, <4>2, Messages
    <3>2. SessionOfServer!Ask(request')
      BY <2>1, <2>3, <3>1 DEF SessionOfServer!Ask, SessionOfServer!AskId, Asks
    <3> QED BY <3>2
  <2> QED BY <1>3, <2>2, <2>3 DEF ask
<1>4. CASE answered
  <2>1. /\ phase = "asking" /\ phase' = (IF Admits(Head(inbox)) THEN "in" ELSE "prompt")
        /\ (Admits(Head(inbox)) <=> let_in) /\ UNCHANGED <<serving, let_in, request>>
    BY <1>0, <1>4 DEF answered, Traffic, Asking
  <2>2. CASE let_in
    <3>1. SessionOfServer!Enter
      BY <2>1, <2>2 DEF SessionOfServer!Enter
    <3> QED BY <3>1
  <2>3. CASE ~let_in
    <3>1. SessionOfServer!Refused
      BY <2>1, <2>3 DEF SessionOfServer!Refused
    <3> QED BY <3>1
  <2> QED BY <2>2, <2>3
<1>5. CASE unanswered
  <2>1. phase = "asking" /\ ~serving /\ phase' \in {"prompt", "ended"} /\ UNCHANGED <<serving, let_in, request>>
    BY <1>5 DEF unanswered, serverVars
  <2>2. CASE phase' = "prompt"
    <3>1. SessionOfServer!Refused
      BY <2>1, <2>2 DEF SessionOfServer!Refused
    <3> QED BY <3>1
  <2> QED BY <1>2, <2>1, <2>2
<1>6. CASE control_user_input
  <2>1. InputStep
    BY <1>0, <1>6, InputSteps
  <2>2. phase = "in" /\ phase' \in {"in", "ended"} /\ UNCHANGED <<serving, let_in>>
    BY <2>1 DEF InputStep
  <2>3. CASE UNCHANGED request
    BY <1>1, <1>2, <2>2, <2>3
  <2>4. CASE /\ request' \in Message /\ request'.id \in ChatId /\ phase' = "in"
             /\ request'.id \in TextId => request'.data_lenght > 0
    <3>1. request' # None
      BY <2>4, WordsAssumption
    <3>2. SessionOfServer!Request(request')
      BY <2>2, <2>4, <3>1 DEF SessionOfServer!Request, SessionOfServer!RequestId,
                              SessionOfServer!TextId, ChatId, Asks, RequestId, TextId
    <3> QED BY <3>2
  <2> QED BY <2>1, <2>3, <2>4 DEF InputStep
<1>7. CASE handle_server_message
  <2>1. /\ phase = "in" /\ phase' \in {"in", "ended"} /\ UNCHANGED <<serving, let_in, request>>
    BY <1>7 DEF handle_server_message, print, garble, disconnected
  <2> QED BY <1>1, <1>2, <2>1
<1>8. CASE server
  <2>1. CASE lets_in
    <3>1. phase = "asking" /\ ~let_in
      BY <2>1, LetsInKeeps
    <3>2. serving /\ let_in' \in BOOLEAN /\ UNCHANGED <<phase, serving, request>>
      BY <2>1 DEF lets_in, Client, promptVars
    <3>3. CASE let_in'
      <4>1. SessionOfServer!LetIn
        BY <3>1, <3>2, <3>3 DEF SessionOfServer!LetIn
      <4> QED BY <4>1
    <3>4. CASE ~let_in'
      <4>1. let_in' = let_in
        BY <1>0, <3>1, <3>2, <3>4
      <4> QED BY <1>1, <3>2, <4>1
    <3> QED BY <3>3, <3>4
  <2>2. CASE responds \/ handles \/ forward
    BY <1>1, <2>2 DEF responds, handles, forward, Client, promptVars
  <2>3. CASE closes
    <3>1. SessionOfServer!Close
      BY <2>3 DEF closes, Client, promptVars, SessionOfServer!Close
    <3> QED BY <3>1
  <2> QED BY <1>8, <2>1, <2>2, <2>3 DEF server
<1>9. CASE UNCHANGED vars
  BY <1>1, <1>9 DEF vars, promptVars, serverVars
<1> QED BY <1>3, <1>4, <1>5, <1>6, <1>7, <1>8, <1>9 DEF Next, Asks

\* The client asks to be let in one request at a time and again only when refused or cut
\* off, enters only if it was let in, sends its other requests only from inside, and no
\* empty text: it is the client ChatServer takes its clients to be.
THEOREM ClientImplementsSession == Spec => ImplementsSession
<1>1. Init => SessionOfServer!Init
  BY DEF Init, SessionOfServer!Init
<1> QED BY Invariant, <1>1, SessionStep, PTL DEF Spec, ImplementsSession, SessionOfServer!Spec

===============================================================================
