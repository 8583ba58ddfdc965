------------------------------- MODULE ChatClient -------------------------------
(***************************************************************************)
(* The TCP client, src/india/src/client/india_message_register.c: the      *)
(* prompts until the server lets it in, the input loop control_user_input  *)
(* with its labels INPUT, CHATRULE, CHAT and GROUP, and the thread         *)
(* handle_server_message that reads what the server sends.  The server is  *)
(* the environment: it answers requests in their order, and forwards       *)
(* messages of others from the moment it has let the client in, which is   *)
(* before it answers.                                                      *)
(*                                                                         *)
(* input is kept as the command it begins with and what stands where the   *)
(* word behind a command does: destination and group are pointers to that  *)
(* place, and a shorter line leaves it as it was.                          *)
(***************************************************************************)
EXTENDS Integers, Sequences

CONSTANTS
  Names,        \* user names that can be typed
  me,           \* the name of this user
  Rooms,        \* room names that can be typed
  TooLong,      \* a word longer than the name and room name fields
  MaxLines,     \* bound: lines typed after entering
  MaxAsked,     \* bound: attempts to enter
  MaxForwards,  \* bound: messages of others
  MaxPending,   \* bound: messages on their way, when one more is sent
  None          \* no word, no request, no message

Word == Names \cup Rooms \cup {TooLong}

\* Message identifiers of india_messages_protocol.h, and messages to and from the server.
TextId     == {"PRIVATE_DATA", "CHAT_ROOM_DATA"}
RequestId  == TextId \cup {"REGISTER_USER", "LOGIN", "SHOW_CHAT_ROOMS", "SHOW_USERS", "JOIN",
                           "EXIT", "CREATE_CHAT_ROOM"}
ResponseId == {"REGISTER_USER_RESPONSE", "LOGIN_RESPONSE", "SHOW_CHAT_ROOMS_RESPONSE",
               "SHOW_USERS_RESPONSE", "JOIN_RESPONSE", "EXIT_RESPONSE", "CREATE_CHAT_ROOM_RESPONSE"}
Message    == [id: RequestId, to: Word \cup {None}, data_lenght: Nat]
Incoming   == [id: TextId \cup ResponseId, error_code: Nat]

ASSUME WordsAssumption ==
  me \in Names /\ TooLong \notin Names \cup Rooms /\ None \notin Word \cup Message \cup Incoming
ASSUME BoundsAssumption ==
  {MaxLines, MaxAsked, MaxForwards, MaxPending} \subseteq Nat

\* Error codes of india_messages_protocol.h
SUCCESS == 0
NICK_NAME_IN_USE == 1
CHAT_ROOM_DOES_NOT_EXIST == 2
USER_DOES_NOT_EXIST == 4
WRONG_PW == 5

VARIABLES
  phase,      \* register_or_login is at: "prompt", "asking", "in" or "ended"
  asked,      \* attempts to enter so far
  request,    \* the last message sent
  pc,         \* the label control_user_input is at
  input,      \* the command in its buffer
  behind,     \* the word behind the command, None if there is none
  group,      \* group points behind the command
  resp,       \* resp is 'j'
  room,       \* message.chat_room_name
  rest,       \* what scanf has left of its line
  eof,        \* the terminal is closed
  lines,      \* lines typed so far
  buffer2,    \* handle_server_message has a text in buffer2
  wild,       \* it has printed buffer2 without
  framed,     \* what it reads begins where a message begins
  let_in,     \* the server has registered the client or logged it in
  answering,  \* what it is about to answer to that
  pending,    \* requests on their way to it
  inbox,      \* messages on their way from it
  forwards,   \* messages forwarded so far
  serving,    \* it has not closed the connection
  joined,     \* history: the room of the last JOIN
  spilled,    \* history: its line had more than the letter asked for
  misread     \* history: a forwarded message was taken for the answer

promptVars == <<phase, asked, request>>
inputVars  == <<pc, input, behind, group, resp, room, rest, eof, lines, joined, spilled>>
readerVars == <<buffer2, wild, framed>>
serverVars == <<let_in, answering, pending, inbox, forwards, serving>>
vars == <<promptVars, inputVars, readerVars, serverVars, misread>>

Named   == {"/PVM", "/Group", "/EXIT"}
Command == {"/help", "/quit", "/list", "/users", "text", "empty"} \cup Named

TypeOK ==
  /\ phase \in {"prompt", "asking", "in", "ended"} /\ asked \in 0 .. MaxAsked
  /\ request \in Message \cup {None}
  /\ pc \in {"INPUT", "CHATRULE", "PROMPT", "CHAT", "GROUP"}
  /\ input \in Command /\ behind \in Word \cup {None} /\ room \in Word \cup {None}
  /\ rest \in {"nothing", "newline", "words"}
  /\ {group, resp, eof, buffer2, wild, framed, let_in, serving} \subseteq BOOLEAN
  /\ {misread, spilled} \subseteq BOOLEAN
  /\ lines \in 0 .. MaxLines /\ forwards \in 0 .. MaxForwards
  /\ joined \in Word \cup {None}
  /\ answering \in Incoming \cup {None} /\ inbox \in Seq(Incoming)
  /\ pending \in Seq(Message) /\ Len(pending) <= MaxPending + 1

-------------------------------------------------------------------------------
(* register_or_login                                                       *)

Msg(id, to, n) == [id |-> id, to |-> to, data_lenght |-> n]

\* user_status, username_check and the request of register_user or Login.  A write to a
\* connection the server has closed may go unnoticed once, or ends the client.
ask(id) ==
  /\ phase = "prompt" /\ asked < MaxAsked
  /\ asked' = asked + 1
  /\ \/ /\ phase' = "asking" /\ request' = Msg(id, me, 0)
        /\ pending' = IF serving THEN Append(pending, request') ELSE pending
     \/ ~serving /\ phase' = "ended" /\ UNCHANGED <<request, pending>>
  /\ UNCHANGED <<let_in, answering, inbox, forwards, serving, inputVars, readerVars, misread>>

\* Mutant: an answer NICK_NAME_IN_USE enters.
Admits_NickName(m) == m.error_code \notin {USER_DOES_NOT_EXIST, WRONG_PW}

\* handle_registration and handle_login look at the error code alone, whatever the
\* message is; a message without the field counts as SUCCESS, newmsg being zeroed.
Admits(m) ==
  IF request.id = "REGISTER_USER" THEN m.error_code = SUCCESS
  ELSE m.error_code \notin {USER_DOES_NOT_EXIST, WRONG_PW}

\* On entering, resp and group are what the stack held, and the password loop may have
\* left the end of its line.
answered ==
  /\ phase = "asking" /\ inbox # <<>>
  /\ inbox' = Tail(inbox)
  /\ phase' = IF Admits(Head(inbox)) THEN "in" ELSE "prompt"
  /\ misread' = (misread \/ Head(inbox).id \in TextId)
  /\ rest' \in {"nothing", "newline"}
  /\ UNCHANGED <<asked, request, pc, input, behind, group, resp, room, eof, lines, joined,
                 spilled, readerVars, let_in, answering, pending, forwards, serving>>

\* Mutant: only handle_login notices that there is no more to read.
unanswered_Login ==
  /\ phase = "asking" /\ inbox = <<>> /\ ~serving /\ request.id = "LOGIN"
  /\ phase' = "ended"
  /\ UNCHANGED <<asked, request, inputVars, readerVars, serverVars, misread>>

\* read_universal_india_message at the end of the stream: handle_registration asks the
\* user again, handle_login exits.
unanswered ==
  /\ phase = "asking" /\ inbox = <<>> /\ ~serving
  /\ phase' = IF request.id = "REGISTER_USER" THEN "prompt" ELSE "ended"
  /\ UNCHANGED <<asked, request, inputVars, readerVars, serverVars, misread>>

-------------------------------------------------------------------------------
(* control_user_input: reading lines                                       *)

At(label) == phase = "in" /\ pc = label

Env == UNCHANGED <<let_in, answering, inbox, forwards, serving, readerVars, asked, misread>>

\* A line a user can type, with word w where that of a command stands if it goes so far.
Line(c, w) ==
  /\ ~eof /\ lines < MaxLines /\ lines' = lines + 1
  /\ (w # None) => (c \in Named \cup {"text"})

\* What stands there then.
Behind(c, w) == IF c \in Named \cup {"text"} THEN w ELSE behind

\* INPUT: fgets() into input.  An empty line leaves the word of the line before behind
\* it; at the end of the file fgets() leaves everything, and the loop goes on.  What scanf
\* has left comes first; as it begins with a space it is no command.
fgets_input ==
  /\ At("INPUT")
  /\ \/ /\ rest = "newline" /\ input' = "empty"
        /\ UNCHANGED <<behind, eof, lines>>
     \/ /\ rest = "words" /\ input' = "text" /\ behind' \in Word \cup {None}
        /\ UNCHANGED <<eof, lines>>
     \/ /\ rest = "nothing"
        /\ \E c \in Command, w \in Word \cup {None} :
             Line(c, w) /\ input' = c /\ behind' = Behind(c, w)
        /\ UNCHANGED eof
     \/ rest = "nothing" /\ eof' = TRUE /\ UNCHANGED <<input, behind, lines>>
  /\ rest' = "nothing"
  /\ pc' = "CHATRULE"
  /\ UNCHANGED <<phase, request, pending, group, resp, room, joined, spilled>> /\ Env

\* The line read at CHAT or GROUP is a command or empty: it is copied to input, where a
\* shorter one leaves the end of the line that was there.
Copied ==
  /\ \/ \E c \in Command \ {"text"}, w \in Word \cup {None} :
          /\ Line(c, w) /\ input' = c /\ UNCHANGED eof
          /\ \/ behind' = Behind(c, w)
             \/ w = None /\ c \in Named /\ behind' \in Word
     \/ eof' = TRUE /\ input' = "empty" /\ UNCHANGED <<behind, lines>>
  /\ pc' = "CHATRULE"

\* The line is a text: it is sent, and the next one is read at the same label.
SendText(m) ==
  /\ Line("text", None) /\ UNCHANGED <<eof, pc, input, behind>>
  /\ \/ serving /\ request' = m /\ pending' = Append(pending, m) /\ UNCHANGED phase
     \/ ~serving /\ phase' = "ended" /\ UNCHANGED <<request, pending>>

\* CHAT: the message is for the user that destination points to.
chat ==
  /\ At("CHAT") /\ Len(pending) <= MaxPending
  /\ \/ Copied /\ UNCHANGED <<phase, request, pending>>
     \/ SendText(Msg("PRIVATE_DATA", behind, 1))
  /\ UNCHANGED <<group, resp, room, rest, joined, spilled>> /\ Env

\* Mutant: resp is not reset when the room is left.
LeavesRoom_Kept == UNCHANGED resp

\* resp = " ": texts typed at INPUT no longer go to the room, unless the address of " "
\* should end in the code of a 'j'.
LeavesRoom == resp' = FALSE

\* GROUP: the message is for the room named when the label was reached.
groupchat ==
  /\ At("GROUP") /\ Len(pending) <= MaxPending
  /\ \/ Copied /\ LeavesRoom /\ UNCHANGED <<phase, request, pending>>
     \/ SendText(Msg("CHAT_ROOM_DATA", room, 1)) /\ UNCHANGED resp
  /\ UNCHANGED <<group, room, rest, joined, spilled>> /\ Env

-------------------------------------------------------------------------------
(* control_user_input: CHATRULE                                            *)

Rule(c) == At("CHATRULE") /\ input = c /\ Len(pending) <= MaxPending

Send(m) ==
  \/ serving /\ request' = m /\ pending' = Append(pending, m) /\ UNCHANGED phase
  \/ ~serving /\ phase' = "ended" /\ UNCHANGED <<request, pending>>

Silent == UNCHANGED <<phase, request, pending>>
Buffer == UNCHANGED <<input, behind, rest, eof, lines>>

help ==
  /\ Rule("/help") /\ pc' = "INPUT" /\ Silent
  /\ UNCHANGED <<group, resp, room, joined, spilled>> /\ Buffer /\ Env

quit ==
  /\ Rule("/quit") /\ phase' = "ended"
  /\ UNCHANGED <<pc, request, pending, group, resp, room, joined, spilled>> /\ Buffer /\ Env

lists ==
  /\ \/ Rule("/list") /\ Send(Msg("SHOW_CHAT_ROOMS", None, 0))
     \/ Rule("/users") /\ Send(Msg("SHOW_USERS", None, 0))
  /\ pc' = "INPUT" /\ UNCHANGED <<group, resp, room, joined, spilled>> /\ Buffer /\ Env

private ==
  /\ Rule("/PVM")
  /\ pc' = IF behind \in Word \ {TooLong, me} THEN "CHAT" ELSE "INPUT"
  /\ Silent /\ UNCHANGED <<group, resp, room, joined, spilled>> /\ Buffer /\ Env

\* group is set before it is looked at: a missing name leaves a null pointer in it.
group_named ==
  /\ Rule("/Group")
  /\ group' = (behind # None)
  /\ pc' = IF behind \in Word \ {TooLong} THEN "PROMPT" ELSE "INPUT"
  /\ Silent /\ UNCHANGED <<resp, room, joined, spilled>> /\ Buffer /\ Env

\* join_creat_chatroom and the request.  scanf() takes the first word that begins with one
\* of the letters asked for, and leaves the rest of its line, which is the next line read at
\* INPUT; a word longer than c may end the client.  With the terminal closed the letter is
\* what the stack held.
join_creat_chatroom ==
  /\ At("PROMPT") /\ Len(pending) <= MaxPending
  /\ resp' \in BOOLEAN
  /\ rest' \in IF eof THEN {"nothing"} ELSE {"newline", "words"}
  /\ \/ Send(Msg(IF resp' THEN "JOIN" ELSE "CREATE_CHAT_ROOM", behind, 0))
     \/ ~eof /\ phase' = "ended" /\ UNCHANGED <<request, pending>>
  /\ IF resp' /\ phase' = "in" THEN joined' = behind /\ spilled' = (rest' = "words")
     ELSE UNCHANGED <<joined, spilled>>
  /\ pc' = "INPUT"
  /\ UNCHANGED <<input, behind, group, room, eof, lines>> /\ Env

\* Before /EXIT and "out of option": whatever was typed goes on to GROUP if resp is 'j'.
\* A group that points nowhere ends the client, or names whatever is there; a text too long
\* for chat_room_name may end it.
enter_room ==
  /\ resp /\ \E c \in {"text", "empty", "/EXIT"} : Rule(c)
  /\ \/ group /\ room' = behind /\ UNCHANGED phase
     \/ ~group /\ room' \in Word /\ UNCHANGED phase
     \/ (~group \/ behind = TooLong) /\ phase' = "ended" /\ UNCHANGED room
  /\ pc' = "GROUP"
  /\ UNCHANGED <<request, pending, group, resp, joined, spilled>> /\ Buffer /\ Env

\* printf("%s") of the null pointer comes before the check; the library prints "(null)".
exit_room ==
  /\ Rule("/EXIT") /\ ~resp
  /\ group' = (behind # None)
  /\ IF behind \in Word \ {TooLong} THEN Send(Msg("EXIT", behind, 0)) ELSE Silent
  /\ pc' = "INPUT" /\ UNCHANGED <<resp, room, joined, spilled>> /\ Buffer /\ Env

out_of_option ==
  /\ ~resp /\ \E c \in {"text", "empty"} : Rule(c)
  /\ pc' = "INPUT" /\ Silent /\ UNCHANGED <<group, resp, room, joined, spilled>> /\ Buffer /\ Env

control_user_input ==
  \/ fgets_input \/ chat \/ groupchat \/ help \/ quit \/ lists \/ private \/ group_named
  \/ join_creat_chatroom \/ enter_room \/ exit_room \/ out_of_option

-------------------------------------------------------------------------------
(* handle_server_message                                                   *)

Texts == {"PRIVATE_DATA", "CHAT_ROOM_DATA", "SHOW_CHAT_ROOMS_RESPONSE", "SHOW_USERS_RESPONSE"}
Answers == {"JOIN_RESPONSE", "CREATE_CHAT_ROOM_RESPONSE", "EXIT_RESPONSE"}

\* Mutant: JOIN_RESPONSE, CREATE_CHAT_ROOM_RESPONSE and EXIT_RESPONSE have no case.
HasCase_TextsOnly(id) == id \in Texts

\* The default case prints buffer2: a list, or, for anything else, what it was before.
HasCase(id) == id \in Texts \cup Answers

\* The answer when there is no room has no length; the next four bytes are read for one.
EmptyList(m) == m.id = "SHOW_CHAT_ROOMS_RESPONSE" /\ m.error_code = CHAT_ROOM_DOES_NOT_EXIST

\* One message, printed.
print ==
  /\ framed /\ inbox # <<>> /\ ~EmptyList(Head(inbox))
  /\ inbox' = Tail(inbox)
  /\ buffer2' = (buffer2 \/ Head(inbox).id \in Texts)
  /\ wild' = (wild \/ (~buffer2 /\ ~HasCase(Head(inbox).id)))
  /\ UNCHANGED <<framed, phase>>

\* From an empty list on what is read may be anything; an unknown id ends the client.
garble ==
  /\ inbox # <<>>
  /\ ~framed \/ (EmptyList(Head(inbox)) /\ (Len(inbox) > 1 \/ ~serving))
  /\ inbox' = Tail(inbox) /\ framed' = FALSE
  /\ buffer2' \in {TRUE, buffer2} /\ wild' \in {~buffer2 \/ wild, wild}
  /\ phase' \in {"in", "ended"}

disconnected ==
  /\ inbox = <<>> /\ ~serving
  /\ phase' = "ended" /\ UNCHANGED <<inbox, readerVars>>

handle_server_message ==
  /\ phase = "in" /\ (print \/ garble \/ disconnected)
  /\ UNCHANGED <<asked, request, inputVars, let_in, answering, pending, forwards, serving, misread>>

-------------------------------------------------------------------------------
(* The server                                                              *)

Client == phase # "ended" /\ UNCHANGED <<promptVars, inputVars, readerVars, misread>>

From(id, code) == [id |-> id, error_code |-> code]

\* The answers a request can have.  The error codes of those to JOIN, EXIT and
\* CREATE_CHAT_ROOM only choose the line that is printed, and are left out.
Response(id) ==
  CASE id = "REGISTER_USER" ->
         {From("REGISTER_USER_RESPONSE", c) : c \in {SUCCESS, NICK_NAME_IN_USE}}
    [] id = "LOGIN" ->
         {From("LOGIN_RESPONSE", c) : c \in {SUCCESS, USER_DOES_NOT_EXIST, WRONG_PW}}
    [] id = "SHOW_CHAT_ROOMS" ->
         {From("SHOW_CHAT_ROOMS_RESPONSE", c) : c \in {SUCCESS, CHAT_ROOM_DOES_NOT_EXIST}}
    [] id = "SHOW_USERS" -> {From("SHOW_USERS_RESPONSE", SUCCESS)}
    [] id = "JOIN" -> {From("JOIN_RESPONSE", SUCCESS)}
    [] id = "EXIT" -> {From("EXIT_RESPONSE", SUCCESS)}
    [] id = "CREATE_CHAT_ROOM" -> {From("CREATE_CHAT_ROOM_RESPONSE", SUCCESS)}
    [] id = "PRIVATE_DATA" -> {From(id, USER_DOES_NOT_EXIST)}
    [] OTHER -> {}

\* register_user or login_user is done; the response is not written yet.
lets_in ==
  /\ serving /\ answering = None /\ pending # <<>>
  /\ Head(pending).id \in {"REGISTER_USER", "LOGIN"}
  /\ answering' \in Response(Head(pending).id)
  /\ let_in' = (answering'.error_code = SUCCESS)
  /\ pending' = Tail(pending)
  /\ UNCHANGED <<inbox, forwards, serving>> /\ Client

responds ==
  /\ serving /\ answering # None
  /\ inbox' = Append(inbox, answering) /\ answering' = None
  /\ UNCHANGED <<let_in, pending, forwards, serving>> /\ Client

\* Any other request; a text is answered only if it cannot be delivered.
handles ==
  /\ serving /\ answering = None /\ pending # <<>> /\ Len(inbox) <= MaxPending
  /\ Head(pending).id \notin {"REGISTER_USER", "LOGIN"}
  /\ \/ \E m \in Response(Head(pending).id) : inbox' = Append(inbox, m)
     \/ Head(pending).id \in TextId /\ UNCHANGED inbox
  /\ pending' = Tail(pending)
  /\ UNCHANGED <<let_in, answering, forwards, serving>> /\ Client

\* Another thread forwards a message to every user that has a connection.
forward ==
  /\ serving /\ let_in /\ forwards < MaxForwards
  /\ \E id \in TextId : inbox' = Append(inbox, From(id, SUCCESS))
  /\ forwards' = forwards + 1
  /\ UNCHANGED <<let_in, answering, pending, serving>> /\ Client

\* The process of the server ends.
closes ==
  /\ serving /\ serving' = FALSE
  /\ UNCHANGED <<let_in, answering, pending, inbox, forwards>> /\ Client

server == lets_in \/ responds \/ handles \/ forward \/ closes

-------------------------------------------------------------------------------
Init ==
  /\ phase = "prompt" /\ asked = 0 /\ request = None
  /\ pc = "INPUT" /\ input = "empty" /\ behind = None
  /\ group = FALSE /\ resp \in BOOLEAN /\ room = None
  /\ rest = "nothing" /\ eof = FALSE /\ lines = 0
  /\ buffer2 = FALSE /\ wild = FALSE /\ framed = TRUE
  /\ let_in = FALSE /\ answering = None /\ pending = <<>> /\ inbox = <<>>
  /\ forwards = 0 /\ serving = TRUE /\ joined = None /\ spilled = FALSE
  /\ misread = FALSE

Next ==
  \/ ask("REGISTER_USER") \/ ask("LOGIN") \/ answered \/ unanswered
  \/ control_user_input \/ handle_server_message \/ server

\* The client runs, and the server answers while it is up; it need not forward
\* anything, and nobody has to type.
Fairness ==
  /\ WF_vars(answered) /\ WF_vars(unanswered) /\ WF_vars(handle_server_message)
  /\ WF_vars(quit)
  /\ WF_vars(lets_in) /\ WF_vars(responds) /\ WF_vars(handles)

Spec == Init /\ [][Next]_vars /\ Fairness

-------------------------------------------------------------------------------
(* Properties                                                              *)

\* A message for a chat room is for the room of the last JOIN request: leaving the room
\* for a command, naming another one for /EXIT or /Group, a closed terminal and the
\* pointer into the line buffer do not redirect it.  It can be for another in two cases only:
\* before the first JOIN, with resp and group never set, and if more than a word was
\* typed when the question of that JOIN was asked, which scanf() leaves for fgets() to put
\* where group points (lines 33, 325, 393-512).
RoomOfLastJoin ==
  /\ TypeOK
  /\ request # None /\ request.id = "CHAT_ROOM_DATA" /\ joined # None /\ ~spilled =>
       request.to = joined

\* The default case of handle_server_message prints the unset buffer2 only for one of two
\* reasons (lines 299-301): a message forwarded before the response was taken for it, and
\* the response then came to this thread; or an empty list was read before.
WildPrintCause == wild => (misread /\ forwards > 0) \/ ~framed

SessionOfServer == INSTANCE Session WITH
  stage <- CASE phase = "prompt" -> "out" [] phase = "asking" -> "asking"
             [] phase = "in" -> "in" [] OTHER -> "over"

\* The client is one the server can rely on: see Session.  In particular it enters only
\* when it has been let in, though it may take a message of another for the answer.
ImplementsSession == SessionOfServer!Spec

\* Who asks to be let in is answered, or learns that the server has gone.
EveryAskEnds == (phase = "asking") ~> (phase # "asking")

===============================================================================
