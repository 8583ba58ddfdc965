-------------------------------- MODULE UdpChat --------------------------------
(***************************************************************************)
(* The UDP variant: the server UDP_serv/india_messages_server_UDP.c and    *)
(* the client UDP_client/india_message_register.c, with the messages of    *)
(* UdpWire between them.  One socket and one loop serve all clients; the   *)
(* lists and their walks are those of ChatServer, whose operators are      *)
(* used here.                                                              *)
(*                                                                         *)
(* As it is built the server serves nobody: the statement in the loop of   *)
(* main declares handle_clients and does not call it.  With serves TRUE    *)
(* it is the call the declaration was meant to be, so that the rest of the *)
(* program, which is complete, can be looked at.  Nor is a reply address   *)
(* ever stored: recvfrom() is given the address of the pointer in_address, *)
(* eight bytes, so that handle_clients keeps what its stack held.  After   *)
(* the first call inlen says 16, and the next one writes eight bytes that  *)
(* are 0 behind the pointer.                                               *)
(***************************************************************************)
EXTENDS UdpWire, Integers, FiniteSets

CONSTANTS
  Clients, Names, Passwords, Rooms,
  Cells,           \* heap chunks that can hold a struct participant
  MAX_USER_COUNT,
  MaxRequests,     \* bound: requests of each client, a function
  MaxLost,         \* bound: datagrams lost
  MaxQueue,        \* bound: datagrams on their way to server and client when one more is sent
  None             \* nothing, nobody, an address at which nobody is

ASSUME UdpBoundsAssumption == MaxRequests \in [Clients -> Nat] /\ {MaxLost, MaxQueue, MAX_USER_COUNT} \subseteq Nat
ASSUME UdpNoneAssumption ==
  /\ None \notin Clients \cup Names \cup Passwords \cup Rooms \cup Cells \cup {Garbage}
  /\ Unknown \notin RequestId

SUCCESS == 0
NICK_NAME_IN_USE == 1
CHAT_ROOM_DOES_NOT_EXIST == 2
CHAT_ROOM_NAME_IN_USE == 3
USER_DOES_NOT_EXIST == 4
WRONG_PW == 5

VARIABLES
  serves,  \* the loop of main calls handle_clients
  stack,   \* in_address of handle_clients: the client it stands for, or None
  clears,  \* the compiler put ptr behind in_address, where recvfrom() writes 0
  reach,   \* the clients whose port number, made of a pointer, is the server's
  \* each client
  phase,   \* "prompt", "asking", "in" or "ended"
  nick,    \* the name it has given last
  asked,   \* its requests so far
  request, \* the last one: its id and what its fields say
  todo,    \* the datagrams of it that are still to be sent
  inbox,   \* the datagrams for it
  reading, \* the message it is reading: id, error code and fields to come
  \* the server
  queue,   \* the datagrams for it
  msg,     \* the struct it reads a message into
  want,    \* the fields of the message that are still to be read
  parts,   \* history: the requests they came from
  alive,   \* its socket is open
  users, rooms, heap,
  \* history
  lost,    \* datagrams lost
  mixed,   \* datagrams of two requests were read as one message
  overrun  \* a text that did not fit was read, and copied by strcpy()

netVars    == <<serves, stack, clears, reach, lost>>
clientVars == <<phase, nick, asked, request, todo, reading>>
listVars   == <<users, rooms, heap>>
readVars   == <<msg, want, parts, alive, mixed, overrun>>
vars == <<netVars, clientVars, inbox, queue, readVars, listVars>>

\* The lists of the server and what is done to them: module ChatServer.
S == INSTANCE ChatServer WITH
  Fds <- {0}, up <- TRUE, conn <- <<>>, open <- <<>>, out <- None, last <- <<>>, members <- <<>>,
  tainted <- FALSE

TextOrNone == Names \cup Passwords \cup Rooms \cup {Garbage, None}
Idle == [id |-> None, err |-> SUCCESS, want |-> <<>>]

TypeOK ==
  /\ phase \in [Clients -> {"prompt", "asking", "in", "ended"}]
  /\ nick \in [Clients -> Names \cup {None}]
  /\ \A c \in Clients : asked[c] \in 0 .. MaxRequests[c]
  /\ lost \in 0 .. MaxLost
  /\ \A c \in Clients : \A i \in DOMAIN inbox[c] :
       inbox[c][i].field \in Number \cup {"sender", "receiver", "chat_room_name", "data"}
  /\ \A i \in DOMAIN queue : queue[i].of \in Clients \X (Nat \ {0})
  /\ msg.id \in RequestId \cup {None} /\ \A f \in DOMAIN msg \ {"id"} : msg[f] \in TextOrNone
  /\ \A i \in DOMAIN users : /\ users[i].name \in TextOrNone \ {None}
                             /\ users[i].in_address \in Clients \cup {None}
  /\ \A x \in Cells : heap[x].next_member \in Cells \cup {None}

-------------------------------------------------------------------------------
(* The client: sending                                                     *)

Server == UNCHANGED <<netVars, inbox, queue, readVars, listVars>>

\* The text in a field of a request.
Says(id, field, n, pw, r, to) ==
  CASE field = "password" -> pw [] field = "chat_room_name" -> r
    [] field = "receiver" -> to [] field = "data" -> Garbage [] OTHER -> n

Datagrams(c, id, n, pw, r, to) ==
  [i \in 1 .. Len(SentRequest(id)) + 1 |->
     LET f == IF i = 1 THEN "id" ELSE SentRequest(id)[i - 1] IN
     [field |-> f, value |-> IF i = 1 THEN id ELSE Says(id, f, n, pw, r, to),
      of |-> <<c, asked[c] + 1>>]]

Starts(c, id, n, pw, r, to) ==
  /\ todo[c] = <<>> /\ asked[c] < MaxRequests[c] /\ Len(inbox[c]) <= MaxQueue
  /\ todo' = [todo EXCEPT ![c] = Datagrams(c, id, n, pw, r, to)]
  /\ asked' = [asked EXCEPT ![c] = @ + 1]
  /\ request' = [request EXCEPT ![c] = id]

\* user_status, username_check, register_user and Login.
ask(c, id) ==
  /\ phase[c] = "prompt"
  /\ \E n \in Names, pw \in Passwords :
       /\ Starts(c, id, n, pw, None, None)
       /\ nick' = [nick EXCEPT ![c] = n]
  /\ phase' = [phase EXCEPT ![c] = "asking"]
  /\ UNCHANGED reading /\ Server

\* What control_user_input can send: the loop is that of the TCP client (ChatClient).
control_user_input(c) ==
  /\ phase[c] = "in"
  /\ \E id \in ListId \cup RoomId \cup TextId, r \in Rooms, n \in Names \ {nick[c]} :
       Starts(c, id, nick[c], None, r, n)
  /\ UNCHANGED <<phase, nick, reading>> /\ Server

\* /quit
close_socket(c) ==
  /\ phase[c] = "in" /\ todo[c] = <<>>
  /\ phase' = [phase EXCEPT ![c] = "ended"]
  /\ UNCHANGED <<nick, asked, request, todo, reading>> /\ Server

\* connection_to_server makes the address of the port number in the form of a pointer to
\* its digits: whether it is the server's depends on where they are.
Reaches(c) == c \in reach

\* sendto(), field after field.
sendto(c) ==
  /\ todo[c] # <<>> /\ Len(queue) <= MaxQueue
  /\ todo' = [todo EXCEPT ![c] = Tail(@)]
  /\ queue' = IF Reaches(c) /\ alive THEN Append(queue, Head(todo[c])) ELSE queue
  /\ UNCHANGED <<netVars, phase, nick, asked, request, reading, inbox, readVars, listVars>>

-------------------------------------------------------------------------------
(* The client: reading                                                     *)

Admits(c, err) ==
  IF request[c] = "REGISTER_USER" THEN err = SUCCESS
  ELSE err \notin {USER_DOES_NOT_EXIST, WRONG_PW}

\* handle_registration and handle_login with what recvfrom_universal_india_message left
\* in newmsg, which was zeroed; handle_server_message prints, or ends the client if the
\* function returned 0.
Received(c, m, known) ==
  /\ phase' = [phase EXCEPT ![c] =
       CASE @ = "asking" -> (IF Admits(c, m.err) THEN "in" ELSE "prompt")
         [] @ = "in" /\ ~known -> "ended" [] OTHER -> @]
  /\ reading' = [reading EXCEPT ![c] = Idle]

\* The address of the data of a message is stored through ptr, which is 0.
Stores(field) == clears /\ field = "data"

Reads(c) ==
  /\ phase[c] \in {"asking", "in"} /\ todo[c] = <<>> /\ inbox[c] # <<>>
  /\ inbox' = [inbox EXCEPT ![c] = Tail(@)]
  /\ UNCHANGED <<netVars, nick, asked, request, todo, queue, readVars, listVars>>

\* recvfrom_universal_india_message: the id.
read_id(c) ==
  /\ Reads(c) /\ reading[c] = Idle
  /\ \E id \in ReadAsId(Head(inbox[c]), ResponseId \cup TextId) :
       IF id = Unknown THEN Received(c, Idle, FALSE)
       ELSE /\ reading' = [reading EXCEPT ![c] =
                             [id |-> id, err |-> SUCCESS, want |-> ReadAnswer(id)]]
            /\ UNCHANGED phase

\* A field after it.
read_field(c) ==
  LET d == Head(inbox[c])
      m == [reading[c] EXCEPT
              !.want = Tail(@),
              !.err = IF Head(reading[c].want) # "error_code" THEN @
                      ELSE IF d.field = "error_code" THEN d.value ELSE Unknown]
  IN  /\ Reads(c) /\ reading[c] # Idle
      /\ ~Stores(Head(reading[c].want))
      /\ \E more \in IF Head(reading[c].want) = "data_lenght" THEN ReadAsLength(d) ELSE {TRUE} :
           IF m.want = <<>> \/ ~more THEN Received(c, m, TRUE)
           ELSE reading' = [reading EXCEPT ![c] = m] /\ UNCHANGED phase

\* Data is stored where the cleared ptr points to.
read_data(c) ==
  /\ Reads(c) /\ reading[c] # Idle /\ Stores(Head(reading[c].want))
  /\ phase' = [phase EXCEPT ![c] = "ended"] /\ UNCHANGED reading

-------------------------------------------------------------------------------
(* The server: sending                                                     *)

\* What in_address holds when a message has been read.
InAddress == stack

\* The datagrams of an answer.  Data, the last field of what has some, is left out if it
\* is at an address that cannot be read.
Answer(id, err, empty, readable) ==
  LET fields == SentAnswer(id, empty)
      sent == IF readable THEN fields ELSE SubSeq(fields, 1, Len(fields) - 1)
  IN  <<[field |-> "id", value |-> id]>> \o
        [i \in DOMAIN sent |-> [field |-> sent[i],
                                value |-> IF sent[i] = "error_code" THEN err ELSE Garbage]]

SentTo(c, ds) ==
  inbox' = IF c = None THEN inbox ELSE [inbox EXCEPT ![c] = @ \o ds]

Reply(id, err) == SentTo(InAddress, Answer(ResponseTo(id), err, TRUE, TRUE))

-------------------------------------------------------------------------------
(* The server: handlers of the message in m                                *)

register_user(m) ==
  /\ m.id = "REGISTER_USER"
  /\ \/ /\ S!NameInUse(m.proposed_nickname)
        /\ Reply(m.id, NICK_NAME_IN_USE) /\ UNCHANGED users
     \/ /\ ~S!NameInUse(m.proposed_nickname)
        /\ users' = Append(users, [name |-> m.proposed_nickname, pw |-> m.password,
                                   login |-> 1, connfd |-> 0, in_address |-> InAddress])
        /\ Reply(m.id, SUCCESS)
  /\ UNCHANGED <<rooms, heap>>

login_user(m) ==
  /\ m.id = "LOGIN"
  /\ \/ /\ S!FirstWithin(m.sender) = {}
        /\ Reply(m.id, USER_DOES_NOT_EXIST) /\ UNCHANGED users
     \/ \E i \in S!FirstWithin(m.sender) :
          IF S!PasswordMatches(i, m.password)
          THEN /\ users' = [users EXCEPT ![i] =
                              [S!LoggedIn(i, 0) EXCEPT !.in_address = InAddress]]
               /\ Reply(m.id, SUCCESS)
          ELSE Reply(m.id, WRONG_PW) /\ UNCHANGED users
  /\ UNCHANGED <<rooms, heap>>

show_users(m) ==
  /\ m.id = "SHOW_USERS"
  /\ SentTo(InAddress, Answer(ResponseTo(m.id), IF users = <<>> THEN USER_DOES_NOT_EXIST ELSE SUCCESS,
                              users = <<>>, TRUE))
  /\ UNCHANGED listVars

show_chat_rooms(m) ==
  /\ m.id = "SHOW_CHAT_ROOMS"
  /\ SentTo(InAddress, Answer(ResponseTo(m.id), IF rooms = <<>> THEN CHAT_ROOM_DOES_NOT_EXIST ELSE SUCCESS,
                              rooms = <<>>, TRUE))
  /\ UNCHANGED listVars

create_chat_room(m) ==
  /\ m.id = "CREATE_CHAT_ROOM"
  /\ \/ /\ S!Listed(rooms, m.chat_room_name)
        /\ Reply(m.id, CHAT_ROOM_NAME_IN_USE) /\ UNCHANGED rooms
     \/ /\ ~S!Listed(rooms, m.chat_room_name)
        /\ rooms' = Append(rooms, [name |-> m.chat_room_name, member |-> None])
        /\ Reply(m.id, SUCCESS)
  /\ UNCHANGED <<users, heap>>

join_chatroom(m) ==
  /\ m.id = "JOIN"
  /\ \/ /\ S!FirstWithin(m.sender) = {}
        /\ Reply(m.id, USER_DOES_NOT_EXIST) /\ UNCHANGED <<rooms, heap>>
     \/ /\ S!FirstWithin(m.sender) # {} /\ ~S!Listed(rooms, m.chat_room_name)
        /\ Reply(m.id, CHAT_ROOM_DOES_NOT_EXIST) /\ UNCHANGED <<rooms, heap>>
     \/ \E i \in S!FirstWithin(m.sender), k \in S!First(rooms, m.chat_room_name) :
          /\ IF S!Found(rooms[k].member, m.sender) = {}
             THEN \E x \in S!Allocatable : S!AddMember(k, m.sender, i, x)
             ELSE UNCHANGED <<rooms, heap>>
          /\ Reply(m.id, SUCCESS)
  /\ UNCHANGED users

exit_chatroom(m) ==
  /\ m.id = "EXIT"
  /\ \/ /\ ~S!Listed(rooms, m.chat_room_name)
        /\ Reply(m.id, CHAT_ROOM_DOES_NOT_EXIST) /\ UNCHANGED heap
     \/ \E k \in S!First(rooms, m.chat_room_name) :
          LET h == rooms[k].member IN
          /\ Reply(m.id, SUCCESS)
          /\ \/ S!Found(h, m.sender) = {} /\ UNCHANGED heap
             \/ \E x \in S!Found(h, m.sender), p \in S!Chain(h) :
                  S!Previous(h, p, x) /\ S!RemoveMember(p, x)
  /\ UNCHANGED <<users, rooms>>

\* The result of the sendto() is not looked at.  A failure is sent back with
\* text_ptr_out, which is set by nothing but the lists.
forward_private_data(m) ==
  /\ m.id = "PRIVATE_DATA"
  /\ \/ \E i \in S!First(users, m.receiver) :
          SentTo(users[i].in_address, Answer(m.id, SUCCESS, FALSE, TRUE))
     \/ /\ ~S!Listed(users, m.receiver)
        /\ \E readable \in BOOLEAN :
             SentTo(InAddress, Answer(m.id, USER_DOES_NOT_EXIST, FALSE, readable))
  /\ UNCHANGED listVars

\* sendto() to no address fails.
Failed(i) == users[i].in_address = None

\* The datagrams ds, n times.
Repeated(ds, n) == [j \in 1 .. n * Len(ds) |-> ds[((j - 1) % Len(ds)) + 1]]

\* Every member gets a copy at the in_address of its user; who cannot be sent to is
\* marked as logged off.
forward_chat_room_data(m) ==
  /\ m.id = "CHAT_ROOM_DATA"
  /\ IF S!Listed(rooms, m.chat_room_name)
     THEN \E k \in S!First(rooms, m.chat_room_name) :
            LET to == {heap[x].ptr_to_user : x \in S!Receivers(rooms[k].member, m.sender)}
                Copies(c) == Cardinality({i \in to : users[i].in_address = c})
                text == Answer(m.id, SUCCESS, FALSE, TRUE)
            IN  /\ inbox' = [c \in Clients |-> inbox[c] \o Repeated(text, Copies(c))]
                /\ users' = [i \in DOMAIN users |->
                               IF i \in to /\ Failed(i)
                               THEN [users[i] EXCEPT !.login = 0] ELSE users[i]]
     ELSE UNCHANGED <<inbox, users>>
  /\ UNCHANGED <<rooms, heap>>

handle_clients(m) ==
  \/ register_user(m) \/ login_user(m) \/ show_users(m) \/ show_chat_rooms(m)
  \/ create_chat_room(m) \/ join_chatroom(m) \/ exit_chatroom(m)
  \/ forward_private_data(m) \/ forward_chat_room_data(m)

-------------------------------------------------------------------------------
(* The server: reading                                                     *)

Client == UNCHANGED <<netVars, clientVars>>

\* The statement in the loop of main is a call.
Called == serves

Receives == Called /\ alive /\ queue # <<>> /\ queue' = Tail(queue) /\ Client

Origin == {Head(queue).of}

\* The message is complete, or goes on with the fields w.
Goes(m, w) ==
  /\ msg' = m /\ want' = w
  /\ IF w = <<>> THEN handle_clients(m) /\ parts' = {}
     ELSE parts' = parts \cup Origin /\ UNCHANGED <<inbox, listVars>>
  /\ mixed' = (mixed \/ Cardinality(parts \cup Origin) > 1)

\* recvfrom_universal_india_message: the id.  With one it does not know it returns 0,
\* and handle_clients closes the one socket there is.
recv_id ==
  /\ Receives /\ want = <<>>
  /\ \E id \in ReadAsId(Head(queue), RequestId) :
       IF id \in RequestId
       THEN Goes([msg EXCEPT !.id = id], ReadRequest(id)) /\ UNCHANGED alive
       ELSE alive' = FALSE /\ UNCHANGED <<msg, want, parts, mixed, inbox, listVars>>
  /\ UNCHANGED overrun

\* The text of a datagram as a field of the message: without its end if it does not fit.
Text(d, fits) == IF fits THEN ReadAsText(d) ELSE Garbage

\* A field after it: what there is, whatever it was sent as.  With a text that does not
\* fit strcpy() overruns nn and the struct user, which may end the program.
recv_field ==
  LET f == Head(want)
      d == Head(queue) IN
  /\ Receives /\ want # <<>> /\ ~Stores(f)
  /\ \/ /\ f \in DOMAIN msg
        /\ \E fits \in TextFits(d, f) :
             /\ Goes([msg EXCEPT ![f] = Text(d, fits)], Tail(want))
             /\ overrun' = (overrun \/ ~fits)
             /\ alive' \in {TRUE, fits}
     \/ /\ f \notin DOMAIN msg
        /\ \E more \in IF f = "data_lenght" THEN ReadAsLength(d) ELSE {TRUE} :
             Goes(msg, IF more THEN Tail(want) ELSE <<>>)
        /\ UNCHANGED <<alive, overrun>>

\* The data, stored where the cleared ptr points to, ends the program.
recv_data ==
  /\ Receives /\ want # <<>> /\ Stores(Head(want))
  /\ alive' = FALSE
  /\ UNCHANGED <<msg, want, parts, mixed, overrun, inbox, listVars>>

\* The network loses a datagram.
lose ==
  /\ lost < MaxLost /\ lost' = lost + 1
  /\ \/ queue # <<>> /\ queue' = Tail(queue) /\ UNCHANGED inbox
     \/ \E c \in Clients :
          inbox[c] # <<>> /\ inbox' = [inbox EXCEPT ![c] = Tail(@)] /\ UNCHANGED queue
  /\ UNCHANGED <<serves, stack, clears, reach, clientVars, readVars, listVars>>

-------------------------------------------------------------------------------
Init ==
  /\ serves \in BOOLEAN /\ clears \in BOOLEAN /\ stack \in Clients \cup {None} /\ reach \in SUBSET Clients
  /\ phase = [c \in Clients |-> "prompt"] /\ nick = [c \in Clients |-> None]
  /\ asked = [c \in Clients |-> 0] /\ request = [c \in Clients |-> None]
  /\ todo = [c \in Clients |-> <<>>] /\ inbox = todo
  /\ reading = [c \in Clients |-> Idle]
  /\ queue = <<>> /\ want = <<>> /\ parts = {} /\ alive = TRUE
  /\ msg = [f \in {"id", "proposed_nickname", "password", "sender", "chat_room_name",
                   "receiver"} |-> None]
  /\ users = <<>> /\ rooms = <<>>
  /\ heap = [x \in Cells |-> [state |-> "unused", name |-> None,
                              ptr_to_user |-> 0, next_member |-> None]]
  /\ lost = 0 /\ mixed = FALSE /\ overrun = FALSE

client(c) ==
  \/ ask(c, "REGISTER_USER") \/ ask(c, "LOGIN") \/ control_user_input(c) \/ close_socket(c)
  \/ sendto(c) \/ read_id(c) \/ read_field(c) \/ read_data(c)

Next == recv_id \/ recv_field \/ recv_data \/ lose \/ \E c \in Clients : client(c)

Spec == Init /\ [][Next]_vars

-------------------------------------------------------------------------------
(* Properties                                                              *)

\* Were it called, the loop that serves everybody would be ended only by datagrams that
\* were lost, by two clients whose datagrams came between each other, or by a text, if ptr
\* is cleared while it is read: an id the loop does not know, or a field longer than what
\* it is read into, is never what a client on its own sends (handle_clients:877-882).
EndCause == ~alive => lost > 0 \/ mixed \/ (clears /\ msg.id \in TextId)

\* Messages put together from datagrams of two clients do not damage the lists as long as
\* each text fits where it is read: names stay apart and a member belongs to the user it
\* is named after (register_user:76-140, join_chatroom).
ListsSound == ~overrun => TypeOK /\ S!UniqueNames /\ S!OwnerConsistent

===============================================================================
