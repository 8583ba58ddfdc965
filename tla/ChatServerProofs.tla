--------------------------- MODULE ChatServerProofs ---------------------------
(* Proofs about ChatServer, for every value of its constants.              *)
EXTENDS ChatServer, SequenceTheorems, TLAPS

-------------------------------------------------------------------------------
(* Operators                                                               *)

\* A function on the positions of a list whose values are of the list's type is a
\* list of the same length: what [users EXCEPT ![i] = ...] yields.
LEMMA SameDomainSeq ==
  ASSUME NEW S, NEW s \in Seq(S), NEW f \in [DOMAIN s -> S]
  PROVE  f \in Seq(S) /\ Len(f) = Len(s)
<1>1. DOMAIN s = 1 .. Len(s) /\ Len(s) \in Nat
  OBVIOUS
<1>2. f \in [1 .. Len(s) -> S]
  BY <1>1
<1> QED
  BY <1>1, <1>2, SeqDef, LenProperties

\* First yields positions of the list, at most one.
LEMMA FirstUnique ==
  ASSUME NEW S, NEW list \in Seq(S), NEW n
  PROVE  /\ First(list, n) \subseteq DOMAIN list
         /\ \A i, j \in First(list, n) : i = j
         /\ \A i \in First(list, n) : list[i].name = n
<1> QED
  BY DEF First

\* The client at a descriptor is a client or None.
LEMMA PeerType ==
  ASSUME NEW f
  PROVE  Peer(f) \in Clients \cup {None}
<1> QED
  BY DEF Peer

\* A walk visits chunks, of which the first is the one it starts at.
LEMMA ChainCells ==
  ASSUME NEW h
  PROVE  /\ Chain(h) \subseteq Cells
         /\ h \in Cells => h \in Chain(h)
         /\ h = None => Chain(h) = {}
<1>1. Chain(h) \subseteq Cells
  BY DEF Chain
<1>2. h \in Cells => h \in Chain(h)
  BY NoneAssumption DEF Chain
<1>3. h = None => Chain(h) = {}
  <2> SUFFICES ASSUME h = None, NEW x \in Chain(h) PROVE FALSE
    OBVIOUS
  <2>1. {} \in SUBSET Cells /\ h \in {} \cup {None} /\ Closed({})
    BY DEF Closed
  <2>2. x \in {}
    BY <2>1 DEF Chain
  <2> QED
    BY <2>2
<1> QED
  BY <1>1, <1>2, <1>3

-------------------------------------------------------------------------------
(* Type correctness                                                        *)

\* What Answer assigns is an output, and the server goes on or not.
LEMMA AnswerType ==
  ASSUME NEW id \in RequestId, NEW c \in Clients, NEW r \in Rooms \cup {None}, NEW err \in Int,
         NEW sent \in SUBSET Forward, NEW visited, Answer(id, c, r, err, sent, visited)
  PROVE  out' \in Output /\ up' \in BOOLEAN
<1>1. out' \in Output
  BY DEF Answer, Output
<1>2. up' \in BOOLEAN
  BY DEF Answer
<1> QED
  BY <1>1, <1>2

\* A thread has a descriptor number from accept() to its last close().
ConnOK ==
  \A c \in Clients : conn[c] # None <=> Reads(c) \/ phase[c] = "closing"

TypeInv == TypeOK /\ ConnOK

\* The initial state is of the right type.
LEMMA InitType == Init => TypeInv
<1> SUFFICES ASSUME Init PROVE TypeInv
  OBVIOUS
<1>1. users \in Seq(User) /\ rooms \in Seq(Room)
  BY EmptySeq DEF Init
<1>2. out \in Output
  BY DEF Init, Output, SUCCESS
<1>3. heap \in [Cells -> Participant]
  BY DEF Init, Participant
<1>4. ConnOK
  BY DEF Init, ConnOK, Reads
<1> QED
  BY <1>1, <1>2, <1>3, <1>4 DEF Init, TypeOK, Phase, TypeInv

\* Registering a client keeps the types: the new user has the connection of a
\* connected client (register_user).
LEMMA RegisterType ==
  ASSUME TypeInv, NEW c \in Clients, NEW n \in Names, NEW pw \in Passwords,
         register_user(c, n, pw)
  PROVE  TypeOK'
<1>1. out' \in Output /\ up' \in BOOLEAN
  BY AnswerType DEF register_user, RequestId, SUCCESS, NICK_NAME_IN_USE
<1>2. users' \in Seq(User)
  <2>1. conn[c] \in Fds
    BY NoneAssumption DEF register_user, Entering, TypeInv, TypeOK, ConnOK, Reads
  <2>2. [name |-> n, pw |-> pw, login |-> 1, connfd |-> conn[c]] \in User
    BY <2>1 DEF User
  <2>3. users \in Seq(User)
    BY DEF TypeInv, TypeOK
  <2>4. users' = users \/ users' = Append(users, [name |-> n, pw |-> pw, login |-> 1,
                                                  connfd |-> conn[c]])
    BY DEF register_user
  <2> QED BY <2>2, <2>3, <2>4, AppendProperties
<1>3. /\ nick' \in [Clients -> Names \cup {None}]
      /\ last' \in [Names -> Clients \cup {None}]
  BY DEF register_user, Enter, TypeInv, TypeOK
<1> QED
  BY <1>1, <1>2, <1>3 DEF register_user, TypeInv, TypeOK

\* A login keeps the types (login_user).
LEMMA LoginType ==
  ASSUME TypeInv, NEW c \in Clients, NEW n \in Names, NEW pw \in Passwords,
         login_user(c, n, pw)
  PROVE  TypeOK'
<1>1. out' \in Output /\ up' \in BOOLEAN
  BY AnswerType DEF login_user, RequestId, SUCCESS, USER_DOES_NOT_EXIST, WRONG_PW
<1>2. users' \in Seq(User)
  <2>1. conn[c] \in Fds
    BY NoneAssumption DEF login_user, Entering, TypeInv, TypeOK, ConnOK, Reads
  <2>2. CASE users' = users
    BY <2>2 DEF TypeInv, TypeOK
  <2>3. ASSUME NEW i \in FirstWithin(n), users' = [users EXCEPT ![i] = LoggedIn(i, conn[c])]
        PROVE  users' \in Seq(User)
    <3>1. i \in DOMAIN users
      BY FirstUnique DEF FirstWithin, TypeInv, TypeOK
    <3>2. users[i] \in User
      BY <3>1 DEF TypeInv, TypeOK
    <3>3. LoggedIn(i, conn[c]) \in User
      BY <2>1, <3>2 DEF LoggedIn, User
    <3> QED
      BY <2>3, <3>1, <3>3, SameDomainSeq DEF TypeInv, TypeOK
  <2> QED
    BY <2>2, <2>3 DEF login_user
<1>3. /\ nick' \in [Clients -> Names \cup {None}]
      /\ last' \in [Names -> Clients \cup {None}]
  BY DEF login_user, Enter, TypeInv, TypeOK
<1> QED
  BY <1>1, <1>2, <1>3 DEF login_user, TypeInv, TypeOK

\* A new room has the type of a room (create_chat_room).
LEMMA CreateType ==
  ASSUME TypeInv, NEW c \in Clients, NEW n \in Names, NEW r \in Rooms, create_chat_room(c, n, r)
  PROVE  TypeOK'
<1>1. out' \in Output /\ up' \in BOOLEAN
  BY AnswerType DEF create_chat_room, RequestId, SUCCESS, CHAT_ROOM_NAME_IN_USE
<1>2. rooms' \in Seq(Room)
  <2>1. [name |-> r, member |-> None] \in Room
    BY DEF Room
  <2> QED
    <3>1. CASE UNCHANGED rooms
      BY <3>1 DEF TypeInv, TypeOK
    <3>2. CASE rooms' = Append(rooms, [name |-> r, member |-> None])
      BY <2>1, <3>2, AppendProperties DEF TypeInv, TypeOK
    <3> QED
      BY <3>1, <3>2 DEF create_chat_room
<1> QED
  BY <1>1, <1>2
  DEF create_chat_room, serverVars, clientVars, historyVars, TypeInv, TypeOK

\* Linking a new participant keeps the types of rooms and chunks (step 4 of
\* join_chatroom).
LEMMA AddMemberType ==
  ASSUME TypeInv, NEW k \in DOMAIN rooms, NEW n \in Names, NEW i \in DOMAIN users,
         NEW x \in Cells, AddMember(k, n, i, x)
  PROVE  rooms' \in Seq(Room) /\ heap' \in [Cells -> Participant]
<1>1. NewParticipant(n, i) \in Participant
  BY DEF NewParticipant, Participant, TypeInv, TypeOK
<1>2. CASE /\ rooms' = [rooms EXCEPT ![k].member = x]
           /\ heap' = [heap EXCEPT ![x] = NewParticipant(n, i)]
  <2>1. [rooms[k] EXCEPT !.member = x] \in Room
    <3>1. rooms[k] \in Room
      BY DEF TypeInv, TypeOK
    <3> QED
      BY <3>1 DEF Room
  <2>2. rooms' \in Seq(Room)
    BY <1>2, <2>1, SameDomainSeq DEF TypeInv, TypeOK
  <2> QED
    BY <1>1, <1>2, <2>2 DEF TypeInv, TypeOK
<1>3. ASSUME NEW t \in Chain(rooms[k].member), UNCHANGED rooms,
             heap' = [heap EXCEPT ![t].next_member = x, ![x] = NewParticipant(n, i)]
      PROVE  rooms' \in Seq(Room) /\ heap' \in [Cells -> Participant]
  <2>1. t \in Cells
    BY ChainCells
  <2>2. [heap[t] EXCEPT !.next_member = x] \in Participant
    <3>1. heap[t] \in Participant
      BY <2>1 DEF TypeInv, TypeOK
    <3> QED
      BY <3>1 DEF Participant
  <2> QED
    BY <1>1, <1>3, <2>1, <2>2 DEF TypeInv, TypeOK
<1> QED
  BY <1>2, <1>3 DEF AddMember

\* Joining a room keeps the types (join_chatroom).
LEMMA JoinType ==
  ASSUME TypeInv, NEW c \in Clients, NEW n \in Names, NEW r \in Rooms, join_chatroom(c, n, r)
  PROVE  TypeOK'
<1>1. out' \in Output /\ up' \in BOOLEAN
  BY AnswerType
  DEF join_chatroom, RequestId, SUCCESS, USER_DOES_NOT_EXIST, CHAT_ROOM_DOES_NOT_EXIST,
      OUT_OF_MEMORY
<1>2. n \in Names
  BY DEF join_chatroom, Chatting, TypeInv, TypeOK
<1>3. rooms' \in Seq(Room) /\ heap' \in [Cells -> Participant]
  <2>1. CASE UNCHANGED <<rooms, heap>>
    BY <2>1 DEF TypeInv, TypeOK
  <2>2. ASSUME NEW i \in FirstWithin(n), NEW k \in First(rooms, r), NEW x \in Allocatable,
               AddMember(k, n, i, x)
        PROVE  rooms' \in Seq(Room) /\ heap' \in [Cells -> Participant]
    <3>1. i \in DOMAIN users /\ k \in DOMAIN rooms /\ x \in Cells
      BY FirstUnique DEF FirstWithin, Allocatable, TypeInv, TypeOK
    <3> QED
      BY <1>2, <2>2, <3>1, AddMemberType
  <2> QED
    BY <2>1, <2>2 DEF join_chatroom
<1>4. members' \in [Rooms -> SUBSET Names]
  BY <1>2 DEF join_chatroom, TypeInv, TypeOK
<1> QED
  BY <1>1, <1>3, <1>4 DEF join_chatroom, clientVars, TypeInv, TypeOK

\* What RemoveMember does to each field of each chunk.
LEMMA RemoveMemberFields ==
  ASSUME TypeInv, NEW p \in Cells, NEW x \in Cells, RemoveMember(p, x)
  PROVE  /\ heap' \in [Cells -> Participant]
         /\ \A y \in Cells :
              /\ heap'[y].state = IF y = x THEN "freed" ELSE heap[y].state
              /\ heap'[y].name = IF y = x THEN None ELSE heap[y].name
              /\ heap'[y].ptr_to_user = heap[y].ptr_to_user
              /\ heap'[y].next_member =
                   IF y = p THEN heap[x].next_member ELSE heap[y].next_member
<1> DEFINE g == [heap EXCEPT ![p].next_member = heap[x].next_member]
           f == [g[x] EXCEPT !.state = "freed", !.name = None]
<1>1. heap \in [Cells -> Participant]
  BY DEF TypeInv, TypeOK
<1>2. heap' = [g EXCEPT ![x] = f]
  BY <1>1 DEF RemoveMember
<1>3. [heap[p] EXCEPT !.next_member = heap[x].next_member] \in Participant
  <2>1. heap[p] \in Participant /\ heap[x] \in Participant
    BY <1>1
  <2> QED
    BY <2>1 DEF Participant
<1>4. g \in [Cells -> Participant]
  BY <1>1, <1>3
<1>5. \A y \in Cells :
        /\ g[y].state = heap[y].state /\ g[y].name = heap[y].name
        /\ g[y].ptr_to_user = heap[y].ptr_to_user
        /\ g[y].next_member = IF y = p THEN heap[x].next_member ELSE heap[y].next_member
  <2>1. \A y \in Cells : heap[y] \in Participant
    BY <1>1
  <2> QED
    BY <1>1, <2>1 DEF Participant
<1> HIDE DEF g
<1>6. g[x] \in Participant
  BY <1>4
<1>7. /\ f \in Participant
      /\ f.state = "freed" /\ f.name = None
      /\ f.ptr_to_user = g[x].ptr_to_user /\ f.next_member = g[x].next_member
  BY <1>6 DEF Participant
<1> HIDE DEF f
<1> QED
  BY <1>2, <1>4, <1>5, <1>7

\* Leaving a room keeps the types (exit_chatroom).
LEMMA ExitType ==
  ASSUME TypeInv, NEW c \in Clients, NEW n \in Names, NEW r \in Rooms, exit_chatroom(c, n, r)
  PROVE  TypeOK'
<1>1. out' \in Output /\ up' \in BOOLEAN
  BY AnswerType DEF exit_chatroom, RequestId, SUCCESS, CHAT_ROOM_DOES_NOT_EXIST
<1>2. heap' \in [Cells -> Participant]
  <2>1. CASE UNCHANGED heap
    BY <2>1 DEF TypeInv, TypeOK
  <2>2. ASSUME NEW h, NEW x \in Chain(h), NEW p \in Chain(h), RemoveMember(p, x)
        PROVE  heap' \in [Cells -> Participant]
    <3>1. p \in Cells /\ x \in Cells
      BY ChainCells
    <3> QED
      BY <2>2, <3>1, RemoveMemberFields
  <2> QED
    BY <2>1, <2>2 DEF exit_chatroom, Found
<1>3. members' \in [Rooms -> SUBSET Names] /\ tainted' \in BOOLEAN
  BY DEF exit_chatroom, TypeInv, TypeOK
<1> QED
  BY <1>1, <1>2, <1>3 DEF exit_chatroom, clientVars, TypeInv, TypeOK

\* A message to a room keeps the types: what it logs off are users
\* (forward_chat_room_data).
LEMMA ForwardRoomType ==
  ASSUME TypeInv, NEW c \in Clients, NEW n \in Names, NEW r \in Rooms, forward_chat_room_data(c, n, r)
  PROVE  TypeOK'
<1>1. \A x \in Cells : Copy(x) \in Forward
  BY PeerType DEF Copy, Forward, TypeInv, TypeOK, Participant
<1>2. \A h : {Copy(x) : x \in Receivers(h, n)} \in SUBSET Forward
  BY <1>1, ChainCells DEF Receivers
<1>3. out' \in Output /\ up' \in BOOLEAN
  <2>1. CASE Answer("CHAT_ROOM_DATA", c, r, CHAT_ROOM_DOES_NOT_EXIST, {}, {})
    BY <2>1, AnswerType DEF RequestId, CHAT_ROOM_DOES_NOT_EXIST
  <2>2. ASSUME NEW h, Answer("CHAT_ROOM_DATA", c, r, SUCCESS,
                             {Copy(x) : x \in Receivers(h, n)}, Chain(h))
        PROVE  out' \in Output /\ up' \in BOOLEAN
    BY <1>2, <2>2, AnswerType DEF RequestId, SUCCESS
  <2> QED
    BY <2>1, <2>2 DEF forward_chat_room_data
<1>4. users' \in Seq(User)
  <2>1. CASE UNCHANGED users
    BY <2>1 DEF TypeInv, TypeOK
  <2>2. ASSUME NEW U, LoggedOff(U)
        PROVE  users' \in Seq(User)
    <3>1. users' \in [DOMAIN users -> User]
      <4> SUFFICES ASSUME NEW i \in DOMAIN users
                   PROVE  users[i] \in User /\ [users[i] EXCEPT !.login = 0] \in User
        BY <2>2 DEF LoggedOff
      <4>1. users[i] \in User
        BY DEF TypeInv, TypeOK
      <4> QED
        BY <4>1 DEF User
    <3> QED
      BY <3>1, SameDomainSeq DEF TypeInv, TypeOK
  <2> QED
    BY <2>1, <2>2 DEF forward_chat_room_data
<1> QED
  BY <1>3, <1>4 DEF forward_chat_room_data, clientVars, historyVars, TypeInv, TypeOK

\* A private message keeps the types (forward_private_data).
LEMMA ForwardPrivateType ==
  ASSUME TypeInv, NEW c \in Clients, NEW n \in Names, NEW rn \in Names, forward_private_data(c, n, rn)
  PROVE  TypeOK'
<1>1. \A f : {[to |-> Peer(f), name |-> rn, cell |-> None]} \in SUBSET Forward
  BY PeerType DEF Forward
<1>2. out' \in Output /\ up' \in BOOLEAN
  <2>1. CASE Answer("PRIVATE_DATA", c, None, USER_DOES_NOT_EXIST, {}, {})
    BY <2>1, AnswerType DEF RequestId, USER_DOES_NOT_EXIST
  <2>2. ASSUME NEW f, Answer("PRIVATE_DATA", c, None, SUCCESS,
                             {[to |-> Peer(f), name |-> rn, cell |-> None]}, {})
        PROVE  out' \in Output /\ up' \in BOOLEAN
    BY <1>1, <2>2, AnswerType DEF RequestId, SUCCESS
  <2> QED
    BY <2>1, <2>2 DEF forward_private_data
<1> QED
  BY <1>2 DEF forward_private_data, serverVars, clientVars, historyVars, TypeInv, TypeOK

\* The steps of a connection: accept() in main, the end of the client, the close() of
\* handle_clients and that of start_routine.
Event(c) == accept(c) \/ close_socket(c) \/ hangup(c) \/ end_thread(c)

\* Connections that begin or end keep the types.
LEMMA ConnectionType ==
  ASSUME TypeInv, NEW c \in Clients, Event(c)
  PROVE  TypeOK' /\ ConnOK'
<1>1. CASE accept(c)
  <2>1. CASE UNCHANGED <<conn, open, phase>>
    BY <1>1, <2>1 DEF accept, serverVars, historyVars, ConnOK, Reads, TypeInv, TypeOK
  <2>2. ASSUME NEW f \in Free, open' = [open EXCEPT ![f] = c], conn' = [conn EXCEPT ![c] = f],
                phase' = [phase EXCEPT ![c] = "connected"], UNCHANGED up
         PROVE  TypeOK' /\ ConnOK'
    <3>1. f \in Fds /\ f # None
      BY NoneAssumption DEF Free
    <3>2. /\ open' \in [Fds -> Clients \cup {None}]
          /\ conn' \in [Clients -> Fds \cup {None}]
          /\ phase' \in [Clients -> Phase]
      BY <2>2, <3>1 DEF TypeInv, TypeOK, Phase
    <3>3. TypeOK'
      BY <1>1, <2>2, <3>2 DEF accept, serverVars, historyVars, TypeInv, TypeOK
    <3>4. ConnOK'
      BY <2>2, <3>1 DEF ConnOK, Reads, TypeInv, TypeOK
    <3> QED BY <3>3, <3>4
  <2> QED
    BY <1>1, <2>1, <2>2 DEF accept
<1>2. CASE close_socket(c)
  <2>1. TypeOK'
    BY <1>2 DEF close_socket, serverVars, historyVars, Phase, TypeInv, TypeOK
  <2>2. ConnOK'
    BY <1>2, NoneAssumption DEF close_socket, ConnOK, Reads, TypeInv, TypeOK
  <2> QED
    BY <2>1, <2>2
<1>3. CASE hangup(c)
  <2>1. TypeOK'
    BY <1>3 DEF hangup, Close, serverVars, historyVars, Phase, TypeInv, TypeOK
  <2>2. ConnOK'
    BY <1>3, NoneAssumption DEF hangup, ConnOK, Reads, TypeInv, TypeOK
  <2> QED
    BY <2>1, <2>2
<1>4. CASE end_thread(c)
  <2>1. TypeOK'
    BY <1>4 DEF end_thread, Close, serverVars, historyVars, Phase, TypeInv, TypeOK
  <2>2. ConnOK'
    BY <1>4, NoneAssumption DEF end_thread, ConnOK, Reads, TypeInv, TypeOK
  <2> QED
    BY <2>1, <2>2
<1> QED
  BY <1>1, <1>2, <1>3, <1>4 DEF Event

\* The requests leave the connections alone.
Request(c) ==
  \/ \E n \in Names, pw \in Passwords : register_user(c, n, pw) \/ login_user(c, n, pw)
  \/ \E n, rn \in Names : forward_private_data(c, n, rn)
  \/ \E n \in Names, r \in Rooms : \/ create_chat_room(c, n, r)
                                   \/ join_chatroom(c, n, r)
                                   \/ exit_chatroom(c, n, r)
                                   \/ forward_chat_room_data(c, n, r)

\* No request opens or closes a connection (the cases of the switch in handle_clients).
LEMMA RequestKeepsConnections ==
  ASSUME NEW c \in Clients, Request(c)
  PROVE  UNCHANGED <<phase, conn, open>>
<1> QED
  BY DEF Request, register_user, login_user, forward_private_data, create_chat_room,
         join_chatroom, exit_chatroom, forward_chat_room_data, serverVars, clientVars

\* Whatever is requested, the types are kept (the switch in handle_clients).
LEMMA RequestType ==
  ASSUME TypeInv, NEW c \in Clients, Request(c)
  PROVE  TypeOK'
<1> QED
  BY RegisterType, LoginType, CreateType, JoinType, ExitType, ForwardRoomType,
     ForwardPrivateType DEF Request

\* The steps of Next, sorted.
LEMMA NextCases ==
  ASSUME Next
  PROVE  \E c \in Clients : Request(c) \/ Event(c)
<1> QED
  BY DEF Next, Request, Event

\* Every step of the server keeps the types and the connections distinct.
LEMMA StepType == TypeInv /\ [Next]_vars => TypeInv'
<1> SUFFICES ASSUME TypeInv, [Next]_vars PROVE TypeInv'
  OBVIOUS
<1>1. CASE UNCHANGED vars
  BY <1>1 DEF vars, serverVars, clientVars, historyVars, TypeInv, TypeOK, ConnOK, Reads
<1>2. ASSUME NEW c \in Clients, Request(c) PROVE TypeInv'
  <2>1. TypeOK'
    BY <1>2, RequestType
  <2>2. ConnOK'
    BY <1>2, RequestKeepsConnections DEF TypeInv, ConnOK, Reads
  <2> QED
    BY <2>1, <2>2 DEF TypeInv
<1>3. ASSUME NEW c \in Clients, Event(c) PROVE TypeInv'
  BY <1>3, ConnectionType DEF TypeInv
<1> QED
  BY <1>1, <1>2, <1>3, NextCases

\* Every variable keeps its type, and the descriptors of the running threads stay
\* distinct, in every state the server reaches.
THEOREM TypeCorrect == Spec => []TypeOK
<1>1. TypeInv => TypeOK
  BY DEF TypeInv
<1> QED
  BY InitType, StepType, <1>1, PTL DEF Spec

\* The same with the strengthening, for the proofs below.
LEMMA TypeInvariant == Spec => []TypeInv
<1> QED
  BY InitType, StepType, PTL DEF Spec

-------------------------------------------------------------------------------
(* What a step does to each list                                           *)

\* The record that register_user appends.
NewUser(c, n, pw) == [name |-> n, pw |-> pw, login |-> 1, connfd |-> conn[c]]

\* The user that forward_chat_room_data leaves in the list for users[i].
Reset(i, U) == IF i \in U THEN [users[i] EXCEPT !.login = 0] ELSE users[i]

\* A write() to this descriptor may fail: it is closed, or its peer has gone.
MayFail(f) == Peer(f) = None \/ \E d \in Clients : Peer(f) = d /\ phase[d] = "quit"

\* A step leaves the users and who entered last alone, registers somebody under a
\* new name, logs somebody in, or resets the login of users it could not write to.
UsersStep ==
  \/ UNCHANGED <<users, last>>
  \/ /\ UNCHANGED <<phase, conn, open>>
     /\ \E c \in Clients, n \in Names, pw \in Passwords :
          /\ Reads(c)
          /\ ~Listed(users, n)
          /\ users' = Append(users, NewUser(c, n, pw))
          /\ last' = [last EXCEPT ![n] = c]
  \/ /\ UNCHANGED <<phase, conn, open>>
     /\ \E c \in Clients, n \in Names : \E i \in First(users, n) :
          /\ Reads(c)
          /\ users' = [users EXCEPT ![i] = LoggedIn(i, conn[c])]
          /\ last' = [last EXCEPT ![n] = c]
  \/ /\ UNCHANGED <<phase, conn, open, last>>
     /\ \E U : /\ \A i \in U : MayFail(users[i].connfd)
               /\ users' = [i \in DOMAIN users |-> Reset(i, U)]

\* A request changes the list of users in one of four ways: not at all, by a user at
\* its end, by a login, or by logging users off.
LEMMA UsersSteps ==
  ASSUME Next
  PROVE  UsersStep
<1>1. PICK c \in Clients : Request(c) \/ Event(c)
  BY NextCases
<1>2. CASE Event(c)
  BY <1>2 DEF Event, accept, close_socket, hangup, end_thread, serverVars, historyVars, UsersStep
<1>3. ASSUME NEW n \in Names, NEW pw \in Passwords, register_user(c, n, pw)
      PROVE  UsersStep
  BY <1>3 DEF register_user, Entering, NameInUse, Enter, NewUser, UsersStep
<1>4. ASSUME NEW n \in Names, NEW pw \in Passwords, login_user(c, n, pw)
      PROVE  UsersStep
  BY <1>4 DEF login_user, Entering, FirstWithin, Enter, UsersStep
<1>5. ASSUME NEW n \in Names, NEW r \in Rooms, forward_chat_room_data(c, n, r)
      PROVE  UsersStep
  <2>1. CASE UNCHANGED users
    BY <1>5, <2>1 DEF forward_chat_room_data, historyVars, UsersStep
  <2>2. ASSUME NEW S, NEW failed \in SUBSET Gone(S), LoggedOff(Cut(S) \cup failed)
        PROVE  UsersStep
    <3>1. \A i \in Cut(S) \cup failed : MayFail(users[i].connfd)
      BY DEF Cut, Gone, MayFail
    <3>2. users' = [i \in DOMAIN users |-> Reset(i, Cut(S) \cup failed)]
      BY <2>2 DEF LoggedOff, Reset
    <3>3. UNCHANGED <<phase, conn, open, last>>
      BY <1>5 DEF forward_chat_room_data, clientVars, historyVars
    <3> QED
      BY <3>1, <3>2, <3>3 DEF UsersStep
  <2> QED
    BY <1>5, <2>1, <2>2 DEF forward_chat_room_data
<1>6. CASE \/ \E n, rn \in Names : forward_private_data(c, n, rn)
           \/ \E n \in Names, r \in Rooms : \/ create_chat_room(c, n, r)
                                            \/ join_chatroom(c, n, r)
                                            \/ exit_chatroom(c, n, r)
  BY <1>6 DEF forward_private_data, create_chat_room, join_chatroom, exit_chatroom,
              serverVars, historyVars, UsersStep
<1> QED
  BY <1>1, <1>2, <1>3, <1>4, <1>5, <1>6 DEF Request

\* A step leaves the chunks alone, adds a participant named after the user found, or
\* takes one out that was in use.
HeapStep ==
  \/ UNCHANGED heap
  \/ \E k \in DOMAIN rooms, n \in Names, i \in DOMAIN users, x \in Allocatable :
       users[i].name = n /\ AddMember(k, n, i, x)
  \/ \E n \in Names, x \in Cells, p \in Cells :
       heap[x].name = n /\ (p = x \/ heap[p].next_member = x) /\ RemoveMember(p, x)

\* A step changes the chunks in one of three ways: not at all, by a participant linked
\* behind the last one or into an empty room, or by passing over one and freeing it.
LEMMA HeapSteps ==
  ASSUME TypeInv, Next
  PROVE  HeapStep
<1>1. PICK c \in Clients : Request(c) \/ Event(c)
  BY NextCases
<1>2. CASE UNCHANGED heap
  BY <1>2 DEF HeapStep
<1>3. ASSUME NEW n \in Names, NEW r \in Rooms, join_chatroom(c, n, r), heap' # heap
      PROVE  HeapStep
  <2>1. n \in Names
    BY <1>3 DEF join_chatroom, Chatting, TypeInv, TypeOK
  <2>2. PICK i \in FirstWithin(n), k \in First(rooms, r), x \in Allocatable :
          AddMember(k, n, i, x)
    BY <1>3 DEF join_chatroom
  <2>3. i \in DOMAIN users /\ users[i].name = n /\ k \in DOMAIN rooms
    BY DEF FirstWithin, First
  <2> QED
    BY <2>1, <2>2, <2>3 DEF HeapStep
<1>4. ASSUME NEW n \in Names, NEW r \in Rooms, exit_chatroom(c, n, r), heap' # heap
      PROVE  HeapStep
  <2>1. n \in Names
    BY <1>4 DEF exit_chatroom, Chatting, TypeInv, TypeOK
  <2>2. PICK k \in First(rooms, r) :
          \E x \in Found(rooms[k].member, n), p \in Chain(rooms[k].member) :
            Previous(rooms[k].member, p, x) /\ RemoveMember(p, x)
    BY <1>4 DEF exit_chatroom
  <2>3. PICK x \in Found(rooms[k].member, n), p \in Chain(rooms[k].member) :
          Previous(rooms[k].member, p, x) /\ RemoveMember(p, x)
    BY <2>2
  <2>4. /\ x \in Cells /\ p \in Cells /\ heap[x].name = n
        /\ p = x \/ heap[p].next_member = x
    BY <2>3, ChainCells DEF Found, Previous
  <2> QED
    BY <2>1, <2>3, <2>4 DEF HeapStep
<1>5. CASE Event(c)
  BY <1>2, <1>5 DEF Event, accept, close_socket, hangup, end_thread, serverVars
<1>6. CASE \/ \E n \in Names, pw \in Passwords : register_user(c, n, pw) \/ login_user(c, n, pw)
           \/ \E n, rn \in Names : forward_private_data(c, n, rn)
           \/ \E n \in Names, r \in Rooms : create_chat_room(c, n, r) \/ forward_chat_room_data(c, n, r)
  BY <1>2, <1>6 DEF register_user, login_user, forward_private_data, create_chat_room,
                    forward_chat_room_data, serverVars
<1> QED
  BY <1>1, <1>2, <1>3, <1>4, <1>5, <1>6 DEF Request

-------------------------------------------------------------------------------
(* The chunks                                                              *)

\* A chunk has a name as long as it is in use: free() overwrites it.
HeapNames == \A x \in Cells : heap[x].name # None <=> heap[x].state = "live"

HeapInv == HeapNames /\ OwnerConsistent /\ WalksTerminate

\* Appending a chunk whose next_member is null closes no cycle.
LEMMA AddMemberTerminates ==
  ASSUME TypeInv, WalksTerminate, NEW k, NEW n, NEW i, NEW x \in Cells, AddMember(k, n, i, x)
  PROVE  WalksTerminate'
<1> SUFFICES ASSUME NEW S \in SUBSET Cells, S # {}
             PROVE  \E y \in S : heap'[y].next_member \notin S
  BY DEF WalksTerminate
<1> DEFINE Links == /\ heap'[x].next_member = None
                    /\ \A y \in Cells \ {x} :
                         heap'[y].next_member \in {heap[y].next_member, x}
<1>1. Links
  <2>1. CASE heap' = [heap EXCEPT ![x] = NewParticipant(n, i)]
    BY <2>1 DEF NewParticipant, TypeInv, TypeOK
  <2>2. ASSUME NEW t \in Chain(rooms[k].member),
               heap' = [heap EXCEPT ![t].next_member = x, ![x] = NewParticipant(n, i)]
        PROVE  Links
    <3>1. t \in Cells
      BY ChainCells
    <3>2. heap[t] \in Participant
      BY <3>1 DEF TypeInv, TypeOK
    <3> QED
      BY <2>2, <3>1, <3>2 DEF NewParticipant, Participant, TypeInv, TypeOK
  <2> QED
    BY <2>1, <2>2 DEF AddMember
<1>2. CASE x \in S
  BY <1>1, <1>2, NoneAssumption
<1>3. CASE x \notin S
  <2>1. PICK y \in S : heap[y].next_member \notin S
    BY DEF WalksTerminate
  <2> QED
    BY <1>1, <1>3, <2>1
<1> QED
  BY <1>2, <1>3

\* Passing over a chunk closes no cycle: one through p would have gone through x.
LEMMA RemoveMemberTerminates ==
  ASSUME TypeInv, WalksTerminate, NEW x \in Cells, NEW p \in Cells, RemoveMember(p, x),
         p = x \/ heap[p].next_member = x
  PROVE  WalksTerminate'
<1> SUFFICES ASSUME NEW S \in SUBSET Cells, S # {}
             PROVE  \E y \in S : heap'[y].next_member \notin S
  BY DEF WalksTerminate
<1>1. \A y \in Cells :
        heap'[y].next_member = IF y = p THEN heap[x].next_member ELSE heap[y].next_member
  BY RemoveMemberFields
<1>2. PICK y \in S : heap[y].next_member \notin S
  BY DEF WalksTerminate
<1>3. CASE y # p
  BY <1>1, <1>2, <1>3
<1>4. CASE y = p
  <2>1. PICK z \in S \cup {x} : heap[z].next_member \notin S \cup {x}
    <3>1. S \cup {x} \in SUBSET Cells /\ S \cup {x} # {}
      OBVIOUS
    <3> QED
      BY <3>1 DEF WalksTerminate
  <2>2. CASE z = x
    BY <1>1, <1>4, <2>1, <2>2
  <2>3. CASE z # x
    <3>1. z # p
      BY <1>4, <2>1, <2>3
    <3> QED
      BY <1>1, <2>1, <2>3, <3>1
  <2> QED
    BY <2>2, <2>3
<1> QED
  BY <1>3, <1>4

\* Whatever a step does to the users, a position keeps its name.
LEMMA NamesStay ==
  ASSUME TypeInv, UsersStep
  PROVE  \A i \in DOMAIN users : i \in DOMAIN users' /\ users'[i].name = users[i].name
                                 /\ users'[i].pw = users[i].pw
<1>0. users \in Seq(User)
  BY DEF TypeInv, TypeOK
<1> SUFFICES ASSUME NEW i \in DOMAIN users
             PROVE  i \in DOMAIN users' /\ users'[i].name = users[i].name
                    /\ users'[i].pw = users[i].pw
  OBVIOUS
<1>1. users[i] \in User
  BY <1>0
<1>2. CASE UNCHANGED users
  BY <1>2
<1>3. ASSUME NEW u, users' = Append(users, u)
      PROVE  i \in DOMAIN users' /\ users'[i] = users[i]
  BY <1>0, <1>3
<1>4. ASSUME NEW c, NEW j, users' = [users EXCEPT ![j] = LoggedIn(j, conn[c])]
      PROVE  i \in DOMAIN users' /\ users'[i].name = users[i].name
             /\ users'[i].pw = users[i].pw
  BY <1>1, <1>4 DEF LoggedIn, User
<1>5. ASSUME NEW U, users' = [j \in DOMAIN users |-> Reset(j, U)]
      PROVE  i \in DOMAIN users' /\ users'[i].name = users[i].name
             /\ users'[i].pw = users[i].pw
  BY <1>1, <1>5 DEF Reset, User
<1> QED
  BY <1>2, <1>3, <1>4, <1>5 DEF UsersStep

\* No chunk is linked to another at the start (main).
LEMMA HeapInvInit == Init => HeapInv
<1> SUFFICES ASSUME Init PROVE HeapInv
  OBVIOUS
<1>1. \A x \in Cells : /\ heap[x].state = "unused" /\ heap[x].name = None
                       /\ heap[x].next_member = None
  BY DEF Init
<1>2. WalksTerminate
  <2> SUFFICES ASSUME NEW S \in SUBSET Cells, S # {}
               PROVE  \E x \in S : heap[x].next_member \notin S
    BY DEF WalksTerminate
  <2>1. PICK x \in S : TRUE
    OBVIOUS
  <2>2. heap[x].next_member \notin S
    BY <1>1, NoneAssumption
  <2> QED
    BY <2>2
<1>3. HeapNames /\ OwnerConsistent
  BY <1>1 DEF HeapNames, OwnerConsistent
<1> QED
  BY <1>2, <1>3 DEF HeapInv

\* Every step keeps the chunks free of cycles and their names those of their users.
LEMMA HeapInvStep == TypeInv /\ HeapInv /\ [Next]_vars => HeapInv'
<1> SUFFICES ASSUME TypeInv, HeapInv, [Next]_vars PROVE HeapInv'
  OBVIOUS
<1>1. CASE UNCHANGED vars
  BY <1>1 DEF vars, serverVars, HeapInv, HeapNames, OwnerConsistent, WalksTerminate
<1>2. CASE Next
  <2>1. \A i \in DOMAIN users : i \in DOMAIN users' /\ users'[i].name = users[i].name
    BY <1>2, UsersSteps, NamesStay
  <2>2. CASE UNCHANGED heap
    BY <2>1, <2>2 DEF HeapInv, HeapNames, OwnerConsistent, WalksTerminate
  <2>3. ASSUME NEW k \in DOMAIN rooms, NEW n \in Names, NEW i \in DOMAIN users,
               NEW x \in Allocatable, users[i].name = n, AddMember(k, n, i, x)
        PROVE  HeapInv'
    <3>0. x \in Cells /\ n # None
      BY NoneAssumption DEF Allocatable
    <3> DEFINE Added == /\ heap'[x] = NewParticipant(n, i)
                        /\ \A y \in Cells \ {x} : /\ heap'[y].state = heap[y].state
                                                  /\ heap'[y].name = heap[y].name
                                                  /\ heap'[y].ptr_to_user = heap[y].ptr_to_user
    <3>1. Added
      <4>1. CASE heap' = [heap EXCEPT ![x] = NewParticipant(n, i)]
        BY <3>0, <4>1 DEF TypeInv, TypeOK
      <4>2. ASSUME NEW t \in Chain(rooms[k].member),
                   heap' = [heap EXCEPT ![t].next_member = x, ![x] = NewParticipant(n, i)]
            PROVE  Added
        <5>1. t \in Cells
          BY ChainCells
        <5>2. heap[t] \in Participant
          BY <5>1 DEF TypeInv, TypeOK
        <5> QED
          BY <3>0, <4>2, <5>1, <5>2 DEF Participant, TypeInv, TypeOK
      <4> QED
        BY <2>3, <4>1, <4>2 DEF AddMember
    <3>2. HeapNames'
      BY <3>0, <3>1 DEF HeapInv, HeapNames, NewParticipant
    <3>3. OwnerConsistent'
      BY <2>1, <2>3, <3>1 DEF HeapInv, OwnerConsistent, NewParticipant
    <3>4. WalksTerminate'
      BY <2>3, <3>0, AddMemberTerminates DEF HeapInv
    <3> QED
      BY <3>2, <3>3, <3>4 DEF HeapInv
  <2>4. ASSUME NEW n \in Names, NEW x \in Cells, NEW p \in Cells,
               heap[x].name = n, RemoveMember(p, x), p = x \/ heap[p].next_member = x
        PROVE  HeapInv'
    <3>1. \A y \in Cells :
            /\ heap'[y].state = IF y = x THEN "freed" ELSE heap[y].state
            /\ heap'[y].name = IF y = x THEN None ELSE heap[y].name
            /\ heap'[y].ptr_to_user = heap[y].ptr_to_user
      BY <2>4, RemoveMemberFields
    <3>2. HeapNames'
      <4>1. heap[x].state = "live"
        BY <2>4, NoneAssumption DEF HeapInv, HeapNames
      <4> QED
        BY <3>1 DEF HeapInv, HeapNames
    <3>3. OwnerConsistent'
      BY <2>1, <3>1 DEF HeapInv, OwnerConsistent
    <3>4. WalksTerminate'
      BY <2>4, RemoveMemberTerminates DEF HeapInv
    <3> QED
      BY <3>2, <3>3, <3>4 DEF HeapInv
  <2> QED
    BY <1>2, <2>2, <2>3, <2>4, HeapSteps DEF HeapStep
<1> QED
  BY <1>1, <1>2

\* The strengthened invariant of the member lists holds in every state.
LEMMA HeapInvariant == Spec => []HeapInv
<1> QED
  BY TypeInvariant, HeapInvInit, HeapInvStep, PTL DEF Spec

\* Every walk along a member list ends, also in a list whose first member has been
\* freed under it and whose chunks have been handed out again.
THEOREM ListsAreAcyclic == Spec => []WalksTerminate
<1>1. HeapInv => WalksTerminate
  BY DEF HeapInv
<1> QED
  BY HeapInvariant, <1>1, PTL

\* The name and the user pointer of a participant never disagree.
THEOREM ParticipantsNameTheirUser == Spec => []OwnerConsistent
<1>1. HeapInv => OwnerConsistent
  BY DEF HeapInv
<1> QED
  BY HeapInvariant, <1>1, PTL

-------------------------------------------------------------------------------
(* Accounts and connections                                                *)

\* No nickname is registered twice.
UniqueUsers == \A i, j \in DOMAIN users : users[i].name = users[j].name => i = j

\* Who has entered the service has been connected.
EnteredOK == \A n \in Names : last[n] # None => phase[last[n]] # "new"

AccountInv == UniqueUsers /\ EnteredOK /\ OwnConnection /\ OfflineIsGone

\* A thread that has left handle_clients does not come back, its number stays the same
\* until then, and what it has lost it does not get again.
LEMMA NothingComesBack ==
  ASSUME TypeInv, [Next]_vars, NEW d \in Clients, phase[d] # "new"
  PROVE  /\ Reads(d)' => Reads(d) /\ conn'[d] = conn[d]
         /\ Owns(d)' => Owns(d)
         /\ phase'[d] = "connected" => phase[d] = "connected"
         /\ phase'[d] # "new"
<1> DEFINE Goal == /\ Reads(d)' => Reads(d) /\ conn'[d] = conn[d]
                   /\ Owns(d)' => Owns(d)
                   /\ phase'[d] = "connected" => phase[d] = "connected"
                   /\ phase'[d] # "new"
<1>1. CASE UNCHANGED <<phase, conn, open>>
  BY <1>1 DEF Reads, Owns
<1>2. ASSUME NEW c \in Clients, accept(c) PROVE Goal
  <2>1. CASE UNCHANGED <<phase, conn, open>>
    BY <1>1, <2>1
  <2>2. ASSUME NEW f \in Free, open' = [open EXCEPT ![f] = c], conn' = [conn EXCEPT ![c] = f],
               phase' = [phase EXCEPT ![c] = "connected"]
        PROVE  Goal
    <3>1. c # d
      BY <1>2 DEF accept
    <3>2. phase'[d] = phase[d] /\ conn'[d] = conn[d]
      BY <2>2, <3>1 DEF TypeInv, TypeOK
    <3>3. open'[conn[d]] = d => open[conn[d]] = d
      BY <2>2, <3>1 DEF TypeInv, TypeOK
    <3> QED
      BY <3>2, <3>3 DEF Reads, Owns
  <2> QED
    BY <1>2, <2>1, <2>2 DEF accept
<1>3. ASSUME NEW c \in Clients, close_socket(c) PROVE Goal
  BY <1>3 DEF close_socket, Reads, Owns, TypeInv, TypeOK
<1>4. \A f \in Fds, c \in Clients : Close(c) /\ open'[f] = d => open[f] = d
  BY NoneAssumption DEF Close, TypeInv, TypeOK
<1>5. Reads(d) => conn[d] \in Fds
  BY DEF Reads, TypeInv, TypeOK, ConnOK
<1>6. ASSUME NEW c \in Clients, hangup(c) PROVE Goal
  BY <1>4, <1>5, <1>6 DEF hangup, Reads, Owns, TypeInv, TypeOK
<1>7. ASSUME NEW c \in Clients, end_thread(c) PROVE Goal
  BY <1>4, <1>5, <1>7 DEF end_thread, Reads, Owns, TypeInv, TypeOK
<1> QED
  BY <1>1, <1>2, <1>3, <1>6, <1>7, NextCases, RequestKeepsConnections DEF vars, clientVars, Event

\* Each user in the list has a nickname.
LEMMA UserNames ==
  ASSUME TypeInv
  PROVE  \A i \in DOMAIN users : users[i].name \in Names
<1>1. \A i \in DOMAIN users : users[i] \in User
  BY DEF TypeInv, TypeOK
<1> QED
  BY <1>1 DEF User

\* There is no user at the start (main).
LEMMA AccountInvInit == Init => AccountInv
<1> QED
  BY DEF Init, AccountInv, UniqueUsers, EnteredOK, OwnConnection, OfflineIsGone

\* Nothing of the list changes: only connections can end.
LEMMA AccountInvConnections ==
  ASSUME TypeInv, AccountInv, [Next]_vars, UNCHANGED <<users, last>>
  PROVE  AccountInv'
<1>1. last \in [Names -> Clients \cup {None}] /\ None \notin Clients
  BY NoneAssumption DEF TypeInv, TypeOK
<1>2. ASSUME NEW n \in Names, last[n] # None
      PROVE  /\ Reads(last[n])' => Reads(last[n]) /\ conn'[last[n]] = conn[last[n]]
             /\ Owns(last[n])' => Owns(last[n])
             /\ phase'[last[n]] = "connected" => phase[last[n]] = "connected"
             /\ phase'[last[n]] # "new"
  <2> DEFINE d == last[n]
  <2>1. d \in Clients /\ phase[d] # "new" /\ last'[n] = d
    BY <1>1, <1>2 DEF AccountInv, EnteredOK
  <2>2. \A e \in Clients : phase[e] # "new" =>
          /\ Reads(e)' => Reads(e) /\ conn'[e] = conn[e]
          /\ Owns(e)' => Owns(e)
          /\ phase'[e] = "connected" => phase[e] = "connected"
          /\ phase'[e] # "new"
    BY NothingComesBack
  <2> QED
    BY <2>1, <2>2 DEF Reads, Owns
<1>3. \A i \in DOMAIN users : users[i].name \in Names
  BY UserNames
<1>4. UniqueUsers' /\ EnteredOK'
  BY <1>2 DEF AccountInv, UniqueUsers, EnteredOK
<1>5. OwnConnection'
  BY <1>2, <1>3 DEF AccountInv, OwnConnection, Reads
<1>6. OfflineIsGone'
  BY <1>2, <1>3 DEF AccountInv, OfflineIsGone, Owns, Reads
<1> QED
  BY <1>4, <1>5, <1>6 DEF AccountInv

\* A new user is the only one of the name and has the connection of the registering
\* client.
LEMMA AccountInvRegister ==
  ASSUME TypeInv, AccountInv, UNCHANGED <<phase, conn, open>>,
         NEW c \in Clients, NEW n \in Names, NEW pw \in Passwords,
         Reads(c), ~Listed(users, n),
         users' = Append(users, NewUser(c, n, pw)), last' = [last EXCEPT ![n] = c]
  PROVE  AccountInv'
<1>0. users \in Seq(User) /\ last \in [Names -> Clients \cup {None}]
  BY DEF TypeInv, TypeOK
<1> DEFINE m == Len(users) + 1
<1>1. /\ DOMAIN users' = DOMAIN users \cup {m} /\ m \notin DOMAIN users
      /\ users'[m] = NewUser(c, n, pw)
      /\ \A i \in DOMAIN users : users'[i] = users[i]
  BY <1>0
<1>2. \A i \in DOMAIN users : users[i].name \in Names \ {n}
  BY UserNames DEF Listed
<1>3. last'[n] = c /\ \A o \in Names \ {n} : last'[o] = last[o]
  BY <1>0
<1>4. c # None
  BY NoneAssumption
<1>5. UniqueUsers'
  BY <1>1, <1>2 DEF AccountInv, UniqueUsers, NewUser
<1>6. EnteredOK'
  BY <1>3 DEF AccountInv, EnteredOK, Reads
<1>7. OwnConnection'
  BY <1>1, <1>2, <1>3, <1>4 DEF AccountInv, OwnConnection, Reads, NewUser
<1>8. OfflineIsGone'
  <2>1. users'[m].login = 1
    BY <1>1 DEF NewUser
  <2>2. \A i \in DOMAIN users : users'[i] = users[i] /\ last'[users[i].name] = last[users[i].name]
    BY <1>1, <1>2, <1>3
  <2>3. \A d : Owns(d)' <=> Owns(d)
    BY DEF Owns, Reads
  <2> QED
    BY <1>1, <2>1, <2>2, <2>3 DEF AccountInv, OfflineIsGone
<1> QED
  BY <1>5, <1>6, <1>7, <1>8 DEF AccountInv

\* A login changes the one user of the name.
LEMMA AccountInvLogin ==
  ASSUME TypeInv, AccountInv, UNCHANGED <<phase, conn, open>>,
         NEW c \in Clients, NEW n \in Names, NEW k \in First(users, n),
         Reads(c),
         users' = [users EXCEPT ![k] = LoggedIn(k, conn[c])], last' = [last EXCEPT ![n] = c]
  PROVE  AccountInv'
<1>0. users \in Seq(User) /\ last \in [Names -> Clients \cup {None}]
  BY DEF TypeInv, TypeOK
<1>1. k \in DOMAIN users /\ users[k].name = n /\ users[k] \in User
  BY <1>0 DEF First
<1>2. /\ DOMAIN users' = DOMAIN users
      /\ users'[k].name = n /\ users'[k].login = 1 /\ users'[k].connfd = conn[c]
      /\ \A i \in DOMAIN users \ {k} : users'[i] = users[i]
  BY <1>0, <1>1 DEF LoggedIn, User
<1>3. \A i \in DOMAIN users \ {k} : users[i].name \in Names \ {n}
  BY <1>1, UserNames DEF AccountInv, UniqueUsers
<1>4. last'[n] = c /\ \A o \in Names \ {n} : last'[o] = last[o]
  BY <1>0
<1>5. c # None
  BY NoneAssumption
<1>6. UniqueUsers'
  BY <1>1, <1>2, <1>3 DEF AccountInv, UniqueUsers
<1>7. EnteredOK'
  BY <1>4 DEF AccountInv, EnteredOK, Reads
<1>8. OwnConnection'
  BY <1>2, <1>3, <1>4, <1>5 DEF AccountInv, OwnConnection, Reads
<1>9. OfflineIsGone'
  <2>1. \A i \in DOMAIN users \ {k} :
          users'[i] = users[i] /\ last'[users[i].name] = last[users[i].name]
    BY <1>2, <1>3, <1>4
  <2>2. \A d : Owns(d)' <=> Owns(d)
    BY DEF Owns, Reads
  <2> QED
    BY <1>2, <2>1, <2>2 DEF AccountInv, OfflineIsGone
<1> QED
  BY <1>6, <1>7, <1>8, <1>9 DEF AccountInv

\* A write() fails only on a descriptor that is closed or whose peer has gone: not on
\* that of a client that is there and has kept it.
LEMMA AccountInvReset ==
  ASSUME TypeInv, AccountInv, UNCHANGED <<phase, conn, open, last>>, NEW U,
         \A i \in U : MayFail(users[i].connfd),
         users' = [i \in DOMAIN users |-> Reset(i, U)]
  PROVE  AccountInv'
<1>1. /\ DOMAIN users' = DOMAIN users
      /\ \A i \in DOMAIN users :
           /\ users'[i].name = users[i].name /\ users'[i].connfd = users[i].connfd
           /\ users'[i].login = IF i \in U THEN 0 ELSE users[i].login
  <2>1. \A i \in DOMAIN users : users[i] \in User
    BY DEF TypeInv, TypeOK
  <2> QED
    BY <2>1 DEF Reset, User
<1>2. ASSUME NEW i \in DOMAIN users, i \in U,
             phase[last[users[i].name]] = "connected", Owns(last[users[i].name])
      PROVE  last[users[i].name] = None
  <2> SUFFICES ASSUME last[users[i].name] # None PROVE FALSE
    OBVIOUS
  <2> DEFINE d == last[users[i].name]
  <2>1. d \in Clients
    BY UserNames DEF TypeInv, TypeOK
  <2>2. conn[d] = users[i].connfd /\ open[conn[d]] = d
    BY <1>2 DEF AccountInv, OwnConnection, Owns
  <2>3. Peer(users[i].connfd) = d
    BY <2>1, <2>2 DEF Peer
  <2> QED
    BY <1>2, <2>1, <2>3, NoneAssumption DEF MayFail
<1>3. UniqueUsers'
  BY <1>1 DEF AccountInv, UniqueUsers
<1>4. EnteredOK'
  BY DEF AccountInv, EnteredOK
<1>5. OwnConnection'
  BY <1>1 DEF AccountInv, OwnConnection, Reads
<1>6. OfflineIsGone'
  BY <1>1, <1>2 DEF AccountInv, OfflineIsGone, Reads, Owns
<1> QED
  BY <1>3, <1>4, <1>5, <1>6 DEF AccountInv

\* Every step keeps the users' names apart, their descriptors and their status.
LEMMA AccountInvStep == TypeInv /\ AccountInv /\ [Next]_vars => AccountInv'
<1> SUFFICES ASSUME TypeInv, AccountInv, [Next]_vars PROVE AccountInv'
  OBVIOUS
<1>1. CASE UNCHANGED <<users, last>>
  BY <1>1, AccountInvConnections
<1>2. CASE UNCHANGED vars
  BY <1>1, <1>2 DEF vars, serverVars, historyVars
<1>3. CASE Next
  BY <1>1, <1>3, UsersSteps, AccountInvRegister, AccountInvLogin, AccountInvReset
  DEF UsersStep
<1> QED
  BY <1>2, <1>3

\* The strengthened invariant of the list of users holds in every state.
LEMMA AccountInvariant == Spec => []AccountInv
<1> QED
  BY TypeInvariant, AccountInvInit, AccountInvStep, PTL DEF Spec

\* A user's descriptor is that of the client that last entered under the name, as
\* long as this client is there.
THEOREM UsersKeepTheirConnection == Spec => []OwnConnection
<1>1. AccountInv => OwnConnection
  BY DEF AccountInv
<1> QED
  BY AccountInvariant, <1>1, PTL

\* Nobody who is there, on a descriptor that is still its own, is marked as logged off.
THEOREM OnlyTheGoneAreLoggedOff == Spec => []OfflineIsGone
<1>1. AccountInv => OfflineIsGone
  BY DEF AccountInv
<1> QED
  BY AccountInvariant, <1>1, PTL

-------------------------------------------------------------------------------
(* Room names                                                              *)

UniqueRooms == \A i, j \in DOMAIN rooms : rooms[i].name = rooms[j].name => i = j

\* A step leaves the rooms alone, sets the first member of one, or appends one under
\* a name that is not there yet.
LEMMA RoomsSteps ==
  ASSUME TypeInv, Next
  PROVE  \/ UNCHANGED rooms
         \/ \E k \in DOMAIN rooms, x \in Cells : rooms' = [rooms EXCEPT ![k].member = x]
         \/ \E r \in Rooms : /\ ~Listed(rooms, r)
                             /\ rooms' = Append(rooms, [name |-> r, member |-> None])
<1> DEFINE Goal ==
      \/ UNCHANGED rooms
      \/ \E k \in DOMAIN rooms, x \in Cells : rooms' = [rooms EXCEPT ![k].member = x]
      \/ \E r \in Rooms : /\ ~Listed(rooms, r)
                          /\ rooms' = Append(rooms, [name |-> r, member |-> None])
<1>1. PICK c \in Clients : Request(c) \/ Event(c)
  BY NextCases
<1>2. ASSUME NEW n \in Names, NEW r \in Rooms, create_chat_room(c, n, r) PROVE Goal
  BY <1>2 DEF create_chat_room
<1>3. ASSUME NEW n \in Names, NEW r \in Rooms, join_chatroom(c, n, r) PROVE Goal
  <2>1. CASE UNCHANGED rooms
    BY <2>1
  <2>2. ASSUME NEW k \in First(rooms, r), NEW i, NEW x \in Allocatable,
               AddMember(k, n, i, x)
        PROVE  Goal
    <3>1. k \in DOMAIN rooms /\ x \in Cells
      BY DEF First, Allocatable
    <3> QED
      BY <2>2, <3>1 DEF AddMember
  <2> QED
    BY <1>3, <2>1, <2>2 DEF join_chatroom
<1>4. CASE Event(c)
  BY <1>4 DEF Event, accept, close_socket, hangup, end_thread, serverVars
<1>5. CASE \/ \E n \in Names, pw \in Passwords : register_user(c, n, pw) \/ login_user(c, n, pw)
           \/ \E n, rn \in Names : forward_private_data(c, n, rn)
           \/ \E n \in Names, r \in Rooms : exit_chatroom(c, n, r) \/ forward_chat_room_data(c, n, r)
  BY <1>5 DEF register_user, login_user, forward_private_data, exit_chatroom,
              forward_chat_room_data, serverVars
<1> QED
  BY <1>1, <1>2, <1>3, <1>4, <1>5 DEF Request

\* A room is appended only under a name that is not there yet (create_chat_room).
LEMMA UniqueRoomsStep == TypeInv /\ UniqueRooms /\ [Next]_vars => UniqueRooms'
<1> SUFFICES ASSUME TypeInv, UniqueRooms, [Next]_vars PROVE UniqueRooms'
  OBVIOUS
<1>0. rooms \in Seq(Room) /\ \A i \in DOMAIN rooms : rooms[i] \in Room
  BY DEF TypeInv, TypeOK
<1>1. CASE UNCHANGED rooms
  BY <1>1 DEF UniqueRooms
<1>2. ASSUME NEW k \in DOMAIN rooms, NEW x \in Cells, rooms' = [rooms EXCEPT ![k].member = x]
      PROVE  UniqueRooms'
  <2>1. /\ DOMAIN rooms' = DOMAIN rooms
        /\ \A i \in DOMAIN rooms : rooms'[i].name = rooms[i].name
    BY <1>0, <1>2 DEF Room
  <2> QED
    BY <2>1 DEF UniqueRooms
<1>3. ASSUME NEW r \in Rooms, ~Listed(rooms, r),
             rooms' = Append(rooms, [name |-> r, member |-> None])
      PROVE  UniqueRooms'
  <2> DEFINE m == Len(rooms) + 1
  <2>1. /\ DOMAIN rooms' = DOMAIN rooms \cup {m} /\ m \notin DOMAIN rooms
        /\ rooms'[m].name = r
        /\ \A i \in DOMAIN rooms : rooms'[i] = rooms[i]
    BY <1>0, <1>3
  <2> QED
    BY <1>3, <2>1 DEF UniqueRooms, Listed
<1> QED
  BY <1>1, <1>2, <1>3, RoomsSteps DEF vars, serverVars

\* No nickname and no room name is in its list twice.
THEOREM NamesAreUnique == Spec => []UniqueNames
<1>1. Init => UniqueRooms
  BY DEF Init, UniqueRooms
<1>2. Spec => []UniqueRooms
  BY TypeInvariant, <1>1, UniqueRoomsStep, PTL DEF Spec
<1>3. AccountInv /\ UniqueRooms => UniqueNames
  BY DEF AccountInv, UniqueUsers, UniqueRooms, UniqueNames
<1> QED
  BY AccountInvariant, <1>2, <1>3, PTL

\* The users within the limit of the search loops are found by it, for every limit.
THEOREM TheRegisteredAreFound == Spec => []RegisteredCanLogin
<1>1. TypeInv /\ AccountInv => RegisteredCanLogin
  <2> SUFFICES ASSUME TypeInv, AccountInv, NEW k \in DOMAIN users, k <= MAX_USER_COUNT
               PROVE  FirstWithin(users[k].name) # {}
    BY DEF RegisteredCanLogin
  <2>1. DOMAIN users = 1 .. Len(users) /\ Len(users) \in Nat
    BY DEF TypeInv, TypeOK
  <2>2. \A j \in 1 .. (k - 1) : j \in DOMAIN users /\ j # k
    BY <2>1
  <2>3. \A j \in 1 .. (k - 1) : users[j].name # users[k].name
    BY <2>2 DEF AccountInv, UniqueUsers
  <2>4. k \in First(users, users[k].name)
    BY <2>3 DEF First
  <2> QED
    BY <2>4 DEF FirstWithin
<1> QED
  BY TypeInvariant, AccountInvariant, <1>1, PTL

-------------------------------------------------------------------------------
(* Delivery                                                                *)

\* The client at the descriptor of a user is the one that last entered, if this one
\* still has its descriptor.
LEMMA PeerOfOwner ==
  ASSUME TypeInv, AccountInv, NEW i \in DOMAIN users, last[users[i].name] # None,
         Owns(last[users[i].name])
  PROVE  Peer(users[i].connfd) = last[users[i].name]
<1> DEFINE d == last[users[i].name]
<1>1. d \in Clients
  BY UserNames DEF TypeInv, TypeOK
<1>2. conn[d] = users[i].connfd /\ open[conn[d]] = d
  BY DEF AccountInv, OwnConnection, Owns
<1> QED
  BY <1>1, <1>2 DEF Peer

\* out records what a handler forwards.
LEMMA AnswerSent ==
  ASSUME NEW id, NEW c, NEW r, NEW err, NEW sent, NEW visited,
         Answer(id, c, r, err, sent, visited)
  PROVE  out'.sent = sent
<1> QED
  BY DEF Answer

\* Nothing is forwarded by these.
LEMMA SilentRequests ==
  ASSUME NEW c \in Clients,
         \/ \E n \in Names, pw \in Passwords : register_user(c, n, pw) \/ login_user(c, n, pw)
         \/ \E n \in Names, r \in Rooms : \/ create_chat_room(c, n, r)
                                          \/ join_chatroom(c, n, r)
                                          \/ exit_chatroom(c, n, r)
  PROVE  out'.sent = {}
<1> QED
  BY AnswerSent DEF register_user, login_user, create_chat_room, join_chatroom, exit_chatroom

\* What a step forwards goes to the client that last entered under the name
\* (forward_chat_room_data, forward_private_data).
LEMMA DeliveredStep ==
  TypeInv /\ HeapInv /\ AccountInv /\ DeliveredToLatestLogin /\ [Next]_vars
    => DeliveredToLatestLogin'
<1> SUFFICES ASSUME TypeInv, HeapInv, AccountInv, DeliveredToLatestLogin, [Next]_vars,
                    NEW m \in out'.sent, m.name # None, last'[m.name] # None,
                    Owns(last[m.name])'
             PROVE  m.to = last'[m.name]
  BY DEF DeliveredToLatestLogin
<1>1. CASE UNCHANGED <<out, last>>
  <2>1. m.name \in Names
    BY <1>1 DEF TypeInv, TypeOK, Output, Forward
  <2>2. last[m.name] \in Clients \cup {None} /\ (last[m.name] # None => phase[last[m.name]] # "new")
    BY <2>1 DEF TypeInv, TypeOK, AccountInv, EnteredOK
  <2>3. last'[m.name] = last[m.name] /\ last[m.name] \in Clients /\ phase[last[m.name]] # "new"
    BY <1>1, <2>2
  <2>4. \A d \in Clients : phase[d] # "new" /\ Owns(d)' => Owns(d)
    BY NothingComesBack
  <2>5. Owns(last[m.name])
    BY <2>3, <2>4 DEF Owns, Reads
  <2> QED
    BY <1>1, <2>3, <2>5 DEF DeliveredToLatestLogin
<1>2. ASSUME NEW c \in Clients, NEW n \in Names, NEW r \in Rooms, forward_chat_room_data(c, n, r)
      PROVE  m.to = last'[m.name]
  <2>1. UNCHANGED <<phase, conn, open, last>>
    BY <1>2 DEF forward_chat_room_data, clientVars, historyVars
  <2>2. PICK k \in First(rooms, r) :
          out'.sent = {Copy(x) : x \in Receivers(rooms[k].member, n)}
    BY <1>2, AnswerSent DEF forward_chat_room_data
  <2>3. PICK x \in Cells : m = Copy(x)
    BY <2>2, ChainCells DEF Receivers
  <2>4. m.name = heap[x].name /\ m.to = Peer(users[heap[x].ptr_to_user].connfd)
    BY <2>3 DEF Copy
  <2>5. /\ heap[x].ptr_to_user \in DOMAIN users
        /\ users[heap[x].ptr_to_user].name = m.name
    BY <2>4 DEF HeapInv, HeapNames, OwnerConsistent
  <2> QED
    BY <2>1, <2>4, <2>5, PeerOfOwner DEF Owns, Reads
<1>3. ASSUME NEW c \in Clients, NEW n \in Names, NEW rn \in Names, forward_private_data(c, n, rn)
      PROVE  m.to = last'[m.name]
  <2>1. UNCHANGED <<phase, conn, open, last>>
    BY <1>3 DEF forward_private_data, clientVars, historyVars
  <2>2. PICK i \in First(users, rn) :
          out'.sent = {[to |-> Peer(users[i].connfd), name |-> rn, cell |-> None]}
    BY <1>3, AnswerSent DEF forward_private_data
  <2>3. m.to = Peer(users[i].connfd) /\ m.name = users[i].name /\ i \in DOMAIN users
    BY <2>2 DEF First
  <2> QED
    BY <2>1, <2>3, PeerOfOwner DEF Owns, Reads
<1>4. ASSUME NEW c \in Clients, Event(c)
      PROVE  m.to = last'[m.name]
  BY <1>1, <1>4 DEF Event, accept, close_socket, hangup, end_thread, historyVars
<1>5. CASE UNCHANGED vars
  BY <1>1, <1>5 DEF vars, historyVars
<1> QED
  BY <1>2, <1>3, <1>4, <1>5, SilentRequests, NextCases DEF Request

\* Whatever is forwarded under a name goes to the client that last entered under it,
\* as long as this client has its descriptor.
THEOREM MessagesReachTheLatestLogin == Spec => []DeliveredToLatestLogin
<1>1. Init => DeliveredToLatestLogin
  BY DEF Init, DeliveredToLatestLogin
<1> QED
  BY TypeInvariant, HeapInvariant, AccountInvariant, <1>1, DeliveredStep, PTL DEF Spec

\* No step takes an account away or changes its name or password, and a login with
\* another password changes nothing.
THEOREM AccountsAreKept == Spec => AccountsPersist
<1> DEFINE Step ==
      /\ \A i \in DOMAIN users :
           /\ i \in DOMAIN users'
           /\ users'[i].name = users[i].name /\ users'[i].pw = users[i].pw
      /\ \A c \in Clients, n \in Names, pw \in Passwords :
           login_user(c, n, pw) /\ (\A i \in First(users, n) : users[i].pw # pw)
             => UNCHANGED <<users, nick, conn, last>>
<1>1. TypeInv /\ [Next]_vars => [Step]_vars
  <2> SUFFICES ASSUME TypeInv, Next PROVE Step
    OBVIOUS
  <2>1. \A i \in DOMAIN users :
          /\ i \in DOMAIN users'
          /\ users'[i].name = users[i].name /\ users'[i].pw = users[i].pw
    BY UsersSteps, NamesStay
  <2>2. ASSUME NEW c \in Clients, NEW n \in Names, NEW pw \in Passwords,
               login_user(c, n, pw), \A i \in First(users, n) : users[i].pw # pw
        PROVE  UNCHANGED <<users, nick, conn, last>>
    BY <2>2 DEF login_user, FirstWithin, PasswordMatches
  <2> QED
    BY <2>1, <2>2
<1> QED
  BY TypeInvariant, <1>1, PTL DEF Spec, AccountsPersist

-------------------------------------------------------------------------------
(* Lists linked by a pointer                                               *)

\* S is closed under the links in N, and what they lead to from h.
Stable(N, S) == \A x \in S : N[x] \in S \cup {None}

Reach(N, h) ==
  {x \in Cells : \A S \in SUBSET Cells : h \in S \cup {None} /\ Stable(N, S) => x \in S}

Linking == [Cells -> Cells \cup {None}]

Acyclic(N) == \A S \in (SUBSET Cells) \ {{}} : \E x \in S : N[x] \notin S

\* The chunks reached are the least closed set with the first of them.
LEMMA ReachLeast ==
  ASSUME NEW N \in Linking, NEW h \in Cells \cup {None}
  PROVE  /\ Reach(N, h) \in SUBSET Cells
         /\ h \in Reach(N, h) \cup {None}
         /\ Stable(N, Reach(N, h))
         /\ \A S \in SUBSET Cells : h \in S \cup {None} /\ Stable(N, S) => Reach(N, h) \subseteq S
<1>1. Reach(N, h) \in SUBSET Cells
  BY DEF Reach
<1>2. \A S \in SUBSET Cells : h \in S \cup {None} /\ Stable(N, S) => Reach(N, h) \subseteq S
  BY DEF Reach
<1>3. h \in Reach(N, h) \cup {None}
  BY DEF Reach
<1>4. Stable(N, Reach(N, h))
  <2> SUFFICES ASSUME NEW x \in Reach(N, h), N[x] # None
               PROVE  N[x] \in Reach(N, h)
    BY DEF Stable
  <2>1. x \in Cells /\ N[x] \in Cells
    BY <1>1 DEF Linking
  <2>2. ASSUME NEW S \in SUBSET Cells, h \in S \cup {None}, Stable(N, S)
        PROVE  N[x] \in S
    BY <1>2, <2>2 DEF Stable
  <2> QED BY <2>1, <2>2 DEF Reach
<1> QED BY <1>1, <1>2, <1>3, <1>4

\* Nothing is reached from a null pointer.
LEMMA ReachNone ==
  ASSUME NEW N \in Linking
  PROVE  Reach(N, None) = {}
<1>1. {} \in SUBSET Cells /\ Stable(N, {})
  BY DEF Stable
<1> QED BY <1>1, ReachLeast

\* A list is its first chunk and the list behind it.
LEMMA ReachStep ==
  ASSUME NEW N \in Linking, NEW h \in Cells
  PROVE  /\ N[h] \in Cells \cup {None}
         /\ Reach(N, h) = {h} \cup Reach(N, N[h])
<1>1. N[h] \in Cells \cup {None} /\ h # None
  BY NoneAssumption DEF Linking
<1> DEFINE R == Reach(N, h)
           Q == Reach(N, N[h])
<1>2. R \in SUBSET Cells /\ h \in R /\ Stable(N, R)
  BY <1>1, ReachLeast
<1>3. Q \in SUBSET Cells /\ N[h] \in Q \cup {None} /\ Stable(N, Q)
  BY <1>1, ReachLeast
<1>4. Q \subseteq R
  <2>1. N[h] \in R \cup {None}
    BY <1>2 DEF Stable
  <2> QED BY <1>1, <1>2, <2>1, ReachLeast
<1>5. R \subseteq {h} \cup Q
  <2>1. Stable(N, {h} \cup Q) /\ {h} \cup Q \in SUBSET Cells
    BY <1>3 DEF Stable
  <2> QED BY <1>1, <2>1, ReachLeast
<1> QED BY <1>1, <1>2, <1>4, <1>5

\* The list from a chunk that is reached is part of the list.
LEMMA ReachTrans ==
  ASSUME NEW N \in Linking, NEW h \in Cells \cup {None}, NEW x \in Reach(N, h)
  PROVE  x \in Cells /\ Reach(N, x) \subseteq Reach(N, h)
<1>1. Reach(N, h) \in SUBSET Cells /\ Stable(N, Reach(N, h))
  BY ReachLeast
<1> QED BY <1>1, ReachLeast

\* Links that no chunk of the list has changed leave the list as it was.
LEMMA ReachFrame ==
  ASSUME NEW N \in Linking, NEW M \in Linking, NEW h \in Cells \cup {None},
         \A x \in Reach(N, h) : M[x] = N[x]
  PROVE  Reach(M, h) = Reach(N, h)
<1>1. /\ Reach(N, h) \in SUBSET Cells /\ h \in Reach(N, h) \cup {None} /\ Stable(N, Reach(N, h))
      /\ Reach(M, h) \in SUBSET Cells /\ h \in Reach(M, h) \cup {None} /\ Stable(M, Reach(M, h))
  BY ReachLeast
<1>2. Stable(M, Reach(N, h))
  BY <1>1 DEF Stable
<1>3. Reach(M, h) \subseteq Reach(N, h)
  BY <1>1, <1>2, ReachLeast
<1>4. Stable(N, Reach(M, h))
  BY <1>1, <1>3 DEF Stable
<1> QED BY <1>1, <1>3, <1>4, ReachLeast

\* Of two chunks of a list one is behind the other.
LEMMA ReachLinear ==
  ASSUME NEW N \in Linking, NEW h \in Cells \cup {None}, NEW x \in Reach(N, h), NEW y \in Reach(N, h)
  PROVE  y \in Reach(N, x) \/ x \in Reach(N, y)
<1> DEFINE S == {z \in Reach(N, h) : z \in Reach(N, x) \/ x \in Reach(N, z)}
<1>1. Reach(N, h) \in SUBSET Cells /\ h \in Reach(N, h) \cup {None} /\ Stable(N, Reach(N, h))
  BY ReachLeast
<1>2. x \in Cells /\ x # None /\ h \in S
  <2>1. h # None
    BY ReachNone
  <2> QED BY <1>1, <2>1, NoneAssumption
<1>3. Stable(N, S)
  <2> SUFFICES ASSUME NEW z \in S, N[z] # None PROVE N[z] \in S
    BY DEF Stable
  <2>1. z \in Cells /\ N[z] \in Reach(N, h) /\ N[z] \in Cells
    BY <1>1 DEF Stable
  <2>2. Reach(N, z) = {z} \cup Reach(N, N[z]) /\ N[z] \in Reach(N, N[z])
    BY <2>1, ReachStep, ReachLeast
  <2>3. CASE z \in Reach(N, x)
    <3>1. N[z] \in Reach(N, x)
      BY <1>2, <2>1, <2>3, ReachLeast DEF Stable
    <3> QED BY <2>1, <3>1
  <2>4. CASE x \in Reach(N, z)
    <3>1. CASE x = z
      <4>1. N[z] \in Reach(N, x)
        BY <2>2, <3>1
      <4> QED BY <2>1, <4>1
    <3>2. CASE x # z
      <4>1. x \in Reach(N, N[z])
        BY <2>2, <2>4, <3>2
      <4> QED BY <2>1, <4>1
    <3> QED BY <3>1, <3>2
  <2> QED BY <2>3, <2>4
<1>4. S \in SUBSET Cells
  BY <1>1
<1> HIDE DEF S
<1>5. Reach(N, h) \subseteq S
  BY <1>2, <1>3, <1>4, ReachLeast
<1> QED BY <1>5 DEF S

\* A list that comes to an end does not come back to a chunk.
LEMMA ReachAcyclic ==
  ASSUME NEW N \in Linking, Acyclic(N), NEW x \in Cells
  PROVE  x \notin Reach(N, N[x])
<1> SUFFICES ASSUME x \in Reach(N, N[x]) PROVE FALSE
  OBVIOUS
<1> DEFINE S == {y \in Cells : x \in Reach(N, y)}
<1>1. x \in S
  BY ReachStep
<1>2. ASSUME NEW y \in S PROVE N[y] \in S
  <2>1. Reach(N, y) = {y} \cup Reach(N, N[y]) /\ N[y] \in Cells \cup {None}
    BY ReachStep
  <2>2. x \in Reach(N, N[y])
    BY <2>1
  <2>3. N[y] # None
    BY <2>2, ReachNone
  <2> QED BY <2>1, <2>2, <2>3
<1>3. S \in (SUBSET Cells) \ {{}}
  BY <1>1
<1> HIDE DEF S
<1> QED BY <1>2, <1>3 DEF Acyclic

\* In such a list no chunk is behind two.
LEMMA OnePrevious ==
  ASSUME NEW N \in Linking, Acyclic(N), NEW h \in Cells \cup {None},
         NEW p \in Reach(N, h), NEW q \in Reach(N, h), N[p] = N[q], N[p] # None
  PROVE  p = q
<1>1. p \in Cells /\ q \in Cells
  BY ReachTrans
<1>2. Reach(N, p) = {p} \cup Reach(N, N[p]) /\ Reach(N, q) = {q} \cup Reach(N, N[q])
  BY <1>1, ReachStep
<1>3. p \notin Reach(N, N[p]) /\ q \notin Reach(N, N[q])
  BY <1>1, ReachAcyclic
<1>4. q \in Reach(N, p) \/ p \in Reach(N, q)
  BY ReachLinear
<1> QED BY <1>2, <1>3, <1>4

\* A chunk linked behind the last of a list comes behind it.
LEMMA ReachAppend ==
  ASSUME NEW N \in Linking, NEW M \in Linking, NEW h \in Cells, NEW t \in Reach(N, h), N[t] = None,
         NEW x \in Cells \ Reach(N, h), M[t] = x, M[x] = None,
         \A y \in Cells \ {t, x} : M[y] = N[y]
  PROVE  Reach(M, h) = Reach(N, h) \cup {x}
<1> DEFINE R == Reach(N, h)
           Q == Reach(M, h)
<1>1. R \in SUBSET Cells /\ h \in R /\ Stable(N, R) /\ Q \in SUBSET Cells /\ h \in Q /\ Stable(M, Q)
  BY ReachLeast, NoneAssumption
<1>2. Q \subseteq R \cup {x}
  <2>1. Stable(M, R \cup {x}) /\ R \cup {x} \in SUBSET Cells
    BY <1>1 DEF Stable
  <2> QED BY <1>1, <2>1, ReachLeast
<1>3. R \subseteq Q
  <2>1. Stable(N, R \cap Q) /\ R \cap Q \in SUBSET Cells
    BY <1>1 DEF Stable
  <2> QED BY <1>1, <2>1, ReachLeast
<1>4. x \in Q
  BY <1>1, <1>3, NoneAssumption DEF Stable
<1> QED BY <1>2, <1>3, <1>4

\* A chunk that is passed over is the only one to leave the list.
LEMMA ReachRemove ==
  ASSUME NEW N \in Linking, Acyclic(N), NEW M \in Linking, NEW h \in Cells,
         NEW p \in Reach(N, h), NEW x \in Reach(N, h) \ {h}, N[p] = x, M[p] = N[x],
         \A y \in Cells \ {p} : M[y] = N[y]
  PROVE  Reach(M, h) = Reach(N, h) \ {x}
<1> DEFINE R == Reach(N, h)
           Q == Reach(M, h)
<1>1. R \in SUBSET Cells /\ h \in R /\ Stable(N, R) /\ Q \in SUBSET Cells /\ h \in Q /\ Stable(M, Q)
  BY ReachLeast, NoneAssumption
<1>2. x \in Cells /\ x # None
  BY <1>1, NoneAssumption
<1>3. N[x] # x
  <2>1. x \notin Reach(N, N[x])
    BY <1>2, ReachAcyclic
  <2>2. N[x] # None => N[x] \in Reach(N, N[x])
    BY <1>2, ReachStep, ReachLeast
  <2> QED BY <1>2, <2>1, <2>2
<1>4. Q \subseteq R \ {x}
  <2>1. \A y \in R \ {p} : N[y] # x
    BY <1>2, OnePrevious
  <2>2. Stable(M, R \ {x})
    <3> SUFFICES ASSUME NEW y \in R \ {x} PROVE M[y] \in (R \ {x}) \cup {None}
      BY DEF Stable
    <3>1. N[y] \in R \cup {None} /\ N[x] \in R \cup {None} /\ y \in Cells
      BY <1>1 DEF Stable
    <3> QED BY <1>3, <2>1, <3>1
  <2>3. R \ {x} \in SUBSET Cells /\ h \in R \ {x}
    BY <1>1
  <2> QED BY <2>2, <2>3, ReachLeast
<1>5. p \in Q
  <2> SUFFICES ASSUME p \notin Q PROVE FALSE
    OBVIOUS
  <2>1. Stable(N, Q)
    BY <1>1 DEF Stable
  <2> QED BY <1>1, <2>1, ReachLeast
<1>6. R \subseteq Q \cup {x}
  <2>1. N[x] \in Q \cup {None}
    BY <1>1, <1>5 DEF Stable
  <2>2. Stable(N, Q \cup {x}) /\ Q \cup {x} \in SUBSET Cells
    BY <1>1, <1>2, <2>1 DEF Stable
  <2> QED BY <1>1, <2>2, ReachLeast
<1> QED BY <1>4, <1>6

-------------------------------------------------------------------------------
(* The member lists                                                        *)

\* The links of the chunks.
Links == [x \in Cells |-> heap[x].next_member]

\* The walks of the program follow the links.
LEMMA ChainIsReach ==
  TypeInv => /\ Links \in Linking
             /\ \A h : Chain(h) = Reach(Links, h)
             /\ WalksTerminate => Acyclic(Links)
             /\ \A k \in DOMAIN rooms : rooms[k].member \in Cells \cup {None} /\ rooms[k].name \in Rooms
<1> SUFFICES ASSUME TypeInv
             PROVE  /\ Links \in Linking
                    /\ \A h : Chain(h) = Reach(Links, h)
                    /\ WalksTerminate => Acyclic(Links)
                    /\ \A k \in DOMAIN rooms : rooms[k].member \in Cells \cup {None} /\ rooms[k].name \in Rooms
  OBVIOUS
<1>1. \A x \in Cells : heap[x] \in Participant /\ Links[x] = heap[x].next_member
  BY DEF TypeInv, TypeOK, Links
<1>2. Links \in Linking
  BY <1>1 DEF Links, Linking, Participant
<1>3. \A S \in SUBSET Cells : Closed(S) <=> Stable(Links, S)
  BY <1>1 DEF Closed, Stable
<1>4. \A h : Chain(h) = Reach(Links, h)
  BY <1>3 DEF Chain, Reach
<1>5. WalksTerminate => Acyclic(Links)
  BY <1>1 DEF WalksTerminate, Acyclic
<1>6. \A k \in DOMAIN rooms : rooms[k] \in Room
  BY DEF TypeInv, TypeOK
<1> QED BY <1>2, <1>4, <1>5, <1>6 DEF Room

\* The same after a step.
LEMMA ChainIsReachNext ==
  ASSUME TypeInv'
  PROVE  /\ Links' \in Linking
         /\ \A x \in Cells : Links'[x] = heap'[x].next_member
         /\ \A h : Chain(h)' = Reach(Links', h)
<1>1. \A x \in Cells : heap'[x] \in Participant /\ Links'[x] = heap'[x].next_member
  BY DEF TypeInv, TypeOK, Links
<1>2. Links' \in Linking
  BY <1>1 DEF Links, Linking, Participant
<1>3. \A S \in SUBSET Cells : Closed(S)' <=> Stable(Links', S)
  BY <1>1 DEF Closed, Stable
<1>4. \A h : Chain(h)' = Reach(Links', h)
  BY <1>3 DEF Chain, Reach
<1> QED BY <1>1, <1>2, <1>4

-------------------------------------------------------------------------------
(* The lists match the membership                                          *)

ListOf(k) == Chain(rooms[k].member)

\* Each list names the members of its room.
NamesMatch == \A k \in DOMAIN rooms : {heap[x].name : x \in ListOf(k)} = members[rooms[k].name]

\* No list names anybody twice.
NamesApart ==
  \A k \in DOMAIN rooms : \A x, y \in ListOf(k) : heap[x].name = heap[y].name => x = y

\* No chunk is in two lists.
ListsApart == \A k, l \in DOMAIN rooms : k # l => ListOf(k) \cap ListOf(l) = {}

\* The chunks in use are those of the lists.
LiveListed ==
  \A x \in Cells : heap[x].state = "live" <=> \E k \in DOMAIN rooms : x \in ListOf(k)

Lists == NamesMatch /\ NamesApart /\ ListsApart /\ LiveListed

\* A room that is not in the list yet has no members.
OnlyListedHaveMembers == \A r \in Rooms : ~Listed(rooms, r) => members[r] = {}

ListInv == (~tainted => Lists) /\ OnlyListedHaveMembers

\* The parts say what the property says.
LEMMA ListsMeaning == TypeInv => (ListsMatchMembership <=> (~tainted => Lists))
<1> SUFFICES ASSUME TypeInv PROVE ListsMatchMembership <=> (~tainted => Lists)
  OBVIOUS
<1>1. \A h : Chain(h) \subseteq Cells
  BY ChainCells
<1>2. LiveListed <=> {x \in Cells : heap[x].state = "live"} =
                       UNION {Chain(rooms[k].member) : k \in DOMAIN rooms}
  <2>1. LiveListed => {x \in Cells : heap[x].state = "live"} =
                        UNION {Chain(rooms[k].member) : k \in DOMAIN rooms}
    BY <1>1 DEF LiveListed, ListOf
  <2>2. {x \in Cells : heap[x].state = "live"} =
          UNION {Chain(rooms[k].member) : k \in DOMAIN rooms} => LiveListed
    BY <1>1 DEF LiveListed, ListOf
  <2> QED BY <2>1, <2>2
<1> QED
  BY <1>2 DEF ListsMatchMembership, Lists, NamesMatch, NamesApart, ListsApart, ListOf

\* The walk of a list of this room that is not cut short finds every member.
LEMMA FoundNothing ==
  ASSUME Lists, NEW k \in DOMAIN rooms, NEW n
  PROVE  /\ Found(rooms[k].member, n) = {} <=> n \notin members[rooms[k].name]
         /\ \A x \in Found(rooms[k].member, n) : x \in ListOf(k) /\ heap[x].name = n
<1>1. \A x \in ListOf(k) : heap[x].name = n => x \in Found(rooms[k].member, n)
  BY DEF Lists, NamesApart, Found, ListOf
<1>2. \A x \in Found(rooms[k].member, n) : x \in ListOf(k) /\ heap[x].name = n
  BY DEF Found, ListOf
<1>3. n \in members[rooms[k].name] <=> \E x \in ListOf(k) : heap[x].name = n
  BY DEF Lists, NamesMatch
<1> QED BY <1>1, <1>2, <1>3

\* The links of a list that no store has touched.
LEMMA ListFrame ==
  ASSUME TypeInv, TypeInv', NEW k \in DOMAIN rooms, k \in DOMAIN rooms',
         rooms'[k].member = rooms[k].member,
         \A x \in ListOf(k) : heap'[x].next_member = heap[x].next_member
  PROVE  ListOf(k)' = ListOf(k)
<1>1. /\ Links \in Linking /\ ListOf(k) = Reach(Links, rooms[k].member)
      /\ rooms[k].member \in Cells \cup {None}
  BY ChainIsReach DEF ListOf
<1>2. /\ Links' \in Linking /\ ListOf(k)' = Reach(Links', rooms[k].member)
      /\ \A x \in Cells : Links'[x] = heap'[x].next_member
  BY ChainIsReachNext DEF ListOf
<1>3. \A x \in Reach(Links, rooms[k].member) : Links'[x] = Links[x]
  <2>1. \A x \in ListOf(k) : x \in Cells
    BY ChainCells DEF ListOf
  <2> QED BY <1>1, <1>2, <2>1 DEF Links
<1> QED BY <1>1, <1>2, <1>3, ReachFrame

\* A list gets the new chunk, which was in no list, and the others stay as they are
\* (step 4 of join_chatroom).
LEMMA AddMemberLists ==
  ASSUME TypeInv, TypeInv', Lists, NEW k \in DOMAIN rooms, NEW n \in Names, NEW i \in DOMAIN users,
         NEW x \in Allocatable, AddMember(k, n, i, x)
  PROVE  /\ x \in Cells /\ \A l \in DOMAIN rooms : x \notin ListOf(l)
         /\ DOMAIN rooms' = DOMAIN rooms
         /\ \A l \in DOMAIN rooms : rooms'[l].name = rooms[l].name
         /\ ListOf(k)' = ListOf(k) \cup {x}
         /\ \A l \in DOMAIN rooms \ {k} : ListOf(l)' = ListOf(l)
         /\ heap'[x].name = n /\ heap'[x].state = "live"
         /\ \A y \in Cells \ {x} : heap'[y].name = heap[y].name /\ heap'[y].state = heap[y].state
<1> DEFINE h == rooms[k].member
           Goal == /\ DOMAIN rooms' = DOMAIN rooms
                   /\ \A l \in DOMAIN rooms : rooms'[l].name = rooms[l].name
                   /\ ListOf(k)' = ListOf(k) \cup {x}
                   /\ \A l \in DOMAIN rooms \ {k} : ListOf(l)' = ListOf(l)
                   /\ heap'[x].name = n /\ heap'[x].state = "live"
                   /\ \A y \in Cells \ {x} : /\ heap'[y].name = heap[y].name
                                             /\ heap'[y].state = heap[y].state
<1>1. x \in Cells /\ \A l \in DOMAIN rooms : x \notin ListOf(l)
  BY DEF Allocatable, Lists, LiveListed
<1>2. x # None /\ \A l \in DOMAIN rooms : ListOf(l) \subseteq Cells
  BY <1>1, NoneAssumption, ChainCells DEF ListOf
<1>3. /\ Links \in Linking /\ \A y \in Cells : Links[y] = heap[y].next_member
      /\ ListOf(k) = Reach(Links, h) /\ h \in Cells \cup {None}
  BY ChainIsReach DEF ListOf, Links
<1>4. /\ Links' \in Linking /\ \A y \in Cells : Links'[y] = heap'[y].next_member
      /\ \A g : Chain(g)' = Reach(Links', g)
  BY ChainIsReachNext
<1>5. \A y \in Cells : heap[y] \in Participant
  BY DEF TypeInv, TypeOK
<1>6. \A l \in DOMAIN rooms : rooms[l] \in Room
  BY DEF TypeInv, TypeOK
<1>7. ASSUME h = None, rooms' = [rooms EXCEPT ![k].member = x],
             heap' = [heap EXCEPT ![x] = NewParticipant(n, i)]
      PROVE  Goal
  <2>1. /\ DOMAIN rooms' = DOMAIN rooms
        /\ \A l \in DOMAIN rooms : rooms'[l].name = rooms[l].name
        /\ rooms'[k].member = x
        /\ \A l \in DOMAIN rooms \ {k} : rooms'[l].member = rooms[l].member
    BY <1>6, <1>7 DEF Room
  <2>2. /\ heap'[x] = NewParticipant(n, i)
        /\ \A y \in Cells \ {x} : heap'[y] = heap[y]
    BY <1>1, <1>7 DEF TypeInv, TypeOK
  <2>3. ListOf(k) = {}
    BY <1>7, ChainCells DEF ListOf
  <2>4. ListOf(k)' = {x}
    <3>1. Links'[x] = None
      BY <1>1, <1>4, <2>2 DEF NewParticipant
    <3>2. Reach(Links', x) = {x} \cup Reach(Links', None)
      BY <1>1, <1>4, <3>1, ReachStep
    <3>3. Reach(Links', None) = {}
      BY <1>4, ReachNone
    <3>4. ListOf(k)' = Reach(Links', x)
      BY <1>4, <2>1 DEF ListOf
    <3> QED BY <3>2, <3>3, <3>4
  <2>5. ASSUME NEW l \in DOMAIN rooms \ {k} PROVE ListOf(l)' = ListOf(l)
    <3>1. \A y \in ListOf(l) : heap'[y].next_member = heap[y].next_member
      BY <1>1, <1>2, <2>2
    <3> QED BY <2>1, <3>1, ListFrame
  <2> QED BY <2>1, <2>2, <2>3, <2>4, <2>5 DEF NewParticipant
<1>8. ASSUME NEW t \in ListOf(k), heap[t].next_member = None, UNCHANGED rooms,
             heap' = [heap EXCEPT ![t].next_member = x, ![x] = NewParticipant(n, i)]
      PROVE  Goal
  <2>1. t \in Cells /\ t # x
    BY <1>1, <1>2
  <2>2. /\ heap'[x] = NewParticipant(n, i)
        /\ heap'[t].next_member = x /\ heap'[t].name = heap[t].name /\ heap'[t].state = heap[t].state
        /\ \A y \in Cells \ {x, t} : heap'[y] = heap[y]
    BY <1>1, <1>5, <1>8, <2>1 DEF Participant, TypeInv, TypeOK
  <2>3. ListOf(k)' = ListOf(k) \cup {x}
    <3>1. /\ Links'[t] = x /\ Links'[x] = None
          /\ \A y \in Cells \ {t, x} : Links'[y] = Links[y]
          /\ Links[t] = None
      <4>1. heap'[x].next_member = None
        BY <2>2 DEF NewParticipant
      <4>2. \A y \in Cells \ {t, x} : heap'[y].next_member = heap[y].next_member
        BY <2>2
      <4> QED BY <1>1, <1>3, <1>4, <1>8, <2>1, <2>2, <4>1, <4>2
    <3>2. h \in Cells
      BY <1>3, ChainCells DEF ListOf
    <3>3. t \in Reach(Links, h) /\ x \in Cells \ Reach(Links, h)
      BY <1>1, <1>3
    <3>4. Reach(Links', h) = Reach(Links, h) \cup {x}
      BY <1>3, <1>4, <3>1, <3>2, <3>3, ReachAppend
    <3>5. ListOf(k)' = Reach(Links', h)
      BY <1>4, <1>8 DEF ListOf
    <3> QED BY <1>3, <3>4, <3>5
  <2>4. ASSUME NEW l \in DOMAIN rooms \ {k} PROVE ListOf(l)' = ListOf(l)
    <3>1. t \notin ListOf(l)
      BY DEF Lists, ListsApart
    <3>2. \A y \in ListOf(l) : heap'[y].next_member = heap[y].next_member
      BY <1>1, <1>2, <2>2, <3>1
    <3> QED BY <1>8, <3>2, ListFrame
  <2>5. heap'[x].name = n /\ heap'[x].state = "live"
    BY <2>2 DEF NewParticipant
  <2>6. \A y \in Cells \ {x} : heap'[y].name = heap[y].name /\ heap'[y].state = heap[y].state
    BY <2>1, <2>2
  <2> QED BY <1>8, <2>3, <2>4, <2>5, <2>6
<1>9. Goal
  BY <1>7, <1>8 DEF AddMember, ListOf
<1> QED BY <1>1, <1>9

\* A list loses the chunk that is passed over and freed, and the others stay as they
\* are (steps 4 and 5 of exit_chatroom, for a member that is not the first).
LEMMA RemoveMemberLists ==
  ASSUME TypeInv, TypeInv', WalksTerminate, Lists, UNCHANGED rooms, NEW k \in DOMAIN rooms,
         NEW x \in ListOf(k), NEW p \in ListOf(k), x # rooms[k].member, heap[p].next_member = x,
         RemoveMember(p, x)
  PROVE  /\ x \in Cells
         /\ ListOf(k)' = ListOf(k) \ {x}
         /\ \A l \in DOMAIN rooms \ {k} : ListOf(l)' = ListOf(l)
         /\ heap'[x].state = "freed"
         /\ \A y \in Cells \ {x} : heap'[y].name = heap[y].name /\ heap'[y].state = heap[y].state
<1> DEFINE h == rooms[k].member
<1>1. x \in Cells /\ p \in Cells /\ ListOf(k) \subseteq Cells
  BY ChainCells DEF ListOf
<1>2. \A y \in Cells :
        /\ heap'[y].state = IF y = x THEN "freed" ELSE heap[y].state
        /\ heap'[y].name = IF y = x THEN None ELSE heap[y].name
        /\ heap'[y].next_member = IF y = p THEN heap[x].next_member ELSE heap[y].next_member
  BY <1>1, RemoveMemberFields
<1>3. /\ Links \in Linking /\ \A y \in Cells : Links[y] = heap[y].next_member
      /\ Acyclic(Links)
      /\ ListOf(k) = Reach(Links, h) /\ h \in Cells \cup {None}
  BY ChainIsReach DEF ListOf, Links
<1>4. /\ Links' \in Linking /\ \A y \in Cells : Links'[y] = heap'[y].next_member
      /\ ListOf(k)' = Reach(Links', h)
  BY ChainIsReachNext DEF ListOf
<1>5. ListOf(k)' = ListOf(k) \ {x}
  <2>1. h \in Cells
    BY <1>3, ChainCells DEF ListOf
  <2>2. /\ Links[p] = x /\ Links'[p] = Links[x]
        /\ \A y \in Cells \ {p} : Links'[y] = Links[y]
    BY <1>1, <1>2, <1>3, <1>4
  <2>3. p \in Reach(Links, h) /\ x \in Reach(Links, h) \ {h}
    BY <1>3
  <2>4. Reach(Links', h) = Reach(Links, h) \ {x}
    BY <1>3, <1>4, <2>1, <2>2, <2>3, ReachRemove
  <2> QED BY <1>3, <1>4, <2>4
<1>6. ASSUME NEW l \in DOMAIN rooms \ {k} PROVE ListOf(l)' = ListOf(l)
  <2>1. p \notin ListOf(l) /\ ListOf(l) \subseteq Cells
    BY ChainCells DEF Lists, ListsApart, ListOf
  <2>2. \A y \in ListOf(l) : heap'[y].next_member = heap[y].next_member
    BY <1>2, <2>1
  <2> QED BY <2>2, ListFrame
<1> QED BY <1>1, <1>2, <1>5, <1>6

\* A member who has joined is in the list of the room, and in no other (join_chatroom).
LEMMA JoinLists ==
  ASSUME TypeInv, TypeInv', UniqueRooms, Lists, NEW k \in DOMAIN rooms, NEW n \in Names,
         NEW i \in DOMAIN users, NEW x \in Allocatable, AddMember(k, n, i, x),
         n \notin members[rooms[k].name],
         members' = [members EXCEPT ![rooms[k].name] = @ \cup {n}]
  PROVE  Lists'
<1>1. /\ x \in Cells /\ \A l \in DOMAIN rooms : x \notin ListOf(l)
      /\ DOMAIN rooms' = DOMAIN rooms
      /\ \A l \in DOMAIN rooms : rooms'[l].name = rooms[l].name
      /\ ListOf(k)' = ListOf(k) \cup {x}
      /\ \A l \in DOMAIN rooms \ {k} : ListOf(l)' = ListOf(l)
      /\ heap'[x].name = n /\ heap'[x].state = "live"
      /\ \A y \in Cells \ {x} : heap'[y].name = heap[y].name /\ heap'[y].state = heap[y].state
  BY AddMemberLists
<1>2. \A l \in DOMAIN rooms : ListOf(l) \subseteq Cells
  BY ChainCells DEF ListOf
<1>3. \A l \in DOMAIN rooms : \A y \in ListOf(l) : y \in Cells \ {x} /\ heap'[y].name = heap[y].name
  BY <1>1, <1>2
<1>4. \A l \in DOMAIN rooms : rooms[l].name \in Rooms
  BY ChainIsReach
<1>5. /\ members'[rooms[k].name] = members[rooms[k].name] \cup {n}
      /\ \A l \in DOMAIN rooms \ {k} : members'[rooms[l].name] = members[rooms[l].name]
  <2>1. members \in [Rooms -> SUBSET Names]
    BY DEF TypeInv, TypeOK
  <2>2. \A l \in DOMAIN rooms \ {k} : rooms[l].name # rooms[k].name
    BY DEF UniqueRooms
  <2> QED BY <1>4, <2>1, <2>2
<1>6. NamesMatch'
  <2> SUFFICES ASSUME NEW l \in DOMAIN rooms
               PROVE  {heap'[y].name : y \in ListOf(l)'} = members'[rooms[l].name]
    BY <1>1 DEF NamesMatch
  <2>1. {heap[y].name : y \in ListOf(l)} = members[rooms[l].name]
    BY DEF Lists, NamesMatch
  <2>2. {heap'[y].name : y \in ListOf(l)} = members[rooms[l].name]
    BY <1>3, <2>1
  <2>3. CASE l = k
    <3>1. {heap'[y].name : y \in ListOf(l) \cup {x}} =
            {heap'[y].name : y \in ListOf(l)} \cup {n}
      BY <1>1
    <3>2. ListOf(l)' = ListOf(l) \cup {x}
      BY <1>1, <2>3
    <3> QED BY <1>5, <2>2, <2>3, <3>1, <3>2
  <2>4. CASE l # k
    <3>1. ListOf(l)' = ListOf(l)
      BY <1>1, <2>4
    <3> QED BY <1>5, <2>2, <2>4, <3>1
  <2> QED BY <2>3, <2>4
<1>7. NamesApart'
  <2> SUFFICES ASSUME NEW l \in DOMAIN rooms, NEW y \in ListOf(l)', NEW z \in ListOf(l)',
                      heap'[y].name = heap'[z].name
               PROVE  y = z
    BY <1>1 DEF NamesApart
  <2>1. \A w \in ListOf(k) : heap[w].name # n
    BY DEF Lists, NamesMatch
  <2>2. CASE l = k
    <3>1. y \in ListOf(k) \cup {x} /\ z \in ListOf(k) \cup {x}
      BY <1>1, <2>2
    <3>2. CASE y = x
      BY <1>1, <1>3, <2>1, <3>1, <3>2
    <3>3. CASE z = x
      BY <1>1, <1>3, <2>1, <3>1, <3>3
    <3>4. CASE y # x /\ z # x
      BY <1>3, <3>1, <3>4 DEF Lists, NamesApart
    <3> QED BY <3>2, <3>3, <3>4
  <2>3. CASE l # k
    <3>1. y \in ListOf(l) /\ z \in ListOf(l)
      BY <1>1, <2>3
    <3> QED BY <1>3, <3>1 DEF Lists, NamesApart
  <2> QED BY <2>2, <2>3
<1>8. ListsApart'
  <2> SUFFICES ASSUME NEW l \in DOMAIN rooms, NEW m \in DOMAIN rooms, l # m,
                      NEW y \in ListOf(l)', y \in ListOf(m)'
               PROVE  FALSE
    BY <1>1 DEF ListsApart
  <2>1. (y \in ListOf(l) \/ (l = k /\ y = x)) /\ (y \in ListOf(m) \/ (m = k /\ y = x))
    BY <1>1
  <2> QED BY <1>1, <2>1 DEF Lists, ListsApart
<1>9. LiveListed'
  <2> SUFFICES ASSUME NEW y \in Cells
               PROVE  heap'[y].state = "live" <=> \E l \in DOMAIN rooms : y \in ListOf(l)'
    BY <1>1 DEF LiveListed
  <2>1. CASE y = x
    BY <1>1, <2>1
  <2>2. CASE y # x
    <3>1. \A l \in DOMAIN rooms : y \in ListOf(l)' <=> y \in ListOf(l)
      BY <1>1, <2>2
    <3> QED BY <1>1, <2>2, <3>1 DEF Lists, LiveListed
  <2> QED BY <2>1, <2>2
<1> QED BY <1>6, <1>7, <1>8, <1>9 DEF Lists

\* A member who has left is in the list no more (exit_chatroom).
LEMMA ExitLists ==
  ASSUME TypeInv, TypeInv', WalksTerminate, UniqueRooms, Lists, UNCHANGED rooms,
         NEW k \in DOMAIN rooms, NEW x \in ListOf(k), NEW p \in ListOf(k),
         x # rooms[k].member, heap[p].next_member = x, RemoveMember(p, x),
         members' = [members EXCEPT ![rooms[k].name] = @ \ {heap[x].name}]
  PROVE  Lists'
<1> DEFINE n == heap[x].name
<1>1. /\ x \in Cells
      /\ ListOf(k)' = ListOf(k) \ {x}
      /\ \A l \in DOMAIN rooms \ {k} : ListOf(l)' = ListOf(l)
      /\ heap'[x].state = "freed"
      /\ \A y \in Cells \ {x} : heap'[y].name = heap[y].name /\ heap'[y].state = heap[y].state
  BY RemoveMemberLists
<1>2. \A l \in DOMAIN rooms : ListOf(l) \subseteq Cells
  BY ChainCells DEF ListOf
<1>3. \A l \in DOMAIN rooms \ {k} : x \notin ListOf(l)
  BY DEF Lists, ListsApart
<1>4. \A l \in DOMAIN rooms : \A y \in ListOf(l)' :
        y \in ListOf(l) /\ y \in Cells \ {x} /\ heap'[y].name = heap[y].name
  BY <1>1, <1>2, <1>3
<1>5. \A l \in DOMAIN rooms : rooms[l].name \in Rooms
  BY ChainIsReach
<1>6. /\ members'[rooms[k].name] = members[rooms[k].name] \ {n}
      /\ \A l \in DOMAIN rooms \ {k} : members'[rooms[l].name] = members[rooms[l].name]
  <2>1. members \in [Rooms -> SUBSET Names]
    BY DEF TypeInv, TypeOK
  <2>2. \A l \in DOMAIN rooms \ {k} : rooms[l].name # rooms[k].name
    BY DEF UniqueRooms
  <2> QED BY <1>5, <2>1, <2>2
<1>7. NamesMatch'
  <2> SUFFICES ASSUME NEW l \in DOMAIN rooms
               PROVE  {heap'[y].name : y \in ListOf(l)'} = members'[rooms[l].name]
    BY DEF NamesMatch
  <2>1. {heap[y].name : y \in ListOf(l)} = members[rooms[l].name]
    BY DEF Lists, NamesMatch
  <2>2. {heap'[y].name : y \in ListOf(l)'} = {heap[y].name : y \in ListOf(l)'}
    BY <1>4
  <2>3. CASE l = k
    <3>1. \A y \in ListOf(l) \ {x} : heap[y].name # n
      BY <2>3 DEF Lists, NamesApart
    <3>2. {heap[y].name : y \in ListOf(l) \ {x}} = {heap[y].name : y \in ListOf(l)} \ {n}
      BY <3>1
    <3>3. ListOf(l)' = ListOf(l) \ {x}
      BY <1>1, <2>3
    <3> QED BY <1>6, <2>1, <2>2, <2>3, <3>2, <3>3
  <2>4. CASE l # k
    <3>1. ListOf(l)' = ListOf(l)
      BY <1>1, <2>4
    <3> QED BY <1>6, <2>1, <2>2, <2>4, <3>1
  <2> QED BY <2>3, <2>4
<1>8. NamesApart'
  <2> SUFFICES ASSUME NEW l \in DOMAIN rooms, NEW y \in ListOf(l)', NEW z \in ListOf(l)',
                      heap'[y].name = heap'[z].name
               PROVE  y = z
    BY DEF NamesApart
  <2> QED BY <1>4 DEF Lists, NamesApart
<1>9. ListsApart'
  <2> SUFFICES ASSUME NEW l \in DOMAIN rooms, NEW m \in DOMAIN rooms, l # m,
                      NEW y \in ListOf(l)', y \in ListOf(m)'
               PROVE  FALSE
    BY DEF ListsApart
  <2> QED BY <1>4 DEF Lists, ListsApart
<1>10. LiveListed'
  <2> SUFFICES ASSUME NEW y \in Cells
               PROVE  heap'[y].state = "live" <=> \E l \in DOMAIN rooms : y \in ListOf(l)'
    BY DEF LiveListed
  <2>1. CASE y = x
    BY <1>1, <1>4, <2>1
  <2>2. CASE y # x
    <3>1. \A l \in DOMAIN rooms : y \in ListOf(l)' <=> y \in ListOf(l)
      BY <1>1, <2>2
    <3> QED BY <1>1, <2>2, <3>1 DEF Lists, LiveListed
  <2> QED BY <2>1, <2>2
<1> QED BY <1>7, <1>8, <1>9, <1>10 DEF Lists

\* A new room has no list and no members (create_chat_room).
LEMMA CreateLists ==
  ASSUME TypeInv, TypeInv', Lists, OnlyListedHaveMembers, UNCHANGED <<heap, members>>,
         NEW r \in Rooms, ~Listed(rooms, r),
         rooms' = Append(rooms, [name |-> r, member |-> None])
  PROVE  Lists'
<1>0. Len(rooms) + 1 \in Nat
  BY DEF TypeInv, TypeOK
<1> PICK m \in Nat : m = Len(rooms) + 1
  BY <1>0
<1>1. /\ DOMAIN rooms' = DOMAIN rooms \cup {m} /\ m \notin DOMAIN rooms
      /\ rooms'[m].name = r /\ rooms'[m].member = None
      /\ \A l \in DOMAIN rooms : rooms'[l] = rooms[l]
  BY DEF TypeInv, TypeOK
<1>2. ListOf(m)' = {}
  <2>1. Chain(None)' = {}
    BY ChainIsReachNext, ReachNone
  <2> QED BY <1>1, <2>1 DEF ListOf
<1>3. \A l \in DOMAIN rooms : ListOf(l)' = ListOf(l)
  BY <1>1, ListFrame
<1>4. members[r] = {}
  BY DEF OnlyListedHaveMembers
<1>5. NamesMatch'
  <2> SUFFICES ASSUME NEW l \in DOMAIN rooms'
               PROVE  {heap'[y].name : y \in ListOf(l)'} = members'[rooms'[l].name]
    BY DEF NamesMatch
  <2>1. CASE l = m
    BY <1>1, <1>2, <1>4, <2>1
  <2>2. CASE l \in DOMAIN rooms
    <3>1. {heap[y].name : y \in ListOf(l)} = members[rooms[l].name]
      BY <2>2 DEF Lists, NamesMatch
    <3>2. rooms'[l].name = rooms[l].name /\ ListOf(l)' = ListOf(l)
      BY <1>1, <1>3, <2>2
    <3> QED BY <3>1, <3>2
  <2> QED BY <1>1, <2>1, <2>2
<1>6. NamesApart'
  BY <1>1, <1>2, <1>3 DEF Lists, NamesApart
<1>7. ListsApart'
  BY <1>1, <1>2, <1>3 DEF Lists, ListsApart
<1>8. LiveListed'
  BY <1>1, <1>2, <1>3 DEF Lists, LiveListed
<1> QED BY <1>5, <1>6, <1>7, <1>8 DEF Lists

\* A request leaves the lists alone, or is one of those above; a room that has lost its
\* first member has lost it for good.
ListsStep ==
  \/ UNCHANGED <<rooms, heap, members>>
  \/ \E k \in DOMAIN rooms, n \in Names, i \in DOMAIN users : \E x \in Allocatable :
       /\ AddMember(k, n, i, x) /\ Found(rooms[k].member, n) = {}
       /\ members' = [members EXCEPT ![rooms[k].name] = @ \cup {n}]
  \/ /\ UNCHANGED <<rooms, heap>>
     /\ \E k \in DOMAIN rooms, n \in Names :
          /\ Found(rooms[k].member, n) = {}
          /\ members' = [members EXCEPT ![rooms[k].name] = @ \ {n}]
  \/ /\ UNCHANGED rooms
     /\ \E k \in DOMAIN rooms, n \in Names :
          \E x \in Found(rooms[k].member, n), p \in Chain(rooms[k].member) :
            /\ Previous(rooms[k].member, p, x) /\ RemoveMember(p, x)
            /\ x = rooms[k].member => tainted'
            /\ members' = [members EXCEPT ![rooms[k].name] = @ \ {n}]
  \/ /\ UNCHANGED <<heap, members>>
     /\ \E r \in Rooms : /\ ~Listed(rooms, r)
                         /\ rooms' = Append(rooms, [name |-> r, member |-> None])

\* Joining, leaving and creating a room are the only steps that change the lists.
LEMMA ListsSteps ==
  ASSUME TypeInv, Next
  PROVE  ListsStep /\ (tainted => tainted')
<1>1. PICK c \in Clients : Request(c) \/ Event(c)
  BY NextCases
<1>2. CASE Event(c)
  BY <1>2 DEF Event, accept, close_socket, hangup, end_thread, serverVars, historyVars, ListsStep
<1>3. ASSUME NEW n \in Names, NEW r \in Rooms, create_chat_room(c, n, r) PROVE ListsStep /\ (tainted => tainted')
  <2>1. UNCHANGED <<heap, members, tainted>>
    BY <1>3 DEF create_chat_room, historyVars
  <2>2. UNCHANGED rooms \/ (~Listed(rooms, r) /\ rooms' = Append(rooms, [name |-> r, member |-> None]))
    BY <1>3 DEF create_chat_room
  <2> QED BY <2>1, <2>2 DEF ListsStep
<1>4. ASSUME NEW n \in Names, NEW r \in Rooms, join_chatroom(c, n, r) PROVE ListsStep /\ (tainted => tainted')
  <2>1. n \in Names /\ UNCHANGED tainted
    BY <1>4 DEF join_chatroom, Chatting, TypeInv, TypeOK
  <2>2. \/ UNCHANGED <<rooms, heap, members>>
        \/ \E i \in FirstWithin(n), k \in First(rooms, r) : \E x \in Allocatable :
             /\ AddMember(k, n, i, x) /\ Found(rooms[k].member, n) = {}
             /\ members' = [members EXCEPT ![r] = @ \cup {n}]
    BY <1>4 DEF join_chatroom
  <2>3. \A i \in FirstWithin(n), k \in First(rooms, r) :
          i \in DOMAIN users /\ k \in DOMAIN rooms /\ rooms[k].name = r
    BY DEF FirstWithin, First
  <2> QED BY <2>1, <2>2, <2>3 DEF ListsStep
<1>5. ASSUME NEW n \in Names, NEW r \in Rooms, exit_chatroom(c, n, r) PROVE ListsStep /\ (tainted => tainted')
  <2>1. n \in Names /\ UNCHANGED rooms
    BY <1>5 DEF exit_chatroom, Chatting, TypeInv, TypeOK
  <2>2. tainted => tainted'
    BY <1>5 DEF exit_chatroom
  <2>3. \A k \in First(rooms, r) : k \in DOMAIN rooms /\ rooms[k].name = r
    BY DEF First
  <2>4. CASE UNCHANGED <<heap, members>>
    BY <2>1, <2>2, <2>4 DEF ListsStep
  <2>5. ASSUME NEW k \in First(rooms, r), members' = [members EXCEPT ![r] = @ \ {n}],
               Found(rooms[k].member, n) = {}, UNCHANGED heap
        PROVE  ListsStep
    BY <2>1, <2>3, <2>5 DEF ListsStep
  <2>6. ASSUME NEW k \in First(rooms, r), members' = [members EXCEPT ![r] = @ \ {n}],
               NEW x \in Found(rooms[k].member, n), NEW p \in Chain(rooms[k].member),
               Previous(rooms[k].member, p, x), RemoveMember(p, x),
               tainted' = (tainted \/ x = rooms[k].member)
        PROVE  ListsStep
    BY <2>1, <2>3, <2>6 DEF ListsStep
  <2> QED BY <1>5, <2>2, <2>4, <2>5, <2>6 DEF exit_chatroom
<1>6. CASE \/ \E n \in Names, pw \in Passwords : register_user(c, n, pw) \/ login_user(c, n, pw)
           \/ \E n, rn \in Names : forward_private_data(c, n, rn)
           \/ \E n \in Names, r \in Rooms : forward_chat_room_data(c, n, r)
  <2>1. UNCHANGED <<rooms, heap, members, tainted>>
    BY <1>6 DEF register_user, login_user, forward_private_data, forward_chat_room_data,
                serverVars, historyVars
  <2> QED BY <2>1 DEF ListsStep
<1> QED
  BY <1>1, <1>2, <1>3, <1>4, <1>5, <1>6 DEF Request

\* As long as no room has lost its first member, every step keeps the lists right.
LEMMA ListsKept ==
  ASSUME TypeInv, TypeInv', HeapInv, UniqueRooms, Lists, OnlyListedHaveMembers, ListsStep, ~tainted'
  PROVE  Lists'
<1>1. \A k \in DOMAIN rooms : rooms[k].name \in Rooms
  BY ChainIsReach
<1>2. members \in [Rooms -> SUBSET Names]
  BY DEF TypeInv, TypeOK
<1>3. CASE UNCHANGED <<rooms, heap, members>>
  <2>1. \A l \in DOMAIN rooms : ListOf(l)' = ListOf(l)
    BY <1>3, ListFrame
  <2> QED
    BY <1>3, <2>1 DEF Lists, NamesMatch, NamesApart, ListsApart, LiveListed
<1>4. ASSUME NEW k \in DOMAIN rooms, NEW n \in Names, NEW i \in DOMAIN users,
             NEW x \in Allocatable, AddMember(k, n, i, x), Found(rooms[k].member, n) = {},
             members' = [members EXCEPT ![rooms[k].name] = @ \cup {n}]
      PROVE  Lists'
  BY <1>4, JoinLists, FoundNothing
<1>5. ASSUME UNCHANGED <<rooms, heap>>, NEW k \in DOMAIN rooms, NEW n \in Names,
             Found(rooms[k].member, n) = {},
             members' = [members EXCEPT ![rooms[k].name] = @ \ {n}]
      PROVE  Lists'
  <2>1. n \notin members[rooms[k].name]
    BY <1>5, FoundNothing
  <2>2. members' = members
    BY <1>1, <1>2, <1>5, <2>1
  <2> QED BY <1>3, <1>5, <2>2
<1>6. ASSUME UNCHANGED rooms, NEW k \in DOMAIN rooms, NEW n \in Names,
             NEW x \in Found(rooms[k].member, n), NEW p \in Chain(rooms[k].member),
             Previous(rooms[k].member, p, x), RemoveMember(p, x),
             x = rooms[k].member => tainted',
             members' = [members EXCEPT ![rooms[k].name] = @ \ {n}]
      PROVE  Lists'
  <2>1. x \in ListOf(k) /\ heap[x].name = n /\ p \in ListOf(k)
    BY FoundNothing DEF ListOf
  <2>2. x # rooms[k].member /\ heap[p].next_member = x
    BY <1>6 DEF Previous
  <2>3. WalksTerminate
    BY DEF HeapInv
  <2> QED BY <1>6, <2>1, <2>2, <2>3, ExitLists
<1>7. ASSUME UNCHANGED <<heap, members>>, NEW r \in Rooms, ~Listed(rooms, r),
             rooms' = Append(rooms, [name |-> r, member |-> None])
      PROVE  Lists'
  BY <1>7, CreateLists
<1> QED
  BY <1>3, <1>4, <1>5, <1>6, <1>7 DEF ListsStep

\* Only a room that is in the list gets members, and rooms stay in it.
LEMMA OnlyListedKept ==
  ASSUME TypeInv, OnlyListedHaveMembers, ListsStep
  PROVE  OnlyListedHaveMembers'
<1>0. rooms \in Seq(Room) /\ members \in [Rooms -> SUBSET Names]
  BY DEF TypeInv, TypeOK
<1>1. ASSUME NEW r \in Rooms, Listed(rooms, r) PROVE Listed(rooms', r)
  <2>1. PICK j \in DOMAIN rooms : rooms[j].name = r
    BY <1>1 DEF Listed
  <2>2. CASE UNCHANGED rooms
    BY <2>1, <2>2 DEF Listed
  <2>3. ASSUME NEW k \in DOMAIN rooms, NEW x, rooms' = [rooms EXCEPT ![k].member = x]
        PROVE  Listed(rooms', r)
    <3>1. rooms[j] \in Room
      BY <1>0
    <3>2. j \in DOMAIN rooms' /\ rooms'[j].name = r
      BY <1>0, <2>1, <2>3, <3>1 DEF Room
    <3> QED BY <3>2 DEF Listed
  <2>4. ASSUME NEW u, rooms' = Append(rooms, u) PROVE Listed(rooms', r)
    <3>1. j \in DOMAIN rooms' /\ rooms'[j] = rooms[j]
      BY <1>0, <2>4
    <3> QED BY <2>1, <3>1 DEF Listed
  <2> QED BY <2>2, <2>3, <2>4 DEF ListsStep, AddMember
<1> SUFFICES ASSUME NEW r \in Rooms, ~Listed(rooms', r) PROVE members'[r] = {}
  BY DEF OnlyListedHaveMembers, Listed
<1>2. ~Listed(rooms, r) /\ members[r] = {}
  BY <1>1 DEF OnlyListedHaveMembers
<1>3. \A k \in DOMAIN rooms : rooms[k].name # r
  BY <1>2 DEF Listed
<1>4. members'[r] = members[r]
  BY <1>0, <1>3 DEF ListsStep
<1> QED BY <1>2, <1>4

\* There is no room at the start, no member and no chunk in use (main).
LEMMA ListInvInit == Init => ListInv
<1> QED
  BY DEF Init, ListInv, Lists, NamesMatch, NamesApart, ListsApart, LiveListed, OnlyListedHaveMembers

\* Every step keeps the lists in accord with who has joined and left.
LEMMA ListInvStep ==
  TypeInv /\ TypeInv' /\ HeapInv /\ UniqueRooms /\ ListInv /\ [Next]_vars => ListInv'
<1> SUFFICES ASSUME TypeInv, TypeInv', HeapInv, UniqueRooms, ListInv, [Next]_vars PROVE ListInv'
  OBVIOUS
<1>1. ListsStep /\ (tainted => tainted')
  <2>1. CASE UNCHANGED vars
    BY <2>1 DEF vars, serverVars, historyVars, ListsStep
  <2> QED BY <2>1, ListsSteps
<1>2. OnlyListedHaveMembers'
  BY <1>1, OnlyListedKept DEF ListInv
<1>3. ~tainted' => Lists'
  BY <1>1, ListsKept DEF ListInv
<1> QED BY <1>2, <1>3 DEF ListInv

\* The rooms' names stay apart.
LEMMA UniqueRoomsInvariant == Spec => []UniqueRooms
<1>1. Init => UniqueRooms
  BY DEF Init, UniqueRooms
<1> QED
  BY TypeInvariant, <1>1, UniqueRoomsStep, PTL DEF Spec

\* The strengthened invariant of lists and membership holds in every state.
LEMMA ListInvariant == Spec => []ListInv
<1> QED
  BY TypeInvariant, HeapInvariant, UniqueRoomsInvariant, ListInvInit, ListInvStep, PTL DEF Spec

\* As long as no room has lost its first member, the list of each room holds exactly
\* those who were told that they had joined and have not left.
THEOREM ListsHoldTheMembers == Spec => []ListsMatchMembership
<1>1. TypeInv /\ ListInv => ListsMatchMembership
  BY ListsMeaning DEF ListInv
<1> QED
  BY TypeInvariant, ListInvariant, <1>1, PTL

-------------------------------------------------------------------------------
(* What ends the server                                                    *)

\* A client has gone and the server has still open what it was connected by.
LeftOpen == \E f \in Fds, d \in Clients : open[f] = d /\ phase[d] = "quit"

\* None, or the client at some descriptor.
AtDescriptor(d) == d = None \/ \E f \in Fds : d = Peer(f)

\* A handler that ends the process has written to a client that has gone or walked
\* over a chunk that was freed (Answer).
LEMMA AnswerEnds ==
  ASSUME TypeInv, NEW id, NEW c \in Clients, NEW r, NEW err, NEW sent, NEW visited,
         Reads(c), \A m \in sent : AtDescriptor(m.to),
         Answer(id, c, r, err, sent, visited), ~up'
  PROVE  \/ LeftOpen
         \/ \E x \in visited : heap[x].state = "freed"
<1>1. \/ \E d \in WrittenTo(id, c, err, sent) \ {None} : phase[d] = "quit"
      \/ \E x \in visited : heap[x].state = "freed"
  BY DEF Answer
<1>2. conn[c] \in Fds
  BY DEF Reads, TypeInv, TypeOK, ConnOK
<1>3. \A d \in WrittenTo(id, c, err, sent) : AtDescriptor(d)
  BY <1>2 DEF WrittenTo, AtDescriptor
<1>4. ASSUME NEW f \in Fds, Peer(f) # None, phase[Peer(f)] = "quit" PROVE LeftOpen
  BY <1>4 DEF Peer, LeftOpen
<1> QED BY <1>1, <1>3, <1>4 DEF AtDescriptor

\* What a handler walks over is part of a room's list.
LEMMA WalkedLists ==
  ASSUME TypeInv, ListInv, NEW k \in DOMAIN rooms, NEW visited,
         visited \subseteq Chain(rooms[k].member),
         \E x \in visited : heap[x].state = "freed"
  PROVE  tainted
<1> SUFFICES ASSUME ~tainted PROVE FALSE
  OBVIOUS
<1>1. PICK x \in Chain(rooms[k].member) : heap[x].state = "freed"
  OBVIOUS
<1>2. x \in Cells /\ x \in ListOf(k)
  BY ChainCells DEF ListOf
<1>3. heap[x].state = "live"
  BY <1>2 DEF ListInv, Lists, LiveListed
<1> QED BY <1>1, <1>3

\* Every request that ends the process has one of the two causes.
LEMMA RequestEnds ==
  ASSUME TypeInv, HeapInv, ListInv, NEW c \in Clients, Request(c), ~up'
  PROVE  tainted \/ LeftOpen
<1> DEFINE Goal == tainted \/ LeftOpen
<1>0. Reads(c)
  BY DEF Request, Entering, Chatting, register_user, login_user, forward_private_data,
         create_chat_room, join_chatroom, exit_chatroom, forward_chat_room_data
<1>1. ASSUME NEW id, NEW r, NEW err, Answer(id, c, r, err, {}, {}) PROVE Goal
  BY <1>0, <1>1, AnswerEnds
<1>2. ASSUME NEW id, NEW r, NEW err, NEW k \in DOMAIN rooms, NEW visited,
             visited \subseteq Chain(rooms[k].member), Answer(id, c, r, err, {}, visited)
      PROVE  Goal
  BY <1>0, <1>2, AnswerEnds, WalkedLists
<1>3. ASSUME NEW n \in Names, NEW pw \in Passwords, register_user(c, n, pw) \/ login_user(c, n, pw)
      PROVE  Goal
  BY <1>1, <1>3 DEF register_user, login_user
<1>4. ASSUME NEW n \in Names, NEW r \in Rooms, create_chat_room(c, n, r) PROVE Goal
  BY <1>1, <1>4 DEF create_chat_room
<1>5. \A list, n : First(list, n) \subseteq DOMAIN list
  BY DEF First
<1>6. \A h, n : Visited(h, n) \subseteq Chain(h)
  BY DEF Visited
<1>7. ASSUME NEW n \in Names, NEW r \in Rooms, join_chatroom(c, n, r) PROVE Goal
  <2>1. CASE \E err : Answer("JOIN", c, r, err, {}, {})
    BY <1>1, <2>1
  <2>2. CASE \E err, visited : \E k \in First(rooms, r) :
               visited \subseteq Chain(rooms[k].member) /\ Answer("JOIN", c, r, err, {}, visited)
    BY <1>2, <1>5, <2>2
  <2> QED BY <1>6, <1>7, <2>1, <2>2 DEF join_chatroom
<1>8. ASSUME NEW n \in Names, NEW r \in Rooms, exit_chatroom(c, n, r) PROVE Goal
  <2>1. CASE \E err : Answer("EXIT", c, r, err, {}, {})
    BY <1>1, <2>1
  <2>2. CASE \E err : \E k \in First(rooms, r) :
               Answer("EXIT", c, r, err, {}, Visited(rooms[k].member, n))
    BY <1>2, <1>5, <1>6, <2>2
  <2> QED BY <1>8, <2>1, <2>2 DEF exit_chatroom
<1>9. ASSUME NEW n \in Names, NEW rn \in Names, forward_private_data(c, n, rn) PROVE Goal
  <2>1. ASSUME NEW i \in First(users, rn),
               Answer("PRIVATE_DATA", c, None, SUCCESS,
                      {[to |-> Peer(users[i].connfd), name |-> rn, cell |-> None]}, {})
        PROVE  Goal
    <3>1. i \in DOMAIN users /\ users[i] \in User
      BY <1>5 DEF TypeInv, TypeOK
    <3>2. users[i].connfd \in Fds
      BY <3>1 DEF User
    <3>3. \A m \in {[to |-> Peer(users[i].connfd), name |-> rn, cell |-> None]} : AtDescriptor(m.to)
      BY <3>2 DEF AtDescriptor
    <3> QED BY <1>0, <2>1, <3>3, AnswerEnds
  <2> QED BY <1>1, <1>9, <2>1 DEF forward_private_data
<1>10. ASSUME NEW n \in Names, NEW r \in Rooms, forward_chat_room_data(c, n, r), ~tainted
       PROVE  LeftOpen
  <2>1. ASSUME NEW k \in First(rooms, r),
               Answer("CHAT_ROOM_DATA", c, r, SUCCESS,
                      {Copy(x) : x \in Receivers(rooms[k].member, n)}, Chain(rooms[k].member))
        PROVE  LeftOpen
    <3>1. ASSUME NEW x \in Receivers(rooms[k].member, n) PROVE AtDescriptor(Copy(x).to)
      <4>1. x \in Chain(rooms[k].member) /\ x \in Cells /\ k \in DOMAIN rooms
        BY <1>5, ChainCells DEF Receivers
      <4>2. heap[x].state = "live"
        BY <1>10, <4>1 DEF ListInv, Lists, LiveListed, ListOf
      <4>3. heap[x].ptr_to_user \in DOMAIN users
        BY <4>1, <4>2 DEF HeapInv, OwnerConsistent
      <4>4. users[heap[x].ptr_to_user] \in User
        BY <4>3 DEF TypeInv, TypeOK
      <4>5. users[heap[x].ptr_to_user].connfd \in Fds
        BY <4>4 DEF User
      <4> QED BY <4>5 DEF AtDescriptor, Copy
    <3>2. \/ LeftOpen
          \/ \E x \in Chain(rooms[k].member) : heap[x].state = "freed"
      <4>1. \A m \in {Copy(x) : x \in Receivers(rooms[k].member, n)} : AtDescriptor(m.to)
        BY <3>1
      <4> QED BY <1>0, <2>1, <4>1, AnswerEnds
    <3> QED BY <1>5, <1>10, <3>2, WalkedLists
  <2> QED BY <1>0, <1>1, <1>10, <2>1 DEF forward_chat_room_data
<1> QED
  BY <1>3, <1>4, <1>7, <1>8, <1>9, <1>10 DEF Request

\* A step that ends the server is main's return, or has one of the two causes.
LEMMA CrashCausesStep ==
  ASSUME TypeInv, HeapInv, ListInv, Next, up, ~up'
  PROVE  (\E c \in Clients : accept(c)) \/ LeftOpen \/ tainted
<1>1. PICK c \in Clients : Request(c) \/ Event(c)
  BY NextCases
<1>2. CASE Request(c)
  BY <1>2, RequestEnds
<1>3. CASE Event(c)
  BY <1>3 DEF Event, close_socket, hangup, end_thread
<1> QED BY <1>1, <1>2, <1>3

\* No request ends the server once the connections of those who have gone are closed,
\* in rooms that keep their first members.
THEOREM RequestsAreSurvived == Spec => CrashCauses
<1> DEFINE Cause == \/ \E c \in Clients : accept(c)
                    \/ \E f \in Fds, c \in Clients : open[f] = c /\ phase[c] = "quit"
                    \/ tainted
           Step == (up /\ ~up') => Cause
<1>1. TypeInv /\ HeapInv /\ ListInv /\ [Next]_vars => [Step]_vars
  BY CrashCausesStep DEF LeftOpen
<1> QED
  BY TypeInvariant, HeapInvariant, ListInvariant, <1>1, PTL DEF Spec, CrashCauses

-------------------------------------------------------------------------------
(* Messages to a room                                                      *)

\* In a room whose list is right, the copies of a message are one for each member who
\* is logged in, other than the sender.
LEMMA FanoutOfRoom ==
  ASSUME TypeInv, HeapInv, AccountInv, Lists, NEW k \in DOMAIN rooms, NEW n
  PROVE  LET copies == {Copy(x) : x \in Receivers(rooms[k].member, n)} IN
         /\ {m.name : m \in copies} =
              {o \in members[rooms[k].name] \ {n} : \E i \in First(users, o) : users[i].login = 1}
         /\ \A m, w \in copies : m.name = w.name => m = w
<1> DEFINE to == Receivers(rooms[k].member, n)
           copies == {Copy(x) : x \in to}
<1>1. \A x \in ListOf(k) : /\ x \in Cells
                           /\ heap[x].ptr_to_user \in DOMAIN users
                           /\ users[heap[x].ptr_to_user].name = heap[x].name
  BY ChainCells DEF Lists, LiveListed, HeapInv, OwnerConsistent, ListOf
<1>2. \A x \in ListOf(k) : First(users, heap[x].name) = {heap[x].ptr_to_user}
  <2> SUFFICES ASSUME NEW x \in ListOf(k) PROVE First(users, heap[x].name) = {heap[x].ptr_to_user}
    OBVIOUS
  <2>0. DOMAIN users = 1 .. Len(users) /\ Len(users) \in Nat
    BY DEF TypeInv, TypeOK
  <2>1. \A j \in 1 .. (heap[x].ptr_to_user - 1) : j \in DOMAIN users /\ j # heap[x].ptr_to_user
    BY <1>1, <2>0
  <2>2. \A j \in 1 .. (heap[x].ptr_to_user - 1) : users[j].name # heap[x].name
    BY <1>1, <2>1 DEF AccountInv, UniqueUsers
  <2>3. heap[x].ptr_to_user \in First(users, heap[x].name)
    BY <1>1, <2>2 DEF First
  <2>4. \A i \in First(users, heap[x].name) : i = heap[x].ptr_to_user
    BY <1>1 DEF First, AccountInv, UniqueUsers
  <2> QED BY <2>3, <2>4
<1>3. \A x \in to : x \in ListOf(k) /\ heap[x].name # n /\ users[heap[x].ptr_to_user].login = 1
  BY DEF Receivers, ListOf
<1>4. \A x \in ListOf(k) : heap[x].name # n /\ users[heap[x].ptr_to_user].login = 1 => x \in to
  BY DEF Receivers, ListOf
<1>5. \A x : Copy(x).name = heap[x].name
  BY DEF Copy
<1>6. {heap[x].name : x \in ListOf(k)} = members[rooms[k].name]
  BY DEF Lists, NamesMatch
<1>7. {m.name : m \in copies} = {heap[x].name : x \in to}
  BY <1>5
<1>8. {heap[x].name : x \in to} =
        {o \in members[rooms[k].name] \ {n} : \E i \in First(users, o) : users[i].login = 1}
  <2>1. ASSUME NEW x \in to
        PROVE  /\ heap[x].name \in members[rooms[k].name] \ {n}
               /\ \E i \in First(users, heap[x].name) : users[i].login = 1
    BY <1>2, <1>3, <1>6
  <2>2. ASSUME NEW o \in members[rooms[k].name] \ {n}, NEW i \in First(users, o), users[i].login = 1
        PROVE  o \in {heap[x].name : x \in to}
    <3>1. PICK x \in ListOf(k) : heap[x].name = o
      BY <1>6
    <3>2. x \in to
      BY <1>2, <1>4, <2>2, <3>1
    <3> QED BY <3>1, <3>2
  <2> QED BY <2>1, <2>2
<1>9. ASSUME NEW x \in to, NEW y \in to, Copy(x).name = Copy(y).name PROVE Copy(x) = Copy(y)
  BY <1>3, <1>5, <1>9 DEF Lists, NamesApart
<1>10. \A m, w \in copies : m.name = w.name => m = w
  BY <1>9
<1>11. {m.name : m \in copies} =
         {o \in members[rooms[k].name] \ {n} : \E i \in First(users, o) : users[i].login = 1}
  BY <1>7, <1>8
<1> QED BY <1>10, <1>11

\* A message to a room whose list is right goes once to each of its members who is
\* logged in, other than the sender, and to nobody else.
THEOREM MessagesReachTheMembers == Spec => RoomFanout
<1> DEFINE Step ==
      \A c \in Clients, s \in Names, r \in Rooms :
        forward_chat_room_data(c, s, r) /\ ~tainted /\ out'.err = SUCCESS =>
          /\ {m.name : m \in out'.sent} =
               {n \in members[r] \ {s} : \E i \in First(users, n) : users[i].login = 1}
          /\ \A m, w \in out'.sent : m.name = w.name => m = w
<1>1. TypeInv /\ HeapInv /\ AccountInv /\ ListInv => Step
  <2> SUFFICES ASSUME TypeInv, HeapInv, AccountInv, ListInv, NEW c \in Clients, NEW s \in Names,
                      NEW r \in Rooms,
                      forward_chat_room_data(c, s, r), ~tainted, out'.err = SUCCESS
               PROVE  /\ {m.name : m \in out'.sent} =
                           {n \in members[r] \ {s} :
                              \E i \in First(users, n) : users[i].login = 1}
                      /\ \A m, w \in out'.sent : m.name = w.name => m = w
    OBVIOUS
  <2>1. \A visited, sent : ~Answer("CHAT_ROOM_DATA", c, r, CHAT_ROOM_DOES_NOT_EXIST, sent, visited)
    <3> SUFFICES ASSUME NEW visited, NEW sent,
                        Answer("CHAT_ROOM_DATA", c, r, CHAT_ROOM_DOES_NOT_EXIST, sent, visited)
                 PROVE  FALSE
      OBVIOUS
    <3>1. out'.err = CHAT_ROOM_DOES_NOT_EXIST
      BY DEF Answer
    <3> QED BY <3>1 DEF SUCCESS, CHAT_ROOM_DOES_NOT_EXIST
  <2>2. PICK k \in First(rooms, r) :
          out'.sent = {Copy(x) : x \in Receivers(rooms[k].member, s)}
    BY <2>1, AnswerSent DEF forward_chat_room_data
  <2>3. k \in DOMAIN rooms /\ rooms[k].name = r
    BY DEF First
  <2>4. Lists
    BY DEF ListInv
  <2> QED BY <2>2, <2>3, <2>4, FanoutOfRoom
<1>2. TypeInv /\ HeapInv /\ AccountInv /\ ListInv /\ [Next]_vars => [Step]_vars
  BY <1>1
<1> QED
  BY TypeInvariant, HeapInvariant, AccountInvariant, ListInvariant, <1>2, PTL
  DEF Spec, RoomFanout

===============================================================================
