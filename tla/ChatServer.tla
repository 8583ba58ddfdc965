------------------------------ MODULE ChatServer ------------------------------
(***************************************************************************)
(* The TCP chat server, src/india/src/server/india_messages_server.c, with *)
(* one action per case of the switch in handle_clients and one per         *)
(* connection event.  Each request handler is one step: this module is     *)
(* about what a sequence of requests of several clients does to the        *)
(* server's lists.  The interleavings inside register_user and login_user  *)
(* are the subject of module UserList, the write() calls of one message    *)
(* that of module Wire.                                                    *)
(*                                                                         *)
(* The member lists are kept as the heap has them: chunks linked by        *)
(* next_member, freed by exit_chatroom and handed out again by malloc.     *)
(***************************************************************************)
EXTENDS Integers, Sequences, FiniteSets

CONSTANTS
  Clients,         \* client programs; each connects at most once
  Names,           \* nicknames
  Passwords,
  Rooms,           \* chat room names
  Cells,           \* heap chunks that can hold a struct participant
  Fds,             \* descriptors accept() can return
  MAX_USER_COUNT,  \* the limit of the search loops of login_user and join_chatroom
  None             \* null pointer, no nickname, no client, no descriptor

ASSUME FdsAssumption == Fds \subseteq Nat
ASSUME CellsAssumption == IsFiniteSet(Cells)
ASSUME LimitAssumption == MAX_USER_COUNT \in Nat
ASSUME NoneAssumption ==
  None \notin Clients \cup Names \cup Passwords \cup Rooms \cup Cells \cup Fds

\* Error codes of india_messages_protocol.h
SUCCESS == 0
NICK_NAME_IN_USE == 1
CHAT_ROOM_DOES_NOT_EXIST == 2
CHAT_ROOM_NAME_IN_USE == 3
USER_DOES_NOT_EXIST == 4
WRONG_PW == 5
OUT_OF_MEMORY == 99

VARIABLES
  up,       \* FALSE once the server process has died
  users,    \* the list at root_user, in registration order
  rooms,    \* the list at root_chatroom, in creation order
  heap,     \* the participant chunks
  phase,    \* where each client's connection is
  conn,     \* descriptor held by the server thread of each client
  open,     \* the client at the other end of each descriptor, None if it is closed
  nick,     \* nickname under which each client has entered the service
  out,      \* the last request handled: its answer and what it forwarded
  last,     \* history: the client that last registered or logged in as a name
  members,  \* history: who has joined a room and not left it, by the answers given
  tainted   \* history: the first member of some room has left it

serverVars  == <<users, rooms, heap>>
clientVars  == <<phase, conn, open, nick>>
historyVars == <<last, members, tainted>>
vars == <<up, serverVars, clientVars, out, historyVars>>

-------------------------------------------------------------------------------
(* Types                                                                   *)

User == [name: Names, pw: Passwords, login: {0, 1}, connfd: Fds]
Room == [name: Rooms, member: Cells \cup {None}]

\* A struct participant.  ptr_to_user is the position of the user in the list:
\* users are never freed nor moved.  free() writes its own links over the name
\* (None) and leaves the other two fields; a chunk never handed out is "unused".
Participant == [state: {"unused", "live", "freed"}, name: Names \cup {None},
                ptr_to_user: Nat, next_member: Cells \cup {None}]

\* "closing": the thread has left handle_clients, which has closed its descriptor,
\* and start_routine has not yet closed it again.
Phase == {"new", "connected", "quit", "closing", "ended"}

Forward == [to: Clients \cup {None}, name: Names \cup {None}, cell: Cells \cup {None}]

\* The requests of india_messages_protocol.h that change the lists or are forwarded.
RequestId == {"REGISTER_USER", "LOGIN", "JOIN", "EXIT", "CREATE_CHAT_ROOM",
              "CHAT_ROOM_DATA", "PRIVATE_DATA"}

Output == [id: RequestId \cup {"none"}, from: Clients \cup {None}, room: Rooms \cup {None},
           err: Int, sent: SUBSET Forward]

TypeOK ==
  /\ up \in BOOLEAN
  /\ users \in Seq(User)
  /\ rooms \in Seq(Room)
  /\ heap \in [Cells -> Participant]
  /\ phase \in [Clients -> Phase]
  /\ conn \in [Clients -> Fds \cup {None}]
  /\ open \in [Fds -> Clients \cup {None}]
  /\ nick \in [Clients -> Names \cup {None}]
  /\ out \in Output
  /\ last \in [Names -> Clients \cup {None}]
  /\ members \in [Rooms -> SUBSET Names]
  /\ tainted \in BOOLEAN

-------------------------------------------------------------------------------
(* Walking the lists                                                       *)

\* The position of the first element called n, as a set with at most one element.
First(list, n) ==
  {i \in DOMAIN list : list[i].name = n /\ \A j \in 1 .. (i - 1) : list[j].name # n}

Listed(list, n) == \E i \in DOMAIN list : list[i].name = n

\* Mutant: the loop stops one user early.
FirstWithin_Short(n) == {i \in First(users, n) : i < MAX_USER_COUNT}

\* The users the loops bounded by MAX_USER_COUNT find.
FirstWithin(n) == {i \in First(users, n) : i <= MAX_USER_COUNT}

Closed(S) == \A x \in S : heap[x].next_member \in S \cup {None}

\* The chunks a walk along next_member visits that starts at h.
Chain(h) ==
  {x \in Cells : \A S \in SUBSET Cells : h \in S \cup {None} /\ Closed(S) => x \in S}

\* The chunk at which a walk from h looking for name n stops, if it finds it.
Found(h, n) ==
  {x \in Chain(h) : /\ heap[x].name = n
                    /\ \A y \in Chain(h) \ {x} :
                         heap[y].name = n => y \in Chain(heap[x].next_member)}

\* The chunks visited by that walk: all of the list when the name is not in it.
Visited(h, n) ==
  {y \in Chain(h) : \A x \in Found(h, n) : x \in Chain(y)}

-------------------------------------------------------------------------------
(* Threads and their descriptors                                           *)

\* The client at the other end of a descriptor, None if nothing is open under it.
Peer(f) == IF open[f] \in Clients THEN open[f] ELSE None

\* c's thread is in the loop of handle_clients.
Reads(c) == phase[c] \in {"connected", "quit"}

\* The descriptor c's thread holds is still c's connection.
Owns(c) == Reads(c) /\ open[conn[c]] = c

\* What c's thread reads is what c sends.  It is not once the second close() of some
\* other thread has closed c's descriptor, or while a thread to which that has
\* happened reads from the number that accept() has given to c.
Sound(c) == Owns(c) /\ \A d \in Clients \ {c} : Reads(d) => conn[d] # conn[c]

-------------------------------------------------------------------------------
(* The step's output and its fatal outcomes                                *)

\* A message to a room is not answered, a private message only if it fails.
Answered(id, err) == id # "CHAT_ROOM_DATA" /\ (id = "PRIVATE_DATA" => err # SUCCESS)

\* The clients the handler writes to.
WrittenTo(id, c, err, sent) ==
  {m.to : m \in sent} \cup (IF Answered(id, err) THEN {Peer(conn[c])} ELSE {})

\* The thread of client c comes to the result err and forwards the messages sent; it
\* has walked over the chunks in visited.  The server installs no SIGPIPE handler,
\* so a write() to a peer that has gone may end the process; so may following the
\* pointers of a freed chunk, whose bytes another malloc may have rewritten.
Answer(id, c, r, err, sent, visited) ==
  /\ out' = [id |-> id, from |-> c, room |-> r, err |-> err, sent |-> sent]
  /\ up' \in IF \/ \E d \in WrittenTo(id, c, err, sent) \ {None} : phase[d] = "quit"
                \/ \E x \in visited : heap[x].state = "freed"
             THEN BOOLEAN ELSE {TRUE}

\* The requests a client sends before and after it has entered the service, n being
\* the name in the field sender.  A client asks to enter until it has been let in
\* and then gives its nickname; what it has sent may be read when it has gone.  A
\* thread that is not sound takes its fields from two streams, or keeps those of an
\* earlier message as a read() fails, so that it may come to handle anything.
Entering(c) == up /\ Reads(c) /\ (Sound(c) => nick[c] = None)
Chatting(c, n) == up /\ Reads(c) /\ (Sound(c) => nick[c] = n)

-------------------------------------------------------------------------------
(* REGISTER_USER and LOGIN                                                 *)

\* The client takes n as its nickname when the answer is SUCCESS.
Enter(c, n) ==
  /\ nick' = [nick EXCEPT ![c] = n]
  /\ last' = [last EXCEPT ![n] = c]

\* Mutant: only users who are logged in keep their name.
NameInUse_Online(n) == \E i \in First(users, n) : users[i].login = 1

NameInUse(n) == Listed(users, n)

register_user(c, n, pw) ==
  /\ Entering(c)
  /\ \/ /\ NameInUse(n)
        /\ Answer("REGISTER_USER", c, None, NICK_NAME_IN_USE, {}, {})
        /\ UNCHANGED <<users, nick, last>>
     \/ /\ ~NameInUse(n)
        /\ users' = Append(users, [name |-> n, pw |-> pw, login |-> 1, connfd |-> conn[c]])
        /\ Enter(c, n)
        /\ Answer("REGISTER_USER", c, None, SUCCESS, {}, {})
  /\ UNCHANGED <<rooms, heap, phase, conn, open, members, tainted>>

\* Mutants: a password is not looked at, a login leaves the descriptor as it was,
\* or the status.
PasswordMatches_Any(i, pw) == pw \in Passwords
LoggedIn_OldConnection(i, f) == [users[i] EXCEPT !.login = 1]
LoggedIn_OldStatus(i, f) == [users[i] EXCEPT !.connfd = f]

PasswordMatches(i, pw) == users[i].pw = pw
LoggedIn(i, f) == [users[i] EXCEPT !.login = 1, !.connfd = f]

login_user(c, n, pw) ==
  /\ Entering(c)
  /\ \/ /\ FirstWithin(n) = {}
        /\ Answer("LOGIN", c, None, USER_DOES_NOT_EXIST, {}, {})
        /\ UNCHANGED <<users, nick, last>>
     \/ \E i \in FirstWithin(n) :
          /\ ~PasswordMatches(i, pw)
          /\ Answer("LOGIN", c, None, WRONG_PW, {}, {})
          /\ UNCHANGED <<users, nick, last>>
     \/ \E i \in FirstWithin(n) :
          /\ PasswordMatches(i, pw)
          /\ users' = [users EXCEPT ![i] = LoggedIn(i, conn[c])]
          /\ Enter(c, n)
          /\ Answer("LOGIN", c, None, SUCCESS, {}, {})
  /\ UNCHANGED <<rooms, heap, phase, conn, open, members, tainted>>

-------------------------------------------------------------------------------
(* CREATE_CHAT_ROOM, JOIN and EXIT                                         *)

create_chat_room(c, n, r) ==
  /\ Chatting(c, n)
  /\ \/ /\ Listed(rooms, r)
        /\ Answer("CREATE_CHAT_ROOM", c, r, CHAT_ROOM_NAME_IN_USE, {}, {})
        /\ UNCHANGED rooms
     \/ /\ ~Listed(rooms, r)
        /\ rooms' = Append(rooms, [name |-> r, member |-> None])
        /\ Answer("CREATE_CHAT_ROOM", c, r, SUCCESS, {}, {})
  /\ UNCHANGED <<users, heap, clientVars, historyVars>>

\* malloc returns a chunk that is not in use, possibly one that was freed.
Allocatable == {x \in Cells : heap[x].state # "live"}

\* Mutants: the pointer to the user is left as malloc returned it, or taken from the
\* end of the search.
NewParticipant_NoOwner(n, i) ==
  [state |-> "live", name |-> n, ptr_to_user |-> None, next_member |-> None]
NewParticipant_LastUser(n, i) ==
  [state |-> "live", name |-> n, ptr_to_user |-> Len(users), next_member |-> None]

NewParticipant(n, i) ==
  [state |-> "live", name |-> n, ptr_to_user |-> i, next_member |-> None]

\* Mutant: next_member of the new chunk keeps what malloc returned.
AddMember_StaleNext(k, n, i, x) ==
  \/ /\ rooms[k].member = None
     /\ rooms' = [rooms EXCEPT ![k].member = x]
     /\ heap' = [heap EXCEPT ![x] = NewParticipant(n, i)]
  \/ \E t \in Chain(rooms[k].member) :
       /\ heap[t].next_member = None
       /\ heap' = [heap EXCEPT ![t].next_member = x,
                     ![x] = [NewParticipant(n, i) EXCEPT !.next_member = heap[x].next_member]]
       /\ UNCHANGED rooms

\* Step 4 of join_chatroom: the new member becomes the head of an empty list or
\* is linked behind the last one.  The stores follow the order of the code, which
\* matters when malloc returns the last chunk of the list itself.
AddMember(k, n, i, x) ==
  \/ /\ rooms[k].member = None
     /\ rooms' = [rooms EXCEPT ![k].member = x]
     /\ heap' = [heap EXCEPT ![x] = NewParticipant(n, i)]
  \/ \E t \in Chain(rooms[k].member) :
       /\ heap[t].next_member = None
       /\ heap' = [heap EXCEPT ![t].next_member = x, ![x] = NewParticipant(n, i)]
       /\ UNCHANGED rooms

join_chatroom(c, n, r) ==
  /\ Chatting(c, n)
  /\ \/ /\ FirstWithin(n) = {}
        /\ Answer("JOIN", c, r, USER_DOES_NOT_EXIST, {}, {})
        /\ UNCHANGED <<rooms, heap, members>>
     \/ /\ FirstWithin(n) # {} /\ ~Listed(rooms, r)
        /\ Answer("JOIN", c, r, CHAT_ROOM_DOES_NOT_EXIST, {}, {})
        /\ UNCHANGED <<rooms, heap, members>>
     \/ \E i \in FirstWithin(n), k \in First(rooms, r) :
          LET h == rooms[k].member IN
          \/ /\ Found(h, n) # {}
             /\ Answer("JOIN", c, r, SUCCESS, {}, Visited(h, n))
             /\ UNCHANGED <<rooms, heap, members>>
          \/ /\ Found(h, n) = {}
             /\ \E x \in Allocatable : AddMember(k, n, i, x)
             /\ members' = [members EXCEPT ![r] = @ \cup {n}]
             /\ Answer("JOIN", c, r, SUCCESS, {}, Chain(h))
          \/ /\ Found(h, n) = {} /\ Allocatable = {}
             /\ Answer("JOIN", c, r, OUT_OF_MEMORY, {}, Chain(h))
             /\ UNCHANGED <<rooms, heap, members>>
  /\ UNCHANGED <<users, clientVars, last, tainted>>

\* Mutants: the list is cut behind the previous member, or not relinked at all.
RemoveMember_Cut(p, x) ==
  heap' = [heap EXCEPT ![p].next_member = None, ![x].state = "freed", ![x].name = None]
RemoveMember_NotRelinked(p, x) ==
  heap' = [heap EXCEPT ![x].state = "freed", ![x].name = None]

\* Steps 4 and 5 of exit_chatroom, p being participant_conductor_previous: it is
\* the participant itself when that is the head, whose address stays in member.
RemoveMember(p, x) ==
  heap' = [heap EXCEPT ![p].next_member = heap[x].next_member,
                       ![x].state = "freed", ![x].name = None]

Previous(h, p, x) == IF x = h THEN p = x ELSE heap[p].next_member = x

exit_chatroom(c, n, r) ==
  /\ Chatting(c, n)
  /\ \/ /\ ~Listed(rooms, r)
        /\ Answer("EXIT", c, r, CHAT_ROOM_DOES_NOT_EXIST, {}, {})
        /\ UNCHANGED <<heap, members, tainted>>
     \/ \E k \in First(rooms, r) :
          LET h == rooms[k].member IN
          /\ Answer("EXIT", c, r, SUCCESS, {}, Visited(h, n))
          /\ members' = [members EXCEPT ![r] = @ \ {n}]
          /\ \/ /\ Found(h, n) = {}
                /\ UNCHANGED <<heap, tainted>>
             \/ \E x \in Found(h, n), p \in Chain(h) :
                  /\ Previous(h, p, x)
                  /\ RemoveMember(p, x)
                  /\ tainted' = (tainted \/ x = h)
  /\ UNCHANGED <<users, rooms, clientVars, last>>

-------------------------------------------------------------------------------
(* CHAT_ROOM_DATA and PRIVATE_DATA                                         *)

\* Mutant: the sender is not skipped.
Receivers_Sender(h, n) == {x \in Chain(h) : users[heap[x].ptr_to_user].login = 1}

\* The participants a message of n to the list at h is written to: all but those
\* with the sender's name and those whose user is not logged in.
Receivers(h, n) ==
  {x \in Chain(h) : heap[x].name # n /\ users[heap[x].ptr_to_user].login = 1}

\* Mutant: the descriptor is that of the first user in the list.
Copy_FirstUser(x) == [to |-> Peer(users[1].connfd), name |-> heap[x].name, cell |-> x]

Copy(x) == [to |-> Peer(users[heap[x].ptr_to_user].connfd),
            name |-> heap[x].name, cell |-> x]

\* The users of the participants S whose descriptor is closed, to whom write() fails,
\* and those whose peer has gone, to whom it may fail.
Cut(S) == {heap[x].ptr_to_user : x \in {y \in S : Peer(users[heap[y].ptr_to_user].connfd) = None}}
Gone(S) ==
  {heap[x].ptr_to_user : x \in {y \in S :
     \E d \in Clients : Peer(users[heap[y].ptr_to_user].connfd) = d /\ phase[d] = "quit"}}

\* A user is logged off when the write to it fails; the loop goes on.
LoggedOff(S) ==
  users' = [i \in DOMAIN users |-> IF i \in S THEN [users[i] EXCEPT !.login = 0] ELSE users[i]]

forward_chat_room_data(c, n, r) ==
  /\ Chatting(c, n)
  /\ \/ /\ ~Listed(rooms, r)
        /\ Answer("CHAT_ROOM_DATA", c, r, CHAT_ROOM_DOES_NOT_EXIST, {}, {})
        /\ UNCHANGED users
     \/ \E k \in First(rooms, r) :
          LET h == rooms[k].member
              to == Receivers(h, n)
          IN  /\ Answer("CHAT_ROOM_DATA", c, r, SUCCESS, {Copy(x) : x \in to}, Chain(h))
              /\ \E failed \in SUBSET Gone(to) : LoggedOff(Cut(to) \cup failed)
  /\ UNCHANGED <<rooms, heap, clientVars, historyVars>>

\* The client refuses to send to its own nickname.  The result of the forwarding
\* write is not looked at.
forward_private_data(c, n, rn) ==
  /\ Chatting(c, n) /\ (Sound(c) => rn # n)
  /\ \/ /\ ~Listed(users, rn)
        /\ Answer("PRIVATE_DATA", c, None, USER_DOES_NOT_EXIST, {}, {})
     \/ \E i \in First(users, rn) :
          Answer("PRIVATE_DATA", c, None, SUCCESS,
                 {[to |-> Peer(users[i].connfd), name |-> rn, cell |-> None]}, {})
  /\ UNCHANGED <<serverVars, clientVars, historyVars>>

-------------------------------------------------------------------------------
(* Connections                                                             *)

Free == {f \in Fds : open[f] = None}

\* accept() returns the lowest free descriptor and a thread is started for it.  When
\* accept() fails, for want of a descriptor or otherwise, and when pthread_create()
\* does, main returns, which ends the process.
accept(c) ==
  /\ up /\ phase[c] = "new"
  /\ \/ \E f \in Free :
          /\ \A g \in Free : f <= g
          /\ open' = [open EXCEPT ![f] = c]
          /\ conn' = [conn EXCEPT ![c] = f]
          /\ phase' = [phase EXCEPT ![c] = "connected"]
          /\ UNCHANGED up
     \/ /\ up' = FALSE
        /\ UNCHANGED <<conn, open, phase>>
  /\ UNCHANGED <<serverVars, nick, out, historyVars>>

\* /quit, the end of the client process, or of the connection to it.
close_socket(c) ==
  /\ up /\ phase[c] = "connected"
  /\ phase' = [phase EXCEPT ![c] = "quit"]
  /\ UNCHANGED <<up, serverVars, conn, open, nick, out, historyVars>>

\* close(connfd): it is the connection the number stands for now that is closed.
Close(c) == open' = [open EXCEPT ![conn[c]] = None]

\* The client's thread reads the end of a stream, or its read fails, and
\* handle_clients closes the descriptor.  The user's login and connfd stay.
hangup(c) ==
  /\ up /\ Reads(c) /\ (Sound(c) => phase[c] = "quit")
  /\ phase' = [phase EXCEPT ![c] = "closing"]
  /\ Close(c)
  /\ UNCHANGED <<up, serverVars, conn, nick, out, historyVars>>

\* start_routine closes the descriptor again and returns.
end_thread(c) ==
  /\ up /\ phase[c] = "closing"
  /\ phase' = [phase EXCEPT ![c] = "ended"]
  /\ conn' = [conn EXCEPT ![c] = None]
  /\ Close(c)
  /\ UNCHANGED <<up, serverVars, nick, out, historyVars>>

-------------------------------------------------------------------------------

Init ==
  /\ up = TRUE
  /\ users = <<>>
  /\ rooms = <<>>
  /\ heap = [x \in Cells |-> [state |-> "unused", name |-> None,
                              ptr_to_user |-> 0, next_member |-> None]]
  /\ phase = [c \in Clients |-> "new"]
  /\ conn = [c \in Clients |-> None]
  /\ open = [f \in Fds |-> None]
  /\ nick = [c \in Clients |-> None]
  /\ out = [id |-> "none", from |-> None, room |-> None, err |-> SUCCESS, sent |-> {}]
  /\ last = [n \in Names |-> None]
  /\ members = [r \in Rooms |-> {}]
  /\ tainted = FALSE

Next ==
  \E c \in Clients :
    \/ accept(c)
    \/ close_socket(c)
    \/ hangup(c)
    \/ end_thread(c)
    \/ \E n \in Names, pw \in Passwords : register_user(c, n, pw)
    \/ \E n \in Names, pw \in Passwords : login_user(c, n, pw)
    \/ \E n, rn \in Names : forward_private_data(c, n, rn)
    \/ \E n \in Names, r \in Rooms : \/ create_chat_room(c, n, r)
                                    \/ join_chatroom(c, n, r)
                                    \/ exit_chatroom(c, n, r)
                                    \/ forward_chat_room_data(c, n, r)

Spec == Init /\ [][Next]_vars

-------------------------------------------------------------------------------
(* Safety                                                                  *)

\* No nickname and no room name is in its list twice (the searches that precede
\* the appends in register_user and create_chat_room).
UniqueNames ==
  /\ \A i, j \in DOMAIN users : users[i].name = users[j].name => i = j
  /\ \A i, j \in DOMAIN rooms : rooms[i].name = rooms[j].name => i = j

\* A participant in use belongs to the user it is named after: join_chatroom stores
\* the name and the pointer it found at two moments, and forward_chat_room_data
\* addresses the message by the one and sends it by the other.
OwnerConsistent ==
  \A x \in Cells : heap[x].state = "live" =>
    heap[x].ptr_to_user \in DOMAIN users /\ users[heap[x].ptr_to_user].name = heap[x].name

\* No set of chunks is closed under next_member: every walk of exit_chatroom,
\* join_chatroom and forward_chat_room_data comes to a null pointer.  This is so
\* even in a room that kept the pointer to its freed first member, whatever chunks
\* malloc has handed out a second time since.
WalksTerminate ==
  \A S \in (SUBSET Cells) \ {{}} : \E x \in S : heap[x].next_member \notin S

\* As long as no room has lost its first member, the list of each room holds exactly
\* those who have joined it and not left, once each, in chunks of its own, and
\* every chunk in use is in some list (join_chatroom and exit_chatroom).
ListsMatchMembership ==
  ~tainted =>
    /\ \A k \in DOMAIN rooms :
         LET ch == Chain(rooms[k].member) IN
         /\ {heap[x].name : x \in ch} = members[rooms[k].name]
         /\ \A x, y \in ch : heap[x].name = heap[y].name => x = y
         /\ \A l \in DOMAIN rooms \ {k} : ch \cap Chain(rooms[l].member) = {}
    /\ {x \in Cells : heap[x].state = "live"} =
         UNION {Chain(rooms[k].member) : k \in DOMAIN rooms}

\* The descriptor number of a user is that of the thread of the client that last
\* registered or logged in under the name, for as long as this thread is in
\* handle_clients: no request of another client changes it (connfd is set by
\* register_user and login_user only).  What the number stands for is another matter.
OwnConnection ==
  \A i \in DOMAIN users :
    LET c == last[users[i].name] IN
    /\ c # None
    /\ Reads(c) => users[i].connfd = conn[c]

\* What is forwarded under a name goes to the client that last entered under that
\* name as long as its descriptor is its own, be it through the list of users
\* (forward_private_data) or through ptr_to_user (forward_chat_room_data): only a
\* second close() of another thread's can send it elsewhere, and then for good.
DeliveredToLatestLogin ==
  \A m \in out.sent :
    m.name # None /\ last[m.name] # None /\ Owns(last[m.name]) => m.to = last[m.name]

\* A user is marked as logged off only when the client that last entered under the
\* name has gone or has had its descriptor closed by another thread: the failed
\* write() that resets login in forward_chat_room_data is never one to the open
\* connection of a client that is there, whoever's descriptor is in the list by then.
OfflineIsGone ==
  \A i \in DOMAIN users :
    LET c == last[users[i].name] IN
    users[i].login = 0 => c = None \/ phase[c] # "connected" \/ ~Owns(c)

\* A room that has not lost its first member forwards a message once to each of its
\* members who is logged in, other than the sender, and to nobody else
\* (forward_chat_room_data); a sender need not be a member.
RoomFanout ==
  [][\A c \in Clients, s \in Names, r \in Rooms :
       forward_chat_room_data(c, s, r) /\ ~tainted /\ out'.err = SUCCESS =>
         /\ {m.name : m \in out'.sent} =
              {n \in members[r] \ {s} : \E i \in First(users, n) : users[i].login = 1}
         /\ \A m, w \in out'.sent : m.name = w.name => m = w]_vars

\* An account stays at its place in the list with its name and its password, and a
\* LOGIN that does not give this password leaves the account, the nicknames and the
\* connections as they are (login_user; nothing removes or renames a user).
AccountsPersist ==
  [][/\ \A i \in DOMAIN users :
          /\ i \in DOMAIN users'
          /\ users'[i].name = users[i].name /\ users'[i].pw = users[i].pw
     /\ \A c \in Clients, n \in Names, pw \in Passwords :
          login_user(c, n, pw) /\ (\A i \in First(users, n) : users[i].pw # pw)
            => UNCHANGED <<users, nick, conn, last>>]_vars

\* Other than by main's return, the server ends only while it has an open connection to
\* a client that has gone, or after some room has lost its first member: once the
\* descriptors of those who left are closed, no sequence of requests of the others
\* ends it (write() without a SIGPIPE handler, the participants freed by exit_chatroom).
CrashCauses ==
  [][(up /\ ~up') => \/ \E c \in Clients : accept(c)
                     \/ \E f \in Fds, c \in Clients : open[f] = c /\ phase[c] = "quit"
                     \/ tainted]_vars

\* The first MAX_USER_COUNT to register are found by every later LOGIN and JOIN: the
\* loop bounds of login_user and join_chatroom agree with the order of the list
\* ("should not get here except if more users that max count").
RegisteredCanLogin ==
  \A i \in DOMAIN users : i <= MAX_USER_COUNT => FirstWithin(users[i].name) # {}

-------------------------------------------------------------------------------
(* What the program says of itself and does not keep                       *)

\* "Exit successfully" (india_message_register.c:289): who has been told so gets no
\* more messages of the room.
ExitedHearNothing ==
  out.id = "CHAT_ROOM_DATA" =>
    \A m \in out.sent : users[heap[m.cell].ptr_to_user].name \in members[out.room]

===============================================================================
