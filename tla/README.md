# India Chat: specification, model checking and proofs

The repository is a small IRC-like chat: a TCP server with one thread per
connection, a terminal client, a message protocol written twice, once for each
side, and a UDP variant of all three. This directory holds TLA+ modules of them,
TLC configurations that check them on small instances, abstract specifications
they implement, and TLAPS proofs of the properties that hold for every size.

    tlc -config MCAccounts.cfg MCChatServer      # a run
    tlapm ChatServerProofs.tla                   # the proofs

Short names for the sources below: *server* is
`src/india/src/server/india_messages_server.c`, *protocol* is
`src/india/src/server/india_messages_protocol.c` (the copy under `client/` has
the same code for the modelled functions), *client* is
`src/india/src/client/india_message_register.c`; *UDP server*, *UDP client* and
*UDP protocol* are `UDP_serv/india_messages_server_UDP.c`,
`UDP_client/india_message_register.c` and `india_messages_protocol_udp.c` of both
directories.

## 1. The system

| Component | State | Operations |
|---|---|---|
| Request handlers (server) | list of users (name, password, login, connfd), list of rooms, each with a list of participants on the heap | `register_user`, `login_user`, `show_chat_rooms`, `show_users`, `join_chatroom`, `exit_chatroom`, `create_chat_room`, `forward_chat_room_data`, `forward_private_data`, `logoff` (never reached) |
| Connections (server) | listening socket, one descriptor and one detached thread per client | `accept` and `pthread_create` in `main`, `handle_clients`, `start_routine` |
| Protocol | none but the position in the stream and the caller's message record | `send_universal_india_message`, `read_universal_india_message` |
| Client | nickname, socket, two threads after entering | `register_or_login`, `handle_registration`, `handle_login`, `control_user_input`, `handle_server_message`, `close_socket` |
| UDP server, UDP client, UDP protocol | the same lists; one socket and one loop for everybody | the same handlers, `sendto_universal_india_message`, `recvfrom_universal_india_message` |
| Older copies, test client | | see section 8 |

How they interact. A client connects, sends REGISTER_USER or LOGIN until the
answer is SUCCESS, and only then starts its reading thread and its input loop.
The server's `main` hands each accepted descriptor to a thread, which runs the
`switch` of `handle_clients`. All these threads share the three lists, **without
any lock**. A message to a room or to a user is written by the thread of the
sender to the descriptor of the receiver, so that several threads write to one
connection. The user record holds the *number* of a descriptor; a participant
holds a pointer to a user and a copy of the name.

### What is hard here

* **Descriptors are numbers.** The thread of a client that has gone closes its
  descriptor and leaves the user's `login` and `connfd` as they are ("should
  log-off?", server:878). `accept` hands the number to the next client.
* **The first member of a room.** `exit_chatroom` starts its search with
  `previous == current`, so that removing the head relinks the head to its own
  successor and frees it: the room keeps a pointer to a freed chunk, which
  `malloc` may hand out again, to this room or another.
* **No lock on the list of users.** The search for the name, the walk to the end,
  the store of the new node and the stores into it are separate steps, some of
  which read `next` twice.
* **A message is a sequence of writes.** One `write` per field, one `read` per
  field, no length of the whole: one field the two sides disagree about shifts
  everything that follows, and two threads that write to one client mix.
* **Closed twice.** A thread closes its descriptor in `handle_clients` and again in
  `start_routine`; `accept` may have given it out in between.
* **Measured, then copied.** `show_users` and `show_chat_rooms` sum up the names,
  allocate, and walk the list again, which may have grown.
* **An answer is whatever comes next.** A client that has sent LOGIN takes the next
  message for the response; once `login_user` is done others may send to it first.
* **State kept in a line buffer.** The room and the receiver of the client's texts
  are pointers into the buffer the next lines are read to.
* **Datagrams.** The UDP variant sends every field as a datagram, so that loss and
  other clients come between the fields of one message.
* **Unchecked results.** `write` to a peer that has gone raises SIGPIPE, which
  nothing handles; the results of the `read` calls behind the id are not looked at.
* **Limits.** `MAX_USER_COUNT` bounds two of the searches but not the list; out of
  descriptors `main` returns and the process ends.

The correctness properties aimed at: an account keeps its name, password and
owner; a member list is the membership; a message reaches the members, each once,
and on the connection of whoever entered last under the name; walks come to an
end; overlapping calls on the list of users behave like calls on an atomic
directory, as far as they do; what is read from a stream is what was written.
`PROJECT.json` lists the hazards one by one with their lines and the properties
aimed at each.

## 2. Modules

| Module | Models | Role |
|---|---|---|
| `ChatServer` | handlers and connection events, one step each | the core state machine |
| `MCChatServer` | | symmetry and constraints for TLC |
| `ChatServerProofs` | | theorems about `ChatServer` |
| `UserList` | `register_user`, `login_user` with one step per access to a node | the interleavings `ChatServer` abstracts from |
| `Directory` | what the list promises: an atomic set of accounts | abstract specification; `UserList` implements it |
| `UserListProofs` | | theorems about `UserList`, its implementation of `Directory` among them |
| `MemberList` | `join_chatroom`, `exit_chatroom`, `forward_chat_room_data` with one step per access, and the stores of `login_user` | the interleavings on one room |
| `Room` | what a room promises: a set of members, and whom a message is written for | abstract specification; `MemberList` implements it |
| `Connections` | `accept`, `pthread_create`, `handle_clients`, `start_routine`: descriptors and threads | what `ChatServer` takes as one step |
| `ListSnapshot` | `show_users`, `show_chat_rooms` while the list grows | the list requests |
| `Wire` | the two protocol functions over a stream of bytes | the messages `ChatServer` exchanges whole |
| `ChatClient` | the TCP client, both threads | the other side of the connection |
| `Session` | what the server relies on in a client | abstract specification; `ChatClient` implements it |
| `UdpWire`, `UdpChat` | UDP protocol; UDP server and client | uses the lists and handlers' operators of `ChatServer` (INSTANCE) |
| `MemberListProofs`, `ConnectionsProofs`, `ListSnapshotProofs`, `WireProofs`, `ChatClientProofs`, `UdpChatProofs` | | theorems about the module of that name |
| `MCUserList`, `MCMemberList`, `MCConnections`, `MCListSnapshot`, `MCWire`, `MCChatClient`, `MCUdpChat` | | instances for TLC |

### ChatServer

Every case of the `switch` that changes the lists or forwards something is an
action that stands for the whole handler, its early returns as disjuncts:
`register_user`, `login_user`, `create_chat_room`, `join_chatroom`,
`exit_chatroom`, `forward_chat_room_data`, `forward_private_data`; and the
connection events `accept`, `close_socket` (the client ends) and `end_thread`
(the server's thread sees the end of the stream).

| Variable | Code |
|---|---|
| `users`, `rooms` | the lists at `root_user`, `root_chatroom`, as sequences: nothing is ever removed from them, and a position is a pointer |
| `heap` | the chunks that hold a `struct participant`, with `next_member`, a copy of the name and `ptr_to_user`; `free` destroys the name (it lies where the allocator keeps its links) and leaves the rest |
| `phase`, `conn`, `nick` | each client's connection, the descriptor its thread holds, the nickname it has entered under |
| `out` | the last handler's answer and the messages it forwarded |
| `up` | FALSE when the process has died |
| `last`, `members`, `tainted` | history: who last entered under a name, who has joined and not left, whether some room has lost its first member |

Abstractions, each of them more behaviours than the code or the same ones:

* Handlers are atomic. What overlapping handlers do to the list of users is
  module `UserList`, what they do to a member list is `MemberList`.
* The end of a connection is one step; its two `close` calls are in `Connections`.
* A write to a peer that has gone, and a walk over a freed chunk, *may* end the
  process (`Answer`); which of the two happens depends on the timing of the reset
  and on what else `malloc` did with the bytes.
* Freed participant chunks are handed out again for participants only. Elsewhere
  in the server the same sizes are allocated for users, rooms and message data;
  that a freed chunk is then overwritten is the "may die" above.
* A walk is the set of chunks reachable along `next_member` (`Chain`), cut where
  the name is found (`Visited`). `WalksTerminate`, proved, is what makes a walk
  and that set the same.
* A message to a room may come from any client inside the service: the server
  does not ask whether the sender is a member.
* A client sends any request at any moment in its phase. It waits for the answer
  to REGISTER_USER and LOGIN, and its other requests may be handled after it has
  gone, as they may lie in the socket.
* `show_users` and `show_chat_rooms` change nothing and are in `ListSnapshot`; failing
  `malloc` is in `join_chatroom` only (and in `UserList`, for `register_user`).

### UserList and Directory

One action per access to a node: the search (`compare`, `step`), the walk to the
end, whose loop reads `next` in the condition (`tail`) and again in the body
(`advance`), the store of what `malloc` returned (`link`), the second reading of
it (`reload`), and the five stores into the node (`clear`, `store_name`,
`store_pw`, `store_connfd`, `store_login`); for logins `first`, `match`, `skip`,
`password`, `online`, `connect`. The order is that of the statements, as the
Makefile compiles without optimisation. A node just allocated holds what its
bytes held: `FreshNext` says what may be in its `next` (zeroed memory: null; used
memory: also an address of no node). A thread that follows such a pointer ends
the process (`stray`). `strcpy` of a name is one step.

`Directory` is the promise: a set of accounts, a registration takes effect at one
moment (`Enrol`), a login answers according to the accounts at its beginning and
its end. The refinement maps the accounts to the nodes whose name and password
are stored (`Promise` in `UserList`).

### Wire

One direction of a connection. `send` and `write` are the `write` calls of
`send_universal_india_message`, `read_id` and `read_field` the `read` calls of
`read_universal_india_message`. A byte of the stream remembers to which write of
which message it belongs and its place there, and the number the field carries
where it is an id, a length or an error code; `IsField` says that some bytes are
one whole field. Ids, sizes and the order of the fields are those of the code;
`Fields` is shared by the two functions where the code of both agrees, and
`SentFields`/`ReadFields` differ where it does not. `Readable`, `Read` and `Rest`
are the blocking `read` of a stream socket, an external part: it returns what
there is up to the size asked for. A field that has been written is there whole;
a field split on its way is not modelled (section 8). `close` may come in the middle of a
message.

### MemberList and Room

The participants of one room as several threads work on them, one action per
access: `join_chatroom` from its step 3 (`look`, `compare`, `next`, then `again`
and the walk `tail`/`advance`, `append`, `reload`, or `first_node` in an empty
room, and the stores `clear`, `store_name`, `store_user`); `exit_chatroom`
(`read_previous`, `read_first`, `find`, `pass`, `load`, `store`, `free`);
`forward_chat_room_data` (`head`, `sender`, `status`, `socket`, `write`, `reset`,
`onward`); and `log_on`, `connect` of `login_user`. `mem` is the participants in the
order `malloc` returned them; freed memory keeps its contents but for the name.
Finding the room and the user, which touches nothing that changes, is done before.
A thread that follows a null or unset pointer ends the process (`stray`).

`Room` is the promise: members are a set, a join or exit takes effect at one
moment, and a forward writes for each user who is a member and logged in from the
beginning of the call to its end, for no one who is no member in that time, twice
only for one who has left meanwhile, and for the sender only if he has come or left
meanwhile; a failed write may log its user off. `must`, `may`, `came`, `left` and
`copies` are the history that says so and are the same variables in both modules.

### Connections

A client, its connection and its thread carry one name. `conn` says which
connection a descriptor stands for, `connfd` which descriptor a thread was started
with, `on` which connection its `read` waits for: a blocked `read` stays with it
though the descriptor be closed. `accept`, `create`, `read`, `returns`, `answer`, and
the two closes `hangup` (server:876) and `end` (server:999) are the steps. What is
read and answered is left out.

### ListSnapshot

One request for a list at a time, against threads that `link` a node and then
`store_name` it. Of a name the model keeps the length; `needed`, `location` and
`written` are the three counts of the code, `htons` a remainder whose modulus is a
constant. The name of a node not yet stored has any length in `Lengths`, or none, at
each reading (it is what `malloc` returned).

### ChatClient and Session

`ask`, `answered`, `unanswered` are the prompts; `fgets_input`, `chat`, `groupchat`
the three places where a line is read (labels INPUT, CHAT, GROUP), and one action
per command stands for the branch taken at CHATRULE. `behind` is the word behind
the command in `input`, which `group` and `destination` point to; a null and an unset
pointer, EOF and the line left by `scanf` are kept. `handle_server_message` is the
reading thread, with a case each for a message (`print`), for what follows an empty
list (`garble`) and for the end of the stream. `lets_in`, `responds`, `handles`,
`forward` and `closes` are the server, reduced to what it may send and when: it
forwards to a client from the moment `login_user` is done, before it answers.

`Session` says what the server relies on: a client asks to be let in, and only
when it has been let in does it send anything else, no text empty; and it neither
asks nor sends once it has gone.

### UdpWire and UdpChat

`UdpWire` has the fields of each message as the two UDP functions send and wait for
them, and what a datagram is read as when it was sent as something else. `UdpChat`
is the server's one loop (`recv_id`, `recv_field`, then the handler), and the client
up to the messages its input loop may send. The lists and the operators on them are
those of `ChatServer`, instantiated, as the handlers are the same.

As built the UDP server serves nobody: the statement in the loop of `main` (UDP
server:1098) declares `handle_clients` and does not call it. That is the case
`serves = FALSE`, in which `recv_id` and `recv_field` never happen. To look at the
rest of the program, which is complete, `serves = TRUE` makes it the call it was
meant to be. Two more places are taken as they are: `recvfrom` gets the address of
the pointer `in_address`, so that the reply goes to whatever the stack held (`stack`),
and the client makes its port number of a pointer (`reach`).

## 3. Runs

Each passing run, its question, its bounds and why they are enough:

| Run | Shows | Instance |
|---|---|---|
| `accounts` | who a name, a descriptor and a forwarded message belong to; what can end the server | 3 clients, 2 names, 2 passwords, 1 room, 2 chunks, 2 descriptors |
| `rooms` | the member list through every order of joins and exits, with lists that keep freed chunks | 3 clients in 1 room, or 2 in 2 rooms, 3 chunks |
| `members` | a forward under joins, exits and a login: refinement of `Room`, every call ends | 4 threads, 3 users, an empty room or one of three members, one or two calls each |
| `registrations` | three threads in `register_user`/`login_user` at once, used memory | 3 threads, 2 names, one call each |
| `directory` | logins during a registration: refinement of `Directory`, no stray pointer, every call answered | 3 threads, 2 names, 2 passwords, `MAX_USER_COUNT` 2 |
| `connections` | whose connection a thread has; closed and read in the end | 3 clients, 2 descriptors and the listening one, 2 requests each |
| `lists` | how far the block is overrun, who is listed | up to 4 names of 1 or 3 characters, lengths of 4 bits |
| `messages` | what is read is what was sent, whole and in order, every message in the end | one writer, two messages out of 25: every id sent, with and without error, data of 1 to 3 bytes |
| `client` | the room a text goes to, what may be printed unset, refinement of `Session`, who asks is answered | 2 names, 2 rooms, 3 lines, 2 attempts to enter, 1 forwarded message |
| `udp` | who hears from the server, what ends it, what mixed messages do to the lists, who is answered | 2 clients, 1 room, 4 requests of one and 1 of the other, 1 datagram lost |

* `accounts`: fewer descriptors than clients makes `accept` reuse one and also
  fail; fewer names than clients makes two clients use one name, by registering,
  by logging in and with the wrong password. `MAX_USER_COUNT` is 2.
* `rooms`: three members are head, middle and tail, the cases of `exit_chatroom`;
  two chunks in use and two rooms are enough for a freed head to be handed out to
  its own room and to the other one. The constraint `TwoOrThree` takes these two
  cases, and leaves departures out, which change neither rooms nor chunks.
* `members`: `h` writes to the room; `x` leaves it and joins again, or comes and leaves;
  `y` loses its connection; and on a fourth connection `y` logs in again, or `h` does and
  joins or leaves there. These are the cases in which a message is written twice for a
  user, or for its sender: without each of the two exceptions in `Room` the run fails.
  Participants are fresh memory whose user is an address of no object. `OneWriter` keeps it to one thread at a time in join and exit, and to exits of
  other than the first member: with two writers the list loses members at once, as
  the list of users does (`lost_user`), and the first member is `exited`.
* `registrations`: three overlapping calls are two racing registrations and a
  third that comes before, between or after them, or a login. One call each is
  the bound `MaxCalls`; no thread keeps anything between two calls.
* `directory`: behaviours are restricted to one registration at a time
  (`OneRegistration`); two passwords make WRONG_PW possible.
* `connections`: with two descriptors the third client gets one that was given up.
* `lists`: two names may be there first and two be added; 16 instead of 2^16 lets the
  length be cut within four names. `MaxCalls` is 1, as nothing is kept between calls.
* `messages`: framing is about neighbours: each of the message kinds is followed
  by each. Data of lengths 1 to 3 stands for any, as its bytes are opaque.
* `client`: three lines are a command that enters a room or a chat, one that may leave
  it, and a text; `MaxPending` 0 means that nothing is sent while two messages are on
  their way in one direction.
* `udp`: REGISTER_USER, CREATE_CHAT_ROOM, JOIN and a text are the four requests that
  lead to a forward. The constraint `OneTrouble` has either a lost datagram or a second
  client that asks, not both.

Deadlock checking is off in all runs: the clients may stop sending.

Runs that are expected to find a violation state something the program's own
texts say, which the code does not keep:

| Run | Text | What happens |
|---|---|---|
| `exited` | "Exit successfully" (client:289) | the first member of a room hears the room after its exit was confirmed |
| `lost_user` | "Creates a node at the end of the list" (server:120) | two registrations store into one `next`; one is lost after it was confirmed |

Met while modelling and not given a run of their own: a private message to a user
who has left goes to the client that got the descriptor (server:687); two threads
that write to one client mix their fields, so that it reads messages nobody sent
(`Framed` fails with two `Writers`); the answer to `/list` without a room has no length,
and the reader takes the next four bytes for it (protocol:122 and :325); a login
that races with the reset of its `login` after a failed forward stays logged off on
its new connection (server:799), which is why `OfflineHasLeft` speaks of a
connection the user has had; the UDP server as built answers nobody; a sender may
get its own message back when a member who left had the descriptor it has now, and also
when its own name leaves or joins the room on another connection while it sends (the
name of the participant is freed, or not yet stored, server:777); a member who leaves
and joins again while a message is sent may get it twice; overlapping
registrations of one name may both succeed, or fill one node so that it has the
name of one and the password of another; a login that overlaps a single
registration in used memory may follow the uninitialised `next` of the new node
(hence `directory` is about zeroed memory, `registrations` about used memory); a
message cut short by the end of the sender is handled as a whole one (`Framed`
has that exception); users beyond `MAX_USER_COUNT` cannot log in or join
(`RegisteredCanLogin` is stated for those within it); the answer to an
undeliverable private message passes a pointer to which nothing was assigned.

## 4. Fairness

Runs of safety properties alone use specifications without fairness.
`UserList!OneAtATimeSpec` and `MemberList!OneWriterSpec` have weak fairness on each
thread's steps inside a call (`Run`): the kernel schedules every runnable thread,
and no step of these functions waits for another thread. Nothing is assumed of the
clients: `request` is not fair. Both conjoin a restriction to the steps; only `request`
can begin what it restricts, and a thread inside a call is scheduled as before.
`Wire!FairSpec` has weak fairness on the `write` calls of a message that has begun and
on `read_id` and `read_field`: each of the two sides does nothing else meanwhile.
`Connections`: `accept`, `create` and each thread's steps; a thread blocked in `read`
has none until there is something to read or the client has gone. `ChatClient`: the
client's reading and answering, `quit` once typed, and the server's answers while it
is up; nobody has to type and nobody has to forward. `UdpChat`: sending what has
been begun and reading what there is; loss is not fair, and asking neither.

## 5. Theorems

All of them are proved for every value of the constants, from the assumptions named
in the modules and from nothing else. What these assume:

* descriptors are natural numbers and one of them is the listening one; chunks are
  finitely many; limits and the bounds for TLC are natural numbers;
* `None` is none of the values it stands beside;
* what `malloc` returns has in its pointers null or an address of no object
  (`FreshNextAssumption`, `FreshAssumption`);
* a room begins with members of different names (`MemberList`); the client's own name
  is a name, and a word too long for a name is none (`ChatClient`); there is a
  longest name (`ListSnapshot`: the buffer names are typed into has an end).

Three theorems have hypotheses beyond these (two of `UserListProofs`, one of
`WireProofs`), and four are about a restricted specification (`OneAtATimeSpec`,
`OneWriterSpec`): each is said with the theorem below.

Every proof has one inductive invariant, a conjunction of named parts, one lemma for each
action (or for a group of actions that change the same variables), a step lemma, and
the theorems, each a few lines. What a step does to a list is stated once
(`UsersSteps`, `HeapSteps`, `MemEffects`, `RoomStep`...), so that an invariant about it
has few cases.

### ChatServerProofs

* `TypeCorrect`. The inductive invariant is `TypeInv == TypeOK /\ ConnOK`; `ConnOK`
  (a client has a descriptor exactly while its thread runs, and no two the same one)
  is not a type but `accept` needs it.
* `ListsAreAcyclic`, `ParticipantsNameTheirUser`: from `HeapInv`, which says of the
  chunks in use to whom they belong, and that no set of chunks is closed under
  `next_member`. The second part is proved without knowing which chunks are in
  which list: linking the new chunk, whose `next_member` is null, behind a chunk
  whose `next_member` is null closes no set, even if the two are one chunk; and
  relinking `p` to the successor of its successor closes none that was not closed
  before. This is why the lists stay acyclic though the code keeps pointers to
  freed chunks, and it needs no `~tainted`.
* `UsersKeepTheirConnection`, `OnlyTheGoneAreLoggedOff`, `NamesAreUnique`,
  `TheRegisteredAreFound`, `MessagesReachTheLatestLogin`: from `AccountInv`, which
  joins the uniqueness of names, `OwnConnection` and `OfflineIsGone` with
  `EnteredOK` (who is the last to have entered has been connected). They lean on each
  other: a write fails only for a closed descriptor, `OwnConnection` makes that
  somebody who has gone, hence `OfflineIsGone`.
* `AccountsAreKept`: the action property `AccountsPersist`, from the steps alone.
* `ListsHoldTheMembers`: from `ListInv`. To know that a list names its members
  (`NamesMatch`) one must know that it names nobody twice (`NamesApart`), that no chunk
  is in two lists (`ListsApart`), and that the chunks in use are exactly those
  of the lists (`LiveListed`), so that what `malloc` hands out is in none. The lemmas
  under it (`ReachAppend`, `ReachRemove`, `OnePrevious`...) are about what is reachable
  along a successor function, which is all a list is.
* `OnlyThreeThingsEndTheServer` (`CrashCauses`) and `MessagesReachTheMembers`
  (`RoomFanout`) follow from it: a walk over lists that match meets no freed chunk, and
  each name of the list is one chunk, hence one copy.

### UserListProofs

* `TypeCorrect`, with `InCall` (a thread in a call has one) as the strengthening.
* `ListIsAcyclic`: under every interleaving of any number of threads the links go
  from older to newer nodes. It holds because `link` stores the newest node or null
  and `clear` stores null: no store can point backwards.
* `SettledAccountsStay`: what was in the list at a moment without a running
  registration stays in it, for used memory and any interleaving. The invariant
  (`Core`) is a set of old nodes connected to the root by itself, whose pointers lead
  into the set or to nodes that came later; a registration can store only behind its
  end (`OutsideCore`).
* `OneAtATimeNeverStrays` and `OneAtATimeImplementsDirectory` are about one registration
  at a time (`OneAtATimeSpec`) and, as a hypothesis, zeroed memory: `FreshNext = {Null}`.
  Without either they are false (section 3). The second supposes `[]Seen` too, no more
  users than the search of `login_user` counts to: a user behind that limit gets
  another answer than an atomic directory would give. The invariant `OneInv` is that the list is the
  nodes in the order of their allocation (`Straight`), that all but one of them, which a
  registration is at, are `Complete`, and for every thread what it has passed
  (`Place`): for a login, that none of the nodes behind it had the name when it began.
  Every step is then a step of `Directory` or leaves its variables.

### ConnectionsProofs

* `TypeCorrect`, `OnlyTheSecondCloseCrosses` (`OwnUnlessCrossed`) and `NoDescriptorLeaks`
  (`NoLeak`). The two rest on one invariant: a descriptor that is open is the one its
  client's thread holds and has still to close (`OpenIsHeld`), and who holds one and has
  not been crossed is the client it stands for (`HeldIsOwn`). `accept` returns the lowest
  free descriptor, so that nobody who holds an own one is in its way.

### MemberListProofs

* `MemberListTypeCorrect`: under every interleaving. That the history variables hold
  users needs `Within`, the recursive function under `Members`: it is shown to have the
  solution one expects (`Reached`), from which its recursion equation follows.
* `LoggedOffHaveLeft` (`OfflineHasLeft`), for one writer at a time (`OneWriterSpec`). A
  forward reads the descriptor of a user, writes, and resets the user, and in between
  the user may have entered anew; what it relies on is kept in `Point`: the descriptor
  it holds is one whose client entered as that user, and once the write has failed that
  client is gone. With two writers a participant that a forward is at may get another
  user between the two readings.
* `ListKeepsRoom` (`ImplementsRoom`), for one writer at a time who does not take away
  the first participant: every step is a step of `Room` or leaves its variables. The
  invariant `PromiseInv` adds to that of `LoggedOffHaveLeft`, for each instant of a join
  or an exit:
  - `Shape`: the list is a `Path`, a set of participants in the order of their allocation,
    each linked to the next one of the set; its users differ, and a participant without a
    user is the newest, with a thread that fills it. The members are then the users in
    the list (`Present`).
  - `Writer`: what a thread that searches, links or relinks has passed, and that the
    participant it is about to take out is still the successor of `previous`.
  - `History`: `must` are members, `may` are members or have left.
  - `Reader`: from the participant a forward is at a `Path` leads on, through the list or
    back into it. What lies on it outside the list has left; whoever is in `must` has a
    copy, is the sender, or is ahead in the list. The path is what an exit disturbs:
    the participant the forward is at may be cut out, and its `next_member` still leads
    to where the list goes on.

  Every store is shown to be `Gentle` to the forwards: no user changes, what comes to a
  path is new and has no user yet, what gets a user comes to the room, what leaves the
  list leaves the room, and each path is one afterwards but for what has joined its end or
  been cut out. So the forwards need one lemma for the steps of others (`ReaderOthers`)
  instead of one for each pair of steps. Which participants are ahead shows why the
  promise has its two exceptions: a user who leaves and joins again has two participants
  on a path, and the sender is passed over by the name, which a participant has not yet
  while it is being filled and no more once it is freed.

### ListSnapshotProofs

* `OnlyTheNewOverrun` and `TheKnownAreListed`, for names of any lengths: the invariant
  compares the sums of both walks at the place each has reached (`Counted`,
  `CopiedTo`), by a function `Sums` that says where each copy ends. The bound is that of the
  property: what the nodes added during the request take, and one byte.

### WireProofs

* `TypeCorrect`, for any writers, however their bytes mix.
* `MessagesAreFramed` (`Framed`): any number of messages of every kind, in any order. Its
  hypotheses are one writer, and messages that are `Whole`: a message with data has data
  that can be read, of a length from 1 to 65535. Without either it is false
  (section 3). The invariant `InStep` says that there are the messages begun (`M`), the
  places of the fields written (`P`) and the offsets at which they end (`S`), such that
  the stream is the fields from the reader's place to the writer's (`Carries`), the
  writer has the rest of its message left (`WriterAt`), and the reader waits for the rest
  of its own (`ReaderAt`); `CutOff` is what is left once the writer has ended within a
  message. `Agreement` is the lemma that both functions agree on the fields of every
  message that is whole.

### ChatClientProofs

* `TextsGoToTheRoomJoined` (`RoomOfLastJoin`): whatever is typed and whatever the server
  sends. `RoomKept` says in which states the pointer into the line buffer still
  points to the room: it does because the lines in between are those `scanf` leaves, or at
  the end of the input the old one.
* `WildPrintHasCause` (`WildPrintCause`) and `ClientImplementsSession`: from what is on its
  way between client and server in each phase (`Outside`, `Asking`, `Inside`). What the
  client will take for the answer admits it if and only if the server has let it in; a
  forwarded message that comes first does so too, as only who has been let in is sent one.

### UdpChatProofs

* `ListsStaySound`: unique names, owners of participants and types survive messages
  that were put together from the datagrams of any number of clients, with any loss.
* `OneClientIsHeard` (`OneHearer`): the address kept with every user is the one the stack
  held (`UsersInv`), so that all that is sent goes there.
* `OnlyLostOrMixedEndTheLoop` (`EndCause`): as long as nothing is lost or mixed there is
  a kind for each request (`K`) and a place the server waits for (`a`) such that the datagrams in the
  queue, those still to be sent and those still to be read are the parts of these
  requests in their order (`Ordered`); what is awaited is then what comes.

### What is only model-checked

* The liveness properties (`EveryCallEnds` and those of `UserList`, `Connections`, `Wire`,
  `ChatClient` and `UdpChat`): fairness and ENABLED are out of the prover's reach.
* The two properties that are expected to fail.

Induction over data is out of reach as well. Where the models walk a list they
therefore use least closed sets (`Chain`, `List`) or a function (`Within`), whose facts
follow by choosing a set or a least element, and no module with a theorem
declares a RECURSIVE operator.

## 6. Mutants

Beside a definition stand its mutants, named after it (`RemoveMember_Cut`,
`Last_PastEnd`, ...): forms a slip in the code could have had. `PROJECT.json` says
which property each of them breaks in which run.

## 7. Plan

Every safety property and every refinement that the passing runs check is proved, the
last of them (`ListKeepsRoom`, `OneAtATimeImplementsDirectory`, `MessagesAreFramed`) under
the hypotheses said there. What is left is what holds without these: what of a room
survives two threads that join and exit it at once, where `Room` is not kept (two joins
may store into one `next_member`, an exit may put back what another has taken out); and
what of the list of users does when registrations overlap, beyond `SettledAccountsStay`.

## 8. Not modelled

* `logoff`: EXIT_FROM_SERVICE is known to neither protocol function, and no message
  reaches it.
* The labels of the UDP client's input loop: it is the loop of `ChatClient` but for
  small differences, and `UdpChat` lets it send any request.
* Fields of a TCP message split on their way, so that a `read` returns less than a
  field: how TCP splits depends on sizes and timing below the code.
* What two threads at once in `join_chatroom` or `exit_chatroom` of one room do to it:
  `Spec` of `MemberList` has these steps, but nothing beyond the types is stated of
  them (`OneWriter`).
* The bytes of names and passwords: a password of more than five characters, which the
  prompt allows (client:128), overruns its field.
* `client.c`, `client1.c`, `registerIbrahim.c`, the test client, and the copies of the
  TCP server and protocol in `protocol/` and the UDP directories: no Makefile builds
  them. The client's own copy of the protocol differs from the server's in white
  space only, so that `Wire` stands for both.
* Terminal input and output, time stamps, the daemon's start and the listing of
  addresses; the vendored `pthread.h`.
