------------------------------- MODULE MemberList -------------------------------
(***************************************************************************)
(* The participants of one chat room of india_messages_server.c as the     *)
(* threads of the server work on them: join_chatroom, exit_chatroom and    *)
(* forward_chat_room_data from the moment the room is found, and the two   *)
(* stores of login_user, one action per access to a participant, to a user *)
(* or to a connection.  No lock protects any of them.                      *)
(*                                                                         *)
(* mem is the participants in the order malloc returned them.  Memory that *)
(* free() has taken back keeps its contents but for the name, until malloc *)
(* hands it out again and it is rewritten: who then uses it has left what  *)
(* this module says of the server, as has who follows a pointer to nothing *)
(* (dies).  ChatServer has the memory handed out again.                   *)
(***************************************************************************)
EXTENDS Integers, Sequences

CONSTANTS
  Threads,      \* threads of handle_clients; each also stands for its connfd
  Names,        \* the registered users
  NameOf,       \* the name each thread's client has entered under, or None
  FirstMembers, \* who may have joined, in this order, before the overlapping calls begin
  FreshUser,    \* what ptr_to_user may be in a participant malloc returns
  FreshNext,    \* what next_member may be in it
  Requests,     \* bound: the requests each client may make
  Leavers,      \* bound: the clients that may leave
  MaxCalls,     \* bound: how many requests each client makes
  None          \* no name, no thread, no call, no answer

Null == 0
Wild == -1     \* an address at which there is no object

ASSUME NamesAssumption ==
  /\ NameOf \in [Threads -> Names \cup {None}] /\ FirstMembers \subseteq Seq(Names)
  /\ \A s \in FirstMembers : \A j, k \in DOMAIN s : s[j] = s[k] => j = k
ASSUME FreshAssumption ==
  /\ FreshUser # {} /\ FreshUser \subseteq {Null, Wild}
  /\ FreshNext # {} /\ FreshNext \subseteq {Null, Wild}
ASSUME BoundsAssumption ==
  /\ Requests \in [Threads -> SUBSET [kind: {"join", "exit", "forward", "login"}, name: Names]]
  /\ Leavers \subseteq Threads /\ MaxCalls \in [Threads -> Nat]
ASSUME NoneAssumption ==
  /\ None \notin Names \cup Threads \cup Int
  /\ Names \cap {Null, Wild} = {}  \* a user is no such address
  /\ None \notin [kind: {"join", "exit", "forward", "login"}, name: Names]

\* Return values of the two functions.
SUCCESS == 0
OUT_OF_MEMORY == 99

VARIABLES
  up,         \* FALSE once the server has ended, or a thread has used memory that is not its
  member,     \* cr_conductor->member
  mem,        \* the participants
  users,      \* login and connfd of each user
  nick,       \* the name each client has entered under
  gone,       \* the connections whose client has closed them
  pc,         \* the next access of each thread, "idle" between two calls
  op,         \* its call
  conductor,  \* participant_conductor
  previous,   \* participant_conductor_previous
  held,       \* the value just read for the next store: a pointer or a descriptor
  answer,     \* the result of its last call
  calls,      \* how many calls its client has made
  must,       \* history: members who were so, and logged in, since its call began
  may,        \* history: members at some moment since its call began
  came,       \* history: those who have become members since its call began
  left,       \* history: those who have left since then
  copies      \* history: how often its message has been written for each

roomVars   == <<up, member, mem, users>>
clientVars == <<nick, gone, calls>>
localVars  == <<conductor, previous, held>>
vars == <<roomVars, clientVars, pc, op, localVars, answer, must, may, came, left, copies>>

Participant == [name: Names \cup {None}, ptr_to_user: Names \cup {Null, Wild},
                next_member: Nat \cup {Wild}, freed: BOOLEAN]
User == [login: {0, 1}, connfd: Threads]
Call == [kind: {"join", "exit", "forward", "login"}, name: Names]

Joining    == {"look", "compare", "next", "again", "first node", "tail", "advance", "append",
               "reload"}
Filling    == {"clear", "name", "user"}
Exiting    == {"previous", "first", "find", "pass", "load", "store", "free"}
Forwarding == {"head", "sender", "status", "socket", "write", "reset", "onward"}
LoggingIn  == {"online", "connect"}

TypeOK ==
  /\ up \in BOOLEAN
  /\ mem \in Seq(Participant) /\ member \in {Null} \cup DOMAIN mem
  /\ users \in [Names -> User]
  /\ nick \in [Threads -> Names \cup {None}]
  /\ gone \in SUBSET Threads
  /\ pc \in [Threads -> {"idle"} \cup Joining \cup Filling \cup Exiting \cup Forwarding
                        \cup LoggingIn]
  /\ op \in [Threads -> Call \cup {None}]
  /\ conductor \in [Threads -> Nat \cup {Wild}]
  /\ previous \in [Threads -> Nat \cup {Wild}]
  /\ held \in [Threads -> Nat \cup {Wild} \cup Threads]
  /\ answer \in [Threads -> Int \cup {None}]
  /\ calls \in [Threads -> Nat] /\ \A t \in Threads : calls[t] <= MaxCalls[t]
  /\ must \in [Threads -> SUBSET Names] /\ may \in [Threads -> SUBSET Names]
  /\ came \in [Threads -> SUBSET Names] /\ left \in [Threads -> SUBSET Names]
  /\ copies \in [Threads -> [Names -> Nat]]

-------------------------------------------------------------------------------
(* The membership                                                          *)

\* What a walk from member reaches in k steps, and in any number of them.
Within[k \in Nat] ==
  IF k = 0 THEN {member} \cap DOMAIN mem
  ELSE (UNION {{x, mem[x].next_member} : x \in Within[k - 1]}) \cap DOMAIN mem
List == Within[Len(mem)]

\* A participant is a member once its last field is stored.
Members ==
  {mem[x].name : x \in {y \in List : ~\E t \in Threads : pc[t] \in Filling /\ conductor[t] = y}}
    \ {None}

Online == {n \in Names : users[n].login = 1}

\* The history variables, in every step.
Witness ==
  /\ must' = [t \in Threads |->
                CASE pc'[t] = "idle" -> {}
                  [] pc[t] = "idle" /\ pc'[t] # "idle" -> Members' \cap Online'
                  [] OTHER -> must[t] \cap Members' \cap Online']
  /\ may' = [t \in Threads |-> IF pc'[t] = "idle" THEN {} ELSE may[t] \cup Members']
  /\ came' = [t \in Threads |->
                IF pc'[t] = "idle" THEN {} ELSE came[t] \cup (Members' \ Members)]
  /\ left' = [t \in Threads |->
                IF pc'[t] = "idle" THEN {} ELSE left[t] \cup (Members \ Members')]

-------------------------------------------------------------------------------
(* Steps of a thread                                                       *)

\* Thread t is at l and its conductor points to a participant.
At(t, l) == up /\ pc[t] = l /\ conductor[t] \in DOMAIN mem

\* It is at l, where it does not use its conductor.
Before(t, l) == up /\ pc[t] = l

here(t) == mem[conductor[t]]

Goto(t, l) == pc' = [pc EXCEPT ![t] = l] /\ UNCHANGED <<op, answer, copies, clientVars>>
Follow(t, x) == conductor' = [conductor EXCEPT ![t] = x]
Return(t, a) ==
  /\ pc' = [pc EXCEPT ![t] = "idle"]
  /\ op' = [op EXCEPT ![t] = None]
  /\ answer' = [answer EXCEPT ![t] = a]
  /\ UNCHANGED <<copies, clientVars>>

\* The loop goes on at l with the participant x unless that is null.
Loop(t, x, l, end) ==
  /\ Follow(t, x)
  /\ \/ x = Null /\ end
     \/ x # Null /\ Goto(t, l)

Store(t, p) == mem' = [mem EXCEPT ![conductor[t]] = p]

Start(kind) == CASE kind = "join" -> "look" [] kind = "exit" -> "previous"
                 [] kind = "forward" -> "head" [] kind = "login" -> "online"

\* handle_clients takes the next request of t's client: LOGIN first if it has no
\* name yet, then those about the room, under its name.  The client may have gone since.
request(t, o) ==
  /\ up /\ pc[t] = "idle" /\ calls[t] < MaxCalls[t]
  /\ IF nick[t] = None THEN o.kind = "login" ELSE o.kind # "login" /\ o.name = nick[t]
  /\ pc' = [pc EXCEPT ![t] = Start(o.kind)]
  /\ op' = [op EXCEPT ![t] = o]
  /\ answer' = [answer EXCEPT ![t] = None]
  /\ calls' = [calls EXCEPT ![t] = @ + 1]
  /\ copies' = [copies EXCEPT ![t] = [n \in Names |-> 0]]
  /\ UNCHANGED <<roomVars, nick, gone, localVars>>

\* A client leaves, whatever its thread is doing.
leave(t) ==
  /\ up /\ t \in Leavers \ gone
  /\ gone' = gone \cup {t}
  /\ UNCHANGED <<roomVars, nick, calls, pc, op, localVars, answer, copies>>

-------------------------------------------------------------------------------
(* join_chatroom, from its step 3                                          *)

\* The search for the name.
look(t) ==
  /\ Before(t, "look") /\ Loop(t, member, "compare", Goto(t, "again"))
  /\ UNCHANGED <<roomVars, previous, held>>

compare(t) ==
  /\ At(t, "compare")
  /\ \/ here(t).name = op[t].name /\ Return(t, SUCCESS)
     \/ here(t).name # op[t].name /\ Goto(t, "next")
  /\ UNCHANGED <<roomVars, localVars>>

next(t) ==
  /\ At(t, "next") /\ Loop(t, here(t).next_member, "compare", Goto(t, "again"))
  /\ UNCHANGED <<roomVars, previous, held>>

\* Mutant: the new participant has no user.
Fresh_NoUser(u, x) == [name |-> None, ptr_to_user |-> None, next_member |-> x, freed |-> FALSE]

\* What malloc returns, beside null.
Fresh(u, x) == [name |-> None, ptr_to_user |-> u, next_member |-> x, freed |-> FALSE]

\* member is read again; the first participant of the room gets linked there.
again(t) ==
  /\ Before(t, "again")
  /\ \/ /\ member # Null
        /\ Follow(t, member) /\ Goto(t, "tail") /\ UNCHANGED <<member, mem>>
     \/ /\ member = Null
        /\ Follow(t, Null) /\ Goto(t, "first node") /\ UNCHANGED <<member, mem>>
  /\ UNCHANGED <<up, users, previous, held>>

first_node(t) ==
  /\ Before(t, "first node")
  /\ \/ \E u \in FreshUser, x \in FreshNext :
          /\ mem' = Append(mem, Fresh(u, x))
          /\ member' = Len(mem) + 1
          /\ Follow(t, member') /\ Goto(t, "clear")
     \/ member' = Null /\ Return(t, OUT_OF_MEMORY) /\ UNCHANGED <<mem, conductor>>
  /\ UNCHANGED <<up, users, previous, held>>

\* The walk to the end: the condition reads next_member, and the body again.
tail(t) ==
  /\ At(t, "tail")
  /\ \/ here(t).next_member = Null /\ Goto(t, "append")
     \/ here(t).next_member # Null /\ Goto(t, "advance")
  /\ UNCHANGED <<roomVars, localVars>>

advance(t) ==
  /\ At(t, "advance") /\ Follow(t, here(t).next_member) /\ Goto(t, "tail")
  /\ UNCHANGED <<roomVars, previous, held>>

append(t) ==
  /\ At(t, "append")
  /\ \/ \E u \in FreshUser, x \in FreshNext :
          mem' = Append([mem EXCEPT ![conductor[t]].next_member = Len(mem) + 1], Fresh(u, x))
     \/ Store(t, [here(t) EXCEPT !.next_member = Null])
  /\ Goto(t, "reload")
  /\ UNCHANGED <<up, member, users, localVars>>

reload(t) ==
  /\ At(t, "reload") /\ Loop(t, here(t).next_member, "clear", Return(t, OUT_OF_MEMORY))
  /\ UNCHANGED <<roomVars, previous, held>>

\* Mutant: the list is closed to a ring.
Cleared_Ring(t) == [here(t) EXCEPT !.next_member = member]
Cleared(t) == [here(t) EXCEPT !.next_member = Null]

clear(t) ==
  /\ At(t, "clear") /\ Store(t, Cleared(t)) /\ Goto(t, "name")
  /\ UNCHANGED <<up, member, users, localVars>>

store_name(t) ==
  /\ At(t, "name") /\ Store(t, [here(t) EXCEPT !.name = op[t].name]) /\ Goto(t, "user")
  /\ UNCHANGED <<up, member, users, localVars>>

store_user(t) ==
  /\ At(t, "user") /\ Store(t, [here(t) EXCEPT !.ptr_to_user = op[t].name])
  /\ Return(t, SUCCESS)
  /\ UNCHANGED <<up, member, users, localVars>>

-------------------------------------------------------------------------------
(* exit_chatroom, from its step 3                                          *)

\* member is read twice, for the two pointers.
read_previous(t) ==
  /\ Before(t, "previous") /\ previous' = [previous EXCEPT ![t] = member]
  /\ Goto(t, "first")
  /\ UNCHANGED <<roomVars, conductor, held>>

read_first(t) ==
  /\ Before(t, "first") /\ Loop(t, member, "find", Return(t, SUCCESS))
  /\ UNCHANGED <<roomVars, previous, held>>

find(t) ==
  /\ At(t, "find")
  /\ \/ here(t).name = op[t].name /\ Goto(t, "load")
     \/ here(t).name # op[t].name /\ Goto(t, "pass")
  /\ UNCHANGED <<roomVars, localVars>>

\* Mutant: previous stays at the first participant.
Trailing_First(t) == previous[t]
Trailing(t) == conductor[t]

pass(t) ==
  /\ At(t, "pass")
  /\ previous' = [previous EXCEPT ![t] = Trailing(t)]
  /\ Loop(t, here(t).next_member, "find", Return(t, SUCCESS))
  /\ UNCHANGED <<roomVars, held>>

\* Step 4: the next of the participant is loaded and stored into the previous one.
load(t) ==
  /\ At(t, "load") /\ held' = [held EXCEPT ![t] = here(t).next_member]
  /\ Goto(t, "store")
  /\ UNCHANGED <<roomVars, conductor, previous>>

store(t) ==
  /\ Before(t, "store") /\ previous[t] \in DOMAIN mem
  /\ mem' = [mem EXCEPT ![previous[t]].next_member = held[t]]
  /\ Goto(t, "free")
  /\ UNCHANGED <<up, member, users, localVars>>

\* Step 5: the allocator writes its links over the name.
free(t) ==
  /\ At(t, "free") /\ Store(t, [here(t) EXCEPT !.name = None, !.freed = TRUE])
  /\ Return(t, SUCCESS)
  /\ UNCHANGED <<up, member, users, localVars>>

-------------------------------------------------------------------------------
(* forward_chat_room_data, from its step 2                                 *)

head(t) ==
  /\ Before(t, "head") /\ Loop(t, member, "sender", Return(t, SUCCESS))
  /\ UNCHANGED <<roomVars, previous, held>>

AtSender(t) == here(t).name = op[t].name /\ Goto(t, "onward")

sender(t) ==
  /\ At(t, "sender")
  /\ \/ AtSender(t)
     \/ here(t).name # op[t].name /\ Goto(t, "status")
  /\ UNCHANGED <<roomVars, localVars>>

\* The user of the participant the loop is at.
user(t) == here(t).ptr_to_user

status(t) ==
  /\ At(t, "status") /\ user(t) \in Names
  /\ \/ users[user(t)].login = 1 /\ Goto(t, "socket")
     \/ users[user(t)].login = 0 /\ Goto(t, "onward")
  /\ UNCHANGED <<roomVars, localVars>>

socket(t) ==
  /\ At(t, "socket") /\ user(t) \in Names
  /\ held' = [held EXCEPT ![t] = users[user(t)].connfd]
  /\ Goto(t, "write")
  /\ UNCHANGED <<roomVars, conductor, previous>>

\* Mutant: a message that has been written counts as a failure.
Fails_Written(f) == f \in Threads
Fails(f) == f \in gone

\* send_universal_india_message.  For a client that has gone its writes are taken or
\* fail, or SIGPIPE ends the server.
write(t) ==
  /\ Before(t, "write")
  /\ copies' = [copies EXCEPT ![t][user(t)] = @ + 1]
  /\ \/ pc' = [pc EXCEPT ![t] = "onward"]
     \/ Fails(held[t]) /\ pc' = [pc EXCEPT ![t] = "reset"]
  /\ UNCHANGED <<roomVars, clientVars, op, localVars, answer>>

reset(t) ==
  /\ At(t, "reset") /\ user(t) \in Names
  /\ users' = [users EXCEPT ![user(t)].login = 0]
  /\ Goto(t, "onward")
  /\ UNCHANGED <<up, member, mem, localVars>>

onward(t) ==
  /\ At(t, "onward") /\ Loop(t, here(t).next_member, "sender", Return(t, SUCCESS))
  /\ UNCHANGED <<roomVars, previous, held>>

\* The accesses that need no pointer of the thread.
Pointless == {"idle", "look", "again", "previous", "first", "head", "first node",
              "write"} \cup LoggingIn

\* The server ends: a thread uses a pointer that is null or points to no object, or a
\* participant that has been freed, whose memory another malloc may have got and
\* rewritten; or it writes to a client that has gone and gets SIGPIPE.
dies(t) ==
  /\ up
  /\ \/ pc[t] \notin Pointless /\ conductor[t] \notin DOMAIN mem
     \/ pc[t] \notin Pointless /\ conductor[t] \in DOMAIN mem /\ here(t).freed
     \/ pc[t] = "store" /\ previous[t] \notin DOMAIN mem
     \/ pc[t] \in {"status", "socket", "reset"} /\ here(t).ptr_to_user \notin Names
     \/ pc[t] = "write" /\ Fails(held[t])
  /\ up' = FALSE
  /\ UNCHANGED <<member, mem, users, clientVars, pc, op, localVars, answer, copies>>

-------------------------------------------------------------------------------
(* login_user, from the match of name and password                         *)

log_on(t) ==
  /\ Before(t, "online") /\ users' = [users EXCEPT ![op[t].name].login = 1]
  /\ Goto(t, "connect")
  /\ UNCHANGED <<up, member, mem, localVars>>

connect(t) ==
  /\ Before(t, "connect") /\ users' = [users EXCEPT ![op[t].name].connfd = t]
  /\ nick' = [nick EXCEPT ![t] = op[t].name]
  /\ pc' = [pc EXCEPT ![t] = "idle"] /\ op' = [op EXCEPT ![t] = None]
  /\ answer' = [answer EXCEPT ![t] = SUCCESS]
  /\ UNCHANGED <<up, member, mem, gone, calls, localVars, copies>>

-------------------------------------------------------------------------------

\* The participants of those who have joined before, each of them done.
Init ==
  /\ up = TRUE
  /\ \E s \in FirstMembers :
       /\ mem = [x \in DOMAIN s |->
                   [name |-> s[x], ptr_to_user |-> s[x], freed |-> FALSE,
                    next_member |-> IF x = Len(s) THEN Null ELSE x + 1]]
       /\ member = IF s = <<>> THEN Null ELSE 1
  /\ users \in [Names -> User]
  /\ \A n \in Names : users[n].login = 1 /\ NameOf[users[n].connfd] = n
  /\ nick = NameOf
  /\ gone = {}
  /\ pc = [t \in Threads |-> "idle"]
  /\ op = [t \in Threads |-> None]
  /\ conductor = [t \in Threads |-> Null]
  /\ previous = [t \in Threads |-> Null]
  /\ held = [t \in Threads |-> Null]
  /\ answer = [t \in Threads |-> None]
  /\ calls = [t \in Threads |-> 0]
  /\ must = [t \in Threads |-> {}]
  /\ may = [t \in Threads |-> {}]
  /\ came = [t \in Threads |-> {}]
  /\ left = [t \in Threads |-> {}]
  /\ copies = [t \in Threads |-> [n \in Names |-> 0]]

JoinStep(t) ==
  \/ look(t) \/ compare(t) \/ next(t)
  \/ again(t) \/ first_node(t) \/ tail(t) \/ advance(t) \/ append(t) \/ reload(t)
  \/ clear(t) \/ store_name(t) \/ store_user(t)

ExitStep(t) ==
  \/ read_previous(t) \/ read_first(t) \/ find(t) \/ pass(t)
  \/ load(t) \/ store(t) \/ free(t)

ForwardStep(t) ==
  \/ head(t) \/ sender(t) \/ status(t) \/ socket(t) \/ write(t) \/ reset(t) \/ onward(t)

LoginStep(t) == log_on(t) \/ connect(t)

Run(t) ==
  (JoinStep(t) \/ ExitStep(t) \/ ForwardStep(t) \/ LoginStep(t) \/ dies(t)) /\ Witness

Next ==
  \E t \in Threads :
    Run(t) \/ ((leave(t) \/ \E o \in Requests[t] : request(t, o)) /\ Witness)

Spec == Init /\ [][Next]_vars

Callers == {t \in Threads : Requests[t] # {}}

\* A write waits until its client has read what is before it, which it need not do; the
\* client's end lets it return.
Blocked(t) == pc[t] = "write" /\ held[t] \notin gone

\* The scheduler runs every thread that can run.  Clients need neither send nor read.
Fairness == \A t \in Callers : WF_vars(~Blocked(t) /\ Run(t))

\* What the code is written for and does not see to: at most one thread is in
\* join_chatroom or exit_chatroom, and it is not the first member that exits.
Writing(t) == pc[t] # "idle" /\ op[t].kind \in {"join", "exit"}
FirstExits(t) ==
  pc[t] # "idle" /\ op[t].kind = "exit" /\ member # Null /\ mem[member].name = op[t].name
OneWriter ==
  /\ \A t, u \in Threads : Writing(t) /\ Writing(u) => t = u
  /\ \A t \in Threads : ~FirstExits(t)

OneWriterSpec == Init /\ [][Next /\ OneWriter']_vars /\ Fairness

-------------------------------------------------------------------------------
(* Properties                                                              *)

\* The promise of Room, kept by the list: a message handed to forward_chat_room_data
\* is written for each user who is a member and logged in from the beginning of the call
\* to its end, for nobody who is no member in that time, twice only for one who has left
\* meanwhile, and for the sender only if he has come or left meanwhile, whatever joins
\* and exits walk and relink the list.  Only three calls may end the server: one that
\* meets an unfinished join, one during which a member has left, and a forward to a
\* member whose client has gone.
Promise == INSTANCE Room WITH
  alive   <- up,
  members <- Members,
  online  <- Online,
  away    <- {nick[t] : t \in gone} \ {None},
  call    <- [t \in Threads |-> IF pc[t] = "idle" THEN None ELSE op[t]]

ImplementsRoom == Promise!Spec

\* Every call comes to an end, unless the server dies or the call waits for ever in a
\* write to a client that neither reads nor goes: the walks of join_chatroom,
\* exit_chatroom and forward_chat_room_data end though others change the list.
EveryCallEnds ==
  \A t \in Callers : pc[t] # "idle" ~> (pc[t] = "idle" \/ ~up \/ []Blocked(t))

\* Who is logged off has had a connection that its client has closed: login is reset only after a
\* write() to it has failed (forward_chat_room_data), however it races with the login
\* of the same user on another connection.
OfflineHasLeft ==
  \A n \in Names : users[n].login = 0 => \E t \in gone : nick[t] = n

===============================================================================
