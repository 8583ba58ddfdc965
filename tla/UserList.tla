-------------------------------- MODULE UserList --------------------------------
(***************************************************************************)
(* The list of users of india_messages_server.c as the threads of the      *)
(* server work on it: register_user and login_user, one action per access  *)
(* to a node.  handle_clients calls them from one thread per connection,   *)
(* and no lock protects the list.  The stores come in the order of the     *)
(* statements: the Makefile compiles without optimisation.                 *)
(*                                                                         *)
(* mem is the nodes in the order malloc returned them, the first being     *)
(* root_user.  A node that malloc has just returned holds what was in      *)
(* its bytes before: no name or password anyone asks for, and one of       *)
(* FreshNext in the pointer.                                               *)
(***************************************************************************)
EXTENDS Integers, Sequences

CONSTANTS
  Threads,         \* threads of handle_clients; each also stands for its connfd
  Names,
  Passwords,
  FreshNext,       \* what next may be in a node malloc returns
  MAX_USER_COUNT,  \* the limit of the search loop of login_user
  MaxCalls,        \* bound: REGISTER_USER and LOGIN requests of one client
  None             \* no name, no password, no descriptor, no answer

Null == 0
Wild == -1     \* an address at which there is no node
root_user == 1

ASSUME FreshNextAssumption == FreshNext # {} /\ FreshNext \subseteq {Null, Wild}
ASSUME BoundsAssumption == MAX_USER_COUNT \in Nat \ {0} /\ MaxCalls \in Nat
ASSUME NoneAssumption ==
  /\ None \notin Names \cup Passwords \cup Threads
  /\ None \notin Int /\ None \notin [kind: {"register", "login"}, name: Names, pw: Passwords]

\* Error codes of india_messages_protocol.h
SUCCESS == 0
NICK_NAME_IN_USE == 1
USER_DOES_NOT_EXIST == 4
WRONG_PW == 5
OUT_OF_MEMORY == 99

VARIABLES
  up,         \* FALSE once a thread has followed a pointer to no node
  mem,        \* the nodes
  pc,         \* the next access of each thread, "idle" between two calls
  op,         \* its last call
  conductor,  \* its conductor
  i,          \* the counter of the loop of login_user
  answer,     \* the result of its last call
  calls,      \* how many calls its client has made
  known,      \* history: the accounts there were when its last call began
  settled     \* history: the accounts in the list when last no registration ran

threadVars == <<pc, op, conductor, i, answer, calls, known>>
vars == <<up, mem, threadVars, settled>>

Node == [name: Names \cup {None}, pw: Passwords \cup {None}, login: {0, 1},
         connfd: Threads \cup {None}, next: {Null, Wild} \cup Nat]
Account == [name: Names, pw: Passwords]
Call == [kind: {"register", "login"}, name: Names, pw: Passwords]

Searching == {"compare", "step"}
Appending == {"tail", "advance", "link", "reload"}
Filling   == {"clear", "name", "pw", "connfd", "login"}
LoggingIn == {"first", "match", "skip", "password", "online", "connect"}

TypeOK ==
  /\ up \in BOOLEAN
  /\ mem \in Seq(Node) /\ root_user \in DOMAIN mem
  /\ pc \in [Threads -> {"idle"} \cup Searching \cup Appending \cup Filling \cup LoggingIn]
  /\ op \in [Threads -> Call \cup {None}]
  /\ conductor \in [Threads -> {Null, Wild} \cup Nat]
  /\ i \in [Threads -> Nat]
  /\ answer \in [Threads -> Int \cup {None}]
  /\ calls \in [Threads -> 0 .. MaxCalls]
  /\ known \in [Threads -> SUBSET Account]
  /\ settled \in SUBSET Account

-------------------------------------------------------------------------------
(* Accounts                                                                *)

\* Nodes whose name and password are stored.
Stored == {x \in DOMAIN mem \ {root_user} : mem[x].name # None /\ mem[x].pw # None}

AccountAt(x) == [name |-> mem[x].name, pw |-> mem[x].pw]
Accounts == {AccountAt(x) : x \in Stored}

\* What a walk from root_user reaches.
List ==
  {x \in DOMAIN mem :
     \A S \in SUBSET DOMAIN mem :
       root_user \in S /\ (\A y \in S : mem[y].next \in S \cup {Null, Wild}) => x \in S}

ListAccounts == {AccountAt(x) : x \in Stored \cap List}

Registering(t) == pc[t] \in Searching \cup Appending \cup Filling

\* The history variable, in every step.
Settle ==
  settled' = IF \E t \in Threads : Registering(t)' THEN settled ELSE ListAccounts'

-------------------------------------------------------------------------------
(* Steps of a thread                                                       *)

\* Thread t is at l and its conductor points to a node.
At(t, l) == up /\ pc[t] = l /\ conductor[t] \in DOMAIN mem

Goto(t, l) == pc' = [pc EXCEPT ![t] = l] /\ UNCHANGED <<op, answer, calls, known>>
Follow(t, x) == conductor' = [conductor EXCEPT ![t] = x]
Return(t, a) ==
  /\ pc' = [pc EXCEPT ![t] = "idle"]
  /\ answer' = [answer EXCEPT ![t] = a]
  /\ UNCHANGED <<op, conductor, calls, known>>

here(t) == mem[conductor[t]]

\* handle_clients takes the next request of a client that has not got into the
\* service yet.
request(t, o) ==
  /\ up /\ pc[t] = "idle" /\ answer[t] # SUCCESS /\ calls[t] < MaxCalls
  /\ pc' = [pc EXCEPT ![t] = IF o.kind = "register" THEN "compare" ELSE "first"]
  /\ op' = [op EXCEPT ![t] = o]
  /\ Follow(t, root_user)
  /\ i' = [i EXCEPT ![t] = 0]
  /\ answer' = [answer EXCEPT ![t] = None]
  /\ calls' = [calls EXCEPT ![t] = @ + 1]
  /\ known' = [known EXCEPT ![t] = Accounts]
  /\ UNCHANGED <<up, mem>>

\* A thread uses a pointer that is null or points to no node.
stray(t) ==
  /\ up /\ pc[t] # "idle" /\ conductor[t] \notin DOMAIN mem
  /\ up' = FALSE
  /\ UNCHANGED <<mem, threadVars>>

-------------------------------------------------------------------------------
(* register_user                                                           *)

compare(t) ==
  /\ At(t, "compare")
  /\ \/ here(t).name = op[t].name /\ Return(t, NICK_NAME_IN_USE)
     \/ here(t).name # op[t].name /\ Goto(t, "step") /\ UNCHANGED conductor
  /\ UNCHANGED <<up, mem, i>>

step(t) ==
  /\ At(t, "step")
  /\ \/ here(t).next = Null /\ Goto(t, "tail") /\ Follow(t, root_user)
     \/ here(t).next # Null /\ Goto(t, "compare") /\ Follow(t, here(t).next)
  /\ UNCHANGED <<up, mem, i>>

\* Mutant: the walk is left out.
Last_NoWalk(t) == conductor[t] = root_user

\* The condition of the loop reads next ...
Last(t) == here(t).next = Null

tail(t) ==
  /\ At(t, "tail")
  /\ \/ Last(t) /\ Goto(t, "link")
     \/ ~Last(t) /\ Goto(t, "advance")
  /\ UNCHANGED <<up, mem, conductor, i>>

\* ... and its body reads it again.
advance(t) ==
  /\ At(t, "advance")
  /\ Goto(t, "tail") /\ Follow(t, here(t).next)
  /\ UNCHANGED <<up, mem, i>>

Fresh(x) == [name |-> None, pw |-> None, login |-> 0, connfd |-> None, next |-> x]

\* conductor->next gets what malloc returns, the new node or null.
link(t) ==
  /\ At(t, "link")
  /\ \/ \E x \in FreshNext :
          mem' = Append([mem EXCEPT ![conductor[t]].next = Len(mem) + 1], Fresh(x))
     \/ mem' = [mem EXCEPT ![conductor[t]].next = Null]
  /\ Goto(t, "reload")
  /\ UNCHANGED <<up, conductor, i>>

Appended(t) == here(t).next

reload(t) ==
  /\ At(t, "reload")
  /\ \/ Appended(t) = Null /\ Return(t, OUT_OF_MEMORY)
     \/ Appended(t) # Null /\ Goto(t, "clear") /\ Follow(t, Appended(t))
  /\ UNCHANGED <<up, mem, i>>

\* Mutant: the list is closed to a ring.
Cleared_Ring(t) == [here(t) EXCEPT !.next = root_user]
Cleared(t) == [here(t) EXCEPT !.next = Null]

Store(t, node) == mem' = [mem EXCEPT ![conductor[t]] = node]

clear(t) ==
  /\ At(t, "clear") /\ Store(t, Cleared(t)) /\ Goto(t, "name")
  /\ UNCHANGED <<up, conductor, i>>

\* Mutant: the password goes where the name belongs.
store_name_Pw(t) ==
  /\ At(t, "name") /\ Store(t, [here(t) EXCEPT !.name = op[t].pw]) /\ Goto(t, "pw")
  /\ UNCHANGED <<up, conductor, i>>

store_name(t) ==
  /\ At(t, "name") /\ Store(t, [here(t) EXCEPT !.name = op[t].name]) /\ Goto(t, "pw")
  /\ UNCHANGED <<up, conductor, i>>

store_pw(t) ==
  /\ At(t, "pw") /\ Store(t, [here(t) EXCEPT !.pw = op[t].pw]) /\ Goto(t, "connfd")
  /\ UNCHANGED <<up, conductor, i>>

store_connfd(t) ==
  /\ At(t, "connfd") /\ Store(t, [here(t) EXCEPT !.connfd = t]) /\ Goto(t, "login")
  /\ UNCHANGED <<up, conductor, i>>

store_login(t) ==
  /\ At(t, "login") /\ Store(t, [here(t) EXCEPT !.login = 1]) /\ Return(t, SUCCESS)
  /\ UNCHANGED <<up, i>>

-------------------------------------------------------------------------------
(* login_user                                                              *)

first(t) ==
  /\ At(t, "first")
  /\ \/ here(t).next = Null /\ Return(t, USER_DOES_NOT_EXIST)
     \/ here(t).next # Null /\ Goto(t, "match") /\ Follow(t, here(t).next)
  /\ UNCHANGED <<up, mem, i>>

match(t) ==
  /\ At(t, "match")
  /\ \/ here(t).name = op[t].name /\ Goto(t, "password")
     \/ here(t).name # op[t].name /\ Goto(t, "skip")
  /\ UNCHANGED <<up, mem, conductor, i>>

\* Mutant: the search gives up one user early.
More_Short(t) == i[t] + 2 < MAX_USER_COUNT
More(t) == i[t] + 1 < MAX_USER_COUNT

skip(t) ==
  /\ At(t, "skip")
  /\ i' = [i EXCEPT ![t] = @ + 1]
  /\ \/ here(t).next # Null /\ More(t) /\ Goto(t, "match") /\ Follow(t, here(t).next)
     \/ (here(t).next = Null \/ ~More(t)) /\ Return(t, USER_DOES_NOT_EXIST)
  /\ UNCHANGED <<up, mem>>

password(t) ==
  /\ At(t, "password")
  /\ \/ here(t).pw = op[t].pw /\ Goto(t, "online") /\ UNCHANGED conductor
     \/ here(t).pw # op[t].pw /\ Return(t, WRONG_PW)
  /\ UNCHANGED <<up, mem, i>>

online(t) ==
  /\ At(t, "online") /\ Store(t, [here(t) EXCEPT !.login = 1]) /\ Goto(t, "connect")
  /\ UNCHANGED <<up, conductor, i>>

connect(t) ==
  /\ At(t, "connect") /\ Store(t, [here(t) EXCEPT !.connfd = t]) /\ Return(t, SUCCESS)
  /\ UNCHANGED <<up, i>>

-------------------------------------------------------------------------------

Init ==
  /\ up = TRUE
  /\ mem = <<Fresh(Null)>>
  /\ pc = [t \in Threads |-> "idle"]
  /\ op = [t \in Threads |-> None]
  /\ conductor = [t \in Threads |-> root_user]
  /\ i = [t \in Threads |-> 0]
  /\ answer = [t \in Threads |-> None]
  /\ calls = [t \in Threads |-> 0]
  /\ known = [t \in Threads |-> {}]
  /\ settled = {}

RegisterStep(t) ==
  \/ compare(t) \/ step(t)
  \/ tail(t) \/ advance(t) \/ link(t) \/ reload(t)
  \/ clear(t) \/ store_name(t) \/ store_pw(t) \/ store_connfd(t) \/ store_login(t)

LoginStep(t) ==
  first(t) \/ match(t) \/ skip(t) \/ password(t) \/ online(t) \/ connect(t)

Run(t) == (RegisterStep(t) \/ LoginStep(t) \/ stray(t)) /\ Settle

Next == \E t \in Threads : Run(t) \/ ((\E o \in Call : request(t, o)) /\ Settle)

Spec == Init /\ [][Next]_vars

\* The scheduler runs every thread that can run; clients need not send anything.
FairSpec == Spec /\ \A t \in Threads : WF_vars(Run(t))

\* At most one thread is in register_user: what the code is written for and does not
\* see to.
OneRegistration ==
  \A t, u \in Threads : Registering(t) /\ Registering(u) => t = u

OneAtATimeSpec ==
  Init /\ [][Next /\ OneRegistration']_vars /\ \A t \in Threads : WF_vars(Run(t))

-------------------------------------------------------------------------------
(* Properties                                                              *)

\* The links lead from older to newer nodes, however the registrations overlap: no
\* walk meets a node twice (register_user stores what malloc has just returned, or
\* null).
LinksGoForward ==
  \A x \in DOMAIN mem : mem[x].next \in {Null, Wild} \cup ((x + 1) .. Len(mem))

\* An account that is in the list at a moment when no registration runs is there for
\* good, whatever registrations overlap later: they race for what comes behind it
\* (register_user starts at the root again and writes behind the last node only).
SettledStay == settled \subseteq ListAccounts

\* Every call is answered, unless the server dies: the searches and the walk to the
\* end of the list come to an end though others append to it, take each other's new
\* nodes and reset each other's links meanwhile.
EveryCallAnswered == \A t \in Threads : pc[t] # "idle" ~> pc[t] = "idle" \/ ~up

\* The promise of Directory, kept by the list.
Promise == INSTANCE Directory WITH
  accounts <- Accounts,
  call     <- [t \in Threads |-> IF pc[t] = "idle" THEN None ELSE op[t]],
  enrolled <- [t \in Threads |-> pc[t] \in {"connfd", "login"}],
  lost     <- [t \in Threads |-> pc[t] # "idle" /\ conductor[t] = Wild],
  alive    <- up

\* register_user and login_user are the calls of a directory of accounts, each taking
\* effect at one moment, as long as no two registrations overlap: logins may come at
\* any step of a registration, and only one that overlaps a registration can end the
\* server (it reads the next that the new node does not have yet).
ImplementsDirectory == Promise!Spec

-------------------------------------------------------------------------------
(* What the program says of itself and does not keep                       *)

Registered(t) ==
  pc[t] = "idle" /\ answer[t] = SUCCESS /\ op[t].kind = "register"

\* "Creates a node at the end of the list" (india_messages_server.c:120): who is told
\* so has a node of this name and password in the list.
RegistrationKept ==
  \A t \in Threads :
    Registered(t) => [name |-> op[t].name, pw |-> op[t].pw] \in ListAccounts

===============================================================================
