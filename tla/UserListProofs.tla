----------------------------- MODULE UserListProofs -----------------------------
(* Proofs about UserList: for every number of threads and calls.           *)
EXTENDS UserList, TLAPS

-------------------------------------------------------------------------------
(* Type correctness                                                        *)

\* A node of the right type at a node's place keeps mem one (the stores of
\* register_user and login_user).
LEMMA StoreType ==
  ASSUME TypeOK, NEW t \in Threads, conductor[t] \in DOMAIN mem, NEW n \in Node, Store(t, n)
  PROVE  mem' \in Seq(Node) /\ root_user \in DOMAIN mem' /\ DOMAIN mem' = DOMAIN mem
BY DEF TypeOK, Store

\* A node has the fields of a Node (struct user).
LEMMA HereType ==
  ASSUME TypeOK, NEW t \in Threads, NEW l, At(t, l)
  PROVE  here(t) \in Node /\ conductor[t] \in DOMAIN mem /\ pc[t] = l
BY DEF TypeOK, At, here

\* In a call, op is the request being handled (handle_clients sets it before it calls
\* register_user or login_user).
InCall == \A t \in Threads : pc[t] # "idle" => op[t] \in Call

TypeInv == TypeOK /\ InCall

\* The initial state satisfies the type invariant and InCall (main).
LEMMA TypeInit == Init => TypeInv
BY NoneAssumption, BoundsAssumption
   DEF Init, TypeInv, TypeOK, InCall, Node, Fresh, Null, Wild, root_user, Searching, Appending,
       Filling, LoggingIn

\* The accounts of any nodes of the right type are accounts (the history variables
\* known and settled).
LEMMA AccountsType ==
  mem \in Seq(Node) => ListAccounts \subseteq Accounts /\ Accounts \in SUBSET Account
<1> SUFFICES ASSUME mem \in Seq(Node)
             PROVE  ListAccounts \subseteq Accounts /\ Accounts \in SUBSET Account
  OBVIOUS
<1>1. \A x \in Stored : AccountAt(x) \in Account
  <2>1. \A x \in DOMAIN mem : mem[x] \in Node
    OBVIOUS
  <2> QED BY <2>1 DEF Stored, AccountAt, Account, Node
<1> QED BY <1>1 DEF ListAccounts, Accounts

\* The node malloc returns has the type of a node (register_user).
LEMMA FreshType ==
  ASSUME NEW x \in {Null, Wild}
  PROVE  Fresh(x) \in Node
BY DEF Fresh, Node

\* Every step leaves a list of nodes that begins with the root (the stores and the
\* malloc of register_user and login_user).
LEMMA MemStep ==
  ASSUME TypeInv, NEW t \in Threads,
         RegisterStep(t) \/ LoginStep(t) \/ stray(t) \/ \E o \in Call : request(t, o)
  PROVE  mem' \in Seq(Node) /\ root_user \in DOMAIN mem'
<1> USE DEF TypeInv
<1>0. mem \in Seq(Node) /\ root_user \in DOMAIN mem
  BY DEF TypeOK
<1>1. CASE link(t)
  <2> DEFINE c == conductor[t]
  <2>1. here(t) \in Node /\ c \in DOMAIN mem
    BY <1>1, HereType DEF link
  <2>2. Len(mem) + 1 \in Nat /\ Null \in {Null, Wild}
    BY <1>0
  <2>3. \A x \in {Null, Wild} \cup Nat : [mem[c] EXCEPT !.next = x] \in Node
    BY <2>1 DEF here, Node
  <2>4. \A x \in {Null, Wild} \cup Nat :
          [mem EXCEPT ![c].next = x] \in Seq(Node) /\ Len([mem EXCEPT ![c].next = x]) = Len(mem)
    BY <1>0, <2>1, <2>3
  <2>5. CASE mem' = [mem EXCEPT ![c].next = Null]
    BY <1>0, <2>4, <2>5
  <2>6. CASE \E x \in FreshNext : mem' = Append([mem EXCEPT ![c].next = Len(mem) + 1], Fresh(x))
    <3>1. PICK x \in FreshNext : mem' = Append([mem EXCEPT ![c].next = Len(mem) + 1], Fresh(x))
      BY <2>6
    <3>2. Fresh(x) \in Node
      BY FreshType, FreshNextAssumption
    <3> DEFINE m == [mem EXCEPT ![c].next = Len(mem) + 1]
    <3>3. m \in Seq(Node) /\ Len(m) = Len(mem)
      BY <2>2, <2>4
    <3>4. mem' = Append(m, Fresh(x))
      BY <3>1
    <3> HIDE DEF m
    <3> QED BY <1>0, <3>2, <3>3, <3>4 DEF root_user
  <2> QED BY <1>1, <2>5, <2>6 DEF link
<1>2. CASE \E l, n : At(t, l) /\ n \in Node /\ Store(t, n)
  BY <1>2, StoreType DEF At
<1>3. ASSUME clear(t) \/ store_name(t) \/ store_pw(t) \/ store_connfd(t) \/ store_login(t)
             \/ online(t) \/ connect(t)
      PROVE  \E l, n : At(t, l) /\ n \in Node /\ Store(t, n)
  <2>1. PICK l : At(t, l) /\ l # "idle"
    BY <1>3 DEF clear, store_name, store_pw, store_connfd, store_login, online, connect
  <2>2. here(t) \in Node
    BY <2>1, HereType
  <2>3. op[t] \in Call
    BY <2>1 DEF InCall, At
  <2>4. /\ Cleared(t) \in Node
        /\ [here(t) EXCEPT !.name = op[t].name] \in Node
        /\ [here(t) EXCEPT !.pw = op[t].pw] \in Node
        /\ [here(t) EXCEPT !.connfd = t] \in Node
        /\ [here(t) EXCEPT !.login = 1] \in Node
    BY <2>2, <2>3 DEF Cleared, Node, Call
  <2> QED BY <1>3, <2>1, <2>4
          DEF clear, store_name, store_pw, store_connfd, store_login, online, connect
<1>4. CASE UNCHANGED mem
  BY <1>0, <1>4
<1> QED BY <1>1, <1>2, <1>3, <1>4
        DEF RegisterStep, LoginStep, compare, step, tail, advance, reload, first, match, skip,
            password, stray, request

Labels == Searching \cup Appending \cup Filling \cup LoggingIn

\* What the steps of a thread do to its own variables.
Moves(t) == (\E l \in Labels : Goto(t, l)) \/ (\E a \in Int : Return(t, a))
Looks(t) == UNCHANGED conductor \/ \E x \in {Null, Wild} \cup Nat : Follow(t, x)

\* The next pointer of the node a thread is at is a pointer (struct user).
LEMMA NextType ==
  ASSUME TypeInv, NEW t \in Threads, NEW l, At(t, l)
  PROVE  here(t).next \in {Null, Wild} \cup Nat
<1>1. here(t) \in Node
  BY HereType DEF TypeInv
<1> QED BY <1>1 DEF Node

\* What a thread does with its conductor, its label and its answer keeps their types
\* (the assignments and returns of register_user and login_user).
LEMMA MoveType ==
  ASSUME TypeInv, NEW t \in Threads, NEW l, l # "idle", At(t, l), Moves(t), Looks(t),
         UNCHANGED up, i' \in [Threads -> Nat], mem' \in Seq(Node),
         root_user \in DOMAIN mem', settled' \in SUBSET Account
  PROVE  TypeInv'
<1> USE DEF TypeInv, TypeOK
<1>1. pc[t] # "idle" /\ op[t] \in Call
  BY DEF InCall, At
<1>2. conductor' \in [Threads -> {Null, Wild} \cup Nat]
  BY DEF Looks, Follow
<1>3. CASE \E k \in Labels : Goto(t, k)
  <2>1. PICK k \in Labels : Goto(t, k)
    BY <1>3
  <2>2. pc' \in [Threads -> {"idle"} \cup Searching \cup Appending \cup Filling \cup LoggingIn]
    BY <2>1 DEF Goto, Labels
  <2>3. UNCHANGED <<op, answer, calls, known>>
    BY <2>1 DEF Goto
  <2>4. InCall'
    BY <1>1, <2>1, <2>3 DEF InCall, Goto
  <2> QED BY <1>2, <2>2, <2>3, <2>4
<1>4. CASE \E a \in Int : Return(t, a)
  <2>1. PICK a \in Int : Return(t, a)
    BY <1>4
  <2>2. pc' \in [Threads -> {"idle"} \cup Searching \cup Appending \cup Filling \cup LoggingIn]
    BY <2>1 DEF Return
  <2>3. answer' \in [Threads -> Int \cup {None}] /\ UNCHANGED <<op, calls, known>>
    BY <2>1 DEF Return
  <2>4. InCall'
    BY <2>1, <2>3 DEF InCall, Return
  <2> QED BY <1>2, <2>2, <2>3, <2>4
<1> QED BY <1>3, <1>4 DEF Moves

\* Every step of register_user is such a move.
LEMMA RegisterMoves ==
  ASSUME TypeInv, NEW t \in Threads, RegisterStep(t)
  PROVE  /\ \E l : l # "idle" /\ At(t, l)
         /\ Moves(t) /\ Looks(t) /\ UNCHANGED <<up, i>>
<1> USE DEF Labels, Searching, Appending, Filling
<1>1. ASSUME NEW l \in Labels, Goto(t, l) PROVE Moves(t)
  BY <1>1 DEF Moves
<1>2. ASSUME NEW a \in {SUCCESS, NICK_NAME_IN_USE, OUT_OF_MEMORY}, Return(t, a)
      PROVE  Moves(t) /\ UNCHANGED conductor
  <2>1. a \in Int
    BY DEF SUCCESS, NICK_NAME_IN_USE, OUT_OF_MEMORY
  <2>2. Moves(t)
    BY <1>2, <2>1 DEF Moves
  <2> QED BY <1>2, <2>2 DEF Return
<1>3. ASSUME NEW l, At(t, l), Follow(t, here(t).next) \/ Follow(t, root_user) \/ UNCHANGED conductor
      PROVE  Looks(t)
  BY <1>3, NextType DEF Looks, root_user
<1>4. CASE compare(t) \/ step(t)
  BY <1>1, <1>2, <1>3, <1>4 DEF compare, step
<1>5. CASE tail(t) \/ advance(t)
  BY <1>1, <1>3, <1>5 DEF tail, advance
<1>6. CASE link(t) \/ reload(t)
  BY <1>1, <1>2, <1>3, <1>6 DEF link, reload, Appended
<1>7. CASE clear(t) \/ store_name(t) \/ store_pw(t)
  BY <1>1, <1>3, <1>7 DEF clear, store_name, store_pw
<1>8. CASE store_connfd(t) \/ store_login(t)
  BY <1>1, <1>2, <1>3, <1>8 DEF store_connfd, store_login
<1> QED BY <1>4, <1>5, <1>6, <1>7, <1>8 DEF RegisterStep

\* So is every step of login_user, which also counts.
LEMMA LoginMoves ==
  ASSUME TypeInv, NEW t \in Threads, LoginStep(t)
  PROVE  /\ \E l : l # "idle" /\ At(t, l)
         /\ Moves(t) /\ Looks(t) /\ UNCHANGED up /\ i' \in [Threads -> Nat]
<1> USE DEF Labels, LoggingIn
<1>0. i \in [Threads -> Nat]
  BY DEF TypeInv, TypeOK
<1>1. ASSUME NEW l \in Labels, Goto(t, l) PROVE Moves(t)
  BY <1>1 DEF Moves
<1>2. ASSUME NEW a \in {SUCCESS, USER_DOES_NOT_EXIST, WRONG_PW}, Return(t, a)
      PROVE  Moves(t) /\ UNCHANGED conductor
  <2>1. a \in Int
    BY DEF SUCCESS, USER_DOES_NOT_EXIST, WRONG_PW
  <2>2. Moves(t)
    BY <1>2, <2>1 DEF Moves
  <2> QED BY <1>2, <2>2 DEF Return
<1>3. ASSUME NEW l, At(t, l), Follow(t, here(t).next) \/ UNCHANGED conductor
      PROVE  Looks(t)
  BY <1>3, NextType DEF Looks
<1>4. CASE first(t)
  BY <1>0, <1>1, <1>2, <1>3, <1>4 DEF first
<1>5. CASE match(t) \/ password(t)
  BY <1>0, <1>1, <1>2, <1>3, <1>5 DEF match, password
<1>6. CASE skip(t)
  BY <1>0, <1>1, <1>2, <1>3, <1>6 DEF skip
<1>7. CASE online(t) \/ connect(t)
  BY <1>0, <1>1, <1>2, <1>3, <1>7 DEF online, connect
<1> QED BY <1>4, <1>5, <1>6, <1>7 DEF LoginStep

\* A request and a thread that goes astray keep the types.
LEMMA RequestType ==
  ASSUME TypeInv, NEW t \in Threads, stray(t) \/ \E o \in Call : request(t, o),
         settled' \in SUBSET Account
  PROVE  TypeInv'
<1> USE DEF TypeInv, TypeOK, InCall
<1>1. CASE stray(t)
  BY <1>1 DEF stray, threadVars
<1>2. CASE \E o \in Call : request(t, o)
  <2>1. PICK o \in Call : request(t, o)
    BY <1>2
  <2>2. Accounts \in SUBSET Account
    BY AccountsType
  <2>3. calls[t] + 1 \in 0 .. MaxCalls
    BY <2>1, BoundsAssumption DEF request
  <2>4. /\ pc' \in [Threads -> {"idle"} \cup Searching \cup Appending \cup Filling \cup LoggingIn]
        /\ conductor' \in [Threads -> {Null, Wild} \cup Nat]
        /\ i' \in [Threads -> Nat]
    BY <2>1 DEF request, Follow, root_user, Searching, LoggingIn
  <2>5. /\ op' \in [Threads -> Call \cup {None}] /\ answer' \in [Threads -> Int \cup {None}]
        /\ calls' \in [Threads -> 0 .. MaxCalls] /\ known' \in [Threads -> SUBSET Account]
    BY <2>1, <2>2, <2>3 DEF request
  <2>6. InCall'
    BY <2>1 DEF request
  <2> QED BY <2>1, <2>4, <2>5, <2>6 DEF request
<1> QED BY <1>1, <1>2

\* Every step keeps the type invariant.
LEMMA TypeStep == TypeInv /\ [Next]_vars => TypeInv'
<1>0. (mem \in Seq(Node) => ListAccounts \subseteq Accounts /\ Accounts \in SUBSET Account)'
  BY AccountsType, PTL
<1> SUFFICES ASSUME TypeInv, [Next]_vars PROVE TypeInv'
  OBVIOUS
<1>1. CASE Next
  <2>1. PICK t \in Threads : Run(t) \/ ((\E o \in Call : request(t, o)) /\ Settle)
    BY <1>1 DEF Next
  <2>2. mem' \in Seq(Node) /\ root_user \in DOMAIN mem'
    BY <2>1, MemStep DEF Run
  <2>3. settled' \in SUBSET Account
    <3>1. ListAccounts' \in SUBSET Account
      BY <1>0, <2>2
    <3> QED BY <2>1, <3>1 DEF Run, Settle, TypeInv, TypeOK
  <2>4. CASE RegisterStep(t) \/ LoginStep(t)
    <3>1. i' \in [Threads -> Nat]
      BY <2>4, RegisterMoves, LoginMoves DEF TypeInv, TypeOK
    <3>2. /\ \E l : l # "idle" /\ At(t, l)
          /\ Moves(t) /\ Looks(t) /\ UNCHANGED up
      BY <2>4, RegisterMoves, LoginMoves
    <3> QED BY <2>2, <2>3, <3>1, <3>2, MoveType
  <2> QED BY <2>1, <2>3, <2>4, RequestType DEF Run
<1>2. CASE UNCHANGED vars
  BY <1>2 DEF vars, threadVars, TypeInv, TypeOK, InCall
<1> QED BY <1>1, <1>2

\* The list, the threads' local variables and the history keep their types in every
\* behaviour (register_user and login_user under any interleaving).
THEOREM TypeCorrect == Spec => []TypeOK
<1>1. TypeInv => TypeOK
  BY DEF TypeInv
<1> QED BY <1>1, TypeInit, TypeStep, PTL DEF Spec

-------------------------------------------------------------------------------
(* The links                                                               *)

\* The fields of the nodes a step does not link keep their links, or lose them to
\* null; the node it links behind is the newest (register_user, login_user).
LEMMA LinksStep ==
  ASSUME TypeInv, LinksGoForward, [Next]_vars
  PROVE  LinksGoForward'
<1>0. mem \in Seq(Node)
  BY DEF TypeInv, TypeOK
<1>1. ASSUME NEW t \in Threads, link(t) PROVE LinksGoForward'
  <2> DEFINE c == conductor[t]
  <2>1. here(t) \in Node /\ c \in DOMAIN mem
    BY <1>1, HereType DEF link, TypeInv
  <2>2. c \in 1 .. Len(mem) /\ Len(mem) \in Nat
    BY <1>0, <2>1
  <2>3. CASE mem' = [mem EXCEPT ![c].next = Null]
    BY <1>0, <2>1, <2>2, <2>3 DEF LinksGoForward, Node, here
  <2>4. CASE \E x \in FreshNext : mem' = Append([mem EXCEPT ![c].next = Len(mem) + 1], Fresh(x))
    <3>1. PICK x \in FreshNext : mem' = Append([mem EXCEPT ![c].next = Len(mem) + 1], Fresh(x))
      BY <2>4
    <3> DEFINE m == [mem EXCEPT ![c].next = Len(mem) + 1]
    <3>2. m \in Seq(Node) /\ Len(m) = Len(mem)
      <4>1. [mem[c] EXCEPT !.next = Len(mem) + 1] \in Node
        BY <2>1, <2>2 DEF here, Node
      <4> QED BY <1>0, <2>2, <4>1
    <3>3. \A y \in 1 .. Len(mem) : m[y].next \in {Null, Wild} \cup ((y + 1) .. (Len(mem) + 1))
      <4> SUFFICES ASSUME NEW y \in 1 .. Len(mem)
                   PROVE  m[y].next \in {Null, Wild} \cup ((y + 1) .. (Len(mem) + 1))
        OBVIOUS
      <4>1. mem[y] \in Node /\ mem[y].next \in {Null, Wild} \cup ((y + 1) .. Len(mem))
        BY <1>0 DEF LinksGoForward
      <4>2. y # c => m[y] = mem[y]
        BY <1>0
      <4>3. y = c => m[y].next = Len(mem) + 1
        BY <1>0, <2>1, <2>2, <4>1 DEF Node
      <4> QED BY <2>2, <4>1, <4>2, <4>3
    <3>4. Fresh(x) \in Node /\ Fresh(x).next \in {Null, Wild}
      BY FreshType, FreshNextAssumption DEF Fresh
    <3>5. mem' = Append(m, Fresh(x))
      BY <3>1
    <3> HIDE DEF m
    <3>6. /\ Len(mem') = Len(mem) + 1 /\ DOMAIN mem' = 1 .. (Len(mem) + 1)
          /\ \A y \in 1 .. Len(mem) : mem'[y] = m[y]
          /\ mem'[Len(mem) + 1] = Fresh(x)
      BY <2>2, <3>2, <3>4, <3>5
    <3> QED BY <2>2, <3>3, <3>4, <3>6 DEF LinksGoForward
  <2> QED BY <1>1, <2>3, <2>4 DEF link
<1>2. ASSUME NEW t \in Threads, NEW l, At(t, l), NEW n \in Node, Store(t, n),
             n.next \in {Null, here(t).next}
      PROVE  LinksGoForward'
  BY <1>0, <1>2 DEF LinksGoForward, Store, At, here
<1>3. ASSUME NEW t \in Threads,
             clear(t) \/ store_name(t) \/ store_pw(t) \/ store_connfd(t) \/ store_login(t)
             \/ online(t) \/ connect(t)
      PROVE  LinksGoForward'
  <2>1. PICK l : At(t, l) /\ l # "idle"
    BY <1>3 DEF clear, store_name, store_pw, store_connfd, store_login, online, connect
  <2>2. here(t) \in Node
    BY <2>1, HereType DEF TypeInv
  <2>3. op[t] \in Call
    BY <2>1 DEF InCall, At, TypeInv
  <2>4. \A n \in {Cleared(t), [here(t) EXCEPT !.name = op[t].name],
                  [here(t) EXCEPT !.pw = op[t].pw], [here(t) EXCEPT !.connfd = t],
                  [here(t) EXCEPT !.login = 1]} :
          n \in Node /\ n.next \in {Null, here(t).next}
    BY <2>2, <2>3 DEF Cleared, Node, Call
  <2> QED BY <1>2, <1>3, <2>1, <2>4
          DEF clear, store_name, store_pw, store_connfd, store_login, online, connect
<1>4. CASE UNCHANGED mem
  BY <1>4 DEF LinksGoForward
<1> QED BY <1>1, <1>3, <1>4
        DEF Next, Run, RegisterStep, LoginStep, compare, step, tail, advance, reload, first,
            match, skip, password, stray, request, vars

\* The links always lead from older to newer nodes: no interleaving of registrations
\* closes the list to a ring, so that no search walks for ever (register_user).
THEOREM ListIsAcyclic == Spec => []LinksGoForward
<1>1. Init => LinksGoForward
  BY DEF Init, LinksGoForward, Fresh, Null
<1> QED BY <1>1, TypeInit, TypeStep, LinksStep, PTL DEF Spec

-------------------------------------------------------------------------------
(* Accounts that stay                                                      *)

\* Nodes of S that are reached from the root by way of S.
Connected(S) ==
  \A T \in SUBSET S :
    root_user \in T /\ (\A y \in T : mem[y].next \in S => mem[y].next \in T) => S \subseteq T

\* A pointer to no node, or to one that came after the first n.
Behind(n, p) == p \in {Null, Wild} \/ p > n

\* S is what was in the list when there were n nodes and no registration ran: no
\* registration since then has left it for good or will write into it, but for the
\* pointer of its last node.
CoreNodes(S, n) ==
  /\ n \in 0 .. Len(mem) /\ S \in SUBSET (1 .. n) /\ root_user \in S
  /\ Connected(S)
  /\ \A x \in S : mem[x].next \in S \/ Behind(n, mem[x].next)

CoreAccounts(S) == \A a \in settled : \E x \in Stored \cap S : AccountAt(x) = a

OutsideCore(S, n, t) ==
  /\ pc[t] \in {"tail", "advance"} => conductor[t] \in S \/ Behind(n, conductor[t])
  /\ pc[t] \in {"link", "reload"} =>
       \/ conductor[t] \in S /\ mem[conductor[t]].next \notin S
       \/ Behind(n, conductor[t])
  /\ pc[t] \in Filling => Behind(n, conductor[t])

Firm(S, n) == CoreNodes(S, n) /\ \A t \in Threads : OutsideCore(S, n, t)

Core(S, n) == Firm(S, n) /\ CoreAccounts(S)

SettledInv == \E n \in Nat : \E S \in SUBSET (1 .. n) : Core(S, n)

\* The list is closed under the links, and nothing smaller is that has the root.
LEMMA ListIsLeast ==
  mem \in Seq(Node) /\ LinksGoForward /\ root_user \in DOMAIN mem =>
    /\ List \in SUBSET DOMAIN mem /\ root_user \in List
    /\ \A x \in List : mem[x].next \in List \cup {Null, Wild}
    /\ \A S \in SUBSET DOMAIN mem :
         root_user \in S /\ (\A y \in S : mem[y].next \in S \cup {Null, Wild}) => List \subseteq S
<1> SUFFICES ASSUME mem \in Seq(Node), LinksGoForward, root_user \in DOMAIN mem
             PROVE  /\ List \in SUBSET DOMAIN mem /\ root_user \in List
                    /\ \A x \in List : mem[x].next \in List \cup {Null, Wild}
                    /\ \A S \in SUBSET DOMAIN mem :
                         root_user \in S /\ (\A y \in S : mem[y].next \in S \cup {Null, Wild})
                           => List \subseteq S
  OBVIOUS
<1>1. List \in SUBSET DOMAIN mem /\ root_user \in List
  BY DEF List
<1>2. \A S \in SUBSET DOMAIN mem :
        root_user \in S /\ (\A y \in S : mem[y].next \in S \cup {Null, Wild}) => List \subseteq S
  BY DEF List
<1>3. ASSUME NEW x \in List, mem[x].next \notin {Null, Wild} PROVE mem[x].next \in List
  <2>1. mem[x].next \in DOMAIN mem
    <3>1. DOMAIN mem = 1 .. Len(mem) /\ Len(mem) \in Nat /\ x \in DOMAIN mem
      BY <1>1
    <3>2. mem[x].next \in (x + 1) .. Len(mem)
      BY <1>3, <3>1 DEF LinksGoForward
    <3> QED BY <3>1, <3>2
  <2>2. ASSUME NEW S \in SUBSET DOMAIN mem, root_user \in S,
               \A y \in S : mem[y].next \in S \cup {Null, Wild}
        PROVE  mem[x].next \in S
    <3>1. x \in S
      BY <1>2, <2>2
    <3> QED BY <1>3, <2>2, <3>1
  <2> QED BY <2>1, <2>2 DEF List
<1> QED BY <1>1, <1>2, <1>3

\* Nodes that are connected with the root are in the list.
LEMMA CoreInList ==
  ASSUME TypeInv, NEW n, NEW S, CoreNodes(S, n)
  PROVE  S \subseteq List
<1>1. S \subseteq DOMAIN mem /\ \A x \in S : x \notin {Null, Wild}
  <2>1. DOMAIN mem = 1 .. Len(mem) /\ Len(mem) \in Nat
    BY DEF TypeInv, TypeOK
  <2> QED BY <2>1 DEF CoreNodes, Null, Wild
<1> SUFFICES ASSUME NEW T \in SUBSET DOMAIN mem, root_user \in T,
                    \A y \in T : mem[y].next \in T \cup {Null, Wild}
             PROVE  S \subseteq T
  BY <1>1 DEF List
<1>2. S \cap T \in SUBSET S /\ root_user \in S \cap T
  BY DEF CoreNodes
<1>3. \A y \in S \cap T : mem[y].next \in S => mem[y].next \in S \cap T
  BY <1>1
<1> HIDE DEF Null, Wild
<1> QED BY <1>2, <1>3 DEF CoreNodes, Connected

\* What is in the list when no registration runs is such a set.
LEMMA ListIsCore ==
  mem \in Seq(Node) /\ LinksGoForward /\ root_user \in DOMAIN mem =>
    CoreNodes(List, Len(mem)) /\ (settled = ListAccounts => CoreAccounts(List))
<1> SUFFICES ASSUME mem \in Seq(Node), LinksGoForward, root_user \in DOMAIN mem
             PROVE  CoreNodes(List, Len(mem)) /\ (settled = ListAccounts => CoreAccounts(List))
  OBVIOUS
<1>1. /\ List \in SUBSET DOMAIN mem /\ root_user \in List
      /\ \A x \in List : mem[x].next \in List \cup {Null, Wild}
      /\ \A S \in SUBSET DOMAIN mem :
           root_user \in S /\ (\A y \in S : mem[y].next \in S \cup {Null, Wild}) => List \subseteq S
  BY ListIsLeast
<1>2. Connected(List)
  <2> SUFFICES ASSUME NEW T \in SUBSET List, root_user \in T,
                      \A y \in T : mem[y].next \in List => mem[y].next \in T
               PROVE  List \subseteq T
    BY DEF Connected
  <2>1. T \in SUBSET DOMAIN mem /\ \A y \in T : mem[y].next \in T \cup {Null, Wild}
    BY <1>1
  <2> QED BY <1>1, <2>1
<1>3. DOMAIN mem = 1 .. Len(mem) /\ Len(mem) \in Nat
  OBVIOUS
<1>4. CoreNodes(List, Len(mem))
  BY <1>1, <1>2, <1>3 DEF CoreNodes, Behind
<1>5. settled = ListAccounts => CoreAccounts(List)
  BY DEF ListAccounts, CoreAccounts
<1> QED BY <1>4, <1>5

\* The names and passwords of S are what they were, and so are the links within it.
SameNodes(S, n) ==
  \A x \in S : /\ mem'[x].name = mem[x].name /\ mem'[x].pw = mem[x].pw
               /\ \/ mem'[x].next = mem[x].next
                  \/ mem[x].next \notin S /\ Behind(n, mem'[x].next)

\* Stores behind the last node of S, and into the fields that a login sets, leave S what
\* it was.
LEMMA NodesFrame ==
  ASSUME TypeInv, NEW n, NEW S, CoreNodes(S, n), mem' \in Seq(Node), Len(mem) <= Len(mem'),
         SameNodes(S, n)
  PROVE  CoreNodes(S, n)'
<1> USE DEF SameNodes
<1>1. DOMAIN mem = 1 .. Len(mem) /\ Len(mem) \in Nat /\ DOMAIN mem' = 1 .. Len(mem') /\ Len(mem') \in Nat
  BY DEF TypeInv, TypeOK
<1>2. n \in 0 .. Len(mem) /\ S \in SUBSET (1 .. n) /\ root_user \in S
  BY DEF CoreNodes
<1>3. \A p \in S : ~ Behind(n, p)
  BY <1>1, <1>2 DEF Behind, Null, Wild
<1>4. \A x \in S : mem'[x].next \in S <=> mem[x].next \in S
  BY <1>3
<1>5. \A x \in S : mem[x].next \in S => mem'[x].next = mem[x].next
  BY <1>3
<1>6. Connected(S)'
  <2> SUFFICES ASSUME NEW T \in SUBSET S, root_user \in T,
                      \A y \in T : mem'[y].next \in S => mem'[y].next \in T
               PROVE  S \subseteq T
    BY DEF Connected, root_user
  <2>1. \A y \in T : mem[y].next \in S => mem[y].next \in T
    BY <1>4, <1>5
  <2> QED BY <2>1 DEF CoreNodes, Connected
<1>7. \A x \in S : mem'[x].next \in S \/ Behind(n, mem'[x].next)
  BY DEF CoreNodes
<1> QED BY <1>1, <1>2, <1>6, <1>7 DEF CoreNodes, Behind, root_user

\* So they leave the accounts in it.
LEMMA AccountsFrame ==
  ASSUME TypeInv, NEW n, NEW S, CoreNodes(S, n), CoreAccounts(S), UNCHANGED settled,
         mem' \in Seq(Node), Len(mem) <= Len(mem'), SameNodes(S, n)
  PROVE  CoreAccounts(S)'
<1>1. DOMAIN mem = 1 .. Len(mem) /\ Len(mem) \in Nat /\ DOMAIN mem' = 1 .. Len(mem') /\ Len(mem') \in Nat
  BY DEF TypeInv, TypeOK
<1> SUFFICES ASSUME NEW a \in settled PROVE \E x \in (Stored \cap S)' : AccountAt(x)' = a
  BY DEF CoreAccounts
<1>2. PICK x \in Stored \cap S : AccountAt(x) = a
  BY DEF CoreAccounts
<1>3. x \in DOMAIN mem' \ {root_user}
  BY <1>1, <1>2 DEF Stored
<1>4. x \in Stored' /\ AccountAt(x)' = a
  BY <1>2, <1>3 DEF Stored, AccountAt, root_user, SameNodes
<1> QED BY <1>2, <1>4

\* What a thread does to the list: it links behind its node, or stores into it.
LEMMA MemEffects ==
  ASSUME TypeInv, NEW t \in Threads,
         RegisterStep(t) \/ LoginStep(t) \/ stray(t) \/ \E o \in Call : request(t, o)
  PROVE  \/ UNCHANGED mem /\ ~link(t)
         \/ /\ link(t) /\ Len(mem) <= Len(mem') /\ conductor[t] \in DOMAIN mem
            /\ mem'[conductor[t]].name = mem[conductor[t]].name
            /\ mem'[conductor[t]].pw = mem[conductor[t]].pw
            /\ mem'[conductor[t]].next \in {Null, Len(mem) + 1}
            /\ \A x \in DOMAIN mem \ {conductor[t]} : mem'[x] = mem[x]
         \/ /\ pc[t] \in Filling \cup {"online", "connect"} /\ Len(mem) = Len(mem')
            /\ conductor[t] \in DOMAIN mem
            /\ pc[t] \notin Filling =>
                 /\ mem'[conductor[t]].name = mem[conductor[t]].name
                 /\ mem'[conductor[t]].pw = mem[conductor[t]].pw
                 /\ mem'[conductor[t]].next = mem[conductor[t]].next
            /\ \A x \in DOMAIN mem \ {conductor[t]} : mem'[x] = mem[x]
<1> DEFINE c == conductor[t]
<1>0. mem \in Seq(Node)
  BY DEF TypeInv, TypeOK
<1>1. CASE link(t)
  <2>1. c \in DOMAIN mem /\ mem[c] \in Node /\ Len(mem) \in Nat /\ DOMAIN mem = 1 .. Len(mem)
    BY <1>0, <1>1 DEF link, At
  <2>2. \A p \in {Null, Wild} \cup Nat :
          LET m == [mem EXCEPT ![c].next = p] IN
          /\ m \in Seq(Node) /\ Len(m) = Len(mem)
          /\ m[c].name = mem[c].name /\ m[c].pw = mem[c].pw /\ m[c].next = p
          /\ \A x \in DOMAIN mem \ {c} : m[x] = mem[x]
    <3> SUFFICES ASSUME NEW p \in {Null, Wild} \cup Nat
                 PROVE  LET m == [mem EXCEPT ![c].next = p] IN
                        /\ m \in Seq(Node) /\ Len(m) = Len(mem)
                        /\ m[c].name = mem[c].name /\ m[c].pw = mem[c].pw /\ m[c].next = p
                        /\ \A x \in DOMAIN mem \ {c} : m[x] = mem[x]
      OBVIOUS
    <3>1. /\ [mem[c] EXCEPT !.next = p] \in Node
          /\ [mem[c] EXCEPT !.next = p].name = mem[c].name
          /\ [mem[c] EXCEPT !.next = p].pw = mem[c].pw
          /\ [mem[c] EXCEPT !.next = p].next = p
      BY <2>1 DEF Node
    <3> QED BY <1>0, <2>1, <3>1
  <2>3. CASE mem' = [mem EXCEPT ![c].next = Null]
    BY <1>1, <2>1, <2>2, <2>3
  <2>4. CASE \E x \in FreshNext : mem' = Append([mem EXCEPT ![c].next = Len(mem) + 1], Fresh(x))
    <3>1. PICK x \in FreshNext : mem' = Append([mem EXCEPT ![c].next = Len(mem) + 1], Fresh(x))
      BY <2>4
    <3> DEFINE m == [mem EXCEPT ![c].next = Len(mem) + 1]
    <3>2. /\ m \in Seq(Node) /\ Len(m) = Len(mem)
          /\ m[c].name = mem[c].name /\ m[c].pw = mem[c].pw /\ m[c].next = Len(mem) + 1
          /\ \A y \in DOMAIN mem \ {c} : m[y] = mem[y]
      BY <2>1, <2>2
    <3>3. mem' = Append(m, Fresh(x)) /\ Fresh(x) \in Node
      BY <3>1, FreshType, FreshNextAssumption
    <3> HIDE DEF m
    <3>4. Len(mem') = Len(mem) + 1 /\ \A y \in 1 .. Len(mem) : mem'[y] = m[y]
      BY <2>1, <3>2, <3>3
    <3>5. Len(mem) <= Len(mem')
      BY <2>1, <3>4
    <3> QED BY <1>1, <2>1, <3>2, <3>4, <3>5
  <2> QED BY <1>1, <2>3, <2>4 DEF link
<1>2. CASE clear(t) \/ store_name(t) \/ store_pw(t) \/ store_connfd(t) \/ store_login(t)
  <2>1. pc[t] \in Filling /\ c \in DOMAIN mem
    BY <1>2 DEF clear, store_name, store_pw, store_connfd, store_login, At, Filling
  <2>2. PICK v : mem' = [mem EXCEPT ![c] = v]
    BY <1>2 DEF clear, store_name, store_pw, store_connfd, store_login, Store
  <2>3. mem' \in Seq(Node)
    BY <1>2, MemStep DEF RegisterStep
  <2>4. Len(mem') = Len(mem)
    BY <1>0, <2>2, <2>3
  <2> QED BY <1>0, <2>1, <2>2, <2>4
<1>3. CASE online(t) \/ connect(t)
  <2>1. pc[t] \in {"online", "connect"} /\ c \in DOMAIN mem /\ mem[c] \in Node
    BY <1>0, <1>3 DEF online, connect, At
  <2>2. mem' \in Seq(Node)
    BY <1>3, MemStep DEF LoginStep
  <2>3. mem' = [mem EXCEPT ![c] = [mem[c] EXCEPT !.login = 1]]
        \/ mem' = [mem EXCEPT ![c] = [mem[c] EXCEPT !.connfd = t]]
    BY <1>3 DEF online, connect, Store, here
  <2>4. Len(mem') = Len(mem) /\ \A x \in DOMAIN mem \ {c} : mem'[x] = mem[x]
    BY <1>0, <2>2, <2>3
  <2>5. /\ mem'[c].name = mem[c].name /\ mem'[c].pw = mem[c].pw /\ mem'[c].next = mem[c].next
    BY <1>0, <2>1, <2>3 DEF Node
  <2> QED BY <2>1, <2>4, <2>5
<1>4. CASE UNCHANGED mem /\ ~link(t)
  BY <1>4
<1> QED BY <1>1, <1>2, <1>3, <1>4
        DEF RegisterStep, LoginStep, compare, step, tail, advance, reload, first, match, skip,
            password, stray, request

\* No registration that runs gets into S, but to its last node (register_user).
LEMMA FirmStep ==
  ASSUME TypeInv, TypeInv', LinksGoForward, NEW n, NEW S, Firm(S, n), NEW t \in Threads,
         RegisterStep(t) \/ LoginStep(t) \/ stray(t) \/ \E o \in Call : request(t, o)
  PROVE  Firm(S, n)' /\ SameNodes(S, n) /\ Len(mem) <= Len(mem')
<1> DEFINE c == conductor[t]
<1>1. /\ DOMAIN mem = 1 .. Len(mem) /\ Len(mem) \in Nat /\ mem' \in Seq(Node)
      /\ n \in 0 .. Len(mem) /\ S \in SUBSET (1 .. n) /\ root_user \in S
      /\ S \subseteq DOMAIN mem
  BY DEF TypeInv, TypeOK, Firm, CoreNodes
<1>2. \A p \in S : ~ Behind(n, p)
  BY <1>1 DEF Behind, Null, Wild
<1>3. OutsideCore(S, n, t)
  BY DEF Firm
<1>4. SameNodes(S, n)
  <2> SUFFICES ASSUME NEW x \in S
               PROVE  /\ mem'[x].name = mem[x].name /\ mem'[x].pw = mem[x].pw
                      /\ \/ mem'[x].next = mem[x].next
                         \/ mem[x].next \notin S /\ Behind(n, mem'[x].next)
    BY DEF SameNodes
  <2>1. CASE UNCHANGED mem
    BY <2>1
  <2>2. CASE link(t) /\ x = c /\ mem'[c].next \in {Null, Len(mem) + 1}
             /\ mem'[c].name = mem[c].name /\ mem'[c].pw = mem[c].pw
    <3>1. mem[c].next \notin S
      BY <1>2, <1>3, <2>2 DEF OutsideCore, link, At
    <3>2. Behind(n, mem'[c].next)
      BY <1>1, <2>2 DEF Behind
    <3> QED BY <2>2, <3>1, <3>2
  <2>3. CASE pc[t] \in Filling
    <3>1. x # c
      BY <1>2, <1>3, <2>3 DEF OutsideCore
    <3>2. pc[t] # "link"
      BY <2>3 DEF Filling
    <3> QED BY <1>1, <3>1, <3>2, MemEffects DEF link, At
  <2> QED BY <1>1, <2>1, <2>2, <2>3, MemEffects
<1>5. Len(mem) <= Len(mem')
  BY <1>1, MemEffects
<1>6. CoreNodes(S, n)'
  BY <1>1, <1>4, <1>5, NodesFrame DEF Firm
<1>7. ASSUME NEW u \in Threads, u # t PROVE OutsideCore(S, n, u)'
  <2>1. OutsideCore(S, n, u)
    BY DEF Firm
  <2>2. pc'[u] = pc[u] /\ conductor'[u] = conductor[u]
    BY <1>7 DEF RegisterStep, LoginStep, compare, step, tail, advance, link, reload, clear, store_name,
        store_pw, store_connfd, store_login, first, match, skip, password, online, connect, stray,
        request, threadVars, Goto, Return, Follow, TypeInv, TypeOK
  <2>3. conductor[u] \in S /\ mem[conductor[u]].next \notin S => mem'[conductor[u]].next \notin S
    BY <1>2, <1>4 DEF SameNodes
  <2> QED BY <2>1, <2>2, <2>3 DEF OutsideCore, Behind
<1>8. OutsideCore(S, n, t)'
  <2>0. /\ pc \in [Threads -> {"idle"} \cup Searching \cup Appending \cup Filling \cup LoggingIn]
        /\ conductor \in [Threads -> {Null, Wild} \cup Nat]
    BY DEF TypeInv, TypeOK
  <2>1. ASSUME pc'[t] \in {"idle"} \cup Searching \cup LoggingIn PROVE OutsideCore(S, n, t)'
    BY <2>1 DEF OutsideCore, Searching, LoggingIn, Filling
  <2>2. ASSUME pc'[t] \in {"tail", "advance"}, conductor'[t] \in S \/ Behind(n, conductor'[t])
        PROVE  OutsideCore(S, n, t)'
    BY <2>2 DEF OutsideCore, Filling, Behind
  <2>3. ASSUME pc'[t] \in {"link", "reload"} \cup Filling, Behind(n, conductor'[t])
        PROVE  OutsideCore(S, n, t)'
    BY <2>3 DEF OutsideCore, Filling, Behind
  <2>4. ASSUME pc'[t] \in {"link", "reload"}, conductor'[t] \in S, mem'[conductor'[t]].next \notin S
        PROVE  OutsideCore(S, n, t)'
    BY <2>4 DEF OutsideCore, Filling
  <2>5. Null \notin S /\ Len(mem) + 1 \notin S /\ Behind(n, Null) /\ Behind(n, Len(mem) + 1)
    BY <1>1 DEF Null, Behind
  <2>6. CASE compare(t)
    <3>1. pc'[t] \in {"idle", "step"}
      BY <2>0, <2>6 DEF compare, Goto, Return
    <3> QED BY <2>1, <3>1 DEF Searching
  <2>7. CASE step(t)
    <3>1. pc'[t] = "compare" \/ (pc'[t] = "tail" /\ conductor'[t] = root_user)
      <4>1. CASE Goto(t, "tail") /\ Follow(t, root_user)
        BY <2>0, <4>1 DEF Goto, Follow
      <4>2. CASE Goto(t, "compare")
        BY <2>0, <4>2 DEF Goto
      <4> QED BY <2>7, <4>1, <4>2 DEF step
    <3> QED BY <1>1, <2>1, <2>2, <3>1 DEF Searching
  <2>8. CASE tail(t)
    <3>1. c \in S \/ Behind(n, c)
      BY <1>3, <2>8 DEF OutsideCore, tail, At
    <3>2. conductor'[t] = c /\ mem' = mem
      BY <2>8 DEF tail
    <3>3. pc'[t] = "advance" \/ (pc'[t] = "link" /\ mem[c].next = Null)
      <4>1. CASE Goto(t, "advance")
        BY <2>0, <4>1 DEF Goto
      <4>2. CASE Last(t) /\ Goto(t, "link")
        BY <2>0, <4>2 DEF Goto, Last, here
      <4> QED BY <2>8, <4>1, <4>2 DEF tail
    <3> QED BY <2>2, <2>3, <2>4, <2>5, <3>1, <3>2, <3>3
  <2>9. CASE advance(t)
    <3>1. c \in DOMAIN mem /\ pc'[t] = "tail" /\ conductor'[t] = mem[c].next
      BY <2>0, <2>9 DEF advance, Goto, Follow, here, At
    <3>2. c \in S \/ Behind(n, c)
      BY <1>3, <2>9 DEF OutsideCore, advance, At
    <3>3. CASE c \in S
      BY <2>2, <3>1, <3>3 DEF Firm, CoreNodes
    <3>4. CASE Behind(n, c)
      <4>1. c \in 1 .. Len(mem) /\ c > n /\ mem[c].next \in {Null, Wild} \cup ((c + 1) .. Len(mem))
        BY <1>1, <3>1, <3>4 DEF Behind, Null, Wild, LinksGoForward
      <4>2. Behind(n, mem[c].next)
        BY <1>1, <4>1 DEF Behind
      <4> QED BY <2>2, <3>1, <4>2
    <3> QED BY <3>2, <3>3, <3>4
  <2>10. CASE link(t)
    <3>1. pc'[t] = "reload" /\ conductor'[t] = c
      BY <2>0, <2>10 DEF link, Goto
    <3>2. mem'[c].next \in {Null, Len(mem) + 1}
      <4>1. pc[t] = "link"
        BY <2>10 DEF link, At
      <4> QED BY <2>10, <4>1, MemEffects DEF Filling
    <3>3. (c \in S /\ mem[c].next \notin S) \/ Behind(n, c)
      BY <1>3, <2>10 DEF OutsideCore, link, At
    <3> QED BY <2>3, <2>4, <2>5, <3>1, <3>2, <3>3
  <2>11. CASE reload(t)
    <3>1. c \in DOMAIN mem /\ ((c \in S /\ mem[c].next \notin S) \/ Behind(n, c))
      BY <1>3, <2>11 DEF OutsideCore, reload, At
    <3>2. pc'[t] = "idle" \/ (pc'[t] = "clear" /\ conductor'[t] = mem[c].next)
      <4>1. CASE Return(t, OUT_OF_MEMORY)
        BY <2>0, <4>1 DEF Return
      <4>2. CASE Goto(t, "clear") /\ Follow(t, Appended(t))
        BY <2>0, <4>2 DEF Goto, Follow, here, Appended
      <4> QED BY <2>11, <4>1, <4>2 DEF reload
    <3>3. Behind(n, mem[c].next)
      <4>1. CASE c \in S /\ mem[c].next \notin S
        BY <4>1 DEF Firm, CoreNodes
      <4>2. CASE Behind(n, c)
        <5>1. c \in 1 .. Len(mem) /\ c > n /\ mem[c].next \in {Null, Wild} \cup ((c + 1) .. Len(mem))
          BY <1>1, <3>1, <4>2 DEF Behind, Null, Wild, LinksGoForward
        <5> QED BY <1>1, <5>1 DEF Behind
      <4> QED BY <3>1, <4>1, <4>2
    <3> QED BY <2>1, <2>3, <3>2, <3>3 DEF Filling
  <2>12. CASE clear(t) \/ store_name(t) \/ store_pw(t) \/ store_connfd(t)
    <3>1. Behind(n, c)
      BY <1>3, <2>12
         DEF OutsideCore, clear, store_name, store_pw, store_connfd, At, Filling
    <3>2. pc'[t] \in Filling /\ conductor'[t] = c
      BY <2>0, <2>12 DEF clear, store_name, store_pw, store_connfd, Goto, Filling
    <3> QED BY <2>3, <3>1, <3>2
  <2>13. CASE store_login(t)
    <3>1. pc'[t] = "idle"
      BY <2>0, <2>13 DEF store_login, Return
    <3> QED BY <2>1, <3>1
  <2>14. CASE LoginStep(t) \/ \E o \in Call : request(t, o)
    <3>1. pc'[t] \in {"idle", "compare"} \cup LoggingIn
      BY <2>0, <2>14 DEF LoginStep, first, match, skip, password, online, connect, request, Goto,
         Return, LoggingIn
    <3> QED BY <2>1, <3>1 DEF Searching
  <2>15. CASE stray(t)
    BY <1>3, <2>15 DEF stray, threadVars, OutsideCore, Behind
  <2> QED BY <2>6, <2>7, <2>8, <2>9, <2>10, <2>11, <2>12, <2>13, <2>14, <2>15 DEF RegisterStep
<1> QED BY <1>4, <1>5, <1>6, <1>7, <1>8 DEF Firm

\* Nor does it touch the accounts in it.
LEMMA CoreStep ==
  ASSUME TypeInv, TypeInv', LinksGoForward, NEW n, NEW S, Core(S, n), UNCHANGED settled,
         NEW t \in Threads,
         RegisterStep(t) \/ LoginStep(t) \/ stray(t) \/ \E o \in Call : request(t, o)
  PROVE  Core(S, n)'
<1>1. Firm(S, n) /\ CoreNodes(S, n) /\ CoreAccounts(S)
  BY DEF Core, Firm
<1>2. Firm(S, n)' /\ SameNodes(S, n) /\ Len(mem) <= Len(mem')
  BY <1>1, FirmStep
<1>3. mem' \in Seq(Node)
  BY DEF TypeInv, TypeOK
<1>4. CoreAccounts(S)'
  BY <1>1, <1>2, <1>3, AccountsFrame
<1> QED BY <1>2, <1>4 DEF Core

\* Every step keeps the set, or begins a new one when no registration runs any more.
LEMMA SettledStep ==
  TypeInv /\ TypeInv' /\ LinksGoForward /\ LinksGoForward' /\ SettledInv /\ [Next]_vars => SettledInv'
<1>0. (mem \in Seq(Node) /\ LinksGoForward /\ root_user \in DOMAIN mem =>
        CoreNodes(List, Len(mem)) /\ (settled = ListAccounts => CoreAccounts(List)))'
  BY ListIsCore, PTL
<1> SUFFICES ASSUME TypeInv, TypeInv', LinksGoForward, LinksGoForward', SettledInv, [Next]_vars
             PROVE  SettledInv'
  OBVIOUS
<1>1. PICK n \in Nat : \E S \in SUBSET (1 .. n) : Core(S, n)
  BY DEF SettledInv
<1>1a. PICK S \in SUBSET (1 .. n) : Core(S, n)
  BY <1>1
<1>2. ASSUME Core(S, n)' PROVE SettledInv'
  BY <1>2 DEF SettledInv
<1>3. CASE UNCHANGED vars
  <2>1. Core(S, n)'
    BY <1>1a, <1>3 DEF vars, threadVars, Core, Firm, CoreNodes, Connected, CoreAccounts, OutsideCore, Stored,
       AccountAt
  <2> QED BY <1>2, <2>1
<1>4. CASE Next
  <2>1. PICK t \in Threads : Run(t) \/ ((\E o \in Call : request(t, o)) /\ Settle)
    BY <1>4 DEF Next
  <2>2. CASE UNCHANGED settled
    <3>1. Core(S, n)'
      BY <1>1a, <2>1, <2>2, CoreStep DEF Run
    <3> QED BY <1>2, <3>1
  <2>3. CASE settled' = ListAccounts' /\ ~ \E u \in Threads : Registering(u)'
    <3>1. mem' \in Seq(Node) /\ root_user \in DOMAIN mem' /\ Len(mem') \in Nat
      BY DEF TypeInv, TypeOK
    <3> DEFINE m == Len(mem')
               T == List'
    <3>2. CoreNodes(List, Len(mem))' /\ CoreAccounts(List)'
      BY <1>0, <2>3, <3>1 DEF root_user
    <3>3. \A u \in Threads : OutsideCore(List, Len(mem), u)'
      BY <2>3 DEF OutsideCore, Registering, Appending
    <3>4. Core(List, Len(mem))'
      BY <3>2, <3>3 DEF Core, Firm
    <3>5. PICK k \in Nat : k = m
      BY <3>1
    <3>5a. PICK U \in SUBSET (1 .. k) : U = T
      BY <3>1, <3>2, <3>5 DEF CoreNodes
    <3>6. Core(U, k)'
      BY <3>4, <3>5, <3>5a DEF Core, Firm, CoreNodes, Connected, CoreAccounts, OutsideCore, Behind
    <3> QED BY <3>6 DEF SettledInv
  <2> QED BY <2>1, <2>2, <2>3 DEF Run, Settle
<1> QED BY <1>3, <1>4

\* At the start there is the root alone (main).
LEMMA SettledInit == Init => SettledInv
<1> SUFFICES ASSUME Init PROVE Core({1}, 1)
  BY DEF SettledInv
<1>1. mem = <<Fresh(Null)>> /\ mem[1].next = Null /\ Len(mem) = 1
  BY DEF Init, Fresh
<1>2. CoreNodes({1}, 1)
  BY <1>1 DEF CoreNodes, Connected, Behind, root_user, Null
<1>3. CoreAccounts({1})
  BY DEF Init, CoreAccounts
<1>4. \A t \in Threads : OutsideCore({1}, 1, t)
  BY DEF Init, OutsideCore, Filling
<1> QED BY <1>2, <1>3, <1>4 DEF Core, Firm

\* An account that is in the list at a moment when no registration runs stays in it,
\* however the registrations and logins after it interleave (register_user writes
\* behind the last node it has seen, and into the node it has linked there).
THEOREM SettledAccountsStay == Spec => []SettledStay
<1>1. ASSUME TypeInv, SettledInv PROVE SettledStay
  <2>0. PICK n \in Nat : \E S \in SUBSET (1 .. n) : Core(S, n)
    BY <1>1 DEF SettledInv
  <2>1. PICK S \in SUBSET (1 .. n) : Core(S, n)
    BY <2>0
  <2>2. S \subseteq List
    BY <1>1, <2>1, CoreInList DEF Core, Firm
  <2> QED BY <2>1, <2>2 DEF Core, CoreAccounts, SettledStay, ListAccounts
<1>2. TypeInv /\ SettledInv => SettledStay
  BY <1>1
<1>3. Init => LinksGoForward
  BY DEF Init, LinksGoForward, Fresh, Null
<1>4. TypeInv /\ LinksGoForward /\ [Next]_vars => LinksGoForward'
  BY LinksStep
<1> QED BY <1>2, <1>3, <1>4, TypeInit, TypeStep, SettledInit, SettledStep, PTL DEF Spec

-------------------------------------------------------------------------------
(* One registration at a time                                              *)

\* Every node points to the next one that malloc returned, the last one to none.
Straight ==
  /\ \A x \in DOMAIN mem \ {Len(mem)} : mem[x].next = x + 1
  /\ mem[Len(mem)].next \in {Null, Wild}

\* The registration t has linked the last node and has not set its pointer yet.
Fetching(t) ==
  pc[t] = "clear" \/ (pc[t] = "reload" /\ conductor[t] # Len(mem))

Ended == mem[Len(mem)].next = Wild => \E t \in Threads : Fetching(t)

Blank(x) == mem[x].name = None /\ mem[x].pw = None

\* The registration t is between linking the last node and storing its password.
Building(t) ==
  \/ pc[t] \in {"clear", "name", "pw"}
  \/ pc[t] = "reload" /\ conductor[t] # Len(mem)

Complete ==
  \A x \in 2 .. Len(mem) : x \in Stored \/ (x = Len(mem) /\ \E t \in Threads : Building(t))

NamesDiffer ==
  \A x, y \in 2 .. Len(mem) : mem[x].name = mem[y].name /\ mem[x].name # None => x = y

\* The first n nodes do not have the name that t registers.
NotIn(t, n) == \A x \in 2 .. n : mem[x].name # op[t].name

RegisterPlace(t) ==
  /\ Registering(t) => op[t].kind = "register"
  /\ pc[t] = "compare" => NotIn(t, conductor[t] - 1)
  /\ pc[t] = "step" => NotIn(t, conductor[t])
  /\ pc[t] \in Appending \cup {"clear", "name"} => NotIn(t, Len(mem))
  /\ pc[t] = "advance" => conductor[t] # Len(mem)
  /\ pc[t] = "link" => conductor[t] = Len(mem)
  /\ pc[t] = "reload" =>
       conductor[t] = Len(mem) \/ (conductor[t] = Len(mem) - 1 /\ Blank(Len(mem)))
  /\ pc[t] \in Filling => conductor[t] = Len(mem) /\ Len(mem) # root_user
  /\ pc[t] \in {"clear", "name"} => Blank(Len(mem))
  /\ pc[t] = "pw" => mem[Len(mem)].name = op[t].name /\ mem[Len(mem)].pw = None

\* The name t logs in with was nobody's when its call began, if the first n nodes have
\* it now.
Passed(t, n) ==
  \A x \in 2 .. n : mem[x].name = op[t].name => \A a \in known[t] : a.name # op[t].name

LoginPlace(t) ==
  /\ pc[t] \in LoggingIn => op[t].kind = "login"
  /\ pc[t] = "first" => conductor[t] = root_user /\ i[t] = 0
  /\ pc[t] \in LoggingIn \ {"first"} => conductor[t] = i[t] + 2
  /\ pc[t] = "match" => Passed(t, conductor[t] - 1)
  /\ pc[t] = "skip" => Passed(t, conductor[t])
  /\ pc[t] \in {"password", "online", "connect"} => here(t).name = op[t].name
  /\ pc[t] \in {"online", "connect"} => here(t).pw = op[t].pw

Found(t) ==
  /\ pc[t] # "idle" => conductor[t] \in DOMAIN mem /\ known[t] \subseteq Accounts
  /\ RegisterPlace(t) /\ LoginPlace(t)

\* A login that has read the pointer of a node before it was set.
Lost(t) ==
  pc[t] = "match" /\ conductor[t] = Wild /\ op[t].kind = "login" /\ known[t] \subseteq Accounts

Place(t) == Found(t) \/ Lost(t)

OneInv ==
  /\ OneRegistration
  /\ Straight /\ Ended /\ Blank(root_user) /\ Complete /\ NamesDiffer
  /\ \A t \in Threads : Place(t)

\* A thread at a node is not lost.
LEMMA FoundAt ==
  ASSUME TypeInv, OneInv, NEW t \in Threads, conductor[t] \in DOMAIN mem \/ pc[t] # "match"
  PROVE  Found(t)
BY DEF OneInv, Place, Lost, TypeInv, TypeOK, Wild

\* Whom register_user follows: only a registration that is at "clear" or has yet to get
\* there leaves a last node without a pointer, and there is no other.
LEMMA RegisterNext ==
  ASSUME TypeInv, OneInv, NEW t \in Threads, Registering(t), pc[t] # "clear",
         conductor[t] \in DOMAIN mem
  PROVE  mem[conductor[t]].next = IF conductor[t] = Len(mem) THEN Null ELSE conductor[t] + 1
<1>1. CASE conductor[t] # Len(mem)
  BY <1>1 DEF OneInv, Straight
<1>2. CASE conductor[t] = Len(mem)
  <2>1. ~ Fetching(t)
    BY <1>2 DEF Fetching
  <2>2. \A u \in Threads : Fetching(u) => Registering(u)
    BY DEF Fetching, Registering, Appending, Filling
  <2>3. ~ \E u \in Threads : Fetching(u)
    BY <2>1, <2>2 DEF OneInv, OneRegistration
  <2> QED BY <1>2, <2>3 DEF OneInv, Straight, Ended
<1> QED BY <1>1, <1>2

\* Whom login_user follows.
LEMMA LoginNext ==
  ASSUME TypeInv, OneInv, NEW x \in DOMAIN mem
  PROVE  \/ x # Len(mem) /\ mem[x].next = x + 1
         \/ x = Len(mem) /\ mem[x].next = Null
         \/ x = Len(mem) /\ mem[x].next = Wild /\ \E u \in Threads : Fetching(u)
BY DEF OneInv, Straight, Ended

\* One thread moves in a step, with its own variables.
LEMMA OthersStay ==
  ASSUME TypeInv, NEW t \in Threads, NEW u \in Threads, u # t,
         RegisterStep(t) \/ LoginStep(t) \/ stray(t) \/ \E o \in Call : request(t, o)
  PROVE  /\ pc'[u] = pc[u] /\ op'[u] = op[u] /\ conductor'[u] = conductor[u] /\ i'[u] = i[u]
         /\ known'[u] = known[u]
<1>1. pc'[u] = pc[u] /\ conductor'[u] = conductor[u]
  BY DEF RegisterStep, LoginStep, compare, step, tail, advance, link, reload, clear, store_name,
     store_pw, store_connfd, store_login, first, match, skip, password, online, connect, stray,
     request, threadVars, Goto, Return, Follow, TypeInv, TypeOK
<1>2. op'[u] = op[u] /\ known'[u] = known[u]
  BY DEF RegisterStep, LoginStep, compare, step, tail, advance, link, reload, clear, store_name,
     store_pw, store_connfd, store_login, first, match, skip, password, online, connect, stray,
     request, threadVars, Goto, Return, Follow, TypeInv, TypeOK
<1>3. i'[u] = i[u]
  BY DEF RegisterStep, LoginStep, compare, step, tail, advance, link, reload, clear, store_name,
     store_pw, store_connfd, store_login, first, match, skip, password, online, connect, stray,
     request, threadVars, TypeInv, TypeOK
<1> QED BY <1>1, <1>2, <1>3

\* The name, the password and the pointer of every node stay, but the last pointer may
\* be cleared.
Kept ==
  /\ Len(mem') = Len(mem)
  /\ \A x \in DOMAIN mem : mem'[x].name = mem[x].name /\ mem'[x].pw = mem[x].pw
  /\ \A x \in DOMAIN mem \ {Len(mem)} : mem'[x].next = mem[x].next
  /\ mem'[Len(mem)].next \in {mem[Len(mem)].next, Null}

\* Only the steps that link, and those that store a name or a password, change more than
\* that.
LEMMA StoreEffects ==
  ASSUME TypeInv, TypeInv', OneInv, NEW t \in Threads,
         RegisterStep(t) \/ LoginStep(t) \/ stray(t) \/ \E o \in Call : request(t, o)
  PROVE  \/ Kept /\ (clear(t) => mem'[Len(mem)].next = Null)
         \/ /\ link(t) /\ Len(mem') = Len(mem) + 1
            /\ \A x \in DOMAIN mem : mem'[x].name = mem[x].name /\ mem'[x].pw = mem[x].pw
            /\ Straight' /\ Blank(Len(mem))'
         \/ /\ store_name(t) \/ store_pw(t)
            /\ Len(mem') = Len(mem) /\ Straight' /\ mem'[Len(mem)].next = Null
            /\ \A x \in DOMAIN mem \ {Len(mem)} : mem'[x] = mem[x]
            /\ store_name(t) =>
                 mem'[Len(mem)].name = op[t].name /\ mem'[Len(mem)].pw = mem[Len(mem)].pw
            /\ store_pw(t) =>
                 mem'[Len(mem)].pw = op[t].pw /\ mem'[Len(mem)].name = mem[Len(mem)].name
<1> DEFINE c == conductor[t]
<1>0. /\ mem \in Seq(Node) /\ mem' \in Seq(Node)
      /\ DOMAIN mem = 1 .. Len(mem) /\ Len(mem) \in Nat
      /\ DOMAIN mem' = 1 .. Len(mem') /\ Len(mem') \in Nat
      /\ \A x \in DOMAIN mem : mem[x] \in Node
  BY DEF TypeInv, TypeOK
<1>1. CASE link(t)
  <2>1. c = Len(mem) /\ c \in DOMAIN mem /\ pc[t] = "link" /\ mem[c].next = Null
    <3>1. pc[t] = "link" /\ c \in DOMAIN mem /\ Registering(t)
      BY <1>1 DEF link, At, Registering, Appending
    <3>2. c = Len(mem)
      BY <3>1, FoundAt DEF Found, RegisterPlace
    <3> QED BY <3>1, <3>2, RegisterNext
  <2>2. CASE mem' = [mem EXCEPT ![c].next = Null]
    <3>1. [mem[c] EXCEPT !.next = Null] = mem[c]
      BY <1>0, <2>1 DEF Node
    <3>2. Kept
      BY <1>0, <2>1, <2>2, <3>1 DEF Kept
    <3> QED BY <2>1, <3>2 DEF clear, At
  <2>3. ASSUME NEW y \in {Null, Wild},
               mem' = Append([mem EXCEPT ![c].next = Len(mem) + 1], Fresh(y))
        PROVE  /\ Len(mem') = Len(mem) + 1
               /\ \A x \in DOMAIN mem : mem'[x].name = mem[x].name /\ mem'[x].pw = mem[x].pw
               /\ Straight' /\ Blank(Len(mem))'
    <3> DEFINE m == [mem EXCEPT ![c].next = Len(mem) + 1]
    <3>1. /\ [mem[c] EXCEPT !.next = Len(mem) + 1] \in Node
          /\ [mem[c] EXCEPT !.next = Len(mem) + 1].name = mem[c].name
          /\ [mem[c] EXCEPT !.next = Len(mem) + 1].pw = mem[c].pw
          /\ [mem[c] EXCEPT !.next = Len(mem) + 1].next = Len(mem) + 1
      BY <1>0, <2>1 DEF Node
    <3>2. /\ m \in Seq(Node) /\ Len(m) = Len(mem)
          /\ \A x \in DOMAIN mem : m[x].name = mem[x].name /\ m[x].pw = mem[x].pw
          /\ m[c].next = Len(mem) + 1 /\ \A x \in DOMAIN mem \ {c} : m[x].next = mem[x].next
      BY <1>0, <2>1, <3>1
    <3>3. mem' = Append(m, Fresh(y)) /\ Fresh(y) \in Node
      BY <2>3, FreshType
    <3> HIDE DEF m
    <3>4. /\ Len(mem') = Len(mem) + 1 /\ mem'[Len(mem) + 1] = Fresh(y)
          /\ \A x \in 1 .. Len(mem) : mem'[x] = m[x]
      BY <1>0, <3>2, <3>3
    <3>5. Blank(Len(mem))'
      BY <1>0, <3>4 DEF Blank, Fresh
    <3>6. Straight'
      <4>1. mem'[Len(mem')].next \in {Null, Wild}
        BY <3>4 DEF Fresh
      <4>2. ASSUME NEW x \in DOMAIN mem' \ {Len(mem')} PROVE mem'[x].next = x + 1
        <5>1. x \in 1 .. Len(mem) /\ mem'[x] = m[x]
          BY <1>0, <3>4
        <5>2. CASE x = c
          BY <2>1, <3>2, <5>1, <5>2
        <5>3. CASE x # c
          <6>1. x \in DOMAIN mem \ {Len(mem)}
            BY <1>0, <2>1, <5>1, <5>3
          <6>2. mem[x].next = x + 1
            BY <6>1 DEF OneInv, Straight
          <6> QED BY <2>1, <3>2, <5>1, <6>1, <6>2
        <5> QED BY <5>2, <5>3
      <4> QED BY <4>1, <4>2 DEF Straight
    <3> QED BY <3>2, <3>4, <3>5, <3>6
  <2>4. ASSUME NEW y \in FreshNext,
               mem' = Append([mem EXCEPT ![c].next = Len(mem) + 1], Fresh(y))
        PROVE  /\ Len(mem') = Len(mem) + 1
               /\ \A x \in DOMAIN mem : mem'[x].name = mem[x].name /\ mem'[x].pw = mem[x].pw
               /\ Straight' /\ Blank(Len(mem))'
    BY <2>3, <2>4, FreshNextAssumption
  <2> QED BY <1>1, <2>2, <2>4 DEF link
<1>2. ASSUME NEW l \in Filling \cup LoggingIn, At(t, l), NEW p \in Node, Store(t, p)
      PROVE  /\ c \in DOMAIN mem /\ mem' = [mem EXCEPT ![c] = p] /\ Len(mem') = Len(mem)
             /\ l \in Filling => c = Len(mem)
             /\ mem'[c] = p /\ \A x \in DOMAIN mem \ {c} : mem'[x] = mem[x]
  <2>1. c \in DOMAIN mem /\ mem' = [mem EXCEPT ![c] = p] /\ (l \in Filling => c = Len(mem))
    BY <1>2, FoundAt DEF At, Store, Found, RegisterPlace
  <2> QED BY <1>0, <2>1
<1>3. CASE clear(t)
  <2>1. At(t, "clear") /\ "clear" \in Filling /\ Store(t, Cleared(t)) /\ here(t) \in Node
    BY <1>0, <1>3 DEF clear, Filling, At, here
  <2>2. Cleared(t) \in Node
    BY <2>1 DEF Cleared, Node
  <2>3. c = Len(mem) /\ c \in DOMAIN mem /\ mem'[c] = Cleared(t)
        /\ Len(mem') = Len(mem) /\ \A x \in DOMAIN mem \ {c} : mem'[x] = mem[x]
    BY <1>2, <2>1, <2>2
  <2>4. Cleared(t).name = mem[c].name /\ Cleared(t).pw = mem[c].pw /\ Cleared(t).next = Null
    BY <2>1, <2>3 DEF Cleared, here, Node
  <2>5. Kept
    BY <2>3, <2>4 DEF Kept
  <2> QED BY <2>3, <2>4, <2>5
<1>4. CASE store_connfd(t) \/ store_login(t) \/ online(t) \/ connect(t)
  <2>1. PICK l \in Filling \cup LoggingIn : At(t, l)
    BY <1>4 DEF store_connfd, store_login, online, connect, Filling, LoggingIn
  <2>2. here(t) \in Node /\ here(t) = mem[c]
    BY <1>0, <2>1 DEF At, here
  <2>3. PICK p \in {[here(t) EXCEPT !.connfd = t], [here(t) EXCEPT !.login = 1]} : Store(t, p)
    BY <1>4 DEF store_connfd, store_login, online, connect
  <2>4. p \in Node /\ p.name = mem[c].name /\ p.pw = mem[c].pw /\ p.next = mem[c].next
    BY <2>2, <2>3 DEF Node
  <2>5. Kept
    <3>1. /\ c \in DOMAIN mem /\ Len(mem') = Len(mem) /\ mem'[c] = p
          /\ \A x \in DOMAIN mem \ {c} : mem'[x] = mem[x]
      BY <1>2, <2>1, <2>3, <2>4
    <3>2. \A x \in DOMAIN mem :
            mem'[x].name = mem[x].name /\ mem'[x].pw = mem[x].pw /\ mem'[x].next = mem[x].next
      BY <2>4, <3>1
    <3>3. Len(mem) \in DOMAIN mem
      BY <1>0, <3>1
    <3> QED BY <3>1, <3>2, <3>3 DEF Kept
  <2>6. ~ clear(t)
    BY <1>4 DEF store_connfd, store_login, online, connect, clear, At
  <2> QED BY <2>5, <2>6
<1>5. CASE store_name(t) \/ store_pw(t)
  <2>0. Registering(t) /\ pc[t] # "clear" /\ conductor[t] \in DOMAIN mem
    BY <1>5 DEF store_name, store_pw, At, Registering, Filling
  <2>1. PICK l \in Filling : At(t, l) /\ l # "idle"
    BY <1>5 DEF store_name, store_pw, Filling
  <2>2. here(t) \in Node /\ here(t) = mem[c] /\ op[t] \in Call
    BY <1>0, <2>1 DEF At, here, TypeInv, InCall
  <2>3. /\ [here(t) EXCEPT !.name = op[t].name] \in Node
        /\ [here(t) EXCEPT !.name = op[t].name].name = op[t].name
        /\ [here(t) EXCEPT !.name = op[t].name].pw = mem[c].pw
        /\ [here(t) EXCEPT !.name = op[t].name].next = mem[c].next
        /\ [here(t) EXCEPT !.pw = op[t].pw] \in Node
        /\ [here(t) EXCEPT !.pw = op[t].pw].name = mem[c].name
        /\ [here(t) EXCEPT !.pw = op[t].pw].pw = op[t].pw
        /\ [here(t) EXCEPT !.pw = op[t].pw].next = mem[c].next
    BY <2>2 DEF Node, Call
  <2>4. CASE store_name(t)
    <3>1. Store(t, [here(t) EXCEPT !.name = op[t].name]) /\ ~ store_pw(t)
      BY <2>4 DEF store_name, store_pw, At
    <3>2. /\ c = Len(mem) /\ Len(mem') = Len(mem) /\ c \in DOMAIN mem
          /\ mem'[c] = [here(t) EXCEPT !.name = op[t].name]
          /\ \A x \in DOMAIN mem \ {c} : mem'[x] = mem[x]
      BY <1>2, <2>1, <2>3, <3>1
    <3>3. mem'[Len(mem)].next = Null /\ mem[c].next = Null
      BY <2>0, <2>3, <3>2, RegisterNext
    <3>4. Straight'
      BY <3>2, <3>3 DEF OneInv, Straight
    <3> QED BY <2>3, <2>4, <3>1, <3>2, <3>3, <3>4
  <2>5. CASE store_pw(t)
    <3>1. Store(t, [here(t) EXCEPT !.pw = op[t].pw]) /\ ~ store_name(t)
      BY <2>5 DEF store_name, store_pw, At
    <3>2. /\ c = Len(mem) /\ Len(mem') = Len(mem) /\ c \in DOMAIN mem
          /\ mem'[c] = [here(t) EXCEPT !.pw = op[t].pw]
          /\ \A x \in DOMAIN mem \ {c} : mem'[x] = mem[x]
      BY <1>2, <2>1, <2>3, <3>1
    <3>3. mem'[Len(mem)].next = Null /\ mem[c].next = Null
      BY <2>0, <2>3, <3>2, RegisterNext
    <3>4. Straight'
      BY <3>2, <3>3 DEF OneInv, Straight
    <3> QED BY <2>3, <2>5, <3>1, <3>2, <3>3, <3>4
  <2> QED BY <1>5, <2>4, <2>5
<1>6. ASSUME UNCHANGED mem, ~ clear(t) PROVE Kept /\ ~ clear(t)
  BY <1>6 DEF Kept
<1>7. ASSUME \/ compare(t) \/ step(t) \/ tail(t) \/ advance(t) \/ reload(t)
             \/ first(t) \/ match(t) \/ skip(t) \/ password(t) \/ stray(t)
             \/ \E o \in Call : request(t, o)
      PROVE  UNCHANGED mem
  BY <1>7 DEF compare, step, tail, advance, reload, first, match, skip, password, stray, request
<1>8. CASE UNCHANGED mem /\ clear(t)
  BY <1>3, <1>8
<1> QED BY <1>1, <1>3, <1>4, <1>5, <1>6, <1>7, <1>8 DEF RegisterStep, LoginStep

\* Steps that keep names, passwords and pointers keep the accounts and what is said of
\* the list.
LEMMA KeptList ==
  ASSUME TypeInv, TypeInv', OneInv, Kept
  PROVE  /\ Stored' = Stored /\ Accounts' = Accounts
         /\ Straight' /\ Blank(root_user)' /\ NamesDiffer'
<1>0. /\ DOMAIN mem = 1 .. Len(mem) /\ Len(mem) \in Nat /\ DOMAIN mem' = DOMAIN mem
      /\ Len(mem') = Len(mem) /\ root_user \in DOMAIN mem
      /\ \A x \in DOMAIN mem : mem'[x].name = mem[x].name /\ mem'[x].pw = mem[x].pw
      /\ \A x \in DOMAIN mem \ {Len(mem)} : mem'[x].next = mem[x].next
      /\ mem'[Len(mem)].next \in {mem[Len(mem)].next, Null}
  BY DEF TypeInv, TypeOK, Kept
<1>1. Stored' = Stored
  BY <1>0 DEF Stored, root_user
<1>2. \A x \in Stored : AccountAt(x)' = AccountAt(x)
  BY <1>0 DEF Stored, AccountAt
<1>3. Accounts' = Accounts
  BY <1>1, <1>2 DEF Accounts
<1>4. Straight' /\ Blank(root_user)'
  BY <1>0 DEF OneInv, Straight, Blank, root_user, Null
<1>5. NamesDiffer'
  BY <1>0 DEF OneInv, NamesDiffer
<1> QED BY <1>1, <1>3, <1>4, <1>5

\* ... and the places of the threads that do not move.
LEMMA KeptFound ==
  ASSUME TypeInv, TypeInv', OneInv, Kept, NEW u \in Threads, Found(u),
         pc'[u] = pc[u] /\ op'[u] = op[u] /\ conductor'[u] = conductor[u] /\ i'[u] = i[u]
         /\ known'[u] = known[u]
  PROVE  Found(u)'
<1>0. /\ DOMAIN mem = 1 .. Len(mem) /\ Len(mem) \in Nat /\ DOMAIN mem' = DOMAIN mem
      /\ Len(mem') = Len(mem) /\ root_user \in DOMAIN mem
      /\ \A x \in DOMAIN mem : mem'[x].name = mem[x].name /\ mem'[x].pw = mem[x].pw
      /\ conductor[u] \in {Null, Wild} \cup Nat
  BY DEF TypeInv, TypeOK, Kept
<1>1. Accounts' = Accounts
  BY KeptList
<1>2. pc[u] # "idle" => conductor[u] \in DOMAIN mem
  BY DEF Found
<1>3. RegisterPlace(u)'
  <2>1. \A n \in 0 .. Len(mem) : NotIn(u, n) => \A x \in 2 .. n : mem'[x].name # op'[u].name
    BY <1>0 DEF NotIn
  <2>2. pc[u] = "compare" => NotIn(u, conductor[u] - 1)'
    <3>1. SUFFICES ASSUME pc[u] = "compare" PROVE NotIn(u, conductor[u] - 1)'
      OBVIOUS
    <3>2. NotIn(u, conductor[u] - 1) /\ conductor[u] - 1 \in 0 .. Len(mem)
      BY <1>0, <1>2, <3>1 DEF Found, RegisterPlace
    <3>3. \A x \in 2 .. (conductor[u] - 1) : mem'[x].name # op'[u].name
      BY <2>1, <3>2
    <3> QED BY <3>3 DEF NotIn
  <2>3. pc[u] = "step" => NotIn(u, conductor[u])'
    BY <1>0, <1>2, <2>1 DEF Found, RegisterPlace, NotIn
  <2>4. pc[u] \in Appending \cup {"clear", "name"} => NotIn(u, Len(mem))'
    BY <1>0, <1>2, <2>1 DEF Found, RegisterPlace, NotIn
  <2>5. Len(mem) \in DOMAIN mem
    BY <1>0
  <2> QED BY <1>0, <1>2, <2>2, <2>3, <2>4, <2>5 DEF Found, RegisterPlace, Registering, Blank, root_user
<1>4. LoginPlace(u)'
  <2>1. pc[u] = "match" => Passed(u, conductor[u] - 1)'
    BY <1>0, <1>2 DEF Found, LoginPlace, Passed
  <2>2. pc[u] = "skip" => Passed(u, conductor[u])'
    BY <1>0, <1>2 DEF Found, LoginPlace, Passed
  <2> QED BY <1>0, <1>2, <2>1, <2>2 DEF Found, LoginPlace, LoggingIn, here, root_user
<1> QED BY <1>0, <1>1, <1>2, <1>3, <1>4 DEF Found

LEMMA KeptPlace ==
  ASSUME TypeInv, TypeInv', OneInv, Kept, NEW u \in Threads,
         pc'[u] = pc[u] /\ op'[u] = op[u] /\ conductor'[u] = conductor[u] /\ i'[u] = i[u]
         /\ known'[u] = known[u]
  PROVE  Place(u)' /\ (Building(u)' <=> Building(u)) /\ (Fetching(u)' <=> Fetching(u))
<1>1. Place(u)'
  <2>1. CASE Found(u)
    BY <2>1, KeptFound DEF Place
  <2>2. CASE Lost(u)
    BY <2>2, KeptList DEF Place, Lost
  <2> QED BY <2>1, <2>2 DEF OneInv, Place
<1>2. Len(mem') = Len(mem)
  BY DEF Kept
<1> QED BY <1>1, <1>2 DEF Building, Fetching

\* So does a login that does not move while a registration stores a name that no node has,
\* or a password where none is.
LEMMA LoginFound ==
  ASSUME TypeInv, TypeInv', OneInv, NEW u \in Threads, ~ Registering(u), Found(u),
         pc'[u] = pc[u] /\ op'[u] = op[u] /\ conductor'[u] = conductor[u] /\ i'[u] = i[u]
         /\ known'[u] = known[u],
         Len(mem) <= Len(mem'), Accounts \subseteq Accounts',
         \A x \in DOMAIN mem :
           /\ \/ mem'[x].name = mem[x].name
              \/ /\ mem[x].name = None
                 /\ \A y \in DOMAIN mem : mem[y].name # mem'[x].name
           /\ mem'[x].pw = mem[x].pw \/ mem[x].pw = None,
         \A x \in DOMAIN mem' \ DOMAIN mem : mem'[x].name = None
  PROVE  Found(u)'
<1>0. /\ DOMAIN mem = 1 .. Len(mem) /\ Len(mem) \in Nat
      /\ DOMAIN mem' = 1 .. Len(mem') /\ Len(mem') \in Nat
      /\ conductor[u] \in {Null, Wild} \cup Nat
      /\ pc[u] # "idle" => op[u].name # None /\ op[u].pw # None
  BY NoneAssumption DEF TypeInv, TypeOK, InCall, Call
<1>1. pc[u] # "idle" => conductor[u] \in DOMAIN mem
  BY DEF Found
<1>2. ASSUME pc[u] # "idle", NEW n \in 0 .. Len(mem), Passed(u, n) PROVE \A x \in 2 .. n :
        mem'[x].name = op'[u].name => \A a \in known'[u] : a.name # op'[u].name
  <2> SUFFICES ASSUME NEW x \in 2 .. n, mem'[x].name = op[u].name, NEW a \in known[u]
               PROVE  a.name # op[u].name
    OBVIOUS
  <2>1. x \in DOMAIN mem
    BY <1>0
  <2>2. CASE mem'[x].name = mem[x].name
    BY <1>2, <2>2 DEF Passed
  <2>3. CASE \A y \in DOMAIN mem : mem[y].name # mem'[x].name
    <3>1. a \in Accounts
      BY <1>1, <1>2 DEF Found
    <3>2. PICK y \in Stored : a = AccountAt(y)
      BY <3>1 DEF Accounts
    <3> QED BY <2>3, <3>2 DEF Stored, AccountAt
  <2> QED BY <2>1, <2>2, <2>3
<1>3. pc[u] = "match" => Passed(u, conductor[u] - 1)'
  BY <1>0, <1>1, <1>2 DEF Found, LoginPlace, Passed
<1>4. pc[u] = "skip" => Passed(u, conductor[u])'
  BY <1>0, <1>1, <1>2 DEF Found, LoginPlace, Passed
<1>5. LoginPlace(u)'
  BY <1>0, <1>1, <1>3, <1>4 DEF Found, LoginPlace, LoggingIn, here, root_user
<1>6. RegisterPlace(u)'
  BY DEF RegisterPlace, Registering, Searching, Appending, Filling
<1>7. pc[u] # "idle" => conductor[u] \in DOMAIN mem' /\ known[u] \subseteq Accounts'
  BY <1>0, <1>1 DEF Found
<1> QED BY <1>5, <1>6, <1>7 DEF Found

LEMMA LoginPlaces ==
  ASSUME TypeInv, TypeInv', OneInv, NEW u \in Threads, ~ Registering(u),
         pc'[u] = pc[u] /\ op'[u] = op[u] /\ conductor'[u] = conductor[u] /\ i'[u] = i[u]
         /\ known'[u] = known[u],
         Len(mem) <= Len(mem'), Accounts \subseteq Accounts',
         \A x \in DOMAIN mem :
           /\ \/ mem'[x].name = mem[x].name
              \/ /\ mem[x].name = None
                 /\ \A y \in DOMAIN mem : mem[y].name # mem'[x].name
           /\ mem'[x].pw = mem[x].pw \/ mem[x].pw = None,
         \A x \in DOMAIN mem' \ DOMAIN mem : mem'[x].name = None
  PROVE  Place(u)'
<1>1. CASE Found(u)
  BY <1>1, LoginFound DEF Place
<1>2. CASE Lost(u)
  BY <1>2 DEF Place, Lost
<1> QED BY <1>1, <1>2 DEF OneInv, Place

\* What Goto, Return and Follow leave in the variables of the thread that moves.
LEMMA MoverOf ==
  ASSUME TypeInv, NEW t \in Threads
  PROVE  /\ \A l : Goto(t, l) => pc'[t] = l /\ op' = op /\ known' = known
         /\ \A a : Return(t, a) => pc'[t] = "idle" /\ op' = op /\ known' = known
         /\ \A x : Follow(t, x) => conductor'[t] = x
BY DEF TypeInv, TypeOK, Goto, Return, Follow

\* A thread between two calls is nowhere.
LEMMA IdlePlace ==
  ASSUME NEW t \in Threads, pc'[t] = "idle"
  PROVE  Place(t)' /\ ~ Building(t)'
BY DEF Place, Found, RegisterPlace, LoginPlace, Registering, Searching, Appending, Filling,
   LoggingIn, Building

\* The reads of register_user: where they lead a thread.
LEMMA RegisterReads ==
  ASSUME TypeInv, TypeInv', OneInv, NEW t \in Threads,
         compare(t) \/ step(t) \/ tail(t) \/ advance(t) \/ reload(t)
  PROVE  Place(t)' /\ (Building(t) => Building(t)')
<1> DEFINE c == conductor[t]
<1>0. /\ DOMAIN mem = 1 .. Len(mem) /\ Len(mem) \in Nat /\ mem' = mem /\ c \in DOMAIN mem
      /\ Found(t) /\ RegisterPlace(t) /\ pc[t] # "idle" /\ known[t] \subseteq Accounts
  <2>1. DOMAIN mem = 1 .. Len(mem) /\ Len(mem) \in Nat
    BY DEF TypeInv, TypeOK
  <2>2. mem' = mem /\ c \in DOMAIN mem /\ pc[t] # "idle"
    BY DEF compare, step, tail, advance, reload, At
  <2> QED BY <2>1, <2>2, FoundAt DEF Found
<1>1. mem[c].next = IF c = Len(mem) THEN Null ELSE c + 1
  <2>1. Registering(t) /\ pc[t] # "clear"
    BY DEF compare, step, tail, advance, reload, At, Registering, Searching, Appending
  <2> QED BY <1>0, <2>1, RegisterNext
<1>2. Accounts' = Accounts
  BY <1>0 DEF Accounts, Stored, AccountAt
<1>3. Registering(t) /\ op[t].kind = "register" /\ op[t].name # None
  BY <1>0, NoneAssumption
     DEF compare, step, tail, advance, reload, At, Registering, Searching, Appending, RegisterPlace,
         TypeInv, InCall, Call
<1>4. ASSUME pc'[t] = "idle", ~ Building(t) PROVE Place(t)' /\ (Building(t) => Building(t)')
  BY <1>4, IdlePlace
<1>5. ASSUME pc'[t] \in Searching \cup Appending \cup {"clear"}, op' = op, known' = known,
             conductor'[t] \in DOMAIN mem,
             RegisterPlace(t)'
      PROVE  Place(t)'
  <2>1. LoginPlace(t)'
    BY <1>5 DEF LoginPlace, LoggingIn, Searching, Appending
  <2> QED BY <1>0, <1>2, <1>5, <2>1 DEF Place, Found
<1>6. CASE compare(t)
  <2>1. pc[t] = "compare" /\ ~ Building(t) /\ NotIn(t, c - 1)
    BY <1>0, <1>6 DEF compare, At, Building, RegisterPlace
  <2>2. CASE Return(t, NICK_NAME_IN_USE)
    BY <1>4, <2>1, <2>2, MoverOf
  <2>3. CASE mem[c].name # op[t].name /\ Goto(t, "step") /\ UNCHANGED conductor
    <3>1. pc'[t] = "step" /\ op' = op /\ known' = known
      BY <2>3, MoverOf
    <3>2. NotIn(t, c)
      BY <1>0, <2>1, <2>3 DEF NotIn
    <3>3. NotIn(t, conductor[t])'
      BY <1>0, <2>3, <3>1, <3>2 DEF NotIn
    <3>4. RegisterPlace(t)'
      BY <1>3, <3>1, <3>3 DEF RegisterPlace, Registering, Searching, Appending, Filling
    <3> QED BY <1>0, <1>5, <2>1, <2>3, <3>1, <3>4 DEF Searching
  <2> QED BY <1>6, <2>2, <2>3 DEF compare, here
<1>7. CASE step(t)
  <2>1. pc[t] = "step" /\ ~ Building(t) /\ NotIn(t, c)
    BY <1>0, <1>7 DEF step, At, Building, RegisterPlace
  <2>2. CASE mem[c].next = Null /\ Goto(t, "tail") /\ Follow(t, root_user)
    <3>1. pc'[t] = "tail" /\ op' = op /\ known' = known /\ conductor'[t] = root_user
      BY <2>2, MoverOf
    <3>2. c = Len(mem)
      BY <1>0, <1>1, <2>2 DEF Null
    <3>3. NotIn(t, Len(mem))'
      BY <1>0, <2>1, <3>1, <3>2 DEF NotIn
    <3>4. RegisterPlace(t)'
      BY <1>3, <3>1, <3>3 DEF RegisterPlace, Registering, Searching, Appending, Filling
    <3>5. root_user \in DOMAIN mem
      BY DEF TypeInv, TypeOK
    <3> QED BY <1>5, <2>1, <3>1, <3>4, <3>5 DEF Appending
  <2>3. CASE mem[c].next # Null /\ Goto(t, "compare") /\ Follow(t, mem[c].next)
    <3>1. pc'[t] = "compare" /\ op' = op /\ known' = known /\ conductor'[t] = mem[c].next
      BY <2>3, MoverOf
    <3>2. c # Len(mem) /\ conductor'[t] = c + 1 /\ conductor'[t] - 1 = c
      BY <1>0, <1>1, <2>3, <3>1
    <3>3. \A x \in 2 .. c : mem'[x].name # op'[t].name
      BY <1>0, <2>1, <3>1 DEF NotIn
    <3>4. NotIn(t, conductor[t] - 1)'
      BY <3>2, <3>3 DEF NotIn
    <3>5. RegisterPlace(t)'
      BY <1>3, <3>1, <3>4 DEF RegisterPlace, Registering, Searching, Appending, Filling
    <3>6. conductor'[t] \in DOMAIN mem
      BY <1>0, <3>2
    <3> QED BY <1>5, <2>1, <3>1, <3>5, <3>6 DEF Searching
  <2> QED BY <1>7, <2>2, <2>3 DEF step, here
<1>8. CASE tail(t)
  <2>1. pc[t] = "tail" /\ ~ Building(t) /\ NotIn(t, Len(mem)) /\ conductor' = conductor
    BY <1>0, <1>8 DEF tail, At, Building, RegisterPlace, Appending
  <2>2. /\ pc'[t] \in {"link", "advance"} /\ op' = op /\ known' = known
        /\ pc'[t] = "link" => c = Len(mem)
        /\ pc'[t] = "advance" => c # Len(mem)
    <3>1. CASE mem[c].next = Null /\ Goto(t, "link")
      <4>1. c = Len(mem)
        BY <1>0, <1>1, <3>1 DEF Null
      <4> QED BY <3>1, <4>1, MoverOf
    <3>2. CASE mem[c].next # Null /\ Goto(t, "advance")
      <4>1. c # Len(mem)
        BY <1>1, <3>2
      <4> QED BY <3>2, <4>1, MoverOf
    <3> QED BY <1>8, <3>1, <3>2 DEF tail, Last, here
  <2>3. NotIn(t, Len(mem))'
    BY <1>0, <2>1, <2>2 DEF NotIn
  <2>4. RegisterPlace(t)'
    BY <1>0, <1>3, <2>1, <2>2, <2>3 DEF RegisterPlace, Registering, Searching, Appending, Filling
  <2> QED BY <1>0, <1>5, <2>1, <2>2, <2>4 DEF Appending
<1>9. CASE advance(t)
  <2>1. pc[t] = "advance" /\ ~ Building(t) /\ NotIn(t, Len(mem)) /\ c # Len(mem)
    BY <1>0, <1>9 DEF advance, At, Building, RegisterPlace, Appending
  <2>2. pc'[t] = "tail" /\ op' = op /\ known' = known /\ conductor'[t] = mem[c].next
    BY <1>9, MoverOf DEF advance, here
  <2>3. NotIn(t, Len(mem))'
    BY <1>0, <2>1, <2>2 DEF NotIn
  <2>4. RegisterPlace(t)'
    BY <1>3, <2>2, <2>3 DEF RegisterPlace, Registering, Searching, Appending, Filling
  <2>5. conductor'[t] \in DOMAIN mem
    BY <1>0, <1>1, <2>1, <2>2
  <2> QED BY <1>5, <2>1, <2>2, <2>4, <2>5 DEF Appending
<1>10. CASE reload(t)
  <2>1. /\ pc[t] = "reload" /\ NotIn(t, Len(mem))
        /\ c = Len(mem) \/ (c = Len(mem) - 1 /\ Blank(Len(mem)))
    BY <1>0, <1>10 DEF reload, At, RegisterPlace, Appending
  <2>2. CASE mem[c].next = Null /\ Return(t, OUT_OF_MEMORY)
    <3>1. c = Len(mem)
      BY <1>0, <1>1, <2>2 DEF Null
    <3>2. ~ Building(t)
      BY <2>1, <3>1 DEF Building
    <3> QED BY <1>4, <2>2, <3>2, MoverOf
  <2>3. CASE mem[c].next # Null /\ Goto(t, "clear") /\ Follow(t, mem[c].next)
    <3>1. pc'[t] = "clear" /\ op' = op /\ known' = known /\ conductor'[t] = mem[c].next
      BY <2>3, MoverOf
    <3>2. /\ c = Len(mem) - 1 /\ Blank(Len(mem)) /\ conductor'[t] = Len(mem)
          /\ Len(mem) # root_user /\ Len(mem) \in DOMAIN mem
      BY <1>0, <1>1, <2>1, <2>3, <3>1 DEF root_user
    <3>3. NotIn(t, Len(mem))' /\ Blank(Len(mem))'
      BY <1>0, <2>1, <3>1, <3>2 DEF NotIn, Blank
    <3>4. RegisterPlace(t)'
      BY <1>0, <1>3, <3>1, <3>2, <3>3
         DEF RegisterPlace, Registering, Searching, Appending, Filling, root_user
    <3>5. Building(t)'
      BY <3>1 DEF Building
    <3> QED BY <1>5, <3>1, <3>2, <3>4, <3>5
  <2> QED BY <1>10, <2>2, <2>3 DEF reload, here, Appended
<1> QED BY <1>6, <1>7, <1>8, <1>9, <1>10

\* The steps of login_user: they search on, or are at a node of that name.
LEMMA LoginReads ==
  ASSUME TypeInv, TypeInv', OneInv, Kept, NEW t \in Threads, LoginStep(t)
  PROVE  Place(t)' /\ ~ Building(t)
<1> DEFINE c == conductor[t]
<1>0. /\ DOMAIN mem = 1 .. Len(mem) /\ Len(mem) \in Nat /\ DOMAIN mem' = DOMAIN mem
      /\ Len(mem') = Len(mem) /\ i \in [Threads -> Nat]
      /\ \A x \in DOMAIN mem : mem'[x].name = mem[x].name /\ mem'[x].pw = mem[x].pw
  BY DEF TypeInv, TypeOK, Kept
<1>1. pc[t] \in LoggingIn /\ pc[t] # "idle" /\ c \in DOMAIN mem
  BY DEF LoginStep, first, match, skip, password, online, connect, At, LoggingIn
<1>2. LoginPlace(t) /\ known[t] \subseteq Accounts /\ op[t].kind = "login"
  BY <1>1, FoundAt DEF Found, LoginPlace
<1>3. mem[c].next = Wild \/ mem[c].next = IF c = Len(mem) THEN Null ELSE c + 1
  BY <1>1, LoginNext
<1>4. Accounts' = Accounts
  BY KeptList
<1>5. ~ Building(t)
  BY <1>1 DEF Building, LoggingIn
<1>6. ASSUME pc'[t] = "idle" PROVE Place(t)'
  BY <1>6, IdlePlace
<1>7. ASSUME pc'[t] \in LoggingIn, op' = op, known' = known, conductor'[t] \in DOMAIN mem,
             LoginPlace(t)'
      PROVE  Place(t)'
  <2>1. RegisterPlace(t)'
    BY <1>7 DEF RegisterPlace, Registering, LoggingIn, Searching, Appending, Filling
  <2> QED BY <1>0, <1>2, <1>4, <1>7, <2>1 DEF Place, Found
<1>14. ASSUME Goto(t, "match"), Follow(t, Wild) PROVE Place(t)'
  BY <1>2, <1>4, <1>14, MoverOf DEF Place, Lost
<1>8. CASE first(t)
  <2>1. c = root_user /\ i[t] = 0 /\ i' = i
    BY <1>2, <1>8 DEF first, At, LoginPlace
  <2>2. CASE Return(t, USER_DOES_NOT_EXIST)
    BY <1>5, <1>6, <2>2, MoverOf
  <2>4. CASE mem[c].next = Wild /\ Goto(t, "match") /\ Follow(t, mem[c].next)
    BY <1>5, <1>14, <2>4
  <2>3. CASE mem[c].next # Null /\ mem[c].next # Wild /\ Goto(t, "match") /\ Follow(t, mem[c].next)
    <3>1. pc'[t] = "match" /\ op' = op /\ known' = known /\ conductor'[t] = mem[c].next
      BY <2>3, MoverOf
    <3>2. conductor'[t] = 2 /\ 2 \in DOMAIN mem
      BY <1>0, <1>1, <1>3, <2>1, <2>3, <3>1 DEF root_user
    <3>3. Passed(t, conductor[t] - 1)'
      BY <3>2 DEF Passed
    <3>4. LoginPlace(t)'
      BY <1>2, <2>1, <3>1, <3>2, <3>3 DEF LoginPlace, LoggingIn
    <3> QED BY <1>5, <1>7, <3>1, <3>2, <3>4 DEF LoggingIn
  <2> QED BY <1>5, <1>8, <2>2, <2>3, <2>4 DEF first, here
<1>9. CASE match(t)
  <2>1. Passed(t, c - 1) /\ c = i[t] + 2 /\ UNCHANGED <<i, conductor>>
    BY <1>2, <1>9 DEF match, At, LoginPlace, LoggingIn
  <2>2. CASE mem[c].name = op[t].name /\ Goto(t, "password")
    <3>1. pc'[t] = "password" /\ op' = op /\ known' = known
      BY <2>2, MoverOf
    <3>2. here(t)'.name = op'[t].name
      BY <1>0, <1>1, <2>1, <2>2, <3>1 DEF here
    <3>3. LoginPlace(t)'
      BY <1>2, <2>1, <3>1, <3>2 DEF LoginPlace, LoggingIn
    <3> QED BY <1>1, <1>5, <1>7, <2>1, <3>1, <3>3 DEF LoggingIn
  <2>3. CASE mem[c].name # op[t].name /\ Goto(t, "skip")
    <3>1. pc'[t] = "skip" /\ op' = op /\ known' = known
      BY <2>3, MoverOf
    <3>2. Passed(t, conductor[t])'
      BY <1>0, <1>1, <2>1, <2>3, <3>1 DEF Passed
    <3>3. LoginPlace(t)'
      BY <1>2, <2>1, <3>1, <3>2 DEF LoginPlace, LoggingIn
    <3> QED BY <1>1, <1>5, <1>7, <2>1, <3>1, <3>3 DEF LoggingIn
  <2> QED BY <1>5, <1>9, <2>2, <2>3 DEF match, here
<1>10. CASE skip(t)
  <2>1. Passed(t, c) /\ c = i[t] + 2 /\ i'[t] = i[t] + 1
    BY <1>0, <1>2, <1>10 DEF skip, At, LoginPlace, LoggingIn
  <2>2. CASE Return(t, USER_DOES_NOT_EXIST)
    BY <1>5, <1>6, <2>2, MoverOf
  <2>4. CASE mem[c].next = Wild /\ Goto(t, "match") /\ Follow(t, mem[c].next)
    BY <1>5, <1>14, <2>4
  <2>3. CASE mem[c].next # Null /\ mem[c].next # Wild /\ Goto(t, "match") /\ Follow(t, mem[c].next)
    <3>1. pc'[t] = "match" /\ op' = op /\ known' = known /\ conductor'[t] = mem[c].next
      BY <2>3, MoverOf
    <3>2. /\ conductor'[t] = c + 1 /\ conductor'[t] - 1 = c /\ c + 1 \in DOMAIN mem
          /\ conductor'[t] = i'[t] + 2
      BY <1>0, <1>1, <1>3, <2>1, <2>3, <3>1
    <3>3. Passed(t, conductor[t] - 1)'
      BY <1>0, <1>1, <2>1, <3>1, <3>2 DEF Passed
    <3>4. LoginPlace(t)'
      BY <1>2, <3>1, <3>2, <3>3 DEF LoginPlace, LoggingIn
    <3> QED BY <1>5, <1>7, <3>1, <3>2, <3>4 DEF LoggingIn
  <2> QED BY <1>5, <1>10, <2>2, <2>3, <2>4 DEF skip, here
<1>11. CASE password(t)
  <2>1. mem[c].name = op[t].name /\ c = i[t] + 2 /\ UNCHANGED i
    BY <1>2, <1>11 DEF password, At, LoginPlace, LoggingIn, here
  <2>2. CASE Return(t, WRONG_PW)
    BY <1>5, <1>6, <2>2, MoverOf
  <2>3. CASE mem[c].pw = op[t].pw /\ Goto(t, "online") /\ UNCHANGED conductor
    <3>1. pc'[t] = "online" /\ op' = op /\ known' = known
      BY <2>3, MoverOf
    <3>2. here(t)'.name = op'[t].name /\ here(t)'.pw = op'[t].pw
      BY <1>0, <1>1, <2>1, <2>3, <3>1 DEF here
    <3>3. LoginPlace(t)'
      BY <1>2, <2>1, <2>3, <3>1, <3>2 DEF LoginPlace, LoggingIn
    <3> QED BY <1>1, <1>5, <1>7, <2>3, <3>1, <3>3 DEF LoggingIn
  <2> QED BY <1>5, <1>11, <2>2, <2>3 DEF password, here
<1>12. CASE online(t)
  <2>1. /\ mem[c].name = op[t].name /\ mem[c].pw = op[t].pw /\ c = i[t] + 2
        /\ UNCHANGED <<i, conductor>>
    BY <1>2, <1>12 DEF online, At, LoginPlace, LoggingIn, here
  <2>2. pc'[t] = "connect" /\ op' = op /\ known' = known
    BY <1>12, MoverOf DEF online
  <2>3. here(t)'.name = op'[t].name /\ here(t)'.pw = op'[t].pw
    BY <1>0, <1>1, <2>1, <2>2 DEF here
  <2>4. LoginPlace(t)'
    BY <1>2, <2>1, <2>2, <2>3 DEF LoginPlace, LoggingIn
  <2> QED BY <1>1, <1>5, <1>7, <2>1, <2>2, <2>4 DEF LoggingIn
<1>13. CASE connect(t)
  BY <1>5, <1>6, <1>13, MoverOf DEF connect
<1> QED BY <1>8, <1>9, <1>10, <1>11, <1>12, <1>13 DEF LoginStep

\* A new call starts at the root.
LEMMA RequestPlace ==
  ASSUME TypeInv, TypeInv', OneInv, NEW t \in Threads, NEW o \in Call, request(t, o)
  PROVE  Place(t)' /\ ~ Building(t)
<1>1. /\ pc'[t] = IF o.kind = "register" THEN "compare" ELSE "first"
      /\ op'[t] = o /\ conductor'[t] = root_user /\ i'[t] = 0 /\ known'[t] = Accounts
      /\ pc[t] = "idle" /\ mem' = mem
  BY DEF request, Follow, TypeInv, TypeOK
<1>2. Accounts' = Accounts
  BY <1>1 DEF Accounts, Stored, AccountAt
<1>3. root_user \in DOMAIN mem'
  BY DEF TypeInv, TypeOK
<1>4. NotIn(t, conductor[t] - 1)'
  BY <1>1 DEF NotIn, root_user
<1>5. RegisterPlace(t)'
  BY <1>1, <1>4 DEF RegisterPlace, Registering, Searching, Appending, Filling
<1>6. o.kind \in {"register", "login"}
  BY DEF Call
<1>7. LoginPlace(t)'
  BY <1>1, <1>6 DEF LoginPlace, LoggingIn, root_user
<1>8. ~ Building(t)
  BY <1>1 DEF Building
<1> QED BY <1>1, <1>2, <1>3, <1>5, <1>7, <1>8 DEF Place, Found

\* What a registration stores, and where.
LEMMA NewNode ==
  ASSUME TypeInv, OneInv, NEW t \in Threads, store_name(t) \/ store_pw(t)
  PROVE  /\ conductor[t] = Len(mem) /\ Len(mem) \in 2 .. Len(mem) /\ Registering(t)
         /\ op[t].name \in Names /\ op[t].pw \in Passwords /\ op[t].kind = "register"
         /\ op[t].name # None /\ op[t].pw # None
         /\ Len(mem) \notin Stored /\ mem[Len(mem)].pw = None
         /\ store_name(t) => NotIn(t, Len(mem)) /\ mem[Len(mem)].name = None /\ pc[t] = "name"
         /\ store_pw(t) => mem[Len(mem)].name = op[t].name /\ pc[t] = "pw"
<1>1. pc[t] \in {"name", "pw"} /\ Registering(t)
  BY DEF store_name, store_pw, At, Registering, Filling
<1>2. (store_name(t) => pc[t] = "name") /\ (store_pw(t) => pc[t] = "pw")
  BY DEF store_name, store_pw, At
<1>3. op[t] \in Call /\ DOMAIN mem = 1 .. Len(mem) /\ Len(mem) \in Nat
  BY <1>1 DEF TypeInv, TypeOK, InCall
<1>4. RegisterPlace(t) /\ conductor[t] \in DOMAIN mem
  BY <1>1, FoundAt DEF Found
<1>5. conductor[t] = Len(mem) /\ Len(mem) # root_user /\ op[t].kind = "register"
  BY <1>1, <1>4 DEF RegisterPlace, Filling
<1>6. Len(mem) \in 2 .. Len(mem)
  BY <1>3, <1>4, <1>5 DEF root_user
<1>7. (pc[t] = "name" => NotIn(t, Len(mem)) /\ mem[Len(mem)].name = None)
      /\ mem[Len(mem)].pw = None
      /\ (pc[t] = "pw" => mem[Len(mem)].name = op[t].name)
  BY <1>1, <1>4 DEF RegisterPlace, Blank
<1> QED BY <1>1, <1>2, <1>3, <1>5, <1>6, <1>7, NoneAssumption DEF Call, Stored

\* An account comes with the store of its password, the last of the two that make it
\* (register_user), and none goes.
LEMMA StepAccounts ==
  ASSUME TypeInv, TypeInv', OneInv, NEW t \in Threads,
         RegisterStep(t) \/ LoginStep(t) \/ stray(t) \/ \E o \in Call : request(t, o)
  PROVE  /\ ~ store_pw(t) => Stored' = Stored /\ Accounts' = Accounts
         /\ store_pw(t) =>
              /\ Stored' = Stored \cup {Len(mem)}
              /\ Accounts' = Accounts \cup {[name |-> op[t].name, pw |-> op[t].pw]}
<1>0. /\ DOMAIN mem = 1 .. Len(mem) /\ Len(mem) \in Nat
      /\ DOMAIN mem' = 1 .. Len(mem') /\ Len(mem') \in Nat
  BY DEF TypeInv, TypeOK
<1>1. CASE Kept
  <2>1. ~ store_pw(t)
    <3>1. SUFFICES ASSUME store_pw(t) PROVE FALSE
      OBVIOUS
    <3>2. mem'[Len(mem)].pw = mem[Len(mem)].pw /\ mem[Len(mem)].pw = None /\ op[t].pw # None
      BY <1>0, <1>1, <3>1, NewNode DEF Kept
    <3>3. mem[Len(mem)] \in Node /\ Len(mem) \in DOMAIN mem /\ here(t) = mem[Len(mem)]
      BY <3>1, NewNode, <1>0 DEF TypeInv, TypeOK, here
    <3>4. mem' = [mem EXCEPT ![Len(mem)] = [mem[Len(mem)] EXCEPT !.pw = op[t].pw]]
      BY <3>1, <3>3, NewNode DEF store_pw, Store
    <3>5. mem'[Len(mem)].pw = op[t].pw
      BY <3>3, <3>4 DEF Node, TypeInv, TypeOK
    <3> QED BY <3>2, <3>5
  <2> QED BY <1>1, <2>1, KeptList
<1>2. CASE /\ link(t) /\ Len(mem') = Len(mem) + 1
           /\ \A x \in DOMAIN mem : mem'[x].name = mem[x].name /\ mem'[x].pw = mem[x].pw
           /\ Blank(Len(mem))'
  <2>1. ~ store_pw(t)
    BY <1>2 DEF link, store_pw, At
  <2>2. Stored' = Stored
    BY <1>0, <1>2 DEF Stored, Blank, root_user
  <2>3. \A x \in Stored : AccountAt(x)' = AccountAt(x)
    BY <1>2 DEF Stored, AccountAt
  <2> QED BY <2>1, <2>2, <2>3 DEF Accounts
<1>3. CASE /\ store_name(t) \/ store_pw(t)
           /\ Len(mem') = Len(mem)
           /\ \A x \in DOMAIN mem \ {Len(mem)} : mem'[x] = mem[x]
           /\ store_name(t) =>
                mem'[Len(mem)].name = op[t].name /\ mem'[Len(mem)].pw = mem[Len(mem)].pw
           /\ store_pw(t) =>
                mem'[Len(mem)].pw = op[t].pw /\ mem'[Len(mem)].name = mem[Len(mem)].name
  <2>1. /\ Len(mem) \in DOMAIN mem \ {root_user} /\ Len(mem) \notin Stored
        /\ mem[Len(mem)].pw = None /\ op[t].pw # None /\ op[t].name # None
    BY <1>0, <1>3, NewNode DEF root_user
  <2>2. \A x \in DOMAIN mem \ {Len(mem)} :
          (x \in Stored' <=> x \in Stored) /\ AccountAt(x)' = AccountAt(x)
    BY <1>0, <1>3 DEF Stored, AccountAt, root_user
  <2>3. CASE store_name(t)
    <3>1. Len(mem) \notin Stored' /\ ~ store_pw(t)
      BY <1>3, <2>1, <2>3 DEF Stored, store_name, store_pw, At
    <3>2. Stored' = Stored
      BY <1>0, <1>3, <2>1, <2>2, <3>1 DEF Stored, root_user
    <3> QED BY <2>1, <2>2, <3>1, <3>2 DEF Accounts, Stored
  <2>4. CASE store_pw(t)
    <3>1. Len(mem) \in Stored' /\ AccountAt(Len(mem))' = [name |-> op[t].name, pw |-> op[t].pw]
      <4>1. mem'[Len(mem)].pw = op[t].pw /\ mem'[Len(mem)].name = op[t].name
        BY <1>3, <2>4, NewNode
      <4> QED BY <1>0, <1>3, <2>1, <4>1 DEF Stored, AccountAt, root_user
    <3>2. Stored' = Stored \cup {Len(mem)}
      BY <1>0, <1>3, <2>1, <2>2, <3>1 DEF Stored, root_user
    <3> QED BY <1>3, <2>1, <2>2, <2>4, <3>1, <3>2 DEF Accounts, Stored
  <2> QED BY <1>3, <2>3, <2>4
<1> QED BY <1>1, <1>2, <1>3, StoreEffects

\* Where the stores of register_user leave their thread.
LEMMA RegisterWrites ==
  ASSUME TypeInv, TypeInv', OneInv, NEW t \in Threads,
         \/ link(t) \/ clear(t)
         \/ store_name(t) \/ store_pw(t) \/ store_connfd(t) \/ store_login(t)
  PROVE  /\ Place(t)'
         /\ clear(t) \/ store_name(t) => Building(t)'
         /\ Len(mem') # Len(mem) => Building(t)'
         /\ ~ (clear(t) \/ store_name(t) \/ store_pw(t)) => ~ Building(t)
<1> DEFINE c == conductor[t]
<1>0. /\ DOMAIN mem = 1 .. Len(mem) /\ Len(mem) \in Nat
      /\ DOMAIN mem' = 1 .. Len(mem') /\ Len(mem') \in Nat
  BY DEF TypeInv, TypeOK
<1>1. c \in DOMAIN mem /\ pc[t] \in {"link"} \cup Filling /\ pc[t] # "idle"
  BY DEF link, clear, store_name, store_pw, store_connfd, store_login, At, Filling
<1>2. RegisterPlace(t) /\ known[t] \subseteq Accounts /\ c = Len(mem)
      /\ Registering(t) /\ op[t].kind = "register" /\ op[t].name # None
  BY <1>1, NoneAssumption, FoundAt
     DEF Found, RegisterPlace, Registering, Appending, TypeInv, InCall, Call
<1>3. Accounts \subseteq Accounts'
  BY StepAccounts DEF RegisterStep
<1>4. ASSUME pc'[t] \in {"reload"} \cup Filling, op' = op, known' = known, conductor' = conductor,
             Len(mem) <= Len(mem'), RegisterPlace(t)'
      PROVE  Place(t)'
  <2>1. LoginPlace(t)'
    BY <1>4 DEF LoginPlace, LoggingIn, Filling
  <2>2. conductor'[t] \in DOMAIN mem'
    BY <1>0, <1>1, <1>2, <1>4
  <2> QED BY <1>2, <1>3, <1>4, <2>1, <2>2 DEF Place, Found
<1>5. CASE link(t)
  <2>1. /\ pc'[t] = "reload" /\ op' = op /\ known' = known /\ conductor' = conductor
        /\ pc[t] = "link" /\ ~ Building(t)
    BY <1>5, MoverOf DEF link, At, Building
  <2>2. NotIn(t, Len(mem))
    BY <1>2, <2>1 DEF RegisterPlace, Appending
  <2>3. CASE Kept
    <3>1. Len(mem') = Len(mem) /\ NotIn(t, Len(mem))'
      BY <1>0, <2>1, <2>2, <2>3 DEF NotIn, Kept
    <3>2. RegisterPlace(t)'
      BY <1>2, <2>1, <3>1 DEF RegisterPlace, Registering, Searching, Appending, Filling
    <3> QED BY <1>0, <1>4, <1>5, <2>1, <3>1, <3>2 DEF clear, store_name, At
  <2>4. CASE /\ Len(mem') = Len(mem) + 1
             /\ \A x \in DOMAIN mem : mem'[x].name = mem[x].name /\ mem'[x].pw = mem[x].pw
             /\ Blank(Len(mem))'
    <3>1. NotIn(t, Len(mem))'
      <4> SUFFICES ASSUME NEW x \in 2 .. Len(mem') PROVE mem'[x].name # op'[t].name
        BY DEF NotIn
      <4>1. CASE x = Len(mem')
        BY <1>2, <2>1, <2>4, <4>1 DEF Blank
      <4>2. CASE x \in 2 .. Len(mem)
        <5>1. x \in DOMAIN mem
          BY <1>0, <4>2
        <5> QED BY <2>1, <2>2, <2>4, <4>2, <5>1 DEF NotIn
      <4> QED BY <1>0, <2>4, <4>1, <4>2
    <3>2. conductor'[t] = Len(mem') - 1 /\ conductor'[t] # Len(mem')
      BY <1>0, <1>2, <2>1, <2>4
    <3>3. RegisterPlace(t)'
      BY <1>2, <2>1, <2>4, <3>1, <3>2 DEF RegisterPlace, Registering, Searching, Appending, Filling
    <3>4. Building(t)'
      BY <2>1, <3>2 DEF Building
    <3>5. Len(mem) <= Len(mem')
      BY <1>0, <2>4
    <3> QED BY <1>4, <2>1, <3>3, <3>4, <3>5
  <2> QED BY <1>5, <2>1, <2>3, <2>4, StoreEffects DEF RegisterStep, store_name, store_pw, At
<1>6. ASSUME clear(t) \/ store_name(t) \/ store_pw(t) \/ store_connfd(t) \/ store_login(t)
      PROVE  Len(mem') = Len(mem)
  <2>1. ~ link(t)
    BY <1>6 DEF link, clear, store_name, store_pw, store_connfd, store_login, At
  <2> QED BY <1>6, <2>1, StoreEffects DEF RegisterStep, Kept
<1>7. CASE clear(t)
  <2>1. /\ pc'[t] = "name" /\ op' = op /\ known' = known /\ conductor' = conductor /\ pc[t] = "clear"
    BY <1>7, MoverOf DEF clear, At
  <2>2. Kept
    BY <1>7, <2>1, StoreEffects DEF RegisterStep, link, clear, store_name, store_pw, At
  <2>3. NotIn(t, Len(mem)) /\ Blank(Len(mem)) /\ Len(mem) # root_user
    BY <1>2, <2>1 DEF RegisterPlace, Filling
  <2>4. NotIn(t, Len(mem))' /\ Blank(Len(mem))'
    BY <1>0, <1>1, <1>2, <2>1, <2>2, <2>3 DEF NotIn, Blank, Kept
  <2>5. RegisterPlace(t)'
    BY <1>2, <1>6, <1>7, <2>1, <2>3, <2>4
       DEF RegisterPlace, Registering, Searching, Appending, Filling, root_user
  <2>6. Building(t)'
    BY <2>1 DEF Building
  <2> QED BY <1>0, <1>4, <1>6, <1>7, <2>1, <2>5, <2>6 DEF Filling
<1>8. CASE store_name(t)
  <2>1. /\ pc'[t] = "pw" /\ op' = op /\ known' = known /\ conductor' = conductor /\ pc[t] = "name"
    BY <1>8, MoverOf DEF store_name, At
  <2>2. mem'[Len(mem)].name = op[t].name /\ mem'[Len(mem)].pw = None
    <3>1. Len(mem) \in DOMAIN mem /\ here(t) = mem[Len(mem)] /\ mem[Len(mem)] \in Node
          /\ mem[Len(mem)].pw = None
      BY <1>0, <1>1, <1>2, <1>8, NewNode DEF here, TypeInv, TypeOK
    <3>2. mem' = [mem EXCEPT ![Len(mem)] = [mem[Len(mem)] EXCEPT !.name = op[t].name]]
      BY <1>2, <1>8, <3>1 DEF store_name, Store
    <3> QED BY <3>1, <3>2 DEF Node, TypeInv, TypeOK
  <2>3. RegisterPlace(t)'
    BY <1>2, <1>6, <1>8, <2>1, <2>2, NewNode
       DEF RegisterPlace, Registering, Searching, Appending, Filling, root_user
  <2>4. Building(t)'
    BY <2>1 DEF Building
  <2> QED BY <1>0, <1>4, <1>6, <1>8, <2>1, <2>3, <2>4 DEF Filling
<1>9. CASE store_pw(t) \/ store_connfd(t)
  <2>1. /\ pc'[t] \in {"connfd", "login"} /\ op' = op /\ known' = known /\ conductor' = conductor
        /\ pc[t] \in {"pw", "connfd"}
    BY <1>9, MoverOf DEF store_pw, store_connfd, At
  <2>2. ~ store_pw(t) => ~ Building(t)
    BY <1>9 DEF store_connfd, At, Building
  <2>3. Len(mem) # root_user /\ ~ clear(t) /\ ~ store_name(t)
    BY <1>2, <2>1 DEF RegisterPlace, Filling, clear, store_name, At
  <2>4. RegisterPlace(t)'
    BY <1>2, <1>6, <1>9, <2>1, <2>3
       DEF RegisterPlace, Registering, Searching, Appending, Filling, root_user
  <2>5. Place(t)'
    <3>0. Len(mem') = Len(mem)
      BY <1>6, <1>9
    <3>1. Len(mem) <= Len(mem')
      BY <1>0, <3>0
    <3> QED BY <1>4, <2>1, <2>4, <3>1 DEF Filling
  <2> QED BY <1>6, <1>9, <2>2, <2>3, <2>5
<1>10. CASE store_login(t)
  <2>1. pc'[t] = "idle" /\ pc[t] = "login"
    BY <1>10, MoverOf DEF store_login, At
  <2>2. ~ Building(t) /\ ~ clear(t) /\ ~ store_name(t)
    BY <2>1 DEF Building, clear, store_name, At
  <2> QED BY <1>6, <1>10, <2>1, <2>2, IdlePlace
<1> QED BY <1>5, <1>7, <1>8, <1>9, <1>10

\* Every step of one registration at a time, and of the logins beside it, keeps the
\* list straight and each thread in its place.
LEMMA OneStep ==
  ASSUME TypeInv, TypeInv', OneInv, OneRegistration', Next
  PROVE  OneInv'
<1>0. /\ DOMAIN mem = 1 .. Len(mem) /\ Len(mem) \in Nat
      /\ DOMAIN mem' = 1 .. Len(mem') /\ Len(mem') \in Nat /\ root_user \in DOMAIN mem
  BY DEF TypeInv, TypeOK
<1>1. PICK t \in Threads :
        RegisterStep(t) \/ LoginStep(t) \/ stray(t) \/ \E o \in Call : request(t, o)
  BY DEF Next, Run
<1>4. \A u \in Threads \ {t} :
        /\ pc'[u] = pc[u] /\ op'[u] = op[u] /\ conductor'[u] = conductor[u] /\ i'[u] = i[u]
        /\ known'[u] = known[u]
  BY <1>1, OthersStay
<1>5. ASSUME NEW x \in 2 .. Len(mem), x \notin Stored
      PROVE  x = Len(mem) /\ \E u \in Threads : Building(u)
  BY <1>5 DEF OneInv, Complete
<1>2. /\ Building(t) => Registering(t) /\ ~ stray(t)
      /\ Fetching(t) => Building(t) /\ (pc[t] = "clear" \/ pc[t] = "reload")
  BY FoundAt DEF Building, Fetching, Registering, Appending, Filling, stray, Found
<1>3. ASSUME \A u \in Threads \ {t} : Fetching(u) => Fetching(u)', Len(mem') = Len(mem),
             Fetching(t) => Fetching(t)' \/ mem'[Len(mem)].next = Null,
             mem'[Len(mem)].next \in {mem[Len(mem)].next, Null}
      PROVE  Ended'
  BY <1>3 DEF OneInv, Ended, Null, Wild
<1>6. CASE Kept /\ (clear(t) => mem'[Len(mem)].next = Null)
  <2>1. /\ Stored' = Stored /\ Straight' /\ Blank(root_user)' /\ NamesDiffer'
        /\ Len(mem') = Len(mem)
    BY <1>6, KeptList DEF Kept
  <2>2. \A u \in Threads \ {t} :
          Place(u)' /\ (Building(u) => Building(u)') /\ (Fetching(u) => Fetching(u)')
    BY <1>4, <1>6, KeptPlace
  <2>3. Place(t)' /\ (Building(t) => Building(t)')
    <3>1. CASE LoginStep(t)
      BY <1>6, <3>1, LoginReads
    <3>2. CASE \E o \in Call : request(t, o)
      BY <3>2, RequestPlace
    <3>3. CASE compare(t) \/ step(t) \/ tail(t) \/ advance(t) \/ reload(t)
      BY <3>3, RegisterReads
    <3>4. CASE \/ link(t) \/ clear(t)
               \/ store_name(t) \/ store_pw(t) \/ store_connfd(t) \/ store_login(t)
      <4>1. ~ store_pw(t)
        <5>1. SUFFICES ASSUME store_pw(t) PROVE FALSE
          OBVIOUS
        <5>2. Len(mem) \in Stored' /\ Len(mem) \notin Stored
          BY <5>1, StepAccounts, NewNode DEF RegisterStep
        <5> QED BY <2>1, <5>2
      <4> QED BY <3>4, <4>1, RegisterWrites
    <3>5. CASE stray(t)
      <4>1. /\ pc' = pc /\ op' = op /\ conductor' = conductor /\ i' = i /\ known' = known
            /\ ~ Building(t)
        BY <1>2, <3>5 DEF stray, threadVars
      <4> QED BY <1>6, <4>1, KeptPlace
    <3> QED BY <1>1, <3>1, <3>2, <3>3, <3>4, <3>5 DEF RegisterStep
  <2>4. Complete'
    <3> SUFFICES ASSUME NEW x \in 2 .. Len(mem'), x \notin Stored'
                 PROVE  x = Len(mem') /\ \E u \in Threads : Building(u)'
      BY DEF Complete
    <3> QED BY <1>5, <2>1, <2>2, <2>3
  <2>5. Fetching(t) => Fetching(t)' \/ mem'[Len(mem)].next = Null
    <3> SUFFICES ASSUME Fetching(t), ~ clear(t) PROVE Fetching(t)'
      BY <1>6
    <3>1. reload(t) /\ pc[t] = "reload" /\ conductor[t] # Len(mem)
      BY <1>1, <1>2
         DEF Fetching, RegisterStep, LoginStep, compare, step, tail, advance, link, reload, clear,
             store_name, store_pw, store_connfd, store_login, first, match, skip, password, online,
             connect, At, request
    <3>2. mem[conductor[t]].next # Null
      <4>1. conductor[t] \in DOMAIN mem
        BY <3>1 DEF reload, At
      <4>2. mem[conductor[t]].next = conductor[t] + 1
        BY <3>1, <4>1 DEF OneInv, Straight
      <4> QED BY <1>0, <4>1, <4>2 DEF Null
    <3>3. Goto(t, "clear")
      BY <3>1, <3>2 DEF reload, Appended, here
    <3> QED BY <3>3, MoverOf DEF Fetching
  <2>6. Ended'
    BY <1>3, <1>6, <2>1, <2>2, <2>5 DEF Kept
  <2> QED BY <2>1, <2>2, <2>3, <2>4, <2>6 DEF OneInv
<1>7. CASE /\ link(t) /\ Len(mem') = Len(mem) + 1
           /\ \A x \in DOMAIN mem : mem'[x].name = mem[x].name /\ mem'[x].pw = mem[x].pw
           /\ Straight' /\ Blank(Len(mem))'
  <2>0. Len(mem') = Len(mem) + 1
    BY <1>7
  <2>1. ~ store_pw(t) /\ pc[t] = "link" /\ Registering(t) /\ ~ Building(t)
    BY <1>7 DEF link, store_pw, At, Registering, Appending, Building
  <2>2. Stored' = Stored /\ Accounts' = Accounts
    BY <1>1, <2>1, StepAccounts
  <2>3. \A u \in Threads \ {t} : ~ Registering(u) /\ ~ Building(u)
    BY <2>1 DEF OneInv, OneRegistration, Building, Registering, Appending, Filling
  <2>4. Place(t)' /\ Building(t)'
    <3>0. Len(mem) \in Nat
      BY <1>0
    <3>1. Len(mem') # Len(mem)
      BY <2>0, <3>0
    <3> QED BY <1>7, <3>1, RegisterWrites
  <2>5. \A u \in Threads \ {t} : Place(u)'
    <3> SUFFICES ASSUME NEW u \in Threads \ {t} PROVE Place(u)'
      OBVIOUS
    <3>0. Len(mem) \in Nat
      BY <1>0
    <3>1. Len(mem) <= Len(mem')
      BY <2>0, <3>0
    <3>2. \A x \in DOMAIN mem' \ DOMAIN mem : mem'[x].name = None
      BY <1>0, <1>7 DEF Blank
    <3> QED BY <1>4, <1>7, <2>2, <2>3, <3>1, <3>2, LoginPlaces
  <2>6. Complete'
    <3> SUFFICES ASSUME NEW x \in 2 .. Len(mem'), x \notin Stored'
                 PROVE  x = Len(mem') /\ \E u \in Threads : Building(u)'
      BY DEF Complete
    <3>1. x \notin 2 .. Len(mem)
      BY <1>5, <2>1, <2>2, <2>3
    <3> QED BY <1>0, <1>7, <2>4, <3>1
  <2>7. NamesDiffer'
    <3> SUFFICES ASSUME NEW x \in 2 .. Len(mem'), NEW y \in 2 .. Len(mem'),
                        mem'[x].name = mem'[y].name, mem'[x].name # None
                 PROVE  x = y
      BY DEF NamesDiffer
    <3>1. x \in 2 .. Len(mem) /\ y \in 2 .. Len(mem)
      <4>1. x # Len(mem') /\ y # Len(mem')
        BY <1>7 DEF Blank
      <4> QED BY <1>0, <2>0, <4>1
    <3>2. mem'[x].name = mem[x].name /\ mem'[y].name = mem[y].name
      BY <1>0, <1>7, <3>1
    <3> QED BY <3>1, <3>2 DEF OneInv, NamesDiffer
  <2>8. Blank(root_user)'
    BY <1>0, <1>7 DEF OneInv, Blank, root_user
  <2>9. Ended'
    <3>1. pc'[t] = "reload" /\ conductor' = conductor
      BY <1>7, MoverOf DEF link
    <3>2. conductor[t] \in 1 .. Len(mem)
      BY <1>0, <1>7 DEF link, At
    <3>3. Fetching(t)'
      BY <1>0, <2>0, <3>1, <3>2 DEF Fetching
    <3> QED BY <3>3 DEF Ended
  <2> QED BY <1>7, <2>4, <2>5, <2>6, <2>7, <2>8, <2>9 DEF OneInv
<1>8. CASE /\ store_name(t) \/ store_pw(t)
           /\ Len(mem') = Len(mem) /\ Straight' /\ mem'[Len(mem)].next = Null
           /\ \A x \in DOMAIN mem \ {Len(mem)} : mem'[x] = mem[x]
           /\ store_name(t) =>
                mem'[Len(mem)].name = op[t].name /\ mem'[Len(mem)].pw = mem[Len(mem)].pw
           /\ store_pw(t) =>
                mem'[Len(mem)].pw = op[t].pw /\ mem'[Len(mem)].name = mem[Len(mem)].name
  <2>1. /\ Len(mem) \in 2 .. Len(mem) /\ Registering(t) /\ Len(mem) \notin Stored
        /\ op[t].name # None /\ mem[Len(mem)].pw = None
        /\ store_name(t) => NotIn(t, Len(mem)) /\ mem[Len(mem)].name = None /\ pc[t] = "name"
    BY <1>8, NewNode
  <2>2. \A u \in Threads \ {t} : ~ Registering(u) /\ ~ Building(u)
    BY <2>1 DEF OneInv, OneRegistration, Building, Registering, Appending, Filling
  <2>3. Stored \subseteq Stored' /\ Accounts \subseteq Accounts'
        /\ (store_pw(t) => Len(mem) \in Stored')
    BY <1>1, StepAccounts
  <2>4. Place(t)' /\ (store_name(t) => Building(t)')
    BY <1>8, RegisterWrites
  <2>5. Blank(root_user)'
    BY <1>0, <1>8, <2>1 DEF OneInv, Blank, root_user
  <2>6. \A y \in DOMAIN mem : store_name(t) => mem[y].name # op[t].name
    <3> SUFFICES ASSUME NEW y \in DOMAIN mem, store_name(t) PROVE mem[y].name # op[t].name
      OBVIOUS
    <3>1. CASE y = root_user
      BY <2>1, <3>1 DEF OneInv, Blank
    <3>2. CASE y \in 2 .. Len(mem)
      BY <2>1, <3>2 DEF NotIn
    <3> QED BY <1>0, <3>1, <3>2 DEF root_user
  <2>7. \A x \in DOMAIN mem :
           /\ \/ mem'[x].name = mem[x].name
              \/ /\ mem[x].name = None
                 /\ \A y \in DOMAIN mem : mem[y].name # mem'[x].name
           /\ mem'[x].pw = mem[x].pw \/ mem[x].pw = None
    BY <1>8, <2>1, <2>6
  <2>8. \A u \in Threads \ {t} : Place(u)'
    <3>1. Len(mem) <= Len(mem') /\ DOMAIN mem' \ DOMAIN mem = {}
      BY <1>0, <1>8
    <3> QED BY <1>4, <2>2, <2>3, <2>7, <3>1, LoginPlaces
  <2>9. Complete'
    <3> SUFFICES ASSUME NEW x \in 2 .. Len(mem'), x \notin Stored'
                 PROVE  x = Len(mem') /\ \E u \in Threads : Building(u)'
      BY DEF Complete
    <3>1. x = Len(mem)
      BY <1>5, <1>8, <2>3
    <3> QED BY <1>8, <2>3, <2>4, <3>1
  <2>10. NamesDiffer'
    <3> SUFFICES ASSUME NEW x \in 2 .. Len(mem), NEW y \in 2 .. Len(mem),
                        mem'[x].name = mem'[y].name, mem'[x].name # None
                 PROVE  x = y
      BY <1>8 DEF NamesDiffer
    <3>1. x \in DOMAIN mem /\ y \in DOMAIN mem
      BY <1>0
    <3>2. CASE mem'[x].name = mem[x].name /\ mem'[y].name = mem[y].name
      BY <3>2 DEF OneInv, NamesDiffer
    <3>3. CASE ~ (mem'[x].name = mem[x].name /\ mem'[y].name = mem[y].name)
      BY <1>8, <2>6, <3>1, <3>3
    <3> QED BY <3>2, <3>3
  <2>11. Ended'
    BY <1>8 DEF Ended, Null, Wild
  <2> QED BY <1>8, <2>4, <2>5, <2>8, <2>9, <2>10, <2>11 DEF OneInv
<1> QED BY <1>1, <1>6, <1>7, <1>8, StoreEffects

\* Between calls, with the root alone, everything is in place (main).
LEMMA OneInit == Init => OneInv
<1> SUFFICES ASSUME Init PROVE OneInv
  OBVIOUS
<1>1. mem = <<Fresh(Null)>> /\ mem[1] = Fresh(Null) /\ Len(mem) = 1 /\ DOMAIN mem = {1}
  BY DEF Init
<1>2. Straight /\ Ended /\ Blank(root_user) /\ Complete /\ NamesDiffer
  BY <1>1 DEF Straight, Ended, Null, Wild, Blank, Complete, NamesDiffer, Fresh, root_user
<1>3. \A t \in Threads : Place(t)
  BY DEF Init, Place, Found, RegisterPlace, LoginPlace, Registering, Searching, Appending, Filling,
         LoggingIn
<1>4. OneRegistration
  BY DEF Init, OneRegistration, Registering, Searching, Appending, Filling
<1> QED BY <1>2, <1>3, <1>4 DEF OneInv

\* Any step, or none.
LEMMA OneNext ==
  TypeInv /\ TypeInv' /\ OneInv /\ [Next /\ OneRegistration']_vars => OneInv'
<1> SUFFICES ASSUME TypeInv, TypeInv', OneInv, [Next /\ OneRegistration']_vars
             PROVE  OneInv'
  OBVIOUS
<1>1. CASE UNCHANGED vars
  BY <1>1 DEF vars, threadVars, OneInv, OneRegistration, Registering, Straight, Ended, Blank,
     Complete, Building, Fetching, NamesDiffer, Place, Found, Lost, RegisterPlace, LoginPlace, NotIn, Passed, Stored, AccountAt,
     Accounts, here
<1>2. CASE Next /\ OneRegistration'
  BY <1>2, OneStep
<1> QED BY <1>1, <1>2

-------------------------------------------------------------------------------
(* One registration at a time is a Directory                               *)

\* The search of login_user sees every user there is.
Seen == Len(mem) - 1 <= MAX_USER_COUNT

\* A node with a name is an account, or will be one: its registration is running.
LEMMA NamedNode ==
  ASSUME TypeInv, OneInv, NEW x \in 2 .. Len(mem), mem[x].name # None
  PROVE  \/ x \in Stored /\ AccountAt(x) \in Accounts
         \/ \E u \in Threads : /\ pc[u] = "pw" /\ op[u].kind = "register"
                               /\ op[u].name = mem[x].name /\ x \notin Stored
<1>1. CASE x \in Stored
  BY <1>1 DEF Accounts
<1>2. CASE x \notin Stored
  <2>1. PICK u \in Threads : x = Len(mem) /\ Building(u)
    BY <1>2 DEF OneInv, Complete
  <2>2. pc[u] \in {"clear", "name", "pw"} \/ (pc[u] = "reload" /\ conductor[u] # Len(mem))
    BY <2>1 DEF Building
  <2>3. RegisterPlace(u) /\ Registering(u)
    BY <2>2, FoundAt DEF Found, Registering, Appending, Filling
  <2>4. pc[u] = "pw" /\ op[u].name = mem[x].name /\ op[u].kind = "register"
    BY <2>1, <2>2, <2>3 DEF RegisterPlace, Blank
  <2> QED BY <1>2, <2>4
<1> QED BY <1>1, <1>2

\* What is found wanting at the end of the search was no account when the call began.
LEMMA NotKnown ==
  ASSUME TypeInv, OneInv, NEW t \in Threads, pc[t] # "idle", Passed(t, Len(mem))
  PROVE  op[t].name \notin Promise!Called(known[t])
<1> SUFFICES ASSUME NEW a \in known[t], a.name = op[t].name PROVE FALSE
  BY DEF Promise!Called
<1>1. a \in Accounts
  BY DEF OneInv, Place, Found, Lost
<1>2. PICK x \in Stored : a = AccountAt(x)
  BY <1>1 DEF Accounts
<1>3. x \in 2 .. Len(mem) /\ mem[x].name = op[t].name
  BY <1>2 DEF Stored, AccountAt, TypeInv, TypeOK, root_user
<1> QED BY <1>3 DEF Passed

\* A password that is not the node's is not the one the account had when the call began.
LEMMA NotKnownPassword ==
  ASSUME TypeInv, OneInv, NEW t \in Threads, pc[t] = "password", here(t).pw # op[t].pw
  PROVE  [name |-> op[t].name, pw |-> op[t].pw] \notin known[t]
<1> SUFFICES ASSUME [name |-> op[t].name, pw |-> op[t].pw] \in known[t] PROVE FALSE
  OBVIOUS
<1>1. /\ conductor[t] \in DOMAIN mem /\ known[t] \subseteq Accounts /\ here(t).name = op[t].name
      /\ conductor[t] = i[t] + 2
  BY FoundAt DEF Found, LoginPlace, LoggingIn
<1>2. PICK x \in Stored : [name |-> op[t].name, pw |-> op[t].pw] = AccountAt(x)
  BY <1>1 DEF Accounts
<1>3. x \in 2 .. Len(mem) /\ mem[x].name = op[t].name /\ mem[x].pw = op[t].pw /\ mem[x].name # None
  BY <1>2 DEF Stored, AccountAt, TypeInv, TypeOK, root_user
<1>4. conductor[t] \in 2 .. Len(mem)
  BY <1>1 DEF TypeInv, TypeOK
<1>5. conductor[t] = x
  BY <1>1, <1>3, <1>4 DEF OneInv, NamesDiffer, here
<1> QED BY <1>3, <1>5 DEF here

\* call, enrolled and lost of the directory, as UserList substitutes them.
calling == [t \in Threads |-> IF pc[t] = "idle" THEN None ELSE op[t]]
enrolling == [t \in Threads |-> pc[t] \in {"connfd", "login"}]
losing == [t \in Threads |-> pc[t] # "idle" /\ conductor[t] = Wild]

\* A step that leads no thread astray changes nobody's being lost.
LEMMA LosingStays ==
  ASSUME TypeInv, NEW t \in Threads,
         \A u \in Threads \ {t} : pc'[u] = pc[u] /\ conductor'[u] = conductor[u],
         pc[t] = "idle" \/ conductor[t] # Wild, pc'[t] = "idle" \/ conductor'[t] # Wild
  PROVE  losing' = losing
<1>1. \A u \in Threads :
        (pc'[u] # "idle" /\ conductor'[u] = Wild) = (pc[u] # "idle" /\ conductor[u] = Wild)
  <2> TAKE u \in Threads
  <2>1. CASE u = t
    <3>1. (pc'[t] # "idle" /\ conductor'[t] = Wild) = FALSE
      OBVIOUS
    <3>2. (pc[t] # "idle" /\ conductor[t] = Wild) = FALSE
      OBVIOUS
    <3> QED BY <2>1, <3>1, <3>2
  <2>2. CASE u # t
    BY <2>2
  <2> QED BY <2>1, <2>2
<1> QED BY <1>1, Zenon DEF losing

\* An answer of register_user or login_user is one that the directory may give.
LEMMA AnswerStep ==
  ASSUME TypeInv, TypeInv', OneInv, NEW t \in Threads, NEW a, Return(t, a), pc[t] # "idle",
         \A u \in Threads \ {t} : pc'[u] = pc[u] /\ conductor'[u] = conductor[u],
         up /\ up' = up /\ conductor[t] # Wild,
         Accounts' = Accounts,
         a \in {SUCCESS, NICK_NAME_IN_USE, USER_DOES_NOT_EXIST, WRONG_PW, OUT_OF_MEMORY},
         IF op[t].kind = "register" THEN Promise!MayAnswerRegister(t, a)
                                    ELSE Promise!MayAnswerLogin(t, a)
  PROVE  Promise!Next
<1>1. op[t] # None /\ calling[t] = op[t]
  BY NoneAssumption DEF TypeInv, InCall, Call, calling
<1>2. /\ pc' = [pc EXCEPT ![t] = "idle"] /\ answer' = [answer EXCEPT ![t] = a]
      /\ op' = op /\ known' = known
  BY DEF Return
<1>3. pc'[t] = "idle" /\ \A u \in Threads \ {t} : pc'[u] = pc[u]
  BY <1>2 DEF TypeInv, TypeOK
<1>4. calling' = [calling EXCEPT ![t] = None]
  BY <1>2, <1>3 DEF calling
<1>5. enrolling' = [enrolling EXCEPT ![t] = FALSE]
  <2>1. \A u \in Threads :
          (pc'[u] \in {"connfd", "login"}) = IF u = t THEN FALSE ELSE pc[u] \in {"connfd", "login"}
    <3> TAKE u \in Threads
    <3>1. CASE u = t
      <4>1. (pc'[t] \in {"connfd", "login"}) = FALSE
        BY <1>3
      <4> QED BY <3>1, <4>1
    <3>2. CASE u # t
      BY <1>3, <3>2
    <3> QED BY <3>1, <3>2
  <2> QED BY <2>1, Zenon DEF enrolling
<1>8. losing' = losing /\ ~ losing[t]
  BY <1>3, LosingStays DEF losing
<1>6. Promise!Answer(t, a)
  BY <1>1, <1>2, <1>4, <1>5, <1>8 DEF Promise!Answer, calling, enrolling, losing
<1>7. a \in {Promise!SUCCESS, Promise!NICK_NAME_IN_USE, Promise!USER_DOES_NOT_EXIST,
             Promise!WRONG_PW, Promise!OUT_OF_MEMORY}
  BY DEF SUCCESS, NICK_NAME_IN_USE, USER_DOES_NOT_EXIST, WRONG_PW, OUT_OF_MEMORY, Promise!SUCCESS,
         Promise!NICK_NAME_IN_USE, Promise!USER_DOES_NOT_EXIST, Promise!WRONG_PW,
         Promise!OUT_OF_MEMORY
<1> QED BY <1>6, <1>7 DEF Promise!Next

\* A step of a thread that leaves accounts and calls alone is none of the directory's.
LEMMA StutterStep ==
  ASSUME TypeInv, NEW t \in Threads, NEW l, l # "idle", Goto(t, l), pc[t] # "idle",
         \A u \in Threads \ {t} : conductor'[u] = conductor[u],
         up' = up /\ conductor[t] # Wild /\ conductor'[t] # Wild,
         l \in {"connfd", "login"} <=> pc[t] \in {"connfd", "login"}, Accounts' = Accounts
  PROVE  UNCHANGED Promise!dirVars
<1>1. /\ \A u \in Threads : pc'[u] = IF u = t THEN l ELSE pc[u]
      /\ op' = op /\ known' = known /\ answer' = answer
  BY DEF Goto, TypeInv, TypeOK
<1>2. calling' = calling
  BY <1>1 DEF calling
<1>3. \A u \in Threads : (pc'[u] \in {"connfd", "login"}) = (pc[u] \in {"connfd", "login"})
  <2> TAKE u \in Threads
  <2>1. CASE u = t
    <3>1. (l \in {"connfd", "login"}) = (pc[t] \in {"connfd", "login"})
      OBVIOUS
    <3> QED BY <1>1, <2>1, <3>1
  <2>2. CASE u # t
    BY <1>1, <2>2
  <2> QED BY <2>1, <2>2
<1>4. enrolling' = enrolling
  BY <1>3, Zenon DEF enrolling
<1>5. losing' = losing
  BY <1>1, LosingStays
<1> QED BY <1>1, <1>2, <1>4, <1>5 DEF Promise!dirVars, calling, enrolling, losing

\* A login that follows a pointer not set yet is lost, and a registration is running.
LEMMA LoseStep ==
  ASSUME TypeInv, OneInv, NEW t \in Threads, NEW u \in Threads, pc[t] \in LoggingIn,
         op[t].kind = "login", Goto(t, "match"), conductor'[t] = Wild, conductor[t] # Wild,
         \A v \in Threads \ {t} : pc'[v] = pc[v] /\ conductor'[v] = conductor[v],
         up /\ up' = up, Accounts' = Accounts, Fetching(u)
  PROVE  Promise!Next
<1>1. /\ \A v \in Threads : pc'[v] = IF v = t THEN "match" ELSE pc[v]
      /\ op' = op /\ known' = known /\ answer' = answer /\ pc[t] # "idle"
      /\ pc[t] \notin {"connfd", "login"}
  BY DEF Goto, TypeInv, TypeOK, LoggingIn
<1>2. calling' = calling
  BY <1>1 DEF calling
<1>3. enrolling' = enrolling
  <2>1. \A v \in Threads : (pc'[v] \in {"connfd", "login"}) = (pc[v] \in {"connfd", "login"})
    <3> TAKE v \in Threads
    <3>1. CASE v = t
      <4>1. (pc'[t] \in {"connfd", "login"}) = FALSE /\ (pc[t] \in {"connfd", "login"}) = FALSE
        BY <1>1
      <4> QED BY <3>1, <4>1
    <3>2. CASE v # t
      BY <1>1, <3>2
    <3> QED BY <3>1, <3>2
  <2> QED BY <2>1, Zenon DEF enrolling
<1>4. losing' = [losing EXCEPT ![t] = TRUE]
  <2>1. \A v \in Threads : (pc'[v] # "idle" /\ conductor'[v] = Wild)
                          = IF v = t THEN TRUE ELSE pc[v] # "idle" /\ conductor[v] = Wild
    <3> TAKE v \in Threads
    <3>1. CASE v = t
      <4>1. (pc'[t] # "idle" /\ conductor'[t] = Wild) = TRUE
        BY <1>1
      <4> QED BY <3>1, <4>1
    <3>2. CASE v # t
      BY <3>2
    <3> QED BY <3>1, <3>2
  <2> QED BY <2>1, Zenon DEF losing
<1>5. /\ calling[t] = op[t] /\ op[t] # None /\ op[t].kind # "register"
      /\ calling[u] = op[u] /\ op[u] # None /\ op[u].kind = "register"
  <2>1. pc[u] # "idle" /\ pc[u] # "match" /\ Registering(u)
    BY DEF Fetching, Registering, Appending, Filling
  <2>2. op[u].kind = "register"
    BY <2>1, FoundAt DEF Found, RegisterPlace
  <2>3. op[t] \in Call /\ op[u] \in Call
    BY <1>1, <2>1 DEF TypeInv, InCall
  <2> QED BY <1>1, <2>1, <2>2, <2>3, NoneAssumption DEF calling, Call
<1>6. Promise!Lose(t)
  BY <1>1, <1>2, <1>3, <1>4, <1>5
     DEF Promise!Lose, Promise!Registers, calling, enrolling, losing
<1> QED BY <1>6 DEF Promise!Next

\* A registration stays at nodes of the list.
LEMMA ReadsOrWrites ==
  ASSUME TypeInv, TypeInv', OneInv, NEW t \in Threads, RegisterStep(t)
  PROVE  pc'[t] = "idle" \/ conductor'[t] \in Nat
<1>1. Place(t)'
  BY RegisterReads, RegisterWrites DEF RegisterStep
<1>2. pc'[t] # "match"
  BY MoverOf DEF RegisterStep, compare, step, tail, advance, link, reload, clear, store_name,
     store_pw, store_connfd, store_login
<1>3. mem' \in Seq(Node)
  BY DEF TypeInv, TypeOK
<1> QED BY <1>1, <1>2, <1>3 DEF Place, Found, Lost

\* The steps of register_user: the store of the password enrols, the returns answer, and
\* no other step changes anything the directory speaks of.
LEMMA RegisterImplements ==
  ASSUME TypeInv, TypeInv', OneInv, NEW t \in Threads, RegisterStep(t)
  PROVE  Promise!Next \/ UNCHANGED Promise!dirVars
<1>0. /\ DOMAIN mem = 1 .. Len(mem) /\ Len(mem) \in Nat
      /\ pc[t] # "idle" /\ op[t] \in Call /\ op[t].kind = "register" /\ op[t].name # None
      /\ conductor[t] \in DOMAIN mem
  <2>1. pc[t] # "idle" /\ Registering(t) /\ conductor[t] \in DOMAIN mem
    BY DEF RegisterStep, compare, step, tail, advance, link, reload, clear, store_name, store_pw,
       store_connfd, store_login, At, Registering, Searching, Appending, Filling
  <2> QED BY <2>1, NoneAssumption, FoundAt
          DEF TypeInv, TypeOK, InCall, Found, RegisterPlace, Call
<1>1. /\ \A u \in Threads \ {t} : pc'[u] = pc[u] /\ conductor'[u] = conductor[u]
      /\ up /\ up' = up /\ conductor[t] # Wild
  <2>1. up /\ up' = up
    BY DEF RegisterStep, compare, step, tail, advance, link, reload, clear, store_name, store_pw,
       store_connfd, store_login, At
  <2> QED BY <1>0, <2>1, OthersStay DEF Wild
<1>14. pc'[t] = "idle" \/ conductor'[t] # Wild
  BY ReadsOrWrites DEF Wild
<1>2. ~ store_pw(t) => Accounts' = Accounts
  BY StepAccounts
<1>3. ASSUME ~ store_pw(t), NEW l, l # "idle", Goto(t, l),
             l \in {"connfd", "login"} <=> pc[t] \in {"connfd", "login"}
      PROVE  UNCHANGED Promise!dirVars
  <2>1. conductor'[t] # Wild
    BY <1>3, <1>14, MoverOf
  <2> QED BY <1>0, <1>1, <1>2, <1>3, <2>1, StutterStep
<1>4. ASSUME ~ store_pw(t), NEW a \in {SUCCESS, NICK_NAME_IN_USE, OUT_OF_MEMORY}, Return(t, a),
             Promise!MayAnswerRegister(t, a)
      PROVE  Promise!Next
  BY <1>0, <1>1, <1>2, <1>4, AnswerStep
<1>5. CASE compare(t)
  <2>1. pc[t] = "compare" /\ ~ store_pw(t)
    BY <1>5 DEF compare, store_pw, At
  <2>2. CASE here(t).name = op[t].name /\ Return(t, NICK_NAME_IN_USE)
    <3>1. conductor[t] \in 2 .. Len(mem) /\ mem[conductor[t]].name = op[t].name
      BY <1>0, <2>2 DEF OneInv, Blank, here, root_user
    <3>2. ~ \E u \in Threads : pc[u] = "pw"
      BY <2>1 DEF OneInv, OneRegistration, Registering, Searching, Filling
    <3>3. AccountAt(conductor[t]) \in Accounts
      BY <1>0, <3>1, <3>2, NamedNode
    <3>4. op[t].name \in Promise!Called(Accounts)
      BY <3>1, <3>3 DEF Promise!Called, AccountAt
    <3>5. Promise!MayAnswerRegister(t, NICK_NAME_IN_USE)
      BY <1>0, <2>1, <3>4 DEF Promise!MayAnswerRegister, Promise!NICK_NAME_IN_USE, NICK_NAME_IN_USE
    <3> QED BY <1>4, <2>1, <2>2, <3>5
  <2>3. CASE Goto(t, "step")
    BY <1>3, <2>1, <2>3
  <2> QED BY <1>5, <2>2, <2>3 DEF compare
<1>6. CASE step(t)
  <2>1. pc[t] = "step" /\ ~ store_pw(t)
    BY <1>6 DEF step, store_pw, At
  <2> QED BY <1>3, <1>6, <2>1 DEF step
<1>7. CASE tail(t) \/ advance(t)
  <2>1. pc[t] \in {"tail", "advance"} /\ ~ store_pw(t)
    BY <1>7 DEF tail, advance, store_pw, At
  <2> QED BY <1>3, <1>7, <2>1 DEF tail, advance
<1>8. CASE link(t)
  <2>1. pc[t] = "link" /\ ~ store_pw(t)
    BY <1>8 DEF link, store_pw, At
  <2> QED BY <1>3, <1>8, <2>1 DEF link
<1>9. CASE reload(t)
  <2>1. pc[t] = "reload" /\ ~ store_pw(t)
    BY <1>9 DEF reload, store_pw, At
  <2>2. Promise!MayAnswerRegister(t, OUT_OF_MEMORY)
    BY <2>1 DEF Promise!MayAnswerRegister, Promise!OUT_OF_MEMORY, OUT_OF_MEMORY
  <2> QED BY <1>3, <1>4, <1>9, <2>1, <2>2 DEF reload
<1>10. CASE clear(t) \/ store_name(t)
  <2>1. pc[t] \in {"clear", "name"} /\ ~ store_pw(t)
    BY <1>10 DEF clear, store_name, store_pw, At
  <2> QED BY <1>3, <1>10, <2>1 DEF clear, store_name
<1>11. CASE store_pw(t)
  <2>1. /\ pc[t] = "pw" /\ mem[Len(mem)].name = op[t].name /\ Len(mem) \in 2 .. Len(mem)
        /\ Len(mem) \notin Stored
    BY <1>11, NewNode
  <2>2. op[t].name \notin Promise!Called(Accounts)
    <3> SUFFICES ASSUME NEW x \in Stored, AccountAt(x).name = op[t].name PROVE FALSE
      BY DEF Accounts, Promise!Called
    <3>1. x \in 2 .. Len(mem) /\ mem[x].name = op[t].name
      BY <1>0 DEF Stored, AccountAt, root_user
    <3>2. x = Len(mem)
      BY <1>0, <2>1, <3>1 DEF OneInv, NamesDiffer
    <3> QED BY <2>1, <3>2
  <2>3. Accounts' = Accounts \cup {[name |-> op[t].name, pw |-> op[t].pw]}
    BY <1>11, StepAccounts
  <2>4. /\ \A u \in Threads : pc'[u] = IF u = t THEN "connfd" ELSE pc[u]
        /\ op' = op /\ known' = known /\ answer' = answer
    BY <1>11 DEF store_pw, Goto, TypeInv, TypeOK
  <2>5. calling' = calling /\ calling[t] = op[t] /\ op[t] # None
    BY <1>0, <2>1, <2>4, NoneAssumption DEF calling, Call
  <2>6. enrolling' = [enrolling EXCEPT ![t] = TRUE] /\ ~ enrolling[t]
    <3>1. \A u \in Threads :
            (pc'[u] \in {"connfd", "login"}) = IF u = t THEN TRUE ELSE pc[u] \in {"connfd", "login"}
      BY <2>4
    <3>2. enrolling' = [enrolling EXCEPT ![t] = TRUE]
      BY <3>1, Zenon DEF enrolling
    <3> QED BY <2>1, <3>2 DEF enrolling
  <2>8. losing' = losing
    BY <1>1, <1>14, LosingStays
  <2>7. Promise!Enrol(t)
    BY <1>0, <1>1, <2>2, <2>3, <2>4, <2>5, <2>6, <2>8
       DEF Promise!Enrol, Promise!Registers, Promise!AccountOf, calling, enrolling, losing
  <2> QED BY <2>7 DEF Promise!Next
<1>12. CASE store_connfd(t)
  <2>1. pc[t] = "connfd" /\ ~ store_pw(t)
    BY <1>12 DEF store_connfd, store_pw, At
  <2> QED BY <1>3, <1>12, <2>1 DEF store_connfd
<1>13. CASE store_login(t)
  <2>1. pc[t] = "login" /\ ~ store_pw(t)
    BY <1>13 DEF store_login, store_pw, At
  <2>2. Promise!MayAnswerRegister(t, SUCCESS)
    BY <2>1 DEF Promise!MayAnswerRegister, Promise!SUCCESS, SUCCESS
  <2> QED BY <1>4, <1>13, <2>1, <2>2 DEF store_login
<1> QED BY <1>5, <1>6, <1>7, <1>8, <1>9, <1>10, <1>11, <1>12, <1>13 DEF RegisterStep

\* The steps of login_user: each return is an answer the directory may give, whatever has
\* been registered since the call began.
LEMMA LoginImplements ==
  ASSUME TypeInv, TypeInv', OneInv, Seen, NEW t \in Threads, LoginStep(t)
  PROVE  Promise!Next \/ UNCHANGED Promise!dirVars
<1> DEFINE c == conductor[t]
<1>0. /\ DOMAIN mem = 1 .. Len(mem) /\ Len(mem) \in Nat /\ c \in DOMAIN mem
      /\ pc[t] \in LoggingIn /\ pc[t] # "idle" /\ op[t].kind = "login" /\ op[t] \in Call
      /\ LoginPlace(t) /\ op[t].name # None /\ op[t].pw # None
  <2>1. pc[t] \in LoggingIn /\ pc[t] # "idle" /\ c \in DOMAIN mem
    BY DEF LoginStep, first, match, skip, password, online, connect, At, LoggingIn
  <2> QED BY <2>1, NoneAssumption, FoundAt DEF TypeInv, TypeOK, InCall, Found, LoginPlace, Call
<1>1. /\ \A u \in Threads \ {t} : pc'[u] = pc[u] /\ conductor'[u] = conductor[u]
      /\ up /\ up' = up /\ conductor[t] # Wild
  <2>1. up /\ up' = up
    BY DEF LoginStep, first, match, skip, password, online, connect, At
  <2> QED BY <1>0, <2>1, OthersStay DEF Wild
<1>2. Accounts' = Accounts
  <2>1. ~ store_pw(t)
    BY <1>0 DEF store_pw, At, LoggingIn
  <2> QED BY <2>1, StepAccounts
<1>3. \/ mem[c].next = Wild /\ \E u \in Threads : Fetching(u)
      \/ mem[c].next = IF c = Len(mem) THEN Null ELSE c + 1
  BY <1>0, LoginNext
<1>4. ASSUME NEW l, l \notin {"idle", "connfd", "login"}, Goto(t, l), conductor'[t] # Wild
      PROVE  UNCHANGED Promise!dirVars
  BY <1>0, <1>1, <1>2, <1>4, StutterStep DEF LoggingIn
<1>14. ASSUME Goto(t, "match"), conductor'[t] = mem[c].next, mem[c].next # Null
       PROVE  Promise!Next \/ UNCHANGED Promise!dirVars
  <2>1. CASE mem[c].next # Wild
    BY <1>4, <1>14, <2>1
  <2>2. CASE mem[c].next = Wild
    <3>1. PICK u \in Threads : Fetching(u)
      BY <1>0, <1>3, <2>2 DEF Wild, Null
    <3> QED BY <1>0, <1>1, <1>2, <1>14, <2>2, <3>1, LoseStep
  <2> QED BY <2>1, <2>2
<1>5. ASSUME NEW a \in {SUCCESS, USER_DOES_NOT_EXIST, WRONG_PW}, Return(t, a),
             Promise!MayAnswerLogin(t, a)
      PROVE  Promise!Next
  <2>1. op[t].kind # "register"
    BY <1>0
  <2> QED BY <1>0, <1>1, <1>2, <1>5, <2>1, AnswerStep
<1>6. calling[t] = op[t]
  BY <1>0 DEF calling
<1>7. ASSUME Passed(t, Len(mem)) PROVE Promise!MayAnswerLogin(t, USER_DOES_NOT_EXIST)
  <2>1. op[t].name \notin Promise!Called(known[t])
    BY <1>0, <1>7, NotKnown
  <2> QED BY <1>6, <2>1
          DEF Promise!MayAnswerLogin, Promise!USER_DOES_NOT_EXIST, USER_DOES_NOT_EXIST, calling
<1>8. CASE first(t)
  <2>1. CASE here(t).next = Null /\ Return(t, USER_DOES_NOT_EXIST)
    <3>1. Len(mem) = 1
      BY <1>0, <1>3, <1>8, <2>1 DEF first, At, LoginPlace, here, root_user, Null, Wild
    <3>2. Passed(t, Len(mem))
      BY <3>1 DEF Passed
    <3> QED BY <1>5, <1>7, <2>1, <3>2
  <2>2. CASE mem[c].next # Null /\ Goto(t, "match") /\ Follow(t, mem[c].next)
    BY <1>14, <2>2, MoverOf
  <2> QED BY <1>8, <2>1, <2>2 DEF first, here
<1>9. CASE match(t)
  BY <1>1, <1>4, <1>9 DEF match
<1>10. CASE skip(t)
  <2>1. Passed(t, c) /\ c = i[t] + 2 /\ i[t] \in Nat
    BY <1>0, <1>10 DEF skip, At, LoginPlace, LoggingIn, TypeInv, TypeOK
  <2>2. CASE mem[c].next # Null /\ Goto(t, "match") /\ Follow(t, mem[c].next)
    BY <1>14, <2>2, MoverOf
  <2>3. CASE (here(t).next = Null \/ ~ More(t)) /\ Return(t, USER_DOES_NOT_EXIST)
    <3>1. c = Len(mem)
      <4>1. CASE here(t).next = Null
        BY <1>0, <1>3, <4>1 DEF here, Null, Wild
      <4>2. CASE ~ More(t)
        BY <1>0, <2>1, <4>2, BoundsAssumption DEF More, Seen
      <4> QED BY <2>3, <4>1, <4>2
    <3> QED BY <1>5, <1>7, <2>1, <2>3, <3>1
  <2> QED BY <1>10, <2>2, <2>3 DEF skip, here
<1>11. CASE password(t)
  <2>1. pc[t] = "password" /\ here(t).name = op[t].name /\ c = i[t] + 2 /\ i[t] \in Nat
    BY <1>0, <1>11 DEF password, At, LoginPlace, LoggingIn, TypeInv, TypeOK
  <2>2. CASE Goto(t, "online") /\ UNCHANGED conductor
    BY <1>1, <1>4, <2>2
  <2>3. CASE here(t).pw # op[t].pw /\ Return(t, WRONG_PW)
    <3>1. [name |-> op[t].name, pw |-> op[t].pw] \notin known[t]
      BY <2>1, <2>3, NotKnownPassword
    <3>2. c \in 2 .. Len(mem) /\ mem[c].name = op[t].name
      BY <1>0, <2>1 DEF here
    <3>3. \/ op[t].name \in Promise!Called(Accounts)
          \/ \E u \in Threads : /\ calling[u] # None /\ calling[u].kind = "register"
                                /\ calling[u].name = op[t].name
      <4>1. CASE c \in Stored /\ AccountAt(c) \in Accounts
        BY <3>2, <4>1 DEF Promise!Called, AccountAt
      <4>2. CASE \E u \in Threads : /\ pc[u] = "pw" /\ op[u].kind = "register"
                                    /\ op[u].name = mem[c].name
        <5>1. PICK u \in Threads : pc[u] = "pw" /\ op[u].kind = "register" /\ op[u].name = mem[c].name
          BY <4>2
        <5>2. calling[u] = op[u] /\ op[u] # None
          BY <5>1, NoneAssumption DEF calling, TypeInv, InCall, Call
        <5> QED BY <3>2, <5>1, <5>2
      <4> QED BY <1>0, <3>2, <4>1, <4>2, NamedNode
    <3>4. Promise!MayAnswerLogin(t, WRONG_PW)
      BY <1>6, <3>1, <3>3 DEF Promise!MayAnswerLogin, Promise!Registers, Promise!AccountOf,
                              Promise!WRONG_PW, WRONG_PW, calling
    <3> QED BY <1>5, <2>3, <3>4
  <2> QED BY <1>11, <2>2, <2>3 DEF password
<1>12. CASE online(t)
  BY <1>1, <1>4, <1>12 DEF online
<1>13. CASE connect(t)
  <2>1. /\ mem[c].name = op[t].name /\ mem[c].pw = op[t].pw /\ c = i[t] + 2 /\ i[t] \in Nat
        /\ Return(t, SUCCESS)
    BY <1>0, <1>13 DEF connect, At, LoginPlace, LoggingIn, here, TypeInv, TypeOK
  <2>2. c \in Stored
    BY <1>0, <2>1 DEF Stored, root_user
  <2>3. [name |-> op[t].name, pw |-> op[t].pw] \in Accounts
    BY <2>1, <2>2 DEF Accounts, AccountAt
  <2>4. Promise!MayAnswerLogin(t, SUCCESS)
    BY <1>6, <2>3 DEF Promise!MayAnswerLogin, Promise!AccountOf, Promise!SUCCESS, SUCCESS, calling
  <2> QED BY <1>5, <2>1, <2>4
<1> QED BY <1>8, <1>9, <1>10, <1>11, <1>12, <1>13 DEF LoginStep

\* Every step of one registration at a time is a step of the directory or none.
LEMMA PromiseStep ==
  TypeInv /\ TypeInv' /\ OneInv /\ Seen /\ [Next /\ OneRegistration']_vars
    => [Promise!Next]_(Promise!dirVars)
<1> SUFFICES ASSUME TypeInv, TypeInv', OneInv, Seen, [Next /\ OneRegistration']_vars
             PROVE  Promise!Next \/ UNCHANGED Promise!dirVars
  OBVIOUS
<1>1. CASE UNCHANGED vars
  BY <1>1 DEF vars, threadVars, Promise!dirVars, Accounts, Stored, AccountAt
<1>2. ASSUME NEW t \in Threads, stray(t) PROVE Promise!Next
  <2>1. up /\ up' = FALSE /\ UNCHANGED <<mem, threadVars>> /\ pc[t] # "idle"
    BY <1>2 DEF stray
  <2>2. conductor[t] = Wild
    BY <1>2 DEF stray, OneInv, Place, Found, Lost
  <2>3. Accounts' = Accounts /\ calling' = calling /\ enrolling' = enrolling /\ losing' = losing
    BY <2>1 DEF threadVars, Accounts, Stored, AccountAt, calling, enrolling, losing
  <2>4. losing[t]
    BY <2>1, <2>2 DEF losing
  <2>5. Promise!Crash(t)
    BY <2>1, <2>3, <2>4 DEF Promise!Crash, threadVars, calling, enrolling, losing
  <2> QED BY <2>5 DEF Promise!Next
<1>3. ASSUME NEW t \in Threads, NEW o \in Call, request(t, o) PROVE Promise!Next
  <2>1. /\ pc[t] = "idle" /\ UNCHANGED mem
        /\ \A u \in Threads :
             pc'[u] = IF u = t THEN (IF o.kind = "register" THEN "compare" ELSE "first") ELSE pc[u]
        /\ op' = [op EXCEPT ![t] = o] /\ answer' = [answer EXCEPT ![t] = None]
        /\ known' = [known EXCEPT ![t] = Accounts]
        /\ up /\ up' = up /\ conductor'[t] # Wild
        /\ \A u \in Threads \ {t} : pc'[u] = pc[u] /\ conductor'[u] = conductor[u]
    BY <1>3 DEF request, Follow, TypeInv, TypeOK, root_user, Wild
  <2>2. calling[t] = None
    BY <2>1 DEF calling
  <2>3. calling' = [calling EXCEPT ![t] = o]
    BY <2>1 DEF calling, TypeInv, TypeOK
  <2>4. \A u \in Threads : (pc'[u] \in {"connfd", "login"}) = (pc[u] \in {"connfd", "login"})
    <3> TAKE u \in Threads
    <3>1. CASE u = t
      <4>1. (pc'[t] \in {"connfd", "login"}) = FALSE /\ (pc[t] \in {"connfd", "login"}) = FALSE
        BY <2>1
      <4> QED BY <3>1, <4>1
    <3>2. CASE u # t
      BY <2>1, <3>2
    <3> QED BY <3>1, <3>2
  <2>5. enrolling' = enrolling
    BY <2>4, Zenon DEF enrolling
  <2>6. Accounts' = Accounts
    BY <2>1 DEF Accounts, Stored, AccountAt
  <2>8. losing' = losing
    BY <2>1, LosingStays
  <2>7. Promise!Begin(t, o)
    BY <2>1, <2>2, <2>3, <2>5, <2>6, <2>8 DEF Promise!Begin, calling, enrolling, losing
  <2> QED BY <2>7 DEF Promise!Next, Promise!Call, Call
<1>4. CASE Next
  BY <1>2, <1>3, <1>4, RegisterImplements, LoginImplements DEF Next, Run
<1> QED BY <1>1, <1>4

\* register_user and login_user keep the promise of a directory of accounts, each call
\* taking effect at one moment, whatever the memory that malloc hands out held before, as
\* long as no two registrations overlap and there are no more users than the search loop
\* of login_user counts to (MAX_USER_COUNT): logins may come at any step of a
\* registration, and nothing but a login beside a registration ends the server.
THEOREM OneAtATimeImplementsDirectory == OneAtATimeSpec /\ []Seen => ImplementsDirectory
<1>1. Init => Promise!Init
  <2> SUFFICES ASSUME Init PROVE Promise!Init
    OBVIOUS
  <2>1. Accounts = {}
    <3>1. mem = <<Fresh(Null)>>
      BY DEF Init
    <3> QED BY <3>1 DEF Accounts, Stored, root_user
  <2>2. enrolling = [t \in Threads |-> FALSE]
    <3>1. \A t \in Threads : (pc[t] \in {"connfd", "login"}) = FALSE
      <4> TAKE t \in Threads
      <4>1. pc[t] = "idle"
        BY DEF Init
      <4> QED BY <4>1
    <3> QED BY <3>1, Zenon DEF enrolling
  <2>3. calling = [t \in Threads |-> None]
    BY DEF Init, calling
  <2>4. losing = [t \in Threads |-> FALSE]
    <3>1. \A t \in Threads : (pc[t] # "idle" /\ conductor[t] = Wild) = FALSE
      <4> TAKE t \in Threads
      <4>1. pc[t] = "idle"
        BY DEF Init
      <4> QED BY <4>1
    <3> QED BY <3>1, Zenon DEF losing
  <2> QED BY <2>1, <2>2, <2>3, <2>4 DEF Init, Promise!Init, enrolling, calling, losing
<1>2. [Next /\ OneRegistration']_vars => [Next]_vars
  OBVIOUS
<1>3. TypeInv /\ TypeInv' /\ OneInv /\ [Next /\ OneRegistration']_vars => OneInv'
  BY OneNext
<1>4. TypeInv /\ TypeInv' /\ OneInv /\ Seen /\ [Next /\ OneRegistration']_vars
        => [Promise!Next]_(Promise!dirVars)
  BY PromiseStep
<1> QED BY <1>1, <1>2, <1>3, <1>4, TypeInit, TypeStep, OneInit, PTL
        DEF OneAtATimeSpec, ImplementsDirectory, Promise!Spec

===============================================================================
