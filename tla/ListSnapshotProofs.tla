-------------------------- MODULE ListSnapshotProofs --------------------------
(* Proofs about ListSnapshot, for every number of threads, names and memory. *)
(* The list they walk over is that of UserListProofs.                        *)
EXTENDS ListSnapshot, UserListProofs

-------------------------------------------------------------------------------
(* The invariant: the list                                                 *)

\* No two nodes have the same pointer (register_user links only what malloc has just
\* returned).
OnePointer ==
  \A x, y \in DOMAIN mem : mem[x].next = mem[y].next => x = y \/ mem[x].next \in {Null, Wild}

Named(x) == mem[x].name \in Names

\* A registration is about to store the name of node x.
Awaited(x) ==
  \E t \in Threads :
    \/ pc[t] = "reload" /\ conductor[t] \in DOMAIN mem /\ mem[conductor[t]].next = x
    \/ pc[t] \in {"clear", "name"} /\ conductor[t] = x

\* A node without a name gets one, or is not in the list.
NamesCome ==
  \A x \in DOMAIN mem \ {root_user} :
    Named(x) \/ Awaited(x) \/ \A y \in DOMAIN mem : mem[y].next # x

\* S was the list when no registration ran.
Stands(S) ==
  /\ S \subseteq Nat /\ \A x \in S \ {root_user} : Named(x)
  /\ \E n \in Nat : Firm(S, n)

-------------------------------------------------------------------------------
(* The invariant: the walks                                                *)

WalkTypes ==
  /\ id \in {"SHOW_USERS", "SHOW_CHAT_ROOMS"} /\ pass \in {1, 2}
  /\ at \in {"idle", "next", "name", "end", "send"}
  /\ cursor \in {Wild} \cup Nat /\ {needed, location} \subseteq Nat /\ shows \in Nat
  /\ DOMAIN counted \subseteq Nat /\ \A x \in DOMAIN counted : counted[x] \in 0 .. needed
  /\ DOMAIN ends \subseteq Nat /\ \A x \in DOMAIN ends : ends[x] \in Nat
  /\ at = "name" => cursor # root_user

\* What is counted behind a node: nothing yet behind the root.
Behind1(x) == IF x = root_user THEN 0 ELSE counted[x]
Size(x) == Length[mem[x].name]
Slack == IF id = "SHOW_USERS" THEN 1 ELSE 0

\* The walk has passed the nodes in D, and goes on.
Ahead(D) == cursor # Wild => \A y \in D : y < cursor \/ (at = "next" /\ y = cursor)
Current(y) == (at = "next" /\ cursor = y) \/ (at = "name" /\ cursor = mem[y].next)
Followed(S, D) ==
  \A y \in S : y \in D \cup {root_user} /\ mem[y].next \in S => mem[y].next \in D \/ Current(y)
Past(S, D) == (at \in {"next", "name"} => Ahead(D) /\ Followed(S, D)) /\
              (at \in {"end", "send"} => S \ {root_user} \subseteq D)

\* A walk through S adds up the sizes.
Chain(S) ==
  \A y \in S : mem[y].next \in S \cap DOMAIN counted =>
    /\ y \in DOMAIN counted \cup {root_user}
    /\ counted[mem[y].next] = Behind1(y) + Size(mem[y].next) + LineSize(id)

First(S) ==
  /\ DOMAIN ends = {} /\ location = 0 /\ Past(S, DOMAIN counted)
  /\ at = "next" /\ cursor \in S => cursor \in DOMAIN counted \cup {root_user} /\ needed = Behind1(cursor)
  /\ at = "name" /\ cursor \in S =>
       \A y \in S : mem[y].next = cursor =>
         y \in DOMAIN counted \cup {root_user} /\ needed = Behind1(y)

Second(S) ==
  /\ at # "send" /\ S \ {root_user} \subseteq DOMAIN counted /\ Past(S, DOMAIN ends)
  /\ at = "next" /\ cursor \in S => cursor \in DOMAIN ends \cup {root_user} /\ location <= Behind1(cursor)
  /\ at = "name" /\ cursor \in S =>
       \A y \in S : mem[y].next = cursor =>
         y \in DOMAIN ends \cup {root_user} /\ location <= Behind1(y)

\* What is copied of S fits in what was counted.
Fits(S) ==
  \A x \in S \cap DOMAIN ends :
    ends[x] + Slack <= needed /\ (at # "idle" => x \in DOMAIN counted /\ ends[x] + Slack <= counted[x])

Walk(S, n) ==
  /\ at \in {"next", "name"} => cursor \in S \/ Behind(n, cursor)
  /\ at # "idle" => Chain(S) /\ IF pass = 1 THEN First(S) ELSE Second(S)
  /\ at = "send" => needed = 0
  /\ root_user \notin DOMAIN counted /\ \A x \in S \cap DOMAIN counted : counted[x] >= 1
  /\ Fits(S) /\ KnownAreListed

IInv ==
  /\ TypeInv /\ LinksGoForward /\ OnePointer /\ NamesCome /\ WalkTypes
  /\ \E S \in SUBSET Nat : standing = S /\ Stands(S)
  /\ shows = 0 => at = "idle" /\ DOMAIN ends = {}
  /\ shows > 0 =>
       \E S \in SUBSET Nat : before = S /\ Stands(S) /\ \E n \in Nat : Firm(S, n) /\ Walk(S, n)

-------------------------------------------------------------------------------
(* The list                                                                *)

\* The types of what the threads are at.
LEMMA ListTypes ==
  ASSUME TypeInv
  PROVE  /\ mem \in Seq(Node) /\ DOMAIN mem = 1 .. Len(mem) /\ Len(mem) \in Nat /\ root_user \in DOMAIN mem
         /\ \A x \in DOMAIN mem : mem[x] \in Node
         /\ pc \in [Threads -> {"idle"} \cup Searching \cup Appending \cup Filling \cup LoggingIn]
         /\ conductor \in [Threads -> {Null, Wild} \cup Nat]
BY DEF TypeInv, TypeOK

\* A node linked behind another is a new one, and takes the place of what was there
\* (register_user).
LEMMA LinkEffects ==
  ASSUME TypeInv, NEW t \in Threads, link(t)
  PROVE  /\ conductor[t] \in DOMAIN mem /\ pc[t] = "link" /\ pc'[t] = "reload"
         /\ conductor' = conductor
         /\ \A x \in DOMAIN mem : x # conductor[t] => mem'[x] = mem[x]
         /\ mem'[conductor[t]].name = mem[conductor[t]].name
         /\ \/ DOMAIN mem' = DOMAIN mem /\ mem'[conductor[t]].next = Null
            \/ /\ DOMAIN mem' = 1 .. (Len(mem) + 1)
               /\ mem'[conductor[t]].next = Len(mem) + 1
               /\ mem'[Len(mem) + 1].next \in {Null, Wild}
<1> DEFINE c == conductor[t]
<1>1. /\ mem \in Seq(Node) /\ DOMAIN mem = 1 .. Len(mem) /\ Len(mem) \in Nat /\ c \in DOMAIN mem
      /\ mem[c] \in Node /\ pc[t] = "link" /\ pc'[t] = "reload" /\ conductor' = conductor
  BY ListTypes DEF link, At, Goto
<1>2. \A p \in {Null, Wild} \cup Nat :
        LET m == [mem EXCEPT ![c].next = p] IN
        /\ m \in Seq(Node) /\ Len(m) = Len(mem) /\ DOMAIN m = DOMAIN mem
        /\ m[c].name = mem[c].name /\ m[c].next = p
        /\ \A x \in DOMAIN mem : x # c => m[x] = mem[x]
  <2> SUFFICES ASSUME NEW p \in {Null, Wild} \cup Nat
               PROVE  LET m == [mem EXCEPT ![c].next = p] IN
                      /\ m \in Seq(Node) /\ Len(m) = Len(mem) /\ DOMAIN m = DOMAIN mem
                      /\ m[c].name = mem[c].name /\ m[c].next = p
                      /\ \A x \in DOMAIN mem : x # c => m[x] = mem[x]
    OBVIOUS
  <2>1. /\ [mem[c] EXCEPT !.next = p] \in Node
        /\ [mem[c] EXCEPT !.next = p].name = mem[c].name
        /\ [mem[c] EXCEPT !.next = p].next = p
    BY <1>1 DEF Node
  <2> QED BY <1>1, <2>1
<1>3. CASE mem' = [mem EXCEPT ![c].next = Null]
  BY <1>1, <1>2, <1>3
<1>4. CASE \E x \in FreshNext : mem' = Append([mem EXCEPT ![c].next = Len(mem) + 1], Fresh(x))
  <2>1. PICK x \in FreshNext : mem' = Append([mem EXCEPT ![c].next = Len(mem) + 1], Fresh(x))
    BY <1>4
  <2> DEFINE m == [mem EXCEPT ![c].next = Len(mem) + 1]
  <2>2. /\ m \in Seq(Node) /\ Len(m) = Len(mem) /\ DOMAIN m = DOMAIN mem
        /\ m[c].name = mem[c].name /\ m[c].next = Len(mem) + 1
        /\ \A y \in DOMAIN mem : y # c => m[y] = mem[y]
    BY <1>1, <1>2
  <2>3. mem' = Append(m, Fresh(x)) /\ Fresh(x) \in Node /\ Fresh(x).next \in {Null, Wild}
    BY <2>1, FreshType, FreshNextAssumption DEF Fresh
  <2> HIDE DEF m
  <2>4. /\ DOMAIN mem' = 1 .. (Len(mem) + 1) /\ mem'[Len(mem) + 1] = Fresh(x)
        /\ \A y \in 1 .. Len(mem) : mem'[y] = m[y]
    BY <1>1, <2>2, <2>3
  <2> QED BY <1>1, <2>2, <2>3, <2>4
<1> QED BY <1>3, <1>4 DEF link

\* What is known of the nodes that a registration has still to fill stays true.
LEMMA PointerStep ==
  ASSUME TypeInv, TypeInv', LinksGoForward, OnePointer, NamesCome, NEW t \in Threads,
         RegisterStep(t) \/ LoginStep(t) \/ stray(t) \/ \E o \in Call : request(t, o)
  PROVE  OnePointer' /\ NamesCome'
<1> DEFINE c == conductor[t]
<1>0. /\ mem \in Seq(Node) /\ DOMAIN mem = 1 .. Len(mem) /\ Len(mem) \in Nat /\ root_user \in DOMAIN mem
      /\ \A x \in DOMAIN mem : mem[x] \in Node
      /\ pc \in [Threads -> {"idle"} \cup Searching \cup Appending \cup Filling \cup LoggingIn]
      /\ conductor \in [Threads -> {Null, Wild} \cup Nat]
  BY ListTypes
<1>1. \A u \in Threads \ {t} : pc'[u] = pc[u] /\ conductor'[u] = conductor[u]
  BY OthersStay
<1>2. CASE link(t)
  <2>1. /\ c \in DOMAIN mem /\ pc[t] = "link" /\ pc'[t] = "reload" /\ conductor' = conductor
        /\ \A x \in DOMAIN mem : x # c => mem'[x] = mem[x]
        /\ mem'[c].name = mem[c].name
        /\ \/ DOMAIN mem' = DOMAIN mem /\ mem'[c].next = Null
           \/ /\ DOMAIN mem' = 1 .. (Len(mem) + 1)
              /\ mem'[c].next = Len(mem) + 1
              /\ mem'[Len(mem) + 1].next \in {Null, Wild}
    BY <1>2, LinkEffects
  <2>2. \A x \in DOMAIN mem : mem[x].next \in {Null, Wild} \cup (2 .. Len(mem))
    BY <1>0 DEF LinksGoForward
  <2>3. OnePointer'
    <3> SUFFICES ASSUME NEW x \in DOMAIN mem', NEW y \in DOMAIN mem',
                        mem'[x].next = mem'[y].next, x # y
                 PROVE  mem'[x].next \in {Null, Wild}
      BY DEF OnePointer, Null, Wild
    <3>1. CASE DOMAIN mem' = DOMAIN mem /\ mem'[c].next = Null
      <4>1. CASE x = c \/ y = c
        BY <3>1, <4>1
      <4>2. CASE x # c /\ y # c
        BY <2>1, <3>1, <4>2 DEF OnePointer
      <4> QED BY <4>1, <4>2
    <3>2. CASE /\ DOMAIN mem' = 1 .. (Len(mem) + 1) /\ mem'[c].next = Len(mem) + 1
               /\ mem'[Len(mem) + 1].next \in {Null, Wild}
      <4>1. \A z \in DOMAIN mem' \ {c} : mem'[z].next \in {Null, Wild} \cup (2 .. Len(mem))
        <5> SUFFICES ASSUME NEW z \in DOMAIN mem', z # c
                     PROVE  mem'[z].next \in {Null, Wild} \cup (2 .. Len(mem))
          OBVIOUS
        <5>1. CASE z \in DOMAIN mem
          BY <2>1, <2>2, <5>1
        <5>2. CASE z = Len(mem) + 1
          BY <3>2, <5>2
        <5> QED BY <1>0, <3>2, <5>1, <5>2
      <4>2. x # c /\ y # c
        BY <1>0, <3>2, <4>1 DEF Null, Wild
      <4>3. CASE x \in DOMAIN mem /\ y \in DOMAIN mem
        BY <2>1, <4>2, <4>3 DEF OnePointer
      <4>4. CASE x = Len(mem) + 1 \/ y = Len(mem) + 1
        BY <3>2, <4>4
      <4> QED BY <1>0, <3>2, <4>3, <4>4
    <3> QED BY <2>1, <3>1, <3>2
  <2>4. NamesCome'
    <3> SUFFICES ASSUME NEW x \in DOMAIN mem', x # root_user
                 PROVE  Named(x)' \/ Awaited(x)' \/ \A y \in DOMAIN mem' : mem'[y].next # x
      BY DEF NamesCome, root_user
    <3>1. CASE x \notin DOMAIN mem
      <4>1. mem'[c].next = x
        BY <1>0, <2>1, <3>1
      <4>2. c \in DOMAIN mem'
        BY <1>0, <2>1
      <4> QED BY <2>1, <4>1, <4>2 DEF Awaited
    <3>2. CASE x \in DOMAIN mem /\ Named(x)
      BY <2>1, <3>2 DEF Named
    <3>3. CASE x \in DOMAIN mem /\ \A y \in DOMAIN mem : mem[y].next # x
      BY <1>0, <2>1, <3>3 DEF Null, Wild
    <3>4. CASE x \in DOMAIN mem /\ Awaited(x)
      <4>1. PICK u \in Threads :
              \/ pc[u] = "reload" /\ conductor[u] \in DOMAIN mem /\ mem[conductor[u]].next = x
              \/ pc[u] \in {"clear", "name"} /\ conductor[u] = x
        BY <3>4 DEF Awaited
      <4>2. u # t
        BY <2>1, <4>1
      <4>3. CASE pc[u] \in {"clear", "name"} \/ conductor[u] # c
        <5>1. conductor[u] \in DOMAIN mem => conductor[u] \in DOMAIN mem'
          BY <1>0, <2>1
        <5> QED BY <1>1, <2>1, <4>1, <4>2, <4>3, <5>1 DEF Awaited
      <4>4. CASE conductor[u] = c /\ mem[c].next = x
        <5>1. \A y \in DOMAIN mem : y # c => mem[y].next # x
          BY <1>0, <2>1, <3>4, <4>4 DEF OnePointer, Null, Wild
        <5> QED BY <1>0, <2>1, <3>4, <5>1 DEF Null, Wild
      <4> QED BY <4>1, <4>3, <4>4
    <3> QED BY <1>0, <3>1, <3>2, <3>3, <3>4 DEF NamesCome
  <2> QED BY <2>3, <2>4
<1>3. CASE reload(t)
  <2>1. /\ mem' = mem /\ pc[t] = "reload"
        /\ mem[c].next # Null => pc'[t] = "clear" /\ conductor'[t] = mem[c].next
    BY <1>0, <1>3 DEF reload, Appended, here, At, Goto, Follow
  <2>2. ASSUME NEW x \in DOMAIN mem, Awaited(x) PROVE Awaited(x)'
    <3>1. PICK u \in Threads :
            \/ pc[u] = "reload" /\ conductor[u] \in DOMAIN mem /\ mem[conductor[u]].next = x
            \/ pc[u] \in {"clear", "name"} /\ conductor[u] = x
      BY <2>2 DEF Awaited
    <3>2. x # Null
      BY <1>0 DEF Null
    <3> QED BY <1>1, <2>1, <3>1, <3>2 DEF Awaited
  <2> QED BY <2>1, <2>2 DEF OnePointer, NamesCome, Named
<1>4. CASE clear(t)
  <2>1. /\ c \in DOMAIN mem /\ pc[t] = "clear" /\ pc'[t] = "name" /\ conductor' = conductor
        /\ DOMAIN mem' = DOMAIN mem /\ \A x \in DOMAIN mem : x # c => mem'[x] = mem[x]
        /\ mem'[c].name = mem[c].name /\ mem'[c].next = Null
    BY <1>0, <1>4 DEF clear, Store, Cleared, here, At, Goto, Node
  <2>2. OnePointer'
    BY <2>1 DEF OnePointer, Null
  <2>3. NamesCome'
    <3> SUFFICES ASSUME NEW x \in DOMAIN mem, x # root_user
                 PROVE  Named(x)' \/ Awaited(x)' \/ \A y \in DOMAIN mem : mem'[y].next # x
      BY <2>1 DEF NamesCome, root_user
    <3>1. CASE Named(x)
      BY <2>1, <3>1 DEF Named
    <3>2. CASE \A y \in DOMAIN mem : mem[y].next # x
      BY <1>0, <2>1, <3>2 DEF Null
    <3>3. CASE Awaited(x)
      <4>1. PICK u \in Threads :
              \/ pc[u] = "reload" /\ conductor[u] \in DOMAIN mem /\ mem[conductor[u]].next = x
              \/ pc[u] \in {"clear", "name"} /\ conductor[u] = x
        BY <3>3 DEF Awaited
      <4>2. CASE pc[u] \in {"clear", "name"} /\ conductor[u] = x
        BY <1>1, <2>1, <4>2 DEF Awaited
      <4>3. CASE pc[u] = "reload" /\ conductor[u] \in DOMAIN mem /\ mem[conductor[u]].next = x
        <5>1. u # t
          BY <2>1, <4>3
        <5>2. CASE conductor[u] # c
          BY <1>1, <2>1, <4>3, <5>1, <5>2 DEF Awaited
        <5>3. CASE conductor[u] = c
          <6>1. \A y \in DOMAIN mem : y # c => mem[y].next # x
            BY <1>0, <2>1, <4>3, <5>3 DEF OnePointer, Null, Wild
          <6> QED BY <1>0, <2>1, <6>1 DEF Null
        <5> QED BY <5>2, <5>3
      <4> QED BY <4>1, <4>2, <4>3
    <3> QED BY <3>1, <3>2, <3>3 DEF NamesCome
  <2> QED BY <2>2, <2>3
<1>5. CASE store_name(t)
  <2>0. op[t].name \in Names
    BY <1>5 DEF store_name, At, TypeInv, InCall, Call
  <2>1. /\ c \in DOMAIN mem /\ pc[t] = "name"
        /\ DOMAIN mem' = DOMAIN mem /\ \A x \in DOMAIN mem : x # c => mem'[x] = mem[x]
        /\ mem'[c].name \in Names /\ mem'[c].next = mem[c].next
    BY <1>0, <1>5, <2>0 DEF store_name, Store, here, At, Node
  <2>2. \A x \in DOMAIN mem : (Named(x) => Named(x)') /\ mem'[x].next = mem[x].next
    BY <2>1 DEF Named
  <2>3. ASSUME NEW x \in DOMAIN mem, Awaited(x) PROVE Named(x)' \/ Awaited(x)'
    <3>1. PICK u \in Threads :
            \/ pc[u] = "reload" /\ conductor[u] \in DOMAIN mem /\ mem[conductor[u]].next = x
            \/ pc[u] \in {"clear", "name"} /\ conductor[u] = x
      BY <2>3 DEF Awaited
    <3>2. CASE u = t
      BY <2>1, <3>1, <3>2 DEF Named
    <3>3. CASE u # t
      BY <1>1, <2>1, <2>2, <3>1, <3>3 DEF Awaited
    <3> QED BY <3>2, <3>3
  <2>4. OnePointer'
    BY <2>1, <2>2 DEF OnePointer
  <2>5. NamesCome'
    <3> SUFFICES ASSUME NEW x \in DOMAIN mem, x # root_user
                 PROVE  Named(x)' \/ Awaited(x)' \/ \A y \in DOMAIN mem : mem'[y].next # x
      BY <2>1 DEF NamesCome, root_user
    <3> QED BY <2>2, <2>3 DEF NamesCome
  <2> QED BY <2>4, <2>5
<1>6. CASE ~ (link(t) \/ reload(t) \/ clear(t) \/ store_name(t))
  <2>1. /\ DOMAIN mem' = DOMAIN mem
        /\ \A x \in DOMAIN mem : mem'[x].name = mem[x].name /\ mem'[x].next = mem[x].next
    <3>1. CASE mem' = mem
      BY <3>1
    <3>2. CASE store_pw(t) \/ store_connfd(t) \/ store_login(t) \/ online(t) \/ connect(t)
      <4>1. c \in DOMAIN mem
        BY <3>2 DEF store_pw, store_connfd, store_login, online, connect, At
      <4>2. PICK n : /\ mem' = [mem EXCEPT ![c] = n]
                     /\ n.name = mem[c].name /\ n.next = mem[c].next
        BY <1>0, <3>2, <4>1 DEF store_pw, store_connfd, store_login, online, connect, Store, here, Node
      <4> QED BY <1>0, <4>1, <4>2
    <3> QED BY <1>6, <3>1, <3>2 DEF RegisterStep, LoginStep, compare, step, tail, advance, first,
            match, skip, password, stray, request
  <2>2. pc[t] \notin {"reload", "clear", "name"} \/ (stray(t) /\ pc' = pc /\ conductor' = conductor)
    BY <1>6 DEF RegisterStep, LoginStep, compare, step, tail, advance, store_pw, store_connfd,
            store_login, first, match, skip, password, online, connect, stray, request, At, threadVars
  <2>3. ASSUME NEW x \in DOMAIN mem, Awaited(x) PROVE Awaited(x)'
    <3>1. PICK u \in Threads :
            \/ pc[u] = "reload" /\ conductor[u] \in DOMAIN mem /\ mem[conductor[u]].next = x
            \/ pc[u] \in {"clear", "name"} /\ conductor[u] = x
      BY <2>3 DEF Awaited
    <3>2. pc'[u] = pc[u] /\ conductor'[u] = conductor[u]
      BY <1>1, <2>2, <3>1
    <3> QED BY <2>1, <3>1, <3>2 DEF Awaited
  <2>4. OnePointer'
    BY <2>1 DEF OnePointer
  <2>5. NamesCome'
    <3> SUFFICES ASSUME NEW x \in DOMAIN mem, x # root_user
                 PROVE  Named(x)' \/ Awaited(x)' \/ \A y \in DOMAIN mem : mem'[y].next # x
      BY <2>1 DEF NamesCome, root_user
    <3> QED BY <2>1, <2>3 DEF NamesCome, Named
  <2> QED BY <2>4, <2>5
<1> QED BY <1>2, <1>3, <1>4, <1>5, <1>6

\* When no registration runs every node of the list has its name.
LEMMA SettledStands ==
  TypeInv /\ LinksGoForward /\ NamesCome /\ (~ \E t \in Threads : Registering(t)) => Stands(List)
<1> SUFFICES ASSUME TypeInv, LinksGoForward, NamesCome, ~ \E t \in Threads : Registering(t)
             PROVE  Stands(List)
  OBVIOUS
<1>0. mem \in Seq(Node) /\ DOMAIN mem = 1 .. Len(mem) /\ Len(mem) \in Nat /\ root_user \in DOMAIN mem
  BY ListTypes
<1>1. /\ List \in SUBSET DOMAIN mem /\ root_user \in List
      /\ \A x \in List : mem[x].next \in List \cup {Null, Wild}
      /\ \A S \in SUBSET DOMAIN mem :
           root_user \in S /\ (\A y \in S : mem[y].next \in S \cup {Null, Wild}) => List \subseteq S
  BY <1>0, ListIsLeast
<1>2. CoreNodes(List, Len(mem))
  BY <1>0, ListIsCore
<1>3. \A t \in Threads : OutsideCore(List, Len(mem), t)
  BY DEF OutsideCore, Registering, Appending
<1>4. ASSUME NEW x \in List \ {root_user} PROVE Named(x)
  <2>1. ~ Awaited(x)
    BY DEF Awaited, Registering, Appending, Filling
  <2>2. ASSUME \A y \in DOMAIN mem : mem[y].next # x PROVE FALSE
    <3>1. List \ {x} \in SUBSET DOMAIN mem /\ root_user \in List \ {x}
      BY <1>1
    <3>2. \A y \in List \ {x} : mem[y].next \in (List \ {x}) \cup {Null, Wild}
      BY <1>1, <2>2
    <3>3. List \subseteq List \ {x}
      BY <1>1, <3>1, <3>2
    <3> QED BY <3>3
  <2> QED BY <1>1, <2>1, <2>2 DEF NamesCome
<1> QED BY <1>0, <1>1, <1>2, <1>3, <1>4 DEF Stands, Firm

\* What stood stands after any step of a thread.
LEMMA StandsStep ==
  ASSUME TypeInv, TypeInv', LinksGoForward, NEW S, Stands(S), NEW t \in Threads,
         RegisterStep(t) \/ LoginStep(t) \/ stray(t) \/ \E o \in Call : request(t, o)
  PROVE  Stands(S)'
<1>1. PICK n \in Nat : Firm(S, n)
  BY DEF Stands
<1>2. Firm(S, n)' /\ SameNodes(S, n)
  BY <1>1, FirmStep
<1>3. \A x \in S \ {root_user} : Named(x)'
  BY <1>2 DEF SameNodes, Stands, Named
<1>4. \A x \in (S \ {root_user})' : Named(x)'
  BY <1>3 DEF root_user
<1> QED BY <1>2, <1>4 DEF Stands

-------------------------------------------------------------------------------
(* The walks                                                               *)

\* The nodes of a list that stands: their names, and how they hang together.
LEMMA Standing ==
  ASSUME TypeInv, LinksGoForward, NEW n, NEW S, Firm(S, n), Stands(S)
  PROVE  /\ DOMAIN mem = 1 .. Len(mem) /\ Len(mem) \in Nat /\ n \in 0 .. Len(mem)
         /\ S \subseteq 1 .. n /\ root_user \in S
         /\ \A x \in S : ~ Behind(n, x) /\ (mem[x].next \in S \/ Behind(n, mem[x].next))
         /\ \A x \in S \ {root_user} : Size(x) \in Nat \ {0} /\ strlen(x) = {Size(x)}
         /\ \A x \in S \ {root_user} : \E y \in S : mem[y].next = x
         /\ \A T \in SUBSET S :
              root_user \in T /\ (\A y \in T : mem[y].next \in S => mem[y].next \in T) => S \subseteq T
<1>1. DOMAIN mem = 1 .. Len(mem) /\ Len(mem) \in Nat
  BY ListTypes
<1>2. /\ n \in 0 .. Len(mem) /\ S \subseteq 1 .. n /\ root_user \in S
      /\ \A x \in S : mem[x].next \in S \/ Behind(n, mem[x].next)
  BY DEF Firm, CoreNodes
<1>3. \A x \in S : ~ Behind(n, x)
  BY <1>1, <1>2 DEF Behind, Null, Wild
<1>4. \A x \in S \ {root_user} : Size(x) \in Nat \ {0} /\ strlen(x) = {Size(x)}
  BY LengthAssumption DEF Stands, Named, Size, strlen
<1>5. \A T \in SUBSET S :
        root_user \in T /\ (\A y \in T : mem[y].next \in S => mem[y].next \in T) => S \subseteq T
  BY DEF Firm, CoreNodes, Connected
<1>6. ASSUME NEW x \in S \ {root_user}, \A y \in S : mem[y].next # x PROVE FALSE
  <2>1. S \ {x} \in SUBSET S /\ root_user \in S \ {x}
    BY <1>2
  <2>2. S \subseteq S \ {x}
    BY <1>5, <1>6, <2>1
  <2> QED BY <2>2
<1> QED BY <1>1, <1>2, <1>3, <1>4, <1>5, <1>6

\* The walks see nothing of what the other threads do to a list that stands.
LEMMA OthersKeepWalk ==
  ASSUME TypeInv, LinksGoForward, NEW n, NEW S, Firm(S, n), Stands(S), SameNodes(S, n), Walk(S, n),
         UNCHANGED showVars
  PROVE  Walk(S, n)'
<1>1. /\ pass' = pass /\ at' = at /\ cursor' = cursor /\ needed' = needed /\ location' = location
      /\ counted' = counted /\ ends' = ends /\ answer_names' = answer_names
      /\ id' = id /\ before' = before /\ shows' = shows
  BY DEF showVars, walkVars
<1>2. \A x \in S : ~ Behind(n, x)
  BY Standing
<1>3. \A y \in S : /\ mem'[y].name = mem[y].name
                   /\ mem'[y].next \in S <=> mem[y].next \in S
                   /\ mem[y].next \in S => mem'[y].next = mem[y].next
  BY <1>2 DEF SameNodes
<1>4. Chain(S) => Chain(S)'
  BY <1>1, <1>3 DEF Chain, Behind1, Size, LineSize, root_user
<1>5. First(S) => First(S)'
  <2>1. Past(S, DOMAIN counted) => Past(S, DOMAIN counted)'
    BY <1>1, <1>3 DEF Past, Ahead, Followed, Current, root_user
  <2> QED BY <1>1, <1>3, <2>1 DEF First, Behind1, root_user
<1>6. Second(S) => Second(S)'
  <2>1. Past(S, DOMAIN ends) => Past(S, DOMAIN ends)'
    BY <1>1, <1>3 DEF Past, Ahead, Followed, Current, root_user
  <2> QED BY <1>1, <1>3, <2>1 DEF Second, Behind1, root_user
<1>7. Fits(S)' /\ KnownAreListed'
  BY <1>1 DEF Walk, Fits, Slack, KnownAreListed, root_user
<1> QED BY <1>1, <1>4, <1>5, <1>6, <1>7 DEF Walk, Behind, root_user

\* A step of a walk leaves the list alone.
LEMMA ReadsFrame ==
  ASSUME TypeInv, LinksGoForward, OnePointer, NamesCome, NEW S \in SUBSET Nat, Stands(S),
         UNCHANGED <<mem, threadVars, settled>>, up' \in BOOLEAN
  PROVE  /\ TypeInv' /\ LinksGoForward' /\ OnePointer' /\ NamesCome' /\ Stands(S)'
         /\ \A n \in Nat : Firm(S, n) => Firm(S, n)'
<1>1. /\ mem' = mem /\ settled' = settled /\ pc' = pc /\ op' = op /\ conductor' = conductor
      /\ i' = i /\ answer' = answer /\ calls' = calls /\ known' = known
  BY DEF threadVars
<1>2. TypeInv'
  BY <1>1 DEF TypeInv, TypeOK, InCall, root_user
<1>3. LinksGoForward' /\ OnePointer'
  BY <1>1 DEF LinksGoForward, OnePointer, Null, Wild
<1>4. NamesCome'
  BY <1>1 DEF NamesCome, Named, Awaited, root_user
<1>5. ASSUME NEW n \in Nat, Firm(S, n) PROVE Firm(S, n)'
  <2>1. CoreNodes(S, n)'
    BY <1>1, <1>5 DEF Firm, CoreNodes, Connected, Behind, root_user
  <2>2. \A t \in Threads : OutsideCore(S, n, t)'
    BY <1>1, <1>5 DEF Firm, OutsideCore, Behind
  <2> QED BY <2>1, <2>2 DEF Firm
<1>6. \A x \in S \ {root_user} : Named(x)'
  BY <1>1 DEF Stands, Named
<1>7. \A x \in (S \ {root_user})' : Named(x)'
  BY <1>6 DEF root_user
<1> QED BY <1>2, <1>3, <1>4, <1>5, <1>7 DEF Stands

\* Where a walk goes on is behind everything that it has passed, and at its end it has
\* passed what stands.
LEMMA NextKeepsWalk ==
  ASSUME TypeInv, LinksGoForward, OnePointer, WalkTypes, NEW n, NEW S, Firm(S, n), Stands(S),
         Walk(S, n), next
  PROVE  WalkTypes' /\ Walk(S, n)'
<1>1. /\ DOMAIN mem = 1 .. Len(mem) /\ Len(mem) \in Nat /\ n \in 0 .. Len(mem)
      /\ S \subseteq 1 .. n /\ root_user \in S
      /\ \A x \in S : ~ Behind(n, x) /\ (mem[x].next \in S \/ Behind(n, mem[x].next))
      /\ \A T \in SUBSET S :
           root_user \in T /\ (\A y \in T : mem[y].next \in S => mem[y].next \in T) => S \subseteq T
  BY Standing
<1>2. /\ at = "next" /\ cursor \in DOMAIN mem /\ mem' = mem /\ pass' = pass /\ needed' = needed
      /\ location' = location /\ counted' = counted /\ ends' = ends /\ id' = id /\ before' = before
      /\ shows' = shows /\ answer_names' = answer_names
  BY DEF next, Reads, vars
<1>3. mem[cursor].next \in {Null, Wild} \cup ((cursor + 1) .. Len(mem))
  BY <1>2 DEF LinksGoForward
<1>4. Chain(S) /\ Chain(S)' /\ Fits(S)'
  BY <1>1, <1>2 DEF Walk, Chain, Fits, Behind1, Size, Slack, LineSize, root_user
<1>5. CASE mem[cursor].next = Null /\ at' = "end" /\ cursor' = cursor
  <2>1. WalkTypes'
    BY <1>2, <1>5 DEF WalkTypes
  <2>2. ASSUME NEW D, Past(S, D) PROVE S \ {root_user} \subseteq D
    <3> DEFINE T == S \cap (D \cup {root_user})
    <3>1. T \in SUBSET S /\ root_user \in T
      BY <1>1
    <3>2. \A y \in T : mem[y].next \in S => mem[y].next \in T
      BY <1>1, <1>2, <1>5, <2>2 DEF Past, Followed, Current, Behind, Null
    <3> HIDE DEF T
    <3>3. S \subseteq T
      BY <1>1, <3>1, <3>2
    <3> QED BY <3>3 DEF T
  <2>3. pass = 1 => First(S)'
    <3>1. pass = 1 => First(S) /\ S \ {root_user} \subseteq DOMAIN counted
      BY <1>2, <2>2 DEF Walk, First
    <3> QED BY <1>2, <1>5, <3>1 DEF First, Past, root_user
  <2>4. pass # 1 => Second(S)'
    <3>1. pass # 1 => Second(S) /\ S \ {root_user} \subseteq DOMAIN ends
      BY <1>2, <2>2 DEF Walk, Second
    <3> QED BY <1>2, <1>5, <3>1 DEF Second, Past, root_user
  <2> QED BY <1>2, <1>4, <1>5, <2>1, <2>3, <2>4 DEF Walk, KnownAreListed, root_user
<1>6. CASE mem[cursor].next # Null /\ at' = "name" /\ cursor' = mem[cursor].next
  <2>1. cursor \in Nat /\ cursor >= 1 /\ (cursor' # Wild => cursor' > cursor) /\ cursor' \in {Wild} \cup Nat
    BY <1>1, <1>2, <1>3, <1>6
  <2>2. WalkTypes'
    BY <1>2, <1>6, <2>1 DEF WalkTypes, Wild, root_user
  <2>3. cursor' \in S \/ Behind(n, cursor')
    BY <1>1, <1>2, <1>6, <2>1 DEF Walk, Behind, Null, Wild
  <2>4. \A y \in S : mem[y].next = cursor' /\ cursor' \in S => y = cursor
    BY <1>1, <1>2, <1>6 DEF OnePointer, Null, Wild
  <2>5. ASSUME NEW D \in SUBSET Nat, Past(S, D)
        PROVE  /\ cursor' # Wild => \A y \in D : y < cursor'
               /\ \A y \in S : y \in D \cup {root_user} /\ mem[y].next \in S =>
                    mem[y].next \in D \/ cursor' = mem[y].next
    <3>1. cursor # Wild
      BY <2>1 DEF Wild
    <3> QED BY <1>2, <1>6, <2>1, <2>5, <3>1 DEF Past, Ahead, Followed, Current
  <2>6. pass = 1 => First(S)'
    <3> SUFFICES ASSUME pass = 1 PROVE First(S)'
      OBVIOUS
    <3>1. First(S) /\ DOMAIN counted \in SUBSET Nat
      BY <1>2 DEF Walk, WalkTypes
    <3>2. Past(S, DOMAIN counted)'
      BY <1>2, <1>6, <2>5, <3>1 DEF First, Past, Ahead, Followed, Current, root_user, Wild
    <3>3. \A y \in S : mem[y].next = cursor' /\ cursor' \in S =>
            y \in DOMAIN counted \cup {root_user} /\ needed = Behind1(y)
      BY <1>2, <2>4, <3>1 DEF First
    <3> QED BY <1>2, <1>6, <3>1, <3>2, <3>3 DEF First, Behind1, root_user
  <2>7. pass # 1 => Second(S)'
    <3> SUFFICES ASSUME pass # 1 PROVE Second(S)'
      OBVIOUS
    <3>1. Second(S) /\ DOMAIN ends \in SUBSET Nat
      BY <1>2 DEF Walk, WalkTypes
    <3>2. Past(S, DOMAIN ends)'
      BY <1>2, <1>6, <2>5, <3>1 DEF Second, Past, Ahead, Followed, Current, root_user, Wild
    <3>3. \A y \in S : mem[y].next = cursor' /\ cursor' \in S =>
            y \in DOMAIN ends \cup {root_user} /\ location <= Behind1(y)
      BY <1>2, <2>4, <3>1 DEF Second
    <3> QED BY <1>2, <1>6, <3>1, <3>2, <3>3 DEF Second, Behind1, root_user
  <2> QED BY <1>2, <1>4, <1>6, <2>2, <2>3, <2>6, <2>7 DEF Walk, KnownAreListed, Behind, root_user
<1> QED BY <1>5, <1>6 DEF next

\* What is counted behind a node is what is counted behind the one before it, its name
\* and the end of its line.
LEMMA CountKeepsWalk ==
  ASSUME TypeInv, LinksGoForward, WalkTypes, NEW n, NEW S, Firm(S, n), Stands(S), Walk(S, n), count
  PROVE  WalkTypes' /\ Walk(S, n)'
<1>1. /\ DOMAIN mem = 1 .. Len(mem) /\ Len(mem) \in Nat /\ n \in 0 .. Len(mem)
      /\ S \subseteq 1 .. n /\ root_user \in S /\ \A x \in S : ~ Behind(n, x)
      /\ \A x \in S \ {root_user} : Size(x) \in Nat \ {0} /\ strlen(x) = {Size(x)}
  BY Standing
<1>2. /\ at = "name" /\ pass = 1 /\ cursor \in DOMAIN mem /\ at' = "next" /\ mem' = mem
      /\ pass' = pass /\ cursor' = cursor /\ location' = location /\ ends' = ends /\ id' = id
      /\ before' = before /\ shows' = shows /\ answer_names' = answer_names
      /\ counted' = Put(counted, cursor, needed')
  BY DEF count, Reads, vars
<1>3. PICK k \in strlen(cursor) : needed' = needed + k + LineSize(id)
  BY DEF count
<1>4. k \in Nat /\ LineSize(id) \in Nat \ {0} /\ needed \in Nat /\ needed' \in Nat /\ needed' >= needed + k + 1
  <2>1. k \in Nat
    <3>1. Length \in [Names -> Nat \ {0}] /\ Garbage \subseteq Nat
      BY LengthAssumption
    <3> QED BY <1>2, <1>3, <3>1 DEF strlen
  <2> QED BY <1>3, <2>1 DEF LineSize, WalkTypes
<1>5. /\ DOMAIN counted' = DOMAIN counted \cup {cursor} /\ counted'[cursor] = needed'
      /\ \A x \in DOMAIN counted \ {cursor} : counted'[x] = counted[x]
  BY <1>2 DEF Put
<1>6. First(S) /\ Chain(S) /\ cursor # root_user /\ cursor \in Nat /\ root_user \notin DOMAIN counted
  BY <1>1, <1>2 DEF Walk, WalkTypes
<1>7. \A y \in DOMAIN counted : y \in Nat /\ y < cursor
  BY <1>2, <1>6 DEF First, Past, Ahead, WalkTypes, Wild
<1>8. WalkTypes'
  <2>1. \A x \in DOMAIN counted' : counted'[x] \in 0 .. needed'
    <3>1. \A x \in DOMAIN counted : counted[x] \in 0 .. needed'
      BY <1>4 DEF WalkTypes
    <3> QED BY <1>4, <1>5, <3>1
  <2> QED BY <1>2, <1>4, <1>5, <1>6, <2>1 DEF WalkTypes
<1>9. Chain(S)'
  <2> SUFFICES ASSUME NEW y \in S, mem[y].next \in S, mem[y].next \in DOMAIN counted'
               PROVE  /\ y \in DOMAIN counted' \cup {root_user}
                      /\ counted'[mem[y].next] = Behind1(y)' + Size(mem[y].next) + LineSize(id)
    BY <1>2 DEF Chain, Size, LineSize, root_user
  <2>0. mem[y].next > y
    BY <1>1 DEF LinksGoForward, Behind
  <2>1. CASE mem[y].next = cursor
    <3>1. y \in DOMAIN counted \cup {root_user} /\ needed = Behind1(y) /\ y # cursor
      BY <1>1, <1>2, <1>6, <2>0, <2>1 DEF First
    <3>2. k = Size(cursor) /\ Behind1(y)' = Behind1(y)
      BY <1>1, <1>3, <1>5, <1>6, <2>1, <3>1 DEF Behind1, root_user
    <3> QED BY <1>3, <1>5, <2>1, <3>1, <3>2
  <2>2. CASE mem[y].next # cursor
    <3>1. mem[y].next \in DOMAIN counted
      BY <1>5, <2>2
    <3>2. y \in DOMAIN counted \cup {root_user} /\ y # cursor
      BY <1>1, <1>6, <1>7, <2>0, <3>1 DEF Chain
    <3>3. Behind1(y)' = Behind1(y)
      BY <1>5, <1>6, <3>2 DEF Behind1, root_user
    <3> QED BY <1>5, <1>6, <2>2, <3>1, <3>2, <3>3 DEF Chain
  <2> QED BY <2>1, <2>2
<1>10. Past(S, DOMAIN counted)'
  BY <1>2, <1>5, <1>6, <1>7 DEF First, Past, Ahead, Followed, Current, root_user
<1>11. First(S)'
  BY <1>2, <1>5, <1>6, <1>10 DEF First, Behind1, root_user
<1>12. \A x \in S \cap DOMAIN counted' : counted'[x] >= 1
  <2>1. cursor \in S => needed' >= 1
    BY <1>1, <1>3, <1>4, <1>6
  <2> QED BY <1>5, <2>1 DEF Walk
<1>13. Fits(S)'
  BY <1>2, <1>6 DEF First, Fits
<1> QED BY <1>2, <1>5, <1>6, <1>8, <1>9, <1>11, <1>12, <1>13 DEF Walk, KnownAreListed, Behind, root_user

\* What is copied behind a node is not more than what was counted, without the last 0 of a
\* user's name.
LEMMA CopyKeepsWalk ==
  ASSUME TypeInv, LinksGoForward, WalkTypes, NEW n, NEW S, Firm(S, n), Stands(S), Walk(S, n), copy
  PROVE  WalkTypes' /\ Walk(S, n)'
<1>1. /\ DOMAIN mem = 1 .. Len(mem) /\ Len(mem) \in Nat /\ n \in 0 .. Len(mem)
      /\ S \subseteq 1 .. n /\ root_user \in S /\ \A x \in S : ~ Behind(n, x)
      /\ \A x \in S \ {root_user} : Size(x) \in Nat \ {0} /\ strlen(x) = {Size(x)}
      /\ \A x \in S \ {root_user} : \E y \in S : mem[y].next = x
  BY Standing
<1>2. /\ at = "name" /\ pass = 2 /\ cursor \in DOMAIN mem /\ at' = "next" /\ mem' = mem
      /\ pass' = pass /\ cursor' = cursor /\ needed' = needed /\ counted' = counted /\ id' = id
      /\ before' = before /\ shows' = shows /\ answer_names' = answer_names
      /\ ends' = Put(ends, cursor, location')
  BY DEF copy, Reads, vars
<1>3. PICK k \in strlen(cursor) : location' = location + k + 1
  BY DEF copy
<1>4. k \in Nat /\ location \in Nat /\ location' \in Nat /\ needed \in Nat
  <2>1. k \in Nat
    <3>1. Length \in [Names -> Nat \ {0}] /\ Garbage \subseteq Nat
      BY LengthAssumption
    <3> QED BY <1>2, <1>3, <3>1 DEF strlen
  <2> QED BY <1>3, <2>1 DEF WalkTypes
<1>5. /\ DOMAIN ends' = DOMAIN ends \cup {cursor} /\ ends'[cursor] = location'
      /\ \A x \in DOMAIN ends \ {cursor} : ends'[x] = ends[x]
  BY <1>2 DEF Put
<1>6. Second(S) /\ Chain(S) /\ cursor # root_user /\ cursor \in Nat
  BY <1>1, <1>2 DEF Walk, WalkTypes
<1>7. \A y \in DOMAIN ends : y \in Nat /\ y < cursor
  BY <1>2, <1>6 DEF Second, Past, Ahead, WalkTypes, Wild
<1>8. WalkTypes'
  BY <1>2, <1>4, <1>5, <1>6 DEF WalkTypes
<1>9. cursor \in S => /\ cursor \in DOMAIN counted /\ location' + Slack <= counted[cursor]
                      /\ counted[cursor] <= needed /\ counted[cursor] \in Nat
  <2> SUFFICES ASSUME cursor \in S
               PROVE  /\ cursor \in DOMAIN counted /\ location' + Slack <= counted[cursor]
                      /\ counted[cursor] <= needed /\ counted[cursor] \in Nat
    OBVIOUS
  <2>1. cursor \in DOMAIN counted /\ counted[cursor] \in 0 .. needed
    BY <1>6 DEF Second, WalkTypes
  <2>2. PICK y \in S : mem[y].next = cursor
    BY <1>1, <1>6
  <2>3. location <= Behind1(y) /\ counted[cursor] = Behind1(y) + Size(cursor) + LineSize(id)
    BY <1>2, <1>6, <2>1, <2>2 DEF Second, Chain
  <2>4. Behind1(y) \in Nat
    BY <1>6, <2>1, <2>2 DEF Behind1, Chain, WalkTypes
  <2>5. k = Size(cursor) /\ LineSize(id) >= Slack + 1 /\ Slack \in Nat /\ LineSize(id) \in Nat
    BY <1>1, <1>3, <1>6 DEF WalkTypes, LineSize, Slack
  <2> QED BY <1>3, <1>4, <2>1, <2>3, <2>4, <2>5
<1>10. Chain(S)'
  BY <1>2, <1>6 DEF Chain, Behind1, Size, LineSize, root_user
<1>11. Past(S, DOMAIN ends)'
  BY <1>2, <1>5, <1>6, <1>7 DEF Second, Past, Ahead, Followed, Current, root_user
<1>12. cursor \in S => location' <= Behind1(cursor)
  <2>1. Slack \in Nat
    BY DEF Slack
  <2> QED BY <1>4, <1>6, <1>9, <2>1 DEF Behind1
<1>13. Second(S)'
  BY <1>2, <1>5, <1>6, <1>11, <1>12 DEF Second, Behind1, root_user
<1>14. Fits(S)'
  <2>1. Fits(S) /\ Slack' = Slack /\ Slack \in Nat
    BY <1>2 DEF Walk, Slack
  <2>2. cursor \in S => location' + Slack <= needed
    <3>1. \A a, b, c, d \in Nat : a + b <= c /\ c <= d => a + b <= d
      OBVIOUS
    <3> QED BY <1>4, <1>9, <2>1, <3>1
  <2> QED BY <1>2, <1>5, <1>9, <2>1, <2>2 DEF Fits
<1> QED BY <1>2, <1>6, <1>8, <1>10, <1>13, <1>14 DEF Walk, KnownAreListed, Behind, root_user

\* The second walk begins where the first did.
LEMMA AllocateKeepsWalk ==
  ASSUME TypeInv, LinksGoForward, WalkTypes, NEW n, NEW S, Firm(S, n), Stands(S), Walk(S, n), allocate
  PROVE  WalkTypes' /\ Walk(S, n)'
<1>1. root_user \in S /\ \A x \in S : x \in Nat
  BY Standing
<1>2. /\ at = "end" /\ pass = 1 /\ mem' = mem /\ needed' = needed /\ location' = location
      /\ counted' = counted /\ ends' = ends /\ id' = id
      /\ before' = before /\ shows' = shows /\ answer_names' = answer_names
  BY DEF allocate, Reads, vars
<1>3. First(S) /\ Chain(S) /\ S \ {root_user} \subseteq DOMAIN counted
  BY <1>2 DEF Walk, First, Past
<1>4. Chain(S)' /\ Fits(S)'
  BY <1>2, <1>3 DEF First, Fits, Chain, Behind1, Size, LineSize, root_user
<1>5. CASE needed = 0 /\ at' = "send" /\ pass' = pass /\ cursor' = cursor
  <2>1. WalkTypes'
    BY <1>2, <1>5 DEF WalkTypes
  <2>2. First(S)'
    BY <1>2, <1>3, <1>5 DEF First, Past, root_user
  <2> QED BY <1>2, <1>4, <1>5, <2>1, <2>2 DEF Walk, KnownAreListed, root_user
<1>6. CASE needed # 0 /\ at' = "next" /\ pass' = 2 /\ cursor' = root_user
  <2>1. WalkTypes'
    BY <1>2, <1>6 DEF WalkTypes, root_user
  <2>2. Past(S, DOMAIN ends)'
    BY <1>2, <1>3, <1>6 DEF First, Past, Ahead, Followed, Current, root_user
  <2>3. Second(S)'
    BY <1>2, <1>3, <1>6, <2>2 DEF First, Second, Behind1, root_user
  <2> QED BY <1>1, <1>2, <1>4, <1>6, <2>1, <2>3 DEF Walk, KnownAreListed, Behind, root_user
<1> QED BY <1>5, <1>6 DEF allocate, StartOver

\* The number sent is the one meant if it is below the modulus.
LEMMA Truncated ==
  ASSUME NEW k \in Nat
  PROVE  k < Modulus => htons(k) = k
<1>1. Modulus \in Nat \ {0}
  BY ShowBoundsAssumption
<1> QED BY <1>1 DEF htons

\* The answer has the names that stand.
LEMMA SendKeepsWalk ==
  ASSUME TypeInv, LinksGoForward, WalkTypes, NEW n, NEW S, before = S, Firm(S, n), Stands(S),
         Walk(S, n), send
  PROVE  WalkTypes' /\ Walk(S, n)'
<1>1. /\ at = "send" \/ (at = "end" /\ pass = 2)
      /\ at' = "idle" /\ mem' = mem /\ pass' = pass /\ cursor' = cursor /\ needed' = needed
      /\ location' = location /\ counted' = counted /\ ends' = ends /\ id' = id
      /\ before' = before /\ shows' = shows
      /\ answer_names' = {x \in DOMAIN ends : ends[x] <= htons(needed)}
  BY DEF send, Reads, vars
<1>2. WalkTypes'
  BY <1>1 DEF WalkTypes
<1>3. KnownAreListed'
  <2> SUFFICES ASSUME needed < Modulus, NEW x \in S, x # root_user
               PROVE  x \in answer_names'
    BY <1>1 DEF KnownAreListed, root_user
  <2>1. needed \in Nat /\ htons(needed) = needed
    BY Truncated DEF WalkTypes
  <2>2. CASE at = "send"
    <3>1. needed = 0 /\ x \in DOMAIN counted /\ counted[x] >= 1
      BY <2>2 DEF Walk, First, Second, Past
    <3> QED BY <3>1 DEF WalkTypes
  <2>3. CASE at = "end" /\ pass = 2
    <3>1. x \in DOMAIN ends /\ ends[x] + Slack <= needed /\ ends[x] \in Nat
      BY <2>3 DEF Walk, Second, Past, Fits, WalkTypes
    <3>2. Slack \in Nat
      BY DEF Slack
    <3>3. ends[x] <= needed
      BY <2>1, <3>1, <3>2
    <3> QED BY <1>1, <2>1, <3>1, <3>3
  <2> QED BY <1>1, <2>2, <2>3
<1>4. Fits(S)'
  BY <1>1 DEF Walk, Fits, Slack
<1> QED BY <1>1, <1>2, <1>3, <1>4 DEF Walk, root_user

\* A request begins with nothing passed.
LEMMA ShowStartsWalk ==
  ASSUME TypeInv, LinksGoForward, WalkTypes, NEW n, NEW S, Firm(S, n), Stands(S), show
  PROVE  WalkTypes' /\ Walk(S, n)'
<1>1. root_user \in S /\ \A x \in S : x \in Nat
  BY Standing
<1>2. /\ pass' = 1 /\ at' = "next" /\ cursor' = root_user /\ needed' = 0 /\ location' = 0 /\ mem' = mem
      /\ DOMAIN counted' = {} /\ DOMAIN ends' = {} /\ shows' = shows + 1
      /\ id' \in {"SHOW_USERS", "SHOW_CHAT_ROOMS"}
  BY DEF show, Nothing, vars
<1>3. WalkTypes'
  BY <1>2 DEF WalkTypes, root_user
<1>4. Past(S, DOMAIN counted)'
  BY <1>2 DEF Past, Ahead, Followed, Current, root_user
<1>5. First(S)' /\ Chain(S)' /\ Fits(S)'
  BY <1>2, <1>4 DEF First, Chain, Fits, Behind1, root_user
<1> QED BY <1>1, <1>2, <1>3, <1>5 DEF Walk, KnownAreListed, Behind, root_user

-------------------------------------------------------------------------------
(* The invariant holds                                                     *)

LEMMA InitInv == ShowInit => IInv
<1> SUFFICES ASSUME ShowInit PROVE IInv
  OBVIOUS
<1>1. TypeInv /\ LinksGoForward
  <2>1. mem = <<Fresh(Null)>> /\ Fresh(Null).next = Null
    BY DEF ShowInit, Init, Fresh
  <2> QED BY <2>1, TypeInit DEF ShowInit, LinksGoForward
<1>2. OnePointer /\ NamesCome
  BY DEF ShowInit, Init, OnePointer, NamesCome, root_user
<1>3. WalkTypes /\ shows = 0 /\ at = "idle" /\ DOMAIN ends = {}
  BY DEF ShowInit, WalkTypes, Nothing, root_user
<1>4. Stands({root_user})
  <2>1. Len(mem) = 1 /\ mem[1].next = Null
    BY DEF ShowInit, Init, Fresh
  <2>2. Firm({root_user}, 1)
    BY <2>1 DEF ShowInit, Init, Firm, CoreNodes, Connected, OutsideCore, Behind, root_user, Null, Filling
  <2> QED BY <2>2 DEF Stands, root_user
<1>5. {root_user} \in SUBSET Nat /\ standing = {root_user}
  BY DEF ShowInit, root_user
<1> QED BY <1>1, <1>2, <1>3, <1>4, <1>5 DEF IInv

\* The steps of a walk and of the other threads.
LEMMA WalkStep ==
  ASSUME IInv, show \/ walk
  PROVE  IInv'
<1>1. /\ mem' = mem /\ UNCHANGED <<mem, threadVars, settled>> /\ up' \in BOOLEAN
      /\ standing' = standing
  BY DEF IInv, TypeInv, TypeOK, show, walk, next, count, copy, allocate, send, astray, Reads, vars
<1>2. TypeInv /\ LinksGoForward /\ OnePointer /\ NamesCome /\ WalkTypes
  BY DEF IInv
<1>3. PICK T \in SUBSET Nat : standing = T /\ Stands(T)
  BY DEF IInv
<1>4. TypeInv' /\ LinksGoForward' /\ OnePointer' /\ NamesCome' /\ Stands(T)'
  BY <1>1, <1>2, <1>3, ReadsFrame
<1>5. CASE show
  <2>1. PICK n \in Nat : Firm(T, n)
    BY <1>3 DEF Stands
  <2>2. WalkTypes' /\ Walk(T, n)'
    BY <1>2, <1>3, <1>5, <2>1, ShowStartsWalk
  <2>3. Firm(T, n)'
    BY <1>1, <1>2, <1>3, <2>1, ReadsFrame
  <2>4. before' = T /\ shows' > 0
    BY <1>2, <1>3, <1>5 DEF show, WalkTypes
  <2> QED BY <1>1, <1>3, <1>4, <2>2, <2>3, <2>4 DEF IInv
<1>6. CASE walk
  <2>1. shows' = shows /\ before' = before /\ at # "idle"
    BY <1>6 DEF walk, next, count, copy, allocate, send, astray, Reads, showVars
  <2>2. PICK S \in SUBSET Nat : before = S /\ Stands(S) /\ \E n \in Nat : Firm(S, n) /\ Walk(S, n)
    BY <1>2, <2>1 DEF IInv, WalkTypes
  <2>3. PICK n \in Nat : Firm(S, n) /\ Walk(S, n)
    BY <2>2
  <2>4. Firm(S, n)' /\ Stands(S)'
    BY <1>1, <1>2, <2>2, <2>3, ReadsFrame
  <2>5. WalkTypes' /\ Walk(S, n)'
    <3>1. CASE next
      BY <1>2, <2>2, <2>3, <3>1, NextKeepsWalk
    <3>2. CASE count
      BY <1>2, <2>2, <2>3, <3>2, CountKeepsWalk
    <3>3. CASE copy
      BY <1>2, <2>2, <2>3, <3>3, CopyKeepsWalk
    <3>4. CASE allocate
      BY <1>2, <2>2, <2>3, <3>4, AllocateKeepsWalk
    <3>5. CASE send
      BY <1>2, <2>2, <2>3, <3>5, SendKeepsWalk
    <3>6. CASE astray
      <4>1. UNCHANGED showVars /\ SameNodes(S, n)
        BY <3>6, <1>1 DEF astray, SameNodes
      <4>2. WalkTypes'
        BY <1>2, <4>1 DEF WalkTypes, showVars, walkVars
      <4> QED BY <1>2, <2>2, <2>3, <4>1, <4>2, OthersKeepWalk
    <3> QED BY <1>6, <3>1, <3>2, <3>3, <3>4, <3>5, <3>6 DEF walk
  <2>6. shows > 0
    BY <1>2, <2>1 DEF IInv, WalkTypes
  <2> QED BY <1>1, <1>3, <1>4, <2>1, <2>2, <2>4, <2>5, <2>6 DEF IInv
<1> QED BY <1>5, <1>6

LEMMA OthersStep ==
  ASSUME IInv, others
  PROVE  IInv'
<1>0. (TypeInv /\ LinksGoForward /\ NamesCome /\ (~ \E t \in Threads : Registering(t)) => Stands(List))'
  BY SettledStands, PTL
<1> SUFFICES ASSUME (TypeInv /\ LinksGoForward /\ NamesCome
                       /\ (~ \E t \in Threads : Registering(t)) => Stands(List))'
             PROVE  IInv'
  BY <1>0
<1>1. TypeInv /\ LinksGoForward /\ OnePointer /\ NamesCome /\ WalkTypes
  BY DEF IInv
<1>2. Next /\ UNCHANGED showVars
  BY DEF others
<1>3. PICK t \in Threads : RegisterStep(t) \/ LoginStep(t) \/ stray(t) \/ \E o \in Call : request(t, o)
  BY <1>2 DEF Next, Run
<1>4. TypeInv' /\ LinksGoForward'
  BY <1>1, <1>2, TypeStep, LinksStep
<1>5. OnePointer' /\ NamesCome'
  BY <1>1, <1>3, <1>4, PointerStep
<1>6. WalkTypes' /\ shows' = shows /\ before' = before
  BY <1>1, <1>2 DEF WalkTypes, showVars, walkVars
<1>7. \E S \in SUBSET Nat : standing' = S /\ Stands(S)'
  <2>1. CASE \E u \in Threads : Registering(u)'
    <3>1. PICK S \in SUBSET Nat : standing = S /\ Stands(S)
      BY DEF IInv
    <3>2. Stands(S)'
      BY <1>1, <1>3, <1>4, <3>1, StandsStep
    <3>3. standing' = S
      BY <2>1, <3>1 DEF others
    <3> QED BY <3>2, <3>3
  <2>2. CASE ~ \E u \in Threads : Registering(u)'
    <3>1. Stands(List)'
      BY <1>4, <1>5, <2>2
    <3>2. standing' = List'
      BY <2>2 DEF others
    <3>3. PICK S : S = List'
      OBVIOUS
    <3>4. S \in SUBSET Nat /\ Stands(S)'
      BY <3>1, <3>3 DEF Stands
    <3> QED BY <3>2, <3>3, <3>4
  <2> QED BY <2>1, <2>2
<1>8. shows > 0 =>
        \E S \in SUBSET Nat : before' = S /\ Stands(S)' /\ \E n \in Nat : Firm(S, n)' /\ Walk(S, n)'
  <2> SUFFICES ASSUME shows > 0
               PROVE  \E S \in SUBSET Nat :
                        before' = S /\ Stands(S)' /\ \E n \in Nat : Firm(S, n)' /\ Walk(S, n)'
    OBVIOUS
  <2>1. PICK S \in SUBSET Nat : before = S /\ Stands(S) /\ \E n \in Nat : Firm(S, n) /\ Walk(S, n)
    BY DEF IInv
  <2>2. PICK n \in Nat : Firm(S, n) /\ Walk(S, n)
    BY <2>1
  <2>3. Firm(S, n)' /\ SameNodes(S, n)
    BY <1>1, <1>3, <1>4, <2>2, FirmStep
  <2>4. Walk(S, n)'
    BY <1>1, <1>2, <2>1, <2>2, <2>3, OthersKeepWalk
  <2>5. Stands(S)'
    BY <1>1, <1>3, <1>4, <2>1, StandsStep
  <2> QED BY <1>6, <2>1, <2>3, <2>4, <2>5
<1>9. shows = 0 => at' = "idle" /\ DOMAIN ends' = {}
  BY <1>2 DEF IInv, showVars, walkVars
<1> QED BY <1>4, <1>5, <1>6, <1>7, <1>8, <1>9 DEF IInv

LEMMA StutterKeeps ==
  ASSUME IInv, UNCHANGED allVars
  PROVE  IInv'
<1>1. UNCHANGED <<mem, threadVars, settled>> /\ up' = up /\ standing' = standing /\ UNCHANGED showVars
      /\ before' = before /\ shows' = shows /\ mem' = mem
  BY DEF allVars, vars, showVars
<1>2. TypeInv /\ LinksGoForward /\ OnePointer /\ NamesCome /\ WalkTypes /\ up' \in BOOLEAN
  BY <1>1 DEF IInv, TypeInv, TypeOK
<1>3. PICK T \in SUBSET Nat : standing = T /\ Stands(T)
  BY DEF IInv
<1>4. TypeInv' /\ LinksGoForward' /\ OnePointer' /\ NamesCome' /\ Stands(T)'
  BY <1>1, <1>2, <1>3, ReadsFrame
<1>5. WalkTypes' /\ (shows = 0 => at' = "idle" /\ DOMAIN ends' = {})
  BY <1>1, <1>2 DEF IInv, WalkTypes, showVars, walkVars
<1>6. shows > 0 =>
        \E S \in SUBSET Nat : before' = S /\ Stands(S)' /\ \E n \in Nat : Firm(S, n)' /\ Walk(S, n)'
  <2> SUFFICES ASSUME shows > 0
               PROVE  \E S \in SUBSET Nat :
                        before' = S /\ Stands(S)' /\ \E n \in Nat : Firm(S, n)' /\ Walk(S, n)'
    OBVIOUS
  <2>1. PICK S \in SUBSET Nat : before = S /\ Stands(S) /\ \E n \in Nat : Firm(S, n) /\ Walk(S, n)
    BY DEF IInv
  <2>2. PICK n \in Nat : Firm(S, n) /\ Walk(S, n)
    BY <2>1
  <2>3. Firm(S, n)' /\ Stands(S)'
    BY <1>1, <1>2, <2>1, <2>2, ReadsFrame
  <2>4. SameNodes(S, n)
    BY <1>1 DEF SameNodes
  <2>5. Walk(S, n)'
    BY <1>1, <1>2, <2>1, <2>2, <2>4, OthersKeepWalk
  <2> QED BY <1>1, <2>1, <2>3, <2>5
<1> QED BY <1>1, <1>3, <1>4, <1>5, <1>6 DEF IInv

LEMMA Invariant == ShowSpec => []IInv
<1>1. IInv /\ [ShowNext]_allVars => IInv'
  BY WalkStep, OthersStep, StutterKeeps DEF ShowNext
<1> QED BY <1>1, InitInv, PTL DEF ShowSpec

\* However registrations overlap, and whatever memory malloc returns, the names that were in
\* the list when last no registration ran before the request, and the ends of their lines,
\* fit in the block (lines 206-238 and 604-638).
THEOREM TheKnownFit == ShowSpec => []KnownFit
<1>1. IInv => KnownFit
  <2> SUFFICES ASSUME IInv, NEW x \in before \cap DOMAIN ends
               PROVE  ends[x] + 1 <= needed + (IF id = "SHOW_CHAT_ROOMS" THEN 1 ELSE 0)
    BY DEF KnownFit
  <2>1. WalkTypes /\ shows \in Nat
    BY DEF IInv, WalkTypes
  <2>2. shows > 0
    BY <2>1 DEF IInv
  <2>3. ends[x] + Slack <= needed
    BY <2>2 DEF IInv, Walk, Fits
  <2> QED BY <2>1, <2>3 DEF WalkTypes, Slack
<1> QED BY <1>1, Invariant, PTL

\* The answer has them, whole and within its length, unless the size is one that htons()
\* cuts (india_messages_protocol.c:129).
THEOREM TheKnownAreListed == ShowSpec => []KnownAreListed
<1>1. IInv => KnownAreListed
  <2> SUFFICES ASSUME IInv, shows > 0 PROVE KnownAreListed
    BY DEF IInv, KnownAreListed
  <2> QED BY DEF IInv, Walk
<1> QED BY <1>1, Invariant, PTL
===============================================================================
