---------------------------- MODULE MemberListProofs ----------------------------
(* Proofs about MemberList: for every number of threads, users and calls.  *)
EXTENDS MemberList, WellFoundedInduction, TLAPS

-------------------------------------------------------------------------------
(* The walk from member                                                    *)

\* x is reached in k steps or less, along the participants in s.
Way(s, k, x) ==
  /\ Len(s) \in 1 .. (k + 1) /\ s[1] = member /\ s[Len(s)] = x
  /\ \A j \in 1 .. (Len(s) - 1) : s[j + 1] = mem[s[j]].next_member

Reached(k) == {x \in DOMAIN mem : \E s \in Seq(DOMAIN mem) : Way(s, k, x)}

\* The ways of at most k steps are those the recursion of Within goes.
LEMMA ReachedStep ==
  mem \in Seq(Participant) =>
    /\ Reached(0) = {member} \cap DOMAIN mem
    /\ \A k \in Nat \ {0} :
         Reached(k) = Reached(k - 1)
                        \cup ({mem[x].next_member : x \in Reached(k - 1)} \cap DOMAIN mem)
<1> SUFFICES ASSUME mem \in Seq(Participant)
             PROVE  /\ Reached(0) = {member} \cap DOMAIN mem
                    /\ \A k \in Nat \ {0} :
                         Reached(k) = Reached(k - 1)
                            \cup ({mem[x].next_member : x \in Reached(k - 1)} \cap DOMAIN mem)
  OBVIOUS
<1> DEFINE D == DOMAIN mem
<1> HIDE DEF D
<1>1. Reached(0) = {member} \cap D
  <2>1. ASSUME member \in D PROVE member \in Reached(0)
    <3>1. <<member>> \in Seq(D) /\ Len(<<member>>) = 1 /\ <<member>>[1] = member
      BY <2>1
    <3>2. Way(<<member>>, 0, member)
      BY <3>1 DEF Way
    <3> QED BY <2>1, <3>1, <3>2 DEF Reached, D
  <2>2. ASSUME NEW x \in Reached(0) PROVE x = member /\ x \in D
    <3>1. PICK s \in Seq(D) : Way(s, 0, x)
      BY <2>2 DEF Reached, D
    <3> QED BY <2>2, <3>1 DEF Way, Reached, D
  <2> QED BY <2>1, <2>2
<1>2. ASSUME NEW k \in Nat \ {0}
      PROVE  Reached(k) = Reached(k - 1) \cup ({mem[x].next_member : x \in Reached(k - 1)} \cap D)
  <2>1. ASSUME NEW x \in Reached(k - 1) PROVE x \in Reached(k)
    <3>1. PICK s \in Seq(D) : Way(s, k - 1, x)
      BY <2>1 DEF Reached, D
    <3>2. Way(s, k, x)
      BY <3>1 DEF Way
    <3> QED BY <2>1, <3>2 DEF Reached, D
  <2>2. ASSUME NEW x \in Reached(k - 1), mem[x].next_member \in D
        PROVE  mem[x].next_member \in Reached(k)
    <3> DEFINE y == mem[x].next_member
    <3>1. PICK s \in Seq(D) : Way(s, k - 1, x)
      BY <2>2 DEF Reached, D
    <3> DEFINE r == Append(s, y)
    <3>2. /\ Len(s) \in 1 .. k /\ s[1] = member /\ s[Len(s)] = x
          /\ \A j \in 1 .. (Len(s) - 1) : s[j + 1] = mem[s[j]].next_member
      BY <3>1 DEF Way
    <3>3. /\ r \in Seq(D) /\ Len(r) = Len(s) + 1 /\ r[Len(s) + 1] = y
          /\ \A j \in 1 .. Len(s) : r[j] = s[j]
      BY <2>2, <3>2
    <3> HIDE DEF r
    <3>4. \A j \in 1 .. (Len(r) - 1) : r[j + 1] = mem[r[j]].next_member
      <4> SUFFICES ASSUME NEW j \in 1 .. Len(s) PROVE r[j + 1] = mem[r[j]].next_member
        BY <3>2, <3>3
      <4>1. CASE j = Len(s)
        BY <3>2, <3>3, <4>1
      <4>2. CASE j \in 1 .. (Len(s) - 1)
        <5>1. r[j] = s[j] /\ r[j + 1] = s[j + 1]
          BY <3>2, <3>3, <4>2
        <5> QED BY <3>2, <4>2, <5>1
      <4> QED BY <3>2, <4>1, <4>2
    <3>5. Way(r, k, y)
      BY <3>2, <3>3, <3>4 DEF Way
    <3> QED BY <2>2, <3>3, <3>5 DEF Reached, D
  <2>3. ASSUME NEW y \in Reached(k), y \notin Reached(k - 1)
        PROVE  \E x \in Reached(k - 1) : y = mem[x].next_member
    <3>1. PICK s \in Seq(D) : Way(s, k, y)
      BY <2>3 DEF Reached, D
    <3>2. /\ Len(s) \in 1 .. (k + 1) /\ s[1] = member /\ s[Len(s)] = y
          /\ \A j \in 1 .. (Len(s) - 1) : s[j + 1] = mem[s[j]].next_member
      BY <3>1 DEF Way
    <3>3. Len(s) = k + 1
      <4>1. SUFFICES ASSUME Len(s) # k + 1 PROVE FALSE
        OBVIOUS
      <4>2. Way(s, k - 1, y)
        BY <3>2, <4>1 DEF Way
      <4> QED BY <2>3, <4>2 DEF Reached, D
    <3> DEFINE r == SubSeq(s, 1, k)
    <3>4. /\ r \in Seq(D) /\ Len(r) = k /\ \A j \in 1 .. k : r[j] = s[j]
      BY <3>2, <3>3
    <3> HIDE DEF r
    <3>5. s[k] \in D /\ y = mem[s[k]].next_member
      BY <3>2, <3>3
    <3>6. \A j \in 1 .. (Len(r) - 1) : r[j + 1] = mem[r[j]].next_member
      <4> SUFFICES ASSUME NEW j \in 1 .. (k - 1) PROVE r[j + 1] = mem[r[j]].next_member
        BY <3>4
      <4>1. r[j] = s[j] /\ r[j + 1] = s[j + 1]
        BY <3>4
      <4> QED BY <3>2, <3>3, <4>1
    <3>7. Way(r, k - 1, s[k])
      BY <3>2, <3>4, <3>6 DEF Way
    <3> QED BY <3>4, <3>5, <3>7 DEF Reached, D
  <2>4. Reached(k) \subseteq D
    BY DEF Reached, D
  <2> QED BY <2>1, <2>2, <2>3, <2>4
<1> QED BY <1>1, <1>2 DEF D

\* A set of participants with those next to them.
LEMMA Step ==
  ASSUME NEW S, S \subseteq DOMAIN mem
  PROVE  (UNION {{x, mem[x].next_member} : x \in S}) \cap DOMAIN mem
           = S \cup ({mem[x].next_member : x \in S} \cap DOMAIN mem)
<1> DEFINE U == UNION {{x, mem[x].next_member} : x \in S}
<1>1. ASSUME NEW y \in U PROVE y \in S \/ \E x \in S : y = mem[x].next_member
  <2>1. PICK e \in {{x, mem[x].next_member} : x \in S} : y \in e
    BY <1>1
  <2> QED BY <2>1
<1>2. ASSUME NEW x \in S PROVE x \in U /\ mem[x].next_member \in U
  <2>1. {x, mem[x].next_member} \in {{z, mem[z].next_member} : z \in S}
    BY <1>2
  <2> QED BY <2>1
<1> DEFINE R == S \cup ({mem[x].next_member : x \in S} \cap DOMAIN mem)
<1>3. ASSUME NEW y \in U \cap DOMAIN mem PROVE y \in R
  <2> HIDE DEF U
  <2> QED BY <1>1, <1>3
<1>4. ASSUME NEW y \in R PROVE y \in U \cap DOMAIN mem
  <2> HIDE DEF U
  <2> QED BY <1>2, <1>4
<1> HIDE DEF U, R
<1>5. U \cap DOMAIN mem = R
  BY <1>3, <1>4
<1> QED BY <1>5 DEF U, R

\* Within is what its definition says: the recursion has a solution.
LEMMA WithinStep ==
  mem \in Seq(Participant) =>
    /\ Within[0] = {member} \cap DOMAIN mem
    /\ \A k \in Nat : Within[k] \subseteq DOMAIN mem
    /\ \A k \in Nat \ {0} :
         Within[k] = Within[k - 1]
                       \cup ({mem[x].next_member : x \in Within[k - 1]} \cap DOMAIN mem)
<1> SUFFICES ASSUME mem \in Seq(Participant)
             PROVE  /\ Within[0] = {member} \cap DOMAIN mem
                    /\ \A k \in Nat : Within[k] \subseteq DOMAIN mem
                    /\ \A k \in Nat \ {0} :
                         Within[k] = Within[k - 1]
                           \cup ({mem[x].next_member : x \in Within[k - 1]} \cap DOMAIN mem)
  OBVIOUS
<1> DEFINE Solves(f) ==
             f = [k \in Nat |->
                    IF k = 0 THEN {member} \cap DOMAIN mem
                    ELSE (UNION {{x, mem[x].next_member} : x \in f[k - 1]}) \cap DOMAIN mem]
           g == [k \in Nat |-> Reached(k)]
<1>1. Solves(g)
  <2>1. \A k \in Nat : g[k] = IF k = 0 THEN {member} \cap DOMAIN mem
                              ELSE (UNION {{x, mem[x].next_member} : x \in g[k - 1]}) \cap DOMAIN mem
    <3> SUFFICES ASSUME NEW k \in Nat
                 PROVE  g[k] = IF k = 0 THEN {member} \cap DOMAIN mem
                               ELSE (UNION {{x, mem[x].next_member} : x \in g[k - 1]}) \cap DOMAIN mem
      OBVIOUS
    <3>1. CASE k = 0
      BY <3>1, ReachedStep
    <3>2. CASE k # 0
      <4>1. g[k] = Reached(k) /\ g[k - 1] = Reached(k - 1)
        BY <3>2
      <4> HIDE DEF g
      <4>2. Reached(k - 1) \subseteq DOMAIN mem
        BY DEF Reached
      <4>3. Reached(k) = Reached(k - 1)
                           \cup ({mem[x].next_member : x \in Reached(k - 1)} \cap DOMAIN mem)
        BY <3>2, ReachedStep
      <4>4. Reached(k)
              = (UNION {{x, mem[x].next_member} : x \in Reached(k - 1)}) \cap DOMAIN mem
        BY <4>2, <4>3, Step
      <4> QED BY <3>2, <4>1, <4>4
    <3> QED BY <3>1, <3>2
  <2> QED BY <2>1
<1>2. Within = CHOOSE f : Solves(f)
  BY DEF Within
<1>3. Solves(Within)
  BY <1>1, <1>2
<1>4. ASSUME NEW k \in Nat PROVE Within[k] \subseteq DOMAIN mem
  <2>1. Within[k] = IF k = 0 THEN {member} \cap DOMAIN mem
                    ELSE (UNION {{x, mem[x].next_member} : x \in Within[k - 1]}) \cap DOMAIN mem
    BY <1>3
  <2>2. CASE k = 0
    BY <2>1, <2>2
  <2>3. CASE k # 0
    <3> DEFINE U == UNION {{x, mem[x].next_member} : x \in Within[k - 1]}
    <3>1. Within[k] = U \cap DOMAIN mem
      BY <2>1, <2>3
    <3> HIDE DEF U
    <3> QED BY <3>1
  <2> QED BY <2>2, <2>3
<1>5. ASSUME NEW k \in Nat \ {0}
      PROVE  Within[k] = Within[k - 1]
                           \cup ({mem[x].next_member : x \in Within[k - 1]} \cap DOMAIN mem)
  <2>1. Within[k] = (UNION {{x, mem[x].next_member} : x \in Within[k - 1]}) \cap DOMAIN mem
    BY <1>3
  <2>2. Within[k - 1] \subseteq DOMAIN mem
    BY <1>4
  <2> QED BY <2>1, <2>2, Step
<1> QED BY <1>3, <1>4, <1>5

-------------------------------------------------------------------------------
(* Type correctness                                                        *)

\* In a call, op is the request being handled; what is read for a store is a pointer,
\* and the user a message is being written to is one.
CallOf(t) ==
  /\ pc[t] # "idle" => op[t] \in Call
  /\ pc[t] = "store" => held[t] \in Nat \cup {Wild}
  /\ pc[t] = "write" => conductor[t] \in DOMAIN mem /\ user(t) \in Names

TypeInv == TypeOK /\ \A t \in Threads : CallOf(t)

\* Members are users (the history variables must and may).
LEMMA MembersType ==
  mem \in Seq(Participant) => Members \subseteq Names
<1> SUFFICES ASSUME mem \in Seq(Participant) PROVE Members \subseteq Names
  OBVIOUS
<1>0. Len(mem) \in Nat /\ \A y \in DOMAIN mem : mem[y] \in Participant
  OBVIOUS
<1>1. \A y \in DOMAIN mem : mem[y].name \in Names \cup {None}
  BY <1>0 DEF Participant
<1>2. List \subseteq DOMAIN mem
  BY <1>0, WithinStep DEF List
<1> QED BY <1>1, <1>2 DEF Members

\* The initial state: participants who have joined before (main).
LEMMA TypeInit == Init => TypeInv
<1> SUFFICES ASSUME Init PROVE TypeInv
  OBVIOUS
<1>1. PICK s \in FirstMembers :
        /\ mem = [y \in DOMAIN s |->
                    [name |-> s[y], ptr_to_user |-> s[y], freed |-> FALSE,
                     next_member |-> IF y = Len(s) THEN Null ELSE y + 1]]
        /\ member = IF s = <<>> THEN Null ELSE 1
  BY DEF Init
<1>2. s \in Seq(Names)
  BY NamesAssumption
<1>3. \A y \in 1 .. Len(s) :
        [name |-> s[y], ptr_to_user |-> s[y], freed |-> FALSE,
         next_member |-> IF y = Len(s) THEN Null ELSE y + 1] \in Participant
  BY <1>2 DEF Participant, Null
<1>4. mem \in Seq(Participant) /\ DOMAIN mem = 1 .. Len(s)
  BY <1>1, <1>2, <1>3
<1>5. member \in {Null} \cup DOMAIN mem
  BY <1>1, <1>2, <1>4
<1>6. /\ nick \in [Threads -> Names \cup {None}] /\ gone \in SUBSET Threads
      /\ pc \in [Threads -> {"idle"} \cup Joining \cup Filling \cup Exiting \cup Forwarding
                             \cup LoggingIn]
      /\ op \in [Threads -> Call \cup {None}] /\ users \in [Names -> User] /\ up \in BOOLEAN
  BY NamesAssumption DEF Init
<1>7. /\ conductor \in [Threads -> Nat \cup {Wild}] /\ previous \in [Threads -> Nat \cup {Wild}]
      /\ held \in [Threads -> Nat \cup {Wild} \cup Threads]
      /\ answer \in [Threads -> Int \cup {None}] /\ calls \in [Threads -> Nat]
      /\ \A t \in Threads : calls[t] <= MaxCalls[t]
      /\ must \in [Threads -> SUBSET Names] /\ may \in [Threads -> SUBSET Names]
      /\ came \in [Threads -> SUBSET Names] /\ left \in [Threads -> SUBSET Names]
      /\ copies \in [Threads -> [Names -> Nat]]
  BY BoundsAssumption DEF Init, Null
<1>8. \A t \in Threads : CallOf(t)
  BY DEF Init, CallOf
<1> QED BY <1>4, <1>5, <1>6, <1>7, <1>8 DEF TypeInv, TypeOK

Labels == Joining \cup Filling \cup Exiting \cup Forwarding \cup LoggingIn

\* The list, the users and who follows a pointer to nowhere.
RoomType ==
  /\ up \in BOOLEAN /\ mem \in Seq(Participant) /\ member \in {Null} \cup DOMAIN mem
  /\ users \in [Names -> User]

\* A participant with a user stays one, and none goes.
Grows ==
  /\ DOMAIN mem \subseteq DOMAIN mem'
  /\ \A y \in DOMAIN mem : mem[y].ptr_to_user \in Names => mem'[y].ptr_to_user \in Names

\* A new participant, or a store into one.
LEMMA AppendType ==
  ASSUME RoomType, NEW y \in DOMAIN mem, NEW p \in Participant, NEW f \in Participant,
         mem[y].ptr_to_user \in Names => p.ptr_to_user \in Names
  PROVE  /\ [mem EXCEPT ![y] = p] \in Seq(Participant)
         /\ Append([mem EXCEPT ![y] = p], f) \in Seq(Participant)
         /\ mem' = [mem EXCEPT ![y] = p] => Grows /\ DOMAIN mem' = DOMAIN mem
         /\ mem' = Append([mem EXCEPT ![y] = p], f) => Grows
<1> DEFINE m == [mem EXCEPT ![y] = p]
<1>0. mem \in Seq(Participant) /\ Len(mem) \in Nat /\ DOMAIN mem = 1 .. Len(mem)
  BY DEF RoomType
<1>1. /\ m \in Seq(Participant) /\ Len(m) = Len(mem) /\ DOMAIN m = DOMAIN mem
      /\ m[y] = p /\ \A z \in DOMAIN mem \ {y} : m[z] = mem[z]
  BY <1>0
<1>2. ASSUME mem' = m PROVE Grows /\ DOMAIN mem' = DOMAIN mem
  BY <1>1, <1>2 DEF Grows
<1> HIDE DEF m
<1>3. Append(m, f) \in Seq(Participant)
  BY <1>1
<1>4. ASSUME mem' = Append(m, f) PROVE Grows
  <2>1. DOMAIN mem' = 1 .. (Len(mem) + 1) /\ \A z \in DOMAIN mem : mem'[z] = m[z]
    BY <1>0, <1>1, <1>4
  <2> QED BY <1>0, <1>1, <2>1 DEF Grows
<1> QED BY <1>1, <1>2, <1>3, <1>4 DEF m

\* Every step leaves a list of participants with those there were (the stores and the
\* mallocs of join_chatroom, exit_chatroom and forward_chat_room_data).
LEMMA RoomStep ==
  ASSUME TypeInv, NEW t \in Threads,
         \/ JoinStep(t) \/ ExitStep(t) \/ ForwardStep(t) \/ LoginStep(t) \/ dies(t)
         \/ leave(t) \/ \E o \in Requests[t] : request(t, o)
  PROVE  RoomType' /\ Grows
<1>0. RoomType /\ Len(mem) \in Nat /\ DOMAIN mem = 1 .. Len(mem)
  BY DEF TypeInv, TypeOK, RoomType
<1>1. \A u \in FreshUser, n \in FreshNext : Fresh(u, n) \in Participant
  <2> SUFFICES ASSUME NEW u \in {Null, Wild}, NEW n \in {Null, Wild}
               PROVE  Fresh(u, n) \in Participant
    BY FreshAssumption
  <2>1. n \in Nat \cup {Wild}
    BY DEF Null
  <2> QED BY <2>1 DEF Fresh, Participant
<1>2. ASSUME UNCHANGED <<member, mem>>, up' \in BOOLEAN, users' \in [Names -> User]
      PROVE  RoomType' /\ Grows
  BY <1>0, <1>2 DEF RoomType, Grows, Null
<1>3. ASSUME NEW y \in DOMAIN mem, NEW p \in Participant, mem' = [mem EXCEPT ![y] = p],
             mem[y].ptr_to_user \in Names => p.ptr_to_user \in Names,
             UNCHANGED <<up, member, users>>
      PROVE  RoomType' /\ Grows
  <2>1. mem' \in Seq(Participant) /\ Grows /\ DOMAIN mem' = DOMAIN mem
    BY <1>0, <1>3, AppendType
  <2> QED BY <1>0, <1>3, <2>1 DEF RoomType, Null
<1>4. ASSUME NEW l, At(t, l) PROVE here(t) \in Participant /\ conductor[t] \in DOMAIN mem
  BY <1>0, <1>4 DEF At, here, RoomType
<1>5. CASE first_node(t)
  <2>1. CASE member' = Null /\ UNCHANGED mem
    BY <1>0, <1>5, <2>1 DEF first_node, RoomType, Grows, Null
  <2>2. CASE \E u \in FreshUser, n \in FreshNext :
               mem' = Append(mem, Fresh(u, n)) /\ member' = Len(mem) + 1
    <3>1. PICK u \in FreshUser, n \in FreshNext :
            mem' = Append(mem, Fresh(u, n)) /\ member' = Len(mem) + 1
      BY <2>2
    <3>2. /\ mem' \in Seq(Participant) /\ DOMAIN mem' = 1 .. (Len(mem) + 1)
          /\ \A z \in DOMAIN mem : mem'[z] = mem[z]
      BY <1>0, <1>1, <3>1 DEF RoomType
    <3>3. Grows
      BY <1>0, <3>2 DEF Grows
    <3>4. member' \in DOMAIN mem'
      BY <1>0, <3>1, <3>2
    <3>5. UNCHANGED <<up, users>>
      BY <1>5 DEF first_node
    <3> QED BY <1>0, <3>2, <3>3, <3>4, <3>5 DEF RoomType
  <2> QED BY <1>5, <2>1, <2>2 DEF first_node
<1>6. CASE append(t)
  <2> DEFINE c == conductor[t]
  <2>1. here(t) \in Participant /\ c \in DOMAIN mem /\ here(t) = mem[c]
    BY <1>4, <1>6 DEF append, here
  <2>2. CASE Store(t, [here(t) EXCEPT !.next_member = Null])
    <3>1. /\ [here(t) EXCEPT !.next_member = Null] \in Participant
          /\ [here(t) EXCEPT !.next_member = Null].ptr_to_user = mem[c].ptr_to_user
      BY <2>1 DEF Participant, Null
    <3> QED BY <1>3, <1>6, <2>1, <2>2, <3>1 DEF Store, append
  <2>3. CASE \E u \in FreshUser, n \in FreshNext :
               mem' = Append([mem EXCEPT ![c].next_member = Len(mem) + 1], Fresh(u, n))
    <3>1. PICK u \in FreshUser, n \in FreshNext :
            mem' = Append([mem EXCEPT ![c].next_member = Len(mem) + 1], Fresh(u, n))
      BY <2>3
    <3> DEFINE p == [mem[c] EXCEPT !.next_member = Len(mem) + 1]
    <3>2. p \in Participant /\ p.ptr_to_user = mem[c].ptr_to_user
      BY <1>0, <2>1 DEF Participant
    <3>3. mem' = Append([mem EXCEPT ![c] = p], Fresh(u, n))
      BY <3>1
    <3>4. mem' \in Seq(Participant) /\ Grows
      BY <1>0, <1>1, <2>1, <3>2, <3>3, AppendType
    <3> QED BY <1>0, <1>6, <3>4 DEF append, RoomType, Grows
  <2> QED BY <1>6, <2>2, <2>3 DEF append
<1>7. CASE clear(t) \/ store_name(t) \/ store_user(t) \/ free(t)
  <2>1. PICK l : At(t, l) /\ l # "idle"
    BY <1>7 DEF clear, store_name, store_user, free
  <2>2. here(t) \in Participant /\ conductor[t] \in DOMAIN mem /\ here(t) = mem[conductor[t]]
        /\ op[t] \in Call
    BY <1>4, <2>1 DEF here, At, TypeInv, CallOf
  <2>3. \A p \in {Cleared(t), [here(t) EXCEPT !.name = op[t].name],
                  [here(t) EXCEPT !.ptr_to_user = op[t].name],
                  [here(t) EXCEPT !.name = None, !.freed = TRUE]} :
          /\ p \in Participant
          /\ mem[conductor[t]].ptr_to_user \in Names => p.ptr_to_user \in Names
    <3> DEFINE c == here(t)
    <3>1. c \in Participant /\ op[t].name \in Names
      BY <2>2 DEF Call
    <3> HIDE DEF c
    <3>2. /\ [c EXCEPT !.next_member = Null] \in Participant
          /\ [c EXCEPT !.next_member = Null].ptr_to_user = c.ptr_to_user
      BY <3>1 DEF Participant, Null
    <3>3. /\ [c EXCEPT !.name = op[t].name] \in Participant
          /\ [c EXCEPT !.name = op[t].name].ptr_to_user = c.ptr_to_user
      BY <3>1 DEF Participant
    <3>4. /\ [c EXCEPT !.ptr_to_user = op[t].name] \in Participant
          /\ [c EXCEPT !.ptr_to_user = op[t].name].ptr_to_user = op[t].name
      BY <3>1 DEF Participant
    <3>5. /\ [c EXCEPT !.name = None, !.freed = TRUE] \in Participant
          /\ [c EXCEPT !.name = None, !.freed = TRUE].ptr_to_user = c.ptr_to_user
      BY <3>1 DEF Participant
    <3>6. mem[conductor[t]].ptr_to_user = c.ptr_to_user
      BY <2>2 DEF c
    <3>7. Cleared(t) = [c EXCEPT !.next_member = Null]
      BY DEF Cleared, c
    <3> QED BY <3>1, <3>2, <3>3, <3>4, <3>5, <3>6, <3>7 DEF c
  <2> QED BY <1>3, <1>7, <2>2, <2>3 DEF clear, store_name, store_user, free, Store
<1>8. CASE store(t)
  <2> DEFINE r == previous[t]
  <2>1. r \in DOMAIN mem /\ mem[r] \in Participant /\ held[t] \in Nat \cup {Wild}
    BY <1>0, <1>8 DEF store, Before, RoomType, TypeInv, CallOf
  <2>2. /\ [mem[r] EXCEPT !.next_member = held[t]] \in Participant
        /\ [mem[r] EXCEPT !.next_member = held[t]].ptr_to_user = mem[r].ptr_to_user
    BY <2>1 DEF Participant
  <2> QED BY <1>3, <1>8, <2>1, <2>2 DEF store
<1>9. CASE reset(t)
  <2>1. users' \in [Names -> User]
    BY <1>0, <1>9 DEF reset, RoomType, User
  <2> QED BY <1>0, <1>2, <1>9, <2>1 DEF reset, RoomType
<1>10. CASE log_on(t) \/ connect(t)
  <2>1. op[t] \in Call
    BY <1>10 DEF log_on, connect, Before, TypeInv, CallOf
  <2>2. users' \in [Names -> User]
    <3>1. CASE log_on(t)
      BY <1>0, <2>1, <3>1 DEF log_on, RoomType, User, Call
    <3>2. CASE connect(t)
      BY <1>0, <2>1, <3>2 DEF connect, RoomType, User, Call
    <3> QED BY <1>10, <3>1, <3>2
  <2> QED BY <1>0, <1>2, <1>10, <2>2 DEF log_on, connect, RoomType
<1>11. CASE UNCHANGED <<member, mem, users>> /\ up' \in BOOLEAN
  BY <1>0, <1>2, <1>11 DEF RoomType
<1>12. CASE UNCHANGED roomVars
  BY <1>0, <1>2, <1>12 DEF RoomType, roomVars
<1>13. CASE again(t)
  BY <1>0, <1>11, <1>13 DEF again, RoomType
<1>14. CASE look(t) \/ compare(t) \/ next(t) \/ tail(t) \/ advance(t) \/ reload(t)
  BY <1>12, <1>14 DEF look, compare, next, tail, advance, reload
<1>15. CASE read_previous(t) \/ read_first(t) \/ find(t) \/ pass(t) \/ load(t)
  BY <1>12, <1>15 DEF read_previous, read_first, find, pass, load
<1>16. CASE head(t) \/ sender(t) \/ status(t) \/ socket(t) \/ write(t) \/ onward(t)
  BY <1>12, <1>16 DEF head, sender, status, socket, write, onward
<1>17. CASE leave(t) \/ \E o \in Requests[t] : request(t, o)
  BY <1>12, <1>17 DEF leave, request
<1>18. CASE dies(t)
  BY <1>11, <1>18 DEF dies
<1> QED BY <1>5, <1>6, <1>7, <1>8, <1>9, <1>10, <1>13, <1>14, <1>15, <1>16, <1>17, <1>18
        DEF JoinStep, ExitStep, ForwardStep, LoginStep

\* The threads and their clients.
ThreadType ==
  /\ nick \in [Threads -> Names \cup {None}]
  /\ gone \in SUBSET Threads
  /\ pc \in [Threads -> {"idle"} \cup Labels]
  /\ op \in [Threads -> Call \cup {None}]
  /\ answer \in [Threads -> Int \cup {None}]
  /\ calls \in [Threads -> Nat] /\ \A t \in Threads : calls[t] <= MaxCalls[t]
  /\ copies \in [Threads -> [Names -> Nat]]

LocalType ==
  /\ conductor \in [Threads -> Nat \cup {Wild}]
  /\ previous \in [Threads -> Nat \cup {Wild}]
  /\ held \in [Threads -> Nat \cup {Wild} \cup Threads]

\* A step of t leaves the other threads where they are.
Apart(t) ==
  \A u \in Threads \ {t} :
    pc'[u] = pc[u] /\ op'[u] = op[u] /\ held'[u] = held[u] /\ conductor'[u] = conductor[u]

\* Where a thread may go on with what it has.
Plain == (Labels \cup {"idle"}) \ {"store", "write"}

\* Goto and Return, as every handler uses them.
LEMMA MoveType ==
  ASSUME TypeInv, NEW t \in Threads
  PROVE  /\ \A l \in Labels : Goto(t, l) =>
              ThreadType' /\ pc'[t] = l /\ op'[t] = op[t]
                /\ \A u \in Threads \ {t} : pc'[u] = pc[u] /\ op'[u] = op[u]
         /\ \A a \in Int : Return(t, a) =>
              ThreadType' /\ pc'[t] = "idle"
                /\ \A u \in Threads \ {t} : pc'[u] = pc[u] /\ op'[u] = op[u]
<1>0. ThreadType
  BY DEF TypeInv, TypeOK, ThreadType, Labels
<1>1. ASSUME NEW l \in Labels, Goto(t, l)
      PROVE  ThreadType' /\ pc'[t] = l /\ op'[t] = op[t]
                /\ \A u \in Threads \ {t} : pc'[u] = pc[u] /\ op'[u] = op[u]
  <2>1. pc' = [pc EXCEPT ![t] = l] /\ UNCHANGED <<op, answer, copies, nick, gone, calls>>
    BY <1>1 DEF Goto, clientVars
  <2>2. pc \in [Threads -> {"idle"} \cup Labels]
    BY <1>0 DEF ThreadType
  <2>3. pc' \in [Threads -> {"idle"} \cup Labels] /\ pc'[t] = l
        /\ \A u \in Threads \ {t} : pc'[u] = pc[u]
    BY <2>1, <2>2
  <2> QED BY <1>0, <2>1, <2>3 DEF ThreadType
<1>2. ASSUME NEW a \in Int, Return(t, a)
      PROVE  ThreadType' /\ pc'[t] = "idle"
                /\ \A u \in Threads \ {t} : pc'[u] = pc[u] /\ op'[u] = op[u]
  <2>1. /\ pc' = [pc EXCEPT ![t] = "idle"] /\ op' = [op EXCEPT ![t] = None]
        /\ answer' = [answer EXCEPT ![t] = a] /\ UNCHANGED <<copies, nick, gone, calls>>
    BY <1>2 DEF Return, clientVars
  <2>2. pc' \in [Threads -> {"idle"} \cup Labels] /\ pc'[t] = "idle"
        /\ \A u \in Threads \ {t} : pc'[u] = pc[u]
    BY <1>0, <2>1 DEF ThreadType
  <2>3. op' \in [Threads -> Call \cup {None}] /\ \A u \in Threads \ {t} : op'[u] = op[u]
    BY <1>0, <2>1 DEF ThreadType
  <2>4. answer' \in [Threads -> Int \cup {None}]
    BY <1>0, <2>1 DEF ThreadType
  <2> QED BY <1>0, <2>1, <2>2, <2>3, <2>4 DEF ThreadType
<1> QED BY <1>1, <1>2

\* The steps through the list: the thread goes on at a label or returns, following a
\* pointer of the list (join_chatroom, exit_chatroom, forward_chat_room_data).
LEMMA WalkStep ==
  ASSUME TypeInv, NEW t \in Threads, RoomType' /\ Grows,
         \/ JoinStep(t)
         \/ read_previous(t) \/ read_first(t) \/ find(t) \/ pass(t) \/ free(t) \/ store(t)
         \/ head(t) \/ sender(t) \/ status(t) \/ reset(t) \/ onward(t)
         \/ log_on(t)
  PROVE  /\ ThreadType' /\ LocalType' /\ Apart(t)
         /\ pc[t] # "idle" /\ pc'[t] \in Plain /\ (pc'[t] # "idle" => op'[t] = op[t])
<1>0. /\ LocalType /\ mem \in Seq(Participant) /\ member \in {Null} \cup DOMAIN mem
      /\ member' \in {Null} \cup DOMAIN mem'
  BY DEF TypeInv, TypeOK, LocalType, RoomType
<1>1. \A y \in DOMAIN mem : mem[y].next_member \in Nat \cup {Wild}
  <2> SUFFICES ASSUME NEW y \in DOMAIN mem PROVE mem[y].next_member \in Nat \cup {Wild}
    OBVIOUS
  <2>1. mem[y] \in Participant
    BY <1>0
  <2> QED BY <2>1 DEF Participant
<1>2. member \in Nat \cup {Wild} /\ member' \in Nat \cup {Wild} /\ Null \in Nat
  <2>1. mem' \in Seq(Participant)
    BY DEF RoomType
  <2> QED BY <1>0, <2>1 DEF Null
<1>3. \A x \in Nat \cup {Wild} : Follow(t, x) =>
        conductor' \in [Threads -> Nat \cup {Wild}] /\ \A u \in Threads \ {t} : conductor'[u] = conductor[u]
  BY <1>0 DEF Follow, LocalType
<1> DEFINE Moves == /\ ThreadType' /\ pc'[t] \in Plain /\ (pc'[t] # "idle" => op'[t] = op[t])
                    /\ \A u \in Threads \ {t} : pc'[u] = pc[u] /\ op'[u] = op[u]
<1>4. \A l \in Labels \ {"store", "write"} : Goto(t, l) => Moves
  BY MoveType DEF Plain
<1>5. Return(t, SUCCESS) => Moves
  BY MoveType DEF Plain, SUCCESS
<1>6. Return(t, OUT_OF_MEMORY) => Moves
  BY MoveType DEF Plain, OUT_OF_MEMORY
<1>7. /\ {"compare", "next", "again", "first node", "tail", "advance", "append", "reload", "clear",
          "name", "user", "first", "find", "pass", "load", "free", "sender", "status", "socket",
          "reset", "onward", "connect"} \subseteq Labels \ {"store", "write"}
  BY DEF Labels, Joining, Filling, Exiting, Forwarding, LoggingIn
<1> DEFINE Stays == /\ conductor' \in [Threads -> Nat \cup {Wild}]
                    /\ \A u \in Threads \ {t} : conductor'[u] = conductor[u]
<1>8. UNCHANGED conductor => Stays
  BY <1>0 DEF LocalType
<1>9. \A x \in Nat \cup {Wild} : Follow(t, x) => Stays
  BY <1>3
<1> HIDE DEF Moves, Stays
<1>10. ASSUME Moves, Stays, previous' \in [Threads -> Nat \cup {Wild}], UNCHANGED held, pc[t] # "idle"
       PROVE  /\ ThreadType' /\ LocalType' /\ Apart(t)
              /\ pc[t] # "idle" /\ pc'[t] \in Plain /\ (pc'[t] # "idle" => op'[t] = op[t])
  BY <1>0, <1>10 DEF Moves, Stays, LocalType, Apart
<1>11. UNCHANGED previous => previous' \in [Threads -> Nat \cup {Wild}]
  BY <1>0 DEF LocalType
<1>12. \A l : At(t, l) => conductor[t] \in DOMAIN mem /\ here(t).next_member \in Nat \cup {Wild}
  BY <1>1 DEF At, here
<1>13. CASE JoinStep(t)
  <2>1. CASE look(t) \/ next(t) \/ reload(t)
    <3>1. Moves
      BY <1>4, <1>5, <1>6, <1>7, <2>1 DEF look, next, reload, Loop
    <3>2. Stays
      BY <1>2, <1>9, <1>12, <2>1 DEF look, next, reload, Loop
    <3> QED BY <1>10, <1>11, <2>1, <3>1, <3>2 DEF look, next, reload, At, Before
  <2>2. CASE compare(t) \/ tail(t) \/ append(t) \/ clear(t) \/ store_name(t) \/ store_user(t)
    <3>1. Moves
      BY <1>4, <1>5, <1>7, <2>2 DEF compare, tail, append, clear, store_name, store_user
    <3>2. UNCHANGED localVars
      BY <2>2 DEF compare, tail, append, clear, store_name, store_user
    <3>3. pc[t] # "idle"
      BY <2>2 DEF compare, tail, append, clear, store_name, store_user, At
    <3> QED BY <1>8, <1>10, <1>11, <3>1, <3>2, <3>3 DEF localVars
  <2>3. CASE again(t) \/ advance(t)
    <3>1. Moves
      BY <1>4, <1>7, <2>3 DEF again, advance
    <3>2. Stays
      BY <1>2, <1>9, <1>12, <2>3 DEF again, advance
    <3> QED BY <1>10, <1>11, <2>3, <3>1, <3>2 DEF again, advance, At, Before
  <2>4. CASE first_node(t)
    <3>1. Moves
      BY <1>4, <1>6, <1>7, <2>4 DEF first_node
    <3>2. Stays
      BY <1>2, <1>8, <1>9, <2>4 DEF first_node
    <3> QED BY <1>10, <1>11, <2>4, <3>1, <3>2 DEF first_node, Before
  <2> QED BY <1>13, <2>1, <2>2, <2>3, <2>4 DEF JoinStep
<1>14. CASE read_previous(t)
  <2>1. Moves /\ Stays /\ UNCHANGED held /\ pc[t] # "idle"
    BY <1>4, <1>7, <1>8, <1>14 DEF read_previous, Before
  <2>2. previous' \in [Threads -> Nat \cup {Wild}]
    BY <1>0, <1>2, <1>14 DEF read_previous, LocalType
  <2> QED BY <1>10, <2>1, <2>2
<1>15. CASE pass(t)
  <2>1. Moves
    BY <1>4, <1>5, <1>7, <1>15 DEF pass, Loop
  <2>2. Stays
    BY <1>2, <1>9, <1>12, <1>15 DEF pass, Loop
  <2>3. previous' \in [Threads -> Nat \cup {Wild}]
    BY <1>0, <1>15 DEF pass, Trailing, LocalType
  <2> QED BY <1>10, <1>15, <2>1, <2>2, <2>3 DEF pass, At
<1>16. CASE read_first(t) \/ head(t) \/ onward(t)
  <2>1. Moves
    BY <1>4, <1>5, <1>7, <1>16 DEF read_first, head, onward, Loop
  <2>2. Stays
    BY <1>2, <1>9, <1>12, <1>16 DEF read_first, head, onward, Loop
  <2> QED BY <1>10, <1>11, <1>16, <2>1, <2>2 DEF read_first, head, onward, At, Before
<1>17. CASE find(t) \/ free(t) \/ store(t) \/ sender(t) \/ status(t) \/ reset(t) \/ log_on(t)
  <2>1. Moves
    BY <1>4, <1>5, <1>7, <1>17 DEF find, free, store, sender, AtSender, status, reset, log_on
  <2>2. UNCHANGED localVars
    BY <1>17 DEF find, free, store, sender, AtSender, status, reset, log_on
  <2>3. pc[t] # "idle"
    BY <1>17 DEF find, free, store, sender, status, reset, log_on, At, Before
  <2> QED BY <1>8, <1>10, <1>11, <2>1, <2>2, <2>3 DEF localVars
<1> QED BY <1>13, <1>14, <1>15, <1>16, <1>17

\* The steps of every thread keep the types and what a call relies on.
LEMMA ThreadStep ==
  ASSUME TypeInv, NEW t \in Threads, RoomType' /\ Grows,
         \/ JoinStep(t) \/ ExitStep(t) \/ ForwardStep(t) \/ LoginStep(t) \/ dies(t)
         \/ leave(t) \/ \E o \in Requests[t] : request(t, o)
  PROVE  ThreadType' /\ LocalType' /\ \A u \in Threads : CallOf(u)'
<1>0. /\ ThreadType /\ LocalType /\ mem \in Seq(Participant)
      /\ \A u \in Threads : CallOf(u)
  BY DEF TypeInv, TypeOK, LocalType, ThreadType, Labels
<1>1. ASSUME NEW u \in Threads, pc'[u] = pc[u], op'[u] = op[u], held'[u] = held[u],
             conductor'[u] = conductor[u]
      PROVE  CallOf(u)'
  <2>1. CallOf(u)
    BY <1>0
  <2>2. (pc'[u] # "idle" => op'[u] \in Call) /\ (pc'[u] = "store" => held'[u] \in Nat \cup {Wild})
    BY <1>1, <2>1 DEF CallOf
  <2>3. ASSUME pc'[u] = "write"
        PROVE  conductor'[u] \in DOMAIN mem' /\ mem'[conductor'[u]].ptr_to_user \in Names
    BY <1>1, <2>1, <2>3 DEF CallOf, user, here, Grows
  <2> QED BY <2>2, <2>3 DEF CallOf, user, here
<1>2. ASSUME ThreadType' /\ LocalType' /\ Apart(t) /\ CallOf(t)'
      PROVE  ThreadType' /\ LocalType' /\ \A u \in Threads : CallOf(u)'
  <2>1. \A u \in Threads \ {t} : CallOf(u)'
    BY <1>1, <1>2 DEF Apart
  <2> QED BY <1>2, <2>1
<1>3. ASSUME ThreadType' /\ LocalType' /\ Apart(t),
             pc[t] # "idle" /\ pc'[t] \in Plain /\ (pc'[t] # "idle" => op'[t] = op[t])
      PROVE  ThreadType' /\ LocalType' /\ \A u \in Threads : CallOf(u)'
  <2>1. CallOf(t)'
    BY <1>0, <1>3 DEF CallOf, Plain
  <2> QED BY <1>2, <1>3, <2>1
<1>4. CASE \/ JoinStep(t)
           \/ read_previous(t) \/ read_first(t) \/ find(t) \/ pass(t) \/ free(t) \/ store(t)
           \/ head(t) \/ sender(t) \/ status(t) \/ reset(t) \/ onward(t)
           \/ log_on(t)
  BY <1>3, <1>4, WalkStep
<1>5. CASE load(t)
  <2>1. /\ pc[t] # "idle" /\ Goto(t, "store") /\ UNCHANGED <<conductor, previous>>
        /\ held' = [held EXCEPT ![t] = here(t).next_member] /\ conductor[t] \in DOMAIN mem
    BY <1>5 DEF load, At
  <2>2. here(t).next_member \in Nat \cup {Wild}
    <3>1. here(t) \in Participant
      BY <1>0, <2>1 DEF here
    <3> QED BY <3>1 DEF Participant
  <2>3. "store" \in Labels
    BY DEF Labels, Exiting
  <2>4. ThreadType' /\ pc'[t] = "store" /\ op'[t] = op[t]
        /\ \A u \in Threads \ {t} : pc'[u] = pc[u] /\ op'[u] = op[u]
    BY <2>1, <2>3, MoveType
  <2>5. LocalType' /\ held'[t] = here(t).next_member /\ \A u \in Threads \ {t} : held'[u] = held[u]
    BY <1>0, <2>1, <2>2 DEF LocalType
  <2>6. CallOf(t)'
    BY <1>0, <2>1, <2>2, <2>4, <2>5 DEF CallOf
  <2>7. Apart(t)
    BY <2>1, <2>4, <2>5 DEF Apart
  <2> QED BY <1>2, <2>4, <2>5, <2>6, <2>7
<1>6. CASE socket(t)
  <2>1. /\ pc[t] # "idle" /\ Goto(t, "write") /\ UNCHANGED <<conductor, previous, mem, users>>
        /\ held' = [held EXCEPT ![t] = users[user(t)].connfd] /\ conductor[t] \in DOMAIN mem
        /\ user(t) \in Names
    BY <1>6 DEF socket, At, roomVars
  <2>2. users[user(t)].connfd \in Threads
    BY <2>1 DEF TypeInv, TypeOK, User
  <2>3. "write" \in Labels
    BY DEF Labels, Forwarding
  <2>4. ThreadType' /\ pc'[t] = "write" /\ op'[t] = op[t]
        /\ \A u \in Threads \ {t} : pc'[u] = pc[u] /\ op'[u] = op[u]
    BY <2>1, <2>3, MoveType
  <2>5. LocalType' /\ \A u \in Threads \ {t} : held'[u] = held[u]
    BY <1>0, <2>1, <2>2 DEF LocalType
  <2>6. CallOf(t)'
    BY <1>0, <2>1, <2>4 DEF CallOf, user, here
  <2>7. Apart(t)
    BY <2>1, <2>4, <2>5 DEF Apart
  <2> QED BY <1>2, <2>4, <2>5, <2>6, <2>7
<1>7. CASE write(t)
  <2>1. /\ pc[t] = "write" /\ copies' = [copies EXCEPT ![t][user(t)] = @ + 1]
        /\ \E l \in {"reset", "onward"} : pc' = [pc EXCEPT ![t] = l]
        /\ UNCHANGED <<nick, gone, calls, op, answer, conductor, previous, held>>
    BY <1>7 DEF write, Before, clientVars, localVars
  <2>2. user(t) \in Names
    BY <1>0, <2>1 DEF CallOf
  <2>3. copies' \in [Threads -> [Names -> Nat]]
    BY <1>0, <2>1, <2>2 DEF ThreadType
  <2>4. {"reset", "onward"} \subseteq Labels
    BY DEF Labels, Forwarding
  <2>5. /\ pc' \in [Threads -> {"idle"} \cup Labels] /\ pc'[t] \in {"reset", "onward"}
        /\ \A u \in Threads \ {t} : pc'[u] = pc[u]
    BY <1>0, <2>1, <2>4 DEF ThreadType
  <2>6. ThreadType' /\ LocalType' /\ Apart(t)
    BY <1>0, <2>1, <2>3, <2>5 DEF ThreadType, LocalType, Apart
  <2> QED BY <1>3, <2>1, <2>4, <2>5, <2>6 DEF Plain
<1>8. CASE connect(t)
  <2>1. /\ pc[t] = "connect" /\ nick' = [nick EXCEPT ![t] = op[t].name]
        /\ pc' = [pc EXCEPT ![t] = "idle"] /\ op' = [op EXCEPT ![t] = None]
        /\ answer' = [answer EXCEPT ![t] = SUCCESS]
        /\ UNCHANGED <<gone, calls, copies, conductor, previous, held>>
    BY <1>8 DEF connect, Before, localVars
  <2>2. op[t].name \in Names
    BY <1>0, <2>1 DEF CallOf, Call
  <2>3. nick' \in [Threads -> Names \cup {None}] /\ op' \in [Threads -> Call \cup {None}]
    BY <1>0, <2>1, <2>2 DEF ThreadType
  <2>4. /\ pc' \in [Threads -> {"idle"} \cup Labels] /\ pc'[t] = "idle"
        /\ \A u \in Threads \ {t} : pc'[u] = pc[u] /\ op'[u] = op[u]
    BY <1>0, <2>1 DEF ThreadType
  <2>5. answer' \in [Threads -> Int \cup {None}]
    BY <1>0, <2>1 DEF ThreadType, SUCCESS
  <2>6. ThreadType' /\ LocalType' /\ Apart(t)
    BY <1>0, <2>1, <2>3, <2>4, <2>5 DEF ThreadType, LocalType, Apart
  <2>7. CallOf(t)'
    BY <2>4 DEF CallOf
  <2> QED BY <1>2, <2>6, <2>7
<1>9. CASE \E o \in Requests[t] : request(t, o)
  <2>1. PICK o \in Requests[t] : request(t, o)
    BY <1>9
  <2>2. o \in Call
    BY BoundsAssumption DEF Call
  <2>3. /\ pc' = [pc EXCEPT ![t] = Start(o.kind)] /\ op' = [op EXCEPT ![t] = o]
        /\ answer' = [answer EXCEPT ![t] = None] /\ calls' = [calls EXCEPT ![t] = @ + 1]
        /\ copies' = [copies EXCEPT ![t] = [n \in Names |-> 0]] /\ calls[t] < MaxCalls[t]
        /\ UNCHANGED <<nick, gone, conductor, previous, held>>
    BY <2>1 DEF request, localVars
  <2>4. Start(o.kind) \in Labels \ {"store", "write"}
    BY <2>2 DEF Start, Call, Labels, Joining, Exiting, Forwarding, LoggingIn
  <2>5. pc' \in [Threads -> {"idle"} \cup Labels] /\ pc'[t] \in Labels \ {"store", "write"}
        /\ \A u \in Threads \ {t} : pc'[u] = pc[u]
    BY <1>0, <2>3, <2>4 DEF ThreadType
  <2>6. op' \in [Threads -> Call \cup {None}] /\ op'[t] = o /\ \A u \in Threads \ {t} : op'[u] = op[u]
    BY <1>0, <2>2, <2>3 DEF ThreadType
  <2>7. calls' \in [Threads -> Nat] /\ \A v \in Threads : calls'[v] <= MaxCalls[v]
    <3>1. /\ calls' \in [Threads -> Nat] /\ calls'[t] = calls[t] + 1
          /\ \A v \in Threads \ {t} : calls'[v] = calls[v]
      BY <1>0, <2>3 DEF ThreadType
    <3>2. calls[t] \in Nat /\ MaxCalls[t] \in Nat /\ calls[t] < MaxCalls[t]
      <4>1. MaxCalls[t] \in Nat
        BY BoundsAssumption
      <4>2. calls[t] \in Nat
        BY <1>0 DEF ThreadType
      <4> QED BY <2>3, <4>1, <4>2
    <3>3. calls'[t] <= MaxCalls[t]
      BY <3>1, <3>2
    <3> QED BY <1>0, <3>1, <3>3 DEF ThreadType
  <2>8. answer' \in [Threads -> Int \cup {None}] /\ copies' \in [Threads -> [Names -> Nat]]
    BY <1>0, <2>3 DEF ThreadType
  <2>9. ThreadType' /\ LocalType' /\ Apart(t)
    BY <1>0, <2>3, <2>5, <2>6, <2>7, <2>8 DEF ThreadType, LocalType, Apart
  <2>10. CallOf(t)'
    BY <2>2, <2>5, <2>6 DEF CallOf
  <2> QED BY <1>2, <2>9, <2>10
<1>10. CASE leave(t) \/ dies(t)
  <2>1. /\ UNCHANGED <<nick, calls, pc, op, conductor, previous, held, answer, copies>>
        /\ gone' \in SUBSET Threads
    BY <1>0, <1>10 DEF leave, dies, localVars, clientVars, ThreadType
  <2>2. ThreadType' /\ LocalType' /\ \A u \in Threads : pc'[u] = pc[u] /\ op'[u] = op[u]
             /\ held'[u] = held[u] /\ conductor'[u] = conductor[u]
    BY <1>0, <2>1 DEF ThreadType, LocalType
  <2> QED BY <1>1, <2>2
<1> QED BY <1>4, <1>5, <1>6, <1>7, <1>8, <1>9, <1>10 DEF ExitStep, ForwardStep, LoginStep

\* What a thread does is one of these, and the history variables follow.
LEMMA TypeStep == TypeInv /\ [Next]_vars => TypeInv'
<1> SUFFICES ASSUME TypeInv, [Next]_vars PROVE TypeInv'
  OBVIOUS
<1>1. CASE Next
  <2>1. PICK t \in Threads :
          /\ Witness
          /\ \/ JoinStep(t) \/ ExitStep(t) \/ ForwardStep(t) \/ LoginStep(t) \/ dies(t)
             \/ leave(t) \/ \E o \in Requests[t] : request(t, o)
    BY <1>1 DEF Next, Run
  <2>2. RoomType' /\ Grows
    BY <2>1, RoomStep
  <2>3. ThreadType' /\ LocalType' /\ \A u \in Threads : CallOf(u)'
    BY <2>1, <2>2, ThreadStep
  <2>4. Members' \subseteq Names
    <3>1. (mem \in Seq(Participant))' => (Members \subseteq Names)'
      BY MembersType, PTL
    <3> QED BY <2>2, <3>1 DEF RoomType
  <2>5. must' \in [Threads -> SUBSET Names]
    BY <2>1, <2>4 DEF Witness, TypeInv, TypeOK
  <2>6. may' \in [Threads -> SUBSET Names]
    BY <2>1, <2>4 DEF Witness, TypeInv, TypeOK
  <2>7. left' \in [Threads -> SUBSET Names]
    <3>1. Members \subseteq Names
      BY MembersType DEF TypeInv, TypeOK
    <3> QED BY <2>1, <3>1 DEF Witness, TypeInv, TypeOK
  <2>8. came' \in [Threads -> SUBSET Names]
    BY <2>1, <2>4 DEF Witness, TypeInv, TypeOK
  <2> QED BY <2>2, <2>3, <2>5, <2>6, <2>7, <2>8 DEF TypeInv, TypeOK, RoomType, ThreadType, LocalType, Labels
<1>2. CASE UNCHANGED vars
  BY <1>2 DEF TypeInv, TypeOK, vars, roomVars, clientVars, localVars, CallOf, user, here
<1> QED BY <1>1, <1>2

\* Whatever the threads do to the list of participants and to the users, each variable
\* keeps its type: a pointer stored into the list is the address of a participant, null or
\* one at which there is no object (india_messages_server.c).
THEOREM MemberListTypeCorrect == Spec => []TypeOK
<1>1. TypeInv => TypeOK
  BY DEF TypeInv
<1> QED BY TypeInit, TypeStep, <1>1, PTL DEF Spec

-------------------------------------------------------------------------------
(* Who is logged off has left                                              *)

\* A thread is in the function its call names; only who has no name yet logs in.
Kind(t) ==
  /\ pc[t] \in Joining \cup Filling => op[t].kind = "join"
  /\ pc[t] \in Exiting => op[t].kind = "exit"
  /\ pc[t] \in Forwarding => op[t].kind = "forward"
  /\ pc[t] \in LoggingIn => op[t].kind = "login" /\ nick[t] = None

\* The participant at y has no user yet.
Unfilled(y) == y \in DOMAIN mem /\ mem[y].ptr_to_user \notin Names

\* What a thread that is filling a participant, or writing to a user, relies on.
Point(t) ==
  /\ pc[t] = "reload" =>
       conductor[t] \in DOMAIN mem
         /\ (here(t).next_member = Null \/ Unfilled(here(t).next_member))
  /\ pc[t] \in Filling => Unfilled(conductor[t])
  /\ pc[t] = "write" => held[t] \in Threads /\ nick[held[t]] = user(t)
  /\ pc[t] = "reset" =>
       conductor[t] \in DOMAIN mem /\ user(t) \in Names /\ \E g \in gone : nick[g] = user(t)

\* The connection in a user is one whose client has entered as that user.
Connected == \A n \in Names : nick[users[n].connfd] = n

LeftInv ==
  /\ TypeInv /\ OneWriter /\ Connected /\ OfflineHasLeft
  /\ \A t \in Threads : Kind(t) /\ Point(t)

\* Where the steps of each function lead, and what they leave alone.
LEMMA Course ==
  ASSUME TypeInv, NEW t \in Threads
  PROVE  /\ JoinStep(t) => /\ pc[t] \in Joining \cup Filling
                           /\ pc'[t] \in Joining \cup Filling \cup {"idle"}
                           /\ UNCHANGED <<clientVars, users>>
         /\ ExitStep(t) => /\ pc[t] \in Exiting /\ pc'[t] \in Exiting \cup {"idle"}
                           /\ UNCHANGED <<clientVars, users>>
         /\ ForwardStep(t) => /\ pc[t] \in Forwarding /\ pc'[t] \in Forwarding \cup {"idle"}
                              /\ UNCHANGED <<clientVars, mem>>
         /\ log_on(t) => /\ pc[t] = "online" /\ pc'[t] = "connect"
                         /\ UNCHANGED <<clientVars, mem>>
<1>1. \A l : Goto(t, l) => pc'[t] = l /\ UNCHANGED clientVars
  BY DEF Goto, TypeInv, TypeOK
<1>2. \A a : Return(t, a) => pc'[t] = "idle" /\ UNCHANGED clientVars
  BY DEF Return, TypeInv, TypeOK
<1>3. ASSUME JoinStep(t)
      PROVE  /\ pc[t] \in Joining \cup Filling /\ pc'[t] \in Joining \cup Filling \cup {"idle"}
             /\ UNCHANGED <<clientVars, users>>
  <2>1. CASE look(t) \/ compare(t) \/ next(t) \/ again(t) \/ first_node(t)
    BY <1>1, <1>2, <2>1 DEF look, compare, next, again, first_node, Loop, At, Before, Joining,
       Filling, roomVars
  <2>2. CASE tail(t) \/ advance(t) \/ append(t) \/ reload(t)
    BY <1>1, <1>2, <2>2 DEF tail, advance, append, reload, Loop, At, Before, Joining, Filling,
       roomVars
  <2>3. CASE clear(t) \/ store_name(t) \/ store_user(t)
    BY <1>1, <1>2, <2>3 DEF clear, store_name, store_user, At, Joining, Filling
  <2> QED BY <1>3, <2>1, <2>2, <2>3 DEF JoinStep
<1>4. ASSUME ExitStep(t)
      PROVE  /\ pc[t] \in Exiting /\ pc'[t] \in Exiting \cup {"idle"}
             /\ UNCHANGED <<clientVars, users>>
  BY <1>1, <1>2, <1>4 DEF ExitStep, read_previous, read_first, find, pass, load, store, free,
     Loop, At, Before, Exiting, roomVars
<1>5. ASSUME ForwardStep(t)
      PROVE  /\ pc[t] \in Forwarding /\ pc'[t] \in Forwarding \cup {"idle"}
             /\ UNCHANGED <<clientVars, mem>>
  <2>1. CASE write(t)
    <3>1. pc'[t] \in {"reset", "onward"}
      BY <2>1 DEF write, TypeInv, TypeOK
    <3> QED BY <2>1, <3>1 DEF write, Before, Forwarding, roomVars
  <2>2. CASE head(t) \/ sender(t) \/ status(t) \/ socket(t) \/ reset(t) \/ onward(t)
    BY <1>1, <1>2, <2>2 DEF head, sender, AtSender, status, socket, reset, onward, Loop, At, Before,
       Forwarding, roomVars
  <2> QED BY <1>5, <2>1, <2>2 DEF ForwardStep
<1>6. ASSUME log_on(t)
      PROVE pc[t] = "online" /\ pc'[t] = "connect" /\ UNCHANGED <<clientVars, mem>>
  BY <1>1, <1>6 DEF log_on, Before
<1> QED BY <1>3, <1>4, <1>5, <1>6

\* A thread in one function is in no other.
LEMMA LabelsApart ==
  /\ "idle" \notin Joining \cup Filling \cup Exiting \cup Forwarding \cup LoggingIn
  /\ (Joining \cup Filling) \cap (Exiting \cup Forwarding \cup LoggingIn) = {}
  /\ Exiting \cap (Forwarding \cup LoggingIn) = {} /\ Forwarding \cap LoggingIn = {}
BY DEF Joining, Filling, Exiting, Forwarding, LoggingIn

\* The names clients have entered under and the connections closed stay so, and
\* a call is of the kind its thread works on.
LEMMA KindStep ==
  ASSUME TypeInv, \A v \in Threads : Kind(v), NEW t \in Threads,
         \/ JoinStep(t) \/ ExitStep(t) \/ ForwardStep(t) \/ LoginStep(t) \/ dies(t)
         \/ leave(t) \/ \E o \in Requests[t] : request(t, o)
  PROVE  /\ \A v \in Threads : Kind(v)'
         /\ gone \subseteq gone' /\ \A v \in Threads : nick[v] \in Names => nick'[v] = nick[v]
<1>0. RoomType' /\ Grows
  BY RoomStep
<1>1. ASSUME NEW v \in Threads, pc'[v] = pc[v], op'[v] = op[v], nick'[v] = nick[v]
      PROVE  Kind(v)'
  <2>1. Kind(v)
    OBVIOUS
  <2> QED BY <1>1, <2>1 DEF Kind
<1>2. ASSUME Apart(t), UNCHANGED <<nick, gone>>, Kind(t)'
      PROVE  /\ \A v \in Threads : Kind(v)'
             /\ gone \subseteq gone' /\ \A v \in Threads : nick[v] \in Names => nick'[v] = nick[v]
  <2>1. \A v \in Threads \ {t} : Kind(v)'
    BY <1>1, <1>2 DEF Apart
  <2> QED BY <1>2, <2>1
<1>3. Kind(t)
  OBVIOUS
<1>4. CASE \/ JoinStep(t) \/ read_previous(t) \/ read_first(t) \/ find(t) \/ pass(t) \/ free(t)
           \/ store(t) \/ head(t) \/ sender(t) \/ status(t) \/ reset(t) \/ onward(t) \/ log_on(t)
  <2>1. Apart(t) /\ (pc'[t] # "idle" => op'[t] = op[t])
    BY <1>0, <1>4, WalkStep
  <2>2. UNCHANGED <<nick, gone>> /\ Kind(t)'
    <3>1. CASE JoinStep(t)
      BY <1>3, <2>1, <3>1, Course, LabelsApart DEF Kind, clientVars
    <3>2. CASE ExitStep(t)
      BY <1>3, <2>1, <3>2, Course, LabelsApart DEF Kind, clientVars
    <3>3. CASE ForwardStep(t)
      BY <1>3, <2>1, <3>3, Course, LabelsApart DEF Kind, clientVars
    <3>4. CASE log_on(t)
      <4>1. {"online", "connect"} \subseteq LoggingIn
        BY DEF LoggingIn
      <4> QED BY <1>3, <2>1, <3>4, <4>1, Course, LabelsApart DEF Kind, clientVars
    <3> QED BY <1>4, <3>1, <3>2, <3>3, <3>4 DEF ExitStep, ForwardStep
  <2> QED BY <1>2, <2>1, <2>2
<1>5. CASE load(t) \/ socket(t) \/ write(t)
  <2>1. Apart(t) /\ op'[t] = op[t]
    BY <1>5 DEF load, socket, write, Goto, Apart, TypeInv, TypeOK, localVars
  <2>2. /\ load(t) => pc[t] \in Exiting /\ pc'[t] \in Exiting \cup {"idle"}
                        /\ UNCHANGED <<nick, gone>>
        /\ socket(t) \/ write(t) => pc[t] \in Forwarding /\ pc'[t] \in Forwarding \cup {"idle"}
                        /\ UNCHANGED <<nick, gone>>
    BY Course DEF ExitStep, ForwardStep, clientVars
  <2>3. Kind(t)'
    BY <1>3, <1>5, <2>1, <2>2, LabelsApart DEF Kind
  <2> QED BY <1>2, <1>5, <2>1, <2>2, <2>3
<1>6. CASE connect(t)
  <2>1. /\ pc[t] = "connect" /\ nick' = [nick EXCEPT ![t] = op[t].name]
        /\ pc' = [pc EXCEPT ![t] = "idle"] /\ op' = [op EXCEPT ![t] = None] /\ UNCHANGED gone
    BY <1>6 DEF connect, Before
  <2>2. /\ pc'[t] = "idle"
        /\ \A v \in Threads \ {t} : pc'[v] = pc[v] /\ op'[v] = op[v] /\ nick'[v] = nick[v]
    BY <2>1 DEF TypeInv, TypeOK
  <2>3. Kind(t)'
    BY <2>2, LabelsApart DEF Kind
  <2>4. \A v \in Threads \ {t} : Kind(v)'
    BY <1>1, <2>2
  <2>5. nick[t] = None
    <3>1. pc[t] \in LoggingIn
      BY <2>1 DEF LoggingIn
    <3> QED BY <1>3, <3>1 DEF Kind
  <2> QED BY <2>1, <2>2, <2>3, <2>4, <2>5, NoneAssumption
<1>7. CASE \E o \in Requests[t] : request(t, o)
  <2>1. PICK o \in Requests[t] : request(t, o)
    BY <1>7
  <2>2. o \in Call
    BY BoundsAssumption DEF Call
  <2>3. /\ pc' = [pc EXCEPT ![t] = Start(o.kind)] /\ op' = [op EXCEPT ![t] = o]
        /\ UNCHANGED <<nick, gone, conductor, held>>
        /\ IF nick[t] = None THEN o.kind = "login" ELSE o.kind # "login"
    BY <2>1 DEF request, localVars
  <2>4. /\ pc'[t] = Start(o.kind) /\ op'[t] = o
        /\ \A v \in Threads \ {t} : pc'[v] = pc[v] /\ op'[v] = op[v]
    BY <2>3 DEF TypeInv, TypeOK
  <2>5. Apart(t)
    BY <2>3, <2>4 DEF Apart
  <2>6. /\ o.kind = "join" => pc'[t] \in Joining
        /\ o.kind = "exit" => pc'[t] \in Exiting
        /\ o.kind = "forward" => pc'[t] \in Forwarding
        /\ o.kind = "login" => pc'[t] \in LoggingIn
        /\ o.kind \in {"join", "exit", "forward", "login"}
    BY <2>2, <2>4 DEF Start, Call, Joining, Exiting, Forwarding, LoggingIn
  <2>7. Kind(t)'
    BY <2>3, <2>4, <2>6, LabelsApart DEF Kind
  <2> QED BY <1>2, <2>3, <2>5, <2>7
<1>8. CASE leave(t) \/ dies(t)
  <2>1. UNCHANGED <<pc, op, nick>> /\ gone \subseteq gone'
    BY <1>8 DEF leave, dies, clientVars
  <2> QED BY <1>1, <2>1
<1> QED BY <1>4, <1>5, <1>6, <1>7, <1>8 DEF ExitStep, ForwardStep, LoginStep

\* Under one writer, only the thread that joins or exits changes the list, and a user
\* once stored into a participant stays there (join_chatroom, exit_chatroom).
Kept ==
  /\ DOMAIN mem \subseteq DOMAIN mem'
  /\ \A y \in DOMAIN mem :
       mem[y].ptr_to_user \in Names => mem'[y].ptr_to_user = mem[y].ptr_to_user

LEMMA KeptStep ==
  ASSUME TypeInv, NEW t \in Threads, Point(t),
         \/ JoinStep(t) \/ ExitStep(t) \/ ForwardStep(t) \/ LoginStep(t) \/ dies(t)
         \/ leave(t) \/ \E o \in Requests[t] : request(t, o)
  PROVE  Kept /\ (UNCHANGED mem \/ JoinStep(t) \/ ExitStep(t))
<1>0. mem \in Seq(Participant) /\ Len(mem) \in Nat /\ DOMAIN mem = 1 .. Len(mem)
  BY DEF TypeInv, TypeOK
<1>1. UNCHANGED mem => Kept
  BY DEF Kept
<1>2. ASSUME NEW y \in DOMAIN mem, NEW p, p.ptr_to_user = mem[y].ptr_to_user \/ Unfilled(y)
      PROVE  mem' = [mem EXCEPT ![y] = p] => Kept
  BY <1>0, <1>2 DEF Kept, Unfilled
<1>3. ASSUME NEW l, At(t, l) PROVE conductor[t] \in DOMAIN mem /\ here(t) \in Participant
  BY <1>0, <1>3 DEF At, here
<1>4. CASE first_node(t)
  <2>1. CASE \E u \in FreshUser, n \in FreshNext : mem' = Append(mem, Fresh(u, n))
    <3>1. PICK u \in FreshUser, n \in FreshNext : mem' = Append(mem, Fresh(u, n))
      BY <2>1
    <3>2. DOMAIN mem' = 1 .. (Len(mem) + 1) /\ \A y \in DOMAIN mem : mem'[y] = mem[y]
      BY <1>0, <3>1
    <3> QED BY <1>0, <1>4, <3>2 DEF Kept, JoinStep
  <2> QED BY <1>1, <1>4, <2>1 DEF first_node, JoinStep
<1>5. CASE append(t)
  <2> DEFINE c == conductor[t]
  <2>1. c \in DOMAIN mem /\ mem[c] \in Participant /\ here(t) = mem[c]
    BY <1>3, <1>5 DEF append, here
  <2>2. CASE Store(t, [here(t) EXCEPT !.next_member = Null])
    <3>1. [here(t) EXCEPT !.next_member = Null].ptr_to_user = mem[c].ptr_to_user
      BY <2>1 DEF Participant
    <3> QED BY <1>2, <1>5, <2>1, <2>2, <3>1 DEF Store, JoinStep
  <2>3. CASE \E u \in FreshUser, n \in FreshNext :
               mem' = Append([mem EXCEPT ![c].next_member = Len(mem) + 1], Fresh(u, n))
    <3>1. PICK u \in FreshUser, n \in FreshNext :
            mem' = Append([mem EXCEPT ![c].next_member = Len(mem) + 1], Fresh(u, n))
      BY <2>3
    <3> DEFINE p == [mem[c] EXCEPT !.next_member = Len(mem) + 1]
               m == [mem EXCEPT ![c] = p]
    <3>2. p.ptr_to_user = mem[c].ptr_to_user /\ p \in Participant
      BY <1>0, <2>1 DEF Participant
    <3>3. mem' = Append(m, Fresh(u, n))
      BY <3>1
    <3> HIDE DEF p
    <3>4. m \in Seq(Participant) /\ Len(m) = Len(mem) /\ m[c] = p
          /\ \A y \in DOMAIN mem \ {c} : m[y] = mem[y]
      BY <1>0, <2>1, <3>2
    <3> HIDE DEF m
    <3>5. DOMAIN mem' = 1 .. (Len(mem) + 1) /\ \A y \in DOMAIN mem : mem'[y] = m[y]
      BY <1>0, <3>3, <3>4
    <3>6. Kept
      BY <1>0, <3>2, <3>4, <3>5 DEF Kept
    <3> QED BY <1>5, <3>6 DEF JoinStep
  <2> QED BY <1>5, <2>2, <2>3 DEF append
<1>6. CASE clear(t) \/ store_name(t)
  <2>1. conductor[t] \in DOMAIN mem /\ here(t) \in Participant /\ here(t) = mem[conductor[t]]
    BY <1>3, <1>6 DEF clear, store_name, here
  <2>2. \E p : p.ptr_to_user = here(t).ptr_to_user /\ Store(t, p)
    <3>1. /\ [here(t) EXCEPT !.next_member = Null].ptr_to_user = here(t).ptr_to_user
          /\ [here(t) EXCEPT !.name = op[t].name].ptr_to_user = here(t).ptr_to_user
      BY <2>1 DEF Participant
    <3> QED BY <1>6, <3>1 DEF clear, store_name, Cleared
  <2> QED BY <1>2, <1>6, <2>1, <2>2 DEF Store, JoinStep
<1>7. CASE store_user(t)
  <2>1. pc[t] = "user" /\ \E p : Store(t, p)
    BY <1>7 DEF store_user, At
  <2>2. Unfilled(conductor[t])
    BY <2>1 DEF Point, Filling
  <2> QED BY <1>2, <1>7, <2>1, <2>2 DEF Store, JoinStep, Unfilled
<1>8. CASE store(t)
  <2> DEFINE r == previous[t]
             p == [mem[r] EXCEPT !.next_member = held[t]]
  <2>1. r \in DOMAIN mem /\ mem[r] \in Participant /\ mem' = [mem EXCEPT ![r] = p]
    BY <1>0, <1>8 DEF store
  <2>2. p.ptr_to_user = mem[r].ptr_to_user
    BY <2>1 DEF Participant
  <2> QED BY <1>2, <1>8, <2>1, <2>2 DEF ExitStep
<1>9. CASE free(t)
  <2> DEFINE p == [here(t) EXCEPT !.name = None, !.freed = TRUE]
  <2>1. conductor[t] \in DOMAIN mem /\ here(t) \in Participant /\ here(t) = mem[conductor[t]]
        /\ mem' = [mem EXCEPT ![conductor[t]] = p]
    BY <1>3, <1>9 DEF free, here, Store
  <2>2. p.ptr_to_user = here(t).ptr_to_user
    BY <2>1 DEF Participant
  <2> QED BY <1>2, <1>9, <2>1, <2>2 DEF ExitStep
<1>10. CASE UNCHANGED mem
  BY <1>1, <1>10
<1>11. CASE look(t) \/ compare(t) \/ next(t) \/ again(t) \/ tail(t) \/ advance(t) \/ reload(t)
            \/ read_previous(t) \/ read_first(t) \/ find(t) \/ pass(t) \/ load(t)
  BY <1>10, <1>11 DEF look, compare, next, again, tail, advance, reload, read_previous, read_first,
     find, pass, load, roomVars
<1>12. CASE ForwardStep(t) \/ log_on(t) \/ connect(t) \/ dies(t) \/ leave(t)
            \/ \E o \in Requests[t] : request(t, o)
  BY <1>10, <1>12, Course DEF connect, dies, leave, request, roomVars
<1> QED BY <1>4, <1>5, <1>6, <1>7, <1>8, <1>9, <1>11, <1>12 DEF JoinStep, ExitStep, LoginStep

\* The participant malloc has returned has no user before the last store into it.
LEMMA PointStep ==
  ASSUME LeftInv, NEW t \in Threads,
         \/ JoinStep(t) \/ ExitStep(t) \/ ForwardStep(t) \/ LoginStep(t) \/ dies(t)
         \/ leave(t) \/ \E o \in Requests[t] : request(t, o)
  PROVE  \A v \in Threads : Point(v)'
<1>0. TypeInv /\ OneWriter /\ Connected /\ \A v \in Threads : Kind(v) /\ Point(v)
  BY DEF LeftInv
<1>1. Kept /\ (UNCHANGED mem \/ JoinStep(t) \/ ExitStep(t))
  BY <1>0, KeptStep
<1>2. gone \subseteq gone' /\ \A v \in Threads : nick[v] \in Names => nick'[v] = nick[v]
  BY <1>0, KindStep
<1>3. gone \subseteq Threads /\ \A v \in Threads : CallOf(v)
  BY <1>0 DEF TypeInv, TypeOK
<1>4. ASSUME NEW v \in Threads, pc'[v] = pc[v], held'[v] = held[v], conductor'[v] = conductor[v]
      PROVE  (pc'[v] = "write" => held'[v] \in Threads /\ nick'[held'[v]] = user(v)')
             /\ (pc'[v] = "reset" => /\ conductor'[v] \in DOMAIN mem' /\ user(v)' \in Names
                                      /\ \E g \in gone' : nick'[g] = user(v)')
  <2>1. Point(v) /\ CallOf(v)
    BY <1>0, <1>3
  <2>2. ASSUME pc'[v] = "write" PROVE held'[v] \in Threads /\ nick'[held'[v]] = user(v)'
    <3>1. held[v] \in Threads /\ nick[held[v]] = user(v) /\ user(v) \in Names /\ conductor[v] \in DOMAIN mem
      BY <1>4, <2>1, <2>2 DEF Point, CallOf
    <3>2. user(v)' = user(v)
      BY <1>1, <1>4, <3>1 DEF user, here, Kept
    <3> QED BY <1>2, <1>4, <3>1, <3>2
  <2>3. ASSUME pc'[v] = "reset"
        PROVE  /\ conductor'[v] \in DOMAIN mem' /\ user(v)' \in Names
               /\ \E g \in gone' : nick'[g] = user(v)'
    <3>1. /\ conductor[v] \in DOMAIN mem /\ user(v) \in Names
          /\ \E g \in gone : nick[g] = user(v)
      BY <1>4, <2>1, <2>3 DEF Point
    <3>2. user(v)' = user(v) /\ conductor'[v] \in DOMAIN mem'
      BY <1>1, <1>4, <3>1 DEF user, here, Kept
    <3>3. PICK g \in gone : nick[g] = user(v)
      BY <3>1
    <3>4. g \in gone' /\ nick'[g] = user(v)'
      BY <1>2, <1>3, <3>1, <3>2, <3>3
    <3> QED BY <3>1, <3>2, <3>4
  <2> QED BY <2>2, <2>3
<1>5. ASSUME NEW v \in Threads, pc'[v] = pc[v], held'[v] = held[v], conductor'[v] = conductor[v],
             pc[v] \in Filling \cup {"reload"} => UNCHANGED mem
      PROVE  Point(v)'
  <2>1. Point(v)
    BY <1>0
  <2>2. /\ pc'[v] = "reload" =>
             conductor'[v] \in DOMAIN mem'
               /\ (here(v)'.next_member = Null \/ Unfilled(here(v).next_member)')
        /\ pc'[v] \in Filling => Unfilled(conductor[v])'
    BY <1>5, <2>1 DEF Point, here, Unfilled
  <2> QED BY <1>4, <1>5, <2>2 DEF Point
<1>6. ASSUME JoinStep(t) \/ ExitStep(t), NEW v \in Threads \ {t} PROVE pc[v] \notin Filling \cup {"reload"}
  <2>1. Writing(t)
    BY <1>0, <1>6, Course, LabelsApart DEF Kind, Writing
  <2>2. ~ Writing(v)
    BY <1>0, <1>6, <2>1 DEF OneWriter
  <2>3. ASSUME pc[v] \in Joining \cup Filling PROVE FALSE
    BY <1>0, <2>2, <2>3, LabelsApart DEF Kind, Writing
  <2> QED BY <2>3 DEF Joining
<1>7. ASSUME Apart(t), Point(t)' PROVE \A v \in Threads : Point(v)'
  <2>1. \A v \in Threads \ {t} : Point(v)'
    BY <1>1, <1>5, <1>6, <1>7 DEF Apart
  <2> QED BY <1>7, <2>1
<1>8. RoomType' /\ Grows
  BY <1>0, RoomStep
<1>9. \A l : Goto(t, l) => pc'[t] = l
  BY <1>0 DEF Goto, TypeInv, TypeOK
<1>10. \A a : Return(t, a) => pc'[t] = "idle"
  BY <1>0 DEF Return, TypeInv, TypeOK
<1>11. ASSUME pc'[t] \notin Filling \cup {"reload", "write", "reset"} PROVE Point(t)'
  BY <1>11 DEF Point
<1>12. \A y : Follow(t, y) => conductor'[t] = y
  BY <1>0 DEF Follow, TypeInv, TypeOK
<1>13. CASE first_node(t) \/ append(t) \/ reload(t) \/ clear(t) \/ store_name(t)
  <2>1. Apart(t)
    BY <1>0, <1>8, <1>13, WalkStep DEF JoinStep
  <2>2. Point(t)'
    <3>0. mem \in Seq(Participant) /\ Len(mem) \in Nat /\ DOMAIN mem = 1 .. Len(mem) /\ Point(t)
      BY <1>0 DEF TypeInv, TypeOK
    <3>1. \A u \in FreshUser, n \in FreshNext : Fresh(u, n).ptr_to_user \notin Names
      BY FreshAssumption, NoneAssumption DEF Fresh
    <3>2. "clear" \in Filling /\ "name" \in Filling /\ "user" \in Filling
          /\ \A l \in Filling : l \notin {"reload", "write", "reset"}
      BY DEF Filling
    <3>3. ASSUME pc'[t] \in Filling, Unfilled(conductor[t])' PROVE Point(t)'
      BY <3>2, <3>3 DEF Point
    <3>4. CASE first_node(t)
      <4>1. CASE \E u \in FreshUser, n \in FreshNext :
                   /\ mem' = Append(mem, Fresh(u, n)) /\ member' = Len(mem) + 1
                   /\ Follow(t, member') /\ Goto(t, "clear")
        <5>1. PICK u \in FreshUser, n \in FreshNext :
                   /\ mem' = Append(mem, Fresh(u, n)) /\ member' = Len(mem) + 1
                   /\ Follow(t, member') /\ Goto(t, "clear")
          BY <4>1
        <5>2. conductor'[t] = Len(mem) + 1
          BY <1>12, <5>1
        <5>3. DOMAIN mem' = 1 .. (Len(mem) + 1) /\ mem'[Len(mem) + 1] = Fresh(u, n)
          BY <3>0, <5>1
        <5>4. Unfilled(conductor[t])'
          BY <3>0, <3>1, <5>2, <5>3 DEF Unfilled
        <5> QED BY <1>9, <3>2, <3>3, <5>1, <5>4
      <4> QED BY <1>10, <1>11, <3>4, <4>1 DEF first_node, Filling
    <3>5. CASE append(t)
      <4> DEFINE c == conductor[t]
      <4>1. /\ c \in DOMAIN mem /\ mem[c] \in Participant /\ here(t) = mem[c] /\ pc'[t] = "reload"
            /\ conductor'[t] = c
        BY <1>9, <3>0, <3>5 DEF append, At, here, localVars
      <4>2. CASE Store(t, [here(t) EXCEPT !.next_member = Null])
        <5>1. mem'[c].next_member = Null /\ c \in DOMAIN mem'
          BY <3>0, <4>1, <4>2 DEF Store, Participant
        <5> QED BY <4>1, <5>1 DEF Point, here, Filling
      <4>3. CASE \E u \in FreshUser, n \in FreshNext :
                   mem' = Append([mem EXCEPT ![c].next_member = Len(mem) + 1], Fresh(u, n))
        <5>1. PICK u \in FreshUser, n \in FreshNext :
                mem' = Append([mem EXCEPT ![c].next_member = Len(mem) + 1], Fresh(u, n))
          BY <4>3
        <5> DEFINE p == [mem[c] EXCEPT !.next_member = Len(mem) + 1]
                   m == [mem EXCEPT ![c] = p]
        <5>2. p.next_member = Len(mem) + 1 /\ p \in Participant
          BY <3>0, <4>1 DEF Participant
        <5>3. mem' = Append(m, Fresh(u, n))
          BY <5>1
        <5> HIDE DEF p
        <5>4. m \in Seq(Participant) /\ Len(m) = Len(mem) /\ m[c] = p
          BY <3>0, <4>1, <5>2
        <5> HIDE DEF m
        <5>5. DOMAIN mem' = 1 .. (Len(mem) + 1) /\ mem'[c] = p /\ mem'[Len(mem) + 1] = Fresh(u, n)
          BY <3>0, <4>1, <5>3, <5>4
        <5>6. here(t)'.next_member = Len(mem) + 1 /\ conductor'[t] \in DOMAIN mem'
          BY <3>0, <4>1, <5>2, <5>5 DEF here
        <5>7. Unfilled(here(t).next_member)'
          BY <3>0, <3>1, <5>5, <5>6 DEF Unfilled
        <5> QED BY <4>1, <5>6, <5>7 DEF Point, Filling
      <4> QED BY <3>5, <4>2, <4>3 DEF append
    <3>6. CASE reload(t)
      <4>1. /\ pc[t] = "reload" /\ UNCHANGED mem
            /\ Follow(t, here(t).next_member)
            /\ \/ here(t).next_member = Null /\ Return(t, OUT_OF_MEMORY)
               \/ here(t).next_member # Null /\ Goto(t, "clear")
        BY <3>6 DEF reload, At, Loop, roomVars
      <4>2. CASE Return(t, OUT_OF_MEMORY)
        BY <1>10, <1>11, <4>2 DEF Filling
      <4>3. CASE here(t).next_member # Null /\ Goto(t, "clear")
        <5>1. Unfilled(here(t).next_member)
          BY <3>0, <4>1, <4>3 DEF Point
        <5>2. Unfilled(conductor[t])'
          BY <1>12, <4>1, <5>1 DEF Unfilled
        <5> QED BY <1>9, <3>2, <3>3, <4>3, <5>2
      <4> QED BY <4>1, <4>2, <4>3
    <3>7. CASE clear(t) \/ store_name(t)
      <4>1. /\ pc[t] \in Filling /\ pc'[t] \in Filling /\ conductor'[t] = conductor[t]
            /\ Unfilled(conductor[t])
        BY <1>9, <3>0, <3>2, <3>7 DEF clear, store_name, At, Point, localVars
      <4>2. here(t) = mem[conductor[t]] /\ conductor[t] \in DOMAIN mem /\ here(t) \in Participant
        BY <3>0, <4>1 DEF here, Unfilled
      <4>3. \E p : p.ptr_to_user = here(t).ptr_to_user /\ Store(t, p)
        <5>1. /\ [here(t) EXCEPT !.next_member = Null].ptr_to_user = here(t).ptr_to_user
              /\ [here(t) EXCEPT !.name = op[t].name].ptr_to_user = here(t).ptr_to_user
          BY <4>2 DEF Participant
        <5> QED BY <3>7, <5>1 DEF clear, store_name, Cleared
      <4>4. Unfilled(conductor[t])'
        BY <3>0, <4>1, <4>2, <4>3 DEF Store, Unfilled
      <4> QED BY <3>3, <4>1, <4>4
    <3> QED BY <1>13, <3>4, <3>5, <3>6, <3>7
  <2> QED BY <1>7, <2>1, <2>2
<1>14. CASE socket(t)
  <2>1. /\ Apart(t) /\ pc'[t] = "write" /\ UNCHANGED <<mem, conductor, nick>>
        /\ held' = [held EXCEPT ![t] = users[user(t)].connfd] /\ user(t) \in Names
    BY <1>0, <1>14 DEF socket, Goto, Apart, TypeInv, TypeOK, roomVars, clientVars
  <2>2. users[user(t)].connfd \in Threads /\ nick[users[user(t)].connfd] = user(t)
    BY <1>0, <2>1 DEF TypeInv, TypeOK, User, Connected
  <2>3. held'[t] = users[user(t)].connfd
    BY <1>0, <2>1 DEF TypeInv, TypeOK
  <2>4. Point(t)'
    BY <2>1, <2>2, <2>3 DEF Point, user, here, Filling
  <2> QED BY <1>7, <2>1, <2>4
<1>15. CASE write(t)
  <2>1. /\ pc[t] = "write"
        /\ \/ pc' = [pc EXCEPT ![t] = "onward"]
           \/ Fails(held[t]) /\ pc' = [pc EXCEPT ![t] = "reset"]
        /\ UNCHANGED <<mem, nick, gone, op, conductor, held>>
    BY <1>15 DEF write, Before, roomVars, clientVars, localVars
  <2>2. /\ pc'[t] = "onward" \/ (pc'[t] = "reset" /\ Fails(held[t]))
        /\ \A v \in Threads \ {t} : pc'[v] = pc[v]
    BY <1>0, <2>1 DEF TypeInv, TypeOK
  <2>3. Apart(t)
    BY <2>1, <2>2 DEF Apart
  <2>4. /\ conductor[t] \in DOMAIN mem /\ user(t) \in Names /\ held[t] \in Threads
        /\ nick[held[t]] = user(t)
    BY <1>0, <1>3, <2>1 DEF CallOf, Point
  <2>5. Point(t)'
    BY <2>1, <2>2, <2>4 DEF Point, user, here, Filling, Fails
  <2> QED BY <1>7, <2>3, <2>5
<1>16. CASE \E o \in Requests[t] : request(t, o)
  <2>1. PICK o \in Requests[t] : request(t, o)
    BY <1>16
  <2>2. /\ pc' = [pc EXCEPT ![t] = Start(o.kind)] /\ op' = [op EXCEPT ![t] = o]
        /\ UNCHANGED <<conductor, held>> /\ o \in Call
    BY <2>1, BoundsAssumption DEF request, localVars, Call
  <2>3. /\ pc'[t] = Start(o.kind)
        /\ \A v \in Threads \ {t} : pc'[v] = pc[v] /\ op'[v] = op[v]
    BY <1>0, <2>2 DEF TypeInv, TypeOK
  <2>4. Apart(t)
    BY <2>2, <2>3 DEF Apart
  <2>5. pc'[t] \notin Filling \cup {"reload", "write", "reset"}
    BY <2>2, <2>3 DEF Start, Call, Filling
  <2> QED BY <1>7, <1>11, <2>4, <2>5
<1>17. CASE dies(t) \/ leave(t)
  <2>1. UNCHANGED <<pc, held, conductor, mem>>
    BY <1>17 DEF dies, leave, localVars, roomVars
  <2> QED BY <1>5, <2>1
<1>18. CASE load(t) \/ connect(t)
  <2>1. Apart(t) /\ pc'[t] \in {"store", "idle"}
    BY <1>0, <1>18 DEF load, connect, Goto, Apart, TypeInv, TypeOK, localVars
  <2> QED BY <1>7, <1>11, <2>1 DEF Filling
<1>19. CASE \/ look(t) \/ compare(t) \/ next(t) \/ again(t) \/ tail(t) \/ advance(t)
            \/ store_user(t)
            \/ read_previous(t) \/ read_first(t) \/ find(t) \/ pass(t) \/ free(t) \/ store(t)
            \/ head(t) \/ sender(t) \/ status(t) \/ reset(t) \/ onward(t) \/ log_on(t)
  <2>1. Apart(t)
    BY <1>0, <1>8, <1>19, WalkStep DEF JoinStep
  <2>2. pc'[t] \in {"idle", "compare", "next", "again", "first node", "tail", "advance", "append",
                    "first", "find", "pass", "load", "free", "sender", "status", "socket",
                    "onward", "connect"}
    BY <1>9, <1>10, <1>19 DEF look, compare, next, again, tail, advance, store_user, read_previous,
       read_first, find, pass, free, store, head, sender, AtSender, status, reset, onward, log_on, Loop
  <2> QED BY <1>7, <1>11, <2>1, <2>2 DEF Filling
<1> QED BY <1>13, <1>14, <1>15, <1>16, <1>17, <1>18, <1>19
        DEF JoinStep, ExitStep, ForwardStep, LoginStep

\* A user's connection, and why one is logged off, in every step.
LEMMA LeftStep ==
  ASSUME LeftInv, NEW t \in Threads,
         \/ JoinStep(t) \/ ExitStep(t) \/ ForwardStep(t) \/ LoginStep(t) \/ dies(t)
         \/ leave(t) \/ \E o \in Requests[t] : request(t, o)
  PROVE  Connected' /\ OfflineHasLeft'
<1>0. /\ TypeInv /\ Connected /\ OfflineHasLeft /\ Kind(t) /\ Point(t) /\ CallOf(t)
      /\ \A v \in Threads : Kind(v)
      /\ users \in [Names -> User] /\ gone \subseteq Threads
      /\ nick \in [Threads -> Names \cup {None}]
  BY DEF LeftInv, TypeInv, TypeOK
<1>1. gone \subseteq gone' /\ \A v \in Threads : nick[v] \in Names => nick'[v] = nick[v]
  BY <1>0, KindStep
<1>2. \A n \in Names : users[n].connfd \in Threads /\ nick[users[n].connfd] = n
  BY <1>0 DEF User, Connected
<1>3. \A n \in Names : (\E g \in gone : nick[g] = n) => \E g \in gone' : nick'[g] = n
  <2> SUFFICES ASSUME NEW n \in Names, NEW g \in gone, nick[g] = n
               PROVE  \E h \in gone' : nick'[h] = n
    OBVIOUS
  <2>1. g \in gone' /\ nick'[g] = n
    BY <1>0, <1>1
  <2> QED BY <2>1
<1>4. CASE UNCHANGED users
  <2>1. Connected'
    BY <1>1, <1>2, <1>4 DEF Connected
  <2>2. OfflineHasLeft'
    BY <1>0, <1>3, <1>4 DEF OfflineHasLeft
  <2> QED BY <2>1, <2>2
<1>5. CASE reset(t)
  <2>1. users' = [users EXCEPT ![user(t)].login = 0] /\ user(t) \in Names /\ pc[t] = "reset"
    BY <1>5 DEF reset, At
  <2>2. \A n \in Names : users'[n].connfd = users[n].connfd
    BY <1>0, <2>1 DEF User
  <2>3. \A n \in Names \ {user(t)} : users'[n] = users[n]
    BY <1>0, <2>1
  <2>4. \E g \in gone : nick[g] = user(t)
    BY <1>0, <2>1 DEF Point
  <2>5. Connected'
    BY <1>1, <1>2, <2>2 DEF Connected
  <2>6. OfflineHasLeft'
    BY <1>0, <1>3, <2>1, <2>3, <2>4 DEF OfflineHasLeft
  <2> QED BY <2>5, <2>6
<1>6. CASE log_on(t)
  <2>1. users' = [users EXCEPT ![op[t].name].login = 1] /\ pc[t] = "online"
    BY <1>6 DEF log_on, Before
  <2>2. op[t].name \in Names
    BY <1>0, <2>1 DEF CallOf, Call
  <2>3. users'[op[t].name].login = 1 /\ \A n \in Names : users'[n].connfd = users[n].connfd
    BY <1>0, <2>1, <2>2 DEF User
  <2>4. \A n \in Names \ {op[t].name} : users'[n] = users[n]
    BY <1>0, <2>1
  <2>5. Connected'
    BY <1>1, <1>2, <2>3 DEF Connected
  <2>6. OfflineHasLeft'
    BY <1>0, <1>3, <2>3, <2>4 DEF OfflineHasLeft
  <2> QED BY <2>5, <2>6
<1>7. CASE connect(t)
  <2>1. /\ users' = [users EXCEPT ![op[t].name].connfd = t] /\ pc[t] = "connect"
        /\ nick' = [nick EXCEPT ![t] = op[t].name]
    BY <1>7 DEF connect, Before
  <2>2. op[t].name \in Names
    BY <1>0, <2>1 DEF CallOf, Call
  <2>3. users'[op[t].name].connfd = t /\ \A n \in Names : users'[n].login = users[n].login
    BY <1>0, <2>1, <2>2 DEF User
  <2>4. \A n \in Names \ {op[t].name} : users'[n] = users[n]
    BY <1>0, <2>1
  <2>5. nick'[t] = op[t].name
    BY <1>0, <2>1
  <2>6. Connected'
    BY <1>1, <1>2, <2>3, <2>4, <2>5 DEF Connected
  <2>7. OfflineHasLeft'
    BY <1>0, <1>3, <2>3 DEF OfflineHasLeft
  <2> QED BY <2>6, <2>7
<1>8. CASE JoinStep(t) \/ ExitStep(t)
  BY <1>0, <1>4, <1>8, Course
<1>9. CASE head(t) \/ sender(t) \/ status(t) \/ socket(t) \/ write(t) \/ onward(t) \/ dies(t)
           \/ leave(t) \/ \E o \in Requests[t] : request(t, o)
  BY <1>4, <1>9 DEF head, sender, status, socket, write, onward, dies, leave, request, roomVars
<1> QED BY <1>5, <1>6, <1>7, <1>8, <1>9 DEF ForwardStep, LoginStep

\* What OfflineHasLeft needs holds at the beginning and after every step.
LEMMA LeftInit == Init => LeftInv
<1> SUFFICES ASSUME Init PROVE LeftInv
  OBVIOUS
<1>1. TypeInv
  BY TypeInit
<1>2. \A t \in Threads : pc[t] = "idle"
  BY DEF Init
<1>3. OneWriter
  BY <1>2 DEF OneWriter, Writing, FirstExits
<1>4. Connected
  BY DEF Init, Connected
<1>5. OfflineHasLeft
  BY DEF Init, OfflineHasLeft
<1>6. \A t \in Threads : Kind(t)
  BY <1>2, LabelsApart DEF Kind
<1>7. \A t \in Threads : Point(t)
  BY <1>2, LabelsApart DEF Point
<1> QED BY <1>1, <1>3, <1>4, <1>5, <1>6, <1>7 DEF LeftInv

\* A step of thread t, without the history.
Acts(t) ==
  \/ JoinStep(t) \/ ExitStep(t) \/ ForwardStep(t) \/ LoginStep(t) \/ dies(t)
  \/ leave(t) \/ \E o \in Requests[t] : request(t, o)

LEMMA LeftInvStep ==
  ASSUME LeftInv, NEW t \in Threads, Acts(t), TypeInv', OneWriter'
  PROVE  LeftInv'
<1>1. \A v \in Threads : Kind(v)'
  BY KindStep DEF LeftInv, Acts
<1>2. \A v \in Threads : Point(v)'
  BY PointStep DEF Acts
<1>3. Connected' /\ OfflineHasLeft'
  BY LeftStep DEF Acts
<1> QED BY <1>1, <1>2, <1>3 DEF LeftInv

LEMMA LeftInvStutter ==
  ASSUME LeftInv, UNCHANGED vars
  PROVE  LeftInv'
<1>1. TypeInv'
  BY TypeStep DEF LeftInv
<1>2. UNCHANGED <<member, mem, users, nick, gone, pc, op, conductor, held>>
  BY DEF vars, roomVars, clientVars, localVars
<1>3. OneWriter'
  BY <1>2 DEF LeftInv, OneWriter, Writing, FirstExits
<1>4. Connected' /\ OfflineHasLeft'
  BY <1>2 DEF LeftInv, Connected, OfflineHasLeft
<1>5. \A v \in Threads : Kind(v)' /\ Point(v)'
  BY <1>2 DEF LeftInv, Kind, Point, Unfilled, user, here
<1> QED BY <1>1, <1>3, <1>4, <1>5 DEF LeftInv

\* Under one writer, whose membership of the room is not that of the first participant:
\* a user is logged off only after a write() to a closed connection entered under that
\* name has failed, however a login of the same user races with it (the reset of login in
\* forward_chat_room_data, the stores of login_user).
THEOREM LoggedOffHaveLeft == OneWriterSpec => []OfflineHasLeft
<1>1. LeftInv /\ [Next /\ OneWriter']_vars => LeftInv'
  <2> SUFFICES ASSUME LeftInv, [Next /\ OneWriter']_vars PROVE LeftInv'
    OBVIOUS
  <2>1. CASE Next /\ OneWriter'
    <3>1. TypeInv'
      BY <2>1, TypeStep DEF LeftInv
    <3>2. PICK t \in Threads : Acts(t)
      BY <2>1 DEF Next, Run, Acts
    <3> QED BY <2>1, <3>1, <3>2, LeftInvStep
  <2>2. CASE UNCHANGED vars
    BY <2>2, LeftInvStutter
  <2> QED BY <2>1, <2>2
<1>2. LeftInv => OfflineHasLeft
  BY DEF LeftInv
<1> QED BY LeftInit, <1>1, <1>2, PTL DEF OneWriterSpec

-------------------------------------------------------------------------------
(* The list implements the room                                            *)

\* A is the participants on the way from x, in their order in mem; x is null if there
\* are none.
Path(A, x, m) ==
  /\ A \subseteq DOMAIN m
  /\ A = {} => x = Null
  /\ A # {} => x \in A
  /\ \A y \in A : x <= y
  /\ \A y \in A :
       \/ /\ m[y].next_member \in A /\ y < m[y].next_member
          /\ \A z \in A : z <= y \/ m[y].next_member <= z
       \/ m[y].next_member \in {Null, Wild} /\ \A z \in A : z <= y

Filled(y) == y \in DOMAIN mem /\ mem[y].ptr_to_user \in Names

\* w has linked y and is not done with it.
Builds(w, y) ==
  \/ /\ pc[w] = "reload" /\ conductor[w] \in DOMAIN mem
     /\ here(w).next_member = y /\ mem[y].name = None
  \/ pc[w] \in Filling /\ conductor[w] = y

\* The list is a way from member; its participants are named as their users, who are
\* different; the one without a user is the newest and a thread fills it.
Shape ==
  /\ Path(List, member, mem)
  /\ \A y \in List : Filled(y) => mem[y].name = mem[y].ptr_to_user
  /\ \A y, z \in List : Filled(y) /\ mem[y].ptr_to_user = mem[z].ptr_to_user => y = z
  /\ \A y \in DOMAIN mem :
       Unfilled(y) => y = Len(mem) /\ y \in List /\ \E w \in Threads : Builds(w, y)
  /\ \A y \in DOMAIN mem : mem[y].next_member = Wild => Unfilled(y) /\ mem[y].name = None

NotIn(t) == \A y \in List : mem[y].name # op[t].name

\* Where a thread is that joins or exits.
Writer(t) ==
  LET c == conductor[t]
      p == previous[t]
  IN
  /\ pc[t] \in {"compare", "find"} =>
       c \in List /\ \A y \in List : y < c => mem[y].name # op[t].name
  /\ pc[t] \in {"next", "pass"} =>
       c \in List /\ \A y \in List : y <= c => mem[y].name # op[t].name
  /\ pc[t] \in {"again", "tail", "advance", "append", "reload", "free"} => NotIn(t)
  /\ pc[t] \in {"tail", "advance", "append", "reload", "load", "store"} \cup Filling => c \in List
  /\ pc[t] = "first node" => List = {}
  /\ pc[t] = "advance" => mem[c].next_member # Null
  /\ pc[t] = "append" => mem[c].next_member = Null
  /\ pc[t] \in Filling => \A y \in List \ {c} : mem[y].name # op[t].name
  /\ pc[t] \in {"name", "user"} => mem[c].next_member = Null
  /\ pc[t] = "user" => mem[c].name = op[t].name
  /\ pc[t] = "first" => p = member
  /\ pc[t] \in {"find", "pass"} =>
       \/ p = member /\ c = member
       \/ p \in List /\ mem[p].next_member = c
  /\ pc[t] \in {"load", "store"} =>
       mem[c].name = op[t].name /\ p \in List /\ mem[p].next_member = c
  /\ pc[t] = "store" => held[t] = mem[c].next_member
  /\ pc[t] = "free" => c \in DOMAIN mem \ List

\* What a call relies on of its history.
History(t) ==
  /\ pc[t] = "idle" => must[t] = {} /\ may[t] = {} /\ came[t] = {} /\ left[t] = {}
  /\ pc[t] # "idle" =>
       /\ must[t] \subseteq Members \cap Online
       /\ Members \subseteq may[t] /\ may[t] \subseteq Members \cup left[t]
       /\ \A n \in Names : copies[t][n] > 0 => n \in may[t]

\* Where a thread is that forwards: A lies before it, Todo is still to be asked.
Todo(t, A) == IF pc[t] \in {"reset", "onward"} THEN A \ {conductor[t]} ELSE A

Ahead(t, A) ==
  /\ \A y \in A : Filled(y) => /\ mem[y].ptr_to_user \in may[t]
                               /\ y \notin List => mem[y].ptr_to_user \in left[t]
  /\ \A y \in Todo(t, A) :
       Filled(y) /\ copies[t][mem[y].ptr_to_user] > 0 => mem[y].ptr_to_user \in left[t]
  /\ \A n \in must[t] :
       \/ copies[t][n] > 0 \/ n = op[t].name
       \/ \E y \in List \cap Todo(t, A) : mem[y].ptr_to_user = n

Reader(t) ==
  LET c == conductor[t]
      own == mem[c].ptr_to_user = op[t].name
  IN
  /\ pc[t] = "head" => \A n \in Names : copies[t][n] = 0
  /\ pc[t] \in Forwarding \ {"head"} =>
       c \in DOMAIN mem /\ \E A \in SUBSET DOMAIN mem : Path(A, c, mem) /\ Ahead(t, A)
  /\ pc[t] \in {"socket", "write", "reset"} => Filled(c)
  /\ pc[t] \in {"status", "socket", "write"} /\ own => op[t].name \in came[t] \cup left[t]
  /\ pc[t] = "onward" => mem[c].next_member # Wild
  /\ pc[t] = "reset" => copies[t][mem[c].ptr_to_user] > 0

RoomInv == Shape /\ \A t \in Threads : Writer(t) /\ History(t) /\ Reader(t)

PromiseInv == LeftInv /\ RoomInv

\* The users in the list.
Present == {mem[y].ptr_to_user : y \in {z \in List : Filled(z)}}

\* What a step that changes the list does to those that go through it: a user stays in a
\* participant; what comes to the list, or to a way, is new and has no user yet, what
\* gets a user comes to the room, and what leaves the list leaves the room.
Gentle ==
  /\ \A y \in DOMAIN mem : Filled(y) => Filled(y)' /\ mem'[y].ptr_to_user = mem[y].ptr_to_user
  /\ \A y \in DOMAIN mem : mem'[y].next_member = Wild => mem[y].next_member = Wild
  /\ \A y \in DOMAIN mem : Unfilled(y) /\ Filled(y)' => mem'[y].ptr_to_user \in Present' \ Present
  /\ \A y \in List' \ List : y \notin DOMAIN mem /\ Unfilled(y)'
  /\ \A y \in List \ List' : mem[y].ptr_to_user \in Present \ Present'
  /\ \A x \in DOMAIN mem, A \in SUBSET DOMAIN mem :
       Path(A, x, mem) =>
         \E B \in SUBSET DOMAIN mem' :
           /\ Path(B, x, mem')
           /\ \A y \in B \ A : y \notin DOMAIN mem /\ Unfilled(y)'
           /\ \A y \in A \ B : y \notin List'

-------------------------------------------------------------------------------
(* Ways through the list                                                   *)

\* The pointers in a list of participants.
LEMMA NextType ==
  \A m \in Seq(Participant) :
     /\ Len(m) \in Nat /\ DOMAIN m = 1 .. Len(m)
     /\ \A y \in DOMAIN m : /\ m[y] \in Participant /\ m[y].next_member \in Nat \cup {Wild}
                             /\ y \in Nat \ {0}
<1> SUFFICES ASSUME NEW m \in Seq(Participant)
             PROVE  /\ Len(m) \in Nat /\ DOMAIN m = 1 .. Len(m)
                    /\ \A y \in DOMAIN m : m[y] \in Participant /\ y \in Nat \ {0}
                                            /\ m[y].next_member \in Nat \cup {Wild}
  OBVIOUS
<1>1. Len(m) \in Nat /\ DOMAIN m = 1 .. Len(m) /\ \A y \in DOMAIN m : m[y] \in Participant
  OBVIOUS
<1> QED BY <1>1 DEF Participant

\* Every set of numbers that is not empty has a least one.
LEMMA Least == \A T \in SUBSET Nat : T # {} => \E k \in T : \A l \in T : k <= l
<1> SUFFICES ASSUME NEW T \in SUBSET Nat, T # {} PROVE \E k \in T : \A l \in T : k <= l
  OBVIOUS
<1>1. PICK k \in T : \A l \in T : ~ (<<l, k>> \in OpToRel(<, Nat))
  BY NatLessThanWellFounded, WFMin, Zenon
<1>2. \A l \in T : ~ (l < k)
  BY <1>1 DEF OpToRel
<1> QED BY <1>2

\* A way from member is the list.
LEMMA PathIsList ==
  mem \in Seq(Participant) => \A L : Path(L, member, mem) => List = L
<1> SUFFICES ASSUME mem \in Seq(Participant), NEW L, Path(L, member, mem)
             PROVE  List = L
  OBVIOUS
<1>0. /\ Len(mem) \in Nat /\ DOMAIN mem = 1 .. Len(mem) /\ L \subseteq DOMAIN mem
      /\ \A y \in DOMAIN mem : mem[y].next_member \in Nat \cup {Wild}
  BY NextType DEF Path
<1>1. ASSUME NEW k \in Nat PROVE Within[k] \subseteq L
  <2> SUFFICES ASSUME ~ (Within[k] \subseteq L) PROVE FALSE
    OBVIOUS
  <2> DEFINE T == {i \in Nat : ~ (Within[i] \subseteq L)}
  <2>1. PICK i \in T : \A j \in T : i <= j
    <3>1. T \in SUBSET Nat /\ T # {}
      OBVIOUS
    <3> QED BY <3>1, Least
  <2>2. CASE i = 0
    <3>1. Within[0] = {member} \cap DOMAIN mem
      BY WithinStep
    <3>2. member \in DOMAIN mem => member \in L
      BY <1>0 DEF Path, Null
    <3> QED BY <2>1, <2>2, <3>1, <3>2
  <2>3. CASE i # 0
    <3>1. i - 1 \in Nat /\ i \in Nat \ {0} /\ Within[i - 1] \subseteq L
      BY <2>1, <2>3
    <3>2. Within[i] = Within[i - 1]
                        \cup ({mem[x].next_member : x \in Within[i - 1]} \cap DOMAIN mem)
      BY <3>1, WithinStep
    <3>3. \A x \in L : mem[x].next_member \in DOMAIN mem => mem[x].next_member \in L
      BY <1>0 DEF Path, Null, Wild
    <3> QED BY <2>1, <3>1, <3>2, <3>3
  <2> QED BY <2>2, <2>3
<1> DEFINE C(k) == /\ member \in L => member \in Within[k]
                   /\ \A y \in L : y <= k + 1 => y \in Within[k]
<1>2. ASSUME NEW k \in Nat PROVE C(k)
  <2> SUFFICES ASSUME ~C(k) PROVE FALSE
    OBVIOUS
  <2> DEFINE T == {i \in Nat : ~C(i)}
  <2>1. PICK i \in T : \A j \in T : i <= j
    <3>1. T \in SUBSET Nat /\ T # {}
      OBVIOUS
    <3> QED BY <3>1, Least
  <2>2. CASE i = 0
    <3>1. Within[0] = {member} \cap DOMAIN mem
      BY WithinStep
    <3>2. \A y \in L : y <= 1 => y = member
      BY <1>0 DEF Path
    <3>3. C(0)
      BY <1>0, <3>1, <3>2
    <3> QED BY <2>1, <2>2, <3>3
  <2>3. CASE i # 0
    <3>1. i - 1 \in Nat /\ i \in Nat \ {0} /\ C(i - 1)
      BY <2>1, <2>3
    <3>2. Within[i] = Within[i - 1]
                        \cup ({mem[x].next_member : x \in Within[i - 1]} \cap DOMAIN mem)
      BY <3>1, WithinStep
    <3>3. ASSUME NEW y \in L, y = i + 1, y # member PROVE y \in Within[i]
      <4> DEFINE B == {d \in Nat : d # 0 /\ y - d \in L}
      <4>1. member \in L /\ member < y /\ member \in Nat /\ y \in Nat
        BY <1>0, <3>3 DEF Path
      <4>2. y - member \in B
        BY <4>1
      <4>3. PICK d \in B : \A e \in B : d <= e
        <5>1. B \in SUBSET Nat /\ B # {}
          BY <4>2
        <5> QED BY <5>1, Least
      <4>4. y - d \in L /\ y - d < y /\ y - d \in Nat
        BY <1>0, <4>1, <4>3
      <4>5. \A z \in L : z < y => z <= y - d
        <5> SUFFICES ASSUME NEW z \in L, z < y PROVE z <= y - d
          OBVIOUS
        <5>1. z \in Nat /\ y - z \in B
          BY <1>0, <4>1
        <5>2. y \in Nat /\ d \in Nat /\ d <= y - z
          BY <4>1, <4>3, <5>1
        <5> QED BY <5>1, <5>2
      <4>6. mem[y - d].next_member = y
        BY <1>0, <4>1, <4>4, <4>5, <3>3 DEF Path
      <4>7. y - d \in Within[i - 1]
        BY <3>1, <3>3, <4>4
      <4> QED BY <1>0, <3>2, <3>3, <4>6, <4>7
    <3>4. C(i)
      <4>1. member \in L => member \in Within[i]
        BY <3>1, <3>2
      <4>2. \A y \in L : y <= i + 1 => y \in Within[i]
        BY <1>0, <3>1, <3>2, <3>3, <4>1
      <4> QED BY <4>1, <4>2
    <3> QED BY <2>1, <3>4
  <2> QED BY <2>2, <2>3
<1>3. Within[Len(mem)] \subseteq L /\ C(Len(mem))
  BY <1>0, <1>1, <1>2
<1>4. \A y \in L : y <= Len(mem) + 1
  BY <1>0
<1>5. L \subseteq Within[Len(mem)]
  BY <1>3, <1>4
<1> QED BY <1>3, <1>5 DEF List

\* What a store does to a way.  A link from null to null or to no object changes nothing,
\* the end may be linked to a newer participant, and one on the way may be passed over.
LEMMA PathSame ==
  ASSUME NEW m \in Seq(Participant), NEW n \in Seq(Participant), NEW A, NEW x, Path(A, x, m),
         DOMAIN m \subseteq DOMAIN n,
         \A y \in A : \/ n[y].next_member = m[y].next_member
                      \/ {n[y].next_member, m[y].next_member} \subseteq {Null, Wild}
  PROVE  Path(A, x, n)
<1>1. A \subseteq DOMAIN m /\ \A y \in A : y \in Nat \ {0} /\ m[y].next_member \in Nat \cup {Wild}
  BY NextType DEF Path
<1> QED BY <1>1 DEF Path, Null, Wild

\* The last of a way gets a successor, which is new.
LEMMA PathGrow ==
  ASSUME NEW m \in Seq(Participant), NEW n \in Seq(Participant), NEW A, NEW x, Path(A, x, m),
         NEW z \in A, m[z].next_member \in {Null, Wild},
         Len(n) = Len(m) + 1, n[z].next_member = Len(n), n[Len(n)].next_member \in {Null, Wild},
         \A y \in A \ {z} : n[y].next_member = m[y].next_member
  PROVE  Path(A \cup {Len(n)}, x, n)
<1>1. /\ Len(m) \in Nat /\ A \subseteq 1 .. Len(m) /\ DOMAIN n = 1 .. (Len(m) + 1)
      /\ \A y \in A : m[y].next_member \in Nat \cup {Wild}
  BY NextType DEF Path
<1>2. \A y \in A : y <= z
  BY <1>1 DEF Path, Null, Wild
<1>3. x \in A /\ \A y \in A : x <= y
  BY DEF Path
<1>4. ASSUME NEW y \in A \ {z}
      PROVE  /\ n[y].next_member \in A /\ y < n[y].next_member
             /\ \A w \in A : w <= y \/ n[y].next_member <= w
  BY <1>1, <1>2, <1>4 DEF Path, Null, Wild
<1> DEFINE N == Len(n)
           B == A \cup {N}
<1>5. N = Len(m) + 1 /\ \A y \in A : y < N
  BY <1>1
<1> HIDE DEF N
<1>6. ASSUME NEW y \in B
      PROVE  \/ /\ n[y].next_member \in B /\ y < n[y].next_member
                /\ \A w \in B : w <= y \/ n[y].next_member <= w
             \/ n[y].next_member \in {Null, Wild} /\ \A w \in B : w <= y
  <2>1. CASE y = N
    BY <1>1, <1>5, <2>1 DEF N
  <2>2. CASE y = z
    BY <1>1, <1>2, <1>5, <2>2 DEF N
  <2>3. CASE y \in A \ {z}
    <3>1. n[y].next_member \in A /\ n[y].next_member < N
      BY <1>4, <1>5, <2>3
    <3>2. N \in Nat /\ A \subseteq Nat
      BY <1>1, <1>5
    <3>3. n[y].next_member \in Nat
      BY <3>1, <3>2
    <3> QED BY <1>4, <2>3, <3>1, <3>2, <3>3
  <2> QED BY <1>6, <2>1, <2>2, <2>3
<1>7. B \subseteq DOMAIN n /\ x \in B /\ \A y \in B : x <= y
  <2>1. A \subseteq Nat /\ N \in Nat /\ A \subseteq DOMAIN n /\ N \in DOMAIN n
    BY <1>1, <1>5
  <2>2. x \in A /\ x <= N
    BY <1>3, <1>5, <2>1
  <2> QED BY <1>3, <2>1, <2>2
<1> QED BY <1>6, <1>7 DEF Path, N

\* A participant is passed over.
LEMMA PathCut ==
  ASSUME NEW m \in Seq(Participant), NEW n \in Seq(Participant), NEW A, NEW x, Path(A, x, m),
         NEW p \in A, NEW c \in A, m[p].next_member = c, DOMAIN n = DOMAIN m,
         n[p].next_member = m[c].next_member,
         \A y \in A \ {p} : n[y].next_member = m[y].next_member
  PROVE  Path(A \ {c}, x, n)
<1>1. /\ A \subseteq DOMAIN m /\ \A y \in A : y \in Nat \ {0}
      /\ \A y \in A : m[y].next_member \in Nat \cup {Wild}
  BY NextType DEF Path
<1>2. x \in A /\ \A y \in A : x <= y
  BY DEF Path
<1>3. p < c /\ \A w \in A : w <= p \/ c <= w
  BY <1>1 DEF Path, Null, Wild
<1> DEFINE B == A \ {c}
<1>4. ASSUME NEW y \in B
      PROVE  \/ /\ n[y].next_member \in B /\ y < n[y].next_member
                /\ \A w \in B : w <= y \/ n[y].next_member <= w
             \/ n[y].next_member \in {Null, Wild} /\ \A w \in B : w <= y
  <2>1. CASE y = p
    BY <1>1, <1>3, <2>1 DEF Path
  <2>2. CASE y # p
    <3>1. m[y].next_member # c
      BY <1>1, <1>3, <1>4, <2>2 DEF Path, Null, Wild
    <3> QED BY <1>1, <1>4, <2>2, <3>1 DEF Path
  <2> QED BY <2>1, <2>2
<1> QED BY <1>1, <1>2, <1>3, <1>4 DEF Path

\* The rest of a way.
LEMMA PathRest ==
  ASSUME NEW m \in Seq(Participant), NEW A, NEW x \in DOMAIN m, Path(A, x, m)
  PROVE  /\ x \in A
         /\ m[x].next_member \in {Null, Wild} => A = {x}
         /\ m[x].next_member \notin {Null, Wild} =>
              /\ Path(A \ {x}, m[x].next_member, m)
              /\ m[x].next_member \in DOMAIN m
<1>1. /\ A \subseteq DOMAIN m /\ DOMAIN m \subseteq Nat \ {0}
      /\ \A y \in A : m[y].next_member \in Nat \cup {Wild}
  BY NextType DEF Path
<1>2. x \in A /\ \A y \in A : x <= y
  BY <1>1 DEF Path, Null
<1>3. CASE m[x].next_member \in {Null, Wild}
  <2>1. \A z \in A : z <= x
    BY <1>1, <1>2, <1>3 DEF Path, Null, Wild
  <2> QED BY <1>1, <1>2, <1>3, <2>1
<1>4. CASE m[x].next_member \notin {Null, Wild}
  <2>1. /\ m[x].next_member \in A /\ x < m[x].next_member
        /\ \A z \in A : z <= x \/ m[x].next_member <= z
    BY <1>2, <1>4 DEF Path
  <2>2. \A y \in A \ {x} : m[x].next_member <= y
    BY <1>1, <1>2, <2>1
  <2>3. ASSUME NEW y \in A \ {x}, m[y].next_member \in A PROVE y < m[y].next_member
    BY <1>1, <2>3 DEF Path, Null, Wild
  <2>4. \A y \in A \ {x} : m[y].next_member \in A => m[y].next_member # x
    BY <1>1, <1>2, <2>3
  <2>5. Path(A \ {x}, m[x].next_member, m)
    BY <1>1, <1>2, <2>1, <2>2, <2>4 DEF Path
  <2> QED BY <1>1, <1>2, <1>4, <2>1, <2>5
<1> QED BY <1>3, <1>4

-------------------------------------------------------------------------------
(* Joins and exits                                                         *)

\* Goto, Return and Follow.
LEMMA Moves ==
  ASSUME TypeInv, NEW t \in Threads
  PROVE  /\ \A l : Goto(t, l) => /\ pc'[t] = l /\ op' = op /\ answer' = answer /\ copies' = copies
                                 /\ \A v \in Threads \ {t} : pc'[v] = pc[v]
         /\ \A a : Return(t, a) =>
              /\ pc'[t] = "idle" /\ op'[t] = None /\ answer' = [answer EXCEPT ![t] = a]
              /\ copies' = copies
              /\ \A v \in Threads \ {t} : pc'[v] = pc[v] /\ op'[v] = op[v]
         /\ \A x : Follow(t, x) => /\ conductor'[t] = x
                                   /\ \A v \in Threads \ {t} : conductor'[v] = conductor[v]
<1>0. /\ pc \in [Threads -> {"idle"} \cup Joining \cup Filling \cup Exiting \cup Forwarding
                        \cup LoggingIn]
      /\ op \in [Threads -> Call \cup {None}]
      /\ conductor \in [Threads -> Nat \cup {Wild}]
  BY DEF TypeInv, TypeOK
<1>1. ASSUME NEW l, Goto(t, l)
      PROVE  /\ pc'[t] = l /\ op' = op /\ answer' = answer /\ copies' = copies
             /\ \A v \in Threads \ {t} : pc'[v] = pc[v]
  BY <1>0, <1>1 DEF Goto
<1>2. ASSUME NEW a, Return(t, a)
      PROVE  /\ pc'[t] = "idle" /\ op'[t] = None /\ answer' = [answer EXCEPT ![t] = a]
             /\ copies' = copies
             /\ \A v \in Threads \ {t} : pc'[v] = pc[v] /\ op'[v] = op[v]
  BY <1>0, <1>2 DEF Return
<1>3. ASSUME NEW x, Follow(t, x)
      PROVE  /\ conductor'[t] = x
             /\ \A v \in Threads \ {t} : conductor'[v] = conductor[v]
  BY <1>0, <1>3 DEF Follow
<1> QED BY <1>1, <1>2, <1>3

\* The members are the users in the list.
LEMMA MembersAre ==
  TypeInv /\ Shape /\ (\A t \in Threads : Point(t)) => Members = Present
<1> SUFFICES ASSUME TypeInv, Shape, \A t \in Threads : Point(t) PROVE Members = Present
  OBVIOUS
<1>0. mem \in Seq(Participant)
  BY DEF TypeInv, TypeOK
<1>1. List \subseteq DOMAIN mem
  BY DEF Shape, Path
<1> DEFINE Built(y) == \E t \in Threads : pc[t] \in Filling /\ conductor[t] = y
<1>2. ASSUME NEW y \in List, Filled(y) PROVE ~Built(y) /\ mem[y].name # None
  <2>1. ~Built(y)
    BY <1>2 DEF Point, Filled, Unfilled
  <2>2. mem[y].name = mem[y].ptr_to_user /\ mem[y].ptr_to_user \in Names
    BY <1>2 DEF Shape, Filled
  <2> QED BY <2>1, <2>2, NoneAssumption
<1>3. ASSUME NEW y \in List, ~Built(y), mem[y].name # None
      PROVE  Filled(y) /\ mem[y].name = mem[y].ptr_to_user
  <2>1. Filled(y)
    <3> SUFFICES ASSUME ~Filled(y) PROVE FALSE
      OBVIOUS
    <3>1. Unfilled(y)
      BY <1>1, <1>3 DEF Filled, Unfilled
    <3>2. PICK w \in Threads : Builds(w, y)
      BY <1>1, <1>3, <3>1 DEF Shape
    <3> QED BY <1>3, <3>2 DEF Builds
  <2> QED BY <1>3, <2>1 DEF Shape
<1>4. Members = {mem[y].name : y \in {z \in List : ~Built(z)}} \ {None}
  BY DEF Members
<1> HIDE DEF Built
<1>5. ASSUME NEW n \in Members PROVE n \in Present
  BY <1>3, <1>4, <1>5 DEF Present
<1>6. ASSUME NEW n \in Present PROVE n \in Members
  <2>1. PICK y \in List : Filled(y) /\ n = mem[y].ptr_to_user
    BY <1>6 DEF Present
  <2>2. mem[y].name = mem[y].ptr_to_user
    BY <2>1 DEF Shape
  <2> QED BY <1>2, <1>4, <2>1, <2>2
<1> QED BY <1>5, <1>6

\* The same after a step.
LEMMA NextMembersAre ==
  TypeInv' /\ Shape' /\ (\A t \in Threads : Point(t)') => Members' = Present'
<1>1. (TypeInv /\ Shape /\ (\A t \in Threads : Point(t)) => Members = Present)'
  BY MembersAre, PTL
<1> QED BY <1>1

\* The list after a step.
LEMMA NextList ==
  mem' \in Seq(Participant) => \A L : Path(L, member', mem') => List' = L
<1>1. (mem \in Seq(Participant) => \A L : Path(L, member, mem) => List = L)'
  BY PathIsList, PTL
<1> QED BY <1>1

\* A step that does not touch the participants.
LEMMA Quiet ==
  ASSUME PromiseInv, UNCHANGED <<mem, member>>
  PROVE  List' = List /\ Present' = Present /\ Gentle /\ \A y : Filled(y)' = Filled(y)
<1>0. mem \in Seq(Participant)
  BY DEF PromiseInv, LeftInv, TypeInv, TypeOK
<1>1. Path(List, member', mem')
  BY DEF PromiseInv, RoomInv, Shape
<1>2. List' = List
  BY <1>0, <1>1, NextList
<1>3. \A y : Filled(y)' = Filled(y)
  BY DEF Filled
<1>4. Present' = Present
  BY <1>2, <1>3 DEF Present
<1>5. \A y : Unfilled(y)' = Unfilled(y)
  BY DEF Unfilled
<1>6. \A x \in DOMAIN mem, A \in SUBSET DOMAIN mem :
         Path(A, x, mem) => Path(A, x, mem')
  OBVIOUS
<1>7. \A x \in DOMAIN mem, A \in SUBSET DOMAIN mem :
       Path(A, x, mem) =>
         \E B \in SUBSET DOMAIN mem' :
           /\ Path(B, x, mem')
           /\ \A y \in B \ A : y \notin DOMAIN mem /\ Unfilled(y)'
           /\ \A y \in A \ B : y \notin List'
  BY <1>6
<1>8. \A y : ~ (Unfilled(y) /\ Filled(y))
  BY DEF Unfilled, Filled
<1>9. Gentle
  BY <1>2, <1>3, <1>7, <1>8 DEF Gentle
<1> QED BY <1>2, <1>3, <1>4, <1>9

\* Only one thread joins or exits; and it has no participant half done but where it builds
\* one.
LEMMA Alone ==
  ASSUME PromiseInv, NEW t \in Threads, pc[t] \in Joining \cup Filling \cup Exiting
  PROVE  /\ \A v \in Threads \ {t} : pc[v] \notin Joining \cup Filling \cup Exiting
         /\ \A y \in DOMAIN mem : Unfilled(y) => Builds(t, y)
         /\ pc[t] \notin {"reload"} \cup Filling =>
              \A y \in DOMAIN mem : Filled(y) /\ mem[y].next_member # Wild
<1>0. \A v \in Threads : Kind(v) /\ \A u \in Threads : Writing(u) /\ Writing(v) => u = v
  BY DEF PromiseInv, LeftInv, OneWriter
<1>1. ASSUME NEW v \in Threads, pc[v] \in Joining \cup Filling \cup Exiting PROVE v = t
  <2>1. \A u \in Threads : pc[u] \in Joining \cup Filling \cup Exiting => Writing(u)
    BY <1>0, LabelsApart DEF Kind, Writing
  <2> QED BY <1>0, <1>1, <2>1
<1>2. ASSUME NEW y \in DOMAIN mem, Unfilled(y) PROVE Builds(t, y)
  <2>1. PICK w \in Threads : Builds(w, y)
    BY <1>2 DEF PromiseInv, RoomInv, Shape
  <2>2. pc[w] \in Joining \cup Filling
    BY <2>1 DEF Builds, Joining
  <2> QED BY <1>1, <2>1, <2>2
<1>3. ASSUME pc[t] \notin {"reload"} \cup Filling, NEW y \in DOMAIN mem
      PROVE  Filled(y) /\ mem[y].next_member # Wild
  <2>1. ~Unfilled(y)
    BY <1>2, <1>3 DEF Builds
  <2> QED BY <1>3, <2>1 DEF Unfilled, Filled, PromiseInv, RoomInv, Shape
<1> QED BY <1>1, <1>2, <1>3

\* The list keeps its shape if nothing happens to it.
LEMMA ShapeQuiet ==
  ASSUME PromiseInv, NEW t \in Threads, UNCHANGED <<mem, member>>,
         \A v \in Threads \ {t} : pc'[v] = pc[v] /\ conductor'[v] = conductor[v],
         \A y \in DOMAIN mem : Unfilled(y) /\ Builds(t, y) => Builds(t, y)'
  PROVE  Shape'
<1>1. List' = List /\ (\A y : Filled(y)' = Filled(y)) /\ \A y : Unfilled(y)' = Unfilled(y)
  BY Quiet DEF Unfilled
<1>2. ASSUME NEW y \in DOMAIN mem, Unfilled(y), NEW w \in Threads, Builds(w, y)
      PROVE  Builds(w, y)'
  BY <1>2 DEF Builds, here
<1>3. Shape
  BY DEF PromiseInv, RoomInv
<1>4. \A y \in DOMAIN mem : Unfilled(y) => \E w \in Threads : Builds(w, y)'
  BY <1>2, <1>3 DEF Shape
<1> QED BY <1>1, <1>3, <1>4 DEF Shape

\* Where a pointer in the list leads.
LEMMA NextInList ==
  ASSUME PromiseInv, NEW c \in List, mem[c].next_member # Wild
  PROVE  /\ mem[c].next_member = Null => \A y \in List : y <= c
         /\ mem[c].next_member # Null =>
              /\ mem[c].next_member \in List /\ c < mem[c].next_member
              /\ \A y \in List : y < mem[c].next_member => y <= c
<1>1. Path(List, member, mem) /\ mem \in Seq(Participant)
  BY DEF PromiseInv, RoomInv, Shape, LeftInv, TypeInv, TypeOK
<1>2. /\ List \subseteq Nat \ {0} /\ c \in DOMAIN mem
      /\ \A y \in List : mem[y].next_member \in Nat \cup {Wild}
  BY <1>1, NextType DEF Path
<1> QED BY <1>1, <1>2 DEF Path, Null, Wild

\* The first in the list.
LEMMA FirstInList ==
  ASSUME PromiseInv
  PROVE  /\ member = Null => List = {}
         /\ member # Null => member \in List /\ \A y \in List : ~ (y < member)
         /\ List \subseteq DOMAIN mem /\ List \subseteq Nat \ {0}
<1>1. Path(List, member, mem) /\ mem \in Seq(Participant)
  BY DEF PromiseInv, RoomInv, Shape, LeftInv, TypeInv, TypeOK
<1>2. List \subseteq Nat \ {0}
  BY <1>1, NextType DEF Path
<1> QED BY <1>1, <1>2 DEF Path, Null

\* The steps of join_chatroom and exit_chatroom that only read, or store what was there.
Reads(t) ==
  \/ look(t) \/ compare(t) \/ next(t) \/ again(t) \/ tail(t) \/ advance(t) \/ reload(t)
  \/ read_previous(t) \/ read_first(t) \/ find(t) \/ pass(t) \/ load(t)

\* A step that only reads keeps what a writer knows.
LEMMA WriterReads ==
  ASSUME PromiseInv, NEW t \in Threads, Reads(t)
  PROVE  /\ UNCHANGED <<mem, member>> /\ Writer(t)'
         /\ \A y \in DOMAIN mem : Unfilled(y) /\ Builds(t, y) => Builds(t, y)'
<1>1. UNCHANGED <<mem, member>>
  BY DEF Reads, look, compare, next, again, tail, advance, reload, read_previous, read_first,
     find, pass, load, roomVars
<1>0. /\ List' = List /\ TypeInv /\ Writer(t) /\ Point(t)
      /\ previous \in [Threads -> Nat \cup {Wild}]
      /\ held \in [Threads -> Nat \cup {Wild} \cup Threads]
      /\ \A y : Unfilled(y) => y \in List
  BY <1>1, Quiet DEF PromiseInv, LeftInv, RoomInv, TypeInv, TypeOK, Shape, Unfilled
<1> DEFINE c == conductor[t]
           d == conductor'[t]
           p == previous[t]
           a == op[t].name
           nx == mem[c].next_member
<1>2. \A l : Goto(t, l) => pc'[t] = l /\ op'[t] = op[t]
  BY <1>0, Moves
<1>3. \A e : Return(t, e) => pc'[t] = "idle"
  BY <1>0, Moves
<1>4. \A x : Follow(t, x) => d = x
  BY <1>0, Moves
<1>5. pc'[t] = "idle" => Writer(t)'
  BY DEF Writer, Filling
<1>6. pc'[t] = "idle" \/ op'[t] = op[t]
  BY <1>2, <1>3 DEF Reads, look, compare, next, again, tail, advance, reload, read_previous,
     read_first, find, pass, load, Loop
<1>7. pc[t] \in {"next", "advance", "pass", "tail", "load"} =>
        /\ c \in List /\ nx # Wild
        /\ nx = Null => \A y \in List : y <= c
        /\ nx # Null => nx \in List /\ \A y \in List : y < nx => y <= c
  <2> SUFFICES ASSUME pc[t] \in {"next", "advance", "pass", "tail", "load"}
               PROVE  /\ c \in List /\ nx # Wild
                      /\ nx = Null => \A y \in List : y <= c
                      /\ nx # Null => nx \in List /\ \A y \in List : y < nx => y <= c
    OBVIOUS
  <2>1. c \in List
    BY <1>0 DEF Writer
  <2>2. pc[t] \in Joining \cup Exiting /\ pc[t] \notin {"reload"} \cup Filling
    BY DEF Joining, Exiting, Filling
  <2>3. nx # Wild
    BY <2>1, <2>2, Alone, FirstInList
  <2> QED BY <2>1, <2>3, NextInList
<1>8. \A y \in List : mem'[y].name = mem[y].name
  BY <1>1
<1> USE DEF NotIn
<1>9. ASSUME look(t) PROVE Writer(t)'
  <2>1. CASE member = Null
    <3>1. pc'[t] = "again" /\ List = {}
      BY <1>2, <1>9, <2>1, FirstInList DEF look, Loop
    <3> QED BY <1>0, <3>1 DEF Writer, Filling
  <2>2. CASE member # Null
    <3>1. pc'[t] = "compare" /\ d \in List /\ \A y \in List : ~ (y < d)
      BY <1>2, <1>4, <1>9, <2>2, FirstInList DEF look, Loop
    <3> QED BY <1>0, <3>1 DEF Writer, Filling
  <2> QED BY <2>1, <2>2
<1>10. ASSUME compare(t) PROVE Writer(t)'
  <2>1. CASE mem[c].name # a /\ Goto(t, "next")
    <3>1. /\ pc'[t] = "next" /\ d = c /\ c \in List
          /\ \A y \in List : y <= c => mem[y].name # a
      BY <1>0, <1>2, <1>10, <2>1, FirstInList DEF compare, At, Writer, localVars
    <3> QED BY <1>0, <1>6, <1>8, <3>1 DEF Writer, Filling
  <2> QED BY <1>3, <1>5, <1>10, <2>1 DEF compare, here
<1>11. ASSUME next(t) PROVE Writer(t)'
  <2>1. pc[t] = "next" /\ Loop(t, nx, "compare", Goto(t, "again"))
    BY <1>11 DEF next, At, here
  <2>2. c \in List /\ \A y \in List : y <= c => mem[y].name # a
    BY <1>0, <2>1 DEF Writer
  <2>3. CASE nx = Null
    <3>1. pc'[t] = "again" /\ \A y \in List : mem[y].name # a
      BY <1>2, <1>7, <2>1, <2>2, <2>3 DEF Loop
    <3> QED BY <1>0, <1>6, <1>8, <3>1 DEF Writer, Filling
  <2>4. CASE nx # Null
    <3>1. pc'[t] = "compare" /\ d \in List /\ \A y \in List : y < d => mem[y].name # a
      BY <1>2, <1>4, <1>7, <2>1, <2>2, <2>4 DEF Loop
    <3> QED BY <1>0, <1>6, <1>8, <3>1 DEF Writer, Filling
  <2> QED BY <2>3, <2>4
<1>12. ASSUME again(t) PROVE Writer(t)'
  <2>1. pc[t] = "again" /\ \A y \in List : mem[y].name # a
    BY <1>0, <1>12 DEF again, Before, Writer
  <2>2. CASE member = Null
    <3>1. pc'[t] = "first node" /\ List = {}
      BY <1>2, <1>12, <2>2, FirstInList DEF again
    <3> QED BY <1>0, <3>1 DEF Writer, Filling
  <2>3. CASE member # Null
    <3>1. pc'[t] = "tail" /\ d \in List
      BY <1>2, <1>4, <1>12, <2>3, FirstInList DEF again
    <3> QED BY <1>0, <1>6, <1>8, <2>1, <3>1 DEF Writer, Filling
  <2> QED BY <2>2, <2>3
<1>13. ASSUME tail(t) PROVE Writer(t)'
  <2>1. pc[t] = "tail" /\ d = c /\ c \in List /\ \A y \in List : mem[y].name # a
    BY <1>0, <1>13 DEF tail, At, Writer, localVars
  <2>2. mem'[c].next_member = nx
    BY <1>1
  <2>3. \/ pc'[t] = "append" /\ nx = Null
        \/ pc'[t] = "advance" /\ nx # Null
    BY <1>2, <1>13 DEF tail, here
  <2> QED BY <1>0, <1>6, <1>8, <2>1, <2>2, <2>3 DEF Writer, Filling
<1>14. ASSUME advance(t) PROVE Writer(t)'
  <2>1. /\ pc[t] = "advance" /\ pc'[t] = "tail" /\ d = nx /\ nx # Null
        /\ \A y \in List : mem[y].name # a
    BY <1>0, <1>2, <1>4, <1>14 DEF advance, At, Writer, here
  <2>2. d \in List
    BY <1>7, <2>1
  <2> QED BY <1>0, <1>6, <1>8, <2>1, <2>2 DEF Writer, Filling
<1>15. ASSUME reload(t) PROVE Writer(t)'
  <2>1. pc[t] = "reload" /\ Loop(t, nx, "clear", Return(t, OUT_OF_MEMORY))
    BY <1>15 DEF reload, At, here
  <2>2. CASE nx = Null
    <3>1. pc'[t] = "idle"
      BY <1>3, <2>1, <2>2 DEF Loop
    <3> QED BY <1>5, <3>1
  <2>3. CASE nx # Null
    <3>1. pc'[t] = "clear" /\ d = nx /\ \A y \in List : mem[y].name # a
      BY <1>0, <1>2, <1>4, <2>1, <2>3 DEF Loop, Writer
    <3>2. nx \in List
      BY <1>0, <2>1, <2>3 DEF Point, here
    <3> QED BY <1>0, <1>6, <1>8, <3>1, <3>2 DEF Writer, Filling
  <2> QED BY <2>2, <2>3
<1>16. ASSUME read_previous(t) PROVE Writer(t)'
  <2>1. pc'[t] = "first" /\ previous'[t] = member
    BY <1>0, <1>2, <1>16 DEF read_previous
  <2> QED BY <1>0, <1>1, <2>1 DEF Writer, Filling
<1>17. ASSUME read_first(t) PROVE Writer(t)'
  <2>1. CASE member = Null
    BY <1>3, <1>5, <1>17, <2>1 DEF read_first, Loop
  <2>2. CASE member # Null
    <3>1. /\ pc'[t] = "find" /\ d = member /\ previous'[t] = member
          /\ d \in List /\ \A y \in List : ~ (y < d)
      BY <1>0, <1>2, <1>4, <1>17, <2>2, FirstInList DEF read_first, Before, Loop, Writer
    <3> QED BY <1>0, <1>1, <3>1 DEF Writer, Filling
  <2> QED BY <2>1, <2>2
<1>18. ASSUME find(t) PROVE Writer(t)'
  <2>1. /\ pc[t] = "find" /\ d = c /\ previous' = previous /\ c \in List
        /\ \A y \in List : y < c => mem[y].name # a
        /\ (p = member /\ c = member) \/ (p \in List /\ mem[p].next_member = c)
    BY <1>0, <1>18 DEF find, At, Writer, localVars
  <2>2. CASE mem[c].name = a /\ Goto(t, "load")
    <3>1. ~FirstExits(t) /\ op[t].kind = "exit"
      <4>1. pc[t] \in Exiting
        BY <2>1 DEF Exiting
      <4> QED BY <4>1 DEF PromiseInv, LeftInv, OneWriter, Kind
    <3>2. ~ (c = member)
      BY <2>1, <2>2, <3>1, FirstInList DEF FirstExits
    <3>3. pc'[t] = "load" /\ p \in List /\ mem[p].next_member = c
      BY <1>2, <2>1, <2>2, <3>2
    <3> QED BY <1>0, <1>1, <1>6, <2>1, <2>2, <3>3 DEF Writer, Filling
  <2>3. CASE mem[c].name # a /\ Goto(t, "pass")
    <3>1. pc'[t] = "pass" /\ \A y \in List : y <= c => mem[y].name # a
      BY <1>2, <2>1, <2>3, FirstInList
    <3> QED BY <1>0, <1>1, <1>6, <2>1, <3>1 DEF Writer, Filling
  <2> QED BY <1>18, <2>2, <2>3 DEF find, here
<1>19. ASSUME pass(t) PROVE Writer(t)'
  <2>1. pc[t] = "pass" /\ Loop(t, nx, "find", Return(t, SUCCESS)) /\ previous'[t] = c
    BY <1>0, <1>19 DEF pass, At, here, Trailing
  <2>2. c \in List /\ \A y \in List : y <= c => mem[y].name # a
    BY <1>0, <2>1 DEF Writer
  <2>3. CASE nx = Null
    BY <1>3, <1>5, <2>1, <2>3 DEF Loop
  <2>4. CASE nx # Null
    <3>1. pc'[t] = "find" /\ d \in List /\ d = nx /\ \A y \in List : y < d => mem[y].name # a
      BY <1>2, <1>4, <1>7, <2>1, <2>2, <2>4 DEF Loop
    <3>2. mem'[c].next_member = d
      BY <1>1, <3>1
    <3> QED BY <1>0, <1>6, <1>8, <2>1, <2>2, <3>1, <3>2 DEF Writer, Filling
  <2> QED BY <2>3, <2>4
<1>20. ASSUME load(t) PROVE Writer(t)'
  <2>1. /\ pc[t] = "load" /\ pc'[t] = "store" /\ held'[t] = nx /\ d = c /\ previous' = previous
        /\ c \in List /\ mem[c].name = a /\ p \in List /\ mem[p].next_member = c
    BY <1>0, <1>2, <1>20 DEF load, At, here, Writer
  <2> QED BY <1>0, <1>1, <1>6, <2>1 DEF Writer, Filling
<1>21. Writer(t)'
  BY <1>9, <1>10, <1>11, <1>12, <1>13, <1>14, <1>15, <1>16, <1>17, <1>18, <1>19, <1>20 DEF Reads
<1>22. ASSUME NEW y \in DOMAIN mem, Unfilled(y), Builds(t, y) PROVE Builds(t, y)'
  <2>1. pc[t] \notin Filling
    BY DEF Reads, look, compare, next, again, tail, advance, reload, read_previous, read_first,
       find, pass, load, At, Before, Filling
  <2>2. pc[t] = "reload" /\ nx = y
    BY <1>22, <2>1 DEF Builds, here
  <2>3. reload(t)
    BY <2>2 DEF Reads, look, compare, next, again, tail, advance, read_previous, read_first,
       find, pass, load, At, Before
  <2>4. Loop(t, nx, "clear", Return(t, OUT_OF_MEMORY)) /\ nx # Null
    BY <1>22, <2>2, <2>3, FirstInList, <1>0 DEF reload, here, Null
  <2>5. pc'[t] = "clear" /\ d = y
    BY <1>2, <1>4, <2>2, <2>4 DEF Loop
  <2> QED BY <2>5 DEF Builds, Filling
<1> QED BY <1>1, <1>21, <1>22

\* A store into a participant.
LEMMA Cell ==
  ASSUME NEW m \in Seq(Participant), NEW y \in DOMAIN m, NEW q, NEW n, n = [m EXCEPT ![y] = q]
  PROVE  /\ DOMAIN n = DOMAIN m /\ Len(n) = Len(m) /\ n[y] = q
         /\ \A z \in DOMAIN m \ {y} : n[z] = m[z]
OBVIOUS

\* Stores that change no link leave the list and the ways as they are.
LEMMA Touch ==
  ASSUME PromiseInv, TypeInv', DOMAIN mem' = DOMAIN mem, member' = member,
         \A y \in DOMAIN mem :
           \/ mem'[y].next_member = mem[y].next_member
           \/ {mem'[y].next_member, mem[y].next_member} \subseteq {Null, Wild}
  PROVE  /\ List' = List /\ List \subseteq DOMAIN mem /\ Path(List, member', mem')
         /\ \A x \in DOMAIN mem, A \in SUBSET DOMAIN mem : Path(A, x, mem) => Path(A, x, mem')
<1>0. mem \in Seq(Participant) /\ mem' \in Seq(Participant) /\ Path(List, member, mem)
  BY DEF PromiseInv, LeftInv, RoomInv, Shape, TypeInv, TypeOK
<1>1. ASSUME NEW A, NEW x, Path(A, x, mem) PROVE Path(A, x, mem')
  <2>1. A \subseteq DOMAIN mem
    BY <1>1 DEF Path
  <2> QED BY <1>0, <1>1, <2>1, PathSame
<1>2. List' = List
  BY <1>0, <1>1, NextList
<1> QED BY <1>0, <1>1, <1>2 DEF Path

\* If they change no user either, nobody notices.
LEMMA TouchGentle ==
  ASSUME PromiseInv, TypeInv', DOMAIN mem' = DOMAIN mem, member' = member,
         \A y \in DOMAIN mem :
           /\ mem'[y].ptr_to_user = mem[y].ptr_to_user
           /\ \/ mem'[y].next_member = mem[y].next_member
              \/ mem'[y].next_member = Null /\ mem[y].next_member = Wild
  PROVE  /\ Gentle /\ Present' = Present
         /\ \A y \in DOMAIN mem : Filled(y)' = Filled(y) /\ Unfilled(y)' = Unfilled(y)
<1>1. \A y \in DOMAIN mem : Filled(y)' = Filled(y) /\ Unfilled(y)' = Unfilled(y)
  BY DEF Filled, Unfilled
<1>2. /\ List' = List /\ List \subseteq DOMAIN mem
      /\ \A x \in DOMAIN mem, A \in SUBSET DOMAIN mem : Path(A, x, mem) => Path(A, x, mem')
  BY Touch
<1>3. Present' = Present
  BY <1>1, <1>2 DEF Present
<1>4. \A y : ~ (Unfilled(y) /\ Filled(y))
  BY DEF Unfilled, Filled
<1>5. \A y \in DOMAIN mem : mem'[y].next_member = Wild => mem[y].next_member = Wild
  BY DEF Null, Wild
<1>6. Gentle
  BY <1>1, <1>2, <1>4, <1>5 DEF Gentle, Filled
<1> QED BY <1>1, <1>3, <1>6

\* What the thread that fills a participant knows of it.
LEMMA Built ==
  ASSUME PromiseInv, NEW t \in Threads, pc[t] \in Filling
  PROVE  /\ conductor[t] \in List /\ Unfilled(conductor[t]) /\ conductor[t] = Len(mem)
         /\ conductor[t] \in DOMAIN mem
         /\ mem[conductor[t]].next_member \in {Null, Wild}
         /\ \A y \in DOMAIN mem : Unfilled(y) => y = conductor[t]
         /\ \A v \in Threads \ {t} : pc[v] \notin Joining \cup Filling \cup Exiting
<1>1. conductor[t] \in List /\ Unfilled(conductor[t])
  BY DEF PromiseInv, LeftInv, RoomInv, Point, Writer
<1>2. conductor[t] = Len(mem) /\ conductor[t] \in DOMAIN mem
  BY <1>1 DEF PromiseInv, RoomInv, Shape, Unfilled
<1>3. mem \in Seq(Participant) /\ Path(List, member, mem)
  BY DEF PromiseInv, LeftInv, RoomInv, Shape, TypeInv, TypeOK
<1>4. \A y \in List : y <= Len(mem)
  BY <1>3, NextType DEF Path
<1>5. mem[conductor[t]].next_member \in {Null, Wild}
  <2>1. List \subseteq Nat /\ Len(mem) \in Nat
    BY <1>3, NextType DEF Path
  <2> QED BY <1>1, <1>2, <1>3, <1>4, <2>1 DEF Path
<1>6. \A y \in DOMAIN mem : Unfilled(y) => y = conductor[t]
  <2>1. pc[t] # "reload"
    BY DEF Filling
  <2> QED BY <2>1, Alone DEF Builds
<1> QED BY <1>1, <1>2, <1>5, <1>6, Alone

\* The three stores that fill a participant; with the last its user is a member.
LEMMA ClearStep ==
  ASSUME PromiseInv, TypeInv', NEW t \in Threads, clear(t)
  PROVE  Shape' /\ Writer(t)' /\ Gentle /\ Present' = Present
<1> DEFINE c == conductor[t]
<1>0. /\ mem \in Seq(Participant) /\ Shape /\ Writer(t) /\ TypeInv
  BY DEF PromiseInv, LeftInv, RoomInv, TypeInv, TypeOK
<1>1. pc[t] = "clear" /\ pc[t] \in Filling
  BY DEF clear, At, Filling
<1>2. /\ c \in List /\ Unfilled(c) /\ c = Len(mem) /\ c \in DOMAIN mem
      /\ mem[c].next_member \in {Null, Wild}
      /\ \A y \in DOMAIN mem : Unfilled(y) => y = c
  BY <1>1, Built
<1>3. /\ pc'[t] = "name" /\ op' = op /\ conductor' = conductor /\ member' = member
      /\ mem' = [mem EXCEPT ![c] = [mem[c] EXCEPT !.next_member = Null]]
  BY <1>0, Moves DEF clear, Store, Cleared, here, localVars
<1>4. mem[c] \in Participant
  BY <1>0, <1>2
<1> DEFINE q == [mem[c] EXCEPT !.next_member = Null]
<1>5. q.next_member = Null /\ q.name = mem[c].name /\ q.ptr_to_user = mem[c].ptr_to_user
  BY <1>4 DEF Participant
<1> HIDE DEF q
<1>6. /\ DOMAIN mem' = DOMAIN mem /\ Len(mem') = Len(mem) /\ mem'[c] = q
      /\ \A z \in DOMAIN mem \ {c} : mem'[z] = mem[z]
  BY <1>0, <1>2, <1>3, Cell DEF q
<1>7. \A y \in DOMAIN mem : /\ mem'[y].name = mem[y].name
                            /\ mem'[y].ptr_to_user = mem[y].ptr_to_user
                            /\ \/ mem'[y].next_member = mem[y].next_member
                               \/ y = c /\ mem'[y].next_member = Null
  BY <1>5, <1>6
<1>8. /\ Gentle /\ Present' = Present
      /\ \A y \in DOMAIN mem : Filled(y)' = Filled(y) /\ Unfilled(y)' = Unfilled(y)
  BY <1>2, <1>3, <1>6, <1>7, TouchGentle
<1>9. List' = List /\ List \subseteq DOMAIN mem /\ Path(List, member', mem')
  BY <1>2, <1>3, <1>6, <1>7, Touch
<1>10. Builds(t, c)'
  BY <1>3 DEF Builds, Filling
<1>11. Shape'
  <2>1. \A y \in List' : Filled(y)' => mem'[y].name = mem'[y].ptr_to_user
    BY <1>0, <1>7, <1>8, <1>9 DEF Shape
  <2>2. \A y, z \in List' : Filled(y)' /\ mem'[y].ptr_to_user = mem'[z].ptr_to_user => y = z
    BY <1>0, <1>7, <1>8, <1>9 DEF Shape
  <2>3. \A y \in DOMAIN mem' :
          Unfilled(y)' => y = Len(mem') /\ y \in List' /\ \E w \in Threads : Builds(w, y)'
    <3> SUFFICES ASSUME NEW y \in DOMAIN mem', Unfilled(y)'
                 PROVE  y = Len(mem') /\ y \in List' /\ \E w \in Threads : Builds(w, y)'
      OBVIOUS
    <3>1. y = c
      BY <1>2, <1>6, <1>8
    <3> QED BY <1>2, <1>3, <1>6, <1>9, <1>10, <3>1
  <2>4. \A y \in DOMAIN mem' : mem'[y].next_member = Wild => Unfilled(y)' /\ mem'[y].name = None
    BY <1>0, <1>6, <1>7, <1>8 DEF Shape, Null, Wild
  <2> QED BY <1>9, <2>1, <2>2, <2>3, <2>4 DEF Shape
<1>12. Writer(t)'
  <2>1. \A y \in List \ {c} : mem[y].name # op[t].name
    BY <1>0, <1>1 DEF Writer
  <2>2. \A y \in List' \ {c} : mem'[y].name # op'[t].name
    BY <1>3, <1>7, <1>9, <2>1
  <2>3. mem'[c].next_member = Null /\ conductor'[t] = c /\ c \in List'
    BY <1>2, <1>3, <1>5, <1>6, <1>9
  <2> QED BY <1>3, <2>2, <2>3 DEF Writer, Filling
<1> QED BY <1>8, <1>11, <1>12

LEMMA NameStep ==
  ASSUME PromiseInv, TypeInv', NEW t \in Threads, store_name(t)
  PROVE  Shape' /\ Writer(t)' /\ Gentle /\ Present' = Present
<1> DEFINE c == conductor[t]
<1>0. /\ mem \in Seq(Participant) /\ Shape /\ Writer(t) /\ TypeInv
  BY DEF PromiseInv, LeftInv, RoomInv, TypeInv, TypeOK
<1>1. pc[t] = "name" /\ pc[t] \in Filling
  BY DEF store_name, At, Filling
<1>2. /\ c \in List /\ Unfilled(c) /\ c = Len(mem) /\ c \in DOMAIN mem
      /\ \A y \in DOMAIN mem : Unfilled(y) => y = c
  BY <1>1, Built
<1>3. /\ pc'[t] = "user" /\ op' = op /\ conductor' = conductor /\ member' = member
      /\ mem' = [mem EXCEPT ![c] = [mem[c] EXCEPT !.name = op[t].name]]
  BY <1>0, Moves DEF store_name, Store, here, localVars
<1>4. mem[c] \in Participant /\ mem[c].next_member = Null
  BY <1>0, <1>1, <1>2 DEF Writer
<1> DEFINE q == [mem[c] EXCEPT !.name = op[t].name]
<1>5. q.next_member = Null /\ q.name = op[t].name /\ q.ptr_to_user = mem[c].ptr_to_user
  BY <1>4 DEF Participant
<1> HIDE DEF q
<1>6. /\ DOMAIN mem' = DOMAIN mem /\ Len(mem') = Len(mem) /\ mem'[c] = q
      /\ \A z \in DOMAIN mem \ {c} : mem'[z] = mem[z]
  BY <1>0, <1>2, <1>3, Cell DEF q
<1>7. \A y \in DOMAIN mem : /\ mem'[y].name = mem[y].name \/ y = c
                            /\ mem'[y].ptr_to_user = mem[y].ptr_to_user
                            /\ mem'[y].next_member = mem[y].next_member
  BY <1>4, <1>5, <1>6
<1>8. /\ Gentle /\ Present' = Present
      /\ \A y \in DOMAIN mem : Filled(y)' = Filled(y) /\ Unfilled(y)' = Unfilled(y)
  BY <1>3, <1>6, <1>7, TouchGentle
<1>9. List' = List /\ List \subseteq DOMAIN mem /\ Path(List, member', mem')
  BY <1>3, <1>6, <1>7, Touch
<1>10. Builds(t, c)'
  BY <1>3 DEF Builds, Filling
<1>11. Shape'
  <2>1. \A y \in List' : Filled(y)' => mem'[y].name = mem'[y].ptr_to_user
    <3>1. ~Filled(c)
      BY <1>2 DEF Filled, Unfilled
    <3> QED BY <1>0, <1>7, <1>8, <1>9, <3>1 DEF Shape
  <2>2. \A y, z \in List' : Filled(y)' /\ mem'[y].ptr_to_user = mem'[z].ptr_to_user => y = z
    BY <1>0, <1>7, <1>8, <1>9 DEF Shape
  <2>3. \A y \in DOMAIN mem' :
          Unfilled(y)' => y = Len(mem') /\ y \in List' /\ \E w \in Threads : Builds(w, y)'
    <3> SUFFICES ASSUME NEW y \in DOMAIN mem', Unfilled(y)'
                 PROVE  y = Len(mem') /\ y \in List' /\ \E w \in Threads : Builds(w, y)'
      OBVIOUS
    <3>1. y = c
      BY <1>2, <1>6, <1>8
    <3> QED BY <1>2, <1>3, <1>6, <1>9, <1>10, <3>1
  <2>4. \A y \in DOMAIN mem' : mem'[y].next_member = Wild => Unfilled(y)' /\ mem'[y].name = None
    BY <1>0, <1>4, <1>6, <1>7, <1>8 DEF Shape, Null, Wild
  <2> QED BY <1>9, <2>1, <2>2, <2>3, <2>4 DEF Shape
<1>12. Writer(t)'
  <2>1. \A y \in List \ {c} : mem[y].name # op[t].name
    BY <1>0, <1>1 DEF Writer
  <2>2. \A y \in List' \ {c} : mem'[y].name # op'[t].name
    BY <1>3, <1>7, <1>9, <2>1
  <2>3. /\ mem'[c].next_member = Null /\ conductor'[t] = c /\ c \in List'
        /\ mem'[c].name = op'[t].name
    BY <1>2, <1>3, <1>5, <1>6, <1>9
  <2> QED BY <1>3, <2>2, <2>3 DEF Writer, Filling
<1> QED BY <1>8, <1>11, <1>12

LEMMA UserStep ==
  ASSUME PromiseInv, TypeInv', NEW t \in Threads, store_user(t)
  PROVE  /\ Shape' /\ Writer(t)' /\ Gentle
         /\ op[t].name \notin Present /\ Present' = Present \cup {op[t].name}
<1> DEFINE c == conductor[t]
           a == op[t].name
<1>0. /\ mem \in Seq(Participant) /\ Shape /\ Writer(t) /\ TypeInv
  BY DEF PromiseInv, LeftInv, RoomInv, TypeInv, TypeOK
<1>1. pc[t] = "user" /\ pc[t] \in Filling /\ a \in Names
  <2>1. pc[t] = "user" /\ pc[t] \in Filling
    BY DEF store_user, At, Filling
  <2> QED BY <1>0, <2>1 DEF TypeInv, CallOf, Call
<1>2. /\ c \in List /\ Unfilled(c) /\ c = Len(mem) /\ c \in DOMAIN mem
      /\ \A y \in DOMAIN mem : Unfilled(y) => y = c
  BY <1>1, Built
<1>3. /\ pc'[t] = "idle" /\ member' = member /\ conductor' = conductor
      /\ mem' = [mem EXCEPT ![c] = [mem[c] EXCEPT !.ptr_to_user = a]]
  BY <1>0, Moves DEF store_user, Store, here, localVars
<1>4. mem[c] \in Participant /\ mem[c].next_member = Null /\ mem[c].name = a
  BY <1>0, <1>1, <1>2 DEF Writer
<1> DEFINE q == [mem[c] EXCEPT !.ptr_to_user = a]
<1>5. q.next_member = Null /\ q.name = a /\ q.ptr_to_user = a
  BY <1>4 DEF Participant
<1> HIDE DEF q
<1>6. /\ DOMAIN mem' = DOMAIN mem /\ Len(mem') = Len(mem) /\ mem'[c] = q
      /\ \A z \in DOMAIN mem \ {c} : mem'[z] = mem[z]
  BY <1>0, <1>2, <1>3, Cell DEF q
<1>7. \A y \in DOMAIN mem : mem'[y].name = mem[y].name /\ mem'[y].next_member = mem[y].next_member
  BY <1>4, <1>5, <1>6
<1>8. /\ List' = List /\ List \subseteq DOMAIN mem /\ Path(List, member', mem')
      /\ \A x \in DOMAIN mem, A \in SUBSET DOMAIN mem : Path(A, x, mem) => Path(A, x, mem')
  BY <1>3, <1>6, <1>7, Touch
<1>9. /\ Filled(c)' /\ ~Filled(c) /\ \A y \in DOMAIN mem : Filled(y)' /\ ~Unfilled(y)'
      /\ \A y \in DOMAIN mem \ {c} : Filled(y) /\ mem'[y].ptr_to_user = mem[y].ptr_to_user
  <2>1. \A y \in DOMAIN mem \ {c} : Filled(y) /\ mem'[y] = mem[y]
    BY <1>2, <1>6 DEF Filled, Unfilled
  <2>2. Filled(c)' /\ ~Filled(c)
    BY <1>1, <1>2, <1>3, <1>5, <1>6 DEF Filled, Unfilled
  <2>3. \A y \in DOMAIN mem : Filled(y)' /\ ~Unfilled(y)'
    BY <1>3, <1>6, <2>1, <2>2 DEF Filled, Unfilled
  <2> QED BY <2>1, <2>2, <2>3
<1>10. \A y \in List \ {c} : mem[y].ptr_to_user # a
  <2>1. \A y \in List \ {c} : mem[y].name # a
    BY <1>0, <1>1 DEF Writer
  <2> QED BY <1>0, <1>8, <1>9, <2>1 DEF Shape
<1>11. a \notin Present
  BY <1>8, <1>9, <1>10 DEF Present
<1>12. Present' = Present \cup {a}
  <2>1. \A y \in List : mem'[y].ptr_to_user = IF y = c THEN a ELSE mem[y].ptr_to_user
    BY <1>2, <1>5, <1>6, <1>8
  <2>2. ASSUME NEW n \in Present' PROVE n \in Present \cup {a}
    BY <1>8, <1>9, <2>1, <2>2 DEF Present
  <2>3. ASSUME NEW n \in Present PROVE n \in Present'
    BY <1>8, <1>9, <2>1, <2>3 DEF Present
  <2>4. a \in Present'
    BY <1>2, <1>8, <1>9, <2>1 DEF Present
  <2> QED BY <2>2, <2>3, <2>4
<1>13. Shape'
  <2>1. \A y \in List' : Filled(y)' => mem'[y].name = mem'[y].ptr_to_user
    BY <1>0, <1>5, <1>6, <1>7, <1>8, <1>9 DEF Shape
  <2>2. \A y, z \in List' : Filled(y)' /\ mem'[y].ptr_to_user = mem'[z].ptr_to_user => y = z
    BY <1>0, <1>5, <1>6, <1>8, <1>9, <1>10 DEF Shape
  <2>3. \A y \in DOMAIN mem' : mem'[y].next_member # Wild
    BY <1>0, <1>2, <1>4, <1>6, <1>7 DEF Shape, Null, Wild
  <2> QED BY <1>6, <1>8, <1>9, <2>1, <2>2, <2>3 DEF Shape
<1>14. Gentle
  <2>1. \A y \in DOMAIN mem : Unfilled(y) => y = c
    BY <1>2
  <2>2. mem'[c].ptr_to_user \in Present' \ Present
    BY <1>5, <1>6, <1>11, <1>12
  <2> QED BY <1>6, <1>7, <1>8, <1>9, <2>1, <2>2 DEF Gentle
<1>15. Writer(t)'
  BY <1>3 DEF Writer, Filling
<1> QED BY <1>11, <1>12, <1>13, <1>14, <1>15

\* free() writes over a name that is in the list no more.
LEMMA FreeStep ==
  ASSUME PromiseInv, TypeInv', NEW t \in Threads, free(t)
  PROVE  Shape' /\ Writer(t)' /\ Gentle /\ Present' = Present
<1> DEFINE c == conductor[t]
<1>0. /\ mem \in Seq(Participant) /\ Shape /\ Writer(t) /\ TypeInv
  BY DEF PromiseInv, LeftInv, RoomInv, TypeInv, TypeOK
<1>1. /\ pc[t] = "free" /\ c \in DOMAIN mem /\ c \notin List
      /\ \A y \in DOMAIN mem : Filled(y) /\ mem[y].next_member # Wild
  <2>1. pc[t] = "free" /\ pc[t] \in Exiting /\ pc[t] \notin {"reload"} \cup Filling
    BY DEF free, At, Exiting, Filling
  <2> QED BY <1>0, <2>1, Alone DEF Writer
<1>2. /\ pc'[t] = "idle" /\ member' = member
      /\ mem' = [mem EXCEPT ![c] = [mem[c] EXCEPT !.name = None, !.freed = TRUE]]
  BY <1>0, Moves DEF free, Store, here
<1>3. mem[c] \in Participant
  BY <1>0, <1>1
<1> DEFINE q == [mem[c] EXCEPT !.name = None, !.freed = TRUE]
<1>4. q.next_member = mem[c].next_member /\ q.ptr_to_user = mem[c].ptr_to_user
  BY <1>3 DEF Participant
<1> HIDE DEF q
<1>5. /\ DOMAIN mem' = DOMAIN mem /\ mem'[c] = q /\ \A z \in DOMAIN mem \ {c} : mem'[z] = mem[z]
  BY <1>0, <1>1, <1>2, Cell DEF q
<1>6. \A y \in DOMAIN mem : /\ y # c => mem'[y].name = mem[y].name
                            /\ mem'[y].ptr_to_user = mem[y].ptr_to_user
                            /\ mem'[y].next_member = mem[y].next_member
  BY <1>4, <1>5
<1>7. /\ Gentle /\ Present' = Present
      /\ \A y \in DOMAIN mem : Filled(y)' = Filled(y) /\ Unfilled(y)' = Unfilled(y)
  BY <1>2, <1>5, <1>6, TouchGentle
<1>8. List' = List /\ List \subseteq DOMAIN mem /\ Path(List, member', mem')
  BY <1>2, <1>5, <1>6, Touch
<1>9. \A y \in DOMAIN mem' : ~Unfilled(y)' /\ mem'[y].next_member # Wild
  BY <1>1, <1>5, <1>6, <1>7 DEF Filled, Unfilled
<1>10. Shape'
  <2>1. \A y \in List' : Filled(y)' => mem'[y].name = mem'[y].ptr_to_user
    BY <1>0, <1>1, <1>6, <1>7, <1>8 DEF Shape
  <2>2. \A y, z \in List' : Filled(y)' /\ mem'[y].ptr_to_user = mem'[z].ptr_to_user => y = z
    BY <1>0, <1>6, <1>7, <1>8 DEF Shape
  <2> QED BY <1>8, <1>9, <2>1, <2>2 DEF Shape
<1>11. Writer(t)'
  BY <1>2 DEF Writer, Filling
<1> QED BY <1>7, <1>10, <1>11

\* The participant leaves the list when its predecessor is stored into.
LEMMA StoreStep ==
  ASSUME PromiseInv, TypeInv', NEW t \in Threads, store(t)
  PROVE  /\ Shape' /\ Writer(t)' /\ Gentle
         /\ Present' = Present \ {op[t].name}
<1> DEFINE c == conductor[t]
           a == op[t].name
           p == previous[t]
<1>0. /\ mem \in Seq(Participant) /\ mem' \in Seq(Participant) /\ Shape /\ Writer(t) /\ TypeInv
      /\ Path(List, member, mem)
  BY DEF PromiseInv, LeftInv, RoomInv, Shape, TypeInv, TypeOK
<1>1. /\ pc[t] = "store" /\ c \in List /\ mem[c].name = a /\ p \in List
      /\ mem[p].next_member = c /\ held[t] = mem[c].next_member
      /\ \A y \in DOMAIN mem : Filled(y) /\ mem[y].next_member # Wild
  <2>1. pc[t] = "store" /\ pc[t] \in Exiting /\ pc[t] \notin {"reload"} \cup Filling
    BY DEF store, Before, Exiting, Filling
  <2> QED BY <1>0, <2>1, Alone DEF Writer
<1>2. /\ pc'[t] = "free" /\ member' = member /\ op' = op /\ conductor' = conductor
      /\ mem' = [mem EXCEPT ![p] = [mem[p] EXCEPT !.next_member = held[t]]]
  BY <1>0, Moves DEF store, localVars
<1>3. List \subseteq DOMAIN mem /\ p \in DOMAIN mem /\ c \in DOMAIN mem /\ mem[p] \in Participant
  BY <1>0, <1>1, FirstInList
<1> DEFINE q == [mem[p] EXCEPT !.next_member = held[t]]
<1>4. q.next_member = mem[c].next_member /\ q.ptr_to_user = mem[p].ptr_to_user
      /\ q.name = mem[p].name
  BY <1>1, <1>3 DEF Participant
<1> HIDE DEF q
<1>5. /\ DOMAIN mem' = DOMAIN mem /\ mem'[p] = q /\ \A z \in DOMAIN mem \ {p} : mem'[z] = mem[z]
  BY <1>0, <1>2, <1>3, Cell DEF q
<1>6. /\ \A y \in DOMAIN mem : /\ mem'[y].name = mem[y].name
                               /\ mem'[y].ptr_to_user = mem[y].ptr_to_user
      /\ \A y \in DOMAIN mem \ {p} : mem'[y].next_member = mem[y].next_member
      /\ mem'[p].next_member = mem[c].next_member
  BY <1>4, <1>5
<1>7. \A y : Filled(y)' = Filled(y) /\ Unfilled(y)' = Unfilled(y)
  BY <1>5, <1>6 DEF Filled, Unfilled
<1>8. \A y \in DOMAIN mem' : ~Unfilled(y)' /\ mem'[y].next_member # Wild
  BY <1>1, <1>3, <1>5, <1>6, <1>7 DEF Filled, Unfilled
<1>9. ASSUME NEW A, NEW x, Path(A, x, mem), p \in A PROVE Path(A \ {c}, x, mem')
  <2>1. A \subseteq DOMAIN mem /\ c \in A
    BY <1>0, <1>1, <1>3, <1>9, NextType DEF Path, Null, Wild
  <2> QED BY <1>0, <1>1, <1>5, <1>6, <1>9, <2>1, PathCut
<1>10. ASSUME NEW A, NEW x, Path(A, x, mem), p \notin A PROVE Path(A, x, mem')
  <2>1. A \subseteq DOMAIN mem
    BY <1>10 DEF Path
  <2> QED BY <1>0, <1>5, <1>6, <1>10, <2>1, PathSame
<1>11. List' = List \ {c} /\ Path(List \ {c}, member', mem')
  BY <1>0, <1>1, <1>2, <1>9, NextList
<1>12. /\ \A y \in List : mem[y].name = mem[y].ptr_to_user
       /\ \A y, z \in List : mem[y].ptr_to_user = mem[z].ptr_to_user => y = z
  BY <1>0, <1>1, <1>3 DEF Shape
<1>13. mem[c].ptr_to_user = a /\ \A y \in List \ {c} : mem[y].ptr_to_user # a
  BY <1>1, <1>12
<1>14. Present = {mem[y].ptr_to_user : y \in List}
  BY <1>1, <1>3 DEF Present
<1>15. Present' = {mem[y].ptr_to_user : y \in List \ {c}}
  <2>1. \A y \in List' : Filled(y)' /\ mem'[y].ptr_to_user = mem[y].ptr_to_user
    BY <1>1, <1>3, <1>6, <1>7, <1>11
  <2>2. Present' = {mem'[y].ptr_to_user : y \in List'}
    BY <2>1 DEF Present
  <2> QED BY <1>11, <2>1, <2>2
<1>16. Present' = Present \ {a}
  BY <1>13, <1>14, <1>15
<1>17. Shape'
  <2>1. \A y \in List' : mem'[y].name = mem'[y].ptr_to_user
    BY <1>3, <1>6, <1>11, <1>12
  <2>2. \A y, z \in List' : mem'[y].ptr_to_user = mem'[z].ptr_to_user => y = z
    BY <1>3, <1>6, <1>11, <1>12
  <2> QED BY <1>8, <1>11, <2>1, <2>2 DEF Shape
<1>18. Gentle
  <2>1. ASSUME NEW x \in DOMAIN mem, NEW A \in SUBSET DOMAIN mem, Path(A, x, mem)
        PROVE  \E B \in SUBSET DOMAIN mem' :
                 /\ Path(B, x, mem')
                 /\ \A y \in B \ A : y \notin DOMAIN mem /\ Unfilled(y)'
                 /\ \A y \in A \ B : y \notin List'
    <3>1. CASE p \in A
      <4>1. Path(A \ {c}, x, mem') /\ A \ {c} \in SUBSET DOMAIN mem'
        BY <1>5, <1>9, <2>1, <3>1
      <4> QED BY <1>11, <4>1
    <3>2. CASE p \notin A
      BY <1>5, <1>10, <2>1, <3>2
    <3> QED BY <3>1, <3>2
  <2>2. \A y \in DOMAIN mem : ~Unfilled(y)
    BY <1>1 DEF Filled, Unfilled
  <2>3. \A y \in List \ List' : mem[y].ptr_to_user \in Present \ Present'
    <3>1. \A y \in List \ List' : y = c
      BY <1>11
    <3> QED BY <1>1, <1>13, <1>14, <1>16, <3>1
  <2>4. \A y \in DOMAIN mem : Filled(y) => Filled(y)' /\ mem'[y].ptr_to_user = mem[y].ptr_to_user
    BY <1>6, <1>7
  <2>5. \A y \in DOMAIN mem : mem'[y].next_member = Wild => mem[y].next_member = Wild
    BY <1>5, <1>8
  <2>6. List' \ List = {}
    BY <1>11
  <2> QED BY <2>1, <2>2, <2>3, <2>4, <2>5, <2>6 DEF Gentle
<1>19. Writer(t)'
  <2>1. NotIn(t)'
    BY <1>2, <1>3, <1>6, <1>11, <1>12, <1>13 DEF NotIn
  <2>2. conductor'[t] \in DOMAIN mem' \ List'
    BY <1>2, <1>3, <1>5, <1>11
  <2> QED BY <1>2, <2>1, <2>2 DEF Writer, Filling
<1> QED BY <1>16, <1>17, <1>18, <1>19

\* What malloc returns is a new participant without a name or a user; the others keep
\* theirs.  It comes to the end of the list, and of the ways that lead there.
NewOne ==
  LET N == Len(mem) + 1 IN
  /\ mem' \in Seq(Participant) /\ Len(mem') = N
  /\ mem'[N].name = None /\ mem'[N].ptr_to_user \notin Names
  /\ mem'[N].next_member \in {Null, Wild}
  /\ \A y \in DOMAIN mem : /\ mem'[y].name = mem[y].name
                           /\ mem'[y].ptr_to_user = mem[y].ptr_to_user

\* A new participant at the end of the list.
LEMMA Arrives ==
  ASSUME PromiseInv, NewOne, NEW t \in Threads, List' = List \cup {Len(mem')},
         Path(List', member', mem'), \A y \in DOMAIN mem : Filled(y) /\ mem[y].next_member # Wild,
         \A y \in DOMAIN mem : mem'[y].next_member # Wild, Builds(t, Len(mem))',
         \A x \in DOMAIN mem, A \in SUBSET DOMAIN mem :
           Path(A, x, mem) => Path(A, x, mem') \/ Path(A \cup {Len(mem')}, x, mem')
  PROVE  Shape' /\ Gentle /\ Present' = Present
<1> DEFINE N == Len(mem')
<1>0. mem \in Seq(Participant) /\ mem' \in Seq(Participant) /\ Shape
  BY DEF PromiseInv, LeftInv, RoomInv, TypeInv, TypeOK, NewOne
<1>1. /\ Len(mem) \in Nat /\ N = Len(mem) + 1
      /\ DOMAIN mem = 1 .. Len(mem) /\ DOMAIN mem' = 1 .. N
  BY <1>0, NextType DEF NewOne
<1>2. N \notin DOMAIN mem /\ DOMAIN mem' = DOMAIN mem \cup {N}
  BY <1>1
<1>3. /\ mem'[N].name = None /\ mem'[N].ptr_to_user \notin Names
      /\ \A y \in DOMAIN mem : /\ mem'[y].name = mem[y].name
                               /\ mem'[y].ptr_to_user = mem[y].ptr_to_user
  BY <1>1 DEF NewOne
<1>4. List' = List \cup {N} /\ Builds(t, Len(mem))' /\ List \subseteq DOMAIN mem
  BY FirstInList
<1> HIDE DEF N
<1>5. /\ \A y \in DOMAIN mem : Filled(y)' /\ ~Unfilled(y)' /\ ~Unfilled(y)
      /\ \A y : y = N => Unfilled(y)' /\ ~Filled(y)'
  BY <1>2, <1>3 DEF Filled, Unfilled
<1>6. Shape'
  <2>1. \A y \in List' : Filled(y)' => mem'[y].name = mem'[y].ptr_to_user
    BY <1>0, <1>3, <1>4, <1>5 DEF Shape
  <2>2. \A y, z \in List' : Filled(y)' /\ mem'[y].ptr_to_user = mem'[z].ptr_to_user => y = z
    <3> SUFFICES ASSUME NEW y \in List', NEW z \in List', Filled(y)',
                        mem'[y].ptr_to_user = mem'[z].ptr_to_user
                 PROVE  y = z
      OBVIOUS
    <3>1. y \in List /\ mem'[y].ptr_to_user \in Names
      BY <1>4, <1>5 DEF Filled
    <3>2. z \in List
      BY <1>3, <1>4, <3>1
    <3> QED BY <1>0, <1>3, <1>4, <3>1, <3>2 DEF Shape
  <2>3. \A y \in DOMAIN mem' :
          Unfilled(y)' => y = Len(mem') /\ y \in List' /\ \E w \in Threads : Builds(w, y)'
    <3> SUFFICES ASSUME NEW y \in DOMAIN mem', Unfilled(y)'
                 PROVE  y = Len(mem') /\ y \in List' /\ \E w \in Threads : Builds(w, y)'
      OBVIOUS
    <3>1. y = Len(mem')
      BY <1>2, <1>5 DEF N
    <3>2. Builds(t, y)'
      BY <1>4, <3>1 DEF Builds, here
    <3> QED BY <1>4, <3>1, <3>2 DEF N
  <2>4. \A y \in DOMAIN mem' : mem'[y].next_member = Wild => Unfilled(y)' /\ mem'[y].name = None
    BY <1>2, <1>3, <1>5
  <2> QED BY <2>1, <2>2, <2>3, <2>4 DEF Shape
<1>7. Present' = Present
  <2>1. \A n : n \in Present => n \in Present'
    BY <1>3, <1>4, <1>5 DEF Present
  <2>2. \A n : n \in Present' => n \in Present
    BY <1>3, <1>4, <1>5 DEF Present
  <2> QED BY <2>1, <2>2
<1>8. Gentle
  <2>1. ASSUME NEW x \in DOMAIN mem, NEW A \in SUBSET DOMAIN mem, Path(A, x, mem)
        PROVE  \E B \in SUBSET DOMAIN mem' :
                 /\ Path(B, x, mem')
                 /\ \A y \in B \ A : y \notin DOMAIN mem /\ Unfilled(y)'
                 /\ \A y \in A \ B : y \notin List'
    <3>1. CASE Path(A, x, mem')
      BY <1>2, <2>1, <3>1
    <3>2. CASE Path(A \cup {N}, x, mem')
      <4>1. A \cup {N} \in SUBSET DOMAIN mem'
        BY <1>2
      <4> QED BY <1>2, <1>5, <3>2, <4>1
    <3> QED BY <2>1, <3>1, <3>2 DEF N
  <2>2. \A y \in List' \ List : y \notin DOMAIN mem /\ Unfilled(y)'
    BY <1>2, <1>4, <1>5
  <2>3. List \ List' = {}
    BY <1>4
  <2>4. \A y \in DOMAIN mem : Filled(y) => Filled(y)' /\ mem'[y].ptr_to_user = mem[y].ptr_to_user
    BY <1>3, <1>5
  <2> QED BY <1>5, <2>1, <2>2, <2>3, <2>4 DEF Gentle
<1> QED BY <1>6, <1>7, <1>8

\* The two places where join_chatroom links it.
LEMMA AppendStep ==
  ASSUME PromiseInv, TypeInv', NEW t \in Threads, append(t)
  PROVE  /\ Shape' /\ Writer(t)' /\ Gentle /\ Present' = Present
<1> DEFINE c == conductor[t]
<1>0. /\ mem \in Seq(Participant) /\ mem' \in Seq(Participant) /\ Shape /\ Writer(t) /\ TypeInv
      /\ Path(List, member, mem) /\ Point(t) /\ CallOf(t)
  BY DEF PromiseInv, LeftInv, RoomInv, Shape, TypeInv, TypeOK
<1>1. /\ pc[t] = "append" /\ c \in List /\ NotIn(t) /\ mem[c].next_member = Null
      /\ op[t].name \in Names
      /\ \A y \in DOMAIN mem : Filled(y) /\ mem[y].next_member # Wild
      /\ \A v \in Threads \ {t} : pc[v] \notin Joining \cup Filling \cup Exiting
  <2>1. pc[t] = "append" /\ pc[t] \in Joining /\ pc[t] \notin {"reload"} \cup Filling
    BY DEF append, At, Joining, Filling
  <2>2. op[t].name \in Names
    BY <1>0, <2>1 DEF CallOf, Call
  <2> QED BY <1>0, <2>1, <2>2, Alone DEF Writer
<1>2. /\ pc'[t] = "reload" /\ member' = member /\ op' = op /\ conductor' = conductor
      /\ \A v \in Threads \ {t} : pc'[v] = pc[v]
  BY <1>0, Moves DEF append, localVars
<1>3. List \subseteq DOMAIN mem /\ c \in DOMAIN mem /\ mem[c] \in Participant
      /\ Len(mem) \in Nat /\ DOMAIN mem = 1 .. Len(mem)
  BY <1>0, <1>1, FirstInList, NextType
<1>4. CASE Store(t, [here(t) EXCEPT !.next_member = Null])
  <2> DEFINE q == [mem[c] EXCEPT !.next_member = Null]
  <2>1. q = mem[c]
    BY <1>1, <1>3 DEF Participant
  <2>2. mem' = [mem EXCEPT ![c] = q]
    BY <1>4 DEF Store, here
  <2> HIDE DEF q
  <2>3. mem' = mem
    BY <1>0, <1>3, <2>1, <2>2
  <2>4. List' = List /\ Present' = Present /\ Gentle
    BY <1>2, <2>3, Quiet
  <2>5. \A y \in DOMAIN mem : ~Unfilled(y)
    BY <1>1 DEF Filled, Unfilled
  <2>6. Shape'
    BY <1>2, <2>3, <2>5, ShapeQuiet
  <2>7. NotIn(t)' /\ c \in List' /\ conductor'[t] = c
    BY <1>1, <1>2, <2>3, <2>4 DEF NotIn
  <2>8. Writer(t)'
    BY <1>2, <2>7 DEF Writer, Filling
  <2> QED BY <2>4, <2>6, <2>8
<1>5. CASE \E u \in FreshUser, x \in FreshNext :
             mem' = Append([mem EXCEPT ![c].next_member = Len(mem) + 1], Fresh(u, x))
  <2>1. PICK u \in FreshUser, x \in FreshNext :
          mem' = Append([mem EXCEPT ![c].next_member = Len(mem) + 1], Fresh(u, x))
    BY <1>5
  <2> DEFINE q == [mem[c] EXCEPT !.next_member = Len(mem) + 1]
             m == [mem EXCEPT ![c] = q]
             N == Len(mem) + 1
             f == Fresh(u, x)
  <2>2. q.next_member = N /\ q.name = mem[c].name /\ q.ptr_to_user = mem[c].ptr_to_user
        /\ q \in Participant
    BY <1>3 DEF Participant
  <2>3. mem' = Append(m, f)
    BY <2>1
  <2>4. f.name = None /\ f.ptr_to_user \notin Names /\ f.next_member \in {Null, Wild}
    BY FreshAssumption, NoneAssumption DEF Fresh
  <2> HIDE DEF q, f
  <2>5. /\ m \in Seq(Participant) /\ Len(m) = Len(mem) /\ DOMAIN m = DOMAIN mem /\ m[c] = q
        /\ \A y \in DOMAIN mem \ {c} : m[y] = mem[y]
    BY <1>0, <1>3, <2>2
  <2> HIDE DEF m
  <2>6. /\ Len(mem') = N /\ mem'[N] = f /\ \A y \in DOMAIN mem : mem'[y] = m[y]
    BY <1>3, <2>3, <2>5
  <2>7. /\ \A y \in DOMAIN mem : /\ mem'[y].name = mem[y].name
                                 /\ mem'[y].ptr_to_user = mem[y].ptr_to_user
        /\ \A y \in DOMAIN mem \ {c} : mem'[y].next_member = mem[y].next_member
        /\ mem'[c].next_member = N
    BY <1>3, <2>2, <2>5, <2>6
  <2>8. NewOne
    BY <1>0, <2>4, <2>6, <2>7 DEF NewOne
  <2>9. ASSUME NEW A, NEW y, Path(A, y, mem) PROVE c \in A => Path(A \cup {N}, y, mem')
    <3> SUFFICES ASSUME c \in A PROVE Path(A \cup {N}, y, mem')
      OBVIOUS
    <3>1. A \subseteq DOMAIN mem
      BY <2>9 DEF Path
    <3> HIDE DEF N
    <3>2. /\ mem[c].next_member \in {Null, Wild} /\ Len(mem') = Len(mem) + 1
          /\ mem'[c].next_member = Len(mem') /\ mem'[Len(mem')].next_member \in {Null, Wild}
          /\ \A z \in A \ {c} : mem'[z].next_member = mem[z].next_member
      BY <1>1, <2>4, <2>6, <2>7, <3>1 DEF N
    <3>3. Path(A \cup {Len(mem')}, y, mem')
      BY <1>0, <2>9, <3>2, PathGrow
    <3> QED BY <2>6, <3>3
  <2>10. ASSUME NEW A, NEW y, Path(A, y, mem), c \notin A PROVE Path(A, y, mem')
    <3>1. A \subseteq DOMAIN mem /\ DOMAIN mem \subseteq DOMAIN mem'
      BY <1>0, <1>3, <2>6, <2>10, NextType DEF Path
    <3> QED BY <1>0, <2>7, <2>10, <3>1, PathSame
  <2>11. List' = List \cup {N} /\ Path(List', member', mem')
    <3>1. Path(List \cup {N}, member', mem')
      BY <1>0, <1>1, <1>2, <2>9
    <3>2. List' = List \cup {N}
      BY <1>0, <3>1, NextList
    <3> QED BY <3>1, <3>2
  <2>12. \A y \in DOMAIN mem : mem'[y].next_member # Wild
    BY <1>1, <1>3, <2>7 DEF Wild
  <2>13. Builds(t, Len(mem))'
    <3>1. /\ conductor'[t] = c /\ c \in DOMAIN mem' /\ Len(mem') = N
          /\ mem'[c].next_member = N /\ mem'[N].name = None
      BY <1>0, <1>2, <1>3, <2>4, <2>6, <2>7, NextType
    <3> QED BY <1>2, <3>1 DEF Builds, here
  <2>14. Shape' /\ Gentle /\ Present' = Present
    BY <1>1, <2>6, <2>8, <2>9, <2>10, <2>11, <2>12, <2>13, Arrives
  <2>15. Writer(t)'
    <3>1. NotIn(t)'
      BY <1>1, <1>2, <1>3, <2>4, <2>6, <2>7, <2>11, NoneAssumption DEF NotIn
    <3>2. conductor'[t] \in List'
      BY <1>1, <1>2, <2>11
    <3> QED BY <1>2, <3>1, <3>2 DEF Writer, Filling
  <2> QED BY <2>14, <2>15
<1> QED BY <1>4, <1>5 DEF append

LEMMA FirstNodeStep ==
  ASSUME PromiseInv, TypeInv', NEW t \in Threads, first_node(t)
  PROVE  /\ Shape' /\ Writer(t)' /\ Gentle /\ Present' = Present
<1>0. /\ mem \in Seq(Participant) /\ mem' \in Seq(Participant) /\ Shape /\ Writer(t) /\ TypeInv
      /\ Path(List, member, mem) /\ Len(mem) \in Nat /\ DOMAIN mem = 1 .. Len(mem)
      /\ member \in {Null} \cup DOMAIN mem
  BY DEF PromiseInv, LeftInv, RoomInv, Shape, TypeInv, TypeOK
<1>1. /\ pc[t] = "first node" /\ List = {} /\ member = Null
      /\ \A y \in DOMAIN mem : Filled(y) /\ mem[y].next_member # Wild
  <2>1. pc[t] = "first node" /\ pc[t] \in Joining /\ pc[t] \notin {"reload"} \cup Filling
    BY DEF first_node, Before, Joining, Filling
  <2> QED BY <1>0, <2>1, Alone, FirstInList DEF Writer
<1>2. CASE member' = Null /\ Return(t, OUT_OF_MEMORY) /\ UNCHANGED <<mem, conductor>>
  <2>1. pc'[t] = "idle" /\ mem' = mem /\ member' = member
        /\ \A v \in Threads \ {t} : pc'[v] = pc[v] /\ conductor'[v] = conductor[v]
    BY <1>0, <1>1, <1>2, Moves
  <2>2. List' = List /\ Present' = Present /\ Gentle
    BY <2>1, Quiet
  <2>3. \A y \in DOMAIN mem : ~Unfilled(y)
    BY <1>1 DEF Filled, Unfilled
  <2>4. Shape'
    BY <2>1, <2>3, ShapeQuiet
  <2>5. Writer(t)'
    BY <2>1 DEF Writer, Filling
  <2> QED BY <2>2, <2>4, <2>5
<1>3. CASE \E u \in FreshUser, x \in FreshNext :
             /\ mem' = Append(mem, Fresh(u, x)) /\ member' = Len(mem) + 1
             /\ Follow(t, member') /\ Goto(t, "clear")
  <2>1. PICK u \in FreshUser, x \in FreshNext :
             /\ mem' = Append(mem, Fresh(u, x)) /\ member' = Len(mem) + 1
             /\ Follow(t, member') /\ Goto(t, "clear")
    BY <1>3
  <2> DEFINE N == Len(mem) + 1
             f == Fresh(u, x)
  <2>2. f.name = None /\ f.ptr_to_user \notin Names /\ f.next_member \in {Null, Wild}
    BY FreshAssumption, NoneAssumption DEF Fresh
  <2>3. pc'[t] = "clear" /\ conductor'[t] = N /\ op' = op /\ member' = N
    BY <1>0, <2>1, Moves
  <2> HIDE DEF f
  <2>4. Len(mem') = N /\ mem'[N] = f /\ \A y \in DOMAIN mem : mem'[y] = mem[y]
    BY <1>0, <2>1 DEF f
  <2>5. NewOne
    BY <1>0, <2>2, <2>4 DEF NewOne
  <2>6. Path({N}, member', mem')
    <3>1. N \in DOMAIN mem' /\ N \in Nat
      BY <1>0, <2>4, NextType
    <3> QED BY <2>2, <2>3, <2>4, <3>1 DEF Path
  <2>7. List' = {N} /\ List' = List \cup {N} /\ Path(List', member', mem')
    BY <1>0, <1>1, <2>6, NextList
  <2>8. Builds(t, Len(mem))'
    BY <2>3, <2>4 DEF Builds, Filling
  <2>9. ASSUME NEW A, NEW y, Path(A, y, mem) PROVE Path(A, y, mem')
    <3>1. A \subseteq DOMAIN mem /\ DOMAIN mem \subseteq DOMAIN mem'
      BY <1>0, <2>4, <2>9, NextType DEF Path
    <3> QED BY <1>0, <2>4, <2>9, <3>1, PathSame
  <2>10. Shape' /\ Gentle /\ Present' = Present
    BY <1>1, <2>4, <2>5, <2>7, <2>8, <2>9, Arrives
  <2>11. Writer(t)'
    BY <2>3, <2>7 DEF Writer, Filling
  <2> QED BY <2>10, <2>11
<1> QED BY <1>2, <1>3 DEF first_node

-------------------------------------------------------------------------------
(* Forwards                                                                *)

\* The history variables of a call that goes on.
LEMMA Goes ==
  ASSUME PromiseInv, Witness, NEW v \in Threads, pc[v] # "idle", pc'[v] # "idle"
  PROVE  /\ must'[v] = must[v] \cap Members' \cap Online' /\ may'[v] = may[v] \cup Members'
         /\ came'[v] = came[v] \cup (Members' \ Members)
         /\ left'[v] = left[v] \cup (Members \ Members')
BY DEF Witness

\* The history of a call is kept by every step.
LEMMA HistoryStep ==
  ASSUME PromiseInv, Witness, NEW v \in Threads,
         pc'[v] # "idle" => \A n \in Names : copies'[v][n] > 0 => n \in may[v]
  PROVE  History(v)'
<1>1. CASE pc'[v] = "idle"
  BY <1>1 DEF Witness, History
<1>2. CASE pc'[v] # "idle"
  <2>1. must'[v] \subseteq Members' \cap Online' /\ may'[v] = may[v] \cup Members'
        /\ left'[v] = left[v] \cup (Members \ Members')
    BY <1>2 DEF Witness
  <2>2. may[v] \subseteq Members \cup left[v]
    BY DEF PromiseInv, RoomInv, History
  <2> QED BY <1>2, <2>1, <2>2 DEF History
<1> QED BY <1>1, <1>2

\* A forward that goes through the list while another thread takes a step.
LEMMA ReaderOthers ==
  ASSUME PromiseInv, TypeInv', Witness, Gentle, Members = Present, Members' = Present',
         NEW v \in Threads, pc'[v] = pc[v], op'[v] = op[v], conductor'[v] = conductor[v],
         copies'[v] = copies[v]
  PROVE  Reader(v)'
<1> DEFINE c == conductor[v]
<1>0. Reader(v) /\ Shape /\ CallOf(v) /\ History(v) /\ List \subseteq DOMAIN mem
  BY FirstInList DEF PromiseInv, RoomInv, LeftInv, TypeInv
<1>1. CASE pc[v] \notin Forwarding
  BY <1>1 DEF Reader, Forwarding
<1>2. CASE pc[v] = "head"
  BY <1>0, <1>2 DEF Reader
<1>3. CASE pc[v] \in Forwarding \ {"head"}
  <2>1. pc[v] # "idle" /\ op[v].name \in Names
    BY <1>0, <1>3, LabelsApart DEF CallOf, Call
  <2>2. /\ must'[v] = must[v] \cap Members' \cap Online' /\ may'[v] = may[v] \cup Members'
        /\ came'[v] = came[v] \cup (Members' \ Members)
        /\ left'[v] = left[v] \cup (Members \ Members')
    BY <2>1, Goes
  <2>3. PICK A \in SUBSET DOMAIN mem : c \in DOMAIN mem /\ Path(A, c, mem) /\ Ahead(v, A)
    BY <1>0, <1>3 DEF Reader
  <2>4. PICK B \in SUBSET DOMAIN mem' :
          /\ Path(B, c, mem')
          /\ \A y \in B \ A : y \notin DOMAIN mem /\ Unfilled(y)'
          /\ \A y \in A \ B : y \notin List'
    BY <2>3 DEF Gentle
  <2>5. /\ \A y \in DOMAIN mem : Filled(y) => Filled(y)' /\ mem'[y].ptr_to_user = mem[y].ptr_to_user
        /\ \A y \in DOMAIN mem : ~Filled(y) /\ Filled(y)' =>
             mem'[y].ptr_to_user \in Members' \ Members
        /\ \A y \in List \ List' : mem[y].ptr_to_user \in Members \ Members'
        /\ \A y : ~ (Unfilled(y)' /\ Filled(y)')
    BY DEF Gentle, Filled, Unfilled
  <2>6. \A y \in B : Filled(y)' => y \in A
    BY <2>4, <2>5
  <2>7. \A y \in List : Filled(y) /\ y \notin List' => mem[y].ptr_to_user \in left'[v]
    BY <2>2, <2>5
  <2>8. \A y \in DOMAIN mem : ~Filled(y) => y \in List
    BY <1>0 DEF Shape, Filled, Unfilled
  <2>9. \A y \in DOMAIN mem : ~Filled(y) => y \in List'
    <3>1. \A y \in List \ List' : mem[y].ptr_to_user \in Names
      <4>1. Present \subseteq Names
        BY DEF Present, Filled
      <4> QED BY <4>1 DEF Gentle
    <3> QED BY <2>8, <3>1 DEF Filled
  <2>10. Todo(v, B)' = Todo(v, B) /\ \A y : y \in Todo(v, B) => y \in B
    <3>1. CASE pc[v] \in {"reset", "onward"}
      BY <3>1 DEF Todo
    <3>2. CASE pc[v] \notin {"reset", "onward"}
      BY <3>2 DEF Todo
    <3> QED BY <3>1, <3>2
  <2>11. \A y : y \in B => (y \in Todo(v, B) <=> (y \in Todo(v, A) \/ y \notin A))
    <3>1. c # Null
      BY <2>3, NextType DEF PromiseInv, LeftInv, TypeInv, TypeOK, Null
    <3>2. c \in A
      BY <2>3, <3>1 DEF Path
    <3>3. CASE pc[v] \in {"reset", "onward"}
      BY <3>2, <3>3 DEF Todo
    <3>4. CASE pc[v] \notin {"reset", "onward"}
      BY <3>4 DEF Todo
    <3> QED BY <3>3, <3>4
  <2>12. ASSUME NEW y \in B, Filled(y)'
         PROVE  /\ mem'[y].ptr_to_user \in may'[v]
                /\ y \notin List' => mem'[y].ptr_to_user \in left'[v]
    <3>1. y \in A
      BY <2>6, <2>12
    <3>2. CASE Filled(y)
      <4>1. mem'[y].ptr_to_user = mem[y].ptr_to_user
        BY <2>3, <2>5, <3>1, <3>2
      <4>2. mem[y].ptr_to_user \in may[v] /\ (y \notin List => mem[y].ptr_to_user \in left[v])
        BY <2>3, <3>1, <3>2 DEF Ahead
      <4> QED BY <2>2, <2>7, <3>2, <4>1, <4>2
    <3>3. CASE ~Filled(y)
      <4>1. mem'[y].ptr_to_user \in Members' /\ y \in List'
        BY <2>3, <2>5, <2>9, <2>12, <3>1, <3>3
      <4> QED BY <2>2, <4>1
    <3> QED BY <3>2, <3>3
  <2>13. ASSUME NEW y \in Todo(v, B)', Filled(y)', copies'[v][mem'[y].ptr_to_user] > 0
         PROVE  mem'[y].ptr_to_user \in left'[v]
    <3>1. y \in A /\ y \in B /\ y \in Todo(v, A)
      BY <2>6, <2>10, <2>11, <2>13
    <3>2. CASE Filled(y)
      <4>1. mem'[y].ptr_to_user = mem[y].ptr_to_user
        BY <2>3, <2>5, <3>1, <3>2
      <4>2. mem[y].ptr_to_user \in left[v]
        BY <2>3, <2>13, <3>1, <3>2, <4>1 DEF Ahead
      <4> QED BY <2>2, <4>1, <4>2
    <3>3. CASE ~Filled(y)
      <4>1. mem'[y].ptr_to_user \in Members' \ Members
        BY <2>3, <2>5, <2>13, <3>1, <3>3
      <4>2. mem'[y].ptr_to_user \in Names
        BY <2>13 DEF Filled
      <4>3. mem'[y].ptr_to_user \in may[v] /\ may[v] \subseteq Members \cup left[v]
        BY <1>0, <2>1, <2>13, <4>2 DEF History
      <4> QED BY <2>2, <4>1, <4>3
    <3> QED BY <3>2, <3>3
  <2>14. ASSUME NEW n \in must'[v]
         PROVE  \/ copies'[v][n] > 0 \/ n = op'[v].name
                \/ \E y \in List' \cap Todo(v, B)' : mem'[y].ptr_to_user = n
    <3>1. n \in must[v] /\ n \in Members'
      BY <2>2
    <3>2. CASE copies[v][n] > 0 \/ n = op[v].name
      BY <3>2
    <3>3. CASE \E y \in List \cap Todo(v, A) : mem[y].ptr_to_user = n
      <4>1. PICK y \in List \cap Todo(v, A) : mem[y].ptr_to_user = n
        BY <3>3
      <4>2. y \in List'
        BY <2>5, <3>1, <4>1
      <4>3. y \in A
        BY <4>1 DEF Todo
      <4>4. y \in B
        BY <2>4, <4>2, <4>3
      <4>5. Filled(y)
        <5>1. Present' \subseteq Names
          BY DEF Present, Filled
        <5> QED BY <1>0, <3>1, <4>1, <5>1 DEF Filled
      <4>6. mem'[y].ptr_to_user = n /\ y \in Todo(v, B)'
        BY <1>0, <2>5, <2>10, <2>11, <4>1, <4>4, <4>5
      <4> QED BY <4>2, <4>6
    <3> QED BY <2>3, <3>1, <3>2, <3>3 DEF Ahead
  <2>15. Ahead(v, B)'
    BY <2>12, <2>13, <2>14 DEF Ahead
  <2>16. c \in DOMAIN mem'
    <3>1. c # Null
      BY <2>3, NextType DEF PromiseInv, LeftInv, TypeInv, TypeOK, Null
    <3> QED BY <2>4, <3>1 DEF Path
  <2>17. Filled(c) => Filled(c)' /\ mem'[c].ptr_to_user = mem[c].ptr_to_user
    BY <2>3, <2>5
  <2>18. pc[v] \in {"status", "socket", "write"} /\ mem'[c].ptr_to_user = op[v].name
           => op[v].name \in came'[v] \cup left'[v]
    <3>1. CASE Filled(c)
      BY <1>0, <2>2, <2>17, <3>1 DEF Reader
    <3>2. CASE ~Filled(c)
      <4>1. mem'[c].ptr_to_user = op[v].name => Filled(c)'
        BY <2>1, <2>16 DEF Filled
      <4> QED BY <2>2, <2>3, <2>5, <3>2, <4>1
    <3> QED BY <3>1, <3>2
  <2>19. pc[v] = "onward" => mem'[c].next_member # Wild
    BY <1>0, <2>3 DEF Reader, Gentle
  <2>20. pc[v] \in {"socket", "write", "reset"} => Filled(c)'
    BY <1>0, <2>17 DEF Reader
  <2>21. pc[v] = "reset" => copies[v][mem'[c].ptr_to_user] > 0
    BY <1>0, <2>17 DEF Reader
  <2>22. \E D \in SUBSET DOMAIN mem' : Path(D, c, mem') /\ Ahead(v, D)'
    BY <2>4, <2>15
  <2> QED BY <1>3, <2>16, <2>18, <2>19, <2>20, <2>21, <2>22 DEF Reader
<1> QED BY <1>1, <1>2, <1>3

\* A step of a forward leaves the list, and what it knows of its members, as it is.
LEMMA Forwards ==
  ASSUME PromiseInv, Witness, Members = Present, Members' = Present', NEW t \in Threads,
         ForwardStep(t), UNCHANGED <<mem, member>>, pc'[t] # "idle"
  PROVE  /\ List' = List /\ \A y : Filled(y)' = Filled(y)
         /\ must'[t] \subseteq must[t] \cap Members \cap Online'
         /\ may'[t] = may[t] /\ left'[t] = left[t] /\ came'[t] = came[t]
         /\ Members \subseteq may[t] /\ op[t].name \in Names /\ pc[t] # "idle"
         /\ Reader(t) /\ Shape /\ List \subseteq DOMAIN mem
         /\ conductor[t] # Null \/ pc[t] = "head"
<1>1. TypeInv /\ Reader(t) /\ Shape /\ History(t) /\ CallOf(t)
  BY DEF PromiseInv, LeftInv, RoomInv, TypeInv
<1>2. List' = List /\ (\A y : Filled(y)' = Filled(y)) /\ Members' = Members
  BY Quiet
<1>3. pc[t] \in Forwarding
  BY <1>1, Course
<1>4. pc[t] # "idle" /\ op[t].name \in Names
  BY <1>1, <1>3, LabelsApart DEF CallOf, Call
<1>5. /\ must'[t] = must[t] \cap Members' \cap Online' /\ may'[t] = may[t] \cup Members'
      /\ came'[t] = came[t] \cup (Members' \ Members)
      /\ left'[t] = left[t] \cup (Members \ Members')
  BY <1>4, Goes
<1>6. Members \subseteq may[t]
  BY <1>1, <1>4 DEF History
<1>7. List \subseteq DOMAIN mem
  BY FirstInList
<1>8. conductor[t] # Null \/ pc[t] = "head"
  <2>1. pc[t] # "head" => conductor[t] \in DOMAIN mem
    BY <1>1, <1>3 DEF Reader
  <2> QED BY <1>1, <2>1, NextType DEF TypeInv, TypeOK, Null
<1> QED BY <1>1, <1>2, <1>4, <1>5, <1>6, <1>7, <1>8

\* The way ahead after a step that writes nothing: what is no longer to be asked is the
\* sender, or not in the list, or not logged in.
LEMMA AheadKept ==
  ASSUME PromiseInv, Witness, Members = Present, Members' = Present', NEW t \in Threads,
         ForwardStep(t), UNCHANGED <<mem, member>>, pc'[t] # "idle",
         op'[t] = op[t], copies'[t] = copies[t],
         NEW A \in SUBSET DOMAIN mem, NEW B \in SUBSET A, Ahead(t, A),
         NEW T, T = Todo(t, B)', T \subseteq Todo(t, A),
         \A y \in (List \cap Todo(t, A)) \ T :
            mem[y].ptr_to_user \in must'[t] => mem[y].ptr_to_user = op[t].name
  PROVE  Ahead(t, B)'
<1>1. /\ List' = List /\ \A y : Filled(y)' = Filled(y)
      /\ must'[t] \subseteq must[t] /\ may'[t] = may[t] /\ left'[t] = left[t]
  BY Forwards
<1>2. /\ \A y \in B : Filled(y)' => /\ mem'[y].ptr_to_user \in may'[t]
                                    /\ y \notin List' => mem'[y].ptr_to_user \in left'[t]
  BY <1>1 DEF Ahead
<1>3. \A y \in Todo(t, B)' :
        Filled(y)' /\ copies'[t][mem'[y].ptr_to_user] > 0 => mem'[y].ptr_to_user \in left'[t]
  BY <1>1 DEF Ahead
<1>4. \A n \in must'[t] :
        \/ copies'[t][n] > 0 \/ n = op'[t].name
        \/ \E y \in List' \cap Todo(t, B)' : mem'[y].ptr_to_user = n
  <2>1. SUFFICES ASSUME NEW n \in must'[t], ~ (copies[t][n] > 0), n # op[t].name
                 PROVE  \E y \in List \cap T : mem[y].ptr_to_user = n
    BY <1>1
  <2>2. PICK y \in List \cap Todo(t, A) : mem[y].ptr_to_user = n
    BY <1>1, <2>1 DEF Ahead
  <2> QED BY <2>1, <2>2
<1> QED BY <1>2, <1>3, <1>4 DEF Ahead

\* The steps of a forward, one by one.
LEMMA ReaderHead ==
  ASSUME PromiseInv, TypeInv', Witness, Members = Present, Members' = Present',
         NEW t \in Threads, head(t)
  PROVE  Reader(t)'
<1>1. TypeInv /\ pc[t] = "head" /\ UNCHANGED <<mem, member>> /\ ForwardStep(t)
  BY DEF head, Before, PromiseInv, LeftInv, roomVars, ForwardStep
<1>2. CASE member = Null
  BY <1>1, <1>2, Moves DEF head, Loop, Reader, Forwarding
<1>3. CASE member # Null
  <2>1. pc'[t] = "sender" /\ conductor'[t] = member /\ op'[t] = op[t] /\ copies' = copies
    BY <1>1, <1>3, Moves DEF head, Loop
  <2>2. /\ List' = List /\ \A y : Filled(y)' = Filled(y)
        /\ must'[t] \subseteq must[t] \cap Members \cap Online'
        /\ may'[t] = may[t] /\ left'[t] = left[t]
        /\ Members \subseteq may[t] /\ Reader(t) /\ Shape /\ List \subseteq DOMAIN mem
    BY <1>1, <2>1, Forwards
  <2>3. Path(List, member, mem) /\ member \in DOMAIN mem
    BY <1>3, <2>2, FirstInList DEF Shape
  <2>4. Path(List, conductor'[t], mem') /\ conductor'[t] \in DOMAIN mem'
    BY <1>1, <2>1, <2>3
  <2>5. Todo(t, List)' = List
    BY <2>1, <2>2 DEF Todo
  <2>6. \A n \in Names : copies'[t][n] = 0
    BY <1>1, <2>1, <2>2 DEF Reader
  <2>7. \A y \in List : Filled(y) => mem[y].ptr_to_user \in may[t] /\ mem[y].ptr_to_user \in Names
    BY <2>2 DEF Present, Filled
  <2>8. \A n \in must'[t] : \E y \in List : mem[y].ptr_to_user = n
    BY <2>2 DEF Present
  <2>9. Ahead(t, List)'
    <3>1. \A y \in List : Filled(y)' => /\ mem'[y].ptr_to_user \in may'[t]
                                        /\ y \notin List' => mem'[y].ptr_to_user \in left'[t]
      BY <1>1, <2>2, <2>7
    <3>2. \A y \in List :
            Filled(y)' /\ copies'[t][mem'[y].ptr_to_user] > 0 => mem'[y].ptr_to_user \in left'[t]
      BY <1>1, <2>2, <2>6, <2>7
    <3>3. \A n \in must'[t] :
            \/ copies'[t][n] > 0 \/ n = op'[t].name
            \/ \E y \in List' \cap Todo(t, List)' : mem'[y].ptr_to_user = n
      BY <1>1, <2>2, <2>5, <2>8
    <3> QED BY <2>2, <2>5, <3>1, <3>2, <3>3 DEF Ahead
  <2>10. \E A \in SUBSET DOMAIN mem' : Path(A, conductor'[t], mem') /\ Ahead(t, A)'
    BY <1>1, <2>2, <2>4, <2>9
  <2> QED BY <2>1, <2>4, <2>10 DEF Reader
<1> QED BY <1>2, <1>3

\* What a forward knows of the participant it is at.
LEMMA AtWay ==
  ASSUME PromiseInv, NEW t \in Threads, pc[t] \in Forwarding \ {"head"}
  PROVE  /\ conductor[t] \in DOMAIN mem
         /\ \E A \in SUBSET DOMAIN mem :
              Path(A, conductor[t], mem) /\ conductor[t] \in A /\ Ahead(t, A)
<1>1. Reader(t) /\ conductor[t] \in DOMAIN mem
  BY DEF PromiseInv, RoomInv, Reader
<1>2. PICK A \in SUBSET DOMAIN mem : Path(A, conductor[t], mem) /\ Ahead(t, A)
  BY <1>1 DEF Reader
<1>3. conductor[t] # Null
  BY <1>1, NextType DEF PromiseInv, LeftInv, TypeInv, TypeOK, Null
<1> QED BY <1>1, <1>2, <1>3 DEF Path

LEMMA ReaderSender ==
  ASSUME PromiseInv, TypeInv', Witness, Members = Present, Members' = Present',
         NEW t \in Threads, sender(t)
  PROVE  Reader(t)'
<1> DEFINE c == conductor[t]
<1>1. /\ TypeInv /\ pc[t] = "sender" /\ UNCHANGED <<mem, member, conductor>> /\ ForwardStep(t)
      /\ copies' = copies /\ op' = op
      /\ \/ pc'[t] = "onward" /\ mem[c].name = op[t].name
         \/ pc'[t] = "status" /\ mem[c].name # op[t].name
  BY Moves DEF sender, AtSender, At, PromiseInv, LeftInv, roomVars, localVars, here, ForwardStep
<1>2. pc[t] \in Forwarding \ {"head"} /\ pc'[t] # "idle"
  BY <1>1 DEF Forwarding
<1>3. PICK A \in SUBSET DOMAIN mem : Path(A, c, mem) /\ c \in A /\ Ahead(t, A)
  BY <1>2, AtWay
<1>4. /\ List' = List /\ (\A y : Filled(y)' = Filled(y))
      /\ must'[t] \subseteq must[t] \cap Members \cap Online'
      /\ left'[t] = left[t] /\ came'[t] = came[t]
      /\ op[t].name \in Names /\ Shape /\ List \subseteq DOMAIN mem
  BY <1>1, <1>2, Forwards
<1>5. Members \subseteq Names
  BY MembersType, <1>1 DEF TypeInv, TypeOK
<1>6. Todo(t, A) = A /\ Todo(t, A)' = IF pc'[t] = "onward" THEN A \ {c} ELSE A
  BY <1>1 DEF Todo
<1>7. \A y \in (List \cap Todo(t, A)) \ Todo(t, A)' :
        mem[y].ptr_to_user \in must'[t] => mem[y].ptr_to_user = op[t].name
  <2>1. SUFFICES ASSUME c \in List, mem[c].ptr_to_user \in must'[t], pc'[t] = "onward"
                 PROVE  mem[c].ptr_to_user = op[t].name
    BY <1>6
  <2>2. Filled(c)
    BY <1>4, <1>5, <2>1 DEF Filled
  <2> QED BY <1>1, <1>4, <2>1, <2>2 DEF Shape
<1>8. Ahead(t, A)'
  BY <1>1, <1>2, <1>3, <1>6, <1>7, AheadKept
<1>9. \E D \in SUBSET DOMAIN mem' : Path(D, conductor'[t], mem') /\ Ahead(t, D)'
  BY <1>1, <1>3, <1>8
<1>10. pc'[t] = "status" /\ mem'[c].ptr_to_user = op[t].name => op[t].name \in left'[t]
  <2>1. SUFFICES ASSUME pc'[t] = "status", mem[c].ptr_to_user = op[t].name
                 PROVE  op[t].name \in left[t]
    BY <1>1, <1>4
  <2>2. Filled(c)
    BY <1>3, <1>4, <2>1 DEF Filled
  <2>3. c \notin List
    BY <1>1, <1>4, <2>1, <2>2 DEF Shape
  <2> QED BY <1>3, <2>1, <2>2, <2>3 DEF Ahead
<1>11. pc'[t] = "onward" => mem'[c].next_member # Wild
  <2>1. op[t].name # None
    BY <1>4, NoneAssumption
  <2> QED BY <1>1, <1>3, <1>4, <2>1 DEF Shape
<1> QED BY <1>1, <1>3, <1>9, <1>10, <1>11 DEF Reader

LEMMA ReaderStatus ==
  ASSUME PromiseInv, TypeInv', Witness, Members = Present, Members' = Present',
         NEW t \in Threads, status(t)
  PROVE  Reader(t)'
<1> DEFINE c == conductor[t]
<1>1. /\ TypeInv /\ pc[t] = "status" /\ UNCHANGED <<mem, member, users, conductor>>
      /\ ForwardStep(t)
      /\ copies' = copies /\ op' = op /\ mem[c].ptr_to_user \in Names
      /\ \/ pc'[t] = "socket"
         \/ pc'[t] = "onward" /\ users[mem[c].ptr_to_user].login = 0
  BY Moves DEF status, At, PromiseInv, LeftInv, roomVars, localVars, here, user, ForwardStep
<1>2. pc[t] \in Forwarding \ {"head"} /\ pc'[t] # "idle"
  BY <1>1 DEF Forwarding
<1>3. PICK A \in SUBSET DOMAIN mem : Path(A, c, mem) /\ c \in A /\ Ahead(t, A)
  BY <1>2, AtWay
<1>4. /\ List' = List /\ (\A y : Filled(y)' = Filled(y))
      /\ must'[t] \subseteq must[t] \cap Members \cap Online'
      /\ left'[t] = left[t] /\ came'[t] = came[t]
      /\ op[t].name \in Names /\ Shape /\ List \subseteq DOMAIN mem /\ Reader(t)
  BY <1>1, <1>2, Forwards
<1>5. Filled(c)
  BY <1>1, <1>3 DEF Filled
<1>6. Todo(t, A) = A /\ Todo(t, A)' = IF pc'[t] = "onward" THEN A \ {c} ELSE A
  BY <1>1 DEF Todo
<1>7. \A y \in (List \cap Todo(t, A)) \ Todo(t, A)' :
        mem[y].ptr_to_user \in must'[t] => mem[y].ptr_to_user = op[t].name
  BY <1>1, <1>4, <1>6 DEF Online
<1>8. Ahead(t, A)'
  BY <1>1, <1>2, <1>3, <1>6, <1>7, AheadKept
<1>9. \E D \in SUBSET DOMAIN mem' : Path(D, conductor'[t], mem') /\ Ahead(t, D)'
  BY <1>1, <1>3, <1>8
<1>10. mem[c].next_member # Wild
  BY <1>3, <1>4, <1>5 DEF Shape, Filled, Unfilled
<1>11. mem[c].ptr_to_user = op[t].name => op[t].name \in came'[t] \cup left'[t]
  BY <1>1, <1>4 DEF Reader
<1> QED BY <1>1, <1>3, <1>4, <1>5, <1>9, <1>10, <1>11 DEF Reader

LEMMA ReaderSocket ==
  ASSUME PromiseInv, TypeInv', Witness, Members = Present, Members' = Present',
         NEW t \in Threads, socket(t)
  PROVE  Reader(t)'
<1> DEFINE c == conductor[t]
<1>1. /\ TypeInv /\ pc[t] = "socket" /\ UNCHANGED <<mem, member, conductor>> /\ ForwardStep(t)
      /\ copies' = copies /\ op' = op /\ pc'[t] = "write"
  BY Moves DEF socket, At, PromiseInv, LeftInv, roomVars, ForwardStep
<1>2. pc[t] \in Forwarding \ {"head"} /\ pc'[t] # "idle"
  BY <1>1 DEF Forwarding
<1>3. PICK A \in SUBSET DOMAIN mem : Path(A, c, mem) /\ c \in A /\ Ahead(t, A)
  BY <1>2, AtWay
<1>4. (\A y : Filled(y)' = Filled(y)) /\ left'[t] = left[t] /\ came'[t] = came[t] /\ Reader(t)
  BY <1>1, <1>2, Forwards
<1>5. Todo(t, A) = A /\ Todo(t, A)' = A
  BY <1>1 DEF Todo
<1>6. Ahead(t, A)'
  BY <1>1, <1>2, <1>3, <1>5, AheadKept
<1>7. \E D \in SUBSET DOMAIN mem' : Path(D, conductor'[t], mem') /\ Ahead(t, D)'
  BY <1>1, <1>3, <1>6
<1> QED BY <1>1, <1>3, <1>4, <1>7 DEF Reader

LEMMA ReaderReset ==
  ASSUME PromiseInv, TypeInv', Witness, Members = Present, Members' = Present',
         NEW t \in Threads, reset(t)
  PROVE  Reader(t)'
<1> DEFINE c == conductor[t]
<1>1. /\ TypeInv /\ pc[t] = "reset" /\ UNCHANGED <<mem, member, conductor>> /\ ForwardStep(t)
      /\ copies' = copies /\ op' = op /\ pc'[t] = "onward"
  BY Moves DEF reset, At, PromiseInv, LeftInv, localVars, ForwardStep
<1>2. pc[t] \in Forwarding \ {"head"} /\ pc'[t] # "idle"
  BY <1>1 DEF Forwarding
<1>3. PICK A \in SUBSET DOMAIN mem : Path(A, c, mem) /\ c \in A /\ Ahead(t, A)
  BY <1>2, AtWay
<1>4. Reader(t) /\ Shape
  BY <1>1, <1>2, Forwards
<1>5. Todo(t, A) = A \ {c} /\ Todo(t, A)' = A \ {c}
  BY <1>1 DEF Todo
<1>6. Ahead(t, A)'
  BY <1>1, <1>2, <1>3, <1>5, AheadKept
<1>7. \E D \in SUBSET DOMAIN mem' : Path(D, conductor'[t], mem') /\ Ahead(t, D)'
  BY <1>1, <1>3, <1>6
<1>8. mem[c].next_member # Wild
  BY <1>1, <1>4 DEF Shape, Reader, Filled, Unfilled
<1> QED BY <1>1, <1>3, <1>7, <1>8 DEF Reader

LEMMA ReaderOnward ==
  ASSUME PromiseInv, TypeInv', Witness, Members = Present, Members' = Present',
         NEW t \in Threads, onward(t)
  PROVE  Reader(t)'
<1> DEFINE c == conductor[t]
           x == mem[c].next_member
<1>1. TypeInv /\ pc[t] = "onward" /\ UNCHANGED <<mem, member>> /\ ForwardStep(t)
  BY DEF onward, At, PromiseInv, LeftInv, roomVars, ForwardStep
<1>2. CASE x = Null
  BY <1>1, <1>2, Moves DEF onward, Loop, Reader, Forwarding, here
<1>3. CASE x # Null
  <2>1. pc'[t] = "sender" /\ conductor'[t] = x /\ op'[t] = op[t] /\ copies' = copies
    BY <1>1, <1>3, Moves DEF onward, Loop, here
  <2>2. pc[t] \in Forwarding \ {"head"} /\ pc'[t] # "idle"
    BY <1>1, <2>1 DEF Forwarding
  <2>3. PICK A \in SUBSET DOMAIN mem : Path(A, c, mem) /\ c \in A /\ Ahead(t, A)
    BY <2>2, AtWay
  <2>4. x # Wild
    BY <1>1, <2>1, <2>2, Forwards DEF Reader
  <2>0. PICK B \in SUBSET A : B = A \ {c}
    OBVIOUS
  <2>5. Path(B, x, mem) /\ x \in DOMAIN mem
    <3>1. mem \in Seq(Participant) /\ c \in DOMAIN mem
      BY <1>1, <2>3 DEF TypeInv, TypeOK
    <3>2. x \notin {Null, Wild} => Path(A \ {c}, x, mem) /\ x \in DOMAIN mem
      BY <2>3, <3>1, PathRest
    <3> QED BY <1>3, <2>0, <2>4, <3>2
  <2>6. Todo(t, A) = B /\ Todo(t, B)' = B
    BY <1>1, <2>0, <2>1 DEF Todo
  <2>7. Ahead(t, B)'
    BY <1>1, <2>1, <2>2, <2>3, <2>6, AheadKept
  <2>8. \E D \in SUBSET DOMAIN mem' : Path(D, conductor'[t], mem') /\ Ahead(t, D)'
    BY <1>1, <2>1, <2>5, <2>7
  <2> QED BY <1>1, <2>1, <2>5, <2>8 DEF Reader
<1> QED BY <1>2, <1>3

\* It writes to somebody who may have the message.
LEMMA ReaderWrite ==
  ASSUME PromiseInv, TypeInv', Witness, Members = Present, Members' = Present',
         NEW t \in Threads, write(t)
  PROVE  Reader(t)' /\ mem[conductor[t]].ptr_to_user \in may[t]
<1> DEFINE c == conductor[t]
           n == mem[c].ptr_to_user
<1>1. /\ TypeInv /\ pc[t] = "write" /\ UNCHANGED <<mem, member, conductor, op>> /\ ForwardStep(t)
      /\ copies' = [copies EXCEPT ![t][n] = @ + 1]
      /\ pc'[t] \in {"reset", "onward"}
  BY DEF write, Before, PromiseInv, LeftInv, TypeInv, TypeOK, roomVars, localVars, here, user,
         ForwardStep
<1>2. pc[t] \in Forwarding \ {"head"} /\ pc'[t] # "idle"
  BY <1>1 DEF Forwarding
<1>3. PICK A \in SUBSET DOMAIN mem : Path(A, c, mem) /\ c \in A /\ Ahead(t, A)
  BY <1>2, AtWay
<1>4. /\ List' = List /\ (\A y : Filled(y)' = Filled(y))
      /\ must'[t] \subseteq must[t] /\ may'[t] = may[t] /\ left'[t] = left[t]
      /\ Shape /\ List \subseteq DOMAIN mem /\ Reader(t)
  BY <1>1, <1>2, Forwards
<1>5. Filled(c) /\ n \in Names
  BY <1>1, <1>4 DEF Reader, Filled
<1>6. \A i \in Names : copies'[t][i] = IF i = n THEN copies[t][i] + 1 ELSE copies[t][i]
  BY <1>1, <1>5 DEF TypeInv, TypeOK
<1>7. \A i \in Names : copies[t][i] \in Nat
  BY <1>1 DEF TypeInv, TypeOK
<1>8. copies'[t][n] > 0
  BY <1>5, <1>6, <1>7
<1>9. Todo(t, A) = A /\ Todo(t, A)' = A \ {c}
  BY <1>1 DEF Todo
<1>10. \A y \in A : Filled(y)' => /\ mem'[y].ptr_to_user \in may'[t]
                                  /\ y \notin List' => mem'[y].ptr_to_user \in left'[t]
  BY <1>1, <1>3, <1>4 DEF Ahead
<1>11. ASSUME NEW y \in A \ {c}, Filled(y), copies'[t][mem[y].ptr_to_user] > 0
       PROVE  mem[y].ptr_to_user \in left[t]
  <2>1. CASE mem[y].ptr_to_user = n
    <3>1. y \notin List \/ c \notin List
      BY <1>4, <1>5, <1>11, <2>1 DEF Shape
    <3> QED BY <1>3, <1>5, <1>11, <2>1, <3>1 DEF Ahead
  <2>2. CASE mem[y].ptr_to_user # n
    <3>1. copies[t][mem[y].ptr_to_user] > 0
      BY <1>6, <1>11, <2>2 DEF Filled
    <3> QED BY <1>3, <1>9, <1>11, <3>1 DEF Ahead
  <2> QED BY <2>1, <2>2
<1>12. ASSUME NEW i \in must'[t]
       PROVE  \/ copies'[t][i] > 0 \/ i = op'[t].name
              \/ \E y \in List' \cap Todo(t, A)' : mem'[y].ptr_to_user = i
  <2>1. i \in must[t] /\ i \in Names
    BY <1>1, <1>4, <1>12 DEF TypeInv, TypeOK
  <2>2. CASE copies[t][i] > 0 \/ i = op[t].name
    BY <1>1, <1>6, <1>7, <2>1, <2>2
  <2>3. CASE \E y \in List \cap Todo(t, A) : mem[y].ptr_to_user = i
    BY <1>1, <1>4, <1>8, <1>9, <2>3
  <2> QED BY <1>3, <2>1, <2>2, <2>3 DEF Ahead
<1>13. Ahead(t, A)'
  <2>1. \A y \in Todo(t, A)' :
          Filled(y)' /\ copies'[t][mem'[y].ptr_to_user] > 0 => mem'[y].ptr_to_user \in left'[t]
    BY <1>1, <1>4, <1>9, <1>11
  <2> QED BY <1>10, <1>12, <2>1 DEF Ahead
<1>14. \E D \in SUBSET DOMAIN mem' : Path(D, conductor'[t], mem') /\ Ahead(t, D)'
  BY <1>1, <1>3, <1>13
<1>15. mem[c].next_member # Wild
  BY <1>3, <1>4, <1>5 DEF Shape, Filled, Unfilled
<1>16. n \in may[t]
  BY <1>3, <1>5 DEF Ahead
<1> QED BY <1>1, <1>3, <1>4, <1>5, <1>8, <1>14, <1>15, <1>16 DEF Reader

-------------------------------------------------------------------------------
(* Every step                                                              *)

\* What belongs to the other threads stays as it is.
LEMMA Others ==
  ASSUME TypeInv, NEW t \in Threads, Acts(t), NEW v \in Threads \ {t}
  PROVE  /\ pc'[v] = pc[v] /\ op'[v] = op[v] /\ copies'[v] = copies[v] /\ held'[v] = held[v]
         /\ conductor'[v] = conductor[v] /\ previous'[v] = previous[v]
<1>0. /\ pc \in [Threads -> {"idle"} \cup Joining \cup Filling \cup Exiting \cup Forwarding
                        \cup LoggingIn]
      /\ op \in [Threads -> Call \cup {None}]
      /\ copies \in [Threads -> [Names -> Nat]]
      /\ conductor \in [Threads -> Nat \cup {Wild}]
      /\ previous \in [Threads -> Nat \cup {Wild}]
      /\ held \in [Threads -> Nat \cup {Wild} \cup Threads]
  BY DEF TypeInv, TypeOK
<1>1. CASE look(t) \/ next(t) \/ again(t) \/ advance(t) \/ reload(t) \/ read_first(t)
           \/ head(t) \/ onward(t)
  <2>1. UNCHANGED <<previous, held>>
    BY <1>1 DEF look, next, again, advance, reload, read_first, head, onward
  <2>2. /\ \E x : Follow(t, x)
        /\ (\E l : Goto(t, l)) \/ (\E a : Return(t, a))
    BY <1>1 DEF look, next, again, advance, reload, read_first, head, onward, Loop
  <2> QED BY <2>1, <2>2, Moves
<1>2. CASE compare(t) \/ tail(t) \/ append(t) \/ clear(t) \/ store_name(t) \/ store_user(t)
           \/ find(t) \/ store(t) \/ free(t) \/ sender(t) \/ status(t) \/ reset(t) \/ log_on(t)
  <2>1. UNCHANGED localVars
    BY <1>2 DEF compare, tail, append, clear, store_name, store_user, find, store, free, sender,
                status, reset, log_on
  <2>2. (\E l : Goto(t, l)) \/ (\E a : Return(t, a))
    BY <1>2 DEF compare, tail, append, clear, store_name, store_user, find, store, free, sender,
                AtSender, status, reset, log_on
  <2> QED BY <2>1, <2>2, Moves DEF localVars
<1>3. CASE load(t) \/ socket(t) \/ read_previous(t)
  <2>1. \E l : Goto(t, l)
    BY <1>3 DEF load, socket, read_previous
  <2>2. previous'[v] = previous[v] /\ held'[v] = held[v] /\ conductor' = conductor
    BY <1>0, <1>3 DEF load, socket, read_previous
  <2> QED BY <2>1, <2>2, Moves
<1>4. CASE pass(t)
  <2>1. /\ \E x : Follow(t, x)
        /\ (\E l : Goto(t, l)) \/ (\E a : Return(t, a))
    BY <1>4 DEF pass, Loop
  <2>2. previous'[v] = previous[v] /\ held' = held
    BY <1>0, <1>4 DEF pass
  <2> QED BY <2>1, <2>2, Moves
<1>5. CASE first_node(t)
  <2>1. previous' = previous /\ held' = held
    BY <1>5 DEF first_node
  <2>2. \/ Follow(t, member') /\ Goto(t, "clear")
        \/ Return(t, OUT_OF_MEMORY) /\ conductor' = conductor
    BY <1>5 DEF first_node
  <2> QED BY <2>1, <2>2, Moves
<1>6. CASE write(t)
  BY <1>0, <1>6 DEF write, localVars
<1>7. CASE connect(t)
  BY <1>0, <1>7 DEF connect, localVars
<1>8. CASE \E o \in Requests[t] : request(t, o)
  BY <1>0, <1>8 DEF request, localVars
<1>9. CASE leave(t) \/ dies(t)
  BY <1>9 DEF leave, dies, localVars
<1> QED BY <1>1, <1>2, <1>3, <1>4, <1>5, <1>6, <1>7, <1>8, <1>9
        DEF Acts, JoinStep, ExitStep, ForwardStep, LoginStep

\* A step outside the two functions that change the list.
LEMMA Elsewhere ==
  ASSUME PromiseInv, NEW t \in Threads,
         ForwardStep(t) \/ LoginStep(t) \/ dies(t) \/ leave(t)
           \/ \E o \in Requests[t] : request(t, o)
  PROVE  UNCHANGED <<mem, member>> /\ Shape' /\ Writer(t)' /\ Gentle /\ Present' = Present
<1>1. UNCHANGED <<mem, member>>
  BY DEF ForwardStep, LoginStep, head, sender, status, socket, write, reset, onward, log_on,
         connect, dies, leave, request, roomVars
<1>2. Gentle /\ Present' = Present /\ List' = List
  BY <1>1, Quiet
<1>3. TypeInv /\ Acts(t) /\ Writer(t)
  BY DEF PromiseInv, LeftInv, RoomInv, Acts
<1>4. CASE dies(t) \/ leave(t)
  <2>1. UNCHANGED <<pc, op, conductor, previous, held>>
    BY <1>4 DEF dies, leave, localVars
  <2>2. Writer(t)'
    BY <1>1, <1>2, <1>3, <2>1 DEF Writer, NotIn
  <2>3. \A y \in DOMAIN mem : Unfilled(y) /\ Builds(t, y) => Builds(t, y)'
    BY <1>1, <2>1 DEF Builds, here
  <2> QED BY <1>1, <1>2, <1>3, <2>2, <2>3, ShapeQuiet, Others
<1>5. CASE ForwardStep(t) \/ LoginStep(t) \/ \E o \in Requests[t] : request(t, o)
  <2>1. pc[t] \in Forwarding \cup LoggingIn \cup {"idle"}
    <3>1. LoginStep(t) => pc[t] \in LoggingIn
      BY DEF LoginStep, log_on, connect, Before, LoggingIn
    <3>2. (\E o \in Requests[t] : request(t, o)) => pc[t] = "idle"
      BY DEF request
    <3> QED BY <1>3, <1>5, <3>1, <3>2, Course
  <2>2. pc'[t] \in Forwarding \cup LoggingIn \cup {"idle", "look", "previous"}
    <3>1. LoginStep(t) => pc'[t] \in LoggingIn \cup {"idle"}
      BY <1>3, Moves DEF LoginStep, log_on, connect, LoggingIn, TypeInv, TypeOK
    <3>2. ASSUME NEW o \in Requests[t], request(t, o)
          PROVE  pc'[t] \in {"look", "previous", "head", "online"}
      <4>1. pc'[t] = Start(o.kind) /\ o.kind \in {"join", "exit", "forward", "login"}
        <5>1. o \in Call
          BY BoundsAssumption DEF Call
        <5> QED BY <1>3, <3>2, <5>1 DEF request, TypeInv, TypeOK, Call
      <4> QED BY <4>1 DEF Start
    <3>3. ForwardStep(t) => pc'[t] \in Forwarding \cup {"idle"}
      BY <1>3, Course
    <3> QED BY <1>5, <3>1, <3>2, <3>3 DEF Forwarding, LoggingIn
  <2>3. Writer(t)'
    BY <2>2 DEF Writer, Filling, Forwarding, LoggingIn
  <2>4. \A y \in DOMAIN mem : ~ Builds(t, y)
    BY <2>1 DEF Builds, Filling, Forwarding, LoggingIn
  <2> QED BY <1>1, <1>2, <1>3, <2>3, <2>4, ShapeQuiet, Others
<1> QED BY <1>4, <1>5

\* What a step does to the list: the store of the last field brings a user, that into the
\* participant before takes one away, and no other changes who is in it.
LEMMA ListStep ==
  ASSUME PromiseInv, TypeInv', NEW t \in Threads, Acts(t)
  PROVE  /\ Shape' /\ Gentle /\ \A v \in Threads : Writer(v)'
         /\ store_user(t) => op[t].name \notin Present /\ Present' = Present \cup {op[t].name}
         /\ store(t) => Present' = Present \ {op[t].name}
         /\ store_user(t) \/ store(t) \/ Present' = Present
         /\ store_user(t) \/ store(t) \/ JoinStep(t) \/ ExitStep(t) \/ UNCHANGED <<mem, member>>
<1>0. TypeInv /\ \A v \in Threads : Writer(v)
  BY DEF PromiseInv, LeftInv, RoomInv
<1>1. CASE ~ (JoinStep(t) \/ ExitStep(t))
  <2>1. UNCHANGED <<mem, member>> /\ Shape' /\ Writer(t)' /\ Gentle /\ Present' = Present
    BY <1>1, Elsewhere DEF Acts
  <2>2. List' = List
    BY <2>1, Quiet
  <2>3. ASSUME NEW v \in Threads \ {t} PROVE Writer(v)'
    <3>1. /\ pc'[v] = pc[v] /\ op'[v] = op[v] /\ held'[v] = held[v]
          /\ conductor'[v] = conductor[v] /\ previous'[v] = previous[v]
      BY <1>0, Others
    <3>2. Writer(v)
      BY <1>0
    <3> QED BY <2>1, <2>2, <3>1, <3>2 DEF Writer, NotIn
  <2> QED BY <1>1, <2>1, <2>3 DEF JoinStep, ExitStep
<1>2. CASE JoinStep(t) \/ ExitStep(t)
  <2>1. pc[t] \in Joining \cup Filling \cup Exiting
    BY <1>0, <1>2, Course
  <2>2. ASSUME NEW v \in Threads \ {t} PROVE Writer(v)'
    <3>1. pc'[v] = pc[v] /\ pc[v] \notin Joining \cup Filling \cup Exiting
      BY <1>0, <2>1, Alone, Others
    <3> QED BY <3>1 DEF Writer, Joining, Filling, Exiting
  <2>3. CASE Reads(t)
    <3>1. /\ UNCHANGED <<mem, member>> /\ Writer(t)'
          /\ \A y \in DOMAIN mem : Unfilled(y) /\ Builds(t, y) => Builds(t, y)'
      BY <2>3, WriterReads
    <3>2. Shape'
      BY <1>0, <3>1, ShapeQuiet, Others
    <3>3. Gentle /\ Present' = Present
      BY <3>1, Quiet
    <3>4. pc[t] \notin {"user", "store"}
      BY <2>3 DEF Reads, look, compare, next, again, tail, advance, reload, read_previous,
                  read_first, find, pass, load, At, Before
    <3>5. ~store_user(t) /\ ~store(t)
      BY <3>4 DEF store_user, store, At, Before
    <3> QED BY <2>2, <3>1, <3>2, <3>3, <3>5
  <2>4. CASE first_node(t) \/ append(t) \/ clear(t) \/ store_name(t) \/ free(t)
    <3>1. Shape' /\ Writer(t)' /\ Gentle /\ Present' = Present
      BY <2>4, FirstNodeStep, AppendStep, ClearStep, NameStep, FreeStep
    <3>2. pc[t] \notin {"user", "store"}
      BY <2>4 DEF first_node, append, clear, store_name, free, At, Before
    <3>3. ~store_user(t) /\ ~store(t)
      BY <3>2 DEF store_user, store, At, Before
    <3> QED BY <1>2, <2>2, <3>1, <3>3
  <2>5. CASE store_user(t)
    <3>1. ~store(t)
      BY <2>5 DEF store_user, store, At, Before
    <3> QED BY <2>2, <2>5, <3>1, UserStep
  <2>6. CASE store(t)
    <3>1. ~store_user(t)
      BY <2>6 DEF store_user, store, At, Before
    <3> QED BY <2>2, <2>6, <3>1, StoreStep
  <2> QED BY <1>2, <2>3, <2>4, <2>5, <2>6 DEF JoinStep, ExitStep, Reads
<1> QED BY <1>1, <1>2

\* What a step does to a message's copies.
LEMMA CopiesStep ==
  ASSUME PromiseInv, NEW t \in Threads, Acts(t)
  PROVE  /\ write(t) =>
              copies' = [copies EXCEPT ![t][mem[conductor[t]].ptr_to_user] = @ + 1]
         /\ (\E o \in Requests[t] : request(t, o)) =>
              copies' = [copies EXCEPT ![t] = [n \in Names |-> 0]]
         /\ write(t) \/ (\E o \in Requests[t] : request(t, o)) \/ copies' = copies
<1>0. TypeInv
  BY DEF PromiseInv, LeftInv
<1>1. ASSUME \/ JoinStep(t) \/ ExitStep(t) \/ head(t) \/ sender(t) \/ status(t) \/ socket(t)
             \/ reset(t) \/ onward(t) \/ log_on(t)
      PROVE  copies' = copies
  <2>1. (\E l : Goto(t, l)) \/ (\E a : Return(t, a))
    BY <1>1 DEF JoinStep, ExitStep, look, compare, next, again, first_node, tail, advance,
       append, reload, clear, store_name, store_user, read_previous, read_first, find, pass,
       load, store, free, head, sender, AtSender, status, socket, reset, onward, log_on, Loop
  <2> QED BY <1>0, <2>1, Moves
<1>2. connect(t) \/ dies(t) \/ leave(t) => copies' = copies
  BY DEF connect, dies, leave
<1>3. write(t) => copies' = [copies EXCEPT ![t][mem[conductor[t]].ptr_to_user] = @ + 1]
  BY DEF write, user, here
<1>4. (\E o \in Requests[t] : request(t, o)) => copies' = [copies EXCEPT ![t] = [n \in Names |-> 0]]
  BY DEF request
<1> QED BY <1>1, <1>2, <1>3, <1>4 DEF Acts, ForwardStep, LoginStep

\* The members before and after a step.
LEMMA TheMembers ==
  ASSUME PromiseInv, NEW t \in Threads, Acts(t), TypeInv', OneWriter'
  PROVE  Members = Present /\ Members' = Present'
<1>1. Members = Present
  BY MembersAre DEF PromiseInv, LeftInv, RoomInv
<1>2. LeftInv'
  BY LeftInvStep DEF PromiseInv
<1>3. Members' = Present'
  BY <1>2, ListStep, NextMembersAre DEF LeftInv
<1> QED BY <1>1, <1>3

\* The invariant is inductive.
LEMMA PromiseStep ==
  ASSUME PromiseInv, NEW t \in Threads, Acts(t), Witness, TypeInv', OneWriter'
  PROVE  PromiseInv'
<1>0. TypeInv /\ \A v \in Threads : Reader(v) /\ History(v)
  BY DEF PromiseInv, LeftInv, RoomInv
<1>1. LeftInv'
  BY LeftInvStep DEF PromiseInv
<1>2. Shape' /\ Gentle /\ \A v \in Threads : Writer(v)'
  BY ListStep
<1>3. Members = Present /\ Members' = Present'
  BY TheMembers
<1>4. \A v \in Threads \ {t} :
        /\ pc'[v] = pc[v] /\ op'[v] = op[v] /\ copies'[v] = copies[v]
        /\ conductor'[v] = conductor[v]
  BY <1>0, Others
<1>5. ForwardStep(t) => UNCHANGED <<mem, member>>
  BY DEF ForwardStep, head, sender, status, socket, write, reset, onward, roomVars
<1>6. ASSUME NEW v \in Threads PROVE History(v)'
  <2>1. ASSUME pc'[v] # "idle", NEW n \in Names, copies'[v][n] > 0
        PROVE  n \in may[v]
    <3>1. CASE copies'[v] = copies[v] /\ pc[v] # "idle"
      BY <1>0, <2>1, <3>1 DEF History
    <3>2. CASE v = t /\ write(t)
      <4>1. mem[conductor[t]].ptr_to_user \in may[t]
        BY <1>3, <3>2, ReaderWrite
      <4>2. pc[t] # "idle"
        BY <3>2 DEF write, Before
      <4>3. n # mem[conductor[t]].ptr_to_user => copies'[t][n] = copies[t][n]
        BY <1>0, <3>2, CopiesStep DEF TypeInv, TypeOK
      <4> QED BY <1>0, <2>1, <3>2, <4>1, <4>2, <4>3 DEF History
    <3>3. CASE v = t /\ \E o \in Requests[t] : request(t, o)
      <4>1. copies'[t][n] = 0
        <5>1. copies' = [copies EXCEPT ![t] = [i \in Names |-> 0]]
          BY <3>3, CopiesStep
        <5>2. copies'[t] = [i \in Names |-> 0]
          BY <1>0, <5>1 DEF TypeInv, TypeOK
        <5> QED BY <2>1, <5>2
      <4> QED BY <2>1, <3>3, <4>1
    <3>4. CASE v = t /\ ~write(t) /\ ~ \E o \in Requests[t] : request(t, o)
      <4>1. copies' = copies
        BY <3>4, CopiesStep
      <4>2. CASE pc[t] = "idle"
        <5>1. leave(t) \/ dies(t)
          BY <1>0, <3>4, <4>2, Course, LabelsApart
             DEF Acts, LoginStep, log_on, connect, Before, LoggingIn
        <5> QED BY <2>1, <3>4, <4>2, <5>1 DEF leave, dies
      <4> QED BY <3>1, <3>4, <4>1, <4>2
    <3> QED BY <1>4, <2>1, <3>1, <3>2, <3>3, <3>4
  <2> QED BY <2>1, HistoryStep
<1>7. ASSUME NEW v \in Threads PROVE Reader(v)'
  <2>1. CASE /\ pc'[v] = pc[v] /\ op'[v] = op[v]
             /\ copies'[v] = copies[v] /\ conductor'[v] = conductor[v]
    BY <1>2, <1>3, <2>1, ReaderOthers
  <2>2. CASE v = t /\ ForwardStep(t)
    BY <1>3, <2>2, ReaderHead, ReaderSender, ReaderStatus, ReaderSocket, ReaderWrite, ReaderReset,
       ReaderOnward DEF ForwardStep
  <2>3. CASE v = t /\ (JoinStep(t) \/ ExitStep(t) \/ LoginStep(t))
    <3>1. LoginStep(t) => pc'[t] \in LoggingIn \cup {"idle"}
      BY <1>0, Moves DEF LoginStep, log_on, connect, LoggingIn, TypeInv, TypeOK
    <3>2. pc'[t] \notin Forwarding
      BY <1>0, <2>3, <3>1, Course, LabelsApart
    <3> QED BY <2>3, <3>2 DEF Reader, Forwarding
  <2>4. CASE v = t /\ \E o \in Requests[t] : request(t, o)
    <3>1. PICK o \in Requests[t] : request(t, o)
      BY <2>4
    <3>2. o \in Call
      BY BoundsAssumption DEF Call
    <3>3. pc'[t] = Start(o.kind) /\ \A n \in Names : copies'[t][n] = 0
      BY <1>0, <3>1 DEF request, TypeInv, TypeOK
    <3>4. pc'[t] \in {"look", "previous", "head", "online"}
      BY <3>2, <3>3 DEF Start, Call
    <3> QED BY <2>4, <3>3, <3>4 DEF Reader, Forwarding
  <2>5. CASE v = t /\ (dies(t) \/ leave(t))
    BY <2>1, <2>5 DEF dies, leave, localVars
  <2> QED BY <1>4, <2>1, <2>2, <2>3, <2>4, <2>5 DEF Acts
<1> QED BY <1>1, <1>2, <1>6, <1>7 DEF PromiseInv, RoomInv

LEMMA PromiseInit == Init => PromiseInv
<1> SUFFICES ASSUME Init PROVE PromiseInv
  OBVIOUS
<1>0. LeftInv /\ mem \in Seq(Participant)
  BY LeftInit DEF LeftInv, TypeInv, TypeOK
<1>1. PICK s \in FirstMembers :
        /\ mem = [x \in DOMAIN s |->
                   [name |-> s[x], ptr_to_user |-> s[x], freed |-> FALSE,
                    next_member |-> IF x = Len(s) THEN Null ELSE x + 1]]
        /\ member = IF s = <<>> THEN Null ELSE 1
  BY DEF Init
<1>2. /\ s \in Seq(Names) /\ DOMAIN s = 1 .. Len(s) /\ Len(s) \in Nat /\ DOMAIN mem = DOMAIN s
      /\ \A j, k \in DOMAIN s : s[j] = s[k] => j = k
  BY <1>1, NamesAssumption
<1>3. \A y \in DOMAIN mem :
        /\ mem[y].name = s[y] /\ mem[y].ptr_to_user = s[y] /\ s[y] \in Names
        /\ mem[y].next_member = IF y = Len(s) THEN Null ELSE y + 1
  BY <1>1, <1>2
<1>4. Path(DOMAIN mem, member, mem)
  <2>1. DOMAIN mem = {} => member = Null
    BY <1>1, <1>2
  <2>2. DOMAIN mem # {} => member \in DOMAIN mem /\ member = 1
    BY <1>1, <1>2
  <2>3. \A y \in DOMAIN mem : member <= y
    BY <1>2, <2>2
  <2>4. \A y \in DOMAIN mem :
          \/ /\ mem[y].next_member \in DOMAIN mem /\ y < mem[y].next_member
             /\ \A z \in DOMAIN mem : z <= y \/ mem[y].next_member <= z
          \/ mem[y].next_member \in {Null, Wild} /\ \A z \in DOMAIN mem : z <= y
    BY <1>2, <1>3
  <2> QED BY <2>1, <2>2, <2>3, <2>4 DEF Path
<1>5. List = DOMAIN mem
  BY <1>0, <1>4, PathIsList
<1>6. Shape
  <2>1. \A y \in DOMAIN mem : Filled(y) /\ ~Unfilled(y) /\ mem[y].next_member # Wild
    BY <1>2, <1>3 DEF Filled, Unfilled, Null, Wild
  <2> QED BY <1>2, <1>3, <1>4, <1>5, <2>1 DEF Shape
<1>7. ASSUME NEW t \in Threads PROVE Writer(t) /\ History(t) /\ Reader(t)
  <2>1. pc[t] = "idle" /\ must[t] = {} /\ may[t] = {} /\ came[t] = {} /\ left[t] = {}
    BY DEF Init
  <2> QED BY <2>1 DEF Writer, History, Reader, Filling, Forwarding
<1> QED BY <1>0, <1>6, <1>7 DEF PromiseInv, RoomInv

LEMMA PromiseStutter ==
  ASSUME PromiseInv, UNCHANGED vars
  PROVE  PromiseInv'
<1>0. /\ UNCHANGED <<up, member, mem, users, nick, gone, calls, pc, op, conductor, previous, held>>
      /\ UNCHANGED <<answer, must, may, came, left, copies>>
  BY DEF vars, roomVars, clientVars, localVars
<1>1. /\ List' = List /\ (\A y : Filled(y)' = Filled(y)) /\ (\A y : Unfilled(y)' = Unfilled(y))
      /\ Online' = Online
  BY <1>0, Quiet DEF Unfilled, Online
<1>2. Members' = Members
  BY <1>0, <1>1 DEF Members
<1>3. LeftInv'
  BY LeftInvStutter DEF PromiseInv
<1>6. Shape'
  <2>1. \A w, y : Builds(w, y)' = Builds(w, y)
    BY <1>0 DEF Builds, here
  <2> QED BY <1>0, <1>1, <2>1 DEF PromiseInv, RoomInv, Shape
<1>7. ASSUME NEW v \in Threads PROVE Writer(v)' /\ History(v)' /\ Reader(v)'
  <2>1. Writer(v) /\ History(v) /\ Reader(v)
    BY DEF PromiseInv, RoomInv
  <2>2. Writer(v)'
    BY <1>0, <1>1, <2>1 DEF Writer, NotIn
  <2>3. History(v)'
    BY <1>0, <1>1, <1>2, <2>1 DEF History
  <2>4. \A A : Ahead(v, A)' = Ahead(v, A)
    BY <1>0, <1>1 DEF Ahead, Todo
  <2>5. Reader(v)'
    BY <1>0, <1>1, <2>1, <2>4 DEF Reader
  <2> QED BY <2>2, <2>3, <2>5
<1> QED BY <1>3, <1>6, <1>7 DEF PromiseInv, RoomInv

-------------------------------------------------------------------------------
(* What Room sees of a step                                                *)

\* The call each thread is in, as Room sees it.
calling == [t \in Threads |-> IF pc[t] = "idle" THEN None ELSE op[t]]

\* The users a client of whom has gone.
absent == {nick[t] : t \in gone} \ {None}

\* A thread is in no call as long as it is idle.
LEMMA Calling ==
  /\ TypeInv => \A t \in Threads : calling[t] = None <=> pc[t] = "idle"
  /\ TypeInv' => \A t \in Threads : calling'[t] = None <=> pc'[t] = "idle"
<1>1. None \notin Call
  BY NoneAssumption DEF Call
<1>2. ASSUME TypeInv, NEW t \in Threads PROVE calling[t] = None <=> pc[t] = "idle"
  BY <1>1, <1>2 DEF calling, TypeInv, CallOf
<1>3. ASSUME TypeInv', NEW t \in Threads PROVE calling'[t] = None <=> pc'[t] = "idle"
  BY <1>1, <1>3 DEF calling, TypeInv, CallOf
<1> QED BY <1>2, <1>3

\* The history is that of Room.
LEMMA RoomWitness ==
  ASSUME TypeInv, TypeInv', Witness
  PROVE  Promise!Witness
<1>1. \A t \in Threads : /\ calling[t] = None <=> pc[t] = "idle"
                         /\ calling'[t] = None <=> pc'[t] = "idle"
  BY Calling
<1>2. must' = [t \in Threads |->
                 CASE calling'[t] = None -> {}
                   [] calling[t] = None /\ calling'[t] # None -> Members' \cap Online'
                   [] OTHER -> must[t] \cap Members' \cap Online']
  BY <1>1 DEF Witness
<1>3. may' = [t \in Threads |-> IF calling'[t] = None THEN {} ELSE may[t] \cup Members']
  BY <1>1 DEF Witness
<1>4. /\ came' = [t \in Threads |->
                    IF calling'[t] = None THEN {} ELSE came[t] \cup (Members' \ Members)]
      /\ left' = [t \in Threads |->
                    IF calling'[t] = None THEN {} ELSE left[t] \cup (Members \ Members')]
  BY <1>1 DEF Witness
<1> QED BY <1>2, <1>3, <1>4 DEF Promise!Witness, calling

\* What a step that Room does not see leaves as it is.
LEMMA Silent ==
  ASSUME PromiseInv, TypeInv', Witness, up' = up, Members' = Members, Online' = Online,
         calling' = calling, absent' = absent, copies' = copies, answer' = answer
  PROVE  UNCHANGED Promise!roomVars
<1>0. TypeInv /\ \A t \in Threads : History(t)
  BY DEF PromiseInv, LeftInv, RoomInv
<1>1. \A t \in Threads : pc'[t] = "idle" <=> pc[t] = "idle"
  BY <1>0, Calling
<1>2. ASSUME NEW t \in Threads
      PROVE  must'[t] = must[t] /\ may'[t] = may[t] /\ came'[t] = came[t] /\ left'[t] = left[t]
  <2>1. CASE pc[t] = "idle"
    BY <1>0, <1>1, <2>1 DEF Witness, History
  <2>2. CASE pc[t] # "idle"
    BY <1>0, <1>1, <2>2 DEF Witness, History
  <2> QED BY <2>1, <2>2
<1>3. must' = must /\ may' = may /\ came' = came /\ left' = left
  BY <1>0, <1>2 DEF TypeInv, TypeOK
<1> QED BY <1>3 DEF Promise!roomVars, calling, absent

\* Goto and Return, as Room sees them.
LEMMA Called ==
  ASSUME TypeInv, NEW t \in Threads, pc[t] # "idle"
  PROVE  /\ calling[t] = op[t] /\ op[t] # None /\ calling[t] # None
         /\ \A l \in Labels : Goto(t, l) => calling' = calling /\ copies' = copies /\ answer' = answer
         /\ \A a : Return(t, a) =>
              /\ calling' = [calling EXCEPT ![t] = None]
              /\ answer' = [answer EXCEPT ![t] = a] /\ copies' = copies
<1>1. calling[t] = op[t] /\ calling[t] # None
  BY Calling DEF calling
<1>2. ASSUME NEW l \in Labels, Goto(t, l)
      PROVE  calling' = calling /\ copies' = copies /\ answer' = answer
  <2>1. /\ pc'[t] = l /\ op' = op /\ answer' = answer /\ copies' = copies
        /\ \A v \in Threads \ {t} : pc'[v] = pc[v]
    BY <1>2, Moves
  <2>2. l # "idle"
    BY LabelsApart DEF Labels
  <2> QED BY <2>1, <2>2 DEF calling
<1>3. ASSUME NEW a, Return(t, a)
      PROVE  /\ calling' = [calling EXCEPT ![t] = None]
             /\ answer' = [answer EXCEPT ![t] = a] /\ copies' = copies
  <2>1. /\ pc'[t] = "idle" /\ answer' = [answer EXCEPT ![t] = a] /\ copies' = copies
        /\ \A v \in Threads \ {t} : pc'[v] = pc[v] /\ op'[v] = op[v]
    BY <1>3, Moves
  <2>2. calling' = [v \in Threads |-> IF v = t THEN None ELSE calling[v]]
    BY <2>1 DEF calling
  <2> QED BY <2>1, <2>2 DEF calling
<1> QED BY <1>1, <1>2, <1>3

\* A step of thread t that changes nothing Room sees.
LEMMA GoesOn ==
  ASSUME PromiseInv, TypeInv', OneWriter', Witness, NEW t \in Threads, Acts(t), pc[t] # "idle",
         ~store_user(t), ~store(t), NEW l \in Labels, Goto(t, l), UNCHANGED <<up, users>>
  PROVE  UNCHANGED Promise!roomVars
<1>1. TypeInv /\ Members' = Members
  BY TheMembers, ListStep DEF PromiseInv, LeftInv
<1>2. Online' = Online
  BY DEF Online
<1>3. calling' = calling /\ copies' = copies /\ answer' = answer
  BY <1>1, Called
<1>4. absent' = absent
  BY DEF Goto, clientVars, absent
<1> QED BY <1>1, <1>2, <1>3, <1>4, Silent

\* join_chatroom adds the name with the store of the last field, or finds it there.
LEMMA JoinMaps ==
  ASSUME PromiseInv, TypeInv', OneWriter', Witness, NEW t \in Threads, JoinStep(t)
  PROVE  Promise!Next \/ UNCHANGED Promise!roomVars
<1>0. /\ TypeInv /\ Acts(t) /\ pc[t] \in Joining \cup Filling /\ op[t].kind = "join"
      /\ UNCHANGED <<clientVars, users>> /\ up /\ UNCHANGED up
  <2>1. up /\ UNCHANGED up
    BY DEF JoinStep, look, compare, next, again, first_node, tail, advance, append, reload,
       clear, store_name, store_user, At, Before, roomVars
  <2> QED BY <2>1, Course DEF PromiseInv, LeftInv, Kind, Acts
<1>1. /\ pc[t] # "idle" /\ calling[t] = op[t] /\ calling[t] # None
      /\ \A a : Return(t, a) =>
           /\ calling' = [calling EXCEPT ![t] = None]
           /\ answer' = [answer EXCEPT ![t] = a] /\ copies' = copies
  BY <1>0, Called, LabelsApart
<1>2. Promise!Witness
  BY <1>0, RoomWitness
<1>3. Online' = Online
  BY <1>0 DEF Online
<1>4. Members = Present /\ Members' = Present'
  BY <1>0, TheMembers
<1>5. ASSUME NEW a \in {SUCCESS, OUT_OF_MEMORY}, Return(t, a),
             \/ a = SUCCESS /\ Members' = Members \cup {op[t].name}
             \/ a = OUT_OF_MEMORY /\ Members' = Members
      PROVE  Promise!Next
  <2>1. a \in {Promise!SUCCESS, Promise!OUT_OF_MEMORY}
    BY <1>5 DEF SUCCESS, OUT_OF_MEMORY, Promise!SUCCESS, Promise!OUT_OF_MEMORY
  <2>2. Promise!Join(t, a)
    BY <1>0, <1>1, <1>3, <1>5
       DEF Promise!Join, Promise!In, Promise!Return, Promise!SUCCESS, Promise!OUT_OF_MEMORY,
           SUCCESS, OUT_OF_MEMORY, calling, absent, clientVars
  <2> QED BY <1>2, <2>1, <2>2 DEF Promise!Next
<1>6. ASSUME NEW l \in Labels, Goto(t, l), ~store_user(t)
      PROVE  UNCHANGED Promise!roomVars
  <2>1. ~store(t)
    BY <1>0 DEF store, Before, Joining, Filling
  <2> QED BY <1>0, <1>1, <1>6, <2>1, GoesOn
<1>7. CASE store_user(t)
  <2>1. Return(t, SUCCESS) /\ Members' = Members \cup {op[t].name}
    BY <1>0, <1>4, <1>7, ListStep DEF store_user
  <2> QED BY <1>5, <2>1
<1>8. CASE compare(t) /\ Return(t, SUCCESS)
  <2>1. /\ pc[t] = "compare" /\ mem[conductor[t]].name = op[t].name /\ pc[t] # "user"
        /\ ~store_user(t) /\ ~store(t)
    <3>1. pc[t] = "compare"
      BY <1>8 DEF compare, At
    <3>2. ~ Goto(t, "next")
      <4>1. pc'[t] = "idle"
        BY <1>0, <1>8, Moves
      <4> QED BY <1>0, <4>1, Moves
    <3> QED BY <1>8, <3>1, <3>2 DEF compare, here, store_user, store, At, Before
  <2>2. conductor[t] \in List /\ List \subseteq DOMAIN mem
    BY <2>1, FirstInList DEF PromiseInv, RoomInv, Writer
  <2>3. Filled(conductor[t])
    BY <1>0, <2>1, <2>2, Alone DEF Filling
  <2>4. mem[conductor[t]].ptr_to_user = op[t].name
    BY <2>1, <2>2, <2>3 DEF PromiseInv, RoomInv, Shape
  <2>5. op[t].name \in Present
    BY <2>2, <2>3, <2>4 DEF Present
  <2>6. Members' = Members \cup {op[t].name}
    BY <1>0, <1>4, <2>1, <2>5, ListStep
  <2> QED BY <1>5, <1>8, <2>6
<1>9. CASE (first_node(t) \/ reload(t)) /\ Return(t, OUT_OF_MEMORY)
  <2>1. pc[t] \in {"first node", "reload"}
    BY <1>9 DEF first_node, reload, At, Before
  <2>2. ~store_user(t) /\ ~store(t)
    BY <2>1 DEF store_user, store, At, Before
  <2>3. Members' = Members
    BY <1>0, <1>4, <2>2, ListStep
  <2> QED BY <1>5, <1>9, <2>3
<1>10. \/ store_user(t)
       \/ compare(t) /\ Return(t, SUCCESS)
       \/ (first_node(t) \/ reload(t)) /\ Return(t, OUT_OF_MEMORY)
       \/ \E l \in Labels : Goto(t, l)
  <2>1. {"compare", "again", "tail", "first node", "clear", "append", "advance", "reload", "next",
         "name", "user"} \subseteq Labels
    BY DEF Labels, Joining, Filling
  <2>2. look(t) \/ next(t) \/ again(t) \/ tail(t) \/ advance(t) \/ append(t) \/ clear(t) \/ store_name(t)
          => \E l \in Labels : Goto(t, l)
    BY <2>1 DEF look, next, again, tail, advance, append, clear, store_name, Loop
  <2>3. compare(t) => Return(t, SUCCESS) \/ \E l \in Labels : Goto(t, l)
    BY <2>1 DEF compare
  <2>4. first_node(t) \/ reload(t) => Return(t, OUT_OF_MEMORY) \/ \E l \in Labels : Goto(t, l)
    BY <2>1 DEF first_node, reload, Loop
  <2> QED BY <2>2, <2>3, <2>4 DEF JoinStep
<1> QED BY <1>6, <1>7, <1>8, <1>9, <1>10

\* exit_chatroom takes the name away with its store into the participant before, or finds
\* that it is not there.
LEMMA ExitMaps ==
  ASSUME PromiseInv, TypeInv', OneWriter', Witness, NEW t \in Threads, ExitStep(t)
  PROVE  Promise!Next \/ UNCHANGED Promise!roomVars
<1>0. /\ TypeInv /\ Acts(t) /\ pc[t] \in Exiting /\ op[t].kind = "exit"
      /\ UNCHANGED <<clientVars, users>> /\ up /\ UNCHANGED up /\ Writer(t)
  <2>1. up /\ UNCHANGED up
    BY DEF ExitStep, read_previous, read_first, find, pass, load, store, free, At, Before, roomVars
  <2> QED BY <2>1, Course DEF PromiseInv, LeftInv, RoomInv, Kind, Acts
<1>1. /\ pc[t] # "idle" /\ calling[t] = op[t] /\ calling[t] # None
      /\ \A l \in Labels : Goto(t, l) => calling' = calling /\ copies' = copies /\ answer' = answer
      /\ \A a : Return(t, a) =>
           /\ calling' = [calling EXCEPT ![t] = None]
           /\ answer' = [answer EXCEPT ![t] = a] /\ copies' = copies
  BY <1>0, Called, LabelsApart
<1>2. Promise!Witness
  BY <1>0, RoomWitness
<1>3. Online' = Online
  BY <1>0 DEF Online
<1>4. Members = Present /\ Members' = Present'
  BY <1>0, TheMembers
<1>5. ~store_user(t) /\ List \subseteq DOMAIN mem
  BY <1>0, FirstInList DEF store_user, At, Exiting
<1>6. ASSUME NotIn(t), Return(t, SUCCESS), ~store(t)
      PROVE  Promise!Next
  <2>1. op[t].name \notin Members
    BY <1>4, <1>5, <1>6 DEF Present, NotIn, PromiseInv, RoomInv, Shape
  <2>2. Members' = Members
    BY <1>0, <1>4, <1>5, <1>6, ListStep
  <2>3. Promise!Exit(t)
    BY <1>0, <1>1, <1>3, <1>6, <2>1, <2>2
       DEF Promise!Exit, Promise!In, Promise!Return, Promise!SUCCESS, SUCCESS, calling, absent,
           clientVars
  <2> QED BY <1>2, <2>3 DEF Promise!Next
<1>7. ASSUME NEW l \in Labels, Goto(t, l), ~store(t)
      PROVE  UNCHANGED Promise!roomVars
  BY <1>0, <1>1, <1>5, <1>7, GoesOn
<1>8. CASE store(t)
  <2>1. Goto(t, "free") /\ "free" \in Labels
    BY <1>8 DEF store, Labels, Exiting
  <2>2. Members' = Members \ {op[t].name}
    BY <1>0, <1>4, <1>8, ListStep
  <2>3. Promise!Leave(t)
    BY <1>0, <1>1, <1>3, <2>1, <2>2 DEF Promise!Leave, Promise!In, calling,
       absent, clientVars
  <2> QED BY <1>2, <2>3 DEF Promise!Next
<1>9. CASE free(t)
  <2>1. pc[t] = "free" /\ Return(t, SUCCESS)
    BY <1>9 DEF free, At
  <2>2. ~store(t) /\ NotIn(t)
    BY <1>0, <2>1 DEF store, Before, Writer
  <2> QED BY <1>6, <2>1, <2>2
<1>10. CASE read_first(t) /\ member = Null
  <2>1. pc[t] = "first" /\ Return(t, SUCCESS)
    BY <1>10 DEF read_first, Before, Loop
  <2>2. List = {}
    BY <1>10, FirstInList
  <2>3. ~store(t) /\ NotIn(t)
    BY <2>1, <2>2 DEF store, Before, NotIn
  <2> QED BY <1>6, <2>1, <2>3
<1>11. CASE pass(t) /\ here(t).next_member = Null
  <2>1. pc[t] = "pass" /\ Return(t, SUCCESS)
    BY <1>11 DEF pass, At, Loop
  <2>2. conductor[t] \in List /\ \A y \in List : y <= conductor[t] => mem[y].name # op[t].name
    BY <1>0, <2>1 DEF Writer
  <2>3. \A y \in List : y <= conductor[t]
    BY <1>11, <2>2, NextInList DEF here, Null, Wild
  <2>4. ~store(t) /\ NotIn(t)
    BY <2>1, <2>2, <2>3 DEF store, Before, NotIn
  <2> QED BY <1>6, <2>1, <2>4
<1>12. CASE ~store(t) /\ \E l \in Labels : Goto(t, l)
  BY <1>7, <1>12
<1>13. \/ store(t) \/ free(t)
       \/ read_first(t) /\ member = Null
       \/ pass(t) /\ here(t).next_member = Null
       \/ ~store(t) /\ \E l \in Labels : Goto(t, l)
  <2>1. {"first", "find", "pass", "load", "store"} \subseteq Labels
    BY DEF Labels, Exiting
  <2>2. read_previous(t) \/ find(t) \/ load(t) => \E l \in Labels : Goto(t, l)
    BY <2>1 DEF read_previous, find, load
  <2>3. read_first(t) => member = Null \/ \E l \in Labels : Goto(t, l)
    BY <2>1 DEF read_first, Loop
  <2>4. pass(t) => here(t).next_member = Null \/ \E l \in Labels : Goto(t, l)
    BY <2>1 DEF pass, Loop
  <2> QED BY <2>2, <2>3, <2>4 DEF ExitStep
<1> QED BY <1>8, <1>9, <1>10, <1>11, <1>12, <1>13

\* forward_chat_room_data hands the message out as Room promises.
LEMMA ForwardMaps ==
  ASSUME PromiseInv, TypeInv', OneWriter', Witness, NEW t \in Threads, ForwardStep(t)
  PROVE  Promise!Next \/ UNCHANGED Promise!roomVars
<1> DEFINE c == conductor[t]
           n == mem[c].ptr_to_user
<1>0. /\ TypeInv /\ Acts(t) /\ pc[t] \in Forwarding /\ op[t].kind = "forward"
      /\ UNCHANGED clientVars /\ up /\ UNCHANGED up /\ Reader(t) /\ History(t)
  <2>1. up /\ UNCHANGED up
    BY DEF ForwardStep, head, sender, status, socket, write, reset, onward, At, Before, roomVars
  <2> QED BY <2>1, Course DEF PromiseInv, LeftInv, RoomInv, Kind, Acts
<1>1. /\ pc[t] # "idle" /\ calling[t] = op[t] /\ calling[t] # None
      /\ \A l \in Labels : Goto(t, l) => calling' = calling /\ copies' = copies /\ answer' = answer
      /\ \A a : Return(t, a) =>
           /\ calling' = [calling EXCEPT ![t] = None]
           /\ answer' = [answer EXCEPT ![t] = a] /\ copies' = copies
  BY <1>0, Called, LabelsApart
<1>2. Promise!Witness
  BY <1>0, RoomWitness
<1>3. Forwarding \subseteq Labels
  BY DEF Labels
<1>4. ~store_user(t) /\ ~store(t)
  BY <1>0 DEF store_user, store, At, Before, Forwarding
<1>5. Members = Present /\ Members' = Members
  BY <1>0, <1>4, TheMembers, ListStep
<1>6. ASSUME Return(t, SUCCESS), UNCHANGED users,
             \A i \in must[t] \ {op[t].name} : copies[t][i] > 0
      PROVE  Promise!Next
  <2>1. Online' = Online
    BY <1>6 DEF Online
  <2>2. Promise!Forwarded(t)
    BY <1>0, <1>1, <1>5, <1>6, <2>1
       DEF Promise!Forwarded, Promise!In, Promise!Return, Promise!SUCCESS, SUCCESS, calling,
           absent, clientVars
  <2> QED BY <1>2, <2>2 DEF Promise!Next
<1>7. ASSUME NEW l \in Labels, Goto(t, l), UNCHANGED users
      PROVE  UNCHANGED Promise!roomVars
  BY <1>0, <1>1, <1>4, <1>7, GoesOn
<1>8. CASE head(t)
  <2>1. UNCHANGED users /\ pc[t] = "head" /\ "sender" \in Labels
    BY <1>3, <1>8 DEF head, Before, roomVars, Forwarding
  <2>2. CASE member = Null
    <3>1. must[t] = {}
      BY <1>0, <1>1, <1>5, <2>2, FirstInList DEF Present, History
    <3> QED BY <1>6, <1>8, <2>1, <2>2, <3>1 DEF head, Loop
  <2>3. CASE member # Null
    BY <1>7, <1>8, <2>1, <2>3 DEF head, Loop
  <2> QED BY <2>2, <2>3
<1>9. CASE sender(t) \/ status(t) \/ socket(t)
  <2>1. UNCHANGED users
    BY <1>9 DEF sender, status, socket, roomVars
  <2>2. {"onward", "status", "socket", "write"} \subseteq Labels
    BY <1>3 DEF Forwarding
  <2>3. \E l \in Labels : Goto(t, l)
    BY <1>9, <2>2 DEF sender, AtSender, status, socket
  <2> QED BY <1>7, <2>1, <2>3
<1>10. CASE write(t)
  <2>1. /\ pc[t] = "write" /\ UNCHANGED <<users, op, answer>>
        /\ copies' = [copies EXCEPT ![t][n] = @ + 1] /\ pc'[t] # "idle"
        /\ \A v \in Threads \ {t} : pc'[v] = pc[v]
    BY <1>0, <1>10 DEF write, Before, roomVars, user, here, TypeInv, TypeOK
  <2>2. calling' = calling
    BY <1>1, <2>1 DEF calling
  <2>3. PICK A \in SUBSET DOMAIN mem : Path(A, c, mem) /\ c \in A /\ Ahead(t, A)
    BY <2>1, AtWay DEF Forwarding
  <2>4. Filled(c) /\ n \in Names
    BY <1>0, <2>1 DEF Reader, Filled
  <2>5. c \in Todo(t, A)
    BY <2>1, <2>3 DEF Todo
  <2>6. n \in may[t] /\ (copies[t][n] > 0 => n \in left[t])
    BY <2>3, <2>4, <2>5 DEF Ahead
  <2>7. n = op[t].name => n \in came[t] \cup left[t]
    BY <1>0, <2>1 DEF Reader
  <2>8. Online' = Online
    BY <2>1 DEF Online
  <2>9. Promise!Deliver(t, n)
    BY <1>0, <1>1, <1>5, <2>1, <2>2, <2>6, <2>7, <2>8 DEF Promise!Deliver, Promise!In,
       calling, absent, clientVars
  <2> QED BY <1>2, <2>4, <2>9 DEF Promise!Next
<1>11. CASE reset(t)
  <2>1. /\ pc[t] = "reset" /\ n \in Names /\ users' = [users EXCEPT ![n].login = 0]
        /\ Goto(t, "onward") /\ "onward" \in Labels
    BY <1>3, <1>11 DEF reset, At, user, here, Forwarding
  <2>2. copies[t][n] > 0
    BY <1>0, <2>1 DEF Reader
  <2>3. Online' = Online \ {n}
    <3>1. users'[n].login = 0 /\ \A i \in Names \ {n} : users'[i] = users[i]
      BY <1>0, <2>1 DEF TypeInv, TypeOK, User
    <3> QED BY <2>1, <3>1 DEF Online
  <2>4. n \in absent
    BY <1>0, <2>1, NoneAssumption DEF PromiseInv, LeftInv, Point, user, here, absent
  <2>5. Promise!LogOff(t, n)
    BY <1>0, <1>1, <1>5, <2>1, <2>2, <2>3, <2>4
       DEF Promise!LogOff, Promise!In, calling, absent, clientVars
  <2> QED BY <1>2, <2>1, <2>5 DEF Promise!Next
<1>12. CASE onward(t)
  <2>1. UNCHANGED users /\ pc[t] = "onward" /\ "sender" \in Labels
    BY <1>3, <1>12 DEF onward, At, roomVars, Forwarding
  <2>2. CASE here(t).next_member = Null
    <3>1. PICK A \in SUBSET DOMAIN mem : Path(A, c, mem) /\ c \in A /\ Ahead(t, A)
      BY <2>1, AtWay DEF Forwarding
    <3>2. A = {c}
      <4>1. mem \in Seq(Participant) /\ c \in DOMAIN mem /\ mem[c].next_member \in {Null, Wild}
        BY <1>0, <2>2, <3>1 DEF here, TypeInv, TypeOK
      <4> QED BY <3>1, <4>1, PathRest
    <3>3. Todo(t, A) = {}
      BY <2>1, <3>2 DEF Todo
    <3>4. \A i \in must[t] \ {op[t].name} : copies[t][i] > 0
      BY <3>1, <3>3 DEF Ahead
    <3> QED BY <1>6, <1>12, <2>1, <2>2, <3>4 DEF onward, Loop
  <2>3. CASE here(t).next_member # Null
    BY <1>7, <1>12, <2>1, <2>3 DEF onward, Loop
  <2> QED BY <2>2, <2>3
<1> QED BY <1>8, <1>9, <1>10, <1>11, <1>12 DEF ForwardStep

\* A request begins a call, and a login ends one.
LEMMA CallMaps ==
  ASSUME PromiseInv, TypeInv', OneWriter', Witness, NEW t \in Threads,
         LoginStep(t) \/ leave(t) \/ \E o \in Requests[t] : request(t, o)
  PROVE  Promise!Next \/ UNCHANGED Promise!roomVars
<1>0. TypeInv /\ Acts(t) /\ Kind(t)
  BY DEF PromiseInv, LeftInv, Acts
<1>1. Promise!Witness
  BY <1>0, RoomWitness
<1>2. Members' = Members
  BY <1>0, TheMembers, Elsewhere
<1>3. CASE \E o \in Requests[t] : request(t, o)
  <2>1. PICK o \in Requests[t] : request(t, o)
    BY <1>3
  <2>2. o \in Promise!Call
    BY BoundsAssumption DEF Promise!Call, Promise!Kind
  <2>3. /\ up /\ pc[t] = "idle" /\ UNCHANGED <<up, users, nick, gone>>
        /\ pc' = [pc EXCEPT ![t] = Start(o.kind)] /\ op' = [op EXCEPT ![t] = o]
        /\ answer' = [answer EXCEPT ![t] = None]
        /\ copies' = [copies EXCEPT ![t] = [n \in Names |-> 0]]
    BY <2>1 DEF request, roomVars
  <2>4. pc'[t] # "idle" /\ op'[t] = o /\ \A v \in Threads \ {t} : pc'[v] = pc[v] /\ op'[v] = op[v]
    BY <1>0, <2>2, <2>3 DEF TypeInv, TypeOK, Start, Promise!Call, Promise!Kind
  <2>5. calling' = [v \in Threads |-> IF v = t THEN o ELSE calling[v]]
    BY <2>4 DEF calling
  <2>6. calling' = [calling EXCEPT ![t] = o] /\ calling[t] = None
    BY <2>3, <2>5 DEF calling
  <2>7. Online' = Online
    BY <2>3 DEF Online
  <2>8. Promise!Begin(t, o)
    BY <1>2, <2>3, <2>6, <2>7 DEF Promise!Begin, calling, absent
  <2> QED BY <1>1, <2>2, <2>8 DEF Promise!Next
<1>4. CASE leave(t)
  <2>1. /\ UNCHANGED <<up, users, nick, pc, op, copies, answer>> /\ up
        /\ gone' = gone \cup {t}
    BY <1>4 DEF leave, roomVars
  <2>2. Online' = Online /\ calling' = calling
    BY <2>1 DEF Online, calling
  <2>3. CASE nick[t] = None
    <3>1. absent' = absent
      BY <2>1, <2>3 DEF absent
    <3> QED BY <1>2, <2>1, <2>2, <3>1, Silent
  <2>4. CASE nick[t] # None
    <3>1. PICK n \in Names : n = nick[t]
      BY <1>0, <2>4 DEF TypeInv, TypeOK
    <3>2. absent' = absent \cup {n}
      BY <2>1, <2>4, <3>1 DEF absent
    <3>3. Promise!Away(n)
      BY <1>2, <2>1, <2>2, <3>2 DEF Promise!Away, calling, absent
    <3>4. \E i \in Names : Promise!Away(i)
      BY <3>3
    <3> QED BY <1>1, <3>4, Zenon DEF Promise!Next
  <2> QED BY <2>3, <2>4
<1>5. CASE log_on(t)
  <2>1. /\ up /\ pc[t] = "online" /\ users' = [users EXCEPT ![op[t].name].login = 1]
        /\ Goto(t, "connect") /\ UNCHANGED up /\ {"online", "connect"} \subseteq Labels
    BY <1>5 DEF log_on, Before, Labels, LoggingIn
  <2>2. /\ pc[t] # "idle" /\ calling[t] = op[t] /\ calling[t] # None
        /\ calling' = calling /\ copies' = copies /\ answer' = answer
    BY <1>0, <2>1, Called
  <2>3. op[t].kind = "login" /\ op[t].name \in Names
    BY <1>0, <2>1, <2>2 DEF Kind, LoggingIn, TypeInv, CallOf, Call
  <2>4. Online' = Online \cup {op[t].name}
    <3>1. users'[op[t].name].login = 1 /\ \A i \in Names \ {op[t].name} : users'[i] = users[i]
      BY <1>0, <2>1, <2>3 DEF TypeInv, TypeOK, User
    <3> QED BY <2>3, <3>1 DEF Online
  <2>5. Promise!LogOn(t)
    BY <1>2, <2>1, <2>2, <2>3, <2>4
       DEF Promise!LogOn, Promise!In, calling, Goto, absent, clientVars
  <2> QED BY <1>1, <2>5 DEF Promise!Next
<1>6. CASE connect(t)
  <2>1. /\ up /\ pc[t] = "connect" /\ users' = [users EXCEPT ![op[t].name].connfd = t]
        /\ pc' = [pc EXCEPT ![t] = "idle"] /\ op' = [op EXCEPT ![t] = None]
        /\ answer' = [answer EXCEPT ![t] = SUCCESS] /\ UNCHANGED <<up, copies, gone>>
        /\ nick' = [nick EXCEPT ![t] = op[t].name]
    BY <1>6 DEF connect, Before
  <2>2. pc[t] # "idle" /\ calling[t] = op[t] /\ calling[t] # None
    BY <1>0, <2>1, Called
  <2>3. op[t].kind = "login" /\ op[t].name \in Names
    BY <1>0, <2>1, <2>2 DEF Kind, LoggingIn, TypeInv, CallOf, Call
  <2>4. Online' = Online
    <3>1. \A i \in Names : users'[i].login = users[i].login
      BY <1>0, <2>1, <2>3 DEF TypeInv, TypeOK, User
    <3> QED BY <3>1 DEF Online
  <2>5. calling' = [v \in Threads |-> IF v = t THEN None ELSE calling[v]]
    <3>1. pc'[t] = "idle" /\ \A v \in Threads \ {t} : pc'[v] = pc[v] /\ op'[v] = op[v]
      BY <1>0, <2>1 DEF TypeInv, TypeOK
    <3> QED BY <3>1 DEF calling
  <2>6. calling' = [calling EXCEPT ![t] = None]
    BY <2>5 DEF calling
  <2>7. absent' \in {absent, absent \cup {op[t].name}}
    <3>1. /\ nick[t] = None /\ nick'[t] = op[t].name /\ op[t].name # None
          /\ \A v \in gone \ {t} : nick'[v] = nick[v]
      BY <1>0, <2>1, <2>3, NoneAssumption DEF Kind, LoggingIn, TypeInv, TypeOK
    <3>2. CASE t \in gone
      BY <2>1, <3>1, <3>2 DEF absent
    <3>3. CASE t \notin gone
      BY <2>1, <3>1, <3>3 DEF absent
    <3> QED BY <3>2, <3>3
  <2>8. Promise!LoggedOn(t)
    BY <1>2, <2>1, <2>2, <2>3, <2>4, <2>6, <2>7
       DEF Promise!LoggedOn, Promise!In, Promise!Return, Promise!SUCCESS, SUCCESS, calling, absent
  <2> QED BY <1>1, <2>8 DEF Promise!Next
<1> QED BY <1>3, <1>4, <1>5, <1>6 DEF LoginStep

\* What has been freed is in the list no more, and nobody frees it again.
Outside ==
  /\ \A y \in DOMAIN mem : mem[y].freed => y \notin List
  /\ \A v \in Threads : pc[v] = "free" => ~mem[conductor[v]].freed

\* Only free() frees a participant.
LEMMA FreedBy ==
  ASSUME TypeInv, NEW t \in Threads, Acts(t), NEW y \in DOMAIN mem', mem'[y].freed
  PROVE  \/ y \in DOMAIN mem /\ mem[y].freed
         \/ free(t) /\ y = conductor[t]
<1>0. mem \in Seq(Participant) /\ Len(mem) \in Nat /\ DOMAIN mem = 1 .. Len(mem)
  BY DEF TypeInv, TypeOK
<1>1. CASE mem' = mem
  BY <1>1
<1>2. ASSUME NEW z \in DOMAIN mem, NEW p, p.freed = mem[z].freed, mem' = [mem EXCEPT ![z] = p]
      PROVE  y \in DOMAIN mem /\ mem[y].freed
  <2>1. /\ DOMAIN mem' = DOMAIN mem /\ mem'[z] = p
        /\ \A i \in DOMAIN mem \ {z} : mem'[i] = mem[i]
    BY <1>0, <1>2, Cell
  <2> QED BY <1>2, <2>1
<1>3. ASSUME NEW m, DOMAIN m = DOMAIN mem, m \in Seq(Participant),
             \A i \in DOMAIN mem : m[i].freed = mem[i].freed,
             NEW u, NEW x, mem' = Append(m, Fresh(u, x))
      PROVE  y \in DOMAIN mem /\ mem[y].freed
  <2>1. Len(m) = Len(mem) /\ DOMAIN mem' = 1 .. (Len(mem) + 1)
    BY <1>0, <1>3
  <2>2. /\ mem'[Len(mem) + 1] = Fresh(u, x)
        /\ \A i \in DOMAIN mem : mem'[i] = m[i]
    BY <1>0, <1>3, <2>1
  <2>3. ~Fresh(u, x).freed
    BY DEF Fresh
  <2> QED BY <1>0, <1>3, <2>1, <2>2, <2>3
<1>4. CASE first_node(t)
  BY <1>0, <1>3, <1>4, <1>1 DEF first_node
<1>5. CASE append(t)
  <2> DEFINE c == conductor[t]
  <2>1. c \in DOMAIN mem /\ mem[c] \in Participant
    BY <1>0, <1>5 DEF append, At
  <2>2. CASE Store(t, [here(t) EXCEPT !.next_member = Null])
    <3>1. [mem[c] EXCEPT !.next_member = Null].freed = mem[c].freed
      BY <2>1 DEF Participant
    <3> QED BY <1>2, <2>1, <2>2, <3>1 DEF Store, here
  <2>3. CASE \E u \in FreshUser, x \in FreshNext :
               mem' = Append([mem EXCEPT ![c].next_member = Len(mem) + 1], Fresh(u, x))
    <3> DEFINE p == [mem[c] EXCEPT !.next_member = Len(mem) + 1]
               m == [mem EXCEPT ![c] = p]
    <3>1. p \in Participant /\ p.freed = mem[c].freed
      BY <1>0, <2>1 DEF Participant
    <3>2. [mem EXCEPT ![c].next_member = Len(mem) + 1] = m
      OBVIOUS
    <3> HIDE DEF p
    <3>3. /\ DOMAIN m = DOMAIN mem /\ m \in Seq(Participant)
          /\ \A i \in DOMAIN mem : m[i].freed = mem[i].freed
      BY <1>0, <2>1, <3>1
    <3>4. PICK u \in FreshUser, x \in FreshNext : mem' = Append(m, Fresh(u, x))
      BY <2>3, <3>2
    <3> HIDE DEF m
    <3> QED BY <1>3, <3>3, <3>4
  <2> QED BY <1>5, <2>2, <2>3 DEF append
<1>6. CASE clear(t) \/ store_name(t) \/ store_user(t)
  <2> DEFINE c == conductor[t]
  <2>1. c \in DOMAIN mem /\ mem[c] \in Participant
    BY <1>0, <1>6 DEF clear, store_name, store_user, At
  <2>2. /\ [mem[c] EXCEPT !.next_member = Null].freed = mem[c].freed
        /\ [mem[c] EXCEPT !.name = op[t].name].freed = mem[c].freed
        /\ [mem[c] EXCEPT !.ptr_to_user = op[t].name].freed = mem[c].freed
    BY <2>1 DEF Participant
  <2> QED BY <1>2, <1>6, <2>1, <2>2 DEF clear, store_name, store_user, Store, Cleared, here
<1>7. CASE store(t)
  <2> DEFINE r == previous[t]
  <2>1. /\ r \in DOMAIN mem /\ mem[r] \in Participant
        /\ mem' = [mem EXCEPT ![r] = [mem[r] EXCEPT !.next_member = held[t]]]
    BY <1>0, <1>7 DEF store
  <2>2. [mem[r] EXCEPT !.next_member = held[t]].freed = mem[r].freed
    BY <2>1 DEF Participant
  <2> QED BY <1>2, <2>1, <2>2
<1>8. CASE free(t)
  <2> DEFINE c == conductor[t]
             p == [mem[c] EXCEPT !.name = None, !.freed = TRUE]
  <2>1. c \in DOMAIN mem /\ mem' = [mem EXCEPT ![c] = p]
    BY <1>8 DEF free, At, Store, here
  <2> HIDE DEF p
  <2>2. DOMAIN mem' = DOMAIN mem /\ \A i \in DOMAIN mem \ {c} : mem'[i] = mem[i]
    BY <1>0, <2>1, Cell
  <2> QED BY <1>8, <2>2
<1>9. \/ first_node(t) \/ append(t) \/ clear(t) \/ store_name(t) \/ store_user(t) \/ store(t)
      \/ free(t) \/ mem' = mem
  BY DEF Acts, JoinStep, ExitStep, ForwardStep, LoginStep, look, compare, next, again, tail,
     advance, reload, read_previous, read_first, find, pass, load, head, sender, status, socket,
     write, reset, onward, log_on, connect, dies, leave, request, roomVars
<1> QED BY <1>1, <1>4, <1>5, <1>6, <1>7, <1>8, <1>9

LEMMA OutsideStep ==
  ASSUME PromiseInv, Outside, NEW t \in Threads, Acts(t), TypeInv'
  PROVE  Outside'
<1>0. TypeInv /\ \A v \in Threads : Writer(v)
  BY DEF PromiseInv, LeftInv, RoomInv
<1>1. \A y \in List' \ List : y \notin DOMAIN mem
  BY ListStep DEF Gentle
<1>2. \A v \in Threads \ {t} : pc'[v] = pc[v] /\ conductor'[v] = conductor[v]
  BY <1>0, Others
<1>3. CASE free(t)
  <2>1. pc[t] = "free" /\ pc'[t] = "idle"
    BY <1>0, <1>3, Moves DEF free, At
  <2>2. conductor[t] \in DOMAIN mem \ List
    BY <1>0, <2>1 DEF Writer
  <2>3. \A v \in Threads \ {t} : pc[v] # "free"
    BY <2>1, Alone DEF Exiting
  <2>4. \A v \in Threads : pc'[v] # "free"
    BY <1>2, <2>1, <2>3
  <2> QED BY <1>0, <1>1, <2>2, <2>4, FreedBy DEF Outside
<1>4. CASE ~free(t)
  <2>1. \A y \in DOMAIN mem' : mem'[y].freed => y \in DOMAIN mem /\ mem[y].freed
    BY <1>0, <1>4, FreedBy
  <2>2. ASSUME NEW v \in Threads, pc'[v] = "free"
        PROVE  conductor'[v] \in DOMAIN mem' /\ ~mem[conductor'[v]].freed
    <3>1. conductor'[v] \in DOMAIN mem'
      BY <2>2, ListStep DEF Writer
    <3>2. CASE v # t
      BY <1>2, <2>2, <3>1, <3>2 DEF Outside
    <3>3. CASE v = t
      <4>1. CASE store(t)
        <5>1. pc[t] = "store" /\ conductor'[t] = conductor[t]
          BY <4>1 DEF store, Before, localVars
        <5>2. conductor[t] \in List /\ List \subseteq DOMAIN mem
          BY <1>0, <5>1, FirstInList DEF Writer
        <5> QED BY <3>1, <3>3, <5>1, <5>2 DEF Outside
      <4>2. CASE pc'[t] = pc[t] /\ conductor'[t] = conductor[t]
        BY <2>2, <3>1, <3>3, <4>2 DEF Outside
      <4>3. store(t) \/ (pc'[t] = pc[t] /\ conductor'[t] = conductor[t])
        <5>1. leave(t) \/ dies(t) => pc'[t] = pc[t] /\ conductor'[t] = conductor[t]
          BY DEF leave, dies, localVars
        <5>2. ExitStep(t) => store(t)
          BY <1>0, <2>2, <3>3, Moves DEF ExitStep, read_previous, read_first, find, pass, load, free,
             Loop
        <5>3. ~JoinStep(t) /\ ~ForwardStep(t)
          BY <1>0, <2>2, <3>3, Course, LabelsApart DEF Exiting
        <5>4. ~LoginStep(t)
          BY <1>0, <2>2, <3>3, Moves DEF LoginStep, log_on, connect, TypeInv, TypeOK
        <5>5. ASSUME NEW o \in Requests[t], request(t, o) PROVE FALSE
          <6>1. o \in Call
            BY BoundsAssumption DEF Call
          <6>2. pc'[t] = Start(o.kind)
            BY <1>0, <5>5 DEF request, TypeInv, TypeOK
          <6> QED BY <2>2, <3>3, <6>1, <6>2 DEF Start, Call
        <5> QED BY <5>1, <5>2, <5>3, <5>4, <5>5 DEF Acts
      <4> QED BY <4>1, <4>2, <4>3
    <3> QED BY <3>2, <3>3
  <2>3. \A v \in Threads : pc'[v] = "free" => ~mem'[conductor'[v]].freed
    BY <2>1, <2>2
  <2>4. \A y \in DOMAIN mem' : mem'[y].freed => y \notin List'
    BY <1>1, <2>1 DEF Outside
  <2> QED BY <2>3, <2>4 DEF Outside
<1> QED BY <1>3, <1>4

\* The server ends only where a forward meets a participant without a user, whose join is
\* not over, or one that has left, or writes to a client that has gone.
LEMMA DiesMaps ==
  ASSUME PromiseInv, Outside, TypeInv', OneWriter', Witness, NEW t \in Threads, dies(t)
  PROVE  Promise!Next
<1> DEFINE c == conductor[t]
<1>0. /\ TypeInv /\ Acts(t) /\ Writer(t) /\ Reader(t) /\ Shape /\ \A w \in Threads : Kind(w)
      /\ Point(t) /\ Kind(t)
  BY DEF PromiseInv, LeftInv, RoomInv, Acts
<1>1. Promise!Witness
  BY <1>0, RoomWitness
<1>2. Members' = Members
  BY <1>0, TheMembers, Elsewhere
<1>3. List \subseteq DOMAIN mem
  BY FirstInList
<1>4. /\ pc[t] \notin Pointless => c \in DOMAIN mem
      /\ pc[t] \notin Pointless \cup Forwarding => ~mem[c].freed
  <2>1. pc[t] \in Joining \cup Filling \cup Exiting \cup Forwarding \cup LoggingIn \cup {"idle"}
    BY <1>0 DEF TypeInv, TypeOK
  <2>2. CASE pc[t] \in Joining \cup Filling
    BY <1>0, <1>3, <2>2 DEF Joining, Filling, Pointless, Writer, Outside
  <2>3. CASE pc[t] \in Exiting
    BY <1>0, <1>3, <2>3 DEF Exiting, Pointless, Writer, Outside
  <2>4. CASE pc[t] \in Forwarding
    BY <1>0, <2>4 DEF Forwarding, Pointless, Reader
  <2> QED BY <2>1, <2>2, <2>3, <2>4 DEF Pointless
<1>5. pc[t] = "store" => previous[t] \in DOMAIN mem
  BY <1>0, <1>3 DEF Writer
<1>6. /\ up /\ up' = FALSE /\ UNCHANGED <<users, nick, gone, pc, op, copies, answer>>
  BY DEF dies, clientVars
<1>7. Online' = Online /\ calling' = calling /\ absent' = absent
  BY <1>6 DEF Online, calling, absent
<1>8. CASE pc[t] \notin Pointless /\ c \in DOMAIN mem /\ mem[c].freed
  <2>1. pc[t] \in Forwarding \ {"head"}
    BY <1>4, <1>8 DEF Pointless
  <2>2. PICK A \in SUBSET DOMAIN mem : Path(A, c, mem) /\ c \in A /\ Ahead(t, A)
    BY <2>1, AtWay
  <2>3. c \notin List /\ Filled(c)
    BY <1>0, <1>8 DEF Outside, Shape, Filled, Unfilled
  <2>4. left[t] # {}
    BY <2>2, <2>3 DEF Ahead
  <2>5. calling[t] # None
    BY <1>0, <2>1, Called, LabelsApart
  <2>6. Promise!Crash(t)
    BY <1>2, <1>6, <1>7, <2>4, <2>5 DEF Promise!Crash, calling, absent
  <2> QED BY <1>1, <2>6 DEF Promise!Next
<1>9. CASE pc[t] = "write" /\ Fails(held[t])
  <2>1. pc[t] \in Forwarding \ {"head"} /\ pc[t] \in Forwarding
    BY <1>9 DEF Forwarding
  <2>2. PICK A \in SUBSET DOMAIN mem : Path(A, c, mem) /\ c \in A /\ Ahead(t, A)
    BY <2>1, AtWay
  <2>3. Filled(c) /\ nick[held[t]] = mem[c].ptr_to_user /\ mem[c].ptr_to_user \in Names
    BY <1>0, <1>9 DEF Reader, Point, Filled, user, here
  <2>4. mem[c].ptr_to_user \in may[t] \cap absent
    BY <1>9, <2>2, <2>3, NoneAssumption DEF Ahead, absent, Fails
  <2>5. calling[t] # None /\ calling[t] = op[t] /\ op[t].kind = "forward"
    BY <1>0, <2>1, Called, LabelsApart DEF Kind
  <2>6. Promise!Crash(t)
    BY <1>2, <1>6, <1>7, <2>4, <2>5 DEF Promise!Crash, calling, absent
  <2> QED BY <1>1, <2>6 DEF Promise!Next
<1>10. CASE pc[t] \in {"status", "socket", "reset"} /\ mem[c].ptr_to_user \notin Names
  <2>1. pc[t] = "status" /\ Unfilled(c)
    BY <1>0, <1>4, <1>10 DEF Reader, Filled, Unfilled, Pointless, LoggingIn
  <2>2. PICK w \in Threads : Builds(w, c)
    BY <1>0, <2>1 DEF Shape, Unfilled
  <2>3. w # t /\ pc[w] \in Joining \cup Filling
    BY <2>1, <2>2 DEF Builds, Joining, Filling
  <2>4. /\ calling[w] = op[w] /\ calling[w] # None /\ op[w].kind = "join"
        /\ calling[t] # None
    <3>1. pc[w] # "idle" /\ pc[t] # "idle" /\ op[w].kind = "join"
      BY <1>0, <2>1, <2>3, LabelsApart DEF Kind
    <3> QED BY <1>0, <3>1, Called
  <2>5. Promise!Crash(t)
    BY <1>2, <1>6, <1>7, <2>3, <2>4 DEF Promise!Crash, calling, absent
  <2> QED BY <1>1, <2>5 DEF Promise!Next
<1> QED BY <1>4, <1>5, <1>8, <1>9, <1>10 DEF dies, here

\* Under one writer, whose membership of the room is not that of the first participant,
\* the linked list keeps the promise of a chat room: a join or an exit takes effect with
\* one store, a message forwarded while others join and exit reaches whoever is a member
\* and logged in all the time, and nobody who is never a member, twice only who has left
\* meanwhile; nobody is logged off of whom no client has gone; and the server ends only
\* in a forward that meets an unfinished join, during which a member leaves, or that
\* writes to a client that has gone (join_chatroom, exit_chatroom and
\* forward_chat_room_data, and the stores of login_user).
THEOREM ListKeepsRoom == OneWriterSpec => ImplementsRoom
<1>1. Init => PromiseInv /\ Outside /\ Promise!Init
  <2> SUFFICES ASSUME Init PROVE PromiseInv /\ Outside /\ Promise!Init
    OBVIOUS
  <2>1. PromiseInv
    BY PromiseInit
  <2>2. Members \in SUBSET Names
    BY <2>1, MembersType DEF PromiseInv, LeftInv, TypeInv, TypeOK
  <2>3. Online \in SUBSET Names
    BY DEF Online
  <2>4. calling = [t \in Threads |-> None]
    BY DEF Init, calling
  <2>5. absent = {}
    BY DEF Init, absent
  <2>6. Promise!Init
    BY <2>2, <2>3, <2>4, <2>5 DEF Init, Promise!Init, calling, absent
  <2>7. Outside
    <3>1. \A y \in DOMAIN mem : ~mem[y].freed
      BY NamesAssumption DEF Init
    <3>2. \A v \in Threads : pc[v] = "idle"
      BY DEF Init
    <3> QED BY <3>1, <3>2 DEF Outside
  <2> QED BY <2>1, <2>6, <2>7
<1>2. PromiseInv /\ Outside /\ [Next /\ OneWriter']_vars
        => PromiseInv' /\ Outside' /\ [Promise!Next]_(Promise!roomVars)
  <2> SUFFICES ASSUME PromiseInv, Outside, [Next /\ OneWriter']_vars
               PROVE  PromiseInv' /\ Outside' /\ [Promise!Next]_(Promise!roomVars)
    OBVIOUS
  <2>1. CASE Next /\ OneWriter'
    <3>1. TypeInv'
      BY <2>1, TypeStep DEF PromiseInv, LeftInv
    <3>2. PICK t \in Threads : Acts(t) /\ Witness
      BY <2>1 DEF Next, Run, Acts
    <3>3. PromiseInv'
      BY <2>1, <3>1, <3>2, PromiseStep
    <3>4. Promise!Next \/ UNCHANGED Promise!roomVars
      BY <2>1, <3>1, <3>2, JoinMaps, ExitMaps, ForwardMaps, CallMaps, DiesMaps DEF Acts
    <3>5. Outside'
      BY <3>1, <3>2, OutsideStep
    <3> QED BY <3>3, <3>4, <3>5
  <2>2. CASE UNCHANGED vars
    <3>1. PromiseInv'
      BY <2>2, PromiseStutter
    <3>2. /\ UNCHANGED <<up, member, mem, users, pc, op, conductor, answer, must, may, came, left>>
          /\ UNCHANGED <<copies, nick, gone>>
      BY <2>2 DEF vars, roomVars, localVars, clientVars
    <3>3. List' = List
      BY <3>2, Quiet
    <3>4. Members' = Members /\ Online' = Online /\ calling' = calling
      BY <3>2, <3>3 DEF Members, Online, calling
    <3>5. UNCHANGED Promise!roomVars
      BY <3>2, <3>4 DEF Promise!roomVars, calling, absent
    <3>6. Outside'
      BY <3>2, <3>3 DEF Outside
    <3> QED BY <3>1, <3>5, <3>6
  <2> QED BY <2>1, <2>2
<1> QED BY <1>1, <1>2, PTL DEF OneWriterSpec, ImplementsRoom, Promise!Spec

===============================================================================
