----------------------------- MODULE UdpChatProofs -----------------------------
(* Proofs about UdpChat: for every number of clients, names, rooms and     *)
(* requests, whatever is lost.                                             *)
EXTENDS UdpChat, FiniteSetTheorems, SequenceTheorems, TLAPS

-------------------------------------------------------------------------------
(* Datagrams                                                               *)

Texts == TextOrNone \ {None}

RequestField == {"proposed_nickname", "password", "sender", "chat_room_name", "receiver",
                 "data_lenght", "data"}

\* A datagram on its way to the server, and one on its way to a client.
RequestDatagram ==
  {d \in [field: RequestField \cup {"id"}, value: RequestId \cup Texts, of: Clients \X (Nat \ {0})] :
     /\ d.field = "id" => d.value \in RequestId
     /\ d.field \notin Number => d.value \in Texts}

AnswerDatagram ==
  [field: {"id", "error_code", "sender", "receiver", "chat_room_name", "data_lenght", "data"},
   value: ResponseId \cup TextId \cup Nat \cup {Garbage}]

NetType ==
  /\ queue \in Seq(RequestDatagram) /\ todo \in [Clients -> Seq(RequestDatagram)]
  /\ inbox \in [Clients -> Seq(AnswerDatagram)]
  /\ stack \in Clients \cup {None} /\ lost \in 0 .. MaxLost

ClientType ==
  /\ phase \in [Clients -> {"prompt", "asking", "in", "ended"}]
  /\ nick \in [Clients -> Names \cup {None}]
  /\ \A c \in Clients : phase[c] # "prompt" => nick[c] # None
  /\ asked \in [Clients -> Nat] /\ \A c \in Clients : asked[c] <= MaxRequests[c]

\* The fields of each request: two or four names, lengths and texts, or none, the same
\* for both sides (sendto_universal_india_message, recvfrom_universal_india_message).
LEMMA RequestForms ==
  ASSUME NEW id \in RequestId
  PROVE  /\ SentRequest(id) = ReadRequest(id)
         /\ id = "REGISTER_USER" => ReadRequest(id) = <<"proposed_nickname", "password">>
         /\ id = "LOGIN" => ReadRequest(id) = <<"sender", "password">>
         /\ id \in RoomId => ReadRequest(id) = <<"sender", "chat_room_name">>
         /\ id = "PRIVATE_DATA" => ReadRequest(id) = <<"sender", "receiver", "data_lenght", "data">>
         /\ id = "CHAT_ROOM_DATA" =>
              ReadRequest(id) = <<"sender", "chat_room_name", "data_lenght", "data">>
         /\ id \in ListId => ReadRequest(id) = <<>>
BY DEF SentRequest, ReadRequest, RoomId, ListId, TextId, TextFields, RequestId

LEMMA RequestFields ==
  ASSUME NEW id \in RequestId
  PROVE  /\ ReadRequest(id) \in Seq(RequestField) /\ Len(ReadRequest(id)) \in {0, 2, 4}
         /\ \A i, j \in 1 .. Len(ReadRequest(id)) : ReadRequest(id)[i] = ReadRequest(id)[j] => i = j
         /\ Len(ReadRequest(id)) = 4 => ReadRequest(id)[3] = "data_lenght"
         /\ Len(ReadRequest(id)) = 2 => "data_lenght" \notin {ReadRequest(id)[1], ReadRequest(id)[2]}
<1> USE DEF RequestField
<1> DEFINE r == ReadRequest(id)
<1>1. CASE r = <<"proposed_nickname", "password">>
  BY <1>1
<1>2. CASE r = <<"sender", "password">>
  BY <1>2
<1>3. CASE r = <<"sender", "chat_room_name">>
  BY <1>3
<1>4. CASE r = <<>>
  BY <1>4
<1>5. CASE r = <<"sender", "receiver", "data_lenght", "data">>
  BY <1>5
<1>6. CASE r = <<"sender", "chat_room_name", "data_lenght", "data">>
  BY <1>6
<1>7. \/ id = "REGISTER_USER" \/ id = "LOGIN" \/ id \in RoomId \/ id = "PRIVATE_DATA"
      \/ id = "CHAT_ROOM_DATA" \/ id \in ListId
  BY DEF RequestId, TextId
<1> QED BY <1>1, <1>2, <1>3, <1>4, <1>5, <1>6, <1>7, RequestForms

\* The datagrams of a request are of their type.
LEMMA DatagramsType ==
  ASSUME ClientType, NEW c \in Clients, NEW id \in RequestId, NEW n \in Names,
         NEW pw, NEW r, NEW to, id \in {"REGISTER_USER", "LOGIN"} => pw \in Passwords,
         id \in RoomId \cup TextId => r \in Rooms /\ to \in Names
  PROVE  /\ Datagrams(c, id, n, pw, r, to) \in Seq(RequestDatagram)
         /\ Len(Datagrams(c, id, n, pw, r, to)) = Len(ReadRequest(id)) + 1
<1> DEFINE D == Datagrams(c, id, n, pw, r, to)
           L == Len(SentRequest(id)) + 1
<1>1. L \in Nat /\ L = Len(ReadRequest(id)) + 1
  BY RequestFields, RequestForms
<1>2. ASSUME NEW i \in 1 .. L PROVE D[i] \in RequestDatagram
  <2> DEFINE f == IF i = 1 THEN "id" ELSE SentRequest(id)[i - 1]
             v == IF i = 1 THEN id ELSE Says(id, f, n, pw, r, to)
  <2>1. D[i] = [field |-> f, value |-> v, of |-> <<c, asked[c] + 1>>]
    BY <1>2 DEF Datagrams
  <2>2. f \in RequestField \cup {"id"} /\ (f = "id" <=> i = 1)
    BY <1>1, RequestFields, RequestForms DEF RequestField
  <2>3. n \in Texts /\ Garbage \in Texts /\ Passwords \subseteq Texts /\ Rooms \subseteq Texts
        /\ Names \subseteq Texts
    BY UdpNoneAssumption DEF Texts, TextOrNone
  <2>4. CASE i = 1
    BY <2>1, <2>2, <2>4 DEF RequestDatagram, Number, ClientType
  <2>5. CASE i # 1
    <3>1. i - 1 \in 1 .. Len(SentRequest(id)) /\ f = SentRequest(id)[i - 1]
      BY <1>1, <2>5
    <3>2. /\ f = "password" => pw \in Passwords
          /\ f = "chat_room_name" => r \in Rooms
          /\ f = "receiver" => to \in Names
      <4> DEFINE s == ReadRequest(id)
      <4>1. f = s[i - 1] /\ i - 1 \in 1 .. Len(s)
        BY <3>1, RequestForms
      <4> HIDE DEF f
      <4>2. CASE id \in {"REGISTER_USER", "LOGIN"}
        <5>1. (s = <<"proposed_nickname", "password">> \/ s = <<"sender", "password">>)
              /\ pw \in Passwords
          BY <4>2, RequestForms
        <5> HIDE DEF s
        <5>2. CASE s = <<"proposed_nickname", "password">>
          <6>1. f \in {"proposed_nickname", "password"}
            BY <4>1, <5>2
          <6> QED BY <5>1, <6>1
        <5>3. CASE s = <<"sender", "password">>
          <6>1. f \in {"sender", "password"}
            BY <4>1, <5>3
          <6> QED BY <5>1, <6>1
        <5> QED BY <5>1, <5>2, <5>3
      <4>3. CASE id \in RoomId \cup TextId
        <5>1. /\ \/ s = <<"sender", "chat_room_name">>
                 \/ s = <<"sender", "receiver", "data_lenght", "data">>
                 \/ s = <<"sender", "chat_room_name", "data_lenght", "data">>
              /\ r \in Rooms /\ to \in Names
          BY <4>3, RequestForms DEF TextId
        <5> HIDE DEF s
        <5>2. f \in {"sender", "chat_room_name", "receiver", "data_lenght", "data"}
          <6>1. CASE s = <<"sender", "chat_room_name">>
            BY <4>1, <6>1
          <6>2. CASE s = <<"sender", "receiver", "data_lenght", "data">>
            BY <4>1, <6>2
          <6>3. CASE s = <<"sender", "chat_room_name", "data_lenght", "data">>
            BY <4>1, <6>3
          <6> QED BY <5>1, <6>1, <6>2, <6>3
        <5> QED BY <5>1, <5>2
      <4>4. CASE id \in ListId
        BY <4>1, <4>4, RequestForms
      <4> QED BY <4>2, <4>3, <4>4 DEF RequestId
    <3>3. v \in Texts
      BY <2>3, <2>5, <3>2 DEF Says
    <3> QED BY <2>1, <2>2, <2>5, <3>3 DEF RequestDatagram, ClientType
  <2> QED BY <2>4, <2>5
<1>3. D = [i \in 1 .. L |-> D[i]]
  BY DEF Datagrams
<1> HIDE DEF D, L
<1> QED BY <1>1, <1>2, <1>3 DEF D

\* So are those of an answer; a text is five.
LEMMA AnswerDatagrams ==
  ASSUME NEW id \in ResponseId \cup TextId, NEW err \in Nat, NEW empty \in BOOLEAN,
         NEW readable \in BOOLEAN
  PROVE  /\ Answer(id, err, empty, readable) \in Seq(AnswerDatagram)
         /\ id \in TextId /\ readable => Len(Answer(id, err, empty, readable)) = 5
<1> DEFINE F == {"error_code", "sender", "receiver", "chat_room_name", "data_lenght", "data"}
           fields == SentAnswer(id, empty)
           sent == IF readable THEN fields ELSE SubSeq(fields, 1, Len(fields) - 1)
           rest == [i \in DOMAIN sent |-> [field |-> sent[i],
                                           value |-> IF sent[i] = "error_code" THEN err ELSE Garbage]]
<1>1. fields \in Seq(F) /\ Len(fields) \in {1, 3, 4} /\ (id \in TextId => Len(fields) = 4)
  <2>0. \/ fields = <<"error_code", "data_lenght", "data">> /\ id \notin TextId
        \/ fields = <<"error_code">> /\ id \notin TextId
        \/ fields = <<"sender", "receiver", "data_lenght", "data">>
        \/ fields = <<"sender", "chat_room_name", "data_lenght", "data">>
    <3>1. CASE id \in TextId
      <4>1. fields = TextFields(id)
        BY <3>1 DEF SentAnswer
      <4>2. CASE id = "PRIVATE_DATA"
        BY <4>1, <4>2 DEF TextFields
      <4>3. CASE id # "PRIVATE_DATA"
        BY <4>1, <4>3 DEF TextFields
      <4> QED BY <4>2, <4>3
    <3>2. CASE id \notin TextId
      BY <3>2 DEF SentAnswer
    <3> QED BY <3>1, <3>2
  <2> HIDE DEF fields
  <2>1. CASE fields = <<"error_code", "data_lenght", "data">> /\ id \notin TextId
    BY <2>1
  <2>2. CASE fields = <<"error_code">> /\ id \notin TextId
    BY <2>2
  <2>3. CASE fields = <<"sender", "receiver", "data_lenght", "data">>
    BY <2>3
  <2>4. CASE fields = <<"sender", "chat_room_name", "data_lenght", "data">>
    BY <2>4
  <2> QED BY <2>0, <2>1, <2>2, <2>3, <2>4
<1>2. sent \in Seq(F) /\ (readable => sent = fields)
  BY <1>1
<1> HIDE DEF fields, sent
<1>3. rest \in Seq(AnswerDatagram) /\ Len(rest) = Len(sent)
  <2>1. \A i \in DOMAIN sent :
          [field |-> sent[i], value |-> IF sent[i] = "error_code" THEN err ELSE Garbage]
            \in AnswerDatagram
    BY <1>2 DEF AnswerDatagram
  <2>2. DOMAIN sent = 1 .. Len(sent) /\ Len(sent) \in Nat
    BY <1>2
  <2>3. rest \in [1 .. Len(sent) -> AnswerDatagram]
    BY <2>1, <2>2
  <2> HIDE DEF rest
  <2> QED BY <2>2, <2>3, SeqDef, LenProperties
<1>4. [field |-> "id", value |-> id] \in AnswerDatagram
  BY DEF AnswerDatagram
<1>5. Answer(id, err, empty, readable) = <<[field |-> "id", value |-> id]>> \o rest
  BY DEF Answer, fields, sent
<1> HIDE DEF rest
<1>6. \A h \in AnswerDatagram, q \in Seq(AnswerDatagram) :
        <<h>> \o q \in Seq(AnswerDatagram) /\ Len(<<h>> \o q) = 1 + Len(q)
  <2> TAKE h \in AnswerDatagram, q \in Seq(AnswerDatagram)
  <2>1. <<h>> \in Seq(AnswerDatagram) /\ Len(<<h>>) = 1
    OBVIOUS
  <2> QED BY <2>1, ConcatProperties
<1>7. Answer(id, err, empty, readable) \in Seq(AnswerDatagram)
      /\ Len(Answer(id, err, empty, readable)) = 1 + Len(sent)
  BY <1>3, <1>4, <1>5, <1>6
<1>8. ASSUME id \in TextId, readable PROVE 1 + Len(sent) = 5
  <2>1. sent = fields
    BY <1>2, <1>8, Zenon
  <2>2. Len(fields) = 4
    BY <1>1, <1>8, Zenon
  <2> QED BY <2>1, <2>2
<1>9. id \in TextId /\ readable => 1 + Len(sent) = 5
  BY <1>8, Zenon
<1> HIDE DEF F, sent
<1> QED BY <1>7, <1>9, Zenon

-------------------------------------------------------------------------------
(* The lists                                                               *)

UdpUser == [name: Texts, pw: TextOrNone, login: {0, 1}, connfd: {0}, in_address: Clients \cup {None}]
UdpRoom == [name: TextOrNone, member: Cells \cup {None}]
UdpParticipant == [state: {"unused", "live", "freed"}, name: TextOrNone, ptr_to_user: Nat,
                   next_member: Cells \cup {None}]

\* Chunks that have been handed out by malloc.
Used == {x \in Cells : heap[x].state # "unused"}

\* Names are told apart.
UsersInv ==
  /\ users \in Seq(UdpUser)
  /\ \A i, j \in DOMAIN users : users[i].name = users[j].name => i = j

RoomsInv ==
  /\ rooms \in Seq(UdpRoom)
  /\ \A k \in DOMAIN rooms : rooms[k].member \in Used \cup {None}
  /\ \A i, j \in DOMAIN rooms : rooms[i].name = rooms[j].name => i = j

HeapInv ==
  /\ heap \in [Cells -> UdpParticipant]
  /\ \A x \in Used : heap[x].next_member \in Used \cup {None} /\ heap[x].ptr_to_user \in DOMAIN users
  /\ S!OwnerConsistent

ListsInv == UsersInv /\ RoomsInv /\ HeapInv

\* What [users EXCEPT ![i] = ...] and its like yield.
LEMMA SameDomainSeq ==
  ASSUME NEW T, NEW s \in Seq(T), NEW f \in [DOMAIN s -> T]
  PROVE  f \in Seq(T) /\ Len(f) = Len(s)
<1>1. DOMAIN s = 1 .. Len(s) /\ Len(s) \in Nat
  OBVIOUS
<1>2. f \in [1 .. Len(s) -> T]
  BY <1>1
<1> QED BY <1>1, <1>2, SeqDef, LenProperties

\* A walk along next_member stays with the chunks that were handed out.
LEMMA ChainUsed ==
  ASSUME HeapInv, NEW h \in Used \cup {None}
  PROVE  S!Chain(h) \subseteq Used
<1>1. Used \in SUBSET Cells
  BY DEF Used
<1>2. S!Closed(Used)
  BY DEF S!Closed, HeapInv
<1>3. h \in Used \cup {None}
  OBVIOUS
<1> QED BY <1>1, <1>2, <1>3 DEF S!Chain

\* Users are added behind the others, and what is known of them changes, never the name.
LEMMA UsersChange ==
  ASSUME ListsInv, UNCHANGED <<rooms, heap>>,
         users' \in Seq(UdpUser), Len(users) <= Len(users'),
         \A i \in DOMAIN users : users'[i].name = users[i].name,
         \A i, j \in DOMAIN users' : users'[i].name = users'[j].name => i = j
  PROVE  ListsInv'
<1>1. DOMAIN users \subseteq DOMAIN users'
  BY DEF ListsInv, UsersInv
<1>2. UsersInv'
  BY DEF UsersInv
<1>3. Used' = Used
  BY DEF Used
<1>4. RoomsInv'
  BY <1>3 DEF ListsInv, RoomsInv
<1>5. S!OwnerConsistent'
  BY <1>1 DEF ListsInv, HeapInv, S!OwnerConsistent
<1>6. HeapInv'
  BY <1>1, <1>3, <1>5 DEF ListsInv, HeapInv
<1> QED BY <1>2, <1>4, <1>6 DEF ListsInv

\* What a message gives the handlers.
Read(m) ==
  /\ m.id \in RequestId
  /\ \A f \in {"proposed_nickname", "password", "sender", "chat_room_name", "receiver"} :
       m[f] \in TextOrNone
  /\ m.id = "REGISTER_USER" => m["proposed_nickname"] # None

\* A new user has a name nobody has (register_user).
LEMMA RegisterLists ==
  ASSUME ListsInv, stack \in Clients \cup {None},
         NEW m, Read(m), register_user(m)
  PROVE  ListsInv'
<1>1. CASE users' = users
  BY <1>1, UsersChange DEF register_user, ListsInv, UsersInv
<1>2. CASE ~S!NameInUse(m.proposed_nickname) /\ users' # users
  <2> DEFINE u == [name |-> m.proposed_nickname, pw |-> m.password, login |-> 1, connfd |-> 0,
                   in_address |-> InAddress]
  <2>1. users' = Append(users, u) /\ UNCHANGED <<rooms, heap>>
    BY <1>2 DEF register_user
  <2>2. u \in UdpUser
    BY DEF UdpUser, Read, register_user, InAddress, Texts
  <2>3. u.name = m.proposed_nickname
    OBVIOUS
  <2> HIDE DEF u
  <2>4. users \in Seq(UdpUser)
    BY DEF ListsInv, UsersInv
  <2>5. /\ users' \in Seq(UdpUser) /\ Len(users') = Len(users) + 1
        /\ \A i \in DOMAIN users : users'[i] = users[i]
        /\ users'[Len(users) + 1] = u
    BY <2>1, <2>2, <2>4
  <2>6. DOMAIN users' = DOMAIN users \cup {Len(users) + 1}
    BY <2>4, <2>5
  <2>7. \A i \in DOMAIN users : users[i].name # u.name
    BY <1>2, <2>3 DEF S!NameInUse, S!Listed
  <2>8. \A i, j \in DOMAIN users' : users'[i].name = users'[j].name => i = j
    BY <2>5, <2>6, <2>7 DEF ListsInv, UsersInv
  <2>9. Len(users) <= Len(users')
    BY <2>4, <2>5
  <2> QED BY <2>1, <2>5, <2>8, <2>9, UsersChange
<1> QED BY <1>1, <1>2 DEF register_user

\* A login changes what is known of a user (login_user).
LEMMA LoginLists ==
  ASSUME ListsInv, stack \in Clients \cup {None},
         NEW m, login_user(m)
  PROVE  ListsInv'
<1>1. CASE users' = users
  BY <1>1, UsersChange DEF login_user, ListsInv, UsersInv
<1>2. ASSUME NEW i \in S!FirstWithin(m.sender),
             users' = [users EXCEPT ![i] = [S!LoggedIn(i, 0) EXCEPT !.in_address = InAddress]]
      PROVE  ListsInv'
  <2> DEFINE u == [S!LoggedIn(i, 0) EXCEPT !.in_address = InAddress]
  <2>1. users \in Seq(UdpUser) /\ i \in DOMAIN users
    BY DEF ListsInv, UsersInv, S!FirstWithin, S!First
  <2>2. users[i] \in UdpUser
    BY <2>1
  <2>3. u \in UdpUser /\ u.name = users[i].name
    BY <2>2 DEF UdpUser, S!LoggedIn, InAddress
  <2> HIDE DEF u
  <2>4. users' \in [DOMAIN users -> UdpUser]
    BY <1>2, <2>1, <2>3 DEF u
  <2>5. users' \in Seq(UdpUser) /\ Len(users') = Len(users) /\ DOMAIN users' = DOMAIN users
    BY <2>1, <2>4, SameDomainSeq
  <2>6. \A j \in DOMAIN users : users'[j].name = users[j].name
    <3>1. users' = [users EXCEPT ![i] = u]
      BY <1>2 DEF u
    <3> QED BY <2>1, <2>3, <3>1 DEF ListsInv, UsersInv
  <2>7. Len(users) <= Len(users')
    BY <2>1, <2>5
  <2>8. \A j, l \in DOMAIN users' : users'[j].name = users'[l].name => j = l
    BY <2>5, <2>6 DEF ListsInv, UsersInv
  <2> QED BY <2>5, <2>6, <2>7, <2>8, UsersChange DEF login_user
<1> QED BY <1>1, <1>2 DEF login_user

\* A new room has a name no room has, and no member (create_chat_room).
LEMMA CreateLists ==
  ASSUME ListsInv, NEW m, Read(m), create_chat_room(m)
  PROVE  ListsInv'
<1>1. Used' = Used /\ UsersInv' /\ HeapInv'
  BY DEF create_chat_room, ListsInv, Used, UsersInv, HeapInv, S!OwnerConsistent
<1>2. CASE rooms' = rooms
  BY <1>1, <1>2 DEF ListsInv, RoomsInv
<1>3. CASE ~S!Listed(rooms, m.chat_room_name) /\ rooms' # rooms
  <2> DEFINE r == [name |-> m.chat_room_name, member |-> None]
  <2>1. rooms' = Append(rooms, r)
    BY <1>3 DEF create_chat_room
  <2>2. r \in UdpRoom /\ r.member = None /\ r.name = m.chat_room_name
    BY DEF UdpRoom, Read
  <2> HIDE DEF r
  <2>3. rooms \in Seq(UdpRoom)
    BY DEF ListsInv, RoomsInv
  <2>4. /\ rooms' \in Seq(UdpRoom)
        /\ \A k \in DOMAIN rooms : rooms'[k] = rooms[k]
        /\ rooms'[Len(rooms) + 1] = r
        /\ DOMAIN rooms' = DOMAIN rooms \cup {Len(rooms) + 1}
    BY <2>1, <2>2, <2>3
  <2>5. \A k \in DOMAIN rooms : rooms[k].name # r.name
    BY <1>3, <2>2 DEF S!Listed
  <2>6. RoomsInv'
    BY <1>1, <2>2, <2>4, <2>5 DEF ListsInv, RoomsInv
  <2> QED BY <1>1, <2>6 DEF ListsInv
<1> QED BY <1>2, <1>3 DEF create_chat_room

\* A chunk handed out becomes a participant of its user, at the end of the list
\* (join_chatroom).
LEMMA JoinLists ==
  ASSUME ListsInv, NEW m, Read(m), join_chatroom(m)
  PROVE  ListsInv'
<1>1. users' = users /\ UsersInv'
  BY DEF join_chatroom, ListsInv, UsersInv
<1>2. CASE UNCHANGED <<rooms, heap>>
  <2>1. Used' = Used
    BY <1>2 DEF Used
  <2> QED BY <1>1, <1>2, <2>1 DEF ListsInv, RoomsInv, HeapInv, S!OwnerConsistent
<1>3. ASSUME NEW i \in S!FirstWithin(m.sender), NEW k \in S!First(rooms, m.chat_room_name),
             NEW x \in S!Allocatable, S!AddMember(k, m.sender, i, x)
      PROVE  ListsInv'
  <2> DEFINE p == S!NewParticipant(m.sender, i)
  <2>1. i \in DOMAIN users /\ users[i].name = m.sender /\ i \in Nat
    BY DEF S!FirstWithin, S!First, ListsInv, UsersInv
  <2>2. k \in DOMAIN rooms /\ rooms[k] \in UdpRoom
    BY DEF S!First, ListsInv, RoomsInv
  <2>3. x \in Cells
    BY DEF S!Allocatable
  <2>4. /\ p \in UdpParticipant /\ p.state = "live" /\ p.name = m.sender /\ p.ptr_to_user = i
        /\ p.next_member = None
    BY <2>1 DEF S!NewParticipant, UdpParticipant, Read
  <2> HIDE DEF p
  <2>5. CASE /\ rooms' = [rooms EXCEPT ![k].member = x]
             /\ heap' = [heap EXCEPT ![x] = p]
    <3>1. /\ heap' \in [Cells -> UdpParticipant] /\ heap'[x] = p
          /\ \A y \in Cells \ {x} : heap'[y] = heap[y]
      BY <2>3, <2>4, <2>5 DEF ListsInv, HeapInv
    <3>2. Used' = Used \cup {x}
      BY <2>3, <2>4, <3>1 DEF Used
    <3>3. HeapInv'
      BY <1>1, <2>1, <2>4, <3>1, <3>2 DEF ListsInv, HeapInv, S!OwnerConsistent, Used
    <3>4. /\ rooms' \in Seq(UdpRoom) /\ DOMAIN rooms' = DOMAIN rooms
          /\ \A j \in DOMAIN rooms : rooms'[j].name = rooms[j].name
          /\ \A j \in DOMAIN rooms : rooms'[j].member \in {rooms[j].member, x}
      <4> DEFINE r == [rooms[k] EXCEPT !.member = x]
      <4>1. r \in UdpRoom /\ r.name = rooms[k].name /\ r.member = x
        BY <2>2, <2>3 DEF UdpRoom
      <4>2. rooms' = [rooms EXCEPT ![k] = r]
        BY <2>5
      <4> HIDE DEF r
      <4>3. rooms' \in [DOMAIN rooms -> UdpRoom]
        <5>1. rooms \in [DOMAIN rooms -> UdpRoom]
          BY DEF ListsInv, RoomsInv
        <5> QED BY <4>1, <4>2, <5>1
      <4>4. rooms' \in Seq(UdpRoom)
        BY <4>3, SameDomainSeq DEF ListsInv, RoomsInv
      <4> QED BY <2>2, <4>1, <4>2, <4>4
    <3>5. RoomsInv'
      BY <3>2, <3>4 DEF ListsInv, RoomsInv
    <3> QED BY <1>1, <3>3, <3>5 DEF ListsInv
  <2>6. ASSUME NEW t \in S!Chain(rooms[k].member), heap[t].next_member = None,
               heap' = [heap EXCEPT ![t].next_member = x, ![x] = p], UNCHANGED rooms
        PROVE  ListsInv'
    <3>1. rooms[k].member \in Used \cup {None}
      BY <2>2 DEF ListsInv, RoomsInv
    <3>2. t \in Used
      BY <3>1, ChainUsed DEF ListsInv
    <3>3. t \in Cells /\ heap[t] \in UdpParticipant
      BY <3>2 DEF Used, ListsInv, HeapInv
    <3> DEFINE q == [heap[t] EXCEPT !.next_member = x]
    <3>4. /\ q \in UdpParticipant /\ q.state = heap[t].state /\ q.name = heap[t].name
          /\ q.ptr_to_user = heap[t].ptr_to_user /\ q.next_member = x
      BY <2>3, <3>3 DEF UdpParticipant
    <3>5. heap' = [[heap EXCEPT ![t] = q] EXCEPT ![x] = p]
      BY <2>6, <3>3
    <3> HIDE DEF q
    <3>6. /\ heap' \in [Cells -> UdpParticipant] /\ heap'[x] = p
          /\ x # t => heap'[t] = q
          /\ \A y \in Cells \ {x, t} : heap'[y] = heap[y]
      BY <2>3, <2>4, <3>3, <3>4, <3>5 DEF ListsInv, HeapInv
    <3>7. Used' = Used \cup {x}
      BY <2>3, <2>4, <3>2, <3>4, <3>6 DEF Used
    <3>8. \A y \in Used' : /\ heap'[y].next_member \in Used' \cup {None}
                           /\ heap'[y].ptr_to_user \in DOMAIN users'
      <4> TAKE y \in Used'
      <4>1. CASE y = x
        BY <1>1, <2>1, <2>4, <3>6, <4>1
      <4>2. CASE y = t /\ y # x
        BY <1>1, <3>2, <3>4, <3>6, <3>7, <4>2 DEF ListsInv, HeapInv
      <4>3. CASE y \notin {x, t}
        BY <1>1, <3>6, <3>7, <4>3 DEF ListsInv, HeapInv, Used
      <4> QED BY <4>1, <4>2, <4>3
    <3>9. S!OwnerConsistent'
      <4> SUFFICES ASSUME NEW y \in Cells, heap'[y].state = "live"
                   PROVE  heap'[y].ptr_to_user \in DOMAIN users
                          /\ users[heap'[y].ptr_to_user].name = heap'[y].name
        BY <1>1 DEF S!OwnerConsistent
      <4>1. CASE y = x
        BY <2>1, <2>4, <3>6, <4>1
      <4>2. CASE y = t /\ y # x
        BY <3>4, <3>3, <3>6, <4>2 DEF ListsInv, HeapInv, S!OwnerConsistent
      <4>3. CASE y \notin {x, t}
        BY <3>6, <4>3 DEF ListsInv, HeapInv, S!OwnerConsistent
      <4> QED BY <4>1, <4>2, <4>3
    <3>10. RoomsInv'
      BY <2>6, <3>7 DEF ListsInv, RoomsInv
    <3> QED BY <1>1, <3>6, <3>8, <3>9, <3>10 DEF ListsInv, HeapInv
  <2> QED BY <1>3, <2>5, <2>6 DEF S!AddMember, p
<1> QED BY <1>2, <1>3 DEF join_chatroom

\* A chunk that is freed keeps its pointers, which the one before it takes over
\* (exit_chatroom).
LEMMA ExitLists ==
  ASSUME ListsInv, NEW m, Read(m), exit_chatroom(m)
  PROVE  ListsInv'
<1>1. users' = users /\ rooms' = rooms /\ UsersInv'
  BY DEF exit_chatroom, ListsInv, UsersInv
<1>2. CASE heap' = heap
  <2>1. Used' = Used
    BY <1>2 DEF Used
  <2> QED BY <1>1, <1>2, <2>1 DEF ListsInv, RoomsInv, HeapInv, S!OwnerConsistent
<1>3. ASSUME NEW k \in S!First(rooms, m.chat_room_name),
             NEW x \in S!Found(rooms[k].member, m.sender), NEW p \in S!Chain(rooms[k].member),
             S!RemoveMember(p, x)
      PROVE  ListsInv'
  <2>1. rooms[k].member \in Used \cup {None}
    BY DEF S!First, ListsInv, RoomsInv
  <2>2. p \in Used /\ x \in Used
    BY <2>1, ChainUsed DEF S!Found, ListsInv
  <2>3. p \in Cells /\ x \in Cells /\ heap[p] \in UdpParticipant /\ heap[x] \in UdpParticipant
    BY <2>2 DEF Used, ListsInv, HeapInv
  <2> DEFINE q == [heap[p] EXCEPT !.next_member = heap[x].next_member]
             g == [heap EXCEPT ![p] = q]
             d == [g[x] EXCEPT !.state = "freed", !.name = None]
  <2>4. /\ q \in UdpParticipant /\ q.state = heap[p].state /\ q.name = heap[p].name
        /\ q.ptr_to_user = heap[p].ptr_to_user /\ q.next_member = heap[x].next_member
    BY <2>3 DEF UdpParticipant
  <2>5. heap' = [g EXCEPT ![x] = d]
    BY <1>3, <2>3 DEF S!RemoveMember
  <2> HIDE DEF q
  <2>6. g[x] \in UdpParticipant /\ g[x].ptr_to_user = heap[x].ptr_to_user
        /\ g[x].next_member = heap[x].next_member
    BY <2>3, <2>4 DEF ListsInv, HeapInv
  <2>7. /\ d \in UdpParticipant /\ d.state = "freed" /\ d.ptr_to_user = heap[x].ptr_to_user
        /\ d.next_member = heap[x].next_member
    BY <2>6 DEF UdpParticipant, TextOrNone
  <2> HIDE DEF d
  <2>8. /\ heap' \in [Cells -> UdpParticipant] /\ heap'[x] = d
        /\ x # p => heap'[p] = q
        /\ \A y \in Cells \ {x, p} : heap'[y] = heap[y]
    BY <2>3, <2>4, <2>5, <2>7 DEF ListsInv, HeapInv
  <2>9. Used' = Used
    BY <2>2, <2>3, <2>4, <2>7, <2>8 DEF Used
  <2>10. \A y \in Used : /\ heap'[y].next_member \in Used \cup {None}
                         /\ heap'[y].ptr_to_user \in DOMAIN users
    <3> TAKE y \in Used
    <3>1. CASE y = x
      BY <2>2, <2>7, <2>8, <3>1 DEF ListsInv, HeapInv
    <3>2. CASE y = p /\ y # x
      BY <2>2, <2>4, <2>8, <3>2 DEF ListsInv, HeapInv
    <3>3. CASE y \notin {x, p}
      BY <2>8, <3>3 DEF ListsInv, HeapInv, Used
    <3> QED BY <3>1, <3>2, <3>3
  <2>11. S!OwnerConsistent'
    <3> SUFFICES ASSUME NEW y \in Cells, heap'[y].state = "live"
                 PROVE  heap'[y].ptr_to_user \in DOMAIN users
                        /\ users[heap'[y].ptr_to_user].name = heap'[y].name
      BY <1>1 DEF S!OwnerConsistent
    <3>1. y # x
      BY <2>7, <2>8
    <3>2. CASE y = p
      BY <2>3, <2>4, <2>8, <3>1, <3>2 DEF ListsInv, HeapInv, S!OwnerConsistent
    <3>3. CASE y # p
      BY <2>8, <3>1, <3>3 DEF ListsInv, HeapInv, S!OwnerConsistent
    <3> QED BY <3>2, <3>3
  <2>12. RoomsInv'
    BY <1>1, <2>9 DEF ListsInv, RoomsInv
  <2> QED BY <1>1, <2>8, <2>9, <2>10, <2>11, <2>12 DEF ListsInv, HeapInv
<1> QED BY <1>2, <1>3 DEF exit_chatroom

\* Texts to a room change no more than who is logged in (forward_chat_room_data).
LEMMA ForwardLists ==
  ASSUME ListsInv, NEW m, forward_chat_room_data(m)
  PROVE  ListsInv'
<1>1. CASE users' = users
  BY <1>1, UsersChange DEF forward_chat_room_data, ListsInv, UsersInv
<1>2. ASSUME NEW to, users' = [i \in DOMAIN users |->
                                IF i \in to /\ Failed(i)
                                THEN [users[i] EXCEPT !.login = 0] ELSE users[i]]
      PROVE  ListsInv'
  <2>1. users \in Seq(UdpUser) /\ \A i \in DOMAIN users : users[i] \in UdpUser
    BY DEF ListsInv, UsersInv
  <2>2. \A u \in UdpUser : LET v == [u EXCEPT !.login = 0] IN
          v \in UdpUser /\ v.name = u.name
    BY DEF UdpUser
  <2>3. \A i \in DOMAIN users : /\ users'[i] \in UdpUser /\ users'[i].name = users[i].name
    BY <1>2, <2>1, <2>2
  <2>4. users' = [i \in DOMAIN users |-> users'[i]]
    BY <1>2
  <2>5. users' \in [DOMAIN users -> UdpUser] /\ DOMAIN users' = DOMAIN users
    BY <2>3, <2>4
  <2>6. users' \in Seq(UdpUser) /\ Len(users') = Len(users)
    BY <2>1, <2>5, SameDomainSeq
  <2>7. Len(users) <= Len(users')
    BY <2>1, <2>6
  <2>8. \A i, j \in DOMAIN users' : users'[i].name = users'[j].name => i = j
    BY <2>3, <2>5 DEF ListsInv, UsersInv
  <2> QED BY <2>3, <2>6, <2>7, <2>8, UsersChange DEF forward_chat_room_data
<1> QED BY <1>1, <1>2 DEF forward_chat_room_data

\* No handler damages the lists.
LEMMA HandlersKeepLists ==
  ASSUME ListsInv, stack \in Clients \cup {None}, NEW m, Read(m),
         handle_clients(m)
  PROVE  ListsInv'
<1>1. CASE show_users(m) \/ show_chat_rooms(m) \/ forward_private_data(m)
  <2>1. UNCHANGED <<users, rooms, heap>>
    BY <1>1 DEF show_users, show_chat_rooms, forward_private_data, listVars
  <2> QED BY <2>1, UsersChange DEF ListsInv, UsersInv
<1> QED BY <1>1, RegisterLists, LoginLists, CreateLists, JoinLists, ExitLists, ForwardLists
        DEF handle_clients

-------------------------------------------------------------------------------
(* What is written to the clients                                          *)

\* SentTo appends datagrams to the inbox of its client, if there is one.
LEMMA SentType ==
  ASSUME inbox \in [Clients -> Seq(AnswerDatagram)], NEW ds \in Seq(AnswerDatagram),
         NEW c \in Clients \cup {None}, SentTo(c, ds)
  PROVE  inbox' \in [Clients -> Seq(AnswerDatagram)]
<1>1. CASE c = None
  BY <1>1 DEF SentTo
<1>2. CASE c # None
  <2>1. c \in Clients /\ inbox[c] \o ds \in Seq(AnswerDatagram)
    BY <1>2, ConcatProperties
  <2> QED BY <1>2, <2>1 DEF SentTo
<1> QED BY <1>1, <1>2

LEMMA ReplyType ==
  ASSUME inbox \in [Clients -> Seq(AnswerDatagram)], stack \in Clients \cup {None},
         NEW id \in RequestId \ TextId, NEW err \in Nat, Reply(id, err)
  PROVE  inbox' \in [Clients -> Seq(AnswerDatagram)]
<1>1. ResponseTo(id) \in ResponseId
  BY DEF ResponseId
<1>2. Answer(ResponseTo(id), err, TRUE, TRUE) \in Seq(AnswerDatagram)
  BY <1>1, AnswerDatagrams
<1> QED BY <1>2, SentType DEF Reply, InAddress

\* The datagrams of a text, some number of times.
LEMMA RepeatedType ==
  ASSUME NEW T, NEW ds \in Seq(T), NEW n \in Nat
  PROVE  Repeated(ds, n) \in Seq(T)
<1> DEFINE L == Len(ds)
           r == Repeated(ds, n)
<1>1. L \in Nat /\ n * L \in Nat
  <2>1. L \in Nat
    OBVIOUS
  <2> HIDE DEF L
  <2> QED BY <2>1
<1>2. r = [j \in 1 .. n * L |-> ds[((j - 1) % L) + 1]]
  BY DEF Repeated
<1>3. \A j \in 1 .. n * L : ds[((j - 1) % L) + 1] \in T
  <2> TAKE j \in 1 .. n * L
  <2>1. L > 0
    <3>1. n * L >= 1
      BY <1>1
    <3>2. L # 0
      BY <1>1, <3>1
    <3> HIDE DEF L
    <3> QED BY <1>1, <3>2
  <2> HIDE DEF L
  <2>2. j - 1 \in Nat
    BY <1>1
  <2>3. \A a \in Nat : a % L \in 0 .. L - 1
    BY <1>1, <2>1
  <2>4. (j - 1) % L \in 0 .. L - 1
    BY <2>2, <2>3
  <2>5. ((j - 1) % L) + 1 \in 1 .. L
    BY <1>1, <2>4
  <2>6. \A i \in 1 .. L : ds[i] \in T
    BY DEF L
  <2> QED BY <2>5, <2>6
<1> HIDE DEF L, r
<1>4. r \in [1 .. n * L -> T]
  BY <1>2, <1>3
<1>5. r \in Seq(T) /\ Len(r) = n * L
  BY <1>1, <1>4, SeqDef, LenProperties
<1> QED BY <1>5 DEF r

\* A text for a room goes to the address of each of its members.
LEMMA ForwardRoomType ==
  ASSUME ListsInv, inbox \in [Clients -> Seq(AnswerDatagram)], NEW m, forward_chat_room_data(m)
  PROVE  inbox' \in [Clients -> Seq(AnswerDatagram)]
<1>1. CASE inbox' = inbox
  BY <1>1
<1>2. CASE S!Listed(rooms, m.chat_room_name)
  <2>1. PICK k \in S!First(rooms, m.chat_room_name) :
          LET to == {heap[x].ptr_to_user : x \in S!Receivers(rooms[k].member, m.sender)}
              Copies(c) == Cardinality({i \in to : users[i].in_address = c})
              text == Answer(m.id, SUCCESS, FALSE, TRUE)
          IN  inbox' = [c \in Clients |-> inbox[c] \o Repeated(text, Copies(c))]
    BY <1>2 DEF forward_chat_room_data
  <2> DEFINE to == {heap[x].ptr_to_user : x \in S!Receivers(rooms[k].member, m.sender)}
             Copies(c) == Cardinality({i \in to : users[i].in_address = c})
             text == Answer(m.id, SUCCESS, FALSE, TRUE)
  <2>2. rooms[k].member \in Used \cup {None}
    BY DEF S!First, ListsInv, RoomsInv
  <2>3. \A x \in S!Receivers(rooms[k].member, m.sender) : x \in Used
    BY <2>2, ChainUsed DEF S!Receivers, ListsInv
  <2>4. to \subseteq DOMAIN users
    BY <2>3 DEF ListsInv, HeapInv
  <2>5. DOMAIN users = 1 .. Len(users) /\ Len(users) \in Nat
    BY DEF ListsInv, UsersInv
  <2>6. IsFiniteSet(DOMAIN users)
    BY <2>5, FS_Interval
  <2>7. text \in Seq(AnswerDatagram)
    <3>1. m.id \in TextId /\ SUCCESS \in Nat
      BY DEF forward_chat_room_data, TextId, SUCCESS
    <3> QED BY <3>1, AnswerDatagrams
  <2>8. inbox' = [c \in Clients |-> inbox[c] \o Repeated(text, Copies(c))]
    BY <2>1
  <2> HIDE DEF text
  <2>9. ASSUME NEW c \in Clients
        PROVE  Copies(c) \in Nat
    <3> DEFINE U == {i \in to : users[i].in_address = c}
    <3>1. U \subseteq DOMAIN users
      BY <2>4
    <3>2. IsFiniteSet(U)
      BY <2>6, <3>1, FS_Subset
    <3>3. Cardinality(U) \in Nat
      BY <3>2, FS_CardinalityType
    <3> QED BY <3>3 DEF U
  <2> HIDE DEF Copies
  <2>10. \A c \in Clients : Repeated(text, Copies(c)) \in Seq(AnswerDatagram)
    BY <2>7, <2>9, RepeatedType
  <2>11. \A c \in Clients : inbox[c] \o Repeated(text, Copies(c)) \in Seq(AnswerDatagram)
    BY <2>10, ConcatProperties
  <2> QED BY <2>8, <2>11
<1> QED BY <1>1, <1>2 DEF forward_chat_room_data

LEMMA ForwardPrivateType ==
  ASSUME ListsInv, inbox \in [Clients -> Seq(AnswerDatagram)], stack \in Clients \cup {None},
         NEW m, forward_private_data(m)
  PROVE  inbox' \in [Clients -> Seq(AnswerDatagram)]
<1>1. m.id \in TextId /\ {SUCCESS, USER_DOES_NOT_EXIST} \subseteq Nat
  BY DEF forward_private_data, TextId, SUCCESS, USER_DOES_NOT_EXIST
<1>2. ASSUME NEW i \in S!First(users, m.receiver),
             SentTo(users[i].in_address, Answer(m.id, SUCCESS, FALSE, TRUE))
      PROVE  inbox' \in [Clients -> Seq(AnswerDatagram)]
  <2>1. users[i].in_address \in Clients \cup {None}
    <3>1. users \in Seq(UdpUser) /\ i \in DOMAIN users
      BY DEF S!First, ListsInv, UsersInv
    <3>2. users[i] \in UdpUser
      BY <3>1
    <3> QED BY <3>2 DEF UdpUser
  <2>2. Answer(m.id, SUCCESS, FALSE, TRUE) \in Seq(AnswerDatagram)
    BY <1>1, AnswerDatagrams
  <2> QED BY <1>2, <2>1, <2>2, SentType
<1>3. ASSUME NEW readable \in BOOLEAN,
             SentTo(InAddress, Answer(m.id, USER_DOES_NOT_EXIST, FALSE, readable))
      PROVE  inbox' \in [Clients -> Seq(AnswerDatagram)]
  <2>1. Answer(m.id, USER_DOES_NOT_EXIST, FALSE, readable) \in Seq(AnswerDatagram)
    BY <1>1, AnswerDatagrams
  <2> QED BY <1>3, <2>1, SentType DEF InAddress
<1> QED BY <1>2, <1>3 DEF forward_private_data

\* What a handler writes are datagrams of answers.
LEMMA HandlersWriteAnswers ==
  ASSUME ListsInv, inbox \in [Clients -> Seq(AnswerDatagram)], stack \in Clients \cup {None},
         NEW m, handle_clients(m)
  PROVE  inbox' \in [Clients -> Seq(AnswerDatagram)]
<1> DEFINE Kept == inbox' \in [Clients -> Seq(AnswerDatagram)]
<1> USE DEF SUCCESS, NICK_NAME_IN_USE, CHAT_ROOM_DOES_NOT_EXIST, CHAT_ROOM_NAME_IN_USE,
            USER_DOES_NOT_EXIST, WRONG_PW
<1>1. ASSUME NEW err \in 0 .. 5, m.id \in RequestId \ TextId, Reply(m.id, err) PROVE Kept
  BY <1>1, ReplyType
<1>2. ASSUME NEW err \in Nat, NEW empty \in BOOLEAN, m.id \in ListId,
             SentTo(InAddress, Answer(ResponseTo(m.id), err, empty, TRUE))
      PROVE  Kept
  <2>1. ResponseTo(m.id) \in ResponseId
    BY <1>2 DEF ResponseId, RequestId, TextId, ListId
  <2>2. Answer(ResponseTo(m.id), err, empty, TRUE) \in Seq(AnswerDatagram)
    BY <2>1, AnswerDatagrams
  <2> QED BY <1>2, <2>2, SentType DEF InAddress
<1> HIDE DEF Kept
<1>3. ASSUME register_user(m) PROVE Kept
  BY <1>1, <1>3 DEF register_user, RequestId, TextId
<1>4. ASSUME login_user(m) PROVE Kept
  BY <1>1, <1>4 DEF login_user, RequestId, TextId
<1>5. ASSUME show_users(m) PROVE Kept
  BY <1>2, <1>5 DEF show_users, ListId
<1>6. ASSUME show_chat_rooms(m) PROVE Kept
  BY <1>2, <1>6 DEF show_chat_rooms, ListId
<1>7. ASSUME create_chat_room(m) PROVE Kept
  BY <1>1, <1>7 DEF create_chat_room, RequestId, RoomId, TextId
<1>8. ASSUME join_chatroom(m) PROVE Kept
  BY <1>1, <1>8 DEF join_chatroom, RequestId, RoomId, TextId
<1>9. ASSUME exit_chatroom(m) PROVE Kept
  BY <1>1, <1>9 DEF exit_chatroom, RequestId, RoomId, TextId
<1>10. ASSUME forward_private_data(m) PROVE Kept
  BY <1>10, ForwardPrivateType DEF Kept
<1>11. ASSUME forward_chat_room_data(m) PROVE Kept
  BY <1>11, ForwardRoomType DEF Kept
<1>12. Kept
  BY <1>3, <1>4, <1>5, <1>6, <1>7, <1>8, <1>9, <1>10, <1>11 DEF handle_clients
<1> QED BY <1>12 DEF Kept

-------------------------------------------------------------------------------
(* Type correctness                                                        *)

TextField == {"proposed_nickname", "password", "sender", "chat_room_name", "receiver"}

MsgType ==
  /\ DOMAIN msg = TextField \cup {"id"}
  /\ msg["id"] \in RequestId \cup {None}
  /\ \A f \in TextField : msg[f] \in TextOrNone

\* The fields of a request from the k-th on.
Rest(id, k) == SubSeq(ReadRequest(id), k, Len(ReadRequest(id)))

\* What is still to be read belongs to the id read last, and a user's name comes before
\* the password.
WantInv ==
  want # <<>> =>
    /\ msg["id"] \in RequestId
    /\ \E k \in 1 .. Len(ReadRequest(msg["id"])) :
         /\ want = Rest(msg["id"], k)
         /\ msg["id"] = "REGISTER_USER" /\ k = 2 => msg["proposed_nickname"] # None

TypeInv == NetType /\ ClientType /\ MsgType /\ WantInv /\ ListsInv

LEMMA InitTypeInv == Init => TypeInv
<1> SUFFICES ASSUME Init PROVE TypeInv
  OBVIOUS
<1>1. NetType /\ ClientType
  BY UdpBoundsAssumption, EmptySeq DEF Init, NetType, ClientType
<1>2. MsgType
  BY DEF Init, MsgType, TextField, TextOrNone
<1>3. WantInv
  BY DEF Init, WantInv
<1>4. ListsInv
  BY EmptySeq DEF Init, ListsInv, UsersInv, RoomsInv, HeapInv, Used, UdpParticipant, TextOrNone,
                  S!OwnerConsistent
<1> QED BY <1>1, <1>2, <1>3, <1>4 DEF TypeInv

\* The rest of a request that begins with its k-th field.
LEMMA RestOf ==
  ASSUME NEW id \in RequestId, NEW k \in 1 .. Len(ReadRequest(id))
  PROVE  /\ Rest(id, k) \in Seq(RequestField) /\ Rest(id, k) # <<>>
         /\ Len(Rest(id, k)) = Len(ReadRequest(id)) - k + 1
         /\ Head(Rest(id, k)) = ReadRequest(id)[k]
         /\ k = Len(ReadRequest(id)) => Tail(Rest(id, k)) = <<>>
         /\ k < Len(ReadRequest(id)) => Tail(Rest(id, k)) = Rest(id, k + 1)
<1> DEFINE r == ReadRequest(id)
<1>1. r \in Seq(RequestField) /\ Len(r) \in Nat
  BY RequestFields
<1> HIDE DEF r
<1>2. \A q \in Seq(RequestField) : \A j \in 1 .. Len(q) :
        LET s == SubSeq(q, j, Len(q)) IN
        /\ s \in Seq(RequestField) /\ s # <<>> /\ Len(s) = Len(q) - j + 1 /\ Head(s) = q[j]
        /\ j = Len(q) => Tail(s) = <<>>
        /\ j < Len(q) => Tail(s) = SubSeq(q, j + 1, Len(q))
  <2> TAKE q \in Seq(RequestField)
  <2> TAKE j \in 1 .. Len(q)
  <2> DEFINE s == SubSeq(q, j, Len(q))
  <2>1. /\ s \in Seq(RequestField) /\ Len(s) = Len(q) - j + 1
        /\ \A i \in 1 .. Len(s) : s[i] = q[j + i - 1]
    BY SubSeqProperties
  <2> HIDE DEF s
  <2>2. Len(q) \in Nat
    OBVIOUS
  <2>3. s # <<>> /\ Head(s) = q[j]
    BY <2>1, <2>2
  <2>4. /\ Tail(s) \in Seq(RequestField) /\ Len(Tail(s)) = Len(q) - j
        /\ \A i \in 1 .. Len(q) - j : Tail(s)[i] = q[j + i]
    BY <2>1, <2>2, <2>3, HeadTailProperties
  <2>5. j = Len(q) => Tail(s) = <<>>
    <3>1. \A u \in Seq(RequestField) : Len(u) = 0 => u = <<>>
      OBVIOUS
    <3>2. j = Len(q) => Len(Tail(s)) = 0
      BY <2>2, <2>4
    <3> QED BY <2>4, <3>1, <3>2
  <2>6. ASSUME j < Len(q) PROVE Tail(s) = SubSeq(q, j + 1, Len(q))
    <3> DEFINE t == SubSeq(q, j + 1, Len(q))
    <3>1. /\ t \in Seq(RequestField) /\ Len(t) = Len(q) - j
          /\ \A i \in 1 .. Len(q) - j : t[i] = q[j + i]
      BY <2>2, <2>6, SubSeqProperties
    <3> HIDE DEF t
    <3>2. Len(t) = Len(Tail(s)) /\ \A i \in 1 .. Len(t) : t[i] = Tail(s)[i]
      BY <2>4, <3>1
    <3>3. t = Tail(s)
      BY <2>4, <3>1, <3>2, SeqEqual
    <3> QED BY <3>3 DEF t
  <2> QED BY <2>1, <2>3, <2>5, <2>6 DEF s
<1>3. k \in 1 .. Len(r)
  BY DEF r
<1> QED BY <1>1, <1>2, <1>3 DEF Rest, r

\* A request that is begun is of its type, and one more of its client.
LEMMA StartsType ==
  ASSUME TypeInv, NEW c \in Clients, NEW id \in RequestId, NEW n \in Names, NEW pw, NEW r, NEW to,
         id \in {"REGISTER_USER", "LOGIN"} => pw \in Passwords,
         id \in RoomId \cup TextId => r \in Rooms /\ to \in Names,
         Starts(c, id, n, pw, r, to)
  PROVE  /\ todo' \in [Clients -> Seq(RequestDatagram)]
         /\ asked' \in [Clients -> Nat] /\ \A d \in Clients : asked'[d] <= MaxRequests[d]
<1>1. ClientType /\ todo \in [Clients -> Seq(RequestDatagram)]
  BY DEF TypeInv, NetType
<1>2. Datagrams(c, id, n, pw, r, to) \in Seq(RequestDatagram)
  BY <1>1, DatagramsType
<1>3. todo' = [todo EXCEPT ![c] = Datagrams(c, id, n, pw, r, to)]
      /\ asked' = [asked EXCEPT ![c] = @ + 1] /\ asked[c] < MaxRequests[c]
  BY DEF Starts
<1>4. MaxRequests[c] \in Nat /\ asked[c] \in Nat
  BY <1>1, UdpBoundsAssumption DEF ClientType
<1> HIDE DEF Datagrams
<1>5. todo' \in [Clients -> Seq(RequestDatagram)]
  BY <1>1, <1>2, <1>3
<1>6. asked' \in [Clients -> Nat] /\ \A d \in Clients : asked'[d] <= MaxRequests[d]
  BY <1>1, <1>3, <1>4 DEF ClientType
<1> QED BY <1>5, <1>6

\* A client changes what is its own, and what is in the network.
LEMMA ClientSteps ==
  ASSUME TypeInv, NEW c \in Clients, client(c)
  PROVE  TypeInv'
<1> DEFINE Rest1 == UNCHANGED <<stack, lost, msg, want, users, rooms, heap>>
<1>1. Rest1
  BY DEF client, ask, control_user_input, close_socket, sendto, read_id, read_field, read_data, Reads, Server,
         netVars, readVars, listVars
<1>2. MsgType' /\ WantInv' /\ ListsInv'
  BY <1>1 DEF TypeInv, MsgType, WantInv, ListsInv, UsersInv, RoomsInv, HeapInv, Used,
              S!OwnerConsistent
<1>3. /\ NetType /\ ClientType
  BY DEF TypeInv
<1>4. ASSUME ask(c, "REGISTER_USER") \/ ask(c, "LOGIN")
      PROVE  NetType' /\ ClientType'
  <2>1. PICK id \in {"REGISTER_USER", "LOGIN"} : ask(c, id)
    BY <1>4
  <2>2. PICK n \in Names, pw \in Passwords :
          Starts(c, id, n, pw, None, None) /\ nick' = [nick EXCEPT ![c] = n]
    BY <2>1 DEF ask
  <2>3. phase' = [phase EXCEPT ![c] = "asking"] /\ UNCHANGED <<queue, inbox>>
    BY <2>1 DEF ask, Server
  <2>4. id \in RequestId /\ id \notin RoomId \cup TextId
    BY DEF RequestId, RoomId, TextId
  <2>5. /\ todo' \in [Clients -> Seq(RequestDatagram)]
        /\ asked' \in [Clients -> Nat] /\ \A d \in Clients : asked'[d] <= MaxRequests[d]
    BY <2>2, <2>4, StartsType
  <2>6. NetType'
    BY <1>1, <1>3, <2>3, <2>5 DEF NetType
  <2>7. n # None
    BY UdpNoneAssumption
  <2>8. ClientType'
    BY <1>3, <2>2, <2>3, <2>5, <2>7 DEF ClientType
  <2> QED BY <2>6, <2>8
<1>5. ASSUME control_user_input(c)
      PROVE  NetType' /\ ClientType'
  <2>1. PICK id \in ListId \cup RoomId \cup TextId, r \in Rooms, n \in Names \ {nick[c]} :
          Starts(c, id, nick[c], None, r, n)
    BY <1>5 DEF control_user_input
  <2>2. id \in RequestId /\ id \notin {"REGISTER_USER", "LOGIN"}
    BY DEF RequestId, ListId, RoomId, TextId
  <2>3. phase[c] = "in" /\ UNCHANGED <<phase, nick, inbox, queue>>
    BY <1>5 DEF control_user_input, Server
  <2>4. nick[c] \in Names
    BY <1>3, <2>3 DEF ClientType
  <2>5. /\ todo' \in [Clients -> Seq(RequestDatagram)]
        /\ asked' \in [Clients -> Nat] /\ \A d \in Clients : asked'[d] <= MaxRequests[d]
    BY <2>1, <2>2, <2>4, StartsType
  <2> QED BY <1>1, <1>3, <2>3, <2>5 DEF NetType, ClientType
<1>6. ASSUME close_socket(c)
      PROVE  NetType' /\ ClientType'
  <2>1. /\ phase[c] = "in" /\ phase' = [phase EXCEPT ![c] = "ended"]
        /\ UNCHANGED <<queue, inbox, todo, nick, asked>>
    BY <1>6 DEF close_socket, Server
  <2>2. NetType'
    BY <1>1, <1>3, <2>1 DEF NetType
  <2>3. ClientType'
    BY <1>3, <2>1 DEF ClientType
  <2> QED BY <2>2, <2>3
<1>7. ASSUME sendto(c)
      PROVE  NetType' /\ ClientType'
  <2>1. /\ todo[c] # <<>> /\ todo' = [todo EXCEPT ![c] = Tail(@)]
        /\ queue' \in {queue, Append(queue, Head(todo[c]))}
        /\ UNCHANGED <<phase, nick, asked, inbox>>
    BY <1>7 DEF sendto
  <2>2. Head(todo[c]) \in RequestDatagram /\ Tail(todo[c]) \in Seq(RequestDatagram)
    BY <1>3, <2>1, HeadTailProperties DEF NetType
  <2>3. queue' \in Seq(RequestDatagram)
    <3>1. Append(queue, Head(todo[c])) \in Seq(RequestDatagram) /\ queue \in Seq(RequestDatagram)
      BY <1>3, <2>2, AppendProperties DEF NetType
    <3> QED BY <2>1, <3>1
  <2>4. todo' \in [Clients -> Seq(RequestDatagram)]
    BY <1>3, <2>1, <2>2 DEF NetType
  <2> QED BY <1>1, <1>3, <2>1, <2>3, <2>4 DEF NetType, ClientType
<1>8. ASSUME read_id(c) \/ read_field(c) \/ read_data(c)
      PROVE  NetType' /\ ClientType'
  <2>1. /\ inbox[c] # <<>> /\ inbox' = [inbox EXCEPT ![c] = Tail(@)] /\ phase[c] \in {"asking", "in"}
        /\ UNCHANGED <<nick, asked, todo, queue>>
    BY <1>8 DEF read_id, read_field, read_data, Reads
  <2>2. phase' \in {phase, [phase EXCEPT ![c] = "ended"]} \/ \E m, known : Received(c, m, known)
    BY <1>8 DEF read_id, read_field, read_data
  <2>3. PICK p \in {"prompt", "asking", "in", "ended"} : phase' = [phase EXCEPT ![c] = p]
    <3>1. CASE phase' = phase
      BY <1>3, <3>1 DEF ClientType
    <3>2. ASSUME NEW m, NEW known, Received(c, m, known)
          PROVE  \E p \in {"prompt", "asking", "in", "ended"} : phase' = [phase EXCEPT ![c] = p]
      BY <1>3, <3>2 DEF ClientType, Received
    <3>3. CASE phase' = [phase EXCEPT ![c] = "ended"]
      BY <3>3
    <3> QED BY <2>2, <3>1, <3>2, <3>3
  <2>4. inbox' \in [Clients -> Seq(AnswerDatagram)]
    BY <1>3, <2>1, HeadTailProperties DEF NetType
  <2>5. NetType'
    BY <1>1, <1>3, <2>1, <2>4 DEF NetType
  <2>6. ClientType'
    BY <1>3, <2>1, <2>3 DEF ClientType
  <2> QED BY <2>5, <2>6
<1>9. NetType' /\ ClientType'
  BY <1>4, <1>5, <1>6, <1>7, <1>8 DEF client
<1> QED BY <1>2, <1>9 DEF TypeInv

\* The network loses what is in it, and adds nothing.
LEMMA LoseStep ==
  ASSUME TypeInv, lose
  PROVE  TypeInv'
<1>1. UNCHANGED <<stack, phase, nick, asked, todo, msg, want, users, rooms, heap>>
  BY DEF lose, clientVars, readVars, listVars
<1>2. MsgType' /\ WantInv' /\ ListsInv' /\ ClientType'
  BY <1>1 DEF TypeInv, MsgType, WantInv, ListsInv, UsersInv, RoomsInv, HeapInv, Used, ClientType,
              S!OwnerConsistent
<1>3. NetType /\ MaxLost \in Nat
  BY UdpBoundsAssumption DEF TypeInv
<1>4. lost' \in 0 .. MaxLost
  BY <1>3 DEF lose, NetType
<1>5. CASE queue # <<>> /\ queue' = Tail(queue) /\ UNCHANGED inbox
  <2>1. queue' \in Seq(RequestDatagram)
    BY <1>3, <1>5, HeadTailProperties DEF NetType
  <2>2. NetType'
    BY <1>1, <1>3, <1>4, <1>5, <2>1 DEF NetType
  <2> QED BY <1>1, <1>2, <1>5, <2>2 DEF TypeInv
<1>6. ASSUME NEW c \in Clients, inbox[c] # <<>>, inbox' = [inbox EXCEPT ![c] = Tail(@)],
             UNCHANGED queue
      PROVE  TypeInv'
  <2>1. inbox' \in [Clients -> Seq(AnswerDatagram)]
    BY <1>3, <1>6, HeadTailProperties DEF NetType
  <2>2. NetType'
    BY <1>1, <1>3, <1>4, <1>6, <2>1 DEF NetType
  <2> QED BY <1>2, <2>2 DEF TypeInv
<1> QED BY <1>5, <1>6 DEF lose

\* A complete message is handled; of one that is not, the server remembers what is to come.
LEMMA GoesType ==
  ASSUME TypeInv, Receives, NEW m, NEW w, Goes(m, w), w = <<>> => Read(m)
  PROVE  /\ NetType' /\ ClientType' /\ ListsInv' /\ msg' = m /\ want' = w
<1>1. /\ queue # <<>> /\ queue' = Tail(queue)
      /\ UNCHANGED <<stack, lost, phase, nick, asked, todo>>
  BY DEF Receives, Client, netVars, clientVars
<1>2. NetType /\ ClientType /\ ListsInv
  BY DEF TypeInv
<1>3. ListsInv' /\ inbox' \in [Clients -> Seq(AnswerDatagram)]
  <2>1. CASE w = <<>>
    BY <1>1, <1>2, <2>1, HandlersKeepLists, HandlersWriteAnswers DEF Goes, NetType
  <2>2. CASE w # <<>>
    <3>1. UNCHANGED <<inbox, users, rooms, heap>>
      BY <2>2 DEF Goes, listVars
    <3> QED BY <1>1, <1>2, <3>1 DEF ListsInv, UsersInv, RoomsInv, HeapInv, Used, NetType,
                                    S!OwnerConsistent
  <2> QED BY <2>1, <2>2
<1>4. queue' \in Seq(RequestDatagram)
  BY <1>1, <1>2, HeadTailProperties DEF NetType
<1>5. NetType'
  BY <1>1, <1>2, <1>3, <1>4 DEF NetType
<1>6. ClientType'
  BY <1>1, <1>2 DEF ClientType
<1> QED BY <1>3, <1>5, <1>6 DEF Goes

\* What a datagram is read as.
LEMMA ReadDatagram ==
  ASSUME NEW d \in RequestDatagram
  PROVE  /\ ReadAsText(d) \in Texts
         /\ ReadAsId(d, RequestId) \subseteq RequestId \cup {Unknown}
         /\ ReadAsLength(d) = {TRUE}
<1>1. /\ d.field = "id" => d.value \in RequestId
      /\ d.field \notin Number => d.value \in Texts
      /\ d.field # "error_code"
  BY DEF RequestDatagram, RequestField
<1>2. Garbage \in Texts
  BY UdpNoneAssumption DEF Texts, TextOrNone
<1>3. ReadAsText(d) \in Texts
  BY <1>1, <1>2 DEF ReadAsText
<1>4. ReadAsId(d, RequestId) \subseteq RequestId \cup {Unknown}
  <2>1. CASE d.field = "id"
    BY <1>1, <2>1 DEF ReadAsId
  <2>2. CASE d.field = "data_lenght"
    BY <2>2 DEF ReadAsId
  <2>3. CASE d.field \notin {"id", "data_lenght"}
    BY <2>3 DEF ReadAsId
  <2> QED BY <2>1, <2>2, <2>3
<1>5. ReadAsLength(d) = {TRUE}
  BY <1>1 DEF ReadAsLength
<1> QED BY <1>3, <1>4, <1>5

\* The server reads an id.
LEMMA RecvIdStep ==
  ASSUME TypeInv, recv_id
  PROVE  TypeInv'
<1>1. queue \in Seq(RequestDatagram) /\ queue # <<>>
  BY DEF TypeInv, NetType, recv_id, Receives
<1>2. Head(queue) \in RequestDatagram
  BY <1>1, HeadTailProperties
<1>3. PICK id \in ReadAsId(Head(queue), RequestId) :
        IF id \in RequestId
        THEN Goes([msg EXCEPT !.id = id], ReadRequest(id)) /\ UNCHANGED alive
        ELSE alive' = FALSE /\ UNCHANGED <<msg, want, parts, mixed, inbox, listVars>>
  BY DEF recv_id
<1>4. Receives
  BY DEF recv_id
<1>5. CASE id \in RequestId
  <2> DEFINE m == [msg EXCEPT !.id = id]
  <2>1. /\ DOMAIN m = TextField \cup {"id"} /\ m["id"] = id
        /\ \A f \in TextField : m[f] = msg[f]
    BY DEF TypeInv, MsgType, TextField
  <2>2. Goes(m, ReadRequest(id))
    BY <1>3, <1>5
  <2> HIDE DEF m
  <2>3. ReadRequest(id) = <<>> => Read(m)
    <3>1. ReadRequest(id) = <<>> => id # "REGISTER_USER"
      BY <1>5, RequestForms
    <3> QED BY <1>5, <2>1, <3>1 DEF Read, TypeInv, MsgType, TextField
  <2>4. /\ NetType' /\ ClientType' /\ ListsInv' /\ msg' = m /\ want' = ReadRequest(id)
    BY <1>4, <2>2, <2>3, GoesType
  <2>5. MsgType'
    BY <1>5, <2>1, <2>4 DEF TypeInv, MsgType
  <2>6. WantInv'
    <3> SUFFICES ASSUME ReadRequest(id) # <<>>
                 PROVE  \E k \in 1 .. Len(ReadRequest(id)) :
                          /\ ReadRequest(id) = Rest(id, k)
                          /\ id = "REGISTER_USER" /\ k = 2 => msg["proposed_nickname"]' # None
      BY <1>5, <2>1, <2>4 DEF WantInv
    <3>1. ReadRequest(id) \in Seq(RequestField)
      BY <1>5, RequestFields
    <3>2. ReadRequest(id) = Rest(id, 1) /\ 1 \in 1 .. Len(ReadRequest(id))
      BY <3>1 DEF Rest
    <3> QED BY <3>2
  <2> QED BY <2>4, <2>5, <2>6 DEF TypeInv
<1>6. CASE id \notin RequestId
  <2>1. /\ UNCHANGED <<msg, want, inbox, users, rooms, heap>> /\ queue' = Tail(queue)
        /\ UNCHANGED <<stack, lost, phase, nick, asked, todo>>
    BY <1>3, <1>4, <1>6 DEF listVars, Receives, Client, netVars, clientVars
  <2>2. queue' \in Seq(RequestDatagram)
    BY <1>1, <2>1, HeadTailProperties
  <2>3. MsgType' /\ WantInv' /\ ListsInv' /\ ClientType'
    BY <2>1 DEF TypeInv, MsgType, WantInv, ListsInv, UsersInv, RoomsInv, HeapInv, Used, ClientType,
                S!OwnerConsistent
  <2>4. NetType'
    BY <2>1, <2>2 DEF TypeInv, NetType
  <2> QED BY <2>1, <2>3, <2>4 DEF TypeInv
<1> QED BY <1>5, <1>6

\* A field is read as some text or not kept, and the message goes on with the next field.
LEMMA FieldRead ==
  ASSUME TypeInv, recv_field
  PROVE  \E t \in Texts :
           Goes(IF Head(want) \in DOMAIN msg THEN [msg EXCEPT ![Head(want)] = t] ELSE msg, Tail(want))
<1> DEFINE f == Head(want)
           d == Head(queue)
<1>1. queue \in Seq(RequestDatagram) /\ queue # <<>>
  BY DEF TypeInv, NetType, recv_field, Receives
<1>2. d \in RequestDatagram
  BY <1>1, HeadTailProperties
<1>3. ReadAsText(d) \in Texts /\ ReadAsLength(d) = {TRUE}
  BY <1>2, ReadDatagram
<1>4. Garbage \in Texts
  BY UdpNoneAssumption DEF Texts, TextOrNone
<1> HIDE DEF f, d
<1>5. CASE f \in DOMAIN msg
  <2>1. PICK fits \in TextFits(d, f) : Goes([msg EXCEPT ![f] = Text(d, fits)], Tail(want))
    BY <1>5 DEF recv_field, f, d
  <2>2. Text(d, fits) \in Texts
    BY <1>3, <1>4 DEF Text
  <2> QED BY <1>5, <2>1, <2>2 DEF f
<1>6. CASE f \notin DOMAIN msg
  <2>1. PICK more \in IF f = "data_lenght" THEN ReadAsLength(d) ELSE {TRUE} :
          Goes(msg, IF more THEN Tail(want) ELSE <<>>)
    BY <1>6 DEF recv_field, f, d
  <2>2. more = TRUE
    BY <1>3, <2>1
  <2> QED BY <1>4, <1>6, <2>1, <2>2 DEF f
<1> QED BY <1>5, <1>6

\* The server reads a field.
LEMMA RecvFieldStep ==
  ASSUME TypeInv, recv_field
  PROVE  TypeInv'
<1>1. want # <<>> /\ Receives
  BY DEF recv_field
<1>2. PICK t \in Texts :
        Goes(IF Head(want) \in DOMAIN msg THEN [msg EXCEPT ![Head(want)] = t] ELSE msg, Tail(want))
  BY FieldRead
<1> DEFINE f == Head(want)
           id == msg["id"]
           r == ReadRequest(id)
           m == IF f \in DOMAIN msg THEN [msg EXCEPT ![f] = t] ELSE msg
<1>4. PICK k \in 1 .. Len(r) : /\ want = Rest(id, k)
                               /\ id = "REGISTER_USER" /\ k = 2 => msg["proposed_nickname"] # None
  BY <1>1 DEF TypeInv, WantInv
<1>5. id \in RequestId
  BY <1>1 DEF TypeInv, WantInv
<1>6. /\ f = r[k] /\ f \in RequestField
      /\ k = Len(r) => Tail(want) = <<>>
      /\ k < Len(r) => Tail(want) = Rest(id, k + 1) /\ Tail(want) # <<>> /\ k + 1 \in 1 .. Len(r)
  <2>1. r \in Seq(RequestField)
    BY <1>5, RequestFields
  <2>2. k < Len(r) => k + 1 \in 1 .. Len(r)
    BY <1>4, <2>1
  <2>3. /\ Head(Rest(id, k)) = r[k]
        /\ k = Len(r) => Tail(Rest(id, k)) = <<>>
        /\ k < Len(r) => Tail(Rest(id, k)) = Rest(id, k + 1)
    BY <1>4, <1>5, RestOf
  <2>4. k < Len(r) => Rest(id, k + 1) # <<>>
    BY <1>5, <2>2, RestOf
  <2>5. r[k] \in RequestField
    BY <1>4, <2>1
  <2> HIDE DEF r
  <2> QED BY <1>4, <2>2, <2>3, <2>4, <2>5
<1>7. Goes(m, Tail(want))
  BY <1>2
<1>8. /\ DOMAIN m = TextField \cup {"id"} /\ m["id"] = id
      /\ \A g \in TextField : m[g] \in TextOrNone
      /\ f \in TextField => m[f] # None
      /\ \A g \in TextField \ {f} : m[g] = msg[g]
  <2>1. f # "id" /\ t \in Texts
    BY <1>6 DEF RequestField
  <2>2. Texts \subseteq TextOrNone /\ None \notin Texts
    BY DEF Texts
  <2>3. MsgType
    BY DEF TypeInv
  <2> HIDE DEF f
  <2> QED BY <2>1, <2>2, <2>3 DEF MsgType, TextField
<1> HIDE DEF f, m
<1>9. id = "REGISTER_USER" =>
        /\ Len(r) = 2 /\ r[1] = "proposed_nickname" /\ r[2] = "password"
  BY <1>5, RequestForms
<1>10. id = "REGISTER_USER" => m["proposed_nickname"] # None
  <2> SUFFICES ASSUME id = "REGISTER_USER" PROVE m["proposed_nickname"] # None
    OBVIOUS
  <2>1. k \in {1, 2}
    <3>1. Len(r) = 2 /\ k \in 1 .. Len(r)
      BY <1>4, <1>9
    <3> HIDE DEF r
    <3> QED BY <3>1
  <2>2. CASE k = 1
    BY <1>6, <1>8, <1>9, <2>2 DEF TextField
  <2>3. CASE k = 2
    BY <1>4, <1>6, <1>8, <1>9, <2>3 DEF TextField
  <2> QED BY <2>1, <2>2, <2>3
<1>11. Read(m)
  BY <1>5, <1>8, <1>10 DEF Read, TextField
<1>12. /\ NetType' /\ ClientType' /\ ListsInv' /\ msg' = m /\ want' = Tail(want)
  BY <1>1, <1>7, <1>11, GoesType
<1>13. MsgType'
  BY <1>5, <1>8, <1>12 DEF MsgType
<1>14. WantInv'
  <2> SUFFICES ASSUME Tail(want) # <<>>
               PROVE  \E l \in 1 .. Len(r) : Tail(want) = Rest(id, l)
    BY <1>5, <1>8, <1>10, <1>12 DEF WantInv
  <2>1. Len(r) \in Nat
    BY <1>5, RequestFields
  <2>2. k < Len(r)
    BY <1>6, <2>1
  <2> QED BY <1>6, <2>2
<1> QED BY <1>12, <1>13, <1>14 DEF TypeInv

\* Data that is stored through a cleared ptr belongs to a text, and ends the server.
LEMMA RecvDataStep ==
  ASSUME TypeInv, recv_data
  PROVE  TypeInv' /\ msg["id"] \in TextId
<1>1. /\ UNCHANGED <<msg, want, inbox, users, rooms, heap>> /\ queue' = Tail(queue)
      /\ UNCHANGED <<stack, lost, phase, nick, asked, todo>>
      /\ queue # <<>> /\ want # <<>> /\ Head(want) = "data"
  BY DEF recv_data, Stores, listVars, Receives, Client, netVars, clientVars
<1>2. queue' \in Seq(RequestDatagram)
  BY <1>1, HeadTailProperties DEF TypeInv, NetType
<1>3. MsgType' /\ WantInv' /\ ListsInv' /\ ClientType'
  BY <1>1 DEF TypeInv, MsgType, WantInv, ListsInv, UsersInv, RoomsInv, HeapInv, Used, ClientType,
              S!OwnerConsistent
<1>4. NetType'
  BY <1>1, <1>2 DEF TypeInv, NetType
<1> DEFINE id == msg["id"]
           r == ReadRequest(id)
<1>5. id \in RequestId
  BY <1>1 DEF TypeInv, WantInv
<1>6. PICK k \in 1 .. Len(r) : want = Rest(id, k)
  BY <1>1 DEF TypeInv, WantInv
<1>7. r[k] = "data"
  BY <1>1, <1>5, <1>6, RestOf
<1>8. id \in TextId
  <2> SUFFICES ASSUME id \notin TextId PROVE FALSE
    OBVIOUS
  <2> HIDE DEF id
  <2>1. CASE r = <<"proposed_nickname", "password">>
    BY <1>6, <1>7, <2>1
  <2>2. CASE r = <<"sender", "password">>
    BY <1>6, <1>7, <2>2
  <2>3. CASE r = <<"sender", "chat_room_name">>
    BY <1>6, <1>7, <2>3
  <2>4. CASE r = <<>>
    BY <1>6, <2>4
  <2> QED BY <1>5, <2>1, <2>2, <2>3, <2>4, RequestForms DEF RequestId
<1> QED BY <1>3, <1>4, <1>8 DEF TypeInv

LEMMA Steps == TypeInv /\ [Next]_vars => TypeInv'
<1> SUFFICES ASSUME TypeInv, [Next]_vars PROVE TypeInv'
  OBVIOUS
<1>1. CASE UNCHANGED vars
  <2>1. UNCHANGED <<stack, lost, queue, inbox, phase, nick, asked, todo, msg, want, users, rooms, heap>>
    BY <1>1 DEF vars, netVars, clientVars, readVars, listVars
  <2> QED BY <2>1 DEF TypeInv, NetType, MsgType, WantInv, ListsInv, UsersInv, RoomsInv, HeapInv, Used,
                      ClientType, S!OwnerConsistent
<1>2. CASE Next
  BY <1>2, RecvIdStep, RecvFieldStep, RecvDataStep, LoseStep, ClientSteps DEF Next
<1> QED BY <1>1, <1>2

LEMMA TypeInvariant == Spec => []TypeInv
<1>1. TypeInv /\ [Next]_vars => TypeInv'
  BY Steps
<1> QED BY <1>1, InitTypeInv, PTL DEF Spec

\* As long as each text fits where it is read, two users never have one name, nor two
\* rooms, and a participant belongs to the user it is named after, whatever datagrams of
\* whatever clients the messages were read from.
THEOREM ListsStaySound == Spec => []ListsSound
<1>1. TypeInv => ListsSound
  <2> SUFFICES ASSUME TypeInv PROVE ListsSound
    OBVIOUS
  <2>1. S!UniqueNames /\ S!OwnerConsistent
    BY DEF TypeInv, ListsInv, UsersInv, RoomsInv, HeapInv, S!UniqueNames
  <2>2. /\ phase \in [Clients -> {"prompt", "asking", "in", "ended"}]
        /\ nick \in [Clients -> Names \cup {None}] /\ lost \in 0 .. MaxLost
    BY DEF TypeInv, ClientType, NetType
  <2>3. \A c \in Clients : asked[c] \in 0 .. MaxRequests[c]
    BY UdpBoundsAssumption DEF TypeInv, ClientType
  <2>4. \A c \in Clients : \A i \in DOMAIN inbox[c] :
          inbox[c][i].field \in Number \cup {"sender", "receiver", "chat_room_name", "data"}
    <3> TAKE c \in Clients
    <3> TAKE i \in DOMAIN inbox[c]
    <3>1. inbox[c][i] \in AnswerDatagram
      BY DEF TypeInv, NetType
    <3> QED BY <3>1 DEF AnswerDatagram, Number
  <2>5. \A i \in DOMAIN queue : queue[i].of \in Clients \X (Nat \ {0})
    <3> TAKE i \in DOMAIN queue
    <3>1. queue[i] \in RequestDatagram
      BY DEF TypeInv, NetType
    <3> QED BY <3>1 DEF RequestDatagram
  <2>6. msg.id \in RequestId \cup {None} /\ \A f \in DOMAIN msg \ {"id"} : msg[f] \in TextOrNone
    BY DEF TypeInv, MsgType
  <2>7. \A i \in DOMAIN users : /\ users[i].name \in TextOrNone \ {None}
                                /\ users[i].in_address \in Clients \cup {None}
    <3> TAKE i \in DOMAIN users
    <3>1. users[i] \in UdpUser
      BY DEF TypeInv, ListsInv, UsersInv
    <3> QED BY <3>1 DEF UdpUser, Texts
  <2>8. \A x \in Cells : heap[x].next_member \in Cells \cup {None}
    <3> TAKE x \in Cells
    <3>1. heap[x] \in UdpParticipant
      BY DEF TypeInv, ListsInv, HeapInv
    <3> QED BY <3>1 DEF UdpParticipant
  <2> QED BY <2>1, <2>2, <2>3, <2>4, <2>5, <2>6, <2>7, <2>8 DEF ListsSound, TypeOK
<1> QED BY <1>1, TypeInvariant, PTL

-------------------------------------------------------------------------------
(* What ends the loop                                                      *)

\* The fields of a request with its id before them, and where a field is among them.
Fields(id) == <<"id">> \o ReadRequest(id)
Place(id, field) == CHOOSE p \in 1 .. Len(Fields(id)) : Fields(id)[p] = field

LEMMA FieldsOf ==
  ASSUME NEW id \in RequestId
  PROVE  /\ Len(Fields(id)) = Len(ReadRequest(id)) + 1 /\ Len(Fields(id)) \in Nat \ {0}
         /\ Fields(id)[1] = "id"
         /\ \A p \in 2 .. Len(Fields(id)) : Fields(id)[p] = ReadRequest(id)[p - 1] /\ Fields(id)[p] # "id"
         /\ \A p \in 1 .. Len(Fields(id)) : Place(id, Fields(id)[p]) = p
<1> DEFINE r == ReadRequest(id)
           F == RequestField \cup {"id"}
<1>1. /\ r \in Seq(RequestField) /\ Len(r) \in Nat
      /\ \A i, j \in 1 .. Len(r) : r[i] = r[j] => i = j
  BY RequestFields
<1>2. "id" \notin RequestField /\ r \in Seq(F) /\ <<"id">> \in Seq(F)
  BY <1>1 DEF RequestField
<1> HIDE DEF r, F
<1>3. \A q \in Seq(F) : LET m == <<"id">> \o q IN
        /\ Len(m) = Len(q) + 1 /\ m[1] = "id"
        /\ \A p \in 2 .. Len(m) : m[p] = q[p - 1]
  <2> TAKE q \in Seq(F)
  <2>1. Len(<<"id">>) = 1 /\ <<"id">>[1] = "id"
    OBVIOUS
  <2>2. /\ Len(<<"id">> \o q) = Len(q) + 1
        /\ \A i \in 1 .. Len(q) + 1 :
             (<<"id">> \o q)[i] = IF i <= 1 THEN <<"id">>[i] ELSE q[i - 1]
    BY <1>2, <2>1, ConcatProperties
  <2>3. Len(q) \in Nat
    OBVIOUS
  <2> QED BY <2>1, <2>2, <2>3
<1>4. /\ Len(Fields(id)) = Len(r) + 1 /\ Fields(id)[1] = "id"
      /\ \A p \in 2 .. Len(Fields(id)) : Fields(id)[p] = r[p - 1]
  BY <1>2, <1>3 DEF Fields, r
<1>5. \A p \in 2 .. Len(Fields(id)) : p - 1 \in 1 .. Len(r) /\ Fields(id)[p] \in RequestField
  BY <1>1, <1>4
<1>6. \A p, q \in 1 .. Len(Fields(id)) : Fields(id)[p] = Fields(id)[q] => p = q
  <2> TAKE p, q \in 1 .. Len(Fields(id))
  <2> SUFFICES ASSUME Fields(id)[p] = Fields(id)[q] PROVE p = q
    OBVIOUS
  <2>1. (p = 1 \/ p \in 2 .. Len(Fields(id))) /\ (q = 1 \/ q \in 2 .. Len(Fields(id)))
    BY <1>1, <1>4
  <2>2. CASE p = 1 \/ q = 1
    BY <1>2, <1>4, <1>5, <2>1, <2>2
  <2>3. CASE p # 1 /\ q # 1
    <3>1. p - 1 = q - 1
      BY <1>1, <1>4, <1>5, <2>1, <2>3
    <3> QED BY <1>1, <1>4, <3>1
  <2> QED BY <2>2, <2>3
<1>7. ASSUME NEW p \in 1 .. Len(Fields(id)) PROVE Place(id, Fields(id)[p]) = p
  BY <1>6 DEF Place
<1> QED BY <1>1, <1>2, <1>4, <1>5, <1>7 DEF r

\* The kinds of all requests, by client and number.
Kinds == [Clients \X (Nat \ {0}) -> RequestId]
Last(c) == <<c, asked[c]>>
Size(K, R) == Len(Fields(K[R]))
PlaceOf(K, d) == Place(K[d.of], d.field)

\* A datagram is a part of its request.
Placed(K, d) ==
  /\ PlaceOf(K, d) \in 1 .. Size(K, d.of) /\ d.field = Fields(K[d.of])[PlaceOf(K, d)]
  /\ d.field = "id" => d.value = K[d.of]

\* The field at place p of request R can be read when those before it have been.
Preceded(K, a, R, p, n) ==
  \/ p = 1
  \/ \E j \in 1 .. n : queue[j].of = R /\ PlaceOf(K, queue[j]) = p - 1
  \/ R \in parts /\ a = p

\* The datagrams of a request are in the queue in their order, without gaps, from the one
\* at place a that the server waits for.
QueueOrder(K, a) ==
  \A i \in DOMAIN queue : LET d == queue[i] IN
    /\ d.of[2] <= asked[d.of[1]] /\ Placed(K, d)
    /\ Preceded(K, a, d.of, PlaceOf(K, d), i - 1)
    /\ d.of \in parts => a <= PlaceOf(K, d)
    /\ \A j \in DOMAIN queue : queue[j].of = d.of /\ PlaceOf(K, queue[j]) = PlaceOf(K, d) => i = j
    /\ \A c \in Clients : d.of = Last(c) => PlaceOf(K, d) <= Size(K, d.of) - Len(todo[c])

ReadOrder(K, a) ==
  /\ want = <<>> <=> parts = {}
  /\ \A R \in parts : /\ parts = {R} /\ R \in Clients \X (Nat \ {0}) /\ R[2] <= asked[R[1]]
                      /\ msg["id"] = K[R] /\ a \in 2 .. Size(K, R) /\ want = Rest(K[R], a - 1)

\* What a client has not sent yet is the end of its last request.
TodoOrder(K, a) ==
  \A c \in Clients : todo[c] # <<>> =>
    /\ asked[c] > 0 /\ Len(todo[c]) <= Size(K, Last(c))
    /\ \A j \in DOMAIN todo[c] :
         /\ todo[c][j].of = Last(c) /\ Placed(K, todo[c][j])
         /\ PlaceOf(K, todo[c][j]) = Size(K, Last(c)) - Len(todo[c]) + j
    /\ Len(todo[c]) = Size(K, Last(c)) => Last(c) \notin parts
    /\ c \in reach =>
         Preceded(K, a, Last(c), Size(K, Last(c)) - Len(todo[c]) + 1, Len(queue))

Ordered(K, a) == QueueOrder(K, a) /\ ReadOrder(K, a) /\ TodoOrder(K, a)

\* The loop waits for what comes, or has been ended by the data of a text.
OrderInv ==
  lost = 0 /\ ~mixed =>
    \/ alive /\ \E K \in Kinds, a \in Nat : Ordered(K, a)
    \/ ~alive /\ clears /\ msg["id"] \in TextId

LEMMA InitOrder == Init => OrderInv
<1> SUFFICES ASSUME Init PROVE alive /\ \E K \in Kinds, a \in Nat : Ordered(K, a)
  BY DEF OrderInv
<1> DEFINE K == [R \in Clients \X (Nat \ {0}) |-> "LOGIN"]
<1>1. K \in Kinds
  BY DEF Kinds, RequestId
<1>2. Ordered(K, 0)
  BY DEF Init, Ordered, QueueOrder, ReadOrder, TodoOrder
<1> QED BY <1>1, <1>2 DEF Init

\* Sizes and places are numbers.
LEMMA Sizes ==
  ASSUME NEW K \in Kinds, NEW R \in Clients \X (Nat \ {0})
  PROVE  K[R] \in RequestId /\ Size(K, R) \in Nat \ {0}
<1>1. K[R] \in RequestId
  BY DEF Kinds
<1> QED BY <1>1, FieldsOf DEF Size

\* The client sends the next field behind those in the queue.
LEMMA SendtoOrder ==
  ASSUME TypeInv, NEW K \in Kinds, NEW a \in Nat, alive, Ordered(K, a), NEW c \in Clients, sendto(c)
  PROVE  Ordered(K, a)'
<1> DEFINE R == Last(c)
           d == Head(todo[c])
           S0 == Size(K, R)
           k == S0 - Len(todo[c]) + 1
           n == Len(queue)
<1>1. /\ todo[c] # <<>> /\ todo' = [todo EXCEPT ![c] = Tail(@)]
      /\ queue' = IF c \in reach THEN Append(queue, d) ELSE queue
      /\ UNCHANGED <<asked, parts, want, msg, reach>>
  BY DEF sendto, Reaches, netVars, readVars
<1>2. /\ todo \in [Clients -> Seq(RequestDatagram)] /\ queue \in Seq(RequestDatagram) /\ n \in Nat
      /\ asked \in [Clients -> Nat]
  BY DEF TypeInv, NetType, ClientType
<1>3. /\ todo[c] \in Seq(RequestDatagram) /\ Len(todo[c]) \in Nat \ {0} /\ d = todo[c][1]
      /\ todo'[c] \in Seq(RequestDatagram) /\ Len(todo'[c]) = Len(todo[c]) - 1
      /\ \A j \in DOMAIN todo'[c] : j + 1 \in DOMAIN todo[c] /\ todo'[c][j] = todo[c][j + 1]
      /\ \A e \in Clients \ {c} : todo'[e] = todo[e]
      /\ d \in RequestDatagram
  <2>1. todo[c] \in Seq(RequestDatagram) /\ todo[c] # <<>>
    BY <1>1, <1>2
  <2>2. \A s \in Seq(RequestDatagram) : s # <<>> =>
          /\ Len(s) \in Nat \ {0} /\ Head(s) = s[1] /\ Tail(s) \in Seq(RequestDatagram)
          /\ Len(Tail(s)) = Len(s) - 1
          /\ \A j \in DOMAIN Tail(s) : j + 1 \in DOMAIN s /\ Tail(s)[j] = s[j + 1]
          /\ Head(s) \in RequestDatagram
    OBVIOUS
  <2>3. todo'[c] = Tail(todo[c]) /\ \A e \in Clients \ {c} : todo'[e] = todo[e]
    BY <1>1, <1>2
  <2> QED BY <2>1, <2>2, <2>3
<1>4. /\ asked[c] > 0 /\ Len(todo[c]) <= S0
      /\ \A j \in DOMAIN todo[c] : /\ todo[c][j].of = R /\ Placed(K, todo[c][j])
                                   /\ PlaceOf(K, todo[c][j]) = S0 - Len(todo[c]) + j
      /\ Len(todo[c]) = S0 => R \notin parts
      /\ c \in reach => Preceded(K, a, R, k, n)
  BY <1>1 DEF Ordered, TodoOrder
<1>5. R \in Clients \X (Nat \ {0}) /\ S0 \in Nat \ {0} /\ k \in 1 .. S0
  <2>1. R \in Clients \X (Nat \ {0})
    BY <1>2, <1>4 DEF Last
  <2>2. S0 \in Nat \ {0}
    BY <2>1, Sizes
  <2> HIDE DEF S0
  <2> QED BY <1>3, <1>4, <2>1, <2>2
<1>6. d.of = R /\ Placed(K, d) /\ PlaceOf(K, d) = k
  <2>1. 1 \in DOMAIN todo[c]
    BY <1>3
  <2> QED BY <1>3, <1>4, <2>1
<1>7. \A e \in Clients : R = Last(e) => e = c
  BY DEF Last
<1>8. \A e \in Clients : Last(e)' = Last(e)
  BY <1>1 DEF Last
<1> HIDE DEF d, S0, R, k
<1>9. QueueOrder(K, a) /\ ReadOrder(K, a) /\ TodoOrder(K, a)
  BY DEF Ordered
<1>10. ReadOrder(K, a)'
  BY <1>1, <1>9 DEF ReadOrder
<1>11. CASE c \notin reach
  <2>1. queue' = queue /\ \A e \in Clients : Len(todo'[e]) <= Len(todo[e]) /\ Len(todo'[e]) \in Nat
        /\ Len(todo[e]) \in Nat
    BY <1>1, <1>2, <1>3, <1>11
  <2>2. \A i \in DOMAIN queue : queue[i].of \in Clients \X (Nat \ {0})
    BY <1>2 DEF RequestDatagram
  <2>3. QueueOrder(K, a)'
    <3> SUFFICES ASSUME NEW i \in DOMAIN queue, NEW e \in Clients, queue[i].of = Last(e)
                 PROVE  PlaceOf(K, queue[i]) <= Size(K, queue[i].of) - Len(todo'[e])
      BY <1>1, <1>8, <1>9, <2>1 DEF QueueOrder, Preceded
    <3>1. PlaceOf(K, queue[i]) <= Size(K, queue[i].of) - Len(todo[e])
      BY <1>9 DEF QueueOrder
    <3>2. Size(K, queue[i].of) \in Nat /\ PlaceOf(K, queue[i]) \in Nat
      BY <1>9, <2>2, Sizes DEF QueueOrder, Placed
    <3> QED BY <2>1, <3>1, <3>2
  <2>4. TodoOrder(K, a)'
    <3> SUFFICES ASSUME NEW e \in Clients, todo'[e] # <<>>
                 PROVE  /\ asked[e] > 0 /\ Len(todo'[e]) <= Size(K, Last(e))
                        /\ \A j \in DOMAIN todo'[e] :
                             /\ todo'[e][j].of = Last(e) /\ Placed(K, todo'[e][j])
                             /\ PlaceOf(K, todo'[e][j]) = Size(K, Last(e)) - Len(todo'[e]) + j
                        /\ Len(todo'[e]) = Size(K, Last(e)) => Last(e) \notin parts
                        /\ e \in reach =>
                             Preceded(K, a, Last(e), Size(K, Last(e)) - Len(todo'[e]) + 1, Len(queue))
      BY <1>1, <1>8, <2>1 DEF TodoOrder, Preceded
    <3>1. CASE e # c
      BY <1>3, <1>9, <3>1 DEF TodoOrder
    <3>2. CASE e = c
      <4>1. \A j \in DOMAIN todo'[c] : j \in Nat
        BY <1>3
      <4>2. \A j \in Nat : S0 - Len(todo[c]) + (j + 1) = S0 - Len(todo'[c]) + j
        <5>1. Len(todo[c]) \in Nat /\ Len(todo'[c]) = Len(todo[c]) - 1 /\ S0 \in Nat
          BY <1>3, <1>5
        <5> QED BY <5>1
      <4>3. /\ \A j \in DOMAIN todo'[c] :
                 /\ todo'[c][j].of = R /\ Placed(K, todo'[c][j])
                 /\ PlaceOf(K, todo'[c][j]) = S0 - Len(todo'[c]) + j
        BY <1>3, <1>4, <4>1, <4>2
      <4>4. Len(todo'[c]) <= S0 /\ Len(todo'[c]) # S0
        <5>1. Len(todo[c]) \in Nat /\ Len(todo'[c]) = Len(todo[c]) - 1 /\ S0 \in Nat
          BY <1>3, <1>5
        <5> QED BY <1>4, <5>1
      <4> QED BY <1>4, <1>11, <3>2, <4>3, <4>4 DEF S0, R
    <3> QED BY <3>1, <3>2
  <2> QED BY <1>10, <2>3, <2>4 DEF Ordered
<1>12. CASE c \in reach
  <2>1. /\ queue' \in Seq(RequestDatagram) /\ Len(queue') = n + 1
        /\ \A i \in 1 .. n : queue'[i] = queue[i]
        /\ queue'[n + 1] = d
        /\ DOMAIN queue' = 1 .. n + 1 /\ DOMAIN queue = 1 .. n
    BY <1>1, <1>2, <1>3, <1>12
  <2> HIDE DEF n
  <2> DEFINE Prec(Q, p, m) == \/ p = 1
                              \/ \E j \in 1 .. m : queue'[j].of = Q /\ PlaceOf(K, queue'[j]) = p - 1
                              \/ Q \in parts /\ a = p
  <2>3. n \in Nat /\ Len(todo[c]) \in Nat /\ Len(todo'[c]) = Len(todo[c]) - 1
    BY <1>2, <1>3 DEF n
  <2>4. ASSUME NEW i \in 1 .. n
        PROVE  /\ queue[i].of \in Clients \X (Nat \ {0}) /\ Size(K, queue[i].of) \in Nat
               /\ PlaceOf(K, queue[i]) \in Nat
               /\ \A e \in Clients : queue[i].of = Last(e) =>
                    /\ PlaceOf(K, queue[i]) <= Size(K, queue[i].of) - Len(todo'[e])
                    /\ e = c => PlaceOf(K, queue[i]) < k
    <3>1. queue[i].of \in Clients \X (Nat \ {0})
      BY <1>2, <2>1 DEF RequestDatagram
    <3>2. Size(K, queue[i].of) \in Nat
      BY <3>1, Sizes
    <3>3. PlaceOf(K, queue[i]) \in Nat
      BY <1>9, <2>1, <3>2 DEF QueueOrder, Placed
    <3>4. ASSUME NEW e \in Clients, queue[i].of = Last(e)
          PROVE  /\ PlaceOf(K, queue[i]) <= Size(K, queue[i].of) - Len(todo'[e])
                 /\ e = c => PlaceOf(K, queue[i]) < k
      <4>1. PlaceOf(K, queue[i]) <= Size(K, queue[i].of) - Len(todo[e])
        BY <1>9, <2>1, <3>4 DEF QueueOrder
      <4>2. CASE e # c
        BY <1>3, <4>1, <4>2
      <4>3. CASE e = c
        BY <2>3, <3>2, <3>3, <3>4, <4>1, <4>3 DEF R, S0, k
      <4> QED BY <4>2, <4>3
    <3> QED BY <3>1, <3>2, <3>3, <3>4
  <2>5. R \in parts => a <= k
    <3> SUFFICES ASSUME R \in parts PROVE a <= k
      OBVIOUS
    <3>1. k # 1
      BY <1>4, <1>5, <2>3 DEF k
    <3>2. Preceded(K, a, R, k, n)
      BY <1>4, <1>12
    <3>3. ASSUME NEW j \in 1 .. n, queue[j].of = R, PlaceOf(K, queue[j]) = k - 1
          PROVE  a <= k
      <4>1. a <= PlaceOf(K, queue[j])
        BY <1>9, <2>1, <3>3 DEF QueueOrder
      <4> QED BY <1>5, <3>3, <4>1
    <3> QED BY <1>5, <3>1, <3>2, <3>3 DEF Preceded
  <2>6. QueueOrder(K, a)'
    <3> SUFFICES ASSUME NEW i \in 1 .. n + 1
                 PROVE  LET h == queue'[i] IN
                        /\ h.of[2] <= asked[h.of[1]] /\ Placed(K, h)
                        /\ Prec(h.of, PlaceOf(K, h), i - 1)
                        /\ h.of \in parts => a <= PlaceOf(K, h)
                        /\ \A j \in 1 .. n + 1 :
                             queue'[j].of = h.of /\ PlaceOf(K, queue'[j]) = PlaceOf(K, h) => i = j
                        /\ \A e \in Clients :
                             h.of = Last(e) => PlaceOf(K, h) <= Size(K, h.of) - Len(todo'[e])
      BY <1>1, <1>8, <2>1 DEF QueueOrder, Preceded
    <3>1. CASE i \in 1 .. n
      <4>1. queue'[i] = queue[i] /\ i - 1 \in 0 .. n
        BY <2>1, <2>3, <3>1
      <4>2. /\ queue[i].of[2] <= asked[queue[i].of[1]] /\ Placed(K, queue[i])
            /\ Preceded(K, a, queue[i].of, PlaceOf(K, queue[i]), i - 1)
            /\ queue[i].of \in parts => a <= PlaceOf(K, queue[i])
            /\ \A j \in 1 .. n :
                 queue[j].of = queue[i].of /\ PlaceOf(K, queue[j]) = PlaceOf(K, queue[i]) => i = j
        BY <1>9, <2>1, <3>1 DEF QueueOrder
      <4>3. Prec(queue[i].of, PlaceOf(K, queue[i]), i - 1)
        <5>1. \A j \in 1 .. i - 1 : queue'[j] = queue[j]
          BY <2>1, <2>3, <3>1
        <5> QED BY <1>1, <4>1, <4>2, <5>1 DEF Preceded
      <4>4. ASSUME NEW j \in 1 .. n + 1, queue'[j].of = queue[i].of,
                   PlaceOf(K, queue'[j]) = PlaceOf(K, queue[i])
            PROVE  i = j
        <5>1. CASE j \in 1 .. n
          BY <2>1, <4>2, <4>4, <5>1
        <5>2. CASE j = n + 1
          <6>1. queue[i].of = R /\ PlaceOf(K, queue[i]) = k
            BY <1>6, <2>1, <4>4, <5>2
          <6>2. PlaceOf(K, queue[i]) < k
            BY <2>4, <3>1, <6>1 DEF R
          <6> QED BY <2>4, <3>1, <6>1, <6>2
        <5> QED BY <2>3, <5>1, <5>2
      <4>5. \A e \in Clients : queue[i].of = Last(e) =>
              PlaceOf(K, queue[i]) <= Size(K, queue[i].of) - Len(todo'[e])
        BY <2>4, <3>1
      <4> HIDE DEF Prec
      <4> QED BY <4>1, <4>2, <4>3, <4>4, <4>5
    <3>2. CASE i = n + 1
      <4>1. queue'[i] = d /\ i - 1 = n
        BY <2>1, <2>3, <3>2
      <4>2. d.of[2] <= asked[d.of[1]]
        BY <1>2, <1>6 DEF R, Last
      <4>3. Prec(d.of, PlaceOf(K, d), n)
        <5>1. \A j \in 1 .. n : queue'[j] = queue[j]
          BY <2>1
        <5> QED BY <1>1, <1>4, <1>6, <1>12, <5>1 DEF Preceded
      <4>4. ASSUME NEW j \in 1 .. n + 1, queue'[j].of = d.of, PlaceOf(K, queue'[j]) = PlaceOf(K, d)
            PROVE  i = j
        <5>1. CASE j \in 1 .. n
          <6>1. queue[j].of = R /\ PlaceOf(K, queue[j]) = k
            BY <1>6, <2>1, <4>4, <5>1
          <6>2. PlaceOf(K, queue[j]) < k
            BY <2>4, <5>1, <6>1 DEF R
          <6> QED BY <2>4, <5>1, <6>1, <6>2
        <5> QED BY <2>3, <3>2, <5>1
      <4>5. \A e \in Clients : d.of = Last(e) => PlaceOf(K, d) <= Size(K, d.of) - Len(todo'[e])
        <5>1. k <= S0 - Len(todo'[c])
          BY <1>5, <2>3 DEF k
        <5> QED BY <1>6, <1>7, <5>1 DEF S0
      <4> HIDE DEF Prec
      <4> QED BY <1>6, <2>5, <4>1, <4>2, <4>3, <4>4, <4>5
    <3> QED BY <2>3, <3>1, <3>2
  <2>7. TodoOrder(K, a)'
    <3> SUFFICES ASSUME NEW e \in Clients, todo'[e] # <<>>
                 PROVE  /\ asked[e] > 0 /\ Len(todo'[e]) <= Size(K, Last(e))
                        /\ \A j \in DOMAIN todo'[e] :
                             /\ todo'[e][j].of = Last(e) /\ Placed(K, todo'[e][j])
                             /\ PlaceOf(K, todo'[e][j]) = Size(K, Last(e)) - Len(todo'[e]) + j
                        /\ Len(todo'[e]) = Size(K, Last(e)) => Last(e) \notin parts
                        /\ e \in reach => Prec(Last(e), Size(K, Last(e)) - Len(todo'[e]) + 1, n + 1)
      BY <1>1, <1>8, <2>1 DEF TodoOrder, Preceded
    <3>1. CASE e # c
      <4>1. todo'[e] = todo[e]
        BY <1>3, <3>1
      <4>2. e \in reach => Preceded(K, a, Last(e), Size(K, Last(e)) - Len(todo[e]) + 1, n)
        BY <1>9, <4>1 DEF TodoOrder, n
      <4>3. \A j \in 1 .. n : j \in 1 .. n + 1 /\ queue'[j] = queue[j]
        BY <2>1, <2>3
      <4> QED BY <1>9, <4>1, <4>2, <4>3 DEF TodoOrder, Preceded
    <3>2. CASE e = c
      <4>1. \A j \in DOMAIN todo'[c] : j \in Nat
        BY <1>3
      <4>2. \A j \in Nat : S0 - Len(todo[c]) + (j + 1) = S0 - Len(todo'[c]) + j
        <5>1. S0 \in Nat
          BY <1>5
        <5> QED BY <2>3, <5>1
      <4>3. \A j \in DOMAIN todo'[c] : /\ todo'[c][j].of = R /\ Placed(K, todo'[c][j])
                                       /\ PlaceOf(K, todo'[c][j]) = S0 - Len(todo'[c]) + j
        BY <1>3, <1>4, <4>1, <4>2
      <4>4. Len(todo'[c]) < S0 /\ S0 - Len(todo'[c]) + 1 - 1 = k
        BY <1>4, <1>5, <2>3 DEF k
      <4>5. n + 1 \in 1 .. n + 1 /\ queue'[n + 1].of = R
            /\ PlaceOf(K, queue'[n + 1]) = S0 - Len(todo'[c]) + 1 - 1
        BY <1>6, <2>1, <2>3, <4>4
      <4>6. Len(todo'[c]) <= S0 /\ Len(todo'[c]) # S0
        BY <1>5, <2>3, <4>4
      <4>7. Prec(R, S0 - Len(todo'[c]) + 1, n + 1)
        <5> DEFINE p == S0 - Len(todo'[c]) + 1
        <5>1. PlaceOf(K, queue'[n + 1]) = p - 1
          BY <1>5, <2>3, <4>5
        <5> HIDE DEF p
        <5>2. Prec(R, p, n + 1)
          BY <4>5, <5>1
        <5> QED BY <5>2 DEF p
      <4> HIDE DEF Prec
      <4> QED BY <1>4, <3>2, <4>3, <4>6, <4>7 DEF S0, R
    <3> QED BY <3>1, <3>2
  <2> QED BY <1>10, <2>6, <2>7 DEF Ordered
<1> QED BY <1>11, <1>12

\* The order does not depend on what the other steps change.
LEMMA OrderFrame ==
  ASSUME NEW K, NEW a, Ordered(K, a), UNCHANGED <<asked, todo, queue, parts, want, msg, reach>>
  PROVE  Ordered(K, a)'
BY DEF Ordered, QueueOrder, ReadOrder, TodoOrder, Preceded, Last

\* The datagrams of a request are its fields, in order.
LEMMA DatagramsPlaces ==
  ASSUME ClientType, NEW c \in Clients, NEW id \in RequestId, NEW n, NEW pw, NEW r, NEW to,
         NEW i \in 1 .. Len(Fields(id))
  PROVE  LET d == Datagrams(c, id, n, pw, r, to)[i] IN
         /\ d.field = Fields(id)[i] /\ d.of = <<c, asked[c] + 1>>
         /\ d.field = "id" => d.value = id
<1> DEFINE D == Datagrams(c, id, n, pw, r, to)
           f == IF i = 1 THEN "id" ELSE SentRequest(id)[i - 1]
           v == IF i = 1 THEN id ELSE Says(id, f, n, pw, r, to)
<1>1. Len(Fields(id)) = Len(SentRequest(id)) + 1
  BY FieldsOf, RequestForms
<1>2. D[i] = [field |-> f, value |-> v, of |-> <<c, asked[c] + 1>>]
  BY <1>1 DEF Datagrams
<1>3. f = Fields(id)[i]
  BY FieldsOf, RequestForms
<1>4. f = "id" => i = 1
  BY FieldsOf, <1>3
<1> HIDE DEF D
<1>5. D[i].field = f /\ D[i].value = v /\ D[i].of = <<c, asked[c] + 1>>
  BY <1>2
<1> QED BY <1>3, <1>4, <1>5 DEF D

\* A new request has a number of its own, and all its fields are still to be sent.
LEMMA StartsOrder ==
  ASSUME TypeInv, NEW K \in Kinds, NEW a \in Nat, Ordered(K, a), NEW c \in Clients,
         NEW id \in RequestId, NEW n, NEW pw, NEW r, NEW to, Starts(c, id, n, pw, r, to),
         Datagrams(c, id, n, pw, r, to) \in Seq(RequestDatagram),
         Len(Datagrams(c, id, n, pw, r, to)) = Len(ReadRequest(id)) + 1,
         UNCHANGED <<queue, parts, want, msg, reach>>
  PROVE  \E J \in Kinds : Ordered(J, a)'
<1>0. PICK N, J : N = <<c, asked[c] + 1>> /\ J = [K EXCEPT ![N] = id]
  OBVIOUS
<1> DEFINE D == Datagrams(c, id, n, pw, r, to)
<1>1. /\ todo \in [Clients -> Seq(RequestDatagram)] /\ queue \in Seq(RequestDatagram)
      /\ asked \in [Clients -> Nat]
  BY DEF TypeInv, NetType, ClientType
<1>2. /\ todo[c] = <<>> /\ todo' = [todo EXCEPT ![c] = D] /\ asked' = [asked EXCEPT ![c] = @ + 1]
  BY DEF Starts
<1>3. /\ N \in Clients \X (Nat \ {0}) /\ J \in Kinds /\ J[N] = id
      /\ \A R \in Clients \X (Nat \ {0}) : R # N => J[R] = K[R]
  BY <1>0, <1>1 DEF Kinds
<1>4. D \in Seq(RequestDatagram) /\ Len(D) = Len(Fields(id))
      /\ \A i \in 1 .. Len(D) : /\ D[i].field = Fields(id)[i] /\ D[i].of = N
                                /\ D[i].field = "id" => D[i].value = id
  <2>1. ClientType
    BY DEF TypeInv
  <2> QED BY <1>0, <2>1, DatagramsPlaces, FieldsOf
<1> HIDE DEF D
<1>5. /\ todo'[c] = D /\ Last(c)' = N
      /\ \A e \in Clients \ {c} : todo'[e] = todo[e] /\ Last(e)' = Last(e) /\ asked'[e] = asked[e]
      /\ asked'[c] = asked[c] + 1
  BY <1>0, <1>1, <1>2 DEF Last
<1>6. ASSUME NEW R \in Clients \X (Nat \ {0}), R[2] <= asked[R[1]]
      PROVE  R # N /\ Size(J, R) = Size(K, R) /\ R[2] <= asked'[R[1]]
  <2>1. R # N
    BY <1>0, <1>1, <1>6
  <2>2. J[R] = K[R]
    BY <1>3, <2>1
  <2>3. R[1] \in Clients /\ R[2] \in Nat
    OBVIOUS
  <2>4. R[2] <= asked'[R[1]]
    <3>1. CASE R[1] = c
      BY <1>1, <1>5, <1>6, <2>3, <3>1
    <3>2. CASE R[1] # c
      <4>1. asked'[R[1]] = asked[R[1]]
        BY <1>5, <2>3, <3>2
      <4> QED BY <1>6, <4>1
    <3> QED BY <3>1, <3>2
  <2> QED BY <2>1, <2>2, <2>4 DEF Size
<1>7. ASSUME NEW d \in RequestDatagram, d.of[2] <= asked[d.of[1]]
      PROVE  /\ PlaceOf(J, d) = PlaceOf(K, d) /\ (Placed(J, d) <=> Placed(K, d))
             /\ Size(J, d.of) = Size(K, d.of) /\ d.of # N /\ d.of[2] <= asked'[d.of[1]]
  <2>1. d.of \in Clients \X (Nat \ {0})
    BY DEF RequestDatagram
  <2>2. J[d.of] = K[d.of]
    BY <1>3, <1>6, <1>7, <2>1
  <2> QED BY <1>6, <1>7, <2>1, <2>2 DEF PlaceOf, Placed, Size
<1>8. QueueOrder(K, a) /\ ReadOrder(K, a) /\ TodoOrder(K, a)
  BY DEF Ordered
<1>9. \A i \in DOMAIN queue : queue[i] \in RequestDatagram /\ queue[i].of[2] <= asked[queue[i].of[1]]
  BY <1>1, <1>8 DEF QueueOrder
<1>10. \A i \in DOMAIN queue : \A j \in 1 .. i - 1 : j \in DOMAIN queue
  BY <1>1
<1>11. QueueOrder(J, a)'
  <2> SUFFICES ASSUME NEW i \in DOMAIN queue
               PROVE  LET d == queue[i] IN
                      /\ d.of[2] <= asked'[d.of[1]] /\ Placed(J, d)
                      /\ Preceded(J, a, d.of, PlaceOf(J, d), i - 1)
                      /\ d.of \in parts => a <= PlaceOf(J, d)
                      /\ \A j \in DOMAIN queue :
                           queue[j].of = d.of /\ PlaceOf(J, queue[j]) = PlaceOf(J, d) => i = j
                      /\ \A e \in Clients :
                           d.of = Last(e)' => PlaceOf(J, d) <= Size(J, d.of) - Len(todo'[e])
    BY DEF QueueOrder, Preceded
  <2>1. Preceded(K, a, queue[i].of, PlaceOf(K, queue[i]), i - 1)
    BY <1>8 DEF QueueOrder
  <2>2. Preceded(J, a, queue[i].of, PlaceOf(J, queue[i]), i - 1)
    BY <1>7, <1>9, <1>10, <2>1 DEF Preceded
  <2>3. \A e \in Clients : queue[i].of = Last(e)' =>
          PlaceOf(J, queue[i]) <= Size(J, queue[i].of) - Len(todo'[e])
    BY <1>5, <1>7, <1>8, <1>9 DEF QueueOrder
  <2> QED BY <1>7, <1>8, <1>9, <2>2, <2>3 DEF QueueOrder
<1>12. ReadOrder(J, a)'
  <2> SUFFICES ASSUME NEW R \in parts
               PROVE  /\ R \in Clients \X (Nat \ {0}) /\ R[2] <= asked'[R[1]] /\ parts = {R}
                      /\ msg["id"] = J[R] /\ a \in 2 .. Size(J, R) /\ want = Rest(J[R], a - 1)
    BY <1>8 DEF ReadOrder
  <2>1. /\ R \in Clients \X (Nat \ {0}) /\ R[2] <= asked[R[1]] /\ parts = {R}
        /\ msg["id"] = K[R] /\ a \in 2 .. Size(K, R) /\ want = Rest(K[R], a - 1)
    BY <1>8 DEF ReadOrder
  <2> QED BY <1>3, <1>6, <2>1
<1>13. TodoOrder(J, a)'
  <2> SUFFICES ASSUME NEW e \in Clients, todo'[e] # <<>>
               PROVE  /\ asked'[e] > 0 /\ Len(todo'[e]) <= Size(J, Last(e)')
                      /\ \A j \in DOMAIN todo'[e] :
                           /\ todo'[e][j].of = Last(e)' /\ Placed(J, todo'[e][j])
                           /\ PlaceOf(J, todo'[e][j]) = Size(J, Last(e)') - Len(todo'[e]) + j
                      /\ Len(todo'[e]) = Size(J, Last(e)') => Last(e)' \notin parts
                      /\ e \in reach =>
                           Preceded(J, a, Last(e)', Size(J, Last(e)') - Len(todo'[e]) + 1, Len(queue))
    BY DEF TodoOrder, Preceded
  <2>1. CASE e = c
    <3>1. Size(J, N) = Len(D) /\ Len(D) \in Nat /\ Len(D) > 0
      BY <1>3, <1>4, FieldsOf DEF Size
    <3>2. \A j \in 1 .. Len(D) : PlaceOf(J, D[j]) = j /\ Placed(J, D[j]) /\ D[j].of = N
      BY <1>3, <1>4, FieldsOf DEF PlaceOf, Placed, Size
    <3>3. \A j \in 1 .. Len(D) : j = Len(D) - Len(D) + j
      BY <3>1
    <3>4. DOMAIN D = 1 .. Len(D)
      BY <1>4
    <3>5. N \notin parts
      <4>1. \A R \in parts : R \in Clients \X (Nat \ {0}) /\ R[2] <= asked[R[1]]
        BY <1>8 DEF ReadOrder
      <4> QED BY <1>6, <4>1
    <3>6. Preceded(J, a, N, Len(D) - Len(D) + 1, Len(queue))
      BY <3>1 DEF Preceded
    <3>7. asked'[c] > 0
      BY <1>1, <1>5
    <3> QED BY <1>5, <2>1, <3>1, <3>2, <3>3, <3>4, <3>5, <3>6, <3>7
  <2>2. CASE e # c
    <3>1. todo'[e] = todo[e] /\ Last(e)' = Last(e) /\ asked'[e] = asked[e]
      BY <1>5, <2>2
    <3>2. /\ asked[e] > 0 /\ Len(todo[e]) <= Size(K, Last(e))
          /\ \A j \in DOMAIN todo[e] :
               /\ todo[e][j].of = Last(e) /\ Placed(K, todo[e][j])
               /\ PlaceOf(K, todo[e][j]) = Size(K, Last(e)) - Len(todo[e]) + j
          /\ Len(todo[e]) = Size(K, Last(e)) => Last(e) \notin parts
          /\ e \in reach =>
               Preceded(K, a, Last(e), Size(K, Last(e)) - Len(todo[e]) + 1, Len(queue))
      BY <1>8, <3>1 DEF TodoOrder
    <3>3. Last(e) \in Clients \X (Nat \ {0}) /\ Last(e)[2] <= asked[Last(e)[1]]
      BY <1>1, <3>2 DEF Last
    <3>4. Size(J, Last(e)) = Size(K, Last(e))
      BY <1>6, <3>3
    <3>5. \A j \in DOMAIN todo[e] : /\ PlaceOf(J, todo[e][j]) = PlaceOf(K, todo[e][j])
                                    /\ Placed(J, todo[e][j])
      <4>1. \A j \in DOMAIN todo[e] : todo[e][j] \in RequestDatagram
        BY <1>1
      <4> QED BY <1>7, <3>2, <3>3, <4>1
    <3>6. e \in reach => Preceded(J, a, Last(e), Size(J, Last(e)) - Len(todo[e]) + 1, Len(queue))
      <4>1. \A j \in 1 .. Len(queue) : PlaceOf(J, queue[j]) = PlaceOf(K, queue[j])
        BY <1>1, <1>7, <1>9
      <4> QED BY <3>2, <3>4, <4>1 DEF Preceded
    <3> QED BY <3>1, <3>2, <3>4, <3>5, <3>6
  <2> QED BY <2>1, <2>2
<1> QED BY <1>3, <1>11, <1>12, <1>13 DEF Ordered

\* The server reads the first datagram of the queue, which is the field it waits for.
LEMMA ReceiveOrder ==
  ASSUME TypeInv, NEW K \in Kinds, NEW a \in Nat, Ordered(K, a), queue # <<>>, queue' = Tail(queue),
         UNCHANGED <<asked, todo, reach>>, NEW R, R = Head(queue).of,
         NEW p, p = PlaceOf(K, Head(queue)),
         \/ parts = {} /\ p = 1
         \/ parts = {R} /\ p = a,
         msg'["id"] = K[R],
         p < Size(K, R) => parts' = {R} /\ want' = Rest(K[R], p),
         p = Size(K, R) => parts' = {} /\ want' = <<>>
  PROVE  Ordered(K, p + 1)'
<1> DEFINE n == Len(queue)
<1>1. /\ todo \in [Clients -> Seq(RequestDatagram)] /\ queue \in Seq(RequestDatagram)
      /\ asked \in [Clients -> Nat]
  BY DEF TypeInv, NetType, ClientType
<1>2. /\ n \in Nat \ {0} /\ DOMAIN queue = 1 .. n /\ DOMAIN queue' = 1 .. n - 1 /\ Len(queue') = n - 1
      /\ Head(queue) = queue[1] /\ \A i \in 1 .. n - 1 : queue'[i] = queue[i + 1]
      /\ \A i \in 1 .. n : queue[i] \in RequestDatagram
  <2>1. \A s \in Seq(RequestDatagram) : s # <<>> =>
          /\ Len(s) \in Nat \ {0} /\ DOMAIN s = 1 .. Len(s) /\ DOMAIN Tail(s) = 1 .. Len(s) - 1
          /\ Len(Tail(s)) = Len(s) - 1
          /\ Head(s) = s[1] /\ \A i \in 1 .. Len(s) - 1 : Tail(s)[i] = s[i + 1]
          /\ \A i \in 1 .. Len(s) : s[i] \in RequestDatagram
    OBVIOUS
  <2> QED BY <1>1, <2>1
<1> HIDE DEF n
<1>3. QueueOrder(K, a) /\ ReadOrder(K, a) /\ TodoOrder(K, a)
  BY DEF Ordered
<1>4. ASSUME NEW i \in 1 .. n
      PROVE  LET d == queue[i] IN
             /\ d.of \in Clients \X (Nat \ {0}) /\ Size(K, d.of) \in Nat \ {0}
             /\ d.of[2] <= asked[d.of[1]] /\ Placed(K, d)
             /\ PlaceOf(K, d) \in 1 .. Size(K, d.of)
             /\ Preceded(K, a, d.of, PlaceOf(K, d), i - 1)
             /\ d.of \in parts => a <= PlaceOf(K, d)
             /\ \A j \in 1 .. n :
                  queue[j].of = d.of /\ PlaceOf(K, queue[j]) = PlaceOf(K, d) => i = j
             /\ \A c \in Clients : d.of = Last(c) => PlaceOf(K, d) <= Size(K, d.of) - Len(todo[c])
  <2>1. queue[i].of \in Clients \X (Nat \ {0})
    BY <1>2 DEF RequestDatagram
  <2>2. Size(K, queue[i].of) \in Nat \ {0}
    BY <2>1, Sizes
  <2> QED BY <1>2, <1>3, <2>1, <2>2 DEF QueueOrder, Placed
<1>5. /\ R \in Clients \X (Nat \ {0}) /\ Size(K, R) \in Nat \ {0} /\ p \in 1 .. Size(K, R)
      /\ R[2] <= asked[R[1]] /\ queue[1].of = R /\ PlaceOf(K, queue[1]) = p /\ 1 \in 1 .. n
      /\ \A c \in Clients : R = Last(c) => p <= Size(K, R) - Len(todo[c])
  BY <1>2, <1>4
<1>6. \/ parts' = {R} /\ p < Size(K, R) /\ want' = Rest(K[R], p)
      \/ parts' = {} /\ p = Size(K, R) /\ want' = <<>>
  BY <1>5
<1>7. \A c \in Clients : Last(c)' = Last(c)
  BY DEF Last
\* What was preceded still is, without the first.
<1> DEFINE Prec(Q, q, m) == \/ q = 1
                            \/ \E j \in 1 .. m : queue'[j].of = Q /\ PlaceOf(K, queue'[j]) = q - 1
                            \/ Q \in parts' /\ p + 1 = q
<1>8. ASSUME NEW Q, NEW q \in 1 .. Size(K, Q), NEW m \in 0 .. n - 1, Preceded(K, a, Q, q, m + 1),
             ~(Q = R /\ q = p)
      PROVE  Prec(Q, q, m)
  <2>1. CASE q = 1
    BY <2>1
  <2>2. ASSUME NEW j \in 1 .. m + 1, queue[j].of = Q, PlaceOf(K, queue[j]) = q - 1
        PROVE  Prec(Q, q, m)
    <3>1. CASE j = 1
      <4>1. Q = R /\ p = q - 1
        BY <1>5, <2>2, <3>1
      <4>2. p + 1 = q /\ p < Size(K, R)
        BY <1>5, <4>1
      <4> QED BY <1>6, <4>1, <4>2
    <3>2. CASE j # 1
      <4>1. j - 1 \in 1 .. m /\ j - 1 \in 1 .. n - 1 /\ j - 1 + 1 = j
        BY <1>2, <3>2
      <4>2. queue'[j - 1] = queue[j]
        BY <1>2, <4>1
      <4>3. \E l \in 1 .. m : queue'[l].of = Q /\ PlaceOf(K, queue'[l]) = q - 1
        BY <2>2, <4>1, <4>2
      <4> QED BY <4>3
    <3> QED BY <3>1, <3>2
  <2>3. CASE Q \in parts /\ a = q
    BY <1>8, <2>3
  <2> HIDE DEF Prec
  <2> QED BY <1>8, <2>1, <2>2, <2>3 DEF Preceded
<1>9. QueueOrder(K, p + 1)'
  <2> SUFFICES ASSUME NEW i \in 1 .. n - 1
               PROVE  LET d == queue'[i] IN
                      /\ d.of[2] <= asked[d.of[1]] /\ Placed(K, d)
                      /\ Prec(d.of, PlaceOf(K, d), i - 1)
                      /\ d.of \in parts' => p + 1 <= PlaceOf(K, d)
                      /\ \A j \in 1 .. n - 1 :
                           queue'[j].of = d.of /\ PlaceOf(K, queue'[j]) = PlaceOf(K, d) => i = j
                      /\ \A c \in Clients :
                           d.of = Last(c) => PlaceOf(K, d) <= Size(K, d.of) - Len(todo[c])
    BY <1>2, <1>7, ZenonT(30) DEF QueueOrder, Preceded
  <2> DEFINE d == queue[i + 1]
  <2>1. queue'[i] = d /\ i + 1 \in 1 .. n /\ i - 1 \in 0 .. n - 1 /\ (i + 1) - 1 = i /\ i - 1 + 1 = i
        /\ i + 1 # 1
    BY <1>2
  <2>2. /\ d.of[2] <= asked[d.of[1]] /\ Placed(K, d) /\ PlaceOf(K, d) \in 1 .. Size(K, d.of)
        /\ Size(K, d.of) \in Nat
        /\ Preceded(K, a, d.of, PlaceOf(K, d), i)
        /\ d.of \in parts => a <= PlaceOf(K, d)
        /\ \A j \in 1 .. n : queue[j].of = d.of /\ PlaceOf(K, queue[j]) = PlaceOf(K, d) => i + 1 = j
        /\ \A c \in Clients : d.of = Last(c) => PlaceOf(K, d) <= Size(K, d.of) - Len(todo[c])
    BY <1>4, <2>1
  <2> HIDE DEF d
  <2>3. ~(d.of = R /\ PlaceOf(K, d) = p)
    BY <1>5, <2>1, <2>2
  <2>4. Prec(d.of, PlaceOf(K, d), i - 1)
    <3>1. Preceded(K, a, d.of, PlaceOf(K, d), (i - 1) + 1)
      BY <2>1, <2>2
    <3> HIDE DEF Prec
    <3> QED BY <1>8, <2>1, <2>2, <2>3, <3>1
  <2>5. d.of \in parts' => p + 1 <= PlaceOf(K, d)
    <3> SUFFICES ASSUME d.of = R PROVE p + 1 <= PlaceOf(K, d)
      BY <1>6
    <3>1. p <= PlaceOf(K, d)
      BY <1>5, <2>2
    <3> QED BY <1>5, <2>2, <2>3, <3>1
  <2>6. ASSUME NEW j \in 1 .. n - 1, queue'[j].of = d.of, PlaceOf(K, queue'[j]) = PlaceOf(K, d)
        PROVE  i = j
    <3>1. j + 1 \in 1 .. n /\ queue'[j] = queue[j + 1]
      BY <1>2
    <3>2. i + 1 = j + 1
      BY <2>2, <2>6, <3>1
    <3> QED BY <3>2
  <2> HIDE DEF Prec
  <2> QED BY <2>1, <2>2, <2>4, <2>5, <2>6
<1>10. ReadOrder(K, p + 1)'
  <2>1. CASE parts' = {}
    BY <1>6, <2>1 DEF ReadOrder
  <2>2. CASE parts' = {R}
    <3>1. p < Size(K, R) /\ want' = Rest(K[R], p) /\ parts' # {}
      BY <1>6, <2>2
    <3>2. K[R] \in RequestId /\ p \in 1 .. Len(ReadRequest(K[R]))
      <4>1. K[R] \in RequestId
        BY <1>5 DEF Kinds
      <4>2. Size(K, R) = Len(ReadRequest(K[R])) + 1 /\ Len(ReadRequest(K[R])) \in Nat
        BY <4>1, FieldsOf, RequestFields DEF Size
      <4> QED BY <1>5, <3>1, <4>1, <4>2
    <3>3. want' # <<>>
      BY <3>1, <3>2, RestOf
    <3>4. p + 1 \in 2 .. Size(K, R) /\ (p + 1) - 1 = p
      BY <1>5, <3>1
    <3> QED BY <1>5, <2>2, <3>1, <3>3, <3>4 DEF ReadOrder
  <2> QED BY <1>6, <2>1, <2>2
<1>11. TodoOrder(K, p + 1)'
  <2> SUFFICES ASSUME NEW e \in Clients, todo[e] # <<>>
               PROVE  /\ asked[e] > 0 /\ Len(todo[e]) <= Size(K, Last(e))
                      /\ \A j \in DOMAIN todo[e] :
                           /\ todo[e][j].of = Last(e) /\ Placed(K, todo[e][j])
                           /\ PlaceOf(K, todo[e][j]) = Size(K, Last(e)) - Len(todo[e]) + j
                      /\ Len(todo[e]) = Size(K, Last(e)) => Last(e) \notin parts'
                      /\ e \in reach =>
                           Prec(Last(e), Size(K, Last(e)) - Len(todo[e]) + 1, n - 1)
    BY <1>2, <1>7 DEF TodoOrder, Preceded
  <2> DEFINE q == Size(K, Last(e)) - Len(todo[e]) + 1
  <2>1. /\ asked[e] > 0 /\ Len(todo[e]) <= Size(K, Last(e))
        /\ \A j \in DOMAIN todo[e] :
             /\ todo[e][j].of = Last(e) /\ Placed(K, todo[e][j])
             /\ PlaceOf(K, todo[e][j]) = Size(K, Last(e)) - Len(todo[e]) + j
        /\ e \in reach => Preceded(K, a, Last(e), q, n)
    BY <1>3 DEF TodoOrder, n
  <2>2. Last(e) \in Clients \X (Nat \ {0})
    BY <1>1, <2>1 DEF Last
  <2>3. Size(K, Last(e)) \in Nat
    BY <2>2, Sizes
  <2>4. Len(todo[e]) \in Nat \ {0}
    BY <1>1
  <2>5. q \in 1 .. Size(K, Last(e)) /\ (R = Last(e) => p < q)
    <3>1. \A s, l \in Nat : l # 0 /\ l <= s => s - l + 1 \in 1 .. s
      OBVIOUS
    <3>2. q \in 1 .. Size(K, Last(e))
      BY <2>1, <2>3, <2>4, <3>1
    <3>3. R = Last(e) => p <= Size(K, R) - Len(todo[e])
      BY <1>5
    <3>4. R = Last(e) => p < q
      <4> SUFFICES ASSUME R = Last(e) PROVE p < q
        OBVIOUS
      <4>1. \A s, l \in Nat : \A b \in 1 .. s : b <= s - l => b < s - l + 1
        OBVIOUS
      <4> QED BY <1>5, <2>3, <2>4, <3>3, <4>1
    <3> QED BY <3>2, <3>4
  <2>6. Len(todo[e]) = Size(K, Last(e)) => Last(e) \notin parts'
    <3> SUFFICES ASSUME Len(todo[e]) = Size(K, Last(e)), R = Last(e) PROVE FALSE
      BY <1>6
    <3>1. p <= Size(K, R) - Len(todo[e])
      BY <1>5
    <3> QED BY <1>5, <2>3, <3>1
  <2>7. e \in reach => Prec(Last(e), q, n - 1)
    <3> SUFFICES ASSUME e \in reach PROVE Prec(Last(e), q, n - 1)
      OBVIOUS
    <3>1. n - 1 \in 0 .. n - 1 /\ (n - 1) + 1 = n
      BY <1>2
    <3>2. ~(Last(e) = R /\ q = p)
      BY <1>5, <2>5
    <3> HIDE DEF q, Prec
    <3> QED BY <1>8, <2>1, <2>5, <3>1, <3>2
  <2> HIDE DEF Prec
  <2> QED BY <2>1, <2>6, <2>7
<1> QED BY <1>9, <1>10, <1>11 DEF Ordered

\* What a client does leaves the order as it is.
LEMMA ClientOrder ==
  ASSUME TypeInv, NEW K \in Kinds, NEW a \in Nat, alive, Ordered(K, a), NEW c \in Clients, client(c)
  PROVE  \E J \in Kinds : Ordered(J, a)'
<1>1. ClientType
  BY DEF TypeInv
<1>2. ASSUME ask(c, "REGISTER_USER") \/ ask(c, "LOGIN")
      PROVE  \E J \in Kinds : Ordered(J, a)'
  <2>1. PICK id \in {"REGISTER_USER", "LOGIN"} : ask(c, id)
    BY <1>2
  <2>2. PICK n \in Names, pw \in Passwords : Starts(c, id, n, pw, None, None)
    BY <2>1 DEF ask
  <2>3. UNCHANGED <<queue, parts, want, msg, reach>>
    BY <2>1 DEF ask, Server, netVars, readVars
  <2>4. id \in RequestId /\ id \notin RoomId \cup TextId
    BY DEF RequestId, RoomId, TextId
  <2>5. /\ Datagrams(c, id, n, pw, None, None) \in Seq(RequestDatagram)
        /\ Len(Datagrams(c, id, n, pw, None, None)) = Len(ReadRequest(id)) + 1
    BY <1>1, <2>4, DatagramsType
  <2> QED BY <2>2, <2>3, <2>4, <2>5, StartsOrder
<1>3. ASSUME control_user_input(c)
      PROVE  \E J \in Kinds : Ordered(J, a)'
  <2>1. PICK id \in ListId \cup RoomId \cup TextId, r \in Rooms, n \in Names \ {nick[c]} :
          Starts(c, id, nick[c], None, r, n)
    BY <1>3 DEF control_user_input
  <2>2. phase[c] = "in" /\ UNCHANGED <<queue, parts, want, msg, reach>>
    BY <1>3 DEF control_user_input, Server, netVars, readVars
  <2>3. id \in RequestId /\ id \notin {"REGISTER_USER", "LOGIN"}
    BY DEF RequestId, ListId, RoomId, TextId
  <2>4. nick[c] \in Names
    BY <1>1, <2>2 DEF ClientType
  <2>5. /\ Datagrams(c, id, nick[c], None, r, n) \in Seq(RequestDatagram)
        /\ Len(Datagrams(c, id, nick[c], None, r, n)) = Len(ReadRequest(id)) + 1
    BY <1>1, <2>3, <2>4, DatagramsType
  <2> QED BY <2>1, <2>2, <2>3, <2>5, StartsOrder
<1>4. CASE sendto(c)
  BY <1>4, SendtoOrder
<1>5. CASE close_socket(c) \/ read_id(c) \/ read_field(c) \/ read_data(c)
  <2>1. UNCHANGED <<asked, todo, queue, parts, want, msg, reach>>
    BY <1>5 DEF close_socket, read_id, read_field, read_data, Reads, Server, netVars, readVars
  <2> QED BY <2>1, OrderFrame
<1> QED BY <1>2, <1>3, <1>4, <1>5 DEF client

\* The datagram at the head of the queue, if nothing is lost and no two requests are mixed.
LEMMA HeadOrder ==
  ASSUME TypeInv, NEW K \in Kinds, NEW a \in Nat, Ordered(K, a), queue # <<>>
  PROVE  LET d == Head(queue) IN
         /\ d \in RequestDatagram /\ d.of \in Clients \X (Nat \ {0}) /\ K[d.of] \in RequestId
         /\ Placed(K, d) /\ PlaceOf(K, d) \in 1 .. Size(K, d.of)
         /\ d.of \in parts => PlaceOf(K, d) = a /\ parts = {d.of}
         /\ d.of \notin parts => PlaceOf(K, d) = 1
<1> DEFINE d == Head(queue)
<1>1. d = queue[1] /\ 1 \in DOMAIN queue /\ d \in RequestDatagram
  <2>1. \A s \in Seq(RequestDatagram) : s # <<>> =>
          Head(s) = s[1] /\ 1 \in DOMAIN s /\ Head(s) \in RequestDatagram
    OBVIOUS
  <2> QED BY <2>1 DEF TypeInv, NetType
<1> HIDE DEF d
<1>2. d.of \in Clients \X (Nat \ {0})
  BY <1>1 DEF RequestDatagram
<1>3. K[d.of] \in RequestId /\ Size(K, d.of) \in Nat
  BY <1>2, Sizes
<1>4. /\ Placed(K, d) /\ Preceded(K, a, d.of, PlaceOf(K, d), 0)
      /\ d.of \in parts => a <= PlaceOf(K, d)
  BY <1>1 DEF Ordered, QueueOrder
<1>5. PlaceOf(K, d) \in 1 .. Size(K, d.of)
  BY <1>4 DEF Placed
<1>6. PlaceOf(K, d) = 1 \/ (d.of \in parts /\ a = PlaceOf(K, d))
  BY <1>4 DEF Preceded
<1>7. d.of \in parts => parts = {d.of} /\ a >= 2
  BY DEF Ordered, ReadOrder
<1>8. d.of \in parts => PlaceOf(K, d) = a
  BY <1>3, <1>4, <1>5, <1>6, <1>7
<1> QED BY <1>1, <1>2, <1>3, <1>4, <1>5, <1>6, <1>7, <1>8 DEF d

\* Of two requests with datagrams in one message it would be known.
LEMMA NotMixed ==
  ASSUME NEW P, NEW x, NEW y \in P, P = {y}, ~(Cardinality(P \cup {x}) > 1)
  PROVE  x = y
<1> SUFFICES ASSUME x # y PROVE FALSE
  OBVIOUS
<1>1. IsFiniteSet(P) /\ Cardinality(P) = 1
  BY FS_Singleton
<1>2. Cardinality(P \cup {x}) = 2
  BY <1>1, FS_AddElement
<1> QED BY <1>2

\* An id is read where one is.
LEMMA RecvIdOrder ==
  ASSUME TypeInv, NEW K \in Kinds, NEW a \in Nat, Ordered(K, a), alive, recv_id
  PROVE  alive' /\ \E b \in Nat : Ordered(K, b)'
<1> DEFINE d == Head(queue)
           R == d.of
<1>1. /\ queue # <<>> /\ queue' = Tail(queue) /\ UNCHANGED <<asked, todo, reach>>
      /\ want = <<>> /\ parts = {}
  BY DEF recv_id, Receives, Client, netVars, clientVars, Ordered, ReadOrder
<1>2. /\ d \in RequestDatagram /\ K[R] \in RequestId /\ R \in Clients \X (Nat \ {0})
      /\ Placed(K, d) /\ PlaceOf(K, d) = 1
  BY <1>1, HeadOrder
<1>3. d.field = "id" /\ d.value = K[R]
  BY <1>2, FieldsOf DEF Placed
<1>4. ReadAsId(d, RequestId) = {K[R]}
  BY <1>3 DEF ReadAsId
<1>5. Goes([msg EXCEPT !.id = K[R]], ReadRequest(K[R])) /\ UNCHANGED alive
  BY <1>2, <1>4 DEF recv_id
<1>6. msg'["id"] = K[R] /\ want' = ReadRequest(K[R])
  BY <1>5 DEF Goes, TypeInv, MsgType
<1>7. Size(K, R) = Len(ReadRequest(K[R])) + 1 /\ ReadRequest(K[R]) \in Seq(RequestField)
  BY <1>2, FieldsOf, RequestFields DEF Size
<1>8. 1 < Size(K, R) => parts' = {R} /\ want' = Rest(K[R], 1)
  <2> SUFFICES ASSUME 1 < Size(K, R) PROVE parts' = {R} /\ want' = Rest(K[R], 1)
    OBVIOUS
  <2>1. ReadRequest(K[R]) # <<>>
    BY <1>7
  <2>2. parts' = {R}
    BY <1>1, <1>5, <2>1 DEF Goes, Origin
  <2>3. Rest(K[R], 1) = ReadRequest(K[R])
    BY <1>7 DEF Rest
  <2> QED BY <1>6, <2>2, <2>3
<1>9. 1 = Size(K, R) => parts' = {} /\ want' = <<>>
  <2> SUFFICES ASSUME 1 = Size(K, R) PROVE parts' = {} /\ want' = <<>>
    OBVIOUS
  <2>1. ReadRequest(K[R]) = <<>>
    BY <1>7
  <2> QED BY <1>5, <1>6, <2>1 DEF Goes
<1>10. PICK x, q : x = R /\ q = PlaceOf(K, d)
  OBVIOUS
<1> HIDE DEF d, R
<1>11. Ordered(K, q + 1)'
  BY <1>1, <1>2, <1>6, <1>8, <1>9, <1>10, ReceiveOrder DEF d, R
<1>12. q + 1 \in Nat
  BY <1>2, <1>10
<1> QED BY <1>5, <1>11, <1>12

\* A field is the one that is waited for, or the message is of two requests.
LEMMA RecvFieldOrder ==
  ASSUME TypeInv, NEW K \in Kinds, NEW a \in Nat, Ordered(K, a), alive, recv_field,
         ~(Cardinality(parts \cup Origin) > 1)
  PROVE  alive' /\ \E b \in Nat : Ordered(K, b)'
<1> DEFINE d == Head(queue)
           R == d.of
           f == Head(want)
<1>1. /\ queue # <<>> /\ queue' = Tail(queue) /\ UNCHANGED <<asked, todo, reach>>
      /\ want # <<>> /\ parts # {}
  BY DEF recv_field, Receives, Client, netVars, clientVars, Ordered, ReadOrder
<1>2. PICK Q \in parts : TRUE
  BY <1>1
<1>3. parts = {Q}
  BY DEF Ordered, ReadOrder
<1>4. Q = R
  BY <1>3, NotMixed DEF Origin
<1>5. /\ d \in RequestDatagram /\ K[R] \in RequestId /\ R \in Clients \X (Nat \ {0})
      /\ PlaceOf(K, d) = a /\ parts = {R} /\ Placed(K, d)
  BY <1>1, <1>4, HeadOrder
<1>6. msg["id"] = K[R] /\ a \in 2 .. Size(K, R) /\ want = Rest(K[R], a - 1)
  BY <1>5 DEF Ordered, ReadOrder
<1> DEFINE r == ReadRequest(K[R])
<1>7. Size(K, R) = Len(r) + 1 /\ Len(r) \in Nat /\ a - 1 \in 1 .. Len(r) /\ (a - 1) + 1 = a
  <2>1. Size(K, R) = Len(r) + 1 /\ Len(r) \in Nat
    BY <1>5, FieldsOf, RequestFields DEF Size
  <2> HIDE DEF r
  <2> QED BY <1>6, <2>1
<1>8. /\ f = r[a - 1] /\ f \in RequestField
      /\ a - 1 = Len(r) => Tail(want) = <<>>
      /\ a - 1 < Len(r) => Tail(want) = Rest(K[R], a) /\ Tail(want) # <<>>
  <2>1. r[a - 1] \in RequestField
    BY <1>5, <1>7, RequestFields
  <2>2. /\ Head(Rest(K[R], a - 1)) = r[a - 1]
        /\ a - 1 = Len(r) => Tail(Rest(K[R], a - 1)) = <<>>
        /\ a - 1 < Len(r) => Tail(Rest(K[R], a - 1)) = Rest(K[R], (a - 1) + 1)
    BY <1>5, <1>7, RestOf
  <2>3. a - 1 < Len(r) => Rest(K[R], a) # <<>>
    <3> SUFFICES ASSUME a - 1 < Len(r) PROVE Rest(K[R], a) # <<>>
      OBVIOUS
    <3>1. a \in 1 .. Len(r)
      BY <1>7
    <3> QED BY <1>5, <3>1, RestOf
  <2> HIDE DEF r
  <2> QED BY <1>6, <1>7, <2>1, <2>2, <2>3
<1>8a. alive'
  <2>1. d.field = f
    <3>1. d.field = Fields(K[R])[a] /\ a \in 2 .. Len(Fields(K[R]))
      BY <1>5, <1>6 DEF Placed, Size
    <3> HIDE DEF d, R, f, r
    <3> QED BY <1>5, <1>8, <3>1, FieldsOf DEF r
  <2> HIDE DEF d, f
  <2>2. TextFits(d, f) = {TRUE}
    <3>1. FieldSize(f) \in {4, 5, 10, 20, 80}
      BY DEF FieldSize
    <3>2. FieldSize(f) <= FieldSize(f)
      BY <3>1
    <3>3. FieldSize(d.field) <= FieldSize(f)
      BY <2>1, <3>2
    <3> QED BY <3>3 DEF TextFits
  <2>3. CASE f \in DOMAIN msg
    <3>1. PICK fits \in TextFits(d, f) : alive' \in {TRUE, fits}
      BY <2>3 DEF recv_field, f, d
    <3>2. fits = TRUE
      BY <2>2, <3>1
    <3>3. alive' = TRUE
      BY <3>1, <3>2, Zenon
    <3> QED BY <3>3
  <2>4. CASE f \notin DOMAIN msg
    BY <2>4 DEF recv_field, f
  <2> QED BY <2>3, <2>4
<1>9. PICK t \in Texts :
        Goes(IF Head(want) \in DOMAIN msg THEN [msg EXCEPT ![Head(want)] = t] ELSE msg, Tail(want))
  BY FieldRead
<1> DEFINE m == IF f \in DOMAIN msg THEN [msg EXCEPT ![f] = t] ELSE msg
<1>9a. Goes(m, Tail(want))
  BY <1>9
<1>10. m["id"] = K[R]
  <2>1. f # "id"
    BY <1>8 DEF RequestField
  <2> HIDE DEF f
  <2> QED BY <1>6, <2>1
<1> HIDE DEF m, f
<1>11. msg'["id"] = K[R] /\ want' = Tail(want)
  BY <1>10, <1>9a DEF Goes
<1>12. a < Size(K, R) => parts' = {R} /\ want' = Rest(K[R], a)
  <2> SUFFICES ASSUME a < Size(K, R) PROVE parts' = {R} /\ want' = Rest(K[R], a)
    OBVIOUS
  <2>1. a - 1 < Len(r)
    BY <1>6, <1>7
  <2> HIDE DEF r
  <2>2. parts' = parts \cup {R}
    BY <1>8, <1>9a, <2>1 DEF Goes, Origin
  <2> QED BY <1>5, <1>8, <1>11, <2>1, <2>2
<1>13. a = Size(K, R) => parts' = {} /\ want' = <<>>
  <2> SUFFICES ASSUME a = Size(K, R) PROVE parts' = {} /\ want' = <<>>
    OBVIOUS
  <2>1. a - 1 = Len(r)
    BY <1>6, <1>7
  <2> HIDE DEF r
  <2> QED BY <1>8, <1>9a, <1>11, <2>1 DEF Goes
<1>14. PICK x, q : x = R /\ q = PlaceOf(K, d)
  OBVIOUS
<1> HIDE DEF d, R, r
<1>15. Ordered(K, q + 1)'
  BY <1>1, <1>5, <1>11, <1>12, <1>13, <1>14, ReceiveOrder DEF d, R
<1>16. q + 1 \in Nat
  BY <1>5, <1>14
<1> QED BY <1>8a, <1>15, <1>16

LEMMA OrderStep == TypeInv /\ OrderInv /\ [Next]_vars => OrderInv'
<1> DEFINE Waits == alive /\ \E K \in Kinds, a \in Nat : Ordered(K, a)
           Ended == ~alive /\ clears /\ msg["id"] \in TextId
<1> SUFFICES ASSUME TypeInv, OrderInv, [Next]_vars, lost' = 0, ~mixed'
             PROVE  Waits' \/ Ended'
  BY DEF OrderInv
<1>1. ~lose
  BY UdpBoundsAssumption DEF lose, TypeInv, NetType
<1>2. lost = 0
  BY <1>1 DEF Next, recv_id, recv_field, recv_data, Receives, Client, client, ask, control_user_input,
              close_socket, sendto, read_id, read_field, read_data, Reads, Server, netVars, vars
<1>3. ~mixed
  BY <1>1 DEF Next, recv_id, recv_field, recv_data, Goes, client, ask, control_user_input, close_socket,
              sendto, read_id, read_field, read_data, Reads, Server, readVars, vars
<1>4. Waits \/ Ended
  BY <1>2, <1>3 DEF OrderInv
<1>5. CASE Ended
  <2>1. UNCHANGED <<alive, clears, msg>>
    BY <1>1, <1>5 DEF Next, recv_id, recv_field, recv_data, Receives, client, ask, control_user_input,
                      close_socket, sendto, read_id, read_field, read_data, Reads, Server, readVars,
                      netVars, vars
  <2> QED BY <1>5, <2>1
<1>6. CASE Waits
  <2>1. PICK K \in Kinds, a \in Nat : Ordered(K, a)
    BY <1>6
  <2>2. alive
    BY <1>6
  <2>3. CASE UNCHANGED vars
    <3>1. UNCHANGED <<asked, todo, queue, parts, want, msg, reach, alive>>
      BY <2>3 DEF vars, netVars, clientVars, readVars
    <3>2. Ordered(K, a)'
      BY <2>1, <3>1, OrderFrame
    <3> QED BY <2>2, <3>1, <3>2
  <2>4. ASSUME NEW c \in Clients, client(c) PROVE Waits'
    <3>1. alive'
      BY <2>2, <2>4 DEF client, ask, control_user_input, close_socket, sendto, read_id, read_field,
                        read_data, Reads, Server, readVars
    <3>2. \E J \in Kinds : Ordered(J, a)'
      BY <2>1, <2>2, <2>4, ClientOrder
    <3> QED BY <3>1, <3>2
  <2>5. CASE recv_id
    BY <2>1, <2>2, <2>5, RecvIdOrder
  <2>6. CASE recv_field
    <3>1. ~(Cardinality(parts \cup Origin) > 1)
      BY <2>6 DEF recv_field, Goes
    <3> QED BY <2>1, <2>2, <2>6, <3>1, RecvFieldOrder
  <2>7. CASE recv_data
    <3>1. msg["id"] \in TextId
      BY <2>7, RecvDataStep
    <3> QED BY <2>7, <3>1 DEF recv_data, Stores, Receives, Client, netVars
  <2> QED BY <1>1, <2>3, <2>4, <2>5, <2>6, <2>7 DEF Next
<1> QED BY <1>4, <1>5, <1>6

\* The loop that serves everybody, were it called, is ended by what was lost or mixed, or
\* by a text when ptr is cleared: as long as none of this happens the server waits for the
\* very field that comes, and what comes fits.
THEOREM EndsForThreeCauses == Spec => []EndCause
<1>1. OrderInv /\ TypeInv => EndCause
  BY DEF OrderInv, EndCause, TypeInv, NetType
<1> QED BY <1>1, InitOrder, OrderStep, TypeInvariant, PTL DEF Spec

===============================================================================
