------------------------------ MODULE WireProofs ------------------------------
(* Proofs about Wire: for any number of messages, of every kind and length. *)
EXTENDS Wire, FiniteSetTheorems, SequenceTheorems, TLAPS

Ids == {REGISTER_USER, LOGIN, SHOW_CHAT_ROOMS, SHOW_USERS, JOIN, CHAT_ROOM_DATA, EXIT,
        CREATE_CHAT_ROOM, PRIVATE_DATA, SHOW_CHAT_ROOMS_RESPONSE, SHOW_USERS_RESPONSE}

-------------------------------------------------------------------------------
(* Fields                                                                  *)

\* The fields of the protocol are fields.
LEMMA FieldTypes ==
  /\ \A n \in Nat : IdField(n) \in Field /\ ErrField(n) \in Field /\ LenField(n) \in Field
                    /\ DataField(n) \in Field
  /\ \A f \in {"proposed_nickname", "sender", "receiver"} : NameField(f) \in Field
  /\ PwField \in Field /\ RoomField \in Field
BY TextAssumption
   DEF IdField, ErrField, LenField, DataField, NameField, PwField, RoomField, Field, FieldName,
       SizeofInt, NAME_LENGHT, PW_LENGHT, CHAT_ROOM_NAME_LENGHT

\* The numbers of the ids differ, so that each has its own fields.
LEMMA FieldsOf ==
  ASSUME NEW err, NEW len
  PROVE  /\ Fields(REGISTER_USER, err, len) = <<NameField("proposed_nickname"), PwField>>
         /\ Fields(LOGIN, err, len) = <<NameField("sender"), PwField>>
         /\ \A id \in {JOIN, EXIT, CREATE_CHAT_ROOM} :
              Fields(id, err, len) = <<NameField("sender"), RoomField>>
         /\ Fields(CHAT_ROOM_DATA, err, len) =
              <<NameField("sender"), RoomField, LenField(len), DataField(len)>>
         /\ Fields(PRIVATE_DATA, err, len) =
              <<ErrField(err), NameField("sender"), NameField("receiver"), LenField(len),
                DataField(len)>>
         /\ \A id \in {SHOW_CHAT_ROOMS_RESPONSE, SHOW_USERS_RESPONSE} :
              Fields(id, err, len) = <<ErrField(err), LenField(len), DataField(len)>>
         /\ \A id \in {SHOW_CHAT_ROOMS, SHOW_USERS} : Fields(id, err, len) = <<>>
         /\ \A id \in MessageId \ Ids : Fields(id, err, len) = <<ErrField(err)>>
BY DEF Fields, Ids, MessageId, REGISTER_USER, LOGIN, SHOW_CHAT_ROOMS, SHOW_USERS, JOIN,
       CHAT_ROOM_DATA, EXIT, CREATE_CHAT_ROOM, PRIVATE_DATA, SHOW_CHAT_ROOMS_RESPONSE,
       SHOW_USERS_RESPONSE, REGISTER_USER_RESPONSE, LOGIN_RESPONSE, JOIN_RESPONSE,
       EXIT_RESPONSE, CREATE_CHAT_ROOM_RESPONSE

\* The kinds of messages by their fields.
LEMMA Kinds ==
  ASSUME NEW id \in MessageId
  PROVE  \/ id = REGISTER_USER \/ id = LOGIN \/ id \in {JOIN, EXIT, CREATE_CHAT_ROOM}
         \/ id = CHAT_ROOM_DATA \/ id = PRIVATE_DATA
         \/ id \in {SHOW_CHAT_ROOMS_RESPONSE, SHOW_USERS_RESPONSE}
         \/ id \in {SHOW_CHAT_ROOMS, SHOW_USERS} \/ id \in MessageId \ Ids
BY DEF Ids

LEMMA FieldsType ==
  ASSUME NEW id \in MessageId, NEW err \in Nat, NEW len \in Nat
  PROVE  Fields(id, err, len) \in Seq(Field)
<1>1. \A f \in Field : <<f>> \in Seq(Field)
  OBVIOUS
<1>2. \A f, g \in Field : <<f, g>> \in Seq(Field)
  OBVIOUS
<1>3. \A f, g, h \in Field : <<f, g, h>> \in Seq(Field)
  OBVIOUS
<1>4. \A f, g, h, i \in Field : <<f, g, h, i>> \in Seq(Field)
  OBVIOUS
<1>5. \A f, g, h, i, j \in Field : <<f, g, h, i, j>> \in Seq(Field)
  OBVIOUS
<1>6. <<>> \in Seq(Field)
  OBVIOUS
<1> DEFINE Proposed == NameField("proposed_nickname")
           Sender == NameField("sender")
           Receiver == NameField("receiver")
           Err == ErrField(err)
           Length == LenField(len)
           Data == DataField(len)
<1>0. {Proposed, Sender, Receiver, PwField, RoomField, Err, Length, Data} \subseteq Field
  BY FieldTypes
<1>13. /\ Fields(REGISTER_USER, err, len) = <<Proposed, PwField>>
       /\ Fields(LOGIN, err, len) = <<Sender, PwField>>
       /\ \A i \in {JOIN, EXIT, CREATE_CHAT_ROOM} : Fields(i, err, len) = <<Sender, RoomField>>
       /\ Fields(CHAT_ROOM_DATA, err, len) = <<Sender, RoomField, Length, Data>>
       /\ Fields(PRIVATE_DATA, err, len) = <<Err, Sender, Receiver, Length, Data>>
       /\ \A i \in {SHOW_CHAT_ROOMS_RESPONSE, SHOW_USERS_RESPONSE} :
            Fields(i, err, len) = <<Err, Length, Data>>
  BY FieldsOf
<1> HIDE DEF Proposed, Sender, Receiver, Err, Length, Data
<1>7. CASE id = REGISTER_USER \/ id = LOGIN \/ id \in {JOIN, EXIT, CREATE_CHAT_ROOM}
  BY <1>0, <1>2, <1>7, <1>13
<1>8. CASE id = CHAT_ROOM_DATA
  BY <1>0, <1>4, <1>8, <1>13
<1>9. CASE id = PRIVATE_DATA
  BY <1>0, <1>5, <1>9, <1>13
<1>10. CASE id \in {SHOW_CHAT_ROOMS_RESPONSE, SHOW_USERS_RESPONSE}
  BY <1>0, <1>3, <1>10, <1>13
<1>11. CASE id \in {SHOW_CHAT_ROOMS, SHOW_USERS}
  BY <1>6, <1>11, FieldsOf
<1>12. CASE id \in MessageId \ Ids
  BY <1>1, <1>12, FieldTypes, FieldsOf
<1> QED BY <1>7, <1>8, <1>9, <1>10, <1>11, <1>12, Kinds

\* A message begins with its id.
LEMMA SentType ==
  ASSUME NEW m \in Message
  PROVE  /\ SentFields(m) \in Seq(Field) /\ SentFields(m) # <<>>
         /\ Head(SentFields(m)) = IdField(m.id) /\ Tail(SentFields(m)) \in Seq(Field)
<1>1. m.id \in MessageId /\ m.err \in Nat /\ m.len \in Nat
  BY DEF Message
<1>2. IdField(m.id) \in Field /\ ErrField(m.err) \in Field
  <2>1. m.id \in Nat
    BY <1>1 DEF MessageId, REGISTER_USER, LOGIN, SHOW_CHAT_ROOMS, SHOW_USERS, JOIN,
       CHAT_ROOM_DATA, EXIT, CREATE_CHAT_ROOM, PRIVATE_DATA, SHOW_CHAT_ROOMS_RESPONSE,
       SHOW_USERS_RESPONSE, REGISTER_USER_RESPONSE, LOGIN_RESPONSE, JOIN_RESPONSE,
       EXIT_RESPONSE, CREATE_CHAT_ROOM_RESPONSE
  <2> QED BY <1>1, <2>1, FieldTypes
<1>3. Fields(m.id, m.err, m.len) \in Seq(Field)
  BY <1>1, FieldsType
<1>4. ASSUME SentFields(m) = <<IdField(m.id), ErrField(m.err)>>
      PROVE  /\ SentFields(m) \in Seq(Field) /\ SentFields(m) # <<>>
             /\ Head(SentFields(m)) = IdField(m.id) /\ Tail(SentFields(m)) \in Seq(Field)
  BY <1>2, <1>4
<1>5. ASSUME SentFields(m) = <<IdField(m.id)>> \o Fields(m.id, m.err, m.len)
      PROVE  /\ SentFields(m) \in Seq(Field) /\ SentFields(m) # <<>>
             /\ Head(SentFields(m)) = IdField(m.id) /\ Tail(SentFields(m)) \in Seq(Field)
  BY <1>2, <1>3, <1>5
<1> QED BY <1>4, <1>5 DEF SentFields

-------------------------------------------------------------------------------
(* Types                                                                   *)

Byte == [msg: Tag, field: FieldName, at: Nat, of: Nat, num: Nat]

\* Who is in the middle of a message has begun one.
TypeInv == TypeOK /\ \A w \in Writers : todo[w] # <<>> => sent[w] \in 1 .. MaxMessages

LEMMA BytesType ==
  ASSUME NEW w \in Writers, NEW k \in 1 .. MaxMessages, NEW f \in Field
  PROVE  Bytes(w, k, f) \in Seq(Byte) /\ Len(Bytes(w, k, f)) = f.size
<1>1. f.size \in Nat /\ f.field \in FieldName /\ f.num \in Nat
  BY DEF Field
<1>2. <<w, k>> \in Tag
  BY DEF Tag
<1>3. Bytes(w, k, f) \in [1 .. f.size -> Byte]
  BY <1>1, <1>2 DEF Bytes, Byte
<1> QED BY <1>1, <1>3, SeqDef, LenProperties

LEMMA SendType ==
  ASSUME TypeInv, NEW w \in Writers, NEW m \in Messages, send(w, m)
  PROVE  TypeInv'
<1>1. m \in Message
  BY MessagesAssumption
<1>2. sent[w] + 1 \in 1 .. MaxMessages /\ sent'[w] = sent[w] + 1
  BY MaxMessagesAssumption DEF send, TypeInv, TypeOK
<1>3. Head(SentFields(m)) \in Field
  BY <1>1, SentType
<1>4. Bytes(w, sent'[w], Head(SentFields(m))) \in Seq(Byte)
  BY <1>2, <1>3, BytesType
<1>5. stream' \in Seq(Byte)
  BY <1>4, ConcatProperties DEF send, TypeInv, TypeOK, Byte
<1>6. todo' \in [Writers -> Seq(Field)] /\ sent' \in [Writers -> 0 .. MaxMessages]
  BY <1>1, <1>2, SentType DEF send, TypeInv, TypeOK
<1>7. \A u \in Writers : todo'[u] # <<>> => sent'[u] \in 1 .. MaxMessages
  BY <1>2 DEF send, TypeInv, TypeOK
<1>8. ptr' \in [Writers -> BOOLEAN]
  BY <1>1 DEF send, TypeInv, TypeOK, Message
<1>9. torn' \in Tag
  BY <1>2 DEF send, TypeInv, TypeOK, Tag
<1> QED BY <1>5, <1>6, <1>7, <1>8, <1>9 DEF send, TypeInv, TypeOK, Byte

LEMMA WriteType ==
  ASSUME TypeInv, NEW w \in Writers, write(w)
  PROVE  TypeInv'
<1>1. todo[w] \in Seq(Field) /\ todo[w] # <<>> /\ sent[w] \in 1 .. MaxMessages
  BY DEF write, TypeInv, TypeOK
<1>2. Written(w) \in Field /\ Tail(todo[w]) \in Seq(Field)
  BY <1>1 DEF Written
<1>3. Bytes(w, sent[w], Written(w)) \in Seq(Byte)
  BY <1>1, <1>2, BytesType
<1>4. stream' \in Seq(Byte)
  BY <1>3, ConcatProperties DEF write, TypeInv, TypeOK, Byte
<1>5. todo' \in [Writers -> Seq(Field)]
  BY <1>2 DEF write, TypeInv, TypeOK
<1>6. \A u \in Writers : todo'[u] # <<>> => sent'[u] \in 1 .. MaxMessages
  BY DEF write, TypeInv, TypeOK
<1> QED BY <1>4, <1>5, <1>6 DEF write, TypeInv, TypeOK, Byte

\* What read() returns are bytes, and what they say is a number and a message.
LEMMA ReadType ==
  ASSUME TypeInv, NEW n \in Nat, NEW f
  PROVE  /\ Read(n) \in Seq(Byte) /\ Rest(n) \in Seq(Byte)
         /\ Len(Read(n)) = IF n < Len(stream) THEN n ELSE Len(stream)
         /\ \A i \in 1 .. Len(Read(n)) : Read(n)[i] = stream[i]
         /\ Len(Rest(n)) = Len(stream) - Len(Read(n))
         /\ \A i \in 1 .. Len(Rest(n)) : Rest(n)[i] = stream[Len(Read(n)) + i]
         /\ Numbers(Read(n)) \subseteq Nat /\ MessageOf(Read(n), f) \in Tag
<1>1. stream \in Seq(Byte) /\ Len(stream) \in Nat
  BY DEF TypeInv, TypeOK, Byte
<1> DEFINE z == IF n < Len(stream) THEN n ELSE Len(stream)
<1>2. z \in 0 .. Len(stream)
  BY <1>1
<1> HIDE DEF z
<1>3. /\ SubSeq(stream, 1, z) \in Seq(Byte) /\ Len(SubSeq(stream, 1, z)) = z
      /\ \A i \in 1 .. z : SubSeq(stream, 1, z)[i] = stream[i]
  BY <1>1, <1>2
<1>4. Read(n) = SubSeq(stream, 1, z)
  BY DEF Read, z
<1>5. /\ Read(n) \in Seq(Byte) /\ Len(Read(n)) = z
      /\ \A i \in 1 .. Len(Read(n)) : Read(n)[i] = stream[i]
  BY <1>2, <1>3, <1>4
<1>6. /\ SubSeq(stream, z + 1, Len(stream)) \in Seq(Byte)
      /\ Len(SubSeq(stream, z + 1, Len(stream))) = Len(stream) - z
      /\ \A i \in 1 .. (Len(stream) - z) :
           SubSeq(stream, z + 1, Len(stream))[i] = stream[z + i]
  BY <1>1, <1>2
<1>7. Rest(n) = SubSeq(stream, z + 1, Len(stream))
  BY <1>5 DEF Rest
<1>8. IsField(Read(n)) => Read(n)[1] \in Byte
  BY <1>5 DEF IsField
<1>9. Numbers(Read(n)) \subseteq Nat /\ MessageOf(Read(n), f) \in Tag
  BY <1>8, TextAssumption DEF Numbers, MessageOf, Byte, Tag
<1> QED BY <1>2, <1>5, <1>6, <1>7, <1>9 DEF z

LEMMA CompleteType ==
  ASSUME TypeInv, NEW w, NEW t \in SUBSET Tag, Complete(w, t)
  PROVE  got' \in Seq(Tag) /\ taken' \in SUBSET Tag
<1>1. (IF \E m \in Tag : t = {m} THEN CHOOSE m \in Tag : t = {m} ELSE Garbled) \in Tag
  BY DEF Tag
<1>2. got \in Seq(Tag)
  BY DEF TypeInv, TypeOK
<1> QED BY <1>1, <1>2 DEF Complete

LEMMA ReadIdType ==
  ASSUME TypeInv, read_id
  PROVE  TypeInv'
<1>1. SizeofInt \in Nat
  BY DEF SizeofInt
<1>2. stream' \in Seq(Byte)
  BY <1>1, ReadType DEF read_id
<1>3. want' \in Seq(Field) /\ taken' \in SUBSET Tag /\ got' \in Seq(Tag) /\ ended' \in BOOLEAN
  <2>1. CASE UNCHANGED <<want, taken, got>> /\ ended' = TRUE
    BY <2>1 DEF TypeInv, TypeOK
  <2>2. ASSUME NEW id \in Numbers(Read(SizeofInt)), ~UnknownId(id), want' = ReadFields(id),
               Complete(want', {MessageOf(Read(SizeofInt), "id")}), UNCHANGED ended
        PROVE  /\ want' \in Seq(Field) /\ taken' \in SUBSET Tag /\ got' \in Seq(Tag)
               /\ ended' \in BOOLEAN
    <3>1. want' \in Seq(Field)
      BY <2>2, FieldsType DEF UnknownId, ReadFields
    <3>2. {MessageOf(Read(SizeofInt), "id")} \in SUBSET Tag
      BY <1>1, ReadType
    <3> QED BY <2>2, <3>1, <3>2, CompleteType DEF TypeInv, TypeOK
  <2> QED BY <2>1, <2>2 DEF read_id
<1> QED BY <1>2, <1>3 DEF read_id, TypeInv, TypeOK, Byte

LEMMA ReadFieldType ==
  ASSUME TypeInv, read_field
  PROVE  TypeInv'
<1>1. PICK f : f = Head(want)
  OBVIOUS
<1>2. f \in Field /\ Tail(want) \in Seq(Field) /\ f.size \in Nat
  <2>1. want \in Seq(Field) /\ want # <<>>
    BY DEF read_field, TypeInv, TypeOK
  <2>2. f \in Field /\ Tail(want) \in Seq(Field)
    BY <1>1, <2>1
  <2> QED BY <2>2 DEF Field
<1>3. stream' \in Seq(Byte)
  BY <1>1, <1>2, ReadType DEF read_field
<1>4. want' \in Seq(Field)
  <2>1. Numbers(Read(f.size)) \subseteq Nat
    BY <1>2, ReadType
  <2>2. \A n \in Nat : (IF n = 0 THEN <<>> ELSE <<DataField(n)>>) \in Seq(Field)
    BY FieldTypes
  <2>3. \/ want' = Tail(want)
        \/ \E n \in Numbers(Read(f.size)) : want' = IF n = 0 THEN <<>> ELSE <<DataField(n)>>
    BY <1>1 DEF read_field
  <2> QED BY <1>2, <2>1, <2>2, <2>3
<1>5. taken' \in SUBSET Tag /\ got' \in Seq(Tag)
  <2>1. taken \cup {MessageOf(Read(f.size), f.field)} \in SUBSET Tag
    BY <1>2, ReadType DEF TypeInv, TypeOK
  <2>2. Complete(want', taken \cup {MessageOf(Read(f.size), f.field)})
    BY <1>1 DEF read_field
  <2> QED BY <2>1, <2>2, CompleteType
<1> QED BY <1>3, <1>4, <1>5 DEF read_field, TypeInv, TypeOK, Byte

LEMMA CloseType ==
  ASSUME TypeInv, close
  PROVE  TypeInv'
<1>1. todo' \in [Writers -> Seq(Field)] /\ \A w \in Writers : todo'[w] = <<>>
  BY DEF close
<1>2. cut' \in BOOLEAN
  BY DEF close
<1> QED BY <1>1, <1>2 DEF close, TypeInv, TypeOK

LEMMA TypeInit == Init => TypeInv
<1> SUFFICES ASSUME Init PROVE TypeInv
  OBVIOUS
<1>1. stream \in Seq(Byte) /\ want \in Seq(Field) /\ got \in Seq(Tag)
  BY EmptySeq DEF Init
<1>2. todo \in [Writers -> Seq(Field)] /\ \A w \in Writers : todo[w] = <<>>
  BY EmptySeq DEF Init
<1>3. sent \in [Writers -> 0 .. MaxMessages] /\ ptr \in [Writers -> BOOLEAN]
  BY MaxMessagesAssumption DEF Init
<1>4. open \in BOOLEAN /\ taken \in SUBSET Tag /\ ended \in BOOLEAN /\ cut \in BOOLEAN
  BY DEF Init
<1>5. torn \in Tag
  BY DEF Init, Tag
<1> QED BY <1>1, <1>2, <1>3, <1>4, <1>5 DEF TypeInv, TypeOK, Byte

LEMMA TypeStep == TypeInv /\ [Next]_vars => TypeInv'
<1> SUFFICES ASSUME TypeInv, [Next]_vars PROVE TypeInv'
  OBVIOUS
<1>1. CASE UNCHANGED vars
  BY <1>1 DEF vars, TypeInv, TypeOK
<1> QED BY <1>1, SendType, WriteType, CloseType, ReadIdType, ReadFieldType DEF Next, Writing

LEMMA TypeInvariant == Spec => []TypeInv
BY TypeInit, TypeStep, PTL DEF Spec

\* The stream, what is left to write and to read, and the messages read keep their types,
\* for any number of writers, whose bytes may mix (send_universal_india_message,
\* read_universal_india_message).
THEOREM TypeCorrect == Spec => []TypeOK
<1>1. TypeInv => TypeOK
  BY DEF TypeInv
<1> QED BY TypeInvariant, <1>1, PTL


-------------------------------------------------------------------------------
(* One writer                                                              *)

\* Reader and writer agree on the fields behind the id, except that the reader learns the
\* size of the data from the field in front of it.
Alike(F, R, len) ==
  /\ F \in Seq(Field) /\ R \in Seq(Field) /\ Len(F) = Len(R) + 1
  /\ \A j \in 1 .. Len(F) : F[j].size > 0
  /\ \A j \in 2 .. Len(F) :
       /\ F[j].field = R[j - 1].field
       /\ F[j].field # "data" => F[j].size = R[j - 1].size
       /\ F[j].field = "data" =>
            j = Len(F) /\ j # 2 /\ F[j - 1].field = "data_lenght" /\ F[j] = DataField(len)
       /\ F[j].field = "data_lenght" =>
            j = Len(F) - 1 /\ F[j + 1].field = "data" /\ F[j].num = len /\ len # 0

LEMMA SizesAndNames ==
  /\ \A n \in Nat : /\ IdField(n).size = 4 /\ ErrField(n).size = 4 /\ LenField(n).size = 4
                    /\ IdField(n).num = n /\ IdField(n).field = "id"
                    /\ ErrField(n).field = "error_code" /\ LenField(n).field = "data_lenght"
                    /\ DataField(n).size = n /\ DataField(n).field = "data"
                    /\ n < 65536 => LenField(n).num = n
  /\ \A f \in {"proposed_nickname", "sender", "receiver"} :
       NameField(f).size = 10 /\ NameField(f).field = f
  /\ PwField.size = 5 /\ PwField.field = "password"
  /\ RoomField.size = 20 /\ RoomField.field = "chat_room_name"
BY DEF IdField, ErrField, LenField, DataField, NameField, PwField, RoomField, SizeofInt,
       NAME_LENGHT, PW_LENGHT, CHAT_ROOM_NAME_LENGHT

LEMMA IdNumbers == MessageId \subseteq Nat
BY DEF MessageId, REGISTER_USER, LOGIN, SHOW_CHAT_ROOMS, SHOW_USERS, JOIN, CHAT_ROOM_DATA, EXIT,
       CREATE_CHAT_ROOM, PRIVATE_DATA, SHOW_CHAT_ROOMS_RESPONSE, SHOW_USERS_RESPONSE,
       REGISTER_USER_RESPONSE, LOGIN_RESPONSE, JOIN_RESPONSE, EXIT_RESPONSE,
       CREATE_CHAT_ROOM_RESPONSE

\* The same of the fields behind the id alone.
AlikeBehind(G, R, len) ==
  /\ Len(G) = Len(R)
  /\ \A j \in 1 .. Len(G) :
       /\ G[j].size > 0 /\ G[j].field = R[j].field
       /\ G[j].field # "data" => G[j].size = R[j].size
       /\ G[j].field = "data" =>
            j = Len(G) /\ j # 1 /\ G[j - 1].field = "data_lenght" /\ G[j] = DataField(len)
       /\ G[j].field = "data_lenght" =>
            j = Len(G) - 1 /\ G[j + 1].field = "data" /\ G[j].num = len /\ len # 0

LEMMA AgreementBehind ==
  ASSUME NEW m \in Message, Whole(m)
  PROVE  AlikeBehind(Fields(m.id, m.err, m.len), ReadFields(m.id), m.len)
<1>1. m.id \in MessageId /\ m.err \in Nat /\ m.len \in Nat
  BY DEF Message
<1>2. m.id \in HasData => m.len > 0 /\ m.len < 65536
  BY DEF Whole
<1> DEFINE Proposed == NameField("proposed_nickname")
           Sender == NameField("sender")
           Receiver == NameField("receiver")
           E == ErrField(m.err)
           E0 == ErrField(0)
           L == LenField(m.len)
           L0 == LenField(0)
           D == DataField(m.len)
           D0 == DataField(0)
<1>5. /\ E.size = 4 /\ E0.size = 4 /\ L.size = 4 /\ L0.size = 4
      /\ Proposed.size = 10 /\ Sender.size = 10 /\ Receiver.size = 10 /\ PwField.size = 5
      /\ RoomField.size = 20 /\ D.size = m.len
      /\ E.field = "error_code" /\ E0.field = "error_code" /\ L.field = "data_lenght"
      /\ L0.field = "data_lenght" /\ D.field = "data" /\ D0.field = "data"
      /\ Proposed.field = "proposed_nickname" /\ Sender.field = "sender"
      /\ Receiver.field = "receiver" /\ PwField.field = "password"
      /\ RoomField.field = "chat_room_name"
  BY <1>1, SizesAndNames
<1>6. m.id \in HasData => L.num = m.len /\ m.len > 0
  BY <1>1, <1>2, SizesAndNames
<1> USE DEF AlikeBehind
<1>8. CASE m.id = REGISTER_USER \/ m.id = LOGIN \/ m.id \in {JOIN, EXIT, CREATE_CHAT_ROOM}
  <2>1. PICK a, b : /\ a \in {Proposed, Sender} /\ b \in {PwField, RoomField}
                    /\ Fields(m.id, m.err, m.len) = <<a, b>> /\ ReadFields(m.id) = <<a, b>>
    BY <1>8, FieldsOf DEF ReadFields
  <2> HIDE DEF Proposed, Sender
  <2> QED BY <1>5, <2>1
<1>9. CASE m.id = CHAT_ROOM_DATA
  <2>1. /\ Fields(m.id, m.err, m.len) = <<Sender, RoomField, L, D>>
        /\ ReadFields(m.id) = <<Sender, RoomField, L0, D0>>
    BY <1>9, FieldsOf DEF ReadFields
  <2>2. m.id \in HasData /\ D = DataField(m.len)
    BY <1>9 DEF HasData
  <2> HIDE DEF Sender, L, L0, D0, D
  <2> QED BY <1>5, <1>6, <2>1, <2>2
<1>10. CASE m.id = PRIVATE_DATA
  <2>1. /\ Fields(m.id, m.err, m.len) = <<E, Sender, Receiver, L, D>>
        /\ ReadFields(m.id) = <<E0, Sender, Receiver, L0, D0>>
    BY <1>10, FieldsOf DEF ReadFields
  <2>2. m.id \in HasData /\ D = DataField(m.len)
    BY <1>10 DEF HasData
  <2> HIDE DEF Sender, Receiver, E, E0, L, L0, D0, D
  <2> QED BY <1>5, <1>6, <2>1, <2>2
<1>11. CASE m.id \in {SHOW_CHAT_ROOMS_RESPONSE, SHOW_USERS_RESPONSE}
  <2>1. /\ Fields(m.id, m.err, m.len) = <<E, L, D>>
        /\ ReadFields(m.id) = <<E0, L0, D0>>
    BY <1>11, FieldsOf DEF ReadFields
  <2>2. m.id \in HasData /\ D = DataField(m.len)
    BY <1>11 DEF HasData
  <2> HIDE DEF E, E0, L, L0, D0, D
  <2> QED BY <1>5, <1>6, <2>1, <2>2
<1>12. CASE m.id \in {SHOW_CHAT_ROOMS, SHOW_USERS}
  <2>1. Fields(m.id, m.err, m.len) = <<>> /\ ReadFields(m.id) = <<>>
    BY <1>12, FieldsOf DEF ReadFields
  <2> QED BY <2>1
<1>13. CASE m.id \in MessageId \ Ids
  <2>1. Fields(m.id, m.err, m.len) = <<E>> /\ ReadFields(m.id) = <<E0>>
    BY <1>13, FieldsOf DEF ReadFields
  <2> HIDE DEF E, E0
  <2> QED BY <1>5, <2>1
<1> QED BY <1>1, <1>8, <1>9, <1>10, <1>11, <1>12, <1>13, Kinds

LEMMA Agreement ==
  ASSUME NEW m \in Message, Whole(m)
  PROVE  /\ Alike(SentFields(m), ReadFields(m.id), m.len)
         /\ SentFields(m)[1] = IdField(m.id)
<1>1. m.id \in MessageId /\ m.id \in Nat /\ m.err \in Nat /\ m.len \in Nat
  BY IdNumbers DEF Message
<1>2. SentFields(m) = <<IdField(m.id)>> \o Fields(m.id, m.err, m.len)
  <2>1. m.id \in HasData => m.len > 0 /\ m.len < 65536
    BY DEF Whole
  <2>2. m.id \in HasData => m.len # 0
    BY <2>1
  <2> QED BY <2>2 DEF SentFields, HasData
<1> DEFINE G == Fields(m.id, m.err, m.len)
           F == SentFields(m)
           R == ReadFields(m.id)
<1>3. G \in Seq(Field) /\ R \in Seq(Field) /\ F \in Seq(Field)
  BY <1>1, SentType, FieldsType DEF ReadFields
<1>4. IdField(m.id).size > 0 /\ <<IdField(m.id)>> \in Seq(Field)
  BY <1>1, SizesAndNames, FieldTypes
<1>5. AlikeBehind(G, R, m.len)
  BY AgreementBehind
<1>6. F = <<IdField(m.id)>> \o G
  BY <1>2
<1> HIDE DEF G, F, R
<1>7. Len(<<IdField(m.id)>>) = 1 /\ <<IdField(m.id)>>[1] = IdField(m.id)
  OBVIOUS
<1>8. /\ Len(F) = Len(G) + 1 /\ F[1] = IdField(m.id) /\ \A j \in 2 .. Len(F) : F[j] = G[j - 1]
  BY <1>3, <1>4, <1>6, <1>7, ConcatProperties
<1>9. Len(G) \in Nat /\ Len(F) \in Nat
  BY <1>3
<1>10. \A j \in 2 .. Len(F) : j - 1 \in 1 .. Len(G) /\ F[j] = G[j - 1]
  BY <1>8, <1>9
<1>11. Len(F) = Len(R) + 1 /\ \A j \in 1 .. Len(F) : F[j].size > 0
  <2>1. \A j \in 1 .. Len(F) : j = 1 \/ j \in 2 .. Len(F)
    BY <1>9
  <2> QED BY <1>4, <1>5, <1>8, <1>10, <2>1 DEF AlikeBehind
<1>12. ASSUME NEW j \in 2 .. Len(F)
       PROVE  /\ F[j].field = R[j - 1].field
              /\ F[j].field # "data" => F[j].size = R[j - 1].size
              /\ F[j].field = "data" =>
                   j = Len(F) /\ j # 2 /\ F[j - 1].field = "data_lenght" /\ F[j] = DataField(m.len)
              /\ F[j].field = "data_lenght" =>
                   /\ j = Len(F) - 1 /\ F[j + 1].field = "data"
                   /\ F[j].num = m.len /\ m.len # 0
  <2>1. j \in Nat /\ j - 1 \in 1 .. Len(G) /\ F[j] = G[j - 1]
    BY <1>10
  <2>2. /\ G[j - 1].field = R[j - 1].field
        /\ G[j - 1].field # "data" => G[j - 1].size = R[j - 1].size
        /\ G[j - 1].field = "data" =>
             /\ j - 1 = Len(G) /\ j - 1 # 1 /\ G[(j - 1) - 1].field = "data_lenght"
             /\ G[j - 1] = DataField(m.len)
        /\ G[j - 1].field = "data_lenght" =>
             /\ j - 1 = Len(G) - 1 /\ G[(j - 1) + 1].field = "data"
             /\ G[j - 1].num = m.len /\ m.len # 0
    BY <1>5, <2>1 DEF AlikeBehind
  <2>3. j # 2 => F[j - 1] = G[(j - 1) - 1]
    BY <1>10, <2>1
  <2>4. j < Len(F) => F[j + 1] = G[(j - 1) + 1]
    <3> SUFFICES ASSUME j < Len(F) PROVE F[j + 1] = G[(j - 1) + 1]
      OBVIOUS
    <3>1. j + 1 \in 2 .. Len(F) /\ (j + 1) - 1 = (j - 1) + 1
      BY <1>9, <2>1
    <3> QED BY <1>10, <3>1
  <2>5. j - 1 = Len(G) <=> j = Len(F)
    BY <1>8, <1>9, <2>1
  <2>6. j - 1 = Len(G) - 1 <=> j = Len(F) - 1
    BY <1>8, <1>9, <2>1
  <2>7. j = Len(F) - 1 => j < Len(F)
    BY <1>9, <2>1
  <2>8. j - 1 # 1 => j # 2
    BY <2>1
  <2> QED BY <2>1, <2>2, <2>3, <2>4, <2>5, <2>6, <2>7, <2>8
<1> QED BY <1>3, <1>8, <1>11, <1>12 DEF Alike, G, F, R

-------------------------------------------------------------------------------
(* The invariant of one writer                                             *)

\* The field at place p: a message, by its number, and the number of the field in it.
FieldAt(M, p) == SentFields(M[p[1]])[p[2]]
Places(M, n) == {p \in Nat \X Nat : p[1] \in 1 .. n /\ p[2] \in 1 .. Len(SentFields(M[p[1]]))}

\* The place behind p.
After(M, p) ==
  IF p[2] < Len(SentFields(M[p[1]])) THEN <<p[1], p[2] + 1>> ELSE <<p[1] + 1, 1>>

\* n messages have been begun, the k-th is M[k]; v fields have been written, the i-th is
\* the one at place P[i] and ends S[i] bytes behind the beginning of the connection.
Track(M, P, S, v, n) ==
  /\ v \in Nat /\ \A k \in 1 .. n : Whole(M[k])
  /\ \A i \in 1 .. v : /\ P[i] \in Places(M, n) /\ P[i + 1] = After(M, P[i])
                       /\ S[i] = S[i - 1] + FieldAt(M, P[i]).size
  /\ \A i, j \in 0 .. v : i <= j => S[i] <= S[j]

\* The stream s holds the fields behind the first r, whole.
Carries(w, M, P, S, r, v, s) ==
  /\ r \in 0 .. v /\ Len(s) = S[v] - S[r]
  /\ \A i \in (r + 1) .. v : \A a \in 1 .. FieldAt(M, P[i]).size :
       s[(S[i - 1] - S[r]) + a] =
         [msg |-> <<w, P[i][1]>>, field |-> FieldAt(M, P[i]).field, at |-> a,
          of |-> FieldAt(M, P[i]).size, num |-> FieldAt(M, P[i]).num]

From(F, j) == SubSeq(F, j, Len(F))

\* The writer is at place p: between two messages, or in the middle of one.
Between(w, p) == p = <<sent[w] + 1, 1>> /\ todo[w] = <<>>
InMessage(w, M, p) ==
  p[1] = sent[w] /\ p[1] \in 1 .. MaxMessages /\ p[2] \in 2 .. Len(SentFields(M[p[1]]))
Sending(w, M, p) ==
  InMessage(w, M, p) /\ todo[w] = From(SentFields(M[p[1]]), p[2]) /\ (ptr[w] = M[p[1]].ptr)

WriterAt(w, M, p) ==
  /\ open => ~cut /\ (Between(w, p) \/ Sending(w, M, p))
  /\ ~open /\ cut => InMessage(w, M, p) /\ todo[w] = <<>>
  /\ ~open /\ ~cut => Between(w, p)

\* The reader is at place p; the messages before it have been read.
Wanted(m, j) ==
  want = IF SentFields(m)[j].field = "data" THEN <<SentFields(m)[j]>>
         ELSE From(ReadFields(m.id), j - 1)

ReaderAt(w, M, p) ==
  /\ p[1] = Len(got) + 1 /\ \A i \in 1 .. Len(got) : got[i] = <<w, i>>
  /\ want = <<>> => p[2] = 1 /\ taken = {}
  /\ want # <<>> => /\ p[1] \in 1 .. sent[w] /\ p[2] \in 2 .. Len(SentFields(M[p[1]]))
                    /\ Wanted(M[p[1]], p[2]) /\ taken = {<<w, p[1]>>}
  /\ ended => ~open /\ stream = <<>>

InStep(w) ==
  \E M \in [Nat -> Message], P \in [Nat -> Nat \X Nat], S \in [Nat -> Nat], r \in Nat, v \in Nat :
    /\ Track(M, P, S, v, sent[w]) /\ Carries(w, M, P, S, r, v, stream)
    /\ WriterAt(w, M, P[v + 1]) /\ ReaderAt(w, M, P[r + 1])

\* The end of the stream came in the middle of a message, which is read on as if the
\* rest of its fields had come.
CutOff(w) ==
  /\ ~open /\ cut /\ stream = <<>> /\ todo[w] = <<>> /\ sent[w] > 0
  /\ \A i \in 1 .. (sent[w] - 1) : got[i] = <<w, i>>
  /\ want # <<>> => Len(got) = sent[w] - 1 /\ {Garbled, <<w, sent[w]>>} \subseteq taken /\ ~ended
  /\ want = <<>> => Len(got) = sent[w] /\ got[sent[w]] = Garbled

FrameInv(w) == InStep(w) \/ CutOff(w)

\* What FrameInv says of the messages read is Framed.
LEMMA FrameMeaning ==
  ASSUME NEW w, Writers = {w}, TypeInv, FrameInv(w)
  PROVE  Framed
<1>1. got \in Seq(Tag) /\ Len(got) \in Nat /\ DOMAIN got = 1 .. Len(got)
  BY DEF TypeInv, TypeOK
<1>2. sent[w] \in Nat
  BY DEF TypeInv, TypeOK
<1>7. PICK n : n = Len(got) /\ n \in Nat
  BY <1>1
<1>3. ended => ~open /\ stream = <<>>
  BY DEF FrameInv, InStep, ReaderAt, CutOff
<1>4. \A i \in 1 .. Len(got) : got[i] = <<w, i>> \/ (got[i] = Garbled /\ i = Len(got) /\ cut)
  <2>1. CASE InStep(w)
    <3>1. PICK M, p : ReaderAt(w, M, p)
      BY <2>1 DEF InStep
    <3> QED BY <3>1 DEF ReaderAt
  <2>2. CASE CutOff(w)
    <3>1. want = <<>> \/ want # <<>>
      OBVIOUS
    <3>2. cut /\ \A i \in 1 .. (sent[w] - 1) : got[i] = <<w, i>>
      BY <2>2 DEF CutOff
    <3>3. Len(got) = sent[w] - 1 \/ (Len(got) = sent[w] /\ got[sent[w]] = Garbled)
      BY <2>2, <3>1 DEF CutOff
    <3>4. ASSUME NEW i \in 1 .. Len(got), i \notin 1 .. (sent[w] - 1) PROVE i = Len(got) /\ i = sent[w]
      <4>1. n = sent[w] - 1 \/ n = sent[w]
        BY <1>7, <3>3
      <4>2. i \in 1 .. n
        BY <1>7, <3>4
      <4> QED BY <1>2, <1>7, <3>4, <4>1, <4>2
    <3> QED BY <3>2, <3>3, <3>4
  <2> QED BY <2>1, <2>2 DEF FrameInv
<1>5. ASSUME NEW i \in 1 .. Len(got), got[i] = <<w, i>>
      PROVE  got[i][2] = 1 + Cardinality({j \in 1 .. (i - 1) : got[j][1] = got[i][1]})
  <2>0. i \in Nat /\ i - 1 \in Nat /\ i <= Len(got)
    BY <1>1
  <2>1. \A j \in 1 .. (i - 1) : j \in 1 .. Len(got) /\ j # Len(got)
    <3>1. i <= n
      BY <1>7, <2>0
    <3>2. \A j \in 1 .. (i - 1) : j \in 1 .. n /\ j # n
      BY <1>7, <2>0, <3>1
    <3> QED BY <1>7, <3>2
  <2>2. \A j \in 1 .. (i - 1) : got[j] = <<w, j>>
    BY <1>4, <2>1
  <2>3. {j \in 1 .. (i - 1) : got[j][1] = got[i][1]} = 1 .. (i - 1)
    BY <1>5, <2>2
  <2>4. Cardinality(1 .. (i - 1)) = i - 1
    <3>1. Cardinality(1 .. (i - 1)) = IF 1 > i - 1 THEN 0 ELSE (i - 1) - 1 + 1
      BY <2>0, FS_Interval
    <3> QED BY <2>0, <3>1
  <2>5. got[i][2] = i
    BY <1>5
  <2>6. i = 1 + (i - 1)
    BY <2>0
  <2> QED BY <2>3, <2>4, <2>5, <2>6
<1>6. \A i \in 1 .. Len(got) : got[i] = <<w, i>> => got[i] # Garbled
  <2>1. \A i : <<w, i>> # <<>>
    OBVIOUS
  <2> QED BY <2>1 DEF Garbled
<1> QED BY <1>1, <1>3, <1>4, <1>5, <1>6 DEF Framed

\* At the beginning nothing has been written.
LEMMA FrameInit ==
  ASSUME NEW w, Writers = {w}, Init
  PROVE  FrameInv(w)
<1> DEFINE M == [k \in Nat |-> [id |-> LOGIN, err |-> 0, len |-> 0, ptr |-> TRUE]]
           P == [i \in Nat |-> <<1, 1>>]
           S == [i \in Nat |-> 0]
<1>1. M \in [Nat -> Message] /\ P \in [Nat -> Nat \X Nat] /\ S \in [Nat -> Nat]
  BY DEF Message, MessageId
<1>2. P[1] = <<1, 1>> /\ S[0] = 0 /\ sent[w] = 0 /\ Len(got) = 0
  BY DEF Init
<1> HIDE DEF M, P, S
<1>3. Track(M, P, S, 0, sent[w]) /\ Carries(w, M, P, S, 0, 0, stream)
  BY <1>1, <1>2 DEF Track, Carries, Init
<1>4. WriterAt(w, M, P[0 + 1]) /\ ReaderAt(w, M, P[0 + 1])
  <2>1. P[0 + 1] = <<1, 1>>
    BY <1>2
  <2>2. WriterAt(w, M, <<1, 1>>)
    <3>1. <<1, 1>> = <<sent[w] + 1, 1>> /\ todo[w] = <<>>
      BY <1>2 DEF Init
    <3> QED BY <3>1 DEF WriterAt, Between, Init
  <2>3. ReaderAt(w, M, <<1, 1>>)
    BY <1>2 DEF ReaderAt, Init
  <2> QED BY <2>1, <2>2, <2>3
<1> QED BY <1>1, <1>3, <1>4 DEF FrameInv, InStep

\* The rest of a message from its j-th field.
LEMMA RestOf ==
  ASSUME NEW q \in Seq(Field), NEW j \in 1 .. Len(q)
  PROVE  /\ From(q, j) \in Seq(Field) /\ From(q, j) # <<>>
         /\ Head(From(q, j)) = q[j]
         /\ j = Len(q) => Tail(From(q, j)) = <<>>
         /\ j < Len(q) => Tail(From(q, j)) = From(q, j + 1) /\ From(q, j + 1) # <<>>
<1> DEFINE s == From(q, j)
<1>1. /\ s \in Seq(Field) /\ Len(s) = Len(q) - j + 1
      /\ \A i \in 1 .. Len(s) : s[i] = q[j + i - 1]
  BY SubSeqProperties DEF From
<1> HIDE DEF s
<1>2. Len(q) \in Nat
  OBVIOUS
<1>3. s # <<>> /\ Head(s) = q[j]
  BY <1>1, <1>2
<1>4. /\ Tail(s) \in Seq(Field) /\ Len(Tail(s)) = Len(q) - j
      /\ \A i \in 1 .. Len(q) - j : Tail(s)[i] = q[j + i]
  BY <1>1, <1>2, <1>3, HeadTailProperties
<1>5. j = Len(q) => Tail(s) = <<>>
  <2>1. \A u \in Seq(Field) : Len(u) = 0 => u = <<>>
    OBVIOUS
  <2>2. j = Len(q) => Len(Tail(s)) = 0
    BY <1>2, <1>4
  <2> QED BY <1>4, <2>1, <2>2
<1>6. ASSUME j < Len(q) PROVE Tail(s) = From(q, j + 1) /\ From(q, j + 1) # <<>>
  <2> DEFINE t == From(q, j + 1)
  <2>1. /\ t \in Seq(Field) /\ Len(t) = Len(q) - j
        /\ \A i \in 1 .. Len(q) - j : t[i] = q[j + i]
    BY <1>2, <1>6, SubSeqProperties DEF From
  <2> HIDE DEF t
  <2>2. Len(t) = Len(Tail(s)) /\ \A i \in 1 .. Len(t) : t[i] = Tail(s)[i]
    BY <1>4, <2>1
  <2>3. t = Tail(s)
    <3>1. \A x, y \in Seq(Field) : Len(x) = Len(y) /\ (\A i \in 1 .. Len(x) : x[i] = y[i]) => x = y
      BY SeqEqual
    <3> QED BY <1>4, <2>1, <2>2, <3>1
  <2>4. Len(t) # 0
    <3>1. j \in Nat
      OBVIOUS
    <3>2. Len(q) - j # 0
      BY <1>2, <1>6, <3>1
    <3> QED BY <2>1, <3>2
  <2>5. t # <<>>
    BY <2>4
  <2> QED BY <2>3, <2>5 DEF t
<1> QED BY <1>1, <1>3, <1>5, <1>6 DEF s

\* A message with data in it has data that can be read.
LEMMA DataIsReadable ==
  ASSUME NEW m \in Message, Whole(m), NEW j \in 2 .. Len(SentFields(m)),
         SentFields(m)[j].field = "data"
  PROVE  m.ptr
<1>1. m.id \in MessageId /\ m.err \in Nat /\ m.len \in Nat /\ m.id \in Nat
  BY IdNumbers DEF Message
<1>2. ReadFields(m.id)[j - 1].field = "data" /\ j - 1 \in 1 .. Len(ReadFields(m.id))
  <2>1. Alike(SentFields(m), ReadFields(m.id), m.len)
    BY Agreement
  <2>2. Len(ReadFields(m.id)) \in Nat /\ Len(SentFields(m)) = Len(ReadFields(m.id)) + 1
    BY <2>1 DEF Alike
  <2> QED BY <2>1, <2>2 DEF Alike
<1>3. m.id \in HasData
  <2> SUFFICES ASSUME m.id \notin HasData PROVE FALSE
    OBVIOUS
  <2>1. \A f \in {NameField("proposed_nickname"), NameField("sender"), PwField, RoomField,
                  ErrField(0)} : f.field # "data"
    BY SizesAndNames
  <2>2. PICK R : R = ReadFields(m.id)
    OBVIOUS
  <2>3. \A i \in 1 .. Len(R) : R[i].field # "data"
    <3>1. CASE m.id = REGISTER_USER \/ m.id = LOGIN \/ m.id \in {JOIN, EXIT, CREATE_CHAT_ROOM}
      <4>1. PICK a, b : /\ a \in {NameField("proposed_nickname"), NameField("sender")}
                        /\ b \in {PwField, RoomField} /\ R = <<a, b>>
        BY <2>2, <3>1, FieldsOf DEF ReadFields
      <4>2. a.field # "data" /\ b.field # "data"
        BY <2>1, <4>1
      <4> QED BY <4>1, <4>2
    <3>2. CASE m.id \in {SHOW_CHAT_ROOMS, SHOW_USERS}
      <4>1. R = <<>>
        BY <2>2, <3>2, FieldsOf DEF ReadFields
      <4> QED BY <4>1
    <3>3. CASE m.id \in MessageId \ Ids
      <4>1. R = <<ErrField(0)>>
        BY <2>2, <3>3, FieldsOf DEF ReadFields
      <4> QED BY <2>1, <4>1
    <3> QED BY <1>1, <3>1, <3>2, <3>3, Kinds DEF HasData
  <2> QED BY <1>2, <2>2, <2>3
<1> QED BY <1>3 DEF Whole

\* The field at a place has a size.
LEMMA FieldSize ==
  ASSUME NEW M \in [Nat -> Message], NEW n \in Nat, NEW p \in Places(M, n)
  PROVE  /\ FieldAt(M, p) \in Field /\ FieldAt(M, p).size \in Nat
         /\ Whole(M[p[1]]) => FieldAt(M, p).size > 0
<1>1. p[1] \in Nat /\ p[2] \in 1 .. Len(SentFields(M[p[1]]))
  BY DEF Places
<1>2. M[p[1]] \in Message /\ SentFields(M[p[1]]) \in Seq(Field)
  BY <1>1, SentType
<1>3. FieldAt(M, p) \in Field
  BY <1>1, <1>2 DEF FieldAt
<1>4. Whole(M[p[1]]) => FieldAt(M, p).size > 0
  BY <1>1, <1>2, Agreement DEF Alike, FieldAt
<1> QED BY <1>3, <1>4 DEF Field

LEMMA Elements ==
  \A x \in Seq(Field) : Len(x) \in Nat /\ \A i \in 1 .. Len(x) : x[i] \in Field
OBVIOUS

\* Additions and comparisons.
LEMMA Sums ==
  /\ \A a, b \in Nat : a + b \in Nat
  /\ \A a \in Nat : a + 1 \in Nat /\ a + 2 \in Nat
  /\ \A a, b, c \in Nat : a <= b /\ b <= c => a <= c
  /\ \A a \in Nat : /\ a <= a + 1 /\ a + 1 \in 1 .. (a + 1)
                    /\ \A k \in 1 .. (a + 1) : k \in 1 .. a \/ k = a + 1
                    /\ \A k \in 1 .. a : k # a + 1
  /\ \A a \in Nat : 1 \in 1 .. a => a = 1 \/ 1 < a
OBVIOUS

\* A field is written behind those in the stream s, which yields t; N has the messages of
\* M and perhaps one that is begun with it.
Adds(w, M, N, p, n, l, s, t) ==
  /\ n <= l /\ (\A k \in 1 .. n : N[k] = M[k]) /\ (\A k \in 1 .. l : Whole(N[k]))
  /\ p \in Places(N, l) /\ Len(s) \in Nat
  /\ Len(t) = Len(s) + FieldAt(N, p).size
  /\ \A i \in 1 .. Len(s) : t[i] = s[i]
  /\ \A a \in 1 .. FieldAt(N, p).size :
       t[Len(s) + a] = [msg |-> <<w, p[1]>>, field |-> FieldAt(N, p).field, at |-> a,
                        of |-> FieldAt(N, p).size, num |-> FieldAt(N, p).num]

\* The stream carries what it did and the field.
Grown(w, N, P, r, v, l, t) ==
  \E Q \in [Nat -> Nat \X Nat], Z \in [Nat -> Nat] :
    /\ Track(N, Q, Z, v + 1, l) /\ Carries(w, N, Q, Z, r, v + 1, t)
    /\ Q[r + 1] = P[r + 1] /\ Q[v + 2] = After(N, P[v + 1])

LEMMA Grows ==
  ASSUME NEW w, NEW M \in [Nat -> Message], NEW N \in [Nat -> Message],
         NEW P \in [Nat -> Nat \X Nat], NEW S \in [Nat -> Nat],
         NEW r \in Nat, NEW v \in Nat, NEW n \in Nat, NEW l \in Nat, NEW s, NEW t,
         Track(M, P, S, v, n), Carries(w, M, P, S, r, v, s), Adds(w, M, N, P[v + 1], n, l, s, t)
  PROVE  Grown(w, N, P, r, v, l, t)
<1> DEFINE p == P[v + 1]
           size == FieldAt(N, p).size
           Q == [P EXCEPT ![v + 2] = After(N, p)]
           Z == [S EXCEPT ![v + 1] = S[v] + size]
<1>0. v + 1 \in Nat /\ v + 2 \in Nat /\ r \in 0 .. v /\ r <= v
  <2>1. r \in 0 .. v
    BY DEF Carries
  <2> QED BY <2>1
<1>10. p \in Places(N, l) /\ size \in Nat /\ n <= l /\ \A k \in 1 .. l : Whole(N[k])
  BY FieldSize DEF Adds
<1>1. p \in Nat \X Nat /\ After(N, p) \in Nat \X Nat /\ S[v] + size \in Nat
  <2>1. p \in Nat \X Nat
    BY <1>0
  <2>2. p[1] \in Nat /\ p[2] \in Nat
    BY <2>1
  <2>3. S[v] + size \in Nat
    <3>1. S[v] \in Nat
      OBVIOUS
    <3> QED BY ONLY <1>10, <3>1, Sums
  <2>4. <<p[1], p[2] + 1>> \in Nat \X Nat /\ <<p[1] + 1, 1>> \in Nat \X Nat
    <3>1. p[1] + 1 \in Nat /\ p[2] + 1 \in Nat
      BY ONLY <2>2, Sums
    <3> QED BY <2>2, <3>1
  <2> QED BY <2>1, <2>3, <2>4 DEF After
<1>2. Q \in [Nat -> Nat \X Nat] /\ Z \in [Nat -> Nat]
  BY <1>0, <1>1
<1>3. /\ Q[v + 2] = After(N, p) /\ \A i \in 1 .. (v + 1) : Q[i] = P[i]
      /\ Z[v + 1] = S[v] + size /\ \A i \in 0 .. v : Z[i] = S[i]
  BY <1>0
<1> HIDE DEF Q, Z, p, size
<1>4. ASSUME NEW i \in 1 .. v
      PROVE  /\ P[i] \in Places(N, l) /\ FieldAt(N, P[i]) = FieldAt(M, P[i])
             /\ P[i + 1] = After(N, P[i])
  <2>1. P[i] \in Places(M, n) /\ P[i + 1] = After(M, P[i])
    BY DEF Track
  <2>2. P[i] \in Nat \X Nat /\ P[i][1] \in 1 .. n /\ P[i][2] \in 1 .. Len(SentFields(M[P[i][1]]))
    BY <2>1 DEF Places
  <2>3. P[i][1] \in 1 .. l
    <3>1. PICK a : a = P[i][1] /\ a \in 1 .. n
      BY <2>2
    <3>2. a \in 1 .. l
      BY <1>10, <3>1
    <3> QED BY <3>1, <3>2
  <2>4. N[P[i][1]] = M[P[i][1]]
    BY <2>2 DEF Adds
  <2> QED BY <2>1, <2>2, <2>3, <2>4 DEF Places, FieldAt, After
<1>5. ASSUME NEW i \in 1 .. (v + 1)
      PROVE  /\ Q[i] \in Places(N, l) /\ Q[i + 1] = After(N, Q[i])
             /\ Z[i] = Z[i - 1] + FieldAt(N, Q[i]).size
  <2>1. CASE i = v + 1
    <3>1. Q[i] = p /\ Q[i + 1] = After(N, p)
      <4>1. v + 1 \in 1 .. (v + 1) /\ (v + 1) + 1 = v + 2
        OBVIOUS
      <4> QED BY <1>3, <2>1, <4>1 DEF p
    <3>2. Z[i] = S[v] + size /\ Z[i - 1] = S[v]
      <4>1. v \in 0 .. v /\ (v + 1) - 1 = v
        OBVIOUS
      <4> QED BY <1>3, <2>1, <4>1
    <3> QED BY <1>10, <3>1, <3>2 DEF size
  <2>2. CASE i # v + 1
    <3>1. i \in 1 .. v /\ i + 1 \in 1 .. (v + 1) /\ i - 1 \in 0 .. v /\ i \in 0 .. v
      BY <2>2
    <3>2. Q[i] = P[i] /\ Q[i + 1] = P[i + 1] /\ Z[i] = S[i] /\ Z[i - 1] = S[i - 1]
      BY <1>3, <3>1
    <3>3. S[i] = S[i - 1] + FieldAt(M, P[i]).size
      BY <3>1 DEF Track
    <3> QED BY <1>4, <3>1, <3>2, <3>3
  <2> QED BY <2>1, <2>2
<1>6. \A i, j \in 0 .. (v + 1) : i <= j => Z[i] <= Z[j]
  <2>1. \A i, j \in 0 .. v : i <= j => Z[i] <= Z[j]
    BY <1>3 DEF Track
  <2>2. \A i \in 0 .. v : Z[i] <= S[v] /\ Z[i] \in Nat
    <3>1. \A i \in 0 .. v : i \in Nat /\ i <= v /\ v \in 0 .. v
      OBVIOUS
    <3> QED BY <1>2, <1>3, <2>1, <3>1
  <2>3. \A i \in 0 .. v : Z[i] <= Z[v + 1]
    <3>1. S[v] \in Nat
      OBVIOUS
    <3>2. S[v] <= Z[v + 1]
      BY <1>3, <1>10, <3>1
    <3>3. Z[v + 1] \in Nat
      BY <1>0, <1>2
    <3>4. ASSUME NEW i \in 0 .. v PROVE Z[i] <= Z[v + 1]
      <4>1. Z[i] <= S[v] /\ Z[i] \in Nat
        BY <2>2
      <4> QED BY ONLY <3>1, <3>2, <3>3, <4>1, Sums
    <3> QED BY <3>4
  <2>4. \A i \in 0 .. (v + 1) : i \in 0 .. v \/ i = v + 1
    OBVIOUS
  <2>5. \A i \in 0 .. v : ~ (v + 1 <= i)
    OBVIOUS
  <2>6. Z[v + 1] \in Nat
    BY <1>0, <1>2
  <2>7. ASSUME NEW i \in 0 .. (v + 1), NEW j \in 0 .. (v + 1), i <= j PROVE Z[i] <= Z[j]
    <3>1. CASE j \in 0 .. v
      <4>1. i \in 0 .. v
        BY <2>4, <2>5, <2>7, <3>1
      <4> QED BY <2>1, <2>7, <3>1, <4>1
    <3>2. CASE j = v + 1
      <4>1. Z[v + 1] <= Z[v + 1]
        <5>1. \A c \in Nat : c <= c
          OBVIOUS
        <5> QED BY <2>6, <5>1
      <4> QED BY <2>3, <2>4, <3>2, <4>1
    <3> QED BY <2>4, <3>1, <3>2
  <2> QED BY <2>7
<1>7. Track(N, Q, Z, v + 1, l)
  BY <1>0, <1>5, <1>6, <1>10 DEF Track
<1>8. Carries(w, N, Q, Z, r, v + 1, t)
  <2>1. /\ Len(s) \in Nat /\ Len(t) = Len(s) + size
        /\ \A i \in 1 .. Len(s) : t[i] = s[i]
        /\ \A a \in 1 .. size :
             t[Len(s) + a] = [msg |-> <<w, p[1]>>, field |-> FieldAt(N, p).field, at |-> a,
                              of |-> FieldAt(N, p).size, num |-> FieldAt(N, p).num]
    BY DEF Adds, p, size
  <2>2. S[v] \in Nat /\ S[r] \in Nat /\ Z[r] = S[r] /\ Len(s) = S[v] - S[r]
    BY <1>0, <1>3 DEF Carries
  <2>3. Len(t) = Z[v + 1] - Z[r]
    BY <1>3, <1>10, <2>1, <2>2
  <2>4. ASSUME NEW i \in (r + 1) .. (v + 1), NEW a \in 1 .. FieldAt(N, Q[i]).size
        PROVE  t[(Z[i - 1] - Z[r]) + a] =
                 [msg |-> <<w, Q[i][1]>>, field |-> FieldAt(N, Q[i]).field, at |-> a,
                  of |-> FieldAt(N, Q[i]).size, num |-> FieldAt(N, Q[i]).num]
    <3>1. CASE i = v + 1
      <4>0. v \in 0 .. v /\ (v + 1) - 1 = v /\ v + 1 \in 1 .. (v + 1)
        OBVIOUS
      <4>1. Q[i] = p /\ Z[i - 1] = S[v]
        BY <1>3, <3>1, <4>0 DEF p
      <4>2. a \in 1 .. size
        BY <2>4, <4>1 DEF size
      <4>3. (Z[i - 1] - Z[r]) + a = Len(s) + a
        BY <2>2, <4>1
      <4> QED BY <2>1, <4>1, <4>2, <4>3
    <3>2. CASE i # v + 1
      <4>1. i \in (r + 1) .. v /\ i \in 1 .. v /\ i \in 1 .. (v + 1) /\ i - 1 \in 0 .. v /\ i \in 0 .. v
        BY <1>0, <3>2
      <4>2. Q[i] = P[i] /\ Z[i - 1] = S[i - 1] /\ FieldAt(N, Q[i]) = FieldAt(M, P[i])
        BY <1>3, <1>4, <4>1
      <4>3. a \in 1 .. FieldAt(M, P[i]).size
        BY <2>4, <4>2
      <4>4. s[(S[i - 1] - S[r]) + a] =
              [msg |-> <<w, P[i][1]>>, field |-> FieldAt(M, P[i]).field, at |-> a,
               of |-> FieldAt(M, P[i]).size, num |-> FieldAt(M, P[i]).num]
        BY <4>1, <4>3 DEF Carries
      <4>5. (S[i - 1] - S[r]) + a \in 1 .. Len(s)
        <5>1. S[i] = S[i - 1] + FieldAt(M, P[i]).size /\ S[i] <= S[v] /\ S[r] <= S[i - 1]
          <6>1. r <= i - 1 /\ i <= v /\ v \in 0 .. v /\ r \in 0 .. v
            BY <1>0, <4>1
          <6> QED BY <4>1, <6>1 DEF Track
        <5>2. FieldAt(M, P[i]).size \in Nat
          <6>1. P[i] \in Places(M, n)
            BY <4>1 DEF Track
          <6> QED BY <6>1, FieldSize
        <5>3. S[i - 1] \in Nat /\ S[i] \in Nat
          <6>1. i - 1 \in Nat /\ i \in Nat
            BY <4>1
          <6> QED BY <6>1
        <5>4. PICK b, c, d, z : /\ b = S[i - 1] /\ c = S[i] /\ d = S[r] /\ z = FieldAt(M, P[i]).size
                                /\ b \in Nat /\ c \in Nat /\ d \in Nat /\ z \in Nat
          BY <2>2, <5>2, <5>3
        <5>5. PICK e : e = S[v] /\ e \in Nat
          BY <2>2
        <5>6. c = b + z /\ c <= e /\ d <= b /\ a \in 1 .. z
          BY <4>3, <5>1, <5>4, <5>5
        <5>7. (b - d) + a \in 1 .. (e - d)
          <6>1. a \in Nat /\ a >= 1 /\ a <= z
            BY <5>4, <5>6
          <6>2. b \in Nat /\ d \in Nat /\ e \in Nat /\ z \in Nat
            BY <5>4, <5>5
          <6>3. b + z <= e /\ d <= b
            BY <5>6
          <6> HIDE DEF Q, Z
          <6> QED BY ONLY <6>1, <6>2, <6>3
        <5> QED BY <2>2, <5>4, <5>5, <5>7
      <4> QED BY <2>1, <2>2, <4>2, <4>4, <4>5
    <3> QED BY <3>1, <3>2
  <2>5. r \in 0 .. (v + 1)
    BY <1>0
  <2> QED BY <2>3, <2>4, <2>5 DEF Carries
<1>9. Q[r + 1] = P[r + 1]
  <2>1. \A a, b \in Nat : a \in 0 .. b => a + 1 \in 1 .. (b + 1)
    OBVIOUS
  <2>2. r + 1 \in 1 .. (v + 1)
    BY <1>0, <2>1
  <2> QED BY ONLY <1>3, <2>2
<1> QED BY <1>2, <1>3, <1>7, <1>8, <1>9 DEF p, Grown

\* What is being read stays where it is while the writer goes on.
LEMMA ReaderStays ==
  ASSUME NEW w \in Writers, TypeInv, NEW M \in [Nat -> Message], NEW N \in [Nat -> Message],
         NEW p \in Nat \X Nat, ReaderAt(w, M, p), open, sent'[w] \in Nat, sent[w] <= sent'[w],
         \A k \in 1 .. sent[w] : N[k] = M[k], UNCHANGED <<want, taken, got, ended>>
  PROVE  ReaderAt(w, N, p)'
<1>1. sent[w] \in Nat /\ p[1] \in Nat
  BY DEF TypeInv, TypeOK
<1>2. ~ended
  BY DEF ReaderAt
<1>3. ASSUME want # <<>>
      PROVE  /\ p[1] \in 1 .. sent'[w] /\ p[2] \in 2 .. Len(SentFields(N[p[1]]))
             /\ Wanted(N[p[1]], p[2])' /\ taken' = {<<w, p[1]>>}
  <2>1. /\ p[1] \in 1 .. sent[w] /\ p[2] \in 2 .. Len(SentFields(M[p[1]]))
        /\ Wanted(M[p[1]], p[2]) /\ taken = {<<w, p[1]>>}
    BY <1>3 DEF ReaderAt
  <2>2. N[p[1]] = M[p[1]]
    BY <2>1
  <2>3. p[1] \in 1 .. sent'[w]
    <3>1. \A a \in 1 .. sent[w] : a \in 1 .. sent'[w]
      BY <1>1
    <3> QED BY <2>1, <3>1
  <2> QED BY <2>1, <2>2, <2>3 DEF Wanted
<1> QED BY <1>2, <1>3 DEF ReaderAt

\* The bytes of a write() behind the stream.
LEMMA Appended ==
  ASSUME TypeInv, NEW w \in Writers, NEW k \in 1 .. MaxMessages, NEW f \in Field
  PROVE  /\ Len(stream) \in Nat /\ Len(stream \o Bytes(w, k, f)) = Len(stream) + f.size
         /\ \A i \in 1 .. Len(stream) : (stream \o Bytes(w, k, f))[i] = stream[i]
         /\ \A a \in 1 .. f.size :
              (stream \o Bytes(w, k, f))[Len(stream) + a] =
                [msg |-> <<w, k>>, field |-> f.field, at |-> a, of |-> f.size, num |-> f.num]
<1>1. stream \in Seq(Byte) /\ Len(stream) \in Nat /\ f.size \in Nat
  BY DEF TypeInv, TypeOK, Byte, Field
<1>2. PICK b : b = Bytes(w, k, f)
  OBVIOUS
<1>3. b \in Seq(Byte) /\ Len(b) = f.size
  BY <1>2, BytesType
<1>4. \A a \in 1 .. f.size :
        b[a] = [msg |-> <<w, k>>, field |-> f.field, at |-> a, of |-> f.size, num |-> f.num]
  BY <1>2 DEF Bytes
<1>5. /\ Len(stream \o b) = Len(stream) + f.size
      /\ \A i \in 1 .. Len(stream) : (stream \o b)[i] = stream[i]
      /\ \A i \in (Len(stream) + 1) .. (Len(stream) + f.size) :
           (stream \o b)[i] = b[i - Len(stream)]
  BY <1>1, <1>3, ConcatProperties
<1>6. ASSUME NEW a \in 1 .. f.size PROVE (stream \o b)[Len(stream) + a] = b[a]
  <2>1. \A x, y \in Nat : \A z \in 1 .. y : x + z \in (x + 1) .. (x + y) /\ (x + z) - x = z
    OBVIOUS
  <2> QED BY <1>1, <1>5, <2>1
<1> QED BY <1>1, <1>2, <1>4, <1>5, <1>6

LEMMA WholeFrom ==
  ASSUME NEW q \in Seq(Field), q # <<>>
  PROVE  From(q, 1) = q
<1>1. 1 \in 1 .. Len(q)
  OBVIOUS
<1>2. From(q, 1) \in Seq(Field) /\ Len(From(q, 1)) = Len(q)
      /\ \A i \in 1 .. Len(q) : From(q, 1)[i] = q[i]
  BY <1>1, SubSeqProperties DEF From
<1> QED BY <1>2, SeqEqual

\* A message behind its first field.
LEMMA Behind ==
  ASSUME NEW q \in Seq(Field), q # <<>>
  PROVE  /\ Head(q) = q[1] /\ 1 \in 1 .. Len(q)
         /\ Len(q) = 1 => Tail(q) = <<>>
         /\ 1 < Len(q) => Tail(q) = From(q, 2)
<1>1. Head(q) = q[1] /\ 1 \in 1 .. Len(q)
  OBVIOUS
<1> QED BY <1>1, WholeFrom, RestOf

\* A message is begun.
LEMMA SendFramed ==
  ASSUME NEW w, Writers = {w}, TypeInv, InStep(w),
         NEW m \in Messages, Whole(m), send(w, m)
  PROVE  InStep(w)'
<1>1. PICK M \in [Nat -> Message], P \in [Nat -> Nat \X Nat], S \in [Nat -> Nat],
           r \in Nat, v \in Nat :
        /\ Track(M, P, S, v, sent[w]) /\ Carries(w, M, P, S, r, v, stream)
        /\ WriterAt(w, M, P[v + 1]) /\ ReaderAt(w, M, P[r + 1])
  BY DEF InStep
<1>2. PICK n : n = sent[w] /\ n \in Nat /\ n + 1 \in 1 .. MaxMessages /\ sent'[w] = n + 1
  <2>1. sent[w] \in 0 .. MaxMessages /\ sent[w] < MaxMessages /\ sent'[w] = sent[w] + 1
    BY DEF send, TypeInv, TypeOK
  <2>2. \A b \in Nat : \A a \in 0 .. b : a < b => a \in Nat /\ a + 1 \in 1 .. b
    OBVIOUS
  <2> QED BY ONLY <2>1, <2>2, MaxMessagesAssumption
<1>3. m \in Message /\ Whole(m)
  BY MessagesAssumption
<1> DEFINE q == SentFields(m)
           N == [M EXCEPT ![n + 1] = m]
<1>4. /\ q \in Seq(Field) /\ q # <<>> /\ Head(q) = q[1] /\ q[1] \in Field /\ Len(q) \in Nat
      /\ 1 \in 1 .. Len(q) /\ (Len(q) = 1 => Tail(q) = <<>>)
      /\ (1 < Len(q) => Tail(q) = From(q, 2))
  <2>1. q \in Seq(Field) /\ q # <<>>
    BY <1>3, SentType
  <2> QED BY ONLY <2>1, Behind, Elements
<1>5. N \in [Nat -> Message] /\ N[n + 1] = m /\ \A k \in 1 .. n : N[k] = M[k]
  <2>1. n + 1 \in Nat /\ \A k \in 1 .. n : k # n + 1
    BY ONLY <1>2, Sums
  <2>2. N[n + 1] = m
    BY <2>1
  <2>3. \A k \in 1 .. n : k \in Nat
    BY ONLY <1>2
  <2>4. \A k \in 1 .. n : N[k] = M[k]
    BY <2>1, <2>3
  <2> QED BY <1>3, <2>2, <2>4
<1> HIDE DEF q, N
<1>6. P[v + 1] = <<n + 1, 1>>
  <2>1. open /\ todo[w] = <<>>
    BY DEF send
  <2>2. ~Sending(w, M, P[v + 1])
    <3> SUFFICES ASSUME Sending(w, M, P[v + 1]) PROVE FALSE
      OBVIOUS
    <3>1. P[v + 1] \in Nat \X Nat
      OBVIOUS
    <3>2. PICK x, j : /\ x = SentFields(M[P[v + 1][1]]) /\ j = P[v + 1][2]
                      /\ x \in Seq(Field) /\ j \in 2 .. Len(x) /\ todo[w] = From(x, j)
      BY <3>1, SentType DEF Sending, InMessage
    <3>3. j \in 1 .. Len(x)
      BY <3>2
    <3>4. From(x, j) # <<>>
      BY ONLY <3>2, <3>3, RestOf
    <3> QED BY <2>1, <3>2, <3>4
  <2> QED BY <1>1, <1>2, <2>1, <2>2 DEF WriterAt, Between
<1> DEFINE p == P[v + 1]
<1>7. FieldAt(N, p) = q[1] /\ p \in Places(N, n + 1)
  <2>0. n + 1 \in Nat /\ n + 1 \in 1 .. (n + 1)
    BY ONLY <1>2, Sums
  <2>1. p[1] = n + 1 /\ p[2] = 1 /\ p \in Nat \X Nat
    BY <1>6
  <2> QED BY <1>4, <1>5, <2>0, <2>1 DEF FieldAt, Places, q
<1>8. Adds(w, M, N, p, n, n + 1, stream, stream')
  <2>1. n <= n + 1 /\ p[1] = n + 1
    <3>1. n <= n + 1
      BY ONLY <1>2, Sums
    <3> QED BY <1>6, <3>1
  <2>2. \A k \in 1 .. (n + 1) : Whole(N[k])
    <3>1. \A k \in 1 .. (n + 1) : k \in 1 .. n \/ k = n + 1
      BY ONLY <1>2, Sums
    <3>2. \A k \in 1 .. n : Whole(M[k])
      BY <1>1, <1>2 DEF Track
    <3> QED BY <1>3, <1>5, <3>1, <3>2
  <2>3. stream' = stream \o Bytes(w, n + 1, q[1])
    BY <1>2, <1>4 DEF send, q
  <2>4. /\ Len(stream) \in Nat /\ Len(stream') = Len(stream) + q[1].size
        /\ \A i \in 1 .. Len(stream) : stream'[i] = stream[i]
        /\ \A a \in 1 .. q[1].size :
             stream'[Len(stream) + a] =
               [msg |-> <<w, n + 1>>, field |-> q[1].field, at |-> a, of |-> q[1].size,
                num |-> q[1].num]
    <3>1. n + 1 \in 1 .. MaxMessages /\ q[1] \in Field
      BY <1>2, <1>4
    <3>2. w \in Writers
      OBVIOUS
    <3>3. /\ Len(stream) \in Nat
          /\ Len(stream \o Bytes(w, n + 1, q[1])) = Len(stream) + q[1].size
          /\ \A i \in 1 .. Len(stream) : (stream \o Bytes(w, n + 1, q[1]))[i] = stream[i]
          /\ \A a \in 1 .. q[1].size :
               (stream \o Bytes(w, n + 1, q[1]))[Len(stream) + a] =
                 [msg |-> <<w, n + 1>>, field |-> q[1].field, at |-> a, of |-> q[1].size,
                  num |-> q[1].num]
      BY ONLY <3>1, <3>2, TypeInv, Appended
    <3> QED BY ONLY <2>3, <3>3
  <2> QED BY <1>5, <1>7, <2>1, <2>2, <2>4 DEF Adds
<1>9. PICK Q \in [Nat -> Nat \X Nat], Z \in [Nat -> Nat] :
        /\ Track(N, Q, Z, v + 1, n + 1) /\ Carries(w, N, Q, Z, r, v + 1, stream')
        /\ Q[r + 1] = P[r + 1] /\ Q[v + 2] = After(N, P[v + 1])
  <2>1. Track(M, P, S, v, n) /\ n + 1 \in Nat
    BY <1>1, <1>2, Sums
  <2>2. \A k \in 1 .. n : N[k] = M[k]
    BY <1>5
  <2> HIDE DEF p
  <2>3. Adds(w, M, N, P[v + 1], n, n + 1, stream, stream')
    BY <1>8 DEF p
  <2>4. Carries(w, M, P, S, r, v, stream)
    BY <1>1
  <2>5. /\ n \in Nat /\ r \in Nat /\ v \in Nat
        /\ M \in [Nat -> Message] /\ N \in [Nat -> Message]
        /\ P \in [Nat -> Nat \X Nat] /\ S \in [Nat -> Nat]
    BY <1>2, <1>5
  <2>6. Grown(w, N, P, r, v, n + 1, stream')
    BY ONLY <2>1, <2>3, <2>4, <2>5, Grows, Zenon
  <2> QED BY <2>6 DEF Grown
<1>10. WriterAt(w, N, Q[v + 2])'
  <2>1. open /\ open' = open /\ cut' = cut /\ ~cut
    BY <1>1 DEF send, WriterAt
  <2>2. todo'[w] = Tail(q) /\ ptr'[w] = m.ptr
    BY DEF send, TypeInv, TypeOK, q
  <2>3. Q[v + 2] = IF 1 < Len(q) THEN <<n + 1, 1 + 1>> ELSE <<(n + 1) + 1, 1>>
    <3>1. p[1] = n + 1 /\ p[2] = 1
      BY <1>6
    <3> HIDE DEF p
    <3> QED BY <1>5, <1>9, <3>1 DEF After, p, q
  <2>4. CASE 1 < Len(q)
    <3>1. Q[v + 2] = <<n + 1, 2>>
      BY <2>3, <2>4
    <3>2. 2 \in 2 .. Len(q)
      BY <1>4, <2>4
    <3>3. Q[v + 2][1] = n + 1 /\ Q[v + 2][2] = 2
      BY <3>1
    <3>4. todo'[w] = From(q, 2) /\ N[n + 1] = m /\ ptr'[w] = m.ptr
      BY <1>4, <1>5, <2>2, <2>4
    <3> QED BY <1>2, <2>1, <3>2, <3>3, <3>4 DEF WriterAt, Sending, InMessage, q
  <2>5. CASE Len(q) = 1
    <3>1. Q[v + 2] = <<(n + 1) + 1, 1>>
      BY <2>3, <2>5
    <3> QED BY <1>2, <1>4, <2>1, <2>2, <2>5, <3>1 DEF WriterAt, Between
  <2>6. 1 < Len(q) \/ Len(q) = 1
    BY ONLY <1>4, Sums
  <2> QED BY <2>4, <2>5, <2>6
<1>11. ReaderAt(w, N, Q[r + 1])'
  <2>1. P[r + 1] \in Nat \X Nat
    OBVIOUS
  <2>2. sent'[w] \in Nat /\ sent[w] <= sent'[w] /\ \A k \in 1 .. sent[w] : N[k] = M[k]
    <3>1. n + 1 \in Nat /\ n <= n + 1
      BY ONLY <1>2, Sums
    <3> QED BY <1>2, <1>5, <3>1
  <2>3. ReaderAt(w, N, P[r + 1])'
    BY <1>1, <1>5, <2>1, <2>2, ReaderStays DEF send
  <2> QED BY <1>9, <2>3
<1>12. (v + 1) + 1 = v + 2 /\ v + 1 \in Nat
  OBVIOUS
<1> QED BY <1>2, <1>5, <1>9, <1>10, <1>11, <1>12 DEF InStep

\* A message goes on: data that cannot be read, which would be left out, there is none.
LEMMA WriteFramed ==
  ASSUME NEW w, Writers = {w}, TypeInv, InStep(w), write(w)
  PROVE  InStep(w)'
<1>1. PICK M \in [Nat -> Message], P \in [Nat -> Nat \X Nat], S \in [Nat -> Nat],
           r \in Nat, v \in Nat :
        /\ Track(M, P, S, v, sent[w]) /\ Carries(w, M, P, S, r, v, stream)
        /\ WriterAt(w, M, P[v + 1]) /\ ReaderAt(w, M, P[r + 1])
  BY DEF InStep
<1>2. w \in Writers /\ open /\ todo[w] # <<>> /\ sent' = sent /\ ptr' = ptr /\ sent[w] \in Nat
  BY DEF write, TypeInv, TypeOK
<1>3. Sending(w, M, P[v + 1]) /\ ~cut
  BY <1>1, <1>2 DEF WriterAt, Between
<1>4. PICK n, j : /\ n = sent[w] /\ n \in 1 .. MaxMessages /\ n \in Nat /\ P[v + 1] = <<n, j>>
                  /\ j \in 2 .. Len(SentFields(M[n])) /\ todo[w] = From(SentFields(M[n]), j)
                  /\ ptr[w] = M[n].ptr
  <2>1. P[v + 1] \in Nat \X Nat
    OBVIOUS
  <2>2. P[v + 1] = <<P[v + 1][1], P[v + 1][2]>>
    <3>1. \A x \in Nat \X Nat : x = <<x[1], x[2]>>
      OBVIOUS
    <3> QED BY ONLY <2>1, <3>1
  <2> QED BY <1>2, <1>3, <2>2 DEF Sending, InMessage
<1>5. M[n] \in Message /\ Whole(M[n]) /\ n \in 1 .. n
  <2>1. n \in 1 .. n
    <3>1. \A b \in Nat : \A a \in 1 .. b : a \in 1 .. a
      OBVIOUS
    <3> QED BY ONLY <1>4, <3>1, MaxMessagesAssumption
  <2> QED BY <1>1, <1>4, <2>1 DEF Track
<1> DEFINE q == SentFields(M[n])
<1>6. q \in Seq(Field) /\ Len(q) \in Nat /\ j \in 1 .. Len(q) /\ j \in Nat /\ q[j] \in Field
  <2>1. q \in Seq(Field)
    BY <1>5, SentType
  <2>2. Len(q) \in Nat
    BY <2>1, Elements
  <2>3. \A b \in Nat : \A a \in 2 .. b : a \in Nat /\ a \in 1 .. b
    OBVIOUS
  <2>4. j \in 1 .. Len(q) /\ j \in Nat
    BY <1>4, <2>2, <2>3
  <2> QED BY <2>1, <2>4, Elements
<1>7. /\ Written(w) = q[j] /\ (j = Len(q) => Tail(todo[w]) = <<>>)
      /\ (j < Len(q) => Tail(todo[w]) = From(q, j + 1))
  <2>1. /\ Head(From(q, j)) = q[j] /\ (j = Len(q) => Tail(From(q, j)) = <<>>)
        /\ (j < Len(q) => Tail(From(q, j)) = From(q, j + 1))
    BY ONLY <1>6, RestOf
  <2> QED BY <1>4, <2>1 DEF Written
<1>8. stream' = stream \o Bytes(w, n, q[j])
  <2>1. q[j].field = "data" => M[n].ptr
    BY <1>4, <1>5, DataIsReadable
  <2> QED BY <1>4, <1>7, <2>1 DEF write
<1>9. M[n] = M[n] /\ FieldAt(M, P[v + 1]) = q[j] /\ P[v + 1] \in Places(M, n)
  <2>1. <<n, j>>[1] = n /\ <<n, j>>[2] = j /\ <<n, j>> \in Nat \X Nat
    BY <1>4, <1>6
  <2> QED BY ONLY <1>4, <1>5, <1>6, <2>1 DEF FieldAt, Places
<1>10. n \in Nat /\ n \in 1 .. MaxMessages
  BY <1>4
<1> HIDE DEF q
<1>11. Adds(w, M, M, P[v + 1], n, n, stream, stream')
  <2>1. /\ Len(stream) \in Nat
        /\ Len(stream \o Bytes(w, n, q[j])) = Len(stream) + q[j].size
        /\ \A i \in 1 .. Len(stream) : (stream \o Bytes(w, n, q[j]))[i] = stream[i]
        /\ \A a \in 1 .. q[j].size :
             (stream \o Bytes(w, n, q[j]))[Len(stream) + a] =
               [msg |-> <<w, n>>, field |-> q[j].field, at |-> a, of |-> q[j].size,
                num |-> q[j].num]
    BY ONLY <1>2, <1>6, <1>10, TypeInv, Appended
  <2>2. n <= n
    <3>1. \A a \in Nat : a <= a
      OBVIOUS
    <3> QED BY ONLY <1>10, <3>1
  <2>3. P[v + 1][1] = n
    BY <1>4
  <2>4. \A k \in 1 .. n : Whole(M[k])
    BY <1>1, <1>4 DEF Track
  <2> QED BY <1>8, <1>9, <2>1, <2>2, <2>3, <2>4 DEF Adds
<1>12. PICK Q \in [Nat -> Nat \X Nat], Z \in [Nat -> Nat] :
         /\ Track(M, Q, Z, v + 1, n) /\ Carries(w, M, Q, Z, r, v + 1, stream')
         /\ Q[r + 1] = P[r + 1] /\ Q[v + 2] = After(M, P[v + 1])
  <2>1. /\ n \in Nat /\ r \in Nat /\ v \in Nat /\ M \in [Nat -> Message]
        /\ P \in [Nat -> Nat \X Nat] /\ S \in [Nat -> Nat]
    BY <1>4
  <2>2. Track(M, P, S, v, n) /\ Carries(w, M, P, S, r, v, stream)
    BY <1>1, <1>4
  <2>3. Grown(w, M, P, r, v, n, stream')
    BY ONLY <1>11, <2>1, <2>2, Grows, Zenon
  <2> QED BY <2>3 DEF Grown
<1>13. WriterAt(w, M, Q[v + 2])'
  <2>1. open /\ open' = open /\ cut' = cut /\ ~cut
    BY <1>3 DEF write
  <2>2. todo'[w] = Tail(todo[w]) /\ ptr'[w] = M[n].ptr /\ sent'[w] = n
    BY <1>2, <1>4 DEF write, TypeInv, TypeOK
  <2>3. Q[v + 2] = IF j < Len(q) THEN <<n, j + 1>> ELSE <<n + 1, 1>>
    BY <1>4, <1>12 DEF After, q
  <2>4. CASE j < Len(q)
    <3>1. Q[v + 2][1] = n /\ Q[v + 2][2] = j + 1
      BY <2>3, <2>4
    <3>2. j + 1 \in 2 .. Len(q)
      <4>1. \A b \in Nat : \A a \in 1 .. b : a < b => a + 1 \in 2 .. b
        OBVIOUS
      <4> QED BY <1>6, <2>4, <4>1
    <3>3. todo'[w] = From(q, j + 1)
      BY <1>7, <2>2, <2>4
    <3> QED BY <1>10, <2>1, <2>2, <3>1, <3>2, <3>3 DEF WriterAt, Sending, InMessage, q
  <2>5. CASE ~ (j < Len(q))
    <3>1. Q[v + 2] = <<n + 1, 1>>
      BY <2>3, <2>5
    <3>2. j = Len(q)
      <4>1. \A b \in Nat : \A a \in 1 .. b : a < b \/ a = b
        OBVIOUS
      <4> QED BY <1>6, <2>5, <4>1
    <3> QED BY <1>7, <2>1, <2>2, <3>1, <3>2 DEF WriterAt, Between
  <2> QED BY <2>4, <2>5
<1>14. ReaderAt(w, M, Q[r + 1])'
  <2>1. P[r + 1] \in Nat \X Nat
    OBVIOUS
  <2>2. sent'[w] \in Nat /\ sent[w] <= sent'[w] /\ \A k \in 1 .. sent[w] : M[k] = M[k]
    BY <1>2
  <2>3. ReaderAt(w, M, P[r + 1])'
    BY <1>1, <1>2, <2>1, <2>2, ReaderStays DEF write
  <2> QED BY <1>12, <2>3
<1>15. (v + 1) + 1 = v + 2 /\ v + 1 \in Nat
  OBVIOUS
<1> QED BY <1>2, <1>4, <1>12, <1>13, <1>14, <1>15 DEF InStep

\* The writing process ends, in the middle of a message or not.
LEMMA CloseFramed ==
  ASSUME NEW w, Writers = {w}, TypeInv, InStep(w), close
  PROVE  InStep(w)'
<1>1. PICK M \in [Nat -> Message], P \in [Nat -> Nat \X Nat], S \in [Nat -> Nat],
           r \in Nat, v \in Nat :
        /\ Track(M, P, S, v, sent[w]) /\ Carries(w, M, P, S, r, v, stream)
        /\ WriterAt(w, M, P[v + 1]) /\ ReaderAt(w, M, P[r + 1])
  BY DEF InStep
<1>2. /\ open /\ open' = FALSE /\ cut' = (todo[w] # <<>>) /\ todo'[w] = <<>>
      /\ UNCHANGED <<stream, sent, ptr, want, taken, got, ended>>
  BY DEF close
<1>3. P[v + 1] \in Nat \X Nat
  OBVIOUS
<1>4. WriterAt(w, M, P[v + 1])'
  <2>1. CASE Between(w, P[v + 1])
    BY <1>2, <2>1 DEF Between, WriterAt
  <2>2. CASE Sending(w, M, P[v + 1])
    <3>1. InMessage(w, M, P[v + 1])'
      BY <1>2, <2>2 DEF Sending, InMessage
    <3>2. todo[w] # <<>>
      <4>1. PICK x, j : /\ x = SentFields(M[P[v + 1][1]]) /\ j = P[v + 1][2]
                        /\ x \in Seq(Field) /\ j \in 2 .. Len(x) /\ todo[w] = From(x, j)
        BY <1>3, <2>2, SentType DEF Sending, InMessage
      <4>2. j \in 1 .. Len(x)
        BY <4>1
      <4> QED BY <4>1, <4>2, RestOf
    <3> QED BY <1>2, <3>1, <3>2 DEF WriterAt
  <2> QED BY <1>1, <1>2, <2>1, <2>2 DEF WriterAt
<1>5. ReaderAt(w, M, P[r + 1])'
  BY <1>1, <1>2 DEF ReaderAt, Wanted
<1>6. Track(M, P, S, v, sent[w])' /\ Carries(w, M, P, S, r, v, stream)'
  BY <1>1, <1>2
<1> QED BY <1>4, <1>5, <1>6 DEF InStep

\* Offsets in the stream: b is where field i begins, c where it ends, d where the stream
\* begins, h where the first field ends, e where the stream ends.
LEMMA Offsets ==
  /\ \A e, d, z \in Nat : d + z <= e => z <= e - d /\ e - d \in Nat
  /\ \A d, z \in Nat : (d - d) + z = z
  /\ \A b, d, h, z, e, y \in Nat : \A a \in 1 .. z :
       d + y = h /\ h <= b /\ b + z <= e =>
         /\ (b - h) + a \in 1 .. ((e - d) - y) /\ y + ((b - h) + a) = (b - d) + a
         /\ (e - d) - y = e - h
OBVIOUS

LEMMA Positions ==
  ASSUME NEW r \in Nat, NEW v \in Nat, r < v
  PROVE  /\ r \in 0 .. v /\ r + 1 \in 1 .. v /\ r + 1 \in 0 .. v /\ v \in 0 .. v
         /\ (r + 1) - 1 = r /\ (r + 1) + 1 = r + 2 /\ r + 1 \in (r + 1) .. v /\ r + 1 <= v
         /\ \A i \in ((r + 1) + 1) .. v :
              /\ i \in (r + 1) .. v /\ i \in 1 .. v /\ i \in 0 .. v /\ i - 1 \in 0 .. v
              /\ r + 1 <= i - 1 /\ i <= v /\ i \in Nat /\ i - 1 \in Nat
OBVIOUS

LEMMA OtherPlace ==
  ASSUME NEW q, NEW x, NEW f, NEW e, NEW o, NEW z, NEW i,
         q = [msg |-> x, field |-> f, at |-> e, of |-> o, num |-> z]
  PROVE  [q EXCEPT !.at = i] = [msg |-> x, field |-> f, at |-> i, of |-> o, num |-> z]
OBVIOUS

\* The reader reads the next field, whole, when it asks for as many bytes as were written.
ReadsWhole(w, M, P, S, r, v, n, g) ==
  /\ P[r + 1] \in Places(M, n) /\ P[r + 2] = After(M, P[r + 1])
  /\ Whole(M[P[r + 1][1]]) /\ stream # <<>>
  /\ Numbers(Read(g.size)) = {g.num}
  /\ MessageOf(Read(g.size), g.field) = <<w, P[r + 1][1]>>
  /\ Carries(w, M, P, S, r + 1, v, Rest(g.size))

LEMMA ReadWhole ==
  ASSUME TypeInv, NEW w, NEW M \in [Nat -> Message], NEW P \in [Nat -> Nat \X Nat],
         NEW S \in [Nat -> Nat], NEW r \in Nat, NEW v \in Nat, NEW n \in Nat,
         Track(M, P, S, v, n), Carries(w, M, P, S, r, v, stream), r < v,
         NEW g, g = FieldAt(M, P[r + 1])
  PROVE  ReadsWhole(w, M, P, S, r, v, n, g)
<1>0. /\ r \in 0 .. v /\ r + 1 \in 1 .. v /\ r + 1 \in 0 .. v /\ v \in 0 .. v
      /\ (r + 1) - 1 = r /\ (r + 1) + 1 = r + 2 /\ r + 1 \in (r + 1) .. v /\ r + 1 <= v
  BY Positions
<1>1. /\ P[r + 1] \in Places(M, n) /\ P[r + 2] = After(M, P[r + 1])
      /\ S[r + 1] = S[r] + g.size
  BY <1>0 DEF Track
<1>2. Whole(M[P[r + 1][1]])
  BY <1>1 DEF Track, Places
<1>3. g.size \in Nat /\ g.size > 0
  BY <1>1, <1>2, FieldSize
<1>4. S[r] \in Nat /\ S[r + 1] \in Nat /\ S[v] \in Nat
  <2>1. r + 1 \in Nat
    BY Sums
  <2> QED BY <2>1
<1>5. S[r + 1] <= S[v] /\ Len(stream) = S[v] - S[r]
  BY <1>0 DEF Track, Carries
<1>6. g.size <= Len(stream) /\ Len(stream) \in Nat
  <2>1. PICK e, d, z : e = S[v] /\ d = S[r] /\ z = g.size
    OBVIOUS
  <2>2. e \in Nat /\ d \in Nat /\ z \in Nat /\ d + z <= e
    BY ONLY <1>1, <1>3, <1>4, <1>5, <2>1
  <2>3. z <= e - d /\ e - d \in Nat
    BY ONLY <2>2, Offsets
  <2> QED BY ONLY <1>5, <2>1, <2>3
<1> DEFINE b == Read(g.size)
<1>7. /\ Len(b) = g.size /\ \A a \in 1 .. g.size : b[a] = stream[a]
      /\ b \in Seq(Byte)
      /\ Len(Rest(g.size)) = Len(stream) - g.size
      /\ \A i \in 1 .. (Len(stream) - g.size) : Rest(g.size)[i] = stream[g.size + i]
  <2>1. /\ b \in Seq(Byte)
        /\ Len(b) = IF g.size < Len(stream) THEN g.size ELSE Len(stream)
        /\ \A i \in 1 .. Len(b) : b[i] = stream[i]
        /\ Len(Rest(g.size)) = Len(stream) - Len(b)
        /\ \A i \in 1 .. Len(Rest(g.size)) : Rest(g.size)[i] = stream[Len(b) + i]
    BY <1>3, ReadType
  <2>2. \A x, y \in Nat : x <= y => x = IF x < y THEN x ELSE y
    OBVIOUS
  <2>3. Len(b) = g.size
    BY ONLY <1>3, <1>6, <2>1, <2>2
  <2> QED BY ONLY <2>1, <2>3
<1> HIDE DEF b
<1>8. \A a \in 1 .. g.size :
        b[a] = [msg |-> <<w, P[r + 1][1]>>, field |-> g.field, at |-> a, of |-> g.size,
                num |-> g.num]
  <2>1. \A a \in 1 .. g.size :
          stream[(S[(r + 1) - 1] - S[r]) + a] =
            [msg |-> <<w, P[r + 1][1]>>, field |-> g.field, at |-> a, of |-> g.size,
             num |-> g.num]
    BY <1>0 DEF Carries
  <2>2. \A a \in 1 .. g.size : (S[r] - S[r]) + a = a
    <3>1. \A z \in Nat : \A a \in 1 .. z : a \in Nat
      OBVIOUS
    <3> QED BY ONLY <1>3, <1>4, <3>1, Offsets
  <2> QED BY ONLY <1>0, <1>7, <2>1, <2>2
<1>9. IsField(b) /\ b[1].field = g.field /\ b[1].msg = <<w, P[r + 1][1]>> /\ b[1].num = g.num
  <2>1. 1 \in 1 .. g.size
    <3>1. \A z \in Nat : z > 0 => 1 \in 1 .. z
      OBVIOUS
    <3> QED BY ONLY <1>3, <3>1
  <2>2. b # <<>> /\ DOMAIN b = 1 .. g.size
    <3>1. Len(b) # 0 /\ DOMAIN b = 1 .. Len(b)
      <4>1. \A z \in Nat : z > 0 => z # 0
        OBVIOUS
      <4>2. \A x \in Seq(Byte) : DOMAIN x = 1 .. Len(x)
        OBVIOUS
      <4> QED BY ONLY <1>3, <1>7, <4>1, <4>2
    <3>2. Len(<<>>) = 0
      OBVIOUS
    <3> QED BY ONLY <1>7, <3>1, <3>2
  <2>3. b[1] = [msg |-> <<w, P[r + 1][1]>>, field |-> g.field, at |-> 1, of |-> g.size,
                num |-> g.num]
    BY ONLY <1>8, <2>1
  <2>4. \A i \in 1 .. g.size : b[i] = [b[1] EXCEPT !.at = i]
    <3> SUFFICES ASSUME NEW i \in 1 .. g.size PROVE b[i] = [b[1] EXCEPT !.at = i]
      OBVIOUS
    <3>1. PICK x, f, o, z : x = <<w, P[r + 1][1]>> /\ f = g.field /\ o = g.size /\ z = g.num
      OBVIOUS
    <3>2. b[1] = [msg |-> x, field |-> f, at |-> 1, of |-> o, num |-> z]
      BY ONLY <2>3, <3>1
    <3>3. [b[1] EXCEPT !.at = i] = [msg |-> x, field |-> f, at |-> i, of |-> o, num |-> z]
      BY ONLY <3>2, OtherPlace
    <3> QED BY <1>8, <3>1, <3>3
  <2>5. /\ b[1].of = g.size /\ b[1].field = g.field /\ b[1].msg = <<w, P[r + 1][1]>>
        /\ b[1].num = g.num
    BY ONLY <2>3
  <2> QED BY ONLY <1>7, <2>2, <2>4, <2>5 DEF IsField
<1>10. Numbers(Read(g.size)) = {g.num} /\ MessageOf(Read(g.size), g.field) = <<w, P[r + 1][1]>>
  BY <1>9 DEF b, Numbers, MessageOf
<1>11. Carries(w, M, P, S, r + 1, v, Rest(g.size))
  <2>1. Len(Rest(g.size)) = S[v] - S[r + 1]
    <3>1. \A x, y, z, u \in Nat : z = y + u => (x - y) - u = x - z
      OBVIOUS
    <3>2. (S[v] - S[r]) - g.size = S[v] - S[r + 1]
      <4>1. PICK x, y, z, u : x = S[v] /\ y = S[r] /\ z = S[r + 1] /\ u = g.size
        OBVIOUS
      <4>2. x \in Nat /\ y \in Nat /\ z \in Nat /\ u \in Nat /\ z = y + u
        BY ONLY <1>1, <1>3, <1>4, <4>1
      <4>3. (x - y) - u = x - z
        BY ONLY <3>1, <4>2
      <4> QED BY ONLY <4>1, <4>3
    <3> QED BY ONLY <1>5, <1>7, <3>2
  <2>2. ASSUME NEW i \in ((r + 1) + 1) .. v, NEW a \in 1 .. FieldAt(M, P[i]).size
        PROVE  Rest(g.size)[(S[i - 1] - S[r + 1]) + a] =
                 [msg |-> <<w, P[i][1]>>, field |-> FieldAt(M, P[i]).field, at |-> a,
                  of |-> FieldAt(M, P[i]).size, num |-> FieldAt(M, P[i]).num]
    <3>1. /\ i \in (r + 1) .. v /\ i \in 1 .. v /\ i \in 0 .. v /\ i - 1 \in 0 .. v
          /\ r + 1 <= i - 1 /\ i <= v /\ i \in Nat /\ i - 1 \in Nat
      BY Positions
    <3>2. stream[(S[i - 1] - S[r]) + a] =
            [msg |-> <<w, P[i][1]>>, field |-> FieldAt(M, P[i]).field, at |-> a,
             of |-> FieldAt(M, P[i]).size, num |-> FieldAt(M, P[i]).num]
      BY <3>1 DEF Carries
    <3>3. /\ S[i] = S[i - 1] + FieldAt(M, P[i]).size /\ S[i] <= S[v] /\ S[r + 1] <= S[i - 1]
          /\ P[i] \in Places(M, n)
      BY <1>0, <3>1 DEF Track
    <3>4. S[i - 1] \in Nat /\ FieldAt(M, P[i]).size \in Nat
      BY <3>1, <3>3, FieldSize
    <3>5. PICK c, z, d, h, e, y :
            /\ c = S[i - 1] /\ z = FieldAt(M, P[i]).size /\ d = S[r] /\ h = S[r + 1]
            /\ e = S[v] /\ y = g.size
      OBVIOUS
    <3>6. /\ c \in Nat /\ z \in Nat /\ d \in Nat /\ h \in Nat /\ e \in Nat /\ y \in Nat
          /\ d + y = h /\ h <= c /\ c + z <= e /\ a \in 1 .. z
      BY ONLY <1>1, <1>3, <1>4, <2>2, <3>3, <3>4, <3>5
    <3>7. (c - h) + a \in 1 .. ((e - d) - y) /\ y + ((c - h) + a) = (c - d) + a
      <4>1. a \in Nat /\ a >= 1 /\ a <= z
        BY ONLY <3>6
      <4>2. (c - h) + a >= 1 /\ (c - h) + a <= (e - d) - y
        <5>1. c \in Nat /\ z \in Nat /\ d \in Nat /\ h \in Nat /\ e \in Nat /\ y \in Nat
          BY ONLY <3>6
        <5>2. d + y = h /\ h <= c /\ c + z <= e
          BY ONLY <3>6
        <5>3. (c - h) + a >= 1
          BY ONLY <4>1, <5>1, <5>2
        <5>4. c + a <= e
          BY ONLY <4>1, <5>1, <5>2
        <5>5. (c - h) + a <= (e - d) - y
          BY ONLY <4>1, <5>1, <5>2, <5>4
        <5> QED BY ONLY <5>3, <5>5
      <4>3. (c - h) + a \in Int /\ (e - d) - y \in Int
        BY ONLY <3>6, <4>1
      <4>4. y + ((c - h) + a) = (c - d) + a
        BY ONLY <3>6, <4>1
      <4> QED BY ONLY <4>2, <4>3, <4>4
    <3>8. /\ (S[i - 1] - S[r + 1]) + a \in 1 .. (Len(stream) - g.size)
          /\ g.size + ((S[i - 1] - S[r + 1]) + a) = (S[i - 1] - S[r]) + a
      BY ONLY <1>5, <3>5, <3>7
    <3> QED BY ONLY <1>7, <3>2, <3>8
  <2> QED BY <1>0, <2>1, <2>2 DEF Carries
<1>12. stream # <<>>
  <2>1. Len(stream) # 0
    <3>1. \A x, z \in Nat : z > 0 /\ z <= x => x # 0
      OBVIOUS
    <3> QED BY ONLY <1>3, <1>6, <3>1
  <2>2. Len(<<>>) = 0
    OBVIOUS
  <2> QED BY ONLY <2>1, <2>2
<1> QED BY <1>1, <1>2, <1>10, <1>11, <1>12 DEF ReadsWhole

\* The j-th field of the k-th message has been read: the message goes on or is complete.
LEMMA ReaderMoves ==
  ASSUME TypeInv, NEW w \in Writers, NEW M \in [Nat -> Message], NEW k \in 1 .. MaxMessages,
         k \in Nat, k = Len(got) + 1, \A i \in 1 .. Len(got) : got[i] = <<w, i>>,
         k \in 1 .. sent'[w], ~ended', NEW j \in 1 .. Len(SentFields(M[k])),
         Complete(want', {<<w, k>>}),
         \/ j = Len(SentFields(M[k])) /\ want' = <<>>
         \/ j < Len(SentFields(M[k])) /\ want' # <<>> /\ Wanted(M[k], j + 1)'
  PROVE  ReaderAt(w, M, After(M, <<k, j>>))'
<1> DEFINE q == SentFields(M[k])
<1>1. Len(q) \in Nat
  BY SentType, Elements
<1>2. After(M, <<k, j>>) = IF j < Len(q) THEN <<k, j + 1>> ELSE <<k + 1, 1>>
  <2>1. <<k, j>>[1] = k /\ <<k, j>>[2] = j
    OBVIOUS
  <2> QED BY <2>1 DEF After
<1> HIDE DEF q
<1>3. ~ (Len(q) < Len(q))
  BY ONLY <1>1
<1>4. CASE j = Len(q) /\ want' = <<>>
  <2>1. After(M, <<k, j>>) = <<k + 1, 1>>
    BY <1>2, <1>3, <1>4
  <2>2. got' = Append(got, <<w, k>>) /\ taken' = {}
    <3>1. <<w, k>> \in Tag
      BY DEF Tag
    <3>2. (IF \E m \in Tag : {<<w, k>>} = {m} THEN CHOOSE m \in Tag : {<<w, k>>} = {m}
           ELSE Garbled) = <<w, k>>
      BY ONLY <3>1
    <3> QED BY <1>4, <3>2 DEF Complete
  <2>3. got \in Seq(Tag) /\ Len(got) \in Nat
    BY DEF TypeInv, TypeOK
  <2>4. /\ Len(got') = Len(got) + 1 /\ \A i \in 1 .. Len(got) : got'[i] = got[i]
        /\ got'[Len(got) + 1] = <<w, k>>
    <3>1. <<w, k>> \in Tag
      BY DEF Tag
    <3> QED BY ONLY <2>2, <2>3, <3>1, AppendProperties
  <2>5. \A i \in 1 .. Len(got') : got'[i] = <<w, i>>
    <3>1. \A i \in 1 .. (Len(got) + 1) : i \in 1 .. Len(got) \/ i = Len(got) + 1
      BY ONLY <2>3, Sums
    <3> QED BY <2>4, <3>1
  <2> QED BY <1>4, <2>1, <2>2, <2>4, <2>5 DEF ReaderAt
<1>5. CASE j < Len(q) /\ want' # <<>> /\ Wanted(M[k], j + 1)'
  <2>1. After(M, <<k, j>>) = <<k, j + 1>>
    BY <1>2, <1>5
  <2>2. <<k, j + 1>>[1] = k /\ <<k, j + 1>>[2] = j + 1
    OBVIOUS
  <2>3. j + 1 \in 2 .. Len(q)
    <3>1. \A b \in Nat : \A a \in 1 .. b : a < b => a + 1 \in 2 .. b
      OBVIOUS
    <3> QED BY ONLY j \in 1 .. Len(SentFields(M[k])), <1>1, <1>5, <3>1 DEF q
  <2>4. got' = got /\ taken' = {<<w, k>>}
    BY <1>5 DEF Complete
  <2> HIDE DEF Wanted
  <2> QED BY <1>5, <2>1, <2>2, <2>3, <2>4 DEF ReaderAt, q
<1> QED BY <1>4, <1>5 DEF q

\* Nothing the reader does touches the writer.
LEMMA StillInStep ==
  ASSUME NEW w, NEW M \in [Nat -> Message], NEW P \in [Nat -> Nat \X Nat],
         NEW S \in [Nat -> Nat], NEW r \in Nat, NEW v \in Nat,
         UNCHANGED <<open, todo, sent, ptr, cut>>,
         Track(M, P, S, v, sent[w]), Carries(w, M, P, S, r, v, stream'),
         WriterAt(w, M, P[v + 1]), ReaderAt(w, M, P[r + 1])'
  PROVE  InStep(w)'
<1>1. WriterAt(w, M, P[v + 1])'
  BY DEF WriterAt, Between, Sending, InMessage
<1>2. Track(M, P, S, v, sent'[w])
  OBVIOUS
<1> QED BY <1>1, <1>2 DEF InStep

\* At the end of the stream there is nothing to read.
LEMMA NothingToRead ==
  ASSUME TypeInv, stream = <<>>, NEW n \in Nat, NEW f
  PROVE  Rest(n) = <<>> /\ MessageOf(Read(n), f) = Garbled
<1>1. Len(stream) = 0
  OBVIOUS
<1>2. n \in Nat
  OBVIOUS
<1>3. /\ Read(n) \in Seq(Byte) /\ Rest(n) \in Seq(Byte)
      /\ Len(Read(n)) = IF n < Len(stream) THEN n ELSE Len(stream)
      /\ Len(Rest(n)) = Len(stream) - Len(Read(n))
  BY ReadType
<1>4. \A a \in Nat : (IF a < 0 THEN a ELSE 0) = 0
  OBVIOUS
<1>5. Len(Read(n)) = 0
  BY ONLY <1>1, <1>2, <1>3, <1>4
<1>6. Len(Rest(n)) = 0
  <2>1. 0 - 0 = 0
    OBVIOUS
  <2> QED BY ONLY <1>1, <1>3, <1>5, <2>1
<1>7. \A x \in Seq(Byte) : Len(x) = 0 => x = <<>>
  OBVIOUS
<1>8. Read(n) = <<>> /\ Rest(n) = <<>>
  BY ONLY <1>3, <1>5, <1>6, <1>7
<1> QED BY <1>8 DEF MessageOf, IsField

\* An id is read, or the end of the stream.
LEMMA ReadIdFramed ==
  ASSUME NEW w, Writers = {w}, TypeInv, InStep(w), read_id
  PROVE  InStep(w)'
<1>1. PICK M \in [Nat -> Message], P \in [Nat -> Nat \X Nat], S \in [Nat -> Nat],
           r \in Nat, v \in Nat :
        /\ Track(M, P, S, v, sent[w]) /\ Carries(w, M, P, S, r, v, stream)
        /\ WriterAt(w, M, P[v + 1]) /\ ReaderAt(w, M, P[r + 1])
  BY DEF InStep
<1>2. /\ w \in Writers /\ sent[w] \in 0 .. MaxMessages /\ sent[w] \in Nat
      /\ got \in Seq(Tag) /\ Len(got) \in Nat
  BY DEF TypeInv, TypeOK
<1>3. want = <<>> /\ ~ended /\ Readable /\ UNCHANGED <<open, todo, sent, ptr, cut>>
  BY DEF read_id
<1>4. P[r + 1] \in Nat \X Nat /\ P[r + 1][2] = 1 /\ taken = {}
  <2>1. P[r + 1] \in Nat \X Nat
    OBVIOUS
  <2>2. P[r + 1][2] = 1 /\ taken = {}
    BY <1>1, <1>3 DEF ReaderAt
  <2> QED BY <2>1, <2>2
<1>5. r \in 0 .. v
  BY <1>1 DEF Carries
<1>6. CASE r = v
  <2>1. stream = <<>>
    <3>1. Len(stream) = S[v] - S[v] /\ S[v] \in Nat
      BY <1>1, <1>6 DEF Carries
    <3>2. \A a \in Nat : a - a = 0
      OBVIOUS
    <3>3. stream \in Seq(Byte)
      BY DEF TypeInv, TypeOK, Byte
    <3> QED BY <3>1, <3>2, <3>3
  <2>2. ended' = TRUE /\ UNCHANGED <<want, taken, got>>
    BY <2>1 DEF read_id
  <2>3. stream' = <<>>
    <3>1. SizeofInt \in Nat
      BY DEF SizeofInt
    <3> QED BY <2>1, <3>1, NothingToRead DEF read_id
  <2>4. ~open
    BY <1>3, <2>1 DEF Readable
  <2>5. ReaderAt(w, M, P[r + 1])'
    BY <1>1, <1>3, <2>2, <2>3, <2>4 DEF ReaderAt
  <2>6. Carries(w, M, P, S, r, v, stream')
    BY <1>1, <2>1, <2>3
  <2> QED BY <1>1, <1>3, <2>5, <2>6, StillInStep
<1>7. CASE r < v
  <2> DEFINE k == P[r + 1][1]
             q == SentFields(M[k])
             g == q[1]
  <2>1. g = FieldAt(M, P[r + 1])
    BY <1>4 DEF FieldAt
  <2>2. /\ P[r + 1] \in Places(M, sent[w]) /\ P[r + 2] = After(M, P[r + 1])
        /\ Whole(M[k]) /\ stream # <<>>
        /\ Numbers(Read(g.size)) = {g.num}
        /\ MessageOf(Read(g.size), g.field) = <<w, k>>
        /\ Carries(w, M, P, S, r + 1, v, Rest(g.size))
    BY <1>1, <1>2, <1>7, <2>1, ReadWhole DEF ReadsWhole
  <2>3. k \in 1 .. sent[w] /\ k \in Nat /\ k \in 1 .. MaxMessages
    <3>1. k \in 1 .. sent[w]
      BY <2>2 DEF Places
    <3>2. \A a, b \in Nat : a \in 0 .. b => \A c \in 1 .. a : c \in Nat /\ c \in 1 .. b
      OBVIOUS
    <3> QED BY ONLY <1>2, <3>1, <3>2, MaxMessagesAssumption
  <2>4. M[k] \in Message
    BY <2>3
  <2>5. /\ Alike(q, ReadFields(M[k].id), M[k].len) /\ g = IdField(M[k].id)
        /\ M[k].id \in MessageId /\ M[k].id \in Nat /\ M[k].len \in Nat
    BY <2>2, <2>4, Agreement, IdNumbers DEF Message
  <2>6. g.size = SizeofInt /\ g.num = M[k].id /\ g.field = "id"
    BY <2>5 DEF IdField
  <2> DEFINE R == ReadFields(M[k].id)
  <2>7. want' = R /\ Complete(want', {<<w, k>>}) /\ ended' = ended
    BY <2>2, <2>5, <2>6 DEF read_id, UnknownId
  <2>8. /\ q \in Seq(Field) /\ R \in Seq(Field) /\ Len(q) = Len(R) + 1
        /\ 2 \in 2 .. Len(q) => q[2].field # "data"
    BY <2>5 DEF Alike
  <2>9. P[r + 1] = <<k, 1>>
    <3>1. \A x \in Nat \X Nat : x = <<x[1], x[2]>>
      OBVIOUS
    <3> QED BY <1>4, <3>1
  <2> HIDE DEF k, q, g, R
  <2>10. Len(R) \in Nat /\ Len(q) \in Nat
    BY ONLY <2>8, Elements
  <2>11. \/ 1 = Len(q) /\ want' = <<>>
         \/ 1 < Len(q) /\ want' # <<>> /\ want' = From(R, 1) /\ 2 \in 2 .. Len(q)
    <3>1. CASE R = <<>>
      <4>1. Len(q) = 1
        BY <2>8, <3>1
      <4> QED BY <2>7, <3>1, <4>1
    <3>2. CASE R # <<>>
      <4>1. Len(R) # 0
        BY <2>8, <3>2
      <4>2. \A a \in Nat : a # 0 => 1 < a + 1 /\ 2 \in 2 .. (a + 1)
        OBVIOUS
      <4>3. 1 < Len(q) /\ 2 \in 2 .. Len(q)
        BY ONLY <2>8, <2>10, <4>1, <4>2
      <4>4. From(R, 1) = R
        BY <2>8, <3>2, WholeFrom
      <4> QED BY <2>7, <3>2, <4>3, <4>4
    <3> QED BY <3>1, <3>2
  <2>12. 1 < Len(q) /\ want' # <<>> => Wanted(M[k], 1 + 1)'
    <3> SUFFICES ASSUME 1 < Len(q), want' # <<>> PROVE Wanted(M[k], 2)'
      OBVIOUS
    <3>1. want' = From(R, 1) /\ q[2].field # "data"
      BY ONLY 1 < Len(q), want' # <<>>, <2>8, <2>11
    <3>2. 2 - 1 = 1
      OBVIOUS
    <3> QED BY <3>1, <3>2 DEF Wanted, q, R
  <2>13. ReaderAt(w, M, After(M, <<k, 1>>))'
    <3>1. k = Len(got) + 1 /\ \A i \in 1 .. Len(got) : got[i] = <<w, i>>
      BY <1>1 DEF ReaderAt, k
    <3>2. sent'[w] = sent[w] /\ ~ended' /\ 1 \in 1 .. Len(q)
      <4>1. \A a \in Nat : 1 \in 1 .. (a + 1)
        OBVIOUS
      <4> QED BY <1>3, <2>7, <2>8, <2>10, <4>1
    <3>3. k \in 1 .. sent'[w]
      BY <2>3, <3>2
    <3> QED BY ONLY <1>1, <1>2, <2>3, <2>7, <2>11, <2>12, <3>1, <3>2, <3>3, TypeInv, ReaderMoves
            DEF q
  <2>14. ReaderAt(w, M, P[(r + 1) + 1])'
    <3>1. (r + 1) + 1 = r + 2
      OBVIOUS
    <3> QED BY <2>2, <2>9, <2>13, <3>1
  <2>15. Carries(w, M, P, S, r + 1, v, stream')
    BY <2>2, <2>6 DEF read_id
  <2>16. r + 1 \in Nat
    BY Sums
  <2> QED BY <1>1, <1>3, <2>14, <2>15, <2>16, StillInStep
<1> QED BY <1>5, <1>6, <1>7

\* The stream has ended in the middle of the last message, which cannot be read as one.
LEMMA CutMoves ==
  ASSUME TypeInv, NEW w \in Writers, ~open, cut, todo[w] = <<>>, sent[w] > 0, ~ended,
         UNCHANGED <<open, todo, sent, cut, ended>>, stream' = <<>>,
         \A i \in 1 .. (sent[w] - 1) : got[i] = <<w, i>>, Len(got) = sent[w] - 1,
         NEW t \in SUBSET Tag, {Garbled, <<w, sent[w]>>} \subseteq t, Complete(want', t)
  PROVE  CutOff(w)'
<1>1. PICK n : n = sent[w] /\ n \in 1 .. MaxMessages /\ n \in Nat
  <2>1. sent[w] \in 0 .. MaxMessages
    BY DEF TypeInv, TypeOK
  <2>2. \A b \in Nat : \A a \in 0 .. b : a > 0 => a \in 1 .. b /\ a \in Nat
    OBVIOUS
  <2> QED BY <2>1, <2>2, MaxMessagesAssumption
<1>2. CASE want' # <<>>
  BY <1>2 DEF CutOff, Complete
<1>3. CASE want' = <<>>
  <2>1. ~ \E m \in Tag : t = {m}
    <3>1. <<w, n>> # <<>>
      OBVIOUS
    <3> QED BY <1>1, <3>1 DEF Garbled
  <2>2. got' = Append(got, Garbled) /\ taken' = {}
    BY <1>3, <2>1 DEF Complete
  <2>3. got \in Seq(Tag) /\ Len(got) \in Nat /\ Garbled \in Tag
    BY DEF TypeInv, TypeOK, Tag
  <2>4. /\ Len(got') = Len(got) + 1 /\ \A i \in 1 .. Len(got) : got'[i] = got[i]
        /\ got'[Len(got) + 1] = Garbled
    BY ONLY <2>2, <2>3, AppendProperties
  <2>5. Len(got) + 1 = n
    <3>1. \A a \in Nat : (a - 1) + 1 = a
      OBVIOUS
    <3>2. Len(got) = n - 1
      BY <1>1
    <3> QED BY ONLY <1>1, <3>1, <3>2
  <2>6. Len(got') = sent'[w] /\ got'[sent'[w]] = Garbled
    BY <1>1, <2>4, <2>5
  <2>7. \A i \in 1 .. (sent'[w] - 1) : got'[i] = <<w, i>>
    <3>1. sent'[w] = sent[w] /\ 1 .. (sent[w] - 1) = 1 .. Len(got)
      OBVIOUS
    <3> QED BY <2>4, <3>1
  <2> QED BY <1>3, <2>6, <2>7 DEF CutOff
<1> QED BY <1>2, <1>3

\* A field behind the id is read.
LEMMA ReadFieldFramed ==
  ASSUME NEW w, Writers = {w}, TypeInv, InStep(w), read_field
  PROVE  FrameInv(w)'
<1>1. PICK M \in [Nat -> Message], P \in [Nat -> Nat \X Nat], S \in [Nat -> Nat],
           r \in Nat, v \in Nat :
        /\ Track(M, P, S, v, sent[w]) /\ Carries(w, M, P, S, r, v, stream)
        /\ WriterAt(w, M, P[v + 1]) /\ ReaderAt(w, M, P[r + 1])
  BY DEF InStep
<1>2. /\ w \in Writers /\ sent[w] \in 0 .. MaxMessages /\ sent[w] \in Nat
      /\ got \in Seq(Tag) /\ Len(got) \in Nat /\ taken \in SUBSET Tag
      /\ want \in Seq(Field)
  <2>1. w \in Writers /\ sent[w] \in 0 .. MaxMessages /\ sent[w] \in Nat
    BY DEF TypeInv, TypeOK
  <2>2. got \in Seq(Tag) /\ taken \in SUBSET Tag /\ want \in Seq(Field)
    BY DEF TypeInv, TypeOK
  <2>3. Len(got) \in Nat
    BY <2>2
  <2> QED BY <2>1, <2>2, <2>3
<1> DEFINE f == Head(want)
           t == taken \cup {MessageOf(Read(f.size), f.field)}
<1>3. /\ want # <<>> /\ ~ended /\ Readable /\ UNCHANGED <<open, todo, sent, ptr, ended, cut>>
      /\ stream' = Rest(f.size) /\ Complete(want', t)
      /\ want' \in IF f.field = "data_lenght"
                   THEN {IF n = 0 THEN <<>> ELSE <<DataField(n)>> : n \in Numbers(Read(f.size))}
                   ELSE {Tail(want)}
  BY DEF read_field
<1>4. PICK k, j : /\ P[r + 1] = <<k, j>> /\ k \in Nat /\ j \in Nat /\ k \in 1 .. sent[w]
                  /\ j \in 2 .. Len(SentFields(M[k])) /\ Wanted(M[k], j)
                  /\ taken = {<<w, k>>} /\ k = Len(got) + 1
                  /\ \A i \in 1 .. Len(got) : got[i] = <<w, i>>
  <2>1. P[r + 1] \in Nat \X Nat
    OBVIOUS
  <2>2. PICK k, j : P[r + 1] = <<k, j>> /\ k \in Nat /\ j \in Nat
    <3>1. \A x \in Nat \X Nat : x = <<x[1], x[2]>> /\ x[1] \in Nat /\ x[2] \in Nat
      OBVIOUS
    <3> QED BY ONLY <2>1, <3>1
  <2>3. P[r + 1][1] = k /\ P[r + 1][2] = j
    BY <2>2
  <2> QED BY <1>1, <1>3, <2>2, <2>3 DEF ReaderAt
<1>5. f \in Field /\ f.size \in Nat
  <2>1. f \in Field
    BY <1>2, <1>3
  <2> QED BY <2>1 DEF Field
<1>6. t \in SUBSET Tag
  <2>1. MessageOf(Read(f.size), f.field) \in Tag
    BY <1>5, ReadType
  <2> QED BY <1>2, <2>1
<1>7. k \in 1 .. MaxMessages
  <2>1. \A a, b \in Nat : a \in 0 .. b => \A c \in 1 .. a : c \in 1 .. b
    OBVIOUS
  <2> QED BY ONLY <1>2, <1>4, <2>1, MaxMessagesAssumption
<1>8. r \in 0 .. v
  BY <1>1 DEF Carries
<1> HIDE DEF f, t
<1>9. CASE r = v
  <2>1. stream = <<>>
    <3>1. Len(stream) = S[v] - S[v] /\ S[v] \in Nat
      BY <1>1, <1>9 DEF Carries
    <3>2. \A a \in Nat : a - a = 0
      OBVIOUS
    <3>3. stream \in Seq(Byte)
      BY DEF TypeInv, TypeOK, Byte
    <3> QED BY <3>1, <3>2, <3>3
  <2>2. ~open
    BY <1>3, <2>1 DEF Readable
  <2>3. stream' = <<>> /\ t = {<<w, k>>, Garbled}
    BY <1>3, <1>4, <1>5, <2>1, NothingToRead DEF t
  <2>4. j # 1
    BY ONLY <1>4
  <2>5. cut /\ InMessage(w, M, P[v + 1]) /\ todo[w] = <<>>
    <3>1. ~Between(w, P[v + 1])
      BY <1>4, <1>9, <2>4 DEF Between
    <3> QED BY <1>1, <2>2, <3>1 DEF WriterAt
  <2>6. k = sent[w]
    BY <1>4, <1>9, <2>5 DEF InMessage
  <2>7. Len(got) = k - 1 /\ k > 0
    <3>1. \A a, b \in Nat : a = b + 1 => b = a - 1 /\ a > 0
      OBVIOUS
    <3> QED BY ONLY <1>2, <1>4, <3>1
  <2>8. \A i \in 1 .. (k - 1) : got[i] = <<w, i>>
    BY ONLY <1>4, <2>7
  <2>9. /\ UNCHANGED <<open, todo, sent, cut, ended>> /\ Complete(want', t) /\ ~ended
        /\ {Garbled, <<w, sent[w]>>} \subseteq t
    BY <1>3, <2>3, <2>6
  <2>10. /\ sent[w] > 0 /\ Len(got) = sent[w] - 1
         /\ \A i \in 1 .. (sent[w] - 1) : got[i] = <<w, i>>
    BY ONLY <2>6, <2>7, <2>8
  <2>11. CutOff(w)'
    BY ONLY <1>2, <1>6, <2>2, <2>3, <2>5, <2>9, <2>10, TypeInv, CutMoves
  <2> QED BY <2>11 DEF FrameInv
<1>10. CASE r < v
  <2> DEFINE q == SentFields(M[k])
             g == q[j]
             R == ReadFields(M[k].id)
             len == M[k].len
  <2>0. P[r + 1][1] = k /\ P[r + 1][2] = j
    BY <1>4
  <2>1. g = FieldAt(M, P[r + 1])
    BY <2>0 DEF FieldAt
  <2>2. /\ P[r + 1] \in Places(M, sent[w]) /\ P[r + 2] = After(M, P[r + 1])
        /\ Whole(M[k]) /\ Numbers(Read(g.size)) = {g.num}
        /\ MessageOf(Read(g.size), g.field) = <<w, k>>
        /\ Carries(w, M, P, S, r + 1, v, Rest(g.size))
    <3>1. Track(M, P, S, v, sent[w]) /\ Carries(w, M, P, S, r, v, stream) /\ sent[w] \in Nat
      BY <1>1, <1>2
    <3>2. ReadsWhole(w, M, P, S, r, v, sent[w], g)
      BY <1>10, <2>1, <3>1, ReadWhole
    <3> QED BY <2>0, <3>2 DEF ReadsWhole
  <2>3. Alike(q, R, len) /\ len \in Nat
    <3>1. M[k] \in Message
      BY <1>4
    <3> QED BY <2>2, <3>1, Agreement DEF Message
  <2>4. want = IF g.field = "data" THEN <<g>> ELSE From(R, j - 1)
    BY <1>4 DEF Wanted
  <2> HIDE DEF q, g, R, len
  <2>5. q \in Seq(Field) /\ R \in Seq(Field) /\ Len(q) = Len(R) + 1 /\ j \in 2 .. Len(q)
    BY <1>4, <2>3 DEF Alike, q
  <2>6. Len(q) \in Nat /\ Len(R) \in Nat
    BY ONLY <2>5, Elements
  <2>7. /\ j - 1 \in 1 .. Len(R) /\ j \in 1 .. Len(q) /\ (j - 1) + 1 = j /\ (j + 1) - 1 = j
        /\ (j - 1 = Len(R) <=> j = Len(q)) /\ (j - 1 < Len(R) <=> j < Len(q))
        /\ (j < Len(q) => j + 1 \in 2 .. Len(q)) /\ (j = Len(q) \/ j < Len(q))
        /\ (j = Len(q) - 1 => j < Len(q))
    <3>1. \A a, c \in Nat : c = a + 1 => \A b \in 2 .. c :
            /\ b - 1 \in 1 .. a /\ b \in 1 .. c /\ (b - 1) + 1 = b /\ (b + 1) - 1 = b
            /\ (b - 1 = a <=> b = c) /\ (b - 1 < a <=> b < c)
            /\ (b < c => b + 1 \in 2 .. c) /\ (b = c \/ b < c)
            /\ (b = c - 1 => b < c)
      OBVIOUS
    <3> QED BY ONLY <2>5, <2>6, <3>1
  <2>8. /\ g.field = R[j - 1].field
        /\ g.field # "data" => g.size = R[j - 1].size
        /\ g.field = "data" =>
             j = Len(q) /\ q[j - 1].field = "data_lenght" /\ g = DataField(len)
        /\ g.field = "data_lenght" =>
             j = Len(q) - 1 /\ q[j + 1].field = "data" /\ g.num = len /\ len # 0
    BY <2>3, <2>5 DEF Alike, g
  <2>9. f.field = g.field /\ f.size = g.size
    <3>1. CASE g.field = "data"
      BY <2>4, <3>1 DEF f
    <3>2. CASE g.field # "data"
      <4>1. Head(From(R, j - 1)) = R[j - 1]
        BY ONLY <2>5, <2>7, RestOf
      <4> QED BY <2>4, <2>8, <3>2, <4>1 DEF f
    <3> QED BY <3>1, <3>2
  <2>10. t = {<<w, k>>} /\ Numbers(Read(f.size)) = {g.num}
    BY <1>4, <2>2, <2>9 DEF t
  <2>11. \/ j = Len(q) /\ want' = <<>>
         \/ j < Len(q) /\ want' # <<>> /\ Wanted(M[k], j + 1)'
    <3>1. CASE g.field = "data"
      <4>1. want' = Tail(<<g>>)
        BY <1>3, <2>4, <2>9, <3>1
      <4> QED BY <2>8, <3>1, <4>1
    <3>2. CASE g.field = "data_lenght"
      <4>1. want' = <<DataField(len)>>
        <5>1. want' = IF len = 0 THEN <<>> ELSE <<DataField(len)>>
          BY <1>3, <2>8, <2>9, <2>10, <3>2
        <5> QED BY <2>8, <3>2, <5>1
      <4>2. j < Len(q) /\ j + 1 \in 2 .. Len(q) /\ q[j + 1].field = "data"
        BY <2>7, <2>8, <3>2
      <4>3. q[j + 1] = DataField(len)
        BY <2>3, <4>2 DEF Alike
      <4>4. Wanted(M[k], j + 1)'
        BY <4>1, <4>2, <4>3 DEF Wanted, q
      <4> QED BY <4>1, <4>2, <4>4
    <3>3. CASE g.field # "data" /\ g.field # "data_lenght"
      <4>1. want' = Tail(From(R, j - 1))
        BY <1>3, <2>4, <2>9, <3>3
      <4>2. CASE j = Len(q)
        <5>1. Tail(From(R, j - 1)) = <<>>
          BY ONLY <2>5, <2>7, <4>2, RestOf
        <5> QED BY <4>1, <4>2, <5>1
      <4>3. CASE j < Len(q)
        <5>1. Tail(From(R, j - 1)) = From(R, j) /\ From(R, j) # <<>>
          BY ONLY <2>5, <2>7, <4>3, RestOf
        <5>2. q[j + 1].field # "data"
          <6> SUFFICES ASSUME q[j + 1].field = "data" PROVE FALSE
            OBVIOUS
          <6>1. q[(j + 1) - 1].field = "data_lenght"
            BY <2>3, <2>7, <4>3 DEF Alike
          <6> QED BY <2>7, <3>3, <6>1 DEF g
        <5>3. Wanted(M[k], j + 1)'
          BY <2>7, <4>1, <5>1, <5>2 DEF Wanted, q, R
        <5> QED BY <4>1, <4>3, <5>1, <5>3
      <4> QED BY <2>7, <4>2, <4>3
    <3> QED BY <3>1, <3>2, <3>3
  <2>12. ReaderAt(w, M, P[(r + 1) + 1])'
    <3>1. k \in 1 .. sent'[w] /\ ~ended' /\ Complete(want', {<<w, k>>}) /\ j \in 1 .. Len(q)
      BY <1>3, <1>4, <2>7, <2>10
    <3>2. ReaderAt(w, M, After(M, <<k, j>>))'
      BY ONLY <1>1, <1>2, <1>4, <1>7, <2>11, <3>1, TypeInv, ReaderMoves DEF q
    <3>3. (r + 1) + 1 = r + 2
      OBVIOUS
    <3> QED BY <1>4, <2>2, <3>2, <3>3
  <2>13. Carries(w, M, P, S, r + 1, v, stream')
    BY <1>3, <2>2, <2>9
  <2>14. r + 1 \in Nat
    BY Sums
  <2>15. InStep(w)'
    BY <1>1, <1>3, <2>12, <2>13, <2>14, StillInStep
  <2> QED BY <2>15 DEF FrameInv
<1> QED BY <1>8, <1>9, <1>10

\* After that the reader goes on as if the rest of the message had come, and gives up.
LEMMA CutOffStep ==
  ASSUME NEW w, Writers = {w}, TypeInv, CutOff(w), Next
  PROVE  CutOff(w)'
<1>1. /\ ~open /\ cut /\ stream = <<>> /\ todo[w] = <<>> /\ sent[w] > 0 /\ w \in Writers
      /\ \A i \in 1 .. (sent[w] - 1) : got[i] = <<w, i>>
  BY DEF CutOff
<1>2. CASE read_id
  <2>1. ended' = TRUE /\ UNCHANGED <<want, taken, got>>
    BY <1>1, <1>2 DEF read_id
  <2>2. stream' = <<>>
    <3>1. SizeofInt \in Nat
      BY DEF SizeofInt
    <3> QED BY <1>1, <1>2, <3>1, NothingToRead DEF read_id
  <2> QED BY <1>1, <1>2, <2>1, <2>2 DEF CutOff, read_id
<1>3. CASE read_field
  <2> DEFINE f == Head(want)
             t == taken \cup {MessageOf(Read(f.size), f.field)}
  <2>1. /\ want # <<>> /\ stream' = Rest(f.size) /\ Complete(want', t)
        /\ UNCHANGED <<open, todo, sent, ptr, ended, cut>>
    BY <1>3 DEF read_field
  <2>2. want \in Seq(Field) /\ taken \in SUBSET Tag
    BY DEF TypeInv, TypeOK
  <2>3. f.size \in Nat
    <3>1. f \in Field
      BY <2>1, <2>2
    <3> QED BY <3>1 DEF Field
  <2>4. stream' = <<>> /\ t \in SUBSET Tag
    BY <1>1, <2>1, <2>2, <2>3, NothingToRead, ReadType
  <2>5. Len(got) = sent[w] - 1 /\ {Garbled, <<w, sent[w]>>} \subseteq taken /\ ~ended
    BY <2>1 DEF CutOff
  <2>6. {Garbled, <<w, sent[w]>>} \subseteq t
    BY <2>5
  <2> HIDE DEF t
  <2> QED BY ONLY <1>1, <2>1, <2>4, <2>5, <2>6, TypeInv, CutMoves
<1>4. ~close /\ ~ \E u \in Writers : Writing(u)
  BY <1>1 DEF close, Writing, write, send
<1> QED BY <1>2, <1>3, <1>4 DEF Next

LEMMA FrameStep ==
  ASSUME NEW w, Writers = {w}, TypeInv, FrameInv(w), [Next]_vars, torn' = Garbled
  PROVE  FrameInv(w)'
<1>1. CASE UNCHANGED vars
  <2>1. CASE CutOff(w)
    <3>1. CutOff(w)'
      BY <1>1, <2>1 DEF vars, CutOff
    <3> QED BY <3>1 DEF FrameInv
  <2>2. CASE InStep(w)
    <3>1. PICK M \in [Nat -> Message], P \in [Nat -> Nat \X Nat], S \in [Nat -> Nat],
               r \in Nat, v \in Nat :
            /\ Track(M, P, S, v, sent[w]) /\ Carries(w, M, P, S, r, v, stream)
            /\ WriterAt(w, M, P[v + 1]) /\ ReaderAt(w, M, P[r + 1])
      BY <2>2 DEF InStep
    <3>2. ReaderAt(w, M, P[r + 1])'
      BY <1>1, <3>1 DEF vars, ReaderAt, Wanted
    <3>3. UNCHANGED <<open, todo, sent, ptr, cut>> /\ stream' = stream
      BY <1>1 DEF vars
    <3>4. InStep(w)'
      BY <3>1, <3>2, <3>3, StillInStep
    <3> QED BY <3>4 DEF FrameInv
  <2> QED BY <2>1, <2>2 DEF FrameInv
<1>2. CASE Next /\ CutOff(w)
  BY <1>2, CutOffStep DEF FrameInv
<1>3. CASE Next /\ InStep(w)
  <2>1. CASE close
    BY <1>3, <2>1, CloseFramed DEF FrameInv
  <2>2. CASE read_id
    BY <1>3, <2>2, ReadIdFramed DEF FrameInv
  <2>3. CASE read_field
    BY <1>3, <2>3, ReadFieldFramed
  <2>4. ASSUME NEW u \in Writers, Writing(u) PROVE FrameInv(w)'
    <3>1. u = w
      OBVIOUS
    <3>2. \A m \in Messages : send(w, m) => Whole(m)
      BY DEF send, Garbled
    <3> QED BY <1>3, <2>4, <3>1, <3>2, WriteFramed, SendFramed DEF FrameInv, Writing
  <2> QED BY <1>3, <2>1, <2>2, <2>3, <2>4 DEF Next
<1> QED BY <1>1, <1>2, <1>3 DEF FrameInv

\* The first message that is not whole stays the first.
LEMMA TornStays == [Next]_vars /\ torn' = Garbled => torn = Garbled
BY DEF Next, vars, Writing, send, write, close, read_id, read_field, Garbled

\* When one thread at a time writes to the connection and all it has begun to send so far has
\* the form the protocol gives it, the reader gets the messages whole, in order and none
\* twice, and gives up only at the end of the stream, for any number of messages of any
\* length below 65536 (send_universal_india_message, read_universal_india_message).
THEOREM MessagesAreFramed ==
  ASSUME NEW w, Writers = {w}
  PROVE  Spec => [](torn = Garbled => Framed)
<1> DEFINE Inv == torn = Garbled => FrameInv(w)
<1>1. Init => Inv
  BY FrameInit
<1>2. TypeInv /\ Inv /\ [Next]_vars => Inv'
  BY FrameStep, TornStays
<1>3. TypeInv /\ Inv => (torn = Garbled => Framed)
  BY FrameMeaning
<1> HIDE DEF Inv
<1> QED BY <1>1, <1>2, <1>3, TypeInvariant, PTL DEF Spec
===============================================================================
