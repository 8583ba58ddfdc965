--------------------------------- MODULE Wire ---------------------------------
(***************************************************************************)
(* One direction of a TCP connection between a client and the server, and  *)
(* the two functions of india_messages_protocol.c that use it:             *)
(* send_universal_india_message, which makes one write() per field, and    *)
(* read_universal_india_message, which makes one read() per field.  A      *)
(* message has no frame but the agreement of the two on the fields that    *)
(* follow an id.  The threads of the server that answer one client and     *)
(* forward the messages of others to it write to the same connection.      *)
(*                                                                         *)
(* The stream is a sequence of bytes; of a byte the model keeps to which   *)
(* write() of which message it belongs and its place there.  What a field  *)
(* says matters only for ids and lengths.                                  *)
(***************************************************************************)
EXTENDS Integers, Sequences, FiniteSets

CONSTANTS
  Writers,      \* threads that write to the connection
  Messages,     \* what they may send: see Message
  MaxMessages,  \* bound: messages that one writer sends
  Text          \* what a read() of two bytes of text yields as a number

ASSUME MaxMessagesAssumption == MaxMessages \in Nat
ASSUME TextAssumption == Text \in Nat

\* Message ids and sizes of india_messages_protocol.h
NAME_LENGHT == 10
CHAT_ROOM_NAME_LENGHT == 20
PW_LENGHT == 5
SizeofInt == 4

REGISTER_USER == 10
LOGIN == 20
SHOW_CHAT_ROOMS == 30
SHOW_USERS == 40
JOIN == 50
CHAT_ROOM_DATA == 60
EXIT == 70
CREATE_CHAT_ROOM == 80
PRIVATE_DATA == 90
REGISTER_USER_RESPONSE == 11
LOGIN_RESPONSE == 21
SHOW_CHAT_ROOMS_RESPONSE == 31
SHOW_USERS_RESPONSE == 41
JOIN_RESPONSE == 51
EXIT_RESPONSE == 71
CREATE_CHAT_ROOM_RESPONSE == 81

\* CHAT_DATA_RESPONSE and PRIVATE_DATA_RESPONSE, which nothing sends, are left out;
\* EXIT_FROM_SERVICE is an id neither function knows.
MessageId ==
  {REGISTER_USER, LOGIN, SHOW_CHAT_ROOMS, SHOW_USERS, JOIN, CHAT_ROOM_DATA, EXIT,
   CREATE_CHAT_ROOM, PRIVATE_DATA, REGISTER_USER_RESPONSE, LOGIN_RESPONSE,
   SHOW_CHAT_ROOMS_RESPONSE, SHOW_USERS_RESPONSE, JOIN_RESPONSE, EXIT_RESPONSE,
   CREATE_CHAT_ROOM_RESPONSE}

\* What send_universal_india_message is called with: the id, error_code,
\* data_lenght and whether ptr points to that many readable bytes.
Message == [id: MessageId, err: Nat, len: Nat, ptr: BOOLEAN]

ASSUME MessagesAssumption == Messages \subseteq Message

-------------------------------------------------------------------------------
(* Fields                                                                  *)

FieldName == {"id", "error_code", "data_lenght", "proposed_nickname", "sender", "receiver",
              "password", "chat_room_name", "data"}

\* A write(): the field, how many bytes, and the number a read() of all of them
\* yields after ntohs, which like htons keeps 16 bits.  error_code is the one number
\* sent in host order: it comes out as 0 only if it is 0.
IdField(id)   == [field |-> "id", size |-> SizeofInt, num |-> id]
ErrField(err) == [field |-> "error_code", size |-> SizeofInt, num |-> 256 * err]
LenField(len) == [field |-> "data_lenght", size |-> SizeofInt, num |-> len % 65536]
NameField(f)  == [field |-> f, size |-> NAME_LENGHT, num |-> Text]
PwField       == [field |-> "password", size |-> PW_LENGHT, num |-> Text]
RoomField     == [field |-> "chat_room_name", size |-> CHAT_ROOM_NAME_LENGHT, num |-> Text]
\* Mutant: one byte too few.
DataField_Short(len) == [field |-> "data", size |-> len - 1, num |-> Text]

DataField(len) == [field |-> "data", size |-> len, num |-> Text]

\* The fields that follow the id of a message in both functions but for the lists,
\* with error_code err and data_lenght len.
Fields(id, err, len) ==
  CASE id = REGISTER_USER -> <<NameField("proposed_nickname"), PwField>>
    [] id = LOGIN -> <<NameField("sender"), PwField>>
    [] id \in {JOIN, EXIT, CREATE_CHAT_ROOM} -> <<NameField("sender"), RoomField>>
    [] id = CHAT_ROOM_DATA ->
         <<NameField("sender"), RoomField, LenField(len), DataField(len)>>
    [] id = PRIVATE_DATA ->
         <<ErrField(err), NameField("sender"), NameField("receiver"), LenField(len),
           DataField(len)>>
    [] id \in {SHOW_CHAT_ROOMS_RESPONSE, SHOW_USERS_RESPONSE} ->
         <<ErrField(err), LenField(len), DataField(len)>>
    [] id \in {SHOW_CHAT_ROOMS, SHOW_USERS} -> <<>>
    [] OTHER -> <<ErrField(err)>>

\* The sender leaves the length of an empty list out.
SentFields(m) ==
  IF m.id \in {SHOW_CHAT_ROOMS_RESPONSE, SHOW_USERS_RESPONSE} /\ m.len = 0
  THEN <<IdField(m.id), ErrField(m.err)>>
  ELSE <<IdField(m.id)>> \o Fields(m.id, m.err, m.len)

\* A message whose fields are those its reader waits for: a list has its length only if it
\* is not empty, data is left out if it cannot be read (text_ptr_out of handle_clients is
\* not set before the first list), and htons() keeps 16 bits of its length.
HasData == {CHAT_ROOM_DATA, PRIVATE_DATA, SHOW_CHAT_ROOMS_RESPONSE, SHOW_USERS_RESPONSE}
Whole(m) == m.id \in HasData => m.ptr /\ m.len > 0 /\ m.len < 65536

\* Mutants: the reader takes a join for one without a sender, or a message to a room
\* for one with an error code.
ReadFields_NoSender(id) ==
  IF id = JOIN THEN Tail(Fields(id, 0, 0)) ELSE Fields(id, 0, 0)
ReadFields_ExtraErr(id) ==
  IF id = CHAT_ROOM_DATA THEN <<ErrField(0)>> \o Fields(id, 0, 0) ELSE Fields(id, 0, 0)

\* The reader learns the size of the data from the length it has read; before that
\* the field stands for the read() to come, if any.
ReadFields(id) == Fields(id, 0, 0)

-------------------------------------------------------------------------------

VARIABLES
  stream,   \* bytes written and not yet read
  open,     \* FALSE once the writing process has closed the connection
  todo,     \* the write() calls left of the message each writer is sending
  sent,     \* how many messages each writer has begun
  ptr,      \* whether the data of that message is at an address that can be read
  want,     \* the fields left to read of the message being read
  taken,    \* the messages its fields have come from so far
  got,      \* history: the messages read
  ended,    \* read_universal_india_message has returned an error
  cut,      \* history: the writing process ended in the middle of a message
  torn      \* history: the first message begun that is not whole, or Garbled

vars == <<stream, open, todo, sent, ptr, want, taken, got, ended, cut, torn>>

\* The bytes of the write() of field f of writer w's k-th message.
Bytes(w, k, f) ==
  [i \in 1 .. f.size |-> [msg |-> <<w, k>>, field |-> f.field, at |-> i, of |-> f.size,
                          num |-> f.num]]

\* Some bytes are one whole field, in order and without a gap.
IsField(b) ==
  /\ b # <<>>
  /\ Len(b) = b[1].of
  /\ \A i \in DOMAIN b : b[i] = [b[1] EXCEPT !.at = i]

\* The message to which bytes belong that are read as field f: Garbled if they are
\* not that field of one.
Garbled == <<>>
MessageOf(b, f) == IF IsField(b) /\ b[1].field = f THEN b[1].msg ELSE Garbled

\* The number the reader finds in the bytes it reads: in bytes that are no field, part
\* of a text, or zero, as in the padding of a name.
Numbers(b) == IF IsField(b) THEN {b[1].num} ELSE {0, Text}

Field == [field: FieldName, size: Nat, num: Nat]
Tag == (Writers \X (1 .. MaxMessages)) \cup {Garbled}

TypeOK ==
  /\ stream \in Seq([msg: Tag, field: FieldName, at: Nat, of: Nat, num: Nat])
  /\ open \in BOOLEAN
  /\ todo \in [Writers -> Seq(Field)]
  /\ sent \in [Writers -> 0 .. MaxMessages]
  /\ ptr \in [Writers -> BOOLEAN]
  /\ want \in Seq(Field)
  /\ taken \in SUBSET Tag
  /\ got \in Seq(Tag)
  /\ ended \in BOOLEAN
  /\ cut \in BOOLEAN
  /\ torn \in Tag

-------------------------------------------------------------------------------
(* send_universal_india_message                                            *)

\* The first write(), of the id.
send(w, m) ==
  /\ open /\ todo[w] = <<>> /\ sent[w] < MaxMessages
  /\ sent' = [sent EXCEPT ![w] = @ + 1]
  /\ stream' = stream \o Bytes(w, sent'[w], Head(SentFields(m)))
  /\ todo' = [todo EXCEPT ![w] = Tail(SentFields(m))]
  /\ ptr' = [ptr EXCEPT ![w] = m.ptr]
  /\ torn' = IF torn = Garbled /\ ~Whole(m) THEN <<w, sent'[w]>> ELSE torn
  /\ UNCHANGED <<open, want, taken, got, ended, cut>>

\* The field whose turn it is.
Written(w) == Head(todo[w])

\* Each write() after it.  Their results are not looked at: data at an address that
\* cannot be read is left out, the message goes on.
write(w) ==
  /\ open /\ todo[w] # <<>>
  /\ \/ stream' = stream \o Bytes(w, sent[w], Written(w))
     \/ Written(w).field = "data" /\ ~ptr[w] /\ UNCHANGED stream
  /\ todo' = [todo EXCEPT ![w] = Tail(@)]
  /\ UNCHANGED <<open, sent, ptr, want, taken, got, ended, cut, torn>>

\* The writing process closes the connection or ends, be it in the middle of a message.
close ==
  /\ open
  /\ open' = FALSE
  /\ cut' = \E w \in Writers : todo[w] # <<>>
  /\ todo' = [w \in Writers |-> <<>>]
  /\ UNCHANGED <<stream, sent, ptr, want, taken, got, ended, torn>>

-------------------------------------------------------------------------------
(* read_universal_india_message                                            *)

\* A read() of n bytes returns what there is up to n, nothing at the end of the
\* stream; it waits for the first byte.
Readable == stream # <<>> \/ ~open
Read(n) == SubSeq(stream, 1, IF n < Len(stream) THEN n ELSE Len(stream))
Rest(n) == SubSeq(stream, Len(Read(n)) + 1, Len(stream))

\* The message is complete when nothing is left to read: what has been read is a
\* message if all of it came from one.
Complete(w, t) ==
  IF w = <<>>
  THEN /\ got' = Append(got, IF \E m \in Tag : t = {m} THEN CHOOSE m \in Tag : t = {m}
                             ELSE Garbled)
       /\ taken' = {}
  ELSE got' = got /\ taken' = t

UnknownId(id) == id \notin MessageId

read_id ==
  /\ ~ended /\ want = <<>> /\ Readable
  /\ stream' = Rest(SizeofInt)
  /\ \/ /\ stream = <<>>
        /\ ended' = TRUE
        /\ UNCHANGED <<want, taken, got>>
     \/ \E id \in Numbers(Read(SizeofInt)) :
          /\ stream # <<>>
          /\ \/ /\ UnknownId(id)
                /\ ended' = TRUE
                /\ UNCHANGED <<want, taken, got>>
             \/ /\ ~UnknownId(id)
                /\ want' = ReadFields(id)
                /\ Complete(want', {MessageOf(Read(SizeofInt), "id")})
                /\ UNCHANGED ended
  /\ UNCHANGED <<open, todo, sent, ptr, cut, torn>>

\* After a length the data is read, if there is any.  The results of these read()
\* calls are not looked at.
read_field ==
  LET f == Head(want)
      b == Read(f.size)
  IN  /\ ~ended /\ want # <<>> /\ Readable
      /\ stream' = Rest(f.size)
      /\ want' \in IF f.field = "data_lenght"
                   THEN {IF n = 0 THEN <<>> ELSE <<DataField(n)>> : n \in Numbers(b)}
                   ELSE {Tail(want)}
      /\ Complete(want', taken \cup {MessageOf(b, f.field)})
      /\ UNCHANGED <<open, todo, sent, ptr, ended, cut, torn>>

-------------------------------------------------------------------------------

Init ==
  /\ stream = <<>> /\ open = TRUE
  /\ todo = [w \in Writers |-> <<>>]
  /\ sent = [w \in Writers |-> 0]
  /\ ptr = [w \in Writers |-> TRUE]
  /\ want = <<>> /\ taken = {} /\ got = <<>> /\ ended = FALSE /\ cut = FALSE
  /\ torn = Garbled

Writing(w) == write(w) \/ \E m \in Messages : send(w, m)

Next == close \/ read_id \/ read_field \/ \E w \in Writers : Writing(w)

Spec == Init /\ [][Next]_vars

\* A thread in send_universal_india_message goes on to the next write(), for which the
\* other end makes room by reading, and the other end reads as long as there is something
\* to read: for a client's reading thread that is so, for a thread of the server as long as
\* no other client holds it (Connections).
Fairness ==
  /\ \A w \in Writers : WF_vars(write(w))
  /\ WF_vars(read_id) /\ WF_vars(read_field)

FairSpec == Spec /\ Fairness

-------------------------------------------------------------------------------
(* Properties                                                              *)

\* Message number k of a writer comes before the first that is not whole.
BeforeTorn(k) == torn = Garbled \/ k < torn[2]

\* From one writing thread, up to the first message that is not whole: each message
\* read_universal_india_message returns is one that was sent, all of it and nothing else,
\* but for the last one if the writer ended in the middle of it; and they come in the order
\* they were sent in, none left out or twice.  Only behind a message that is not whole it
\* gives up before the end of the stream: an id it does not know ends the connection
\* (handle_clients, handle_server_message).
Framed ==
  /\ \A i \in DOMAIN got :
       \/ ~BeforeTorn(i)
       \/ got[i] = Garbled /\ i = Len(got) /\ cut
       \/ got[i] # Garbled
          /\ got[i][2] = 1 + Cardinality({j \in 1 .. (i - 1) : got[j][1] = got[i][1]})
  /\ ended => (~open /\ stream = <<>>) \/ torn # Garbled

\* Every message whose sending has begun is read in the end, unless the writer ended in the
\* middle of it, or has begun one that is not whole, then or before: behind the answer
\* that a list is empty the reader takes the next message for its length, and until one
\* comes it waits (india_messages_protocol.c:122 and 325).
EveryMessageArrives ==
  \A w \in Writers, k \in 1 .. MaxMessages :
    sent[w] >= k ~> \/ \E i \in DOMAIN got : got[i] = <<w, k>>
                    \/ cut /\ k = sent[w]
                    \/ ~BeforeTorn(k)

===============================================================================
