-------------------------------- MODULE UdpWire --------------------------------
(***************************************************************************)
(* The messages of the UDP variant, india_messages_protocol_udp.c: the id  *)
(* and each field is a datagram of its own.  sendto_universal_india_message*)
(* and recvfrom_universal_india_message agree on the fields by the id, as  *)
(* over TCP (Wire), but a PRIVATE_DATA has no error code, and what is read *)
(* for a field is one datagram, whatever it was sent as, cut to the size   *)
(* of the field.                                                           *)
(***************************************************************************)
EXTENDS Sequences, Naturals

CONSTANTS
  Garbage,  \* the text found in a datagram that holds a number
  Unknown   \* a number that is no id

ListId == {"SHOW_CHAT_ROOMS", "SHOW_USERS"}
RoomId == {"JOIN", "EXIT", "CREATE_CHAT_ROOM"}
TextId == {"CHAT_ROOM_DATA", "PRIVATE_DATA"}
RequestId == {"REGISTER_USER", "LOGIN"} \cup ListId \cup RoomId \cup TextId

ResponseTo(id) == id \o "_RESPONSE"
ResponseId == {ResponseTo(id) : id \in RequestId \ TextId}
ListResponseId == {ResponseTo(id) : id \in ListId}

\* A text to a room or to a user, in both directions.
TextFields(id) ==
  <<"sender", IF id = "PRIVATE_DATA" THEN "receiver" ELSE "chat_room_name",
    "data_lenght", "data">>

\* The fields a client sends, and the server waits for, after the id of a request.
SentRequest(id) ==
  CASE id = "REGISTER_USER" -> <<"proposed_nickname", "password">>
    [] id = "LOGIN"         -> <<"sender", "password">>
    [] id \in RoomId        -> <<"sender", "chat_room_name">>
    [] id \in TextId        -> TextFields(id)
    [] id \in ListId        -> <<>>

\* Mutant: the sender of a request for a room is not waited for.
ReadRequest_NoSender(id) ==
  CASE id = "REGISTER_USER" -> <<"proposed_nickname", "password">>
    [] id = "LOGIN"         -> <<"sender", "password">>
    [] id \in RoomId        -> <<"chat_room_name">>
    [] id \in TextId        -> TextFields(id)
    [] OTHER                -> <<>>

ReadRequest(id) ==
  CASE id = "REGISTER_USER" -> <<"proposed_nickname", "password">>
    [] id = "LOGIN"         -> <<"sender", "password">>
    [] id \in RoomId        -> <<"sender", "chat_room_name">>
    [] id \in TextId        -> TextFields(id)
    [] OTHER                -> <<>>

\* The fields the server sends after the id of an answer, the length of an empty list
\* left out, and the fields the client waits for.
SentAnswer(id, empty) ==
  IF id \in TextId THEN TextFields(id)
  ELSE IF id \in ListResponseId /\ ~empty THEN <<"error_code", "data_lenght", "data">>
  ELSE <<"error_code">>

ReadAnswer(id) ==
  IF id \in TextId THEN TextFields(id)
  ELSE IF id \in ListResponseId THEN <<"error_code", "data_lenght", "data">>
  ELSE <<"error_code">>

Number == {"id", "data_lenght", "error_code"}

\* The ids a datagram can be read as.  Text is none; a length is a number like an id,
\* and so is, on the way to a client, an error code sent in host order, which is none.
ReadAsId(d, ids) ==
  CASE d.field = "id" -> {d.value}
    [] d.field = "data_lenght" -> ids \cup {Unknown}
    [] OTHER -> {Unknown}

\* The text a datagram is read as: numbers are no name.
ReadAsText(d) == IF d.field \in Number THEN Garbage ELSE d.value

\* The bytes of a field: PW_LENGHT, NAME_LENGHT, CHAT_ROOM_NAME_LENGHT; data has more.
FieldSize(field) ==
  CASE field \in Number -> 4 [] field = "password" -> 5 [] field = "chat_room_name" -> 20
    [] field = "data" -> 80 [] OTHER -> 10

\* Whether the text in a datagram fits into field with its terminating 0: one of a longer
\* field may be too long for it.  recvfrom() then fills the field without the 0.
TextFits(d, field) == IF FieldSize(d.field) <= FieldSize(field) THEN {TRUE} ELSE BOOLEAN

\* Whether a datagram read as a length asks for data to be read: any text does; another
\* number may be zero, in the bytes that ntohs() takes.
ReadAsLength(d) == IF d.field = "error_code" THEN BOOLEAN ELSE {TRUE}

===============================================================================
