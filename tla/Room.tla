---------------------------------- MODULE Room ----------------------------------
(***************************************************************************)
(* What a chat room promises to the threads of the server: a set of        *)
(* members, with join_chatroom and exit_chatroom as calls that take effect *)
(* at one moment before their answer, and forward_chat_room_data as a call *)
(* that hands the message to everybody who is a member and logged in from  *)
(* its beginning to its end, and to nobody who is never a member in that   *)
(* time; twice only to one who has left the room meanwhile, and to the     *)
(* sender only if he has come or left.  The calls that may end the server  *)
(* instead are named in Crash.  MemberList is the linked list that has to  *)
(* keep this promise.                                                      *)
(***************************************************************************)
EXTENDS Naturals

CONSTANTS Threads, Names, None

\* Error codes of india_messages_protocol.h
SUCCESS == 0
OUT_OF_MEMORY == 99

VARIABLES
  alive,    \* the server runs
  members,  \* the members of the room
  online,   \* the users who are logged in
  away,     \* the users a client of whom has gone
  call,     \* the call each thread is in
  must,     \* members who were so, and logged in, since its call began
  may,      \* members at some moment since its call began
  came,     \* those who have become members since its call began
  left,     \* those who have left since then
  copies,   \* how often its message has been written for each
  answer    \* the result of each thread's last call

roomVars == <<alive, members, online, away, call, must, may, came, left, copies, answer>>

Kind == {"join", "exit", "forward", "login"}
Call == [kind: Kind, name: Names]

\* Every step: who has been a member, and logged in, since the call of t began, who has
\* been a member at some time since, and who has come and left.  Between two calls all
\* are empty.
Witness ==
  /\ must' = [t \in Threads |->
                CASE call'[t] = None -> {}
                  [] call[t] = None /\ call'[t] # None -> members' \cap online'
                  [] OTHER -> must[t] \cap members' \cap online']
  /\ may' = [t \in Threads |->
               IF call'[t] = None THEN {} ELSE may[t] \cup members']
  /\ came' = [t \in Threads |->
                IF call'[t] = None THEN {} ELSE came[t] \cup (members' \ members)]
  /\ left' = [t \in Threads |->
                IF call'[t] = None THEN {} ELSE left[t] \cup (members \ members')]

In(t, kind) == alive /\ call[t] # None /\ call[t].kind = kind

Begin(t, o) ==
  /\ alive /\ call[t] = None
  /\ call' = [call EXCEPT ![t] = o]
  /\ answer' = [answer EXCEPT ![t] = None]
  /\ copies' = [copies EXCEPT ![t] = [n \in Names |-> 0]]
  /\ UNCHANGED <<alive, members, online, away>>

Return(t, a) ==
  /\ call' = [call EXCEPT ![t] = None]
  /\ answer' = [answer EXCEPT ![t] = a]
  /\ UNCHANGED <<alive, copies>>

Join(t, a) ==
  /\ In(t, "join")
  /\ \/ a = SUCCESS /\ members' = members \cup {call[t].name}
     \/ a = OUT_OF_MEMORY /\ UNCHANGED members
  /\ Return(t, a) /\ UNCHANGED <<online, away>>

Leave(t) ==
  /\ In(t, "exit") /\ members' = members \ {call[t].name}
  /\ UNCHANGED <<alive, online, away, call, copies, answer>>

Exit(t) ==
  /\ In(t, "exit") /\ call[t].name \notin members
  /\ Return(t, SUCCESS) /\ UNCHANGED <<members, online, away>>

\* The message is written for n.
Deliver(t, n) ==
  /\ In(t, "forward") /\ n \in may[t]
  /\ copies[t][n] > 0 => n \in left[t]
  /\ n = call[t].name => n \in came[t] \cup left[t]
  /\ copies' = [copies EXCEPT ![t][n] = @ + 1]
  /\ UNCHANGED <<alive, members, online, away, call, answer>>

\* ... and if that fails, as a client of n has gone, n is logged off.
LogOff(t, n) ==
  /\ In(t, "forward") /\ copies[t][n] > 0 /\ n \in away
  /\ online' = online \ {n}
  /\ UNCHANGED <<alive, members, away, call, copies, answer>>

Forwarded(t) ==
  /\ In(t, "forward") /\ \A n \in must[t] \ {call[t].name} : copies[t][n] > 0
  /\ Return(t, SUCCESS) /\ UNCHANGED <<members, online, away>>

LogOn(t) ==
  /\ In(t, "login") /\ online' = online \cup {call[t].name}
  /\ UNCHANGED <<alive, members, away, call, copies, answer>>

\* The answer; the client may have gone already.
LoggedOn(t) ==
  /\ In(t, "login") /\ away' \in {away, away \cup {call[t].name}}
  /\ Return(t, SUCCESS) /\ UNCHANGED <<members, online>>

Away(n) ==
  /\ alive /\ away' = away \cup {n}
  /\ UNCHANGED <<alive, members, online, call, copies, answer>>

\* What may end the server: a call that meets a join which is not over, or during which
\* a member has left, whose memory it may be at; and a message to a member whose client
\* has gone.
Crash(t) ==
  /\ alive /\ call[t] # None
  /\ \/ \E u \in Threads \ {t} : call[u] # None /\ call[u].kind = "join"
     \/ left[t] # {}
     \/ call[t].kind = "forward" /\ may[t] \cap away # {}
  /\ alive' = FALSE
  /\ UNCHANGED <<members, online, away, call, copies, answer>>

Init ==
  /\ alive = TRUE
  /\ members \in SUBSET Names /\ online \in SUBSET Names
  /\ away = {}
  /\ call = [t \in Threads |-> None]
  /\ must = [t \in Threads |-> {}]
  /\ may = [t \in Threads |-> {}]
  /\ came = [t \in Threads |-> {}]
  /\ left = [t \in Threads |-> {}]
  /\ copies = [t \in Threads |-> [n \in Names |-> 0]]
  /\ answer = [t \in Threads |-> None]

Next ==
  /\ \E t \in Threads :
       \/ \E o \in Call : Begin(t, o)
       \/ \E a \in {SUCCESS, OUT_OF_MEMORY} : Join(t, a)
       \/ Leave(t) \/ Exit(t)
       \/ \E n \in Names : Deliver(t, n) \/ LogOff(t, n)
       \/ Forwarded(t) \/ LogOn(t) \/ LoggedOn(t)
       \/ Crash(t)
       \/ \E n \in Names : Away(n)
  /\ Witness

Spec == Init /\ [][Next]_roomVars

===============================================================================
