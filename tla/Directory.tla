------------------------------- MODULE Directory -------------------------------
(***************************************************************************)
(* What the list of users promises to the threads of the server: a set of  *)
(* accounts, with register_user and login_user as calls that take effect   *)
(* at one moment between their beginning and their answer.  A call that    *)
(* overlaps a registration may be answered as if it came before it, or get *)
(* lost and take the server with it.                                       *)
(* UserList is the linked list that has to keep this promise.              *)
(***************************************************************************)
CONSTANTS Threads, Names, Passwords, None

\* Error codes of india_messages_protocol.h
SUCCESS == 0
NICK_NAME_IN_USE == 1
USER_DOES_NOT_EXIST == 4
WRONG_PW == 5
OUT_OF_MEMORY == 99

VARIABLES
  accounts,  \* the registered accounts
  call,      \* the call each thread is in
  enrolled,  \* whether it has taken effect, for a registration
  known,     \* the accounts there were when it began
  answer,    \* the result of each thread's last call
  lost,      \* whether the call has left the memory of the list
  alive      \* the server runs

dirVars == <<accounts, call, enrolled, known, answer, lost, alive>>

Account == [name: Names, pw: Passwords]
Call == [kind: {"register", "login"}, name: Names, pw: Passwords]

AccountOf(o) == [name |-> o.name, pw |-> o.pw]
Called(A) == {a.name : a \in A}

Registers(t) == call[t] # None /\ call[t].kind = "register"

Begin(t, o) ==
  /\ alive /\ call[t] = None
  /\ call' = [call EXCEPT ![t] = o]
  /\ known' = [known EXCEPT ![t] = accounts]
  /\ answer' = [answer EXCEPT ![t] = None]
  /\ UNCHANGED <<accounts, enrolled, lost, alive>>

Enrol(t) ==
  /\ alive /\ Registers(t) /\ ~enrolled[t]
  /\ call[t].name \notin Called(accounts)
  /\ accounts' = accounts \cup {AccountOf(call[t])}
  /\ enrolled' = [enrolled EXCEPT ![t] = TRUE]
  /\ UNCHANGED <<call, known, answer, lost, alive>>

\* The answers a registration may get.
MayAnswerRegister(t, a) ==
  \/ a = SUCCESS /\ enrolled[t]
  \/ a = NICK_NAME_IN_USE /\ ~enrolled[t] /\ call[t].name \in Called(accounts)
  \/ a = OUT_OF_MEMORY /\ ~enrolled[t]

\* The answers a login may get: it is refused only if the account was not there when
\* it began, and a wrong password is one for a name somebody has or is about to have.
MayAnswerLogin(t, a) ==
  \/ a = SUCCESS /\ AccountOf(call[t]) \in accounts
  \/ a = USER_DOES_NOT_EXIST /\ call[t].name \notin Called(known[t])
  \/ /\ a = WRONG_PW /\ AccountOf(call[t]) \notin known[t]
     /\ \/ call[t].name \in Called(accounts)
        \/ \E u \in Threads : Registers(u) /\ call[u].name = call[t].name

Answer(t, a) ==
  /\ alive /\ call[t] # None /\ ~lost[t]
  /\ IF call[t].kind = "register" THEN MayAnswerRegister(t, a) ELSE MayAnswerLogin(t, a)
  /\ answer' = [answer EXCEPT ![t] = a]
  /\ call' = [call EXCEPT ![t] = None]
  /\ enrolled' = [enrolled EXCEPT ![t] = FALSE]
  /\ UNCHANGED <<accounts, known, lost, alive>>

\* A login gets lost only while another thread registers, and a lost call ends the
\* server sooner or later.
Lose(t) ==
  /\ alive /\ call[t] # None /\ ~Registers(t)
  /\ \E u \in Threads : Registers(u)
  /\ lost' = [lost EXCEPT ![t] = TRUE]
  /\ UNCHANGED <<accounts, call, enrolled, known, answer, alive>>

Crash(t) ==
  /\ alive /\ lost[t]
  /\ alive' = FALSE
  /\ UNCHANGED <<accounts, call, enrolled, known, answer, lost>>

Init ==
  /\ accounts = {}
  /\ call = [t \in Threads |-> None]
  /\ enrolled = [t \in Threads |-> FALSE]
  /\ known = [t \in Threads |-> {}]
  /\ answer = [t \in Threads |-> None]
  /\ lost = [t \in Threads |-> FALSE]
  /\ alive = TRUE

Next ==
  \E t \in Threads :
    \/ \E o \in Call : Begin(t, o)
    \/ Enrol(t)
    \/ \E a \in {SUCCESS, NICK_NAME_IN_USE, USER_DOES_NOT_EXIST, WRONG_PW, OUT_OF_MEMORY} :
         Answer(t, a)
    \/ Lose(t)
    \/ Crash(t)

Spec == Init /\ [][Next]_dirVars

===============================================================================
