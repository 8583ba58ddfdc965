------------------------------ MODULE Connections ------------------------------
(***************************************************************************)
(* Connections, descriptors and threads of the TCP server: main accepts a  *)
(* connection and starts a thread with its descriptor; the thread reads,   *)
(* answers and, when there is no more to read, closes the descriptor, in   *)
(* handle_clients and again in start_routine.  Between the two close()     *)
(* calls main may be given the same descriptor for another connection.     *)
(*                                                                         *)
(* A client has one connection and one thread, both named after it.  A     *)
(* blocked read() or write() stays with the connection its descriptor      *)
(* stood for when it was called.                                           *)
(***************************************************************************)
EXTENDS Integers, FiniteSets

CONSTANTS
  Clients,
  Fds,         \* descriptors the process may have open
  listenfd,    \* that of the listening socket
  MaxRequests, \* bound: requests a client makes
  None         \* no connection, no client

ASSUME FdsAssumption == Fds \subseteq Nat /\ listenfd \in Fds
ASSUME NoneAssumption == None \notin Clients \cup Fds
ASSUME MaxRequestsAssumption == MaxRequests \in Nat

VARIABLES
  peer,     \* each client is "away", "waiting" to be accepted, "here" or "gone"
  requests, \* its requests that have not been read
  made,     \* how many it has made
  up,       \* the process is running
  creating, \* the client accepted by main for which there is no thread yet
  conn,     \* the connection a descriptor stands for: a client or None
  pc,       \* where the thread of a client is
  connfd,   \* the descriptor it was started with
  on,       \* the connection its read() is waiting for
  targets,  \* the descriptors its handler has still to write to
  onto,     \* the connection its write() is waiting for
  crossed,  \* history: clients whose descriptor the thread of another closed
  strayed   \* history: clients some answer went astray from

clientVars == <<peer, requests, made>>
vars == <<clientVars, up, creating, conn, pc, connfd, on, targets, onto, crossed, strayed>>

TypeOK ==
  /\ peer \in [Clients -> {"away", "waiting", "here", "gone"}]
  /\ requests \in [Clients -> 0 .. MaxRequests] /\ made \in [Clients -> 0 .. MaxRequests]
  /\ up \in BOOLEAN /\ creating \in Clients \cup {None}
  /\ conn \in [Fds \ {listenfd} -> Clients \cup {None}]
  /\ pc \in [Clients -> {"none", "loop", "reading", "answering", "writing", "closed", "done"}]
  /\ connfd \in [Clients -> (Fds \ {listenfd}) \cup {None}]
  /\ on \in [Clients -> Clients \cup {None}] /\ onto \in [Clients -> Clients \cup {None}]
  /\ targets \in [Clients -> SUBSET (Fds \ {listenfd})]
  /\ crossed \subseteq Clients /\ strayed \subseteq Clients

-------------------------------------------------------------------------------
(* The clients                                                             *)

Server == UNCHANGED <<up, creating, conn, pc, connfd, on, targets, onto, crossed, strayed>>

connect(c) ==
  /\ peer[c] = "away" /\ up
  /\ peer' = [peer EXCEPT ![c] = "waiting"] /\ UNCHANGED <<requests, made>> /\ Server

request(c) ==
  /\ peer[c] \in {"waiting", "here"} /\ made[c] < MaxRequests
  /\ requests' = [requests EXCEPT ![c] = @ + 1]
  /\ made' = [made EXCEPT ![c] = @ + 1] /\ UNCHANGED peer /\ Server

go(c) ==
  /\ peer[c] \in {"here"}
  /\ peer' = [peer EXCEPT ![c] = "gone"] /\ UNCHANGED <<requests, made>> /\ Server

-------------------------------------------------------------------------------
(* main                                                                    *)

Free == {f \in DOMAIN conn : conn[f] = None}
Lowest(S) == CHOOSE f \in S : \A g \in S : f <= g

\* Mutant: the thread is given the descriptor of the listening socket.
Argument_Listen(f) == listenfd

\* What start_routine is called with.
Argument(f) == f

\* accept(): the lowest free descriptor, 0, 1 and 2 having been closed by the daemon.
\* Without one, or after another error, main returns, and the process ends.
accept ==
  /\ up /\ creating = None
  /\ \E c \in Clients :
       /\ peer[c] = "waiting"
       /\ \/ /\ Free # {}
             /\ conn' = [conn EXCEPT ![Lowest(Free)] = c]
             /\ connfd' = [connfd EXCEPT ![c] = Argument(Lowest(Free))]
             /\ peer' = [peer EXCEPT ![c] = "here"]
             /\ creating' = c /\ UNCHANGED up
          \/ up' = FALSE /\ UNCHANGED <<conn, connfd, peer, creating>>
  /\ UNCHANGED <<requests, made, pc, on, targets, onto, crossed, strayed>>

\* Mutant: main goes on without the thread.
NoThread_Continue == creating' = None /\ UNCHANGED <<up, pc>>

\* pthread_create() fails: main returns.
NoThread == up' = FALSE /\ UNCHANGED <<creating, pc>>

\* pthread_create() of start_routine.
create ==
  /\ up /\ creating # None
  /\ \/ /\ pc' = [pc EXCEPT ![creating] = "loop"]
        /\ creating' = None /\ UNCHANGED up
     \/ NoThread
  /\ UNCHANGED <<clientVars, conn, connfd, on, targets, onto, crossed, strayed>>

-------------------------------------------------------------------------------
(* The thread of client c: handle_clients and start_routine                *)

Main == UNCHANGED <<clientVars, up, creating, connfd>>

\* The connection the thread's descriptor stands for now.
Mine(c) == conn[connfd[c]]

\* close() of whatever connection the descriptor stands for; if it is closed, nothing.
Closed(c) == conn' = [conn EXCEPT ![connfd[c]] = None]

\* Mutant: no break after the close().
AfterClose_NoBreak == "loop"

\* The for loop is left, for start_routine.
AfterClose == "closed"

\* The end of the stream, or an error: close() in handle_clients.  The connection is
\* another's only if the thread has lost its own before.
hangup(c) ==
  /\ pc' = [pc EXCEPT ![c] = AfterClose] /\ Closed(c)
  /\ on' = [on EXCEPT ![c] = None] /\ UNCHANGED strayed
  /\ crossed' = IF c \in crossed THEN crossed \cup ({Mine(c)} \ {c, None}) ELSE crossed

\* read() takes the connection; it fails at once if the descriptor is closed.
read(c) ==
  /\ up /\ pc[c] = "loop"
  /\ IF Mine(c) # None
     THEN /\ on' = [on EXCEPT ![c] = Mine(c)]
          /\ pc' = [pc EXCEPT ![c] = "reading"] /\ UNCHANGED <<conn, crossed, strayed>>
     ELSE hangup(c)
  /\ Main /\ UNCHANGED <<targets, onto>>

\* Mutant: only an error is recognised, as by val < 0.
AtEnd_ErrorOnly(c) == peer[c] = "gone" /\ requests[c] > 0

\* read() returns 0 behind the last request of a client that has gone, or an error
\* before that if the connection was reset.
AtEnd(c) == peer[c] = "gone"

\* read() returns a request, whose handler writes to some descriptors: its own if it
\* answers, those of other users if it forwards; or there is nothing more to read.
returns(c) ==
  /\ up /\ pc[c] = "reading"
  /\ \/ /\ requests[on[c]] > 0
        /\ requests' = [requests EXCEPT ![on[c]] = @ - 1]
        /\ \E T \in SUBSET DOMAIN conn : targets' = [targets EXCEPT ![c] = T]
        /\ pc' = [pc EXCEPT ![c] = "answering"] /\ UNCHANGED <<conn, on, crossed, strayed>>
     \/ /\ AtEnd(on[c])
        /\ hangup(c) /\ UNCHANGED <<requests, targets>>
  /\ UNCHANGED <<onto, peer, made, up, creating, connfd>>

\* write() takes the connection its descriptor stands for; it fails at once if that is
\* closed.  What is written to connfd is meant for the client whose request was read.
write(c) ==
  /\ up /\ pc[c] = "answering"
  /\ \E f \in targets[c] :
       /\ targets' = [targets EXCEPT ![c] = @ \ {f}]
       /\ \/ conn[f] = None /\ UNCHANGED <<onto, pc>>
          \/ /\ conn[f] # None
             /\ onto' = [onto EXCEPT ![c] = conn[f]]
             /\ pc' = [pc EXCEPT ![c] = "writing"]
       /\ strayed' = IF f = connfd[c] /\ conn[f] # on[c] THEN strayed \cup {on[c]} ELSE strayed
  /\ UNCHANGED <<conn, on, crossed>> /\ Main

\* write() returns; one to a client that has gone may end the process (SIGPIPE).
written(c) ==
  /\ up /\ pc[c] = "writing"
  /\ \/ /\ pc' = [pc EXCEPT ![c] = "answering"]
        /\ onto' = [onto EXCEPT ![c] = None] /\ UNCHANGED up
     \/ peer[onto[c]] = "gone" /\ up' = FALSE /\ UNCHANGED <<pc, onto>>
  /\ UNCHANGED <<clientVars, creating, conn, connfd, on, targets, crossed, strayed>>

\* The handler is done.
done(c) ==
  /\ up /\ pc[c] = "answering" /\ targets[c] = {}
  /\ pc' = [pc EXCEPT ![c] = "loop"] /\ on' = [on EXCEPT ![c] = None]
  /\ UNCHANGED <<conn, targets, onto, crossed, strayed>> /\ Main

\* close() in start_routine, and the thread ends.
end(c) ==
  /\ up /\ pc[c] = "closed"
  /\ pc' = [pc EXCEPT ![c] = "done"] /\ Closed(c)
  /\ crossed' = crossed \cup ({Mine(c)} \ {c, None})
  /\ UNCHANGED <<on, targets, onto, strayed>> /\ Main

thread(c) == read(c) \/ returns(c) \/ write(c) \/ written(c) \/ done(c) \/ end(c)

\* The thread is in a write() to a client that is there, which ends only if it reads.
Blocked(c) == pc[c] = "writing" /\ peer[onto[c]] # "gone"

-------------------------------------------------------------------------------
Init ==
  /\ peer = [c \in Clients |-> "away"]
  /\ requests = [c \in Clients |-> 0] /\ made = requests
  /\ up = TRUE /\ creating = None
  /\ conn = [f \in Fds \ {listenfd} |-> None]
  /\ pc = [c \in Clients |-> "none"]
  /\ connfd = [c \in Clients |-> None] /\ on = connfd /\ onto = connfd
  /\ targets = [c \in Clients |-> {}]
  /\ crossed = {} /\ strayed = {}

Next ==
  \/ accept \/ create
  \/ \E c \in Clients : connect(c) \/ request(c) \/ go(c) \/ thread(c)

\* main and the threads run, but for a thread in a write() to a client that is there;
\* clients do as they like.
Fairness ==
  /\ WF_vars(accept) /\ WF_vars(create)
  /\ \A c \in Clients : WF_vars(~Blocked(c) /\ thread(c))

Spec == Init /\ [][Next]_vars /\ Fairness

-------------------------------------------------------------------------------
(* Properties                                                              *)

Running(c) == pc[c] \in {"loop", "reading", "answering", "writing"}

\* A thread that has not closed its descriptor has it for its own client, unless the
\* second close() of another thread took it away (lines 876 and 999): nothing else in
\* accept, pthread_create and close() can cross two connections, and only then does an
\* answer go to another client than the one that asked, or to a closed descriptor.
OwnUnlessCrossed ==
  /\ \A c \in Clients : up /\ Running(c) /\ c \notin crossed => Mine(c) = c
  /\ strayed # {} => crossed # {}

\* No descriptor is left open without a thread that will close it (lines 1127-1150).
NoLeak ==
  up => \A f \in DOMAIN conn : conn[f] # None =>
          creating = conn[f] \/ \E c \in Clients : connfd[c] = f /\ pc[c] \notin {"none", "done"}

\* The connection of a client that has gone is closed, even if its descriptor was
\* crossed, or the process ends, or its thread is for ever in a write() to another client
\* that does not read (lines 795 and 876).
GoneIsClosed ==
  \A c \in Clients :
    peer[c] = "gone" ~> ~up \/ (\A f \in DOMAIN conn : conn[f] # c) \/ []Blocked(c)

\* Every request of a client that stays is read, unless it was crossed, the process ends
\* or its thread is for ever in a write() to a client that does not read.
EveryRequestRead ==
  \A c \in Clients :
    requests[c] > 0 ~>
      requests[c] = 0 \/ peer[c] = "gone" \/ c \in crossed \/ ~up \/ []Blocked(c)

===============================================================================
