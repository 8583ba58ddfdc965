--------------------------- MODULE ConnectionsProofs ---------------------------
(* Proofs about Connections: for every number of clients and descriptors.  *)
EXTENDS Connections, WellFoundedInduction, TLAPS

-------------------------------------------------------------------------------
(* Operators                                                               *)

\* There is a lowest descriptor in a set that is not empty: accept() has one to return.
LEMMA LowestIsOne ==
  ASSUME NEW S \in SUBSET Nat, S # {}
  PROVE  Lowest(S) \in S
<1> DEFINE R == {p \in Nat \X Nat : p[1] < p[2]}
<1>1. IsWellFoundedOn(R, Nat)
  BY NatLessThanWellFounded DEF OpToRel
<1>2. PICK f \in S : \A g \in S : <<g, f>> \notin R
  <2> HIDE DEF R
  <2> QED BY <1>1, WFMin
<1>3. \A g \in S : ~(g < f)
  BY <1>2
<1>4. \A g \in S : f <= g
  BY <1>3
<1> QED BY <1>4 DEF Lowest

-------------------------------------------------------------------------------
(* The invariant                                                           *)

\* Descriptors handed out by accept().
Handed == Fds \ {listenfd}

\* c has been accepted, and its descriptor has not been given up: main is about to
\* start the thread, or the thread is before its first close().
Holding(c) == creating = c \/ Running(c)

\* What has been read was sent.
RequestsMade == \A c \in Clients : requests[c] <= made[c]

\* Before accept() there is neither a thread nor a descriptor for a client.
Unaccepted ==
  \A c \in Clients : peer[c] \in {"away", "waiting"} =>
    /\ pc[c] = "none" /\ creating # c
    /\ \A f \in Handed : conn[f] # c

\* A thread is started once for a client.
NotYetStarted == creating # None => pc[creating] = "none"

\* Who is between accept() and its second close() has been given a descriptor.
HasDescriptor ==
  \A c \in Clients : Holding(c) \/ pc[c] = "closed" => connfd[c] \in Handed

\* A descriptor that stands for a connection is the one its client's thread holds, and
\* that thread has still to give it up.
OpenIsHeld ==
  \A f \in Handed : conn[f] # None => connfd[conn[f]] = f /\ Holding(conn[f])

\* A descriptor that is held stands for its client, unless another thread closed it.
HeldIsOwn == \A c \in Clients : Holding(c) /\ c \notin crossed => Mine(c) = c

\* So does the connection a read() has been called for.
ReadsOwn ==
  \A c \in Clients : pc[c] \in {"reading", "answering", "writing"} =>
    on[c] \in Clients /\ (c \notin crossed => on[c] = c)

\* An answer goes astray only after such a close().
StrayedByCrossing == strayed # {} => crossed # {}

IInv ==
  /\ TypeOK /\ RequestsMade /\ Unaccepted /\ NotYetStarted /\ HasDescriptor
  /\ OpenIsHeld /\ HeldIsOwn /\ ReadsOwn /\ StrayedByCrossing

-------------------------------------------------------------------------------
(* The initial state and the clients                                       *)

\* Nobody is there at the start.
LEMMA InitInv == Init => IInv
BY NoneAssumption, MaxRequestsAssumption
   DEF Init, IInv, TypeOK, RequestsMade, Unaccepted, NotYetStarted, HasDescriptor, OpenIsHeld,
       HeldIsOwn, ReadsOwn, StrayedByCrossing, Holding, Running, Handed

\* Clients that connect, send and leave do nothing to the descriptors and the threads.
LEMMA ClientKeeps ==
  ASSUME IInv, NEW c \in Clients, connect(c) \/ request(c) \/ go(c)
  PROVE  IInv'
<1> USE DEF IInv, Server
<1>1. TypeOK' /\ RequestsMade'
  BY MaxRequestsAssumption DEF TypeOK, RequestsMade, connect, request, go
<1>2. Unaccepted'
  BY DEF Unaccepted, connect, request, go, TypeOK
<1>3. /\ NotYetStarted' /\ HasDescriptor' /\ OpenIsHeld'
      /\ HeldIsOwn' /\ ReadsOwn' /\ StrayedByCrossing'
  BY DEF connect, request, go, NotYetStarted, HasDescriptor, OpenIsHeld, HeldIsOwn, ReadsOwn,
         StrayedByCrossing, Holding, Running, Mine
<1> QED BY <1>1, <1>2, <1>3

-------------------------------------------------------------------------------
(* main                                                                    *)

\* accept() gives out a descriptor that stands for nothing: no thread that still has
\* its own is disturbed.
LEMMA AcceptKeeps ==
  ASSUME IInv, accept
  PROVE  IInv'
<1> USE DEF IInv
<1>1. CASE up' = FALSE /\ UNCHANGED <<conn, connfd, peer, creating>>
  <2>1. /\ up' = FALSE
        /\ UNCHANGED <<peer, requests, made, creating, conn, pc, connfd, on, targets, onto, crossed, strayed>>
    BY <1>1 DEF accept
  <2>2. TypeOK' /\ RequestsMade' /\ StrayedByCrossing'
    BY <2>1 DEF TypeOK, RequestsMade, StrayedByCrossing
  <2>3. Unaccepted' /\ NotYetStarted' /\ HasDescriptor' /\ ReadsOwn'
    BY <2>1 DEF Unaccepted, NotYetStarted, HasDescriptor, ReadsOwn, Holding, Running
  <2>4. OpenIsHeld' /\ HeldIsOwn'
    BY <2>1 DEF OpenIsHeld, HeldIsOwn, Holding, Running, Mine
  <2> QED BY <2>2, <2>3, <2>4
<1>2. CASE ~(up' = FALSE /\ UNCHANGED <<conn, connfd, peer, creating>>)
  <2>1. PICK c \in Clients :
          /\ peer[c] = "waiting" /\ Free # {}
          /\ conn' = [conn EXCEPT ![Lowest(Free)] = c]
          /\ connfd' = [connfd EXCEPT ![c] = Argument(Lowest(Free))]
          /\ peer' = [peer EXCEPT ![c] = "here"]
          /\ creating' = c /\ UNCHANGED up
    BY <1>2 DEF accept
  <2> DEFINE l == Lowest(Free)
  <2>2. creating = None /\ UNCHANGED <<up, requests, made, pc, on, targets, onto, crossed, strayed>>
    BY <2>1 DEF accept
  <2>3. l \in Handed /\ conn[l] = None
    <3>1. Free \subseteq Handed /\ Handed \subseteq Nat
      BY FdsAssumption DEF Free, Handed, TypeOK
    <3>2. l \in Free
      BY <2>1, <3>1, LowestIsOne
    <3> QED BY <3>1, <3>2 DEF Free
  <2> HIDE DEF l
  <2>4. /\ conn' = [conn EXCEPT ![l] = c] /\ connfd' = [connfd EXCEPT ![c] = l]
    BY <2>1 DEF l, Argument
  <2>5. /\ c # None
        /\ conn \in [Handed -> Clients \cup {None}] /\ connfd \in [Clients -> Handed \cup {None}]
    BY NoneAssumption DEF TypeOK, Handed
  <2>6. pc[c] = "none" /\ \A f \in Handed : conn[f] # c
    BY <2>1 DEF Unaccepted
  <2>7. TypeOK' /\ RequestsMade' /\ StrayedByCrossing'
    <3>1. /\ conn' \in [Handed -> Clients \cup {None}] /\ connfd' \in [Clients -> Handed \cup {None}]
          /\ peer' \in [Clients -> {"away", "waiting", "here", "gone"}]
      BY <2>1, <2>3, <2>4, <2>5 DEF TypeOK
    <3>2. creating' \in Clients \cup {None}
      BY <2>1
    <3> QED BY <2>2, <3>1, <3>2 DEF TypeOK, RequestsMade, StrayedByCrossing, Handed
  <2>8. Unaccepted'
    <3>1. peer \in [Clients -> {"away", "waiting", "here", "gone"}]
      BY DEF TypeOK
    <3> QED BY <2>1, <2>2, <2>4, <2>5, <3>1 DEF Unaccepted
  <2>9. NotYetStarted' /\ ReadsOwn'
    BY <2>1, <2>2, <2>6 DEF NotYetStarted, ReadsOwn
  <2>10. HasDescriptor'
    BY <2>1, <2>2, <2>3, <2>4, <2>5 DEF HasDescriptor, Holding, Running
  <2>11. OpenIsHeld'
    BY <2>1, <2>2, <2>3, <2>4, <2>5, <2>6 DEF OpenIsHeld, Holding, Running
  <2>12. HeldIsOwn'
    <3> SUFFICES ASSUME NEW d \in Clients, Holding(d)', d \notin crossed
                 PROVE  Mine(d)' = d
      BY <2>2 DEF HeldIsOwn
    <3>1. CASE d = c
      BY <2>3, <2>4, <2>5, <3>1 DEF Mine
    <3>2. CASE d # c
      <4>1. Holding(d) /\ connfd'[d] = connfd[d] /\ conn[connfd[d]] = d /\ connfd[d] \in Handed
        BY <2>1, <2>2, <2>4, <2>5, <3>2 DEF Holding, Running, HeldIsOwn, HasDescriptor, Mine
      <4>2. connfd[d] # l /\ d # None
        BY <2>3, <4>1, NoneAssumption
      <4> QED BY <2>4, <2>5, <4>1, <4>2 DEF Mine
    <3> QED BY <3>1, <3>2
  <2> QED BY <2>7, <2>8, <2>9, <2>10, <2>11, <2>12
<1> QED BY <1>1, <1>2

\* pthread_create() hands the client over to its thread, or the process ends.
LEMMA CreateKeeps ==
  ASSUME IInv, create
  PROVE  IInv'
<1> USE DEF IInv
<1>0. UNCHANGED <<peer, requests, made, conn, connfd, on, targets, onto, crossed, strayed>>
  BY DEF create, clientVars
<1>1. CASE NoThread
  BY <1>0, <1>1 DEF NoThread, TypeOK, RequestsMade, Unaccepted, NotYetStarted, HasDescriptor,
              OpenIsHeld, HeldIsOwn, ReadsOwn, StrayedByCrossing, Holding, Running, Mine
<1>2. CASE pc' = [pc EXCEPT ![creating] = "loop"] /\ creating' = None /\ UNCHANGED up
  <2> DEFINE c == creating
  <2>1. c \in Clients /\ pc[c] = "none" /\ c # None
    BY DEF create, TypeOK, NotYetStarted
  <2>2. pc' = [pc EXCEPT ![c] = "loop"]
    BY <1>2
  <2>3. \A d \in Clients : Holding(d)' <=> Holding(d)
    BY <1>2, <2>1, NoneAssumption DEF Holding, Running, TypeOK
  <2>4. TypeOK' /\ RequestsMade' /\ StrayedByCrossing' /\ NotYetStarted'
    BY <1>0, <1>2, <2>1 DEF TypeOK, RequestsMade, StrayedByCrossing, NotYetStarted
  <2>5. Unaccepted'
    BY <1>0, <1>2, <2>1, <2>2, NoneAssumption DEF Unaccepted, TypeOK
  <2>6. HasDescriptor'
    BY <1>0, <2>1, <2>2, <2>3 DEF HasDescriptor, TypeOK
  <2>7. OpenIsHeld'
    BY <1>0, <2>3 DEF OpenIsHeld, TypeOK, Handed
  <2>8. HeldIsOwn'
    BY <1>0, <2>3 DEF HeldIsOwn, Mine
  <2>9. ReadsOwn'
    BY <1>0, <2>1, <2>2 DEF ReadsOwn, TypeOK
  <2> QED BY <2>4, <2>5, <2>6, <2>7, <2>8, <2>9
<1> QED BY <1>1, <1>2 DEF create

-------------------------------------------------------------------------------
(* The thread                                                              *)

\* A thread that closes its descriptor takes nobody's connection but those it is
\* recorded to have crossed.
LEMMA CloseKeeps ==
  ASSUME IInv, NEW c \in Clients, NEW l \in {"closed", "done"},
         pc[c] \in {"loop", "reading", "closed"}, pc' = [pc EXCEPT ![c] = l], Closed(c),
         crossed \subseteq crossed', crossed' \subseteq Clients,
         Mine(c) \in {c, None} \cup crossed',
         on' \in [Clients -> Clients \cup {None}], \A d \in Clients \ {c} : on'[d] = on[d],
         UNCHANGED <<peer, made, up, creating, connfd, targets, onto, strayed>>,
         requests' \in [Clients -> 0 .. MaxRequests], RequestsMade'
  PROVE  IInv'
<1> USE DEF IInv
<1>1. creating # c
  <2>1. c # None
    BY NoneAssumption
  <2> QED BY <2>1 DEF NotYetStarted
<1>2. connfd[c] \in Handed /\ pc \in [Clients -> {"none", "loop", "reading", "answering", "writing", "closed", "done"}]
  BY DEF HasDescriptor, Holding, Running, TypeOK
<1>3. \A d \in Clients : Holding(d)' => Holding(d) /\ d # c
  BY <1>1, <1>2 DEF Holding, Running
<1>4. conn \in [Handed -> Clients \cup {None}] /\ conn' = [conn EXCEPT ![connfd[c]] = None]
  BY DEF TypeOK, Handed, Closed
<1>5. TypeOK' /\ StrayedByCrossing'
  BY DEF TypeOK, StrayedByCrossing, Closed
<1>6. Unaccepted'
  BY <1>2, <1>4, NoneAssumption DEF Unaccepted
<1>7. NotYetStarted' /\ ReadsOwn'
  BY <1>1, <1>2 DEF NotYetStarted, ReadsOwn
<1>8. HasDescriptor'
  BY <1>2, <1>3 DEF HasDescriptor
<1>9. OpenIsHeld'
  <2> SUFFICES ASSUME NEW f \in Handed, conn'[f] # None
               PROVE  connfd[conn'[f]] = f /\ Holding(conn[f])'
    BY DEF OpenIsHeld
  <2>1. f # connfd[c] /\ conn'[f] = conn[f] /\ conn[f] \in Clients
    BY <1>2, <1>4
  <2>2. connfd[conn[f]] = f /\ Holding(conn[f])
    BY <2>1 DEF OpenIsHeld
  <2>3. conn[f] # c
    BY <2>1, <2>2
  <2> QED BY <1>2, <2>1, <2>2, <2>3 DEF Holding, Running
<1>10. HeldIsOwn'
  <2> SUFFICES ASSUME NEW d \in Clients, Holding(d)', d \notin crossed'
               PROVE  Mine(d)' = d
    BY DEF HeldIsOwn
  <2>1. Holding(d) /\ d # c /\ d # None /\ Mine(d) = d /\ connfd[d] \in Handed
    BY <1>3, NoneAssumption DEF HeldIsOwn, HasDescriptor
  <2>2. connfd[d] # connfd[c]
    BY <2>1 DEF Mine
  <2> QED BY <1>4, <2>1, <2>2 DEF Mine
<1> QED BY <1>5, <1>6, <1>7, <1>8, <1>9, <1>10

\* The first close() crosses nobody unless the thread was crossed itself.
LEMMA HangupKeeps ==
  ASSUME IInv, NEW c \in Clients, hangup(c), pc[c] \in {"loop", "reading"},
         UNCHANGED <<peer, made, up, creating, connfd, targets, onto>>,
         requests' \in [Clients -> 0 .. MaxRequests], RequestsMade'
  PROVE  IInv'
<1>1. Mine(c) \in {c, None} \cup crossed' /\ crossed \subseteq crossed' /\ crossed' \subseteq Clients
  <2>1. Mine(c) \in Clients \cup {None}
    BY DEF IInv, HasDescriptor, Holding, Running, Mine, TypeOK, Handed
  <2>2. c \notin crossed => Mine(c) = c
    BY DEF IInv, HeldIsOwn, Holding, Running
  <2> QED BY <2>1, <2>2 DEF hangup, IInv, TypeOK
<1>2. pc' = [pc EXCEPT ![c] = "closed"] /\ Closed(c) /\ UNCHANGED strayed
  BY DEF hangup, AfterClose
<1>3. on' \in [Clients -> Clients \cup {None}] /\ \A d \in Clients \ {c} : on'[d] = on[d]
  BY DEF hangup, IInv, TypeOK
<1> QED BY <1>1, <1>2, <1>3, CloseKeeps

\* read() is called for the connection the descriptor stands for.
LEMMA ReadKeeps ==
  ASSUME IInv, NEW c \in Clients, read(c)
  PROVE  IInv'
<1>0. UNCHANGED <<peer, requests, made, up, creating, connfd, targets, onto>>
  BY DEF read, Main, clientVars
<1>1. CASE hangup(c)
  <2>1. requests' \in [Clients -> 0 .. MaxRequests] /\ RequestsMade'
    BY <1>0 DEF IInv, TypeOK, RequestsMade
  <2> QED BY <1>0, <1>1, <2>1, HangupKeeps DEF read
<1>2. CASE Mine(c) # None /\ on' = [on EXCEPT ![c] = Mine(c)] /\ pc' = [pc EXCEPT ![c] = "reading"]
           /\ UNCHANGED <<conn, crossed, strayed>>
  <2> USE DEF IInv
  <2>1. pc[c] = "loop" /\ Mine(c) \in Clients /\ (c \notin crossed => Mine(c) = c)
    BY <1>2 DEF read, HasDescriptor, HeldIsOwn, Holding, Running, Mine, TypeOK, Handed
  <2>2. TypeOK' /\ RequestsMade' /\ StrayedByCrossing'
    BY <1>0, <1>2, <2>1 DEF TypeOK, RequestsMade, StrayedByCrossing
  <2>3. \A d \in Clients : (Holding(d)' <=> Holding(d)) /\ (pc'[d] = "closed" => pc[d] = "closed")
                           /\ (pc[d] = "none" => pc'[d] = "none")
    BY <1>0, <1>2, <2>1 DEF Holding, Running, TypeOK
  <2>4. Unaccepted' /\ HasDescriptor'
    BY <1>0, <1>2, <2>3 DEF Unaccepted, HasDescriptor
  <2>5. NotYetStarted'
    BY <1>0, <2>3 DEF NotYetStarted, TypeOK
  <2>6. OpenIsHeld' /\ HeldIsOwn'
    BY <1>0, <1>2, <2>3 DEF OpenIsHeld, HeldIsOwn, Mine, TypeOK, Handed
  <2>7. ReadsOwn'
    BY <1>2, <2>1 DEF ReadsOwn, TypeOK
  <2> QED BY <2>2, <2>4, <2>5, <2>6, <2>7
<1> QED BY <1>1, <1>2 DEF read

\* A step of a thread between read() and the next leaves the descriptors alone.
LEMMA WorkKeeps ==
  ASSUME IInv, NEW c \in Clients, NEW l \in {"loop", "answering", "writing"},
         pc[c] \in {"reading", "answering", "writing"}, pc' = [pc EXCEPT ![c] = l],
         on' \in [Clients -> Clients \cup {None}], \A d \in Clients \ {c} : on'[d] = on[d],
         l = "loop" \/ on'[c] = on[c],
         UNCHANGED <<peer, made, up, creating, conn, connfd, crossed>>,
         requests' \in [Clients -> 0 .. MaxRequests], RequestsMade',
         targets' \in [Clients -> SUBSET Handed], onto' \in [Clients -> Clients \cup {None}],
         strayed' \subseteq Clients, StrayedByCrossing'
  PROVE  IInv'
<1> USE DEF IInv
<1>1. \A d \in Clients : (Holding(d)' <=> Holding(d)) /\ (pc'[d] = "closed" => pc[d] = "closed")
                         /\ (pc[d] = "none" => pc'[d] = "none")
  BY DEF Holding, Running, TypeOK
<1>2. TypeOK'
  BY DEF TypeOK, Handed
<1>3. Unaccepted' /\ HasDescriptor'
  BY <1>1 DEF Unaccepted, HasDescriptor
<1>4. NotYetStarted'
  BY <1>1 DEF NotYetStarted, TypeOK
<1>5. OpenIsHeld' /\ HeldIsOwn'
  BY <1>1 DEF OpenIsHeld, HeldIsOwn, Mine, TypeOK, Handed
<1>6. ReadsOwn'
  <2> SUFFICES ASSUME NEW d \in Clients, pc'[d] \in {"reading", "answering", "writing"}
               PROVE  on'[d] \in Clients /\ (d \notin crossed => on'[d] = d)
    BY DEF ReadsOwn
  <2>1. pc[d] \in {"reading", "answering", "writing"} /\ on'[d] = on[d]
    BY DEF TypeOK
  <2> QED BY <2>1 DEF ReadsOwn
<1> QED BY <1>2, <1>3, <1>4, <1>5, <1>6

\* Every step of a thread keeps the invariant.
LEMMA ThreadKeeps ==
  ASSUME IInv, NEW c \in Clients, thread(c)
  PROVE  IInv'
<1>1. CASE read(c)
  BY <1>1, ReadKeeps
<1>2. CASE returns(c)
  <2>0. pc[c] = "reading" /\ on[c] \in Clients /\ UNCHANGED <<onto, peer, made, up, creating, connfd>>
    BY <1>2 DEF returns, IInv, ReadsOwn
  <2>1. CASE hangup(c) /\ UNCHANGED <<requests, targets>>
    <3>1. requests' \in [Clients -> 0 .. MaxRequests] /\ RequestsMade'
      BY <2>0, <2>1 DEF IInv, TypeOK, RequestsMade
    <3> QED BY <2>0, <2>1, <3>1, HangupKeeps
  <2>2. CASE /\ requests[on[c]] > 0
             /\ requests' = [requests EXCEPT ![on[c]] = @ - 1]
             /\ \E T \in SUBSET DOMAIN conn : targets' = [targets EXCEPT ![c] = T]
             /\ pc' = [pc EXCEPT ![c] = "answering"] /\ UNCHANGED <<conn, on, crossed, strayed>>
    <3>1. requests' = [requests EXCEPT ![on[c]] = requests[on[c]] - 1]
      BY <2>2
    <3>2. \A d \in Clients : requests[d] \in Nat /\ requests[d] <= MaxRequests
      BY MaxRequestsAssumption DEF IInv, TypeOK
    <3>3. requests[on[c]] - 1 \in 0 .. MaxRequests
      BY <2>0, <2>2, <3>2, MaxRequestsAssumption
    <3>4. requests' \in [Clients -> 0 .. MaxRequests]
      BY <2>0, <3>1, <3>3 DEF IInv, TypeOK
    <3>5. RequestsMade'
      <4> SUFFICES ASSUME NEW d \in Clients PROVE requests'[d] <= made[d]
        BY <2>0 DEF RequestsMade
      <4>1. requests[d] <= made[d] /\ requests[d] \in Nat /\ made[d] \in Nat
        BY <3>2, MaxRequestsAssumption DEF IInv, RequestsMade, TypeOK
      <4>2. requests'[d] = requests[d] \/ requests'[d] = requests[d] - 1
        BY <3>1 DEF IInv, TypeOK
      <4> QED BY <4>1, <4>2
    <3>6. strayed' \subseteq Clients /\ StrayedByCrossing'
      BY <2>2 DEF IInv, TypeOK, StrayedByCrossing
    <3>7. targets' \in [Clients -> SUBSET Handed] /\ on' = on /\ on \in [Clients -> Clients \cup {None}]
      BY <2>2 DEF IInv, TypeOK, Handed
    <3>8. onto' \in [Clients -> Clients \cup {None}]
      BY <2>0 DEF IInv, TypeOK
    <3> QED BY <2>0, <2>2, <3>4, <3>5, <3>6, <3>7, <3>8, WorkKeeps
  <2> QED BY <1>2, <2>1, <2>2 DEF returns
<1>3. CASE write(c)
  <2>0. PICK f \in targets[c] :
          /\ targets' = [targets EXCEPT ![c] = @ \ {f}]
          /\ \/ conn[f] = None /\ UNCHANGED <<onto, pc>>
             \/ /\ conn[f] # None
                /\ onto' = [onto EXCEPT ![c] = conn[f]]
                /\ pc' = [pc EXCEPT ![c] = "writing"]
          /\ strayed' = IF f = connfd[c] /\ conn[f] # on[c] THEN strayed \cup {on[c]} ELSE strayed
    BY <1>3 DEF write
  <2>1. /\ pc[c] = "answering"
        /\ UNCHANGED <<peer, requests, made, up, creating, conn, connfd, on, crossed>>
    BY <1>3 DEF write, Main, clientVars
  <2>2. requests' \in [Clients -> 0 .. MaxRequests] /\ RequestsMade'
    BY <2>1 DEF IInv, TypeOK, RequestsMade
  <2>3. on[c] \in Clients /\ (c \notin crossed => on[c] = c /\ Mine(c) = c)
    BY <2>1 DEF IInv, ReadsOwn, HeldIsOwn, Holding, Running
  <2>4. strayed' \subseteq Clients /\ StrayedByCrossing'
    BY <2>0, <2>1, <2>3 DEF Mine, IInv, TypeOK, StrayedByCrossing
  <2>5. f \in Handed /\ conn[f] \in Clients \cup {None}
    BY DEF IInv, TypeOK, Handed
  <2>6. /\ targets' \in [Clients -> SUBSET Handed] /\ onto' \in [Clients -> Clients \cup {None}]
        /\ on' = on /\ on \in [Clients -> Clients \cup {None}]
    BY <2>0, <2>1, <2>5 DEF IInv, TypeOK, Handed
  <2>7. PICK l \in {"answering", "writing"} : pc' = [pc EXCEPT ![c] = l]
    BY <2>0, <2>1 DEF IInv, TypeOK
  <2> QED BY <2>1, <2>2, <2>4, <2>6, <2>7, WorkKeeps
<1>4. CASE written(c)
  <2>1. /\ pc[c] = "writing"
        /\ UNCHANGED <<peer, requests, made, creating, conn, connfd, on, targets, crossed, strayed>>
    BY <1>4 DEF written, clientVars
  <2>2. requests' \in [Clients -> 0 .. MaxRequests] /\ RequestsMade'
    BY <2>1 DEF IInv, TypeOK, RequestsMade
  <2>3. /\ strayed' \subseteq Clients /\ StrayedByCrossing' /\ targets' \in [Clients -> SUBSET Handed]
        /\ on' = on /\ on \in [Clients -> Clients \cup {None}]
    BY <2>1 DEF IInv, TypeOK, StrayedByCrossing, Handed
  <2>4. CASE pc' = [pc EXCEPT ![c] = "answering"] /\ onto' = [onto EXCEPT ![c] = None] /\ UNCHANGED up
    <3>1. onto' \in [Clients -> Clients \cup {None}]
      BY <2>4 DEF IInv, TypeOK
    <3> QED BY <2>1, <2>2, <2>3, <2>4, <3>1, WorkKeeps
  <2>5. CASE up' = FALSE /\ UNCHANGED <<pc, onto>>
    BY <2>1, <2>5 DEF IInv, TypeOK, RequestsMade, Unaccepted, NotYetStarted, HasDescriptor,
                      OpenIsHeld, HeldIsOwn, ReadsOwn, StrayedByCrossing, Holding, Running, Mine
  <2> QED BY <1>4, <2>4, <2>5 DEF written
<1>5. CASE done(c)
  <2>1. /\ pc[c] = "answering" /\ pc' = [pc EXCEPT ![c] = "loop"] /\ on' = [on EXCEPT ![c] = None]
        /\ UNCHANGED <<peer, requests, made, up, creating, conn, connfd, targets, onto, crossed, strayed>>
    BY <1>5 DEF done, Main, clientVars
  <2>2. requests' \in [Clients -> 0 .. MaxRequests] /\ RequestsMade'
    BY <2>1 DEF IInv, TypeOK, RequestsMade
  <2>3. /\ strayed' \subseteq Clients /\ StrayedByCrossing' /\ targets' \in [Clients -> SUBSET Handed]
        /\ onto' \in [Clients -> Clients \cup {None}]
    BY <2>1 DEF IInv, TypeOK, StrayedByCrossing, Handed
  <2>4. on' \in [Clients -> Clients \cup {None}] /\ \A d \in Clients \ {c} : on'[d] = on[d]
    BY <2>1 DEF IInv, TypeOK
  <2> QED BY <2>1, <2>2, <2>3, <2>4, WorkKeeps
<1>6. CASE end(c)
  <2>1. /\ pc[c] = "closed" /\ pc' = [pc EXCEPT ![c] = "done"] /\ Closed(c)
        /\ UNCHANGED <<peer, requests, made, up, creating, connfd, on, targets, onto, strayed>>
    BY <1>6 DEF end, Main, clientVars
  <2>2. requests' \in [Clients -> 0 .. MaxRequests] /\ RequestsMade'
    BY <2>1 DEF IInv, TypeOK, RequestsMade
  <2>3. Mine(c) \in Clients \cup {None}
    BY <2>1 DEF IInv, HasDescriptor, Mine, TypeOK, Handed
  <2>4. /\ crossed \subseteq crossed' /\ crossed' \subseteq Clients
        /\ Mine(c) \in {c, None} \cup crossed'
    BY <1>6, <2>3 DEF end, IInv, TypeOK
  <2>5. on' \in [Clients -> Clients \cup {None}]
    BY <2>1 DEF IInv, TypeOK
  <2> QED BY <2>1, <2>2, <2>4, <2>5, CloseKeeps
<1> QED BY <1>1, <1>2, <1>3, <1>4, <1>5, <1>6 DEF thread

-------------------------------------------------------------------------------
(* The theorems                                                            *)

\* Every step of main, of the threads and of the clients keeps the invariant.
LEMMA StepInv == IInv /\ [Next]_vars => IInv'
<1> SUFFICES ASSUME IInv, [Next]_vars PROVE IInv'
  OBVIOUS
<1>1. CASE UNCHANGED vars
  BY <1>1 DEF vars, clientVars, IInv, TypeOK, RequestsMade, Unaccepted, NotYetStarted,
              HasDescriptor, OpenIsHeld, HeldIsOwn, ReadsOwn, StrayedByCrossing, Holding,
              Running, Mine
<1>2. CASE Next
  BY <1>2, AcceptKeeps, CreateKeeps, ClientKeeps, ThreadKeeps DEF Next
<1> QED BY <1>1, <1>2

\* The invariant holds in every state the server reaches.
LEMMA Invariant == Spec => []IInv
BY InitInv, StepInv, PTL DEF Spec

\* Descriptors, connections and threads keep their types (main, handle_clients and
\* start_routine).
THEOREM TypeCorrect == Spec => []TypeOK
<1>1. IInv => TypeOK
  BY DEF IInv
<1> QED BY Invariant, <1>1, PTL

\* A thread that has not closed its descriptor has it for its own client, and answers
\* that client, unless the second close() of another thread has taken it away: for any
\* number of clients that come and go, on any descriptors.
THEOREM OnlyTheSecondCloseCrosses == Spec => []OwnUnlessCrossed
<1>1. IInv => OwnUnlessCrossed
  BY DEF IInv, OwnUnlessCrossed, HeldIsOwn, Holding, StrayedByCrossing
<1> QED BY Invariant, <1>1, PTL

\* While the server is up no descriptor stays open that no thread is going to close.
THEOREM NoDescriptorLeaks == Spec => []NoLeak
<1>1. IInv => NoLeak
  <2> SUFFICES ASSUME IInv, NEW f \in Handed, conn[f] # None, creating # conn[f]
               PROVE  \E c \in Clients : connfd[c] = f /\ pc[c] \notin {"none", "done"}
    BY DEF NoLeak, IInv, TypeOK, Handed
  <2>1. conn[f] \in Clients
    BY DEF IInv, TypeOK, Handed
  <2>2. connfd[conn[f]] = f /\ Running(conn[f])
    BY DEF IInv, OpenIsHeld, Holding
  <2> QED BY <2>1, <2>2 DEF Running
<1> QED BY Invariant, <1>1, PTL

===============================================================================
