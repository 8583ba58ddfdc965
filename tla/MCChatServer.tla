----------------------------- MODULE MCChatServer -----------------------------
(* Instances of ChatServer for TLC: the sets are given in the .cfg files.  *)
EXTENDS ChatServer, TLC

\* Clients, nicknames, passwords, rooms and chunks are interchangeable; descriptors
\* are not, as accept() takes the lowest.
Symmetry ==
  Permutations(Clients) \cup Permutations(Names) \cup Permutations(Passwords)
    \cup Permutations(Rooms) \cup Permutations(Cells)

\* Bound of the run about accounts.  A room comes when both users are there, with one
\* password; a second close() hits another client's descriptor before there is a
\* room or while the list of the room is short and keeps no freed participant.
AccountsOrRoom ==
  \/ rooms = <<>>
  \/ /\ Len(users) = 2 /\ \A i, j \in DOMAIN users : users[i].pw = users[j].pw
     /\ \/ \A c \in Clients : Reads(c) => Sound(c)
        \/ ~tainted /\ \E x \in Cells : heap[x].state = "unused"

\* Bounds of the runs about the member lists.
AllStay == \A c \in Clients : phase[c] \in {"new", "connected"}

\* Two clients and their users in two rooms, on two chunks that malloc hands out again
\* and again; or three in one room whose list keeps no freed participant, created
\* when all three are in.
TwoInTwo ==
  /\ \E c \in Clients : phase[c] = "new"
  /\ Len(users) <= 2
  /\ \E x \in Cells : heap[x].state = "unused"
ThreeInOne ==
  /\ Len(rooms) <= 1 /\ ~tainted
  /\ rooms # <<>> => \A c \in Clients : phase[c] = "connected"
TwoOrThree == AllStay /\ (TwoInTwo \/ ThreeInOne)

===============================================================================
