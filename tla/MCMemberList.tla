------------------------------ MODULE MCMemberList ------------------------------
(* Instances of MemberList for TLC.                                        *)
EXTENDS MemberList

CONSTANTS h, x, y, back

\* Each of three clients has entered under a name of its own; a fourth, back, has not
\* entered yet.
Users == {h, x, y}
FourClients == Users \cup {back}
Entered == [t \in FourClients |-> IF t = back THEN None ELSE t]
NobodyOrThree == {<<>>, <<h, x, y>>, <<y, h, x>>}
\* What is in memory that was used: a user, or none, that is none of these; and as the
\* next participant null, too.
NoUser == {Wild}
Used == {Null, Wild}

\* h writes; x leaves the room and joins again, or comes and leaves; y loses its
\* connection; and on another y logs in again, or h does and joins or leaves there.
Overlapping ==
  [t \in FourClients |->
     CASE t = h -> {[kind |-> "forward", name |-> h]}
       [] t = x -> {[kind |-> k, name |-> x] : k \in {"exit", "join"}}
       [] t = y -> {}
       [] t = back -> {[kind |-> "login", name |-> n] : n \in {h, y}}
                         \cup {[kind |-> k, name |-> h] : k \in {"exit", "join"}}]
Twice == [t \in FourClients |-> IF t \in {x, back} THEN 2 ELSE 1]
YLeaves == {y}

===============================================================================
