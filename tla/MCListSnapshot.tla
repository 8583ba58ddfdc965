----------------------------- MODULE MCListSnapshot -----------------------------
(* Names of one to three characters, whatever memory malloc returns.       *)
EXTENDS ListSnapshot, TLC

CONSTANTS n1, n2, n3   \* the names

Lengths == n1 :> 1 @@ n2 :> 3 @@ n3 :> 2
Either == {Null, Wild}

\* Nothing overlaps until one account is in the list: one registration, or one request
\* for the list that is still empty.  A login changes nothing that the walks look at.
OneBefore ==
  /\ \A t \in Threads : pc[t] \notin LoggingIn
  /\ standing = {root_user} =>
       /\ OneRegistration
       /\ at # "idle" => Len(mem) = 1 /\ \A t \in Threads : pc[t] = "idle"

Symmetry == Permutations(Threads)

===============================================================================
