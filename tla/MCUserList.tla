------------------------------- MODULE MCUserList -------------------------------
(* Instances of UserList for TLC: the sets are given in the .cfg files.    *)
EXTENDS UserList, FiniteSets, Functions, TLC

\* Threads and nicknames are interchangeable.
Symmetry == Permutations(Threads) \cup Permutations(Names)

\* Liveness is checked without symmetry: of the ways to share out the same calls among
\* the threads one is taken, and of two ways to swap two names the one in which no two
\* threads call for the second.
Second == CHOOSE n \in Names : TRUE
ThreadNo == CHOOSE f \in [Threads -> 1 .. Cardinality(Threads)] : IsInjective(f)
CallNo(o) == (IF o.kind = "login" THEN 1 ELSE 0) + (IF o.name = Second THEN 2 ELSE 0)
InOrder ==
  \A t, u \in Threads : ThreadNo[t] < ThreadNo[u] /\ op[t] # None /\ op[u] # None =>
    /\ CallNo(op[t]) <= CallNo(op[u])
    /\ {op[t].name, op[u].name} # {Second}

\* Pointers in a fresh node: null, as in zeroed memory, or that and what other memory holds.
Zeroed == {Null}
Either == {Null, Wild}

===============================================================================
