------------------------------ MODULE ListSnapshot ------------------------------
(***************************************************************************)
(* show_users and show_chat_rooms of the TCP server: a first walk over the *)
(* list sums up the size of the names, a second one copies them into a     *)
(* block of that size, and the block is sent with its size in front.       *)
(*                                                                         *)
(* The list is that of UserList, with the threads of register_user and     *)
(* login_user at work on it; create_chat_room makes a list of rooms by the *)
(* same steps, less those that store pw, connfd and login.  Of a name the  *)
(* walks see its length; a strcpy() and the strlen() after it are one      *)
(* step.                                                                   *)
(***************************************************************************)
EXTENDS UserList, FiniteSets

CONSTANTS
  Length,     \* the length of each name
  Garbage,    \* what strlen() may find where no name is stored yet
  MaxShows,   \* bound: requests for the list
  Modulus     \* the numbers htons() keeps apart: 2^16, less for checking

ASSUME LengthAssumption == Length \in [Names -> Nat \ {0}] /\ Garbage \subseteq Nat
ASSUME ShowBoundsAssumption == MaxShows \in Nat /\ Modulus \in Nat \ {0}

VARIABLES
  id,       \* the request: "SHOW_USERS" or "SHOW_CHAT_ROOMS"
  pass,     \* the walk: 1 or 2
  at,       \* "idle", "next", "name", "end" of a walk, or "send"
  cursor,   \* its conductor
  needed,   \* memory_size_needed
  location, \* bytes copied
  counted,  \* history: needed, behind each node of the first walk
  ends,     \* history: location, behind each node of the second
  standing, \* history: the nodes of the list when last no registration ran
  before,   \* history: those when the request was read
  answer_names, \* the nodes whose names are whole in the last answer as the client reads it
  shows     \* requests so far

walkVars == <<pass, at, cursor, needed, location, counted, ends, answer_names>>
showVars == <<walkVars, id, before, shows>>
allVars == <<vars, showVars, standing>>

-------------------------------------------------------------------------------
(* The walks                                                               *)

\* strlen() of the name of node x.
strlen(x) == IF mem[x].name \in Names THEN {Length[mem[x].name]} ELSE Garbage

\* Mutant: without the ends of the lines, as in the lines that are commented out.
LineSize_None(r) == 0

\* What the sum has for the end of a line: sizeof('\n'), that of an int, or
\* strlen("\n").
LineSize(r) == IF r = "SHOW_USERS" THEN 4 ELSE 1

\* The walks change nothing of the list.
Reads == up /\ UNCHANGED <<vars, standing, id, before, shows>>

\* No node has been passed yet.
Nothing == [x \in {} |-> 0]

show ==
  /\ up /\ at = "idle" /\ shows < MaxShows /\ shows' = shows + 1
  /\ id' \in {"SHOW_USERS", "SHOW_CHAT_ROOMS"}
  /\ pass' = 1 /\ at' = "next" /\ cursor' = root_user
  /\ needed' = 0 /\ location' = 0 /\ counted' = Nothing /\ ends' = Nothing
  /\ before' = standing
  /\ UNCHANGED <<vars, standing, answer_names>>

\* conductor = conductor->next.
next ==
  /\ at = "next" /\ cursor \in DOMAIN mem
  /\ \/ mem[cursor].next = Null /\ at' = "end" /\ UNCHANGED cursor
     \/ mem[cursor].next # Null /\ at' = "name" /\ cursor' = mem[cursor].next
  /\ Reads /\ UNCHANGED <<pass, needed, location, counted, ends, answer_names>>

Put(f, x, v) == [y \in DOMAIN f \cup {x} |-> IF y = x THEN v ELSE f[y]]

\* The first walk adds the size of the name and of the end of its line.
count ==
  /\ at = "name" /\ pass = 1 /\ cursor \in DOMAIN mem /\ at' = "next"
  /\ \E n \in strlen(cursor) : needed' = needed + n + LineSize(id)
  /\ counted' = Put(counted, cursor, needed')
  /\ Reads /\ UNCHANGED <<pass, cursor, location, ends, answer_names>>

\* The second copies the name and the end of the line, with a 0 behind it that the next
\* name overwrites.
copy ==
  /\ at = "name" /\ pass = 2 /\ cursor \in DOMAIN mem /\ at' = "next"
  /\ \E n \in strlen(cursor) : location' = location + n + 1
  /\ ends' = Put(ends, cursor, location')
  /\ Reads /\ UNCHANGED <<pass, cursor, needed, counted, answer_names>>

\* Mutant: the second walk goes on from the end of the first.
StartOver_Not == UNCHANGED cursor
StartOver == cursor' = root_user

\* The end of the first walk: the block is allocated, and the second begins; without a
\* name there is neither a block nor a length.
allocate ==
  /\ at = "end" /\ pass = 1
  /\ \/ needed = 0 /\ at' = "send" /\ UNCHANGED <<pass, cursor>>
     \/ needed # 0 /\ at' = "next" /\ pass' = 2 /\ StartOver
  /\ Reads /\ UNCHANGED <<needed, location, counted, ends, answer_names>>

htons(n) == n % Modulus

\* send_universal_india_message: the length, and so much of the block.
send ==
  /\ at = "send" \/ (at = "end" /\ pass = 2)
  /\ at' = "idle"
  /\ answer_names' = {x \in DOMAIN ends : ends[x] <= htons(needed)}
  /\ Reads /\ UNCHANGED <<pass, cursor, needed, location, counted, ends>>

\* A walk follows the pointer of a node that does not have one yet.
astray ==
  /\ up /\ at \in {"next", "name"} /\ cursor \notin DOMAIN mem
  /\ up' = FALSE
  /\ UNCHANGED <<mem, threadVars, settled, standing, showVars>>

walk == next \/ count \/ copy \/ allocate \/ send \/ astray

-------------------------------------------------------------------------------
ShowInit ==
  /\ Init /\ standing = {root_user}
  /\ id = "SHOW_USERS" /\ pass = 1 /\ at = "idle" /\ cursor = root_user
  /\ needed = 0 /\ location = 0 /\ counted = Nothing /\ ends = Nothing
  /\ before = {} /\ answer_names = {} /\ shows = 0

\* The other threads.
others ==
  /\ Next /\ UNCHANGED showVars
  /\ standing' = IF \E t \in Threads : Registering(t)' THEN standing ELSE List'

ShowNext == others \/ show \/ walk

ShowSpec == ShowInit /\ [][ShowNext]_allVars

-------------------------------------------------------------------------------
(* Properties                                                              *)

\* Of what was in the list at a moment when no registration ran, before the request, the
\* two walks agree, however registrations overlap since: its names and the ends of their
\* lines fit in the block, but for the one byte of the last 0 in show_chat_rooms
\* (sizeof('\n') has room for it).  Only what is newer can overrun it (lines 206-238 and
\* 604-638).
KnownFit ==
  \A x \in before \cap DOMAIN ends :
    ends[x] + 1 <= needed + (IF id = "SHOW_CHAT_ROOMS" THEN 1 ELSE 0)

\* Whoever was in the list at such a moment is in the answer, whole and within the length
\* the client reads, whatever is added and cut off meanwhile, as long as the size is one
\* that htons() does not cut (india_messages_protocol.c:129).
KnownAreListed ==
  at = "idle" /\ shows > 0 /\ needed < Modulus => before \ {root_user} \subseteq answer_names

===============================================================================
