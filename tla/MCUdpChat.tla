------------------------------- MODULE MCUdpChat -------------------------------
(* Two clients of the UDP variant, one of which makes more requests.         *)
EXTENDS UdpChat

CONSTANT Busy

Requests == [c \in Clients |-> IF c = Busy THEN 4 ELSE 1]

\* Either a datagram is lost or the other client asks, not both; and with the other
\* client the busy one makes a request less.
OneTrouble ==
  \/ \A c \in Clients \ {Busy} : asked[c] = 0
  \/ lost = 0 /\ asked[Busy] < 4

===============================================================================
