----------------------------- MODULE KeyedMutex -----------------------------
(***************************************************************************)
(* What the daemon's table of locks promises (DaemonServer._locks): for    *)
(* every key a queue of clients, of which only the first may be inside,    *)
(* and which serves them first come, first served.                         *)
(***************************************************************************)
EXTENDS Sequences

CONSTANTS Clients, Keys

VARIABLES
    line,    \* line[k]: the clients that hold or wait for k, in order of arrival
    inside   \* the clients that work under the key they hold

Init ==
    /\ line = [k \in Keys |-> <<>>]
    /\ inside = {}

\* Client c, in no line, joins the line of k and goes in at once if it is alone.
Arrive(c, k) ==
    /\ c \notin inside
    /\ line' = [line EXCEPT ![k] = Append(@, c)]
    /\ inside' = IF line[k] = <<>> THEN inside \cup {c} ELSE inside

\* The first in the line of k goes in.
Enter(c, k) ==
    /\ c \notin inside
    /\ line[k] # <<>> /\ Head(line[k]) = c
    /\ inside' = inside \cup {c}
    /\ UNCHANGED line

\* The first in the line of k, when inside, comes out and leaves the line.
Exit(c, k) ==
    /\ c \in inside
    /\ line[k] # <<>> /\ Head(line[k]) = c
    /\ inside' = inside \ {c}
    /\ line' = [line EXCEPT ![k] = Tail(@)]

Next == \E c \in Clients, k \in Keys : Arrive(c, k) \/ Enter(c, k) \/ Exit(c, k)

Spec == Init /\ [][Next]_<<line, inside>>
=============================================================================
