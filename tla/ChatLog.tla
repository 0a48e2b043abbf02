------------------------------ MODULE ChatLog ------------------------------
(***************************************************************************)
(* What the message stores of all devices promise together: there is one   *)
(* log of messages, each with an id of its own, and every device keeps a   *)
(* part of that log.  A device never keeps anything else, never loses or   *)
(* changes what it keeps, and may get any part at any time.  Nothing is    *)
(* said of keys, rooms, histories, restarts or the network.                *)
(***************************************************************************)
CONSTANT Devices

VARIABLES
    said,    \* the log: every message that was said
    kept     \* kept[d]: the part of the log that device d has

vars == <<said, kept>>

Init ==
    /\ said = {}
    /\ kept = [d \in Devices |-> {}]

Say(m) ==
    /\ \A x \in said : x.id # m.id
    /\ said' = said \cup {m}
    /\ UNCHANGED kept

Keep(d, ms) ==
    /\ ms \subseteq said
    /\ kept' = [kept EXCEPT ![d] = @ \cup ms]
    /\ UNCHANGED said

Next ==
    \/ \E m \in said' : Say(m)
    \/ \E d \in Devices : \E ms \in SUBSET said : Keep(d, ms)

Spec == Init /\ [][Next]_vars
=============================================================================
