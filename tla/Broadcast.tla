----------------------------- MODULE Broadcast -----------------------------
(***************************************************************************)
(* What the gossip layer of p2p.rs promises the rest of the program: what  *)
(* a process reads from its event queue was said by somebody else, and no  *)
(* process reads a message twice.  It does not promise that a message      *)
(* arrives, nor in which order, and a new process starts afresh.           *)
(***************************************************************************)
EXTENDS Integers, Sequences

CONSTANTS Nodes, Speakers, Ids

VARIABLES
    run,     \* run[n]: the number of the process on node n
    said,    \* what was said: [id, src], an id by one speaker only
    events   \* events[n]: the ids n's process has read, in order

vars == <<run, said, events>>

Read(n) == {events[n][i] : i \in DOMAIN events[n]}

Init ==
    /\ run = [n \in Nodes |-> 1]
    /\ said = {}
    /\ events = [n \in Nodes |-> <<>>]

Say(src, id) ==
    /\ \A s \in said : s.id # id
    /\ said' = said \cup {[id |-> id, src |-> src]}
    /\ UNCHANGED <<run, events>>

Hear(n, s) ==
    /\ s.src # <<n, run[n]>>
    /\ s.id \notin Read(n)
    /\ events' = [events EXCEPT ![n] = Append(@, s.id)]
    /\ UNCHANGED <<run, said>>

Restart(n) ==
    /\ run' = [run EXCEPT ![n] = @ + 1]
    /\ events' = [events EXCEPT ![n] = <<>>]
    /\ UNCHANGED said

Next ==
    \/ \E src \in Speakers, id \in Ids : Say(src, id)
    \/ \E n \in Nodes : \E s \in said : Hear(n, s)
    \/ \E n \in Nodes : Restart(n)

Spec == Init /\ [][Next]_vars
=============================================================================
