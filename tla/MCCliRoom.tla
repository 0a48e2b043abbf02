----------------------------- MODULE MCCliRoom -----------------------------
EXTENDS CliRoom, TLC
CONSTANTS Restarting    \* the devices that may restart once
MCMaxRuns == [d \in Devices |-> IF d \in Restarting THEN 2 ELSE 1]
Symmetry == Permutations(Devices) \cup Permutations(ChatIds)
ChatSymmetry == Permutations(ChatIds)
=============================================================================
