---------------------------- MODULE MCMeshGossip ----------------------------
EXTENDS MeshGossip, TLC

CONSTANTS
    x1,             \* the id of what another client publishes
    Restarting      \* the nodes that may restart once

MCForeignIds == {x1}

\* Data that is no envelope.
MCForeignData == {[form |-> "raw", id |-> x1]}

MCMaxRuns == [n \in Nodes |-> IF n \in Restarting THEN 2 ELSE 1]
=============================================================================
