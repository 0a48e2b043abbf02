---------------------------- MODULE IdentityFile ----------------------------
(***************************************************************************)
(* The identity file of one device (KeyPair::load_or_generate, called once *)
(* by main): what its processes read and write when they start, a crash at *)
(* any point, and starts that overlap.                                     *)
(***************************************************************************)
EXTENDS FiniteSets

CONSTANTS
    Processes,  \* the processes ever started on the device: a bound
    NoKey       \* what is no key

\* A process generates at most one key, from fresh random bytes, so the key
\* may be named by the process.
Keys == Processes

\* The file is absent, holds something that is not 32 bytes, or a key.
Contents == {"absent", "short"} \cup Keys

ASSUME KeysAssumption ==
    /\ NoKey \notin Keys
    /\ {"absent", "short"} \cap Keys = {}

VARIABLES
    file,    \* identity.key
    pc,      \* pc[p]: where p is in load_or_generate
    key,     \* key[p]: the key pair that p runs with
    overlap  \* a process has started while another was in load_or_generate

vars == <<file, pc, key, overlap>>

Loading == {"read", "generate", "write"}

\* The state keeps its type: nobody runs with what is not a key.
TypeOK ==
    /\ file \in Contents
    /\ pc \in [Processes -> Loading \cup {"idle", "runs", "ended"}]
    /\ key \in [Processes -> Keys \cup {NoKey}]
    /\ overlap \in BOOLEAN

-----------------------------------------------------------------------------
Init ==
    /\ file = "absent"
    /\ pc = [p \in Processes |-> "idle"]
    /\ key = [p \in Processes |-> NoKey]
    /\ overlap = FALSE

Steps(p, from, to) == pc[p] = from /\ pc' = [pc EXCEPT ![p] = to]

\* A mutant of Exists: a process that starts always writes.
Exists_Never(p) ==
    /\ Steps(p, "idle", "generate")
    /\ overlap' = (overlap \/ \E q \in Processes : pc[q] \in Loading)
    /\ UNCHANGED <<file, key>>

\* path.exists()
Exists(p) ==
    /\ Steps(p, "idle", IF file = "absent" THEN "generate" ELSE "read")
    /\ overlap' = (overlap \/ \E q \in Processes : pc[q] \in Loading)
    /\ UNCHANGED <<file, key>>

\* A mutant of ReadShort: the length is not looked at.
ReadShort_Taken(p) ==
    /\ file = "short"
    /\ Steps(p, "read", "runs")
    /\ key' = [key EXCEPT ![p] = file]
    /\ UNCHANGED <<file, overlap>>

\* std::fs::read of what is not 32 bytes: it is taken for no key.
ReadShort(p) ==
    /\ file = "short"
    /\ Steps(p, "read", "generate")
    /\ UNCHANGED <<file, key, overlap>>

\* std::fs::read of a key.
ReadKey(p) ==
    /\ file \in Keys
    /\ Steps(p, "read", "runs")
    /\ key' = [key EXCEPT ![p] = file]
    /\ UNCHANGED <<file, overlap>>

\* The first half of std::fs::write: the file is created, or emptied.
Create(p) ==
    /\ Steps(p, "generate", "write")
    /\ file' = "short"
    /\ UNCHANGED <<key, overlap>>

\* A mutant of Write: nothing is written.
Write_Nothing(p) ==
    /\ Steps(p, "write", "runs")
    /\ key' = [key EXCEPT ![p] = p]
    /\ UNCHANGED <<file, overlap>>

\* The second half: the 32 bytes, over whatever another process wrote since.
Write(p) ==
    /\ Steps(p, "write", "runs")
    /\ file' = p
    /\ key' = [key EXCEPT ![p] = p]
    /\ UNCHANGED overlap

\* The process ends, by itself or by a crash at any point; its key stays named
\* in key[p], as its messages keep its name.
Ends(p) ==
    /\ pc[p] \notin {"idle", "ended"}
    /\ pc' = [pc EXCEPT ![p] = "ended"]
    /\ UNCHANGED <<file, key, overlap>>

Next == \E p \in Processes :
    \/ Exists(p)
    \/ ReadShort(p)
    \/ ReadKey(p)
    \/ Create(p)
    \/ Write(p)
    \/ Ends(p)

Spec == Init /\ [][Next]_vars

-----------------------------------------------------------------------------
(* Properties *)

\* The device has the identity k: it is in the file, and nobody is about to
\* write another.
Settled(k) ==
    /\ file = k /\ k \in Keys
    /\ \A p \in Processes : pc[p] \notin {"generate", "write"}

\* The guard path.exists() is enough to keep an identity (crypto.rs 41): once
\* it is settled no start, overlapping or not, and no crash replaces it, and
\* whoever starts runs with it.
KeyKept ==
    [][\A k \in Keys : Settled(k) =>
        /\ Settled(k)'
        /\ \A p \in Processes : key'[p] # key[p] => key'[p] = k]_vars

\* If no two starts overlap, all processes there ever are run with one key,
\* whatever crashes there were (test_keypair_persistence, crypto.rs 191, for
\* two calls in a row).
OneIdentity ==
    ~overlap =>
        \A p, q \in Processes : key[p] # NoKey /\ key[q] # NoKey => key[p] = key[q]
=============================================================================
