------------------------- MODULE IdentityFileProofs -------------------------
(***************************************************************************)
(* Proofs about IdentityFile, for any number of processes.                 *)
(***************************************************************************)
EXTENDS IdentityFile, TLAPS

-----------------------------------------------------------------------------
(* Types *)

LEMMA TypeInit == Init => TypeOK
BY DEF Init, TypeOK, Contents, Loading

LEMMA TypeNext == TypeOK /\ [Next]_vars => TypeOK'
<1> SUFFICES ASSUME TypeOK, [Next]_vars PROVE TypeOK'
    OBVIOUS
<1> USE DEF TypeOK, Contents, Loading, Steps
<1>1. ASSUME NEW p \in Processes, Exists(p) PROVE TypeOK'
    BY <1>1 DEF Exists
<1>2. ASSUME NEW p \in Processes, ReadShort(p) PROVE TypeOK'
    BY <1>2 DEF ReadShort
<1>3. ASSUME NEW p \in Processes, ReadKey(p) PROVE TypeOK'
    BY <1>3 DEF ReadKey
<1>4. ASSUME NEW p \in Processes, Create(p) PROVE TypeOK'
    BY <1>4 DEF Create
<1>5. ASSUME NEW p \in Processes, Write(p) PROVE TypeOK'
    BY <1>5 DEF Write, Keys
<1>6. ASSUME NEW p \in Processes, Ends(p) PROVE TypeOK'
    BY <1>6 DEF Ends
<1>7. CASE UNCHANGED vars
    BY <1>7 DEF vars
<1> QED
    BY <1>1, <1>2, <1>3, <1>4, <1>5, <1>6, <1>7 DEF Next

\* The file, the steps of every process and the key it runs with keep their
\* types.
THEOREM TypeCorrect == Spec => []TypeOK
BY TypeInit, TypeNext, PTL DEF Spec

-----------------------------------------------------------------------------
(* One identity *)

\* Without an overlap one process at most is loading, a key that anybody has
\* run with is the one in the file, and nobody generates a key if there is one.
OneLoads == \A p, q \in Processes : pc[p] \in Loading /\ pc[q] \in Loading => p = q
InFile == \A p \in Processes : key[p] # NoKey => file = key[p]
FirstGenerates ==
    \A p, q \in Processes : pc[p] \in {"generate", "write"} => key[q] = NoKey
IInv == TypeOK /\ (~overlap => OneLoads /\ InFile /\ FirstGenerates)

LEMMA IInvInit == Init => IInv
BY TypeInit DEF Init, IInv, OneLoads, InFile, FirstGenerates, Loading

LEMMA IInvExists ==
    ASSUME IInv, NEW p \in Processes, Exists(p), ~overlap'
    PROVE  OneLoads' /\ InFile' /\ FirstGenerates'
<1>1. ~overlap /\ OneLoads /\ InFile /\ FirstGenerates
    BY DEF IInv, Exists
<1>2. \A q \in Processes : pc[q] \notin Loading
    BY DEF Exists
<1>3. pc' = [pc EXCEPT ![p] = IF file = "absent" THEN "generate" ELSE "read"]
    BY DEF Exists, Steps
<1>4. UNCHANGED <<file, key>> /\ pc \in [Processes -> Loading \cup {"idle", "runs", "ended"}]
    BY DEF Exists, IInv, TypeOK
<1>5. OneLoads'
    BY <1>2, <1>3, <1>4 DEF OneLoads
<1>6. InFile'
    BY <1>1, <1>4 DEF InFile
<1>7. FirstGenerates'
    <2> SUFFICES ASSUME NEW r \in Processes, NEW q \in Processes,
                        pc'[r] \in {"generate", "write"}
                 PROVE  key'[q] = NoKey
        BY DEF FirstGenerates
    <2>1. r = p /\ file = "absent"
        BY <1>2, <1>3, <1>4 DEF Loading
    <2>2. key[q] # NoKey => key[q] \in Keys /\ file = key[q]
        BY <1>1 DEF InFile, IInv, TypeOK
    <2> QED
        BY <1>4, <2>1, <2>2, KeysAssumption
<1> QED
    BY <1>5, <1>6, <1>7

LEMMA IInvNext == IInv /\ [Next]_vars => IInv'
<1> SUFFICES ASSUME IInv, [Next]_vars PROVE IInv'
    OBVIOUS
<1>1. TypeOK /\ TypeOK'
    BY TypeNext DEF IInv
<1> SUFFICES ASSUME ~overlap' PROVE OneLoads' /\ InFile' /\ FirstGenerates'
    BY <1>1 DEF IInv
<1>2. ASSUME NEW p \in Processes, Exists(p)
      PROVE  OneLoads' /\ InFile' /\ FirstGenerates'
    BY <1>2, IInvExists
<1> DEFINE Holds == OneLoads /\ InFile /\ FirstGenerates
<1>3. ASSUME NEW p \in Processes, ReadShort(p) PROVE Holds'
    <2>1. Holds /\ file \notin Keys
        BY <1>3, KeysAssumption DEF ReadShort, IInv
    <2>2. \A q \in Processes : key[q] = NoKey
        BY <1>1, <2>1 DEF InFile, TypeOK
    <2> QED
        BY <1>1, <1>3, <2>1, <2>2
        DEF ReadShort, Steps, OneLoads, InFile, FirstGenerates, TypeOK, Loading
<1>4. ASSUME NEW p \in Processes, ReadKey(p) PROVE Holds'
    <2>1. Holds
        BY <1>4 DEF ReadKey, IInv
    <2>2. \A q \in Processes : pc[q] \notin {"generate", "write"}
        BY <1>4, <2>1 DEF OneLoads, ReadKey, Steps, Loading
    <2> QED
        BY <1>1, <1>4, <2>1, <2>2
        DEF ReadKey, Steps, OneLoads, InFile, FirstGenerates, TypeOK, Loading
<1>5. ASSUME NEW p \in Processes, Create(p) PROVE Holds'
    <2>1. Holds
        BY <1>5 DEF Create, IInv
    <2> QED
        BY <1>1, <1>5, <2>1
        DEF Create, Steps, OneLoads, InFile, FirstGenerates, TypeOK, Loading
<1>6. ASSUME NEW p \in Processes, Write(p) PROVE Holds'
    <2>1. Holds
        BY <1>6 DEF Write, IInv
    <2>2. \A q \in Processes : q # p => pc[q] \notin Loading
        BY <1>6, <2>1 DEF OneLoads, Write, Steps, Loading
    <2> QED
        BY <1>1, <1>6, <2>1, <2>2
        DEF Write, Steps, OneLoads, InFile, FirstGenerates, TypeOK, Loading
<1>7. ASSUME NEW p \in Processes, Ends(p) PROVE Holds'
    <2>1. Holds
        BY <1>7 DEF Ends, IInv
    <2> QED
        BY <1>1, <1>7, <2>1
        DEF Ends, OneLoads, InFile, FirstGenerates, TypeOK, Loading
<1>8. CASE UNCHANGED vars
    BY <1>8 DEF IInv, vars, OneLoads, InFile, FirstGenerates
<1> QED
    BY <1>2, <1>3, <1>4, <1>5, <1>6, <1>7, <1>8 DEF Next

LEMMA IInvOne == IInv => OneIdentity
BY DEF IInv, OneIdentity, InFile

\* Starts that do not overlap, however many, and with crashes at any point, all
\* run with one key.
THEOREM OneKey == Spec => []OneIdentity
BY IInvInit, IInvNext, IInvOne, PTL DEF Spec

-----------------------------------------------------------------------------
(* The identity is kept *)

LEMMA SettledStep ==
    ASSUME TypeOK, [Next]_vars, NEW k \in Keys, Settled(k)
    PROVE  /\ Settled(k)'
           /\ \A p \in Processes : key'[p] # key[p] => key'[p] = k
<1>1. file = k /\ file # "absent" /\ file # "short"
    BY KeysAssumption DEF Settled
<1>2. ASSUME NEW p \in Processes, Exists(p)
      PROVE  Settled(k)' /\ UNCHANGED key
    BY <1>1, <1>2 DEF Settled, Exists, Steps, TypeOK
<1>3. ASSUME NEW p \in Processes, ReadKey(p)
      PROVE  Settled(k)' /\ \A q \in Processes : key'[q] # key[q] => key'[q] = k
    BY <1>1, <1>3 DEF Settled, ReadKey, Steps, TypeOK
<1>4. ASSUME NEW p \in Processes, ReadShort(p) \/ Create(p) \/ Write(p)
      PROVE  FALSE
    BY <1>1, <1>4 DEF Settled, ReadShort, Create, Write, Steps
<1>5. ASSUME NEW p \in Processes, Ends(p)
      PROVE  Settled(k)' /\ UNCHANGED key
    BY <1>5 DEF Settled, Ends, TypeOK
<1>6. CASE UNCHANGED vars
    BY <1>6 DEF Settled, vars
<1> QED
    BY <1>2, <1>3, <1>4, <1>5, <1>6 DEF Next

\* An identity that is in the file while nobody is about to write is never
\* replaced, and who starts runs with it, also when starts overlap.
THEOREM IdentityKept == Spec => KeyKept
<1>1. TypeOK /\ [Next]_vars
        => [\A k \in Keys : Settled(k) =>
               /\ Settled(k)'
               /\ \A p \in Processes : key'[p] # key[p] => key'[p] = k]_vars
    BY SettledStep
<1> QED
    BY <1>1, TypeCorrect, PTL DEF Spec, KeyKept
=============================================================================
