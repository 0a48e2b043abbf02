--------------------------- MODULE MCAddressBook ---------------------------
\* c is a relay, on the same network as a; b was invited by a.
EXTENDS AddressBook
CONSTANTS a, b, c
MCInitial == [d \in Devices |-> IF d = b THEN {<<a, a>>} ELSE {}]
MCReservable == [d \in Devices |-> IF d = b THEN {<<c, c>>} ELSE {}]
=============================================================================
