---------------------------- MODULE MCFrontEnds ----------------------------
EXTENDS FrontEnds, TLC
RoomSymmetry == Permutations(Rooms)
=============================================================================
