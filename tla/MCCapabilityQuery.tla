--------------------------- MODULE MCCapabilityQuery ---------------------------
(***************************************************************************)
(* CapabilityQuery on a small instance: first offers of 2 and 5, a limit   *)
(* of 40 and five attempts, so that the loop can run out of attempts (2,   *)
(* 4, 8, 16, 32), out of room (5, 10, 20, 40), or meet a reported size on  *)
(* either side of every one of these.                                      *)
(***************************************************************************)
EXTENDS CapabilityQuery

SizesAtTheEdges == {0, 2, 3, 6, 9, 16, 21, 32, 33, 40, 41}
FewAndMany      == {0, 4}

===============================================================================
