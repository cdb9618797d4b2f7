--------------------------- MODULE MCFetchAttribute ---------------------------
(***************************************************************************)
(* FetchAttribute on a small instance: with a first buffer of 2 and a      *)
(* limit of 40 the loop can double four times (2 .. 32), can be told to    *)
(* take a size on either side of every doubling and of half the limit, and *)
(* can meet a size one above the limit.                                    *)
(***************************************************************************)
EXTENDS FetchAttribute

SizesAtTheEdges == {0, 2, 3, 9, 16, 21, 32, 33, 40, 41}

===============================================================================
