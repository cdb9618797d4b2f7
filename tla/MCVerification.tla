---------------------------- MODULE MCVerification ----------------------------
(***************************************************************************)
(* Verification on a switch and a port of three attributes each.           *)
(*                                                                         *)
(* On the switch, 2 depends on 1 alone, and 3 carries both predicates: all *)
(* of 1, a null entry, 2 and 1 again, and any of 2 and 1. On the port, 1   *)
(* cannot be asked for or compared, 2 is plain, and 3 depends on any of 2  *)
(* and 1, with a valid-only list of null entries only.                     *)
(***************************************************************************)
EXTENDS Verification

No         == [on |-> FALSE, refs |-> <<>>, any |-> FALSE]
AllOf(ids) == [on |-> TRUE, refs |-> ids, any |-> FALSE]
AnyOf(ids) == [on |-> TRUE, refs |-> ids, any |-> TRUE]

Plain        == [fetch |-> TRUE, comparable |-> TRUE, predicates |-> <<No, No>>]
Opaque       == [fetch |-> FALSE, comparable |-> FALSE, predicates |-> <<No, No>>]
Given(c, v)  == [fetch |-> TRUE, comparable |-> TRUE, predicates |-> <<c, v>>]

SwitchThenPort == <<"switch", "port">>

Table ==
  [o \in {"switch", "port"} |->
     IF o = "switch"
     THEN <<Plain,
            Given(No, AllOf(<<1>>)),
            Given(AllOf(<<1, Null, 2, 1>>), AnyOf(<<2, 1>>))>>
     ELSE <<Opaque,
            Plain,
            Given(AnyOf(<<2, 1>>), AllOf(<<Null>>))>>]

===============================================================================
