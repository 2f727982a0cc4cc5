---------------------------- MODULE MCUnitOfWork ----------------------------
(***************************************************************************)
(* UnitOfWork for TLC: two jobs of a scheduler batch, one of which has a   *)
(* further block (the store after the lookup).                             *)
(***************************************************************************)
EXTENDS UnitOfWork, TLC

CONSTANTS t1, t2

TwoAndOne == (t1 :> 2) @@ (t2 :> 1)

OneEach == (t1 :> 1) @@ (t2 :> 1)
=============================================================================
