------------------------------ MODULE MCStores ------------------------------
(***************************************************************************)
(* Instance of Stores for TLC.                                             *)
(***************************************************************************)
EXTENDS Stores, TLC

CONSTANTS ann, bob, cyd

TwoKeys == 1 .. 2
TwoPayloads == 1 .. 2
ClientSymmetry == Permutations(Clients)
=============================================================================
