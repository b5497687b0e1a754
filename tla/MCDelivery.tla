----------------------------- MODULE MCDelivery -----------------------------
(***************************************************************************)
(* Instances of Delivery for TLC.                                          *)
(***************************************************************************)
EXTENDS Delivery, TLC

Alike == Permutations(Workers) \cup Permutations(Hands) \cup Permutations(Relays)
=============================================================================
