------------------------------ MODULE MCAuction ------------------------------
(* Instances of Auction. *)
EXTENDS Auction
=============================================================================
