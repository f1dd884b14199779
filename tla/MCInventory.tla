----------------------------- MODULE MCInventory -----------------------------
(* Small instances of Inventory for TLC; MCInventory.cfg gives the constants. *)
EXTENDS Inventory, TLC
=============================================================================
