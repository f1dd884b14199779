----------------------------- MODULE MCGrpcClient -----------------------------
(* Small instances of GrpcClient for TLC. *)
EXTENDS GrpcClient

CONSTANTS r1, r2, r3, u, p

\* The calls of a create_order with several items.
MCMethodOf ==
    [c \in Calls |-> CASE c = u -> "get_user"
                       [] c = p -> "get_product"
                       [] OTHER -> "check_and_reserve_inventory"]
=============================================================================
