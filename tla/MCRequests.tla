------------------------------ MODULE MCRequests ------------------------------
(***************************************************************************)
(* Small instances of the modules about requests, for TLC.  They have no   *)
(* variable in common, so a behaviour of one of them shows all there is to *)
(* see of it: `part` is the module whose requests are sent, and the others *)
(* stay as they are.                                                       *)
(***************************************************************************)
EXTENDS ProductCatalog, GrpcClient, PaymentApi, Categories, TLC

CONSTANTS r1, r2, gu, gp, c1, c2

\* The calls of a create_order with two items.
MCMethodOf ==
    [c \in Calls |-> CASE c = gu -> "get_user"
                       [] c = gp -> "get_product"
                       [] OTHER -> "check_and_reserve_inventory"]

Symmetry == Permutations(HttpRequests)

VARIABLE part

vars == <<part, catalogVars, clientVars, apiVars, categoryVars>>

Init ==
    /\ part \in {"catalog", "client", "api", "categories"}
    /\ CatalogInit /\ ClientInit /\ ApiInit /\ CategoryInit
    /\ part # "catalog" => \A e \in Editors : edit[e].product = <<c1, 0>>

Next ==
    /\ UNCHANGED part
    /\ \/ part = "catalog"    /\ CatalogNext  /\ UNCHANGED <<clientVars, apiVars, categoryVars>>
       \/ part = "client"     /\ ClientNext   /\ UNCHANGED <<catalogVars, apiVars, categoryVars>>
       \/ part = "api"        /\ ApiNext      /\ UNCHANGED <<catalogVars, clientVars, categoryVars>>
       \/ part = "categories" /\ CategoryNext /\ UNCHANGED <<catalogVars, clientVars, apiVars>>

Spec == Init /\ [][Next]_vars

\* Every module's variables are of their types: product_service.py,
\* product_client.py, payment_service.py and category_service.py.
RequestsTypeOK == CatalogTypeOK /\ ClientTypeOK /\ ApiTypeOK /\ CategoriesTypeOK
=============================================================================
