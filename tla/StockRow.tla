------------------------------- MODULE StockRow -------------------------------
(***************************************************************************)
(* The row of the MySQL table `products` that the inventory works on, and  *)
(* the three operations ProductService performs on it.  Pure operators,    *)
(* shared by the lock-level model (Inventory), by what it implements       *)
(* (AtomicInventory) and by the order saga, which uses the latter.         *)
(*                                                                         *)
(* A row is [stock, reserved]: reserved units are still part of stock      *)
(* until the sale is confirmed.                                            *)
(***************************************************************************)
EXTENDS Integers

Row == [stock : Int, reserved : Int]

Ops == {"reserve", "release", "confirm"}

Available(r) == r.stock - r.reserved

\* Mutant of Permitted: a reservation looks at the stock and forgets what is
\* reserved already.
PermittedIgnoringReserved(op, r, q) ==
    CASE op = "reserve" -> r.stock >= q
      [] op = "release" -> r.reserved >= q
      [] op = "confirm" -> r.reserved >= q /\ r.stock >= q

\* What the `action` closure of each operation tests before it changes the
\* ORM object; FALSE makes _manage_inventory roll back and answer False.
Permitted(op, r, q) ==
    CASE op = "reserve" -> Available(r) >= q
      [] op = "release" -> r.reserved >= q
      [] op = "confirm" -> r.reserved >= q /\ r.stock >= q

\* What it assigns to the ORM object when the test holds.
Effect(op, r, q) ==
    CASE op = "reserve" -> [r EXCEPT !.reserved = @ + q]
      [] op = "release" -> [r EXCEPT !.reserved = @ - q]
      [] op = "confirm" -> [stock |-> r.stock - q, reserved |-> r.reserved - q]

\* A row no reservation has oversold.
Sound(r) == 0 <= r.reserved /\ r.reserved <= r.stock
=============================================================================
