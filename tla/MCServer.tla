------------------------------ MODULE MCServer ------------------------------
(* Instances of Server for TLC. *)
EXTENDS Server, TLC

(* A type that register_services() installs no handler for. *)
Unknown == 7

OrdersAndUnknown == {kBuyOrder, Unknown}
Orders           == {kBuyOrder}
Sells            == {kSellOrder}
Unregistered     == {Unknown}

(* Connections are interchangeable: no definition names one. *)
Symmetry == Permutations(Conns)

=============================================================================
