---------------------------- MODULE MCShipmentStock ----------------------------
(* Two orders pinned to different warehouses, two products in two warehouses. *)
EXTENDS ShipmentStock

BothOrders == {1, 2}
TwoProducts == {1, 2}
TwoWarehouses == {1, 2}
HomeOf == [o \in BothOrders |-> o]
TwoTxs == {1, 2}
FewItems == {<<1, 1>>, <<2, 1>>, <<0, 2>>}
StartItems == {<< <<1, 1>>, <<1, 1>> >>, << <<2, 1>>, <<1, 1>> >>}
(* Only the first warehouse, or both: most of them disagree with some of the  *)
(* items, as an older release left them, the last one beyond repair.          *)
Past(p1w1, p1w2, p2w1, p2w2) ==
    [c \in TwoProducts \X TwoWarehouses |-> << <<p1w1, p1w2>>, <<p2w1, p2w2>> >>[c[1]][c[2]]]
SomePasts == {Past(1, 0, 1, 0), Past(1, 1, 0, 1), Past(1, 2, 1, 1)}
AnyLines == {<<1, 2>>, <<2, 1>>}
=============================================================================
