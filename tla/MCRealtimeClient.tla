-------------------------- MODULE MCRealtimeClient --------------------------
(***************************************************************************)
(* Two boards with overlapping lists, the second of which names a model    *)
(* twice ("SalesOrder" and "salesorder"), and a subscriber without models. *)
(***************************************************************************)
EXTENDS RealtimeHistory, TLC

CONSTANTS orders, items

MCModels == {orders, items}
TwoBoards == {"table", "board"}
WithListener == {"table", "badge"}

Lists == [table |-> (orders :> 1 @@ items :> 0),
          board |-> (orders :> 2 @@ items :> 1),
          badge |-> (orders :> 0 @@ items :> 0)]
MCWatches == [b \in Boards |-> Lists[b]]
=============================================================================
