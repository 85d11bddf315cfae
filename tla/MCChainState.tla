--------------------------- MODULE MCChainState ---------------------------
(* Two branches from the root: a2 on a1, and b3 on b2 on b1.  A transaction t
   is in both, at different heights, and spent again in the block a2 itself. *)
EXTENDS ChainState

Branches == {"g", "a1", "a2", "b1", "b2", "b3"}
BranchParent == [b \in Branches \ {"g"} |->
    CASE b \in {"a1", "b1"} -> "g" [] b = "a2" -> "a1" [] b = "b2" -> "b1" [] b = "b3" -> "b2"]
OneEach == [b \in Branches |-> 1]
Places1 == [b \in Branches |->
    CASE b = "g" -> 0 [] b = "a1" -> 1 [] b = "b1" -> 2 [] b = "a2" -> 4 [] b = "b2" -> 3
      [] b = "b3" -> 5]

Ids1 == {"z", "t", "w"} \cup Branches
Coinbase(b) == [id |-> b, vin |-> {}]
BranchTxs == [b \in Branches |->
    CASE b = "a2" -> <<Coinbase(b), [id |-> "t", vin |-> {"z"}], [id |-> "w", vin |-> {"t"}]>>
      [] b = "b1" -> <<Coinbase(b), [id |-> "t", vin |-> {"z"}]>>
      [] OTHER -> <<Coinbase(b)>>]
OneCoin == [k \in Ids1 |-> IF k = "z" THEN 0 ELSE Absent]
Heights == 0 .. 3
=============================================================================
