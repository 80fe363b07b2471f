-------------------------- MODULE MCAggregatorData --------------------------
(***************************************************************************)
(* Small instances of the header store.  Every slot gets four bids, two of *)
(* them of equal value, so that one is always dropped and ties occur.      *)
(***************************************************************************)
EXTENDS AggregatorData

CONSTANT Slots  \* the slots that are asked for

\* two modules may both offer block "b", at the same value
Bids == {[blockHash |-> "a", value |-> 1, moduleName |-> "relay"],
         [blockHash |-> "b", value |-> 2, moduleName |-> "relay"],
         [blockHash |-> "b", value |-> 2, moduleName |-> "proxy"],
         [blockHash |-> "c", value |-> 3, moduleName |-> "proxy"]}

MCHeaders == {[slot |-> s, blockHash |-> b.blockHash, value |-> b.value,
               moduleName |-> b.moduleName] : s \in Slots, b \in Bids}
=============================================================================
