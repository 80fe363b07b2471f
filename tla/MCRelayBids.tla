---------------------------- MODULE MCRelayBids -----------------------------
(***************************************************************************)
(* Two getHeader requests for slots two epochs apart, and bids that tie in *)
(* value, that name another parent block, that are too small, that carry   *)
(* the key of another relay.                                               *)
(***************************************************************************)
EXTENDS RelayBids

CONSTANTS q1, q2, r1, r2

Bid(hash, value) == [blockHash |-> hash, value |-> value, own |-> TRUE,
                     parentHash |-> "p", domain |-> "builder"]

MCOffers == {Bid(1, 5), Bid(2, 5), Bid(3, 4), Bid(4, 1),
             [Bid(5, 9) EXCEPT !.parentHash = "other"],
             [Bid(6, 9) EXCEPT !.own = FALSE]}

LateSlots == [q \in Headers |-> [slot |-> IF q = q1 THEN 3 ELSE 5,
                                 parentHash |-> "p"]]
=============================================================================
