------------------------- MODULE MCBlockAggregator --------------------------
(***************************************************************************)
(* Small instances of the block aggregator: two sources, three bids, two   *)
(* of them worth the same, and one that cannot be read.                    *)
(***************************************************************************)
EXTENDS BlockAggregator

CONSTANTS s1, s2, again, q1, q2

\* one more call connects s1
MCName == [c \in Connects |-> IF c = again THEN s1 ELSE c]

Bid(hash, value) == [blockHash |-> hash, value |-> value]

Bids == {Bid(1, 1), Bid(2, 2), Bid(3, 2)}

OneOrNone == {<<>>} \cup {<<b>> : b \in Bids}

TwoBids == {<<>>, <<Bid(1, 1)>>, <<Bid(2, 2)>>, <<Unreadable>>}

UpToTwo == OneOrNone \cup {<<Bid(1, 1), Bid(2, 2)>>}

MCRequest == [q \in HeaderRequests |->
    [slot |-> IF q = q1 THEN 3 ELSE 5, parentHash |-> "p"]]

OneSlot == [q \in HeaderRequests |-> [slot |-> 3, parentHash |-> q]]

MCHeaders == {SlotHeader(q, m, b) :
                q \in HeaderRequests, m \in Sources, b \in Bids}
=============================================================================
