--------------------------- MODULE AggregatorData ---------------------------
(***************************************************************************)
(* The header store of the block aggregator                                *)
(* (modules/block-aggregator/data/data.go).  Every method of the store     *)
(* runs under one mutex, so each is one atomic step or one state function. *)
(***************************************************************************)
EXTENDS Integers, Sequences

CONSTANTS
    Headers,    \* the headers AddSlotHeader may be given
    Horizon,    \* the 64 slots ("2 epochs") of history that are kept
    Modulus     \* uint64 arithmetic is modulo this number, 2^64

ASSUME WidthAssumption ==
    Horizon \in Nat /\ Modulus \in Nat /\ Horizon < Modulus

(***************************************************************************)
(* A header is a record with at least the fields slot, value and           *)
(* blockHash; value stands for the wei of the bid.                         *)
(***************************************************************************)
ASSUME HeaderAssumption ==
    \A h \in Headers : h.slot \in 0 .. Modulus - 1 /\ h.value \in Nat

VARIABLES
    lastSlot,               \* lastSlot: the slot of the last accepted header
    selectedSlotHeaders,    \* slot -> its best headers, best first
    added                   \* history: every header AddSlotHeader accepted

storeVars == <<lastSlot, selectedSlotHeaders, added>>

StoreInit ==
    /\ lastSlot = 0
    /\ selectedSlotHeaders = [s \in {} |-> <<>>]
    /\ added = {}

-----------------------------------------------------------------------------
(***************************************************************************)
(* a - b on uint64: it wraps around below zero.                            *)
(***************************************************************************)
Minus(a, b) == IF a >= b THEN a - b ELSE a + Modulus - b

HeadersOf(s) ==
    IF s \in DOMAIN selectedSlotHeaders THEN selectedSlotHeaders[s] ELSE <<>>

\* slip: ">=" in the comparison, the newest header overtakes its equals
PositionOvertaking(hs, v) ==
    CHOOSE k \in 0 .. Len(hs) :
        /\ \A i \in 1 .. k : hs[i].value > v
        /\ \A i \in (k + 1) .. Len(hs) : hs[i].value <= v

(***************************************************************************)
(* sort.Slice with a strict ">" moves the appended header in front of the  *)
(* headers that are worth less and leaves it behind its equals (the slice  *)
(* is sorted and holds at most four headers, where sort.Slice is an        *)
(* insertion sort and thereby stable).                                     *)
(***************************************************************************)
Position(hs, v) ==
    CHOOSE k \in 0 .. Len(hs) :
        /\ \A i \in 1 .. k : hs[i].value >= v
        /\ \A i \in (k + 1) .. Len(hs) : hs[i].value < v

\* slip: a fourth header is kept
RankedKeepingFour(hs, h) ==
    LET k == Position(hs, h.value)
        n == IF Len(hs) < 4 THEN Len(hs) + 1 ELSE 4
    IN  [i \in 1 .. n |-> IF i <= k THEN hs[i]
                          ELSE IF i = k + 1 THEN h ELSE hs[i - 1]]

\* append, sort by value, keep the first three
Ranked(hs, h) ==
    LET k == Position(hs, h.value)
        n == IF Len(hs) < 3 THEN Len(hs) + 1 ELSE 3
    IN  [i \in 1 .. n |-> IF i <= k THEN hs[i]
                          ELSE IF i = k + 1 THEN h ELSE hs[i - 1]]

(***************************************************************************)
(* AddSlotHeader, when it returns an error, and when it returns nil.       *)
(***************************************************************************)
\* slip: a second header for the newest slot is too old
TooOldOrEqual(h) == h.slot <= lastSlot

TooOld(h) == h.slot < lastSlot

\* slip: a slot exactly two epochs old is deleted
ExpiredTooSoon(s, last) == s <= Minus(last, Horizon)

\* the condition of the clean-up loop
Expired(s, last) == s < Minus(last, Horizon)

AddSlotHeader(h) ==
    /\ ~ TooOld(h)
    /\ lastSlot' = h.slot
    /\ selectedSlotHeaders' =
          [s \in {t \in DOMAIN selectedSlotHeaders \cup {h.slot} :
                                                    ~ Expired(t, h.slot)} |->
              IF s = h.slot THEN Ranked(HeadersOf(s), h)
                            ELSE selectedSlotHeaders[s]]
    /\ added' = added \cup {h}

(***************************************************************************)
(* GetSlotHeaderByHash: the map is walked in an unspecified order, so any  *)
(* stored header with the hash may be the answer; none is an error.        *)
(***************************************************************************)
Stored(s) == {selectedSlotHeaders[s][i] : i \in DOMAIN selectedSlotHeaders[s]}

GetSlotHeaderByHash(hash) ==
    UNION {{h \in Stored(s) : h.blockHash = hash} :
                                        s \in DOMAIN selectedSlotHeaders}

\* GetSelectedSlotHeaders: an error when the slot is not in the map
HasSelected(slot) == slot \in DOMAIN selectedSlotHeaders

GetSelectedSlotHeaders(slot) == selectedSlotHeaders[slot][1]

-----------------------------------------------------------------------------
StoreNext == \E h \in Headers : AddSlotHeader(h)

StoreSpec == StoreInit /\ [][StoreNext]_storeVars

-----------------------------------------------------------------------------
(***************************************************************************)
(* Type: a slot that is in the map has between one and three headers, all  *)
(* of that slot and in order of value, and none is of a later slot than    *)
(* lastSlot.  GetSelectedSlotHeaders reads element 0 without looking.      *)
(***************************************************************************)
StoreTypeOK ==
    /\ lastSlot \in 0 .. Modulus - 1
    /\ added \subseteq Headers
    /\ DOMAIN selectedSlotHeaders \subseteq 0 .. lastSlot
    /\ \A s \in DOMAIN selectedSlotHeaders :
          LET hs == selectedSlotHeaders[s] IN
          /\ hs \in Seq(added)
          /\ Len(hs) \in 1 .. 3
          /\ \A i \in 1 .. Len(hs) : hs[i].slot = s
          /\ \A i, j \in 1 .. Len(hs) : i <= j => hs[i].value >= hs[j].value

(***************************************************************************)
(* BestThreeKept: a header accepted by AddSlotHeader for a slot of the     *)
(* last two epochs is still stored, or three headers that are worth at     *)
(* least as much are stored in its place.  Neither the sort-and-truncate   *)
(* nor the clean-up loop drops anything else - once slots have reached the *)
(* Horizon: below it the subtraction of the clean-up loop wraps around and *)
(* everything is deleted.                                                  *)
(***************************************************************************)
BestThreeKept ==
    \A h \in added :
        h.slot >= Horizon /\ h.slot + Horizon >= lastSlot =>
            /\ h.slot \in DOMAIN selectedSlotHeaders
            /\ \/ h \in Stored(h.slot)
               \/ /\ Len(selectedSlotHeaders[h.slot]) = 3
                  /\ \A i \in 1 .. 3 :
                        selectedSlotHeaders[h.slot][i].value >= h.value

(***************************************************************************)
(* SelectionOnlyImproves: the header that GetSelectedSlotHeaders hands out *)
(* for a slot is replaced only by one that is worth strictly more: of      *)
(* equal bids the first to arrive stays selected.                          *)
(***************************************************************************)
SelectionOnlyImproves ==
    [][ \A s \in DOMAIN selectedSlotHeaders \cap DOMAIN selectedSlotHeaders' :
            LET old == selectedSlotHeaders[s][1]
                new == selectedSlotHeaders'[s][1]
            IN  new # old => new.value > old.value ]_storeVars
=============================================================================
