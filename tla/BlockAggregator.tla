--------------------------- MODULE BlockAggregator --------------------------
(***************************************************************************)
(* The block aggregator (modules/block-aggregator/service.go, backend.go): *)
(* modules connect as block sources; a getHeader asks every source in a    *)
(* goroutine of its own, collects the headers over a channel and adds them *)
(* to the header store; a getPayload goes to the source of the header.     *)
(* The lists of sources and exclusions are those of BlockSources; readers  *)
(* take no lock.  Calls to other modules are two steps here, see Rpc.      *)
(***************************************************************************)
EXTENDS AggregatorData, BlockSources

CONSTANTS
    Changing,       \* do sources come and go while requests are served?
    HeaderRequests,
    Request,        \* getHeader request -> [slot, parentHash]
    Answers,        \* the sequences of bids a source may answer with
    Unreadable,     \* a bid without a value or a block hash
    SignedBlocks    \* the block hashes getPayload may be called with

VARIABLES
    getHeader,      \* the getHeader requests
    got,            \* history: getHeader request -> what sources gave it
    getPayload      \* the getPayload request

vars == <<storeVars, listVars, getHeader, got, getPayload>>

AggregatorInit ==
    /\ StoreInit
    /\ ListInit
    /\ getHeader = [q \in HeaderRequests |->
          [state |-> "idle", capacity |-> 0, asked |-> {},
           outbox |-> [m \in Sources |-> <<>>], channel |-> <<>>,
           result |-> {}]]
    /\ got = [q \in HeaderRequests |-> {}]
    /\ getPayload = [state |-> "idle", hash |-> 0, module |-> {}]

Settled == Changing \/ \A c \in Connects : connecting[c] = "returned"

\* the sleep until the deadline is over: make the channel
GetHeader(q) ==
    /\ Settled
    /\ getHeader[q].state = "idle"
    /\ getHeader' = [getHeader EXCEPT
          ![q].state = "notified",
          ![q].capacity = Len(ConnectedBLockSources)]
    /\ UNCHANGED <<storeVars, listVars, got, getPayload>>

\* one goroutine per source; the list is read a second time
AskSources(q) ==
    /\ getHeader[q].state = "notified"
    /\ getHeader' = [getHeader EXCEPT
          ![q].state = "asked",
          ![q].asked = ToSet(ConnectedBLockSources)]
    /\ UNCHANGED <<storeVars, listVars, got, getPayload>>

\* a bid as processNewBid stores it, if it can read it
SlotHeader(q, m, bid) ==
    IF bid = Unreadable THEN Unreadable
    ELSE [ModuleName |-> m, slot |-> Request[q].slot, value |-> bid.value,
          blockHash |-> bid.blockHash, parentHash |-> Request[q].parentHash]

\* a slot is a uint64, and an answer is a sequence of bids
ASSUME AggregatorAssumption ==
    /\ Unreadable \notin Headers
    /\ \A q \in HeaderRequests : Request[q].slot \in 0 .. Modulus - 1
    /\ \A bids \in Answers :
          /\ Len(bids) \in Nat /\ DOMAIN bids = 1 .. Len(bids)
          /\ \A q \in HeaderRequests, m \in Sources :
                \A i \in DOMAIN bids :
                    SlotHeader(q, m, bids[i]) \in Headers \cup {Unreadable}

\* slip: the goroutine sees the loop variable of the last iteration
SourceAnswersAsLast(q, m) ==
    /\ m \in getHeader[q].asked
    /\ \E bids \in Answers :
        LET last == IF ConnectedBLockSources = <<>> THEN m
                    ELSE Last(ConnectedBLockSources)
            hs == [i \in DOMAIN bids |-> SlotHeader(q, last, bids[i])]
        IN  /\ getHeader' = [getHeader EXCEPT ![q].asked = @ \ {m},
                                              ![q].outbox[m] = hs]
            /\ got' = [got EXCEPT ![q] = @ \cup
                {SlotHeader(q, m, bids[i]) : i \in DOMAIN bids}]
    /\ UNCHANGED <<storeVars, listVars, getPayload>>

\* the call of a source returns; an error, or no header, is <<>>
SourceAnswers(q, m) ==
    /\ m \in getHeader[q].asked
    /\ \E bids \in Answers :
        LET hs == [i \in DOMAIN bids |-> SlotHeader(q, m, bids[i])]
        IN  /\ getHeader' = [getHeader EXCEPT ![q].asked = @ \ {m},
                                              ![q].outbox[m] = hs]
            /\ got' = [got EXCEPT ![q] = @ \cup ToSet(hs)]
    /\ UNCHANGED <<storeVars, listVars, getPayload>>

SendResult(q, m) ==
    /\ getHeader[q].outbox[m] # <<>>
    /\ Len(getHeader[q].channel) < getHeader[q].capacity
    /\ getHeader' = [getHeader EXCEPT
          ![q].channel = Append(@, Head(getHeader[q].outbox[m])),
          ![q].outbox[m] = Tail(@)]
    /\ UNCHANGED <<storeVars, listVars, got, getPayload>>

\* slip: the first goroutine that is done ends the wait
AllSentTooSoon(q) ==
    /\ getHeader[q].state = "asked"
    /\ \A m \in Sources : getHeader[q].outbox[m] = <<>>
    /\ getHeader' = [getHeader EXCEPT ![q].state = "adding"]
    /\ UNCHANGED <<storeVars, listVars, got, getPayload>>

\* wg.Wait
AllSent(q) ==
    /\ getHeader[q].state = "asked" /\ getHeader[q].asked = {}
    /\ \A m \in Sources : getHeader[q].outbox[m] = <<>>
    /\ getHeader' = [getHeader EXCEPT ![q].state = "adding"]
    /\ UNCHANGED <<storeVars, listVars, got, getPayload>>

\* processNewBid; its error - the bid cannot be read, or the slot is over -
\* ends the request, whatever else is in the channel
ProcessNewBid(q) ==
    /\ getHeader[q].state = "adding" /\ getHeader[q].channel # <<>>
    /\ LET h == Head(getHeader[q].channel)
       IN  IF h = Unreadable \/ TooOld(h)
           THEN /\ getHeader' = [getHeader EXCEPT ![q].state = "failed"]
                /\ UNCHANGED storeVars
           ELSE /\ getHeader' = [getHeader EXCEPT ![q].channel = Tail(@)]
                /\ AddSlotHeader(h)
    /\ UNCHANGED <<listVars, got, getPayload>>

HeaderSelected(q) ==
    /\ getHeader[q].state = "adding" /\ getHeader[q].channel = <<>>
    /\ getHeader' = [getHeader EXCEPT
          ![q].state = IF HasSelected(Request[q].slot) THEN "done"
                       ELSE "failed",
          ![q].result = IF HasSelected(Request[q].slot)
                        THEN {GetSelectedSlotHeaders(Request[q].slot)}
                        ELSE {}]
    /\ UNCHANGED <<storeVars, listVars, got, getPayload>>

-----------------------------------------------------------------------------
\* GetPayload: an unknown hash is an error
GetPayload(hash) ==
    /\ getPayload.state = "idle"
    /\ IF GetSlotHeaderByHash(hash) = {}
       THEN getPayload' = [state |-> "failed", hash |-> hash, module |-> {}]
       ELSE \E h \in GetSlotHeaderByHash(hash) :
              getPayload' = [state |-> "asked", hash |-> hash,
                             module |-> {h.ModuleName}]
    /\ UNCHANGED <<storeVars, listVars, getHeader, got>>

\* the source answers with an error or a sequence of payloads: the first
\* that can be read is returned
PayloadAnswered ==
    /\ getPayload.state = "asked"
    /\ \E end \in {"done", "failed"} : getPayload' = [getPayload EXCEPT
                                                        !.state = end]
    /\ UNCHANGED <<storeVars, listVars, getHeader, got>>

-----------------------------------------------------------------------------
ListStep == ListNext /\ UNCHANGED <<storeVars, getHeader, got, getPayload>>

RequestStep(q) ==
    \/ GetHeader(q) \/ AskSources(q) \/ AllSent(q)
    \/ ProcessNewBid(q) \/ HeaderSelected(q)
    \/ \E m \in Sources : SourceAnswers(q, m) \/ SendResult(q, m)

AggregatorNext ==
    \/ ListStep
    \/ \E q \in HeaderRequests : RequestStep(q)
    \/ \E hash \in SignedBlocks : GetPayload(hash)
    \/ PayloadAnswered

AggregatorSpec == AggregatorInit /\ [][AggregatorNext]_vars

(***************************************************************************)
(* The Go runtime runs every goroutine that can go on, and sources answer. *)
(***************************************************************************)
FairAggregatorSpec ==
    /\ AggregatorSpec
    /\ \A q \in HeaderRequests :
        /\ WF_vars(AskSources(q)) /\ WF_vars(AllSent(q))
        /\ WF_vars(ProcessNewBid(q)) /\ WF_vars(HeaderSelected(q))
        /\ \A m \in Sources : /\ WF_vars(SourceAnswers(q, m))
                              /\ WF_vars(SendResult(q, m))

-----------------------------------------------------------------------------
\* history: the headers that were sent, without what is none
HeadersGot(q) == got[q] \ {Unreadable}

(***************************************************************************)
(* The header that getHeader returns is worth at least as much as every    *)
(* header that any source answered to it, although requests for the same   *)
(* slot and for later slots work on the store at the same time             *)
(* (backend.go:155-168).                                                   *)
(***************************************************************************)
ResultIsBest ==
    \A q \in HeaderRequests : \A r \in getHeader[q].result :
        /\ r.slot = Request[q].slot
        /\ \A h \in HeadersGot(q) : h.value <= r.value

(***************************************************************************)
(* getHeader fails only if no source had a header for the slot, if one     *)
(* sent a header that cannot be read - whatever the others sent -, or if a *)
(* header of a later slot came in first (backend.go:159-168, bidHandling.  *)
(* go:10-18, data.go:57).  Slots below the Horizon are left out, where the *)
(* store forgets what it is given.                                         *)
(***************************************************************************)
FailsOnlyWithout ==
    \A q \in HeaderRequests :
        getHeader[q].state = "failed" /\ Request[q].slot >= Horizon =>
            \/ got[q] = {} \/ Unreadable \in got[q]
            \/ lastSlot > Request[q].slot

(***************************************************************************)
(* A returned header can be turned into a payload for two epochs: it stays *)
(* in the store, unless three headers that are worth at least as much      *)
(* displace it, which the store counts even if they are the same bid.      *)
(***************************************************************************)
Displaced(r) ==
    /\ Len(selectedSlotHeaders[r.slot]) = 3
    /\ \A i \in 1 .. 3 : selectedSlotHeaders[r.slot][i].value >= r.value

ReturnedIsKept ==
    \A q \in HeaderRequests : \A r \in getHeader[q].result :
        r.slot >= Horizon /\ r.slot + Horizon >= lastSlot =>
            \/ r \in GetSlotHeaderByHash(r.blockHash)
            \/ HasSelected(r.slot) /\ Displaced(r)

(***************************************************************************)
(* The source that is asked for a payload is one that answered a getHeader *)
(* with a header of that hash (backend.go:183-194).                        *)
(***************************************************************************)
PayloadFromBidder ==
    \A m \in getPayload.module :
        \E q \in HeaderRequests : \E h \in HeadersGot(q) :
            h.ModuleName = m /\ h.blockHash = getPayload.hash

(***************************************************************************)
(* Every getHeader returns, whatever its sources answer                    *)
(* (backend.go:122-156).  It is so when each answers with one header and   *)
(* the list of sources does not change, as the channel has room for one    *)
(* from each, see SourceLists; it is not with more.                        *)
(***************************************************************************)
GetHeaderReturns ==
    \A q \in HeaderRequests :
        getHeader[q].state # "idle" ~> getHeader[q].state \in {"done", "failed"}
=============================================================================
