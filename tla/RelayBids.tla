----------------------------- MODULE RelayBids ------------------------------
(***************************************************************************)
(* The relay module's getHeader and getPayload (modules/relay/internal.go  *)
(* and outgoing_calls.go): every request asks all relays in goroutines of  *)
(* their own, which merge what they get under a mutex, and the winning bid *)
(* is remembered for the getPayload that may follow.                       *)
(***************************************************************************)
EXTENDS Integers

CONSTANTS
    Relays,         \* r.relays, not empty: Configure refuses that
    Headers,        \* the getHeader requests
    Request,        \* header request -> [slot, parentHash]
    Offers,         \* the bids a relay may answer with
    NoOffer,        \* any other answer: an error, no content, an empty bid
    MinBid,         \* relayMinBid
    SignatureCheck, \* relaySignatureCheck
    MaxRetries,     \* cfg.RequestMaxRetries
    Horizon,        \* the 64 slots the bids are kept for
    Modulus         \* 2^64, for the slot arithmetic

(***************************************************************************)
(* An offer has a block hash (a number: hashes are compared), a value, a   *)
(* parent hash, own, whether its public key is the one of the relay that   *)
(* sends it, and domain, the signing domain its signature is valid for.    *)
(***************************************************************************)
ASSUME OfferAssumption ==
    /\ \A o \in Offers : o.blockHash \in Nat /\ o.value \in Nat
    /\ NoOffer \notin Offers
    /\ MinBid \in Nat /\ MaxRetries \in Nat /\ SignatureCheck \in BOOLEAN
    /\ Horizon \in Nat /\ Modulus \in Nat /\ Horizon < Modulus
    /\ \A q \in Headers : Request[q].slot \in 0 .. Modulus - 1

VARIABLES
    state,      \* header request: idle, refused, asked, done
    waiting,    \* header request: the relays that have not answered (wg)
    offered,    \* relaysMap: header request -> {[relay, blockHash]}
    best,       \* result: header request -> the best bid so far
    reply,      \* history: header request -> relay -> what it answered
    bids,       \* r.bids: [slot, blockHash] -> [bid, relays]
    pay         \* the getPayload request

headerVars == <<state, waiting, offered, best, reply>>
vars == <<headerVars, bids, pay>>

NoPayload == [state |-> "idle", goroutine |-> [r \in {} |-> "none"],
              tries |-> [r \in {} |-> 0], cancelled |-> FALSE,
              result |-> {}, received |-> {}]

RelayInit ==
    /\ state = [q \in Headers |-> "idle"]
    /\ waiting = [q \in Headers |-> {}]
    /\ offered = [q \in Headers |-> {}]
    /\ best = [q \in Headers |-> NoOffer]
    /\ reply = [q \in Headers |-> [r \in Relays |-> NoOffer]]
    /\ bids = [k \in {} |-> NoOffer]
    /\ pay = NoPayload

-----------------------------------------------------------------------------
(***************************************************************************)
(* Configure computes the builder signing domain, but the loop over        *)
(* r.relays assigns it to a copy of each entry: the entries keep the zero  *)
(* value.                                                                  *)
(***************************************************************************)
SigningDomain(r) == "zero"

\* the checks of requestRelayHeader, in front of the critical section
Acceptable(o, q, r) ==
    /\ o # NoOffer
    /\ o.blockHash # 0
    /\ o.own
    /\ SignatureCheck => o.domain = SigningDomain(r)
    /\ o.parentHash = Request[q].parentHash
    /\ o.value # 0
    /\ o.value >= MinBid

\* slip: of equal bids the last one to arrive is taken
BetterOrEqual(o, top) == top = NoOffer \/ o.value >= top.value

\* "most profitable", with the hash as tiebreaker
Better(o, top) ==
    \/ top = NoOffer
    \/ o.value > top.value
    \/ o.value = top.value /\ o.blockHash < top.blockHash

\* a public key or parent hash of the wrong length: ErrInvalidInput
RefuseHeader(q) ==
    /\ state[q] = "idle"
    /\ state' = [state EXCEPT ![q] = "refused"]
    /\ UNCHANGED <<waiting, offered, best, reply, bids, pay>>

GetHeader(q) ==
    /\ state[q] = "idle"
    /\ state' = [state EXCEPT ![q] = "asked"]
    /\ waiting' = [waiting EXCEPT ![q] = Relays]
    /\ UNCHANGED <<offered, best, reply, bids, pay>>

(***************************************************************************)
(* requestRelayHeader: the relay answers, and the goroutine merges an      *)
(* acceptable bid under mu.                                                *)
(***************************************************************************)
RequestRelayHeader(q, r) ==
    /\ r \in waiting[q]
    /\ \E o \in Offers \cup {NoOffer} :
        /\ reply' = [reply EXCEPT ![q][r] = o]
        /\ IF Acceptable(o, q, r)
           THEN /\ offered' = [offered EXCEPT ![q] =
                        @ \cup {[relay |-> r, blockHash |-> o.blockHash]}]
                /\ best' = [best EXCEPT ![q] = IF Better(o, @) THEN o ELSE @]
           ELSE UNCHANGED <<offered, best>>
    /\ waiting' = [waiting EXCEPT ![q] = @ \ {r}]
    /\ UNCHANGED <<state, bids, pay>>

\* the relays that delivered a block to a request
RelaysOf(q, hash) ==
    {r \in Relays : [relay |-> r, blockHash |-> hash] \in offered[q]}

Key(q) == [slot |-> Request[q].slot, blockHash |-> best[q].blockHash]

Minus(a, b) == IF a >= b THEN a - b ELSE a + Modulus - b

\* slip: a slot exactly two epochs old is deleted
ExpiredTooSoon(k, slot) == k.slot <= Minus(slot, Horizon)

Expired(k, slot) == k.slot < Minus(slot, Horizon)

\* slip: every relay that delivered any bid is remembered
HeaderDoneAllRelays(q) ==
    /\ state[q] = "asked" /\ waiting[q] = {}
    /\ state' = [state EXCEPT ![q] = "done"]
    /\ bids' = IF best[q] = NoOffer THEN bids
               ELSE [k \in {j \in DOMAIN bids \cup {Key(q)} :
                                        ~ Expired(j, Request[q].slot)} |->
                       IF k = Key(q)
                       THEN [bid |-> best[q],
                             relays |-> {f.relay : f \in offered[q]}]
                       ELSE bids[k]]
    /\ UNCHANGED <<waiting, offered, best, reply, pay>>

(***************************************************************************)
(* The end of processGetHeader, after wg.Wait: remember the bid with the   *)
(* relays it came from, forget the bids that are older than two epochs.    *)
(***************************************************************************)
HeaderDone(q) ==
    /\ state[q] = "asked" /\ waiting[q] = {}
    /\ state' = [state EXCEPT ![q] = "done"]
    /\ bids' = IF best[q] = NoOffer THEN bids
               ELSE [k \in {j \in DOMAIN bids \cup {Key(q)} :
                                        ~ Expired(j, Request[q].slot)} |->
                       IF k = Key(q)
                       THEN [bid |-> best[q],
                             relays |-> RelaysOf(q, best[q].blockHash)]
                       ELSE bids[k]]
    /\ UNCHANGED <<waiting, offered, best, reply, pay>>

-----------------------------------------------------------------------------
(***************************************************************************)
(* processGetPayload looks the bid up and asks the relays it came from.    *)
(***************************************************************************)
GetPayload(key) ==
    /\ pay.state = "idle"
    /\ key \in DOMAIN bids
    /\ LET rs == bids[key].relays
       IN  pay' = [state |-> "asked", key |-> key, cancelled |-> FALSE,
                   goroutine |-> [r \in rs |-> "calling"],
                   tries |-> [r \in rs |-> 0],
                   result |-> {}, received |-> {}]
    /\ UNCHANGED <<headerVars, bids>>

\* the block is incomplete, ErrIncompletePayload, or there is no bid for it,
\* ErrNoBidReceived
RefusePayload ==
    /\ pay.state = "idle"
    /\ pay' = [pay EXCEPT !.state = "refused"]
    /\ UNCHANGED <<headerVars, bids>>

\* SendHTTPRequestWithRetries: an attempt ends with an error
AttemptFails(r) ==
    /\ pay.goroutine[r] = "calling" /\ pay.tries[r] < MaxRetries
    /\ pay' = [pay EXCEPT !.tries[r] = @ + 1]

\* no attempts left, context cancelled, or (after an attempt) timed out
GiveUp(r) ==
    /\ pay.goroutine[r] = "calling"
    /\ pay.tries[r] = MaxRetries \/ pay.cancelled \/ pay.tries[r] > 0
    /\ pay' = [pay EXCEPT !.goroutine[r] = "done"]

(***************************************************************************)
(* An attempt succeeds.  "wrong" is every payload that fails one of the    *)
(* checks of requestRelayPayload.  The check of the blob commitments only  *)
(* continues its own loop: a payload with foreign commitments passes.      *)
(***************************************************************************)
PayloadArrives(r) ==
    /\ pay.goroutine[r] = "calling" /\ pay.tries[r] < MaxRetries
    /\ \/ pay' = [pay EXCEPT !.goroutine[r] = "done"]
       \/ \E kind \in {"good", "foreign"} :
             pay' = [pay EXCEPT
                       !.goroutine[r] = kind,
                       !.received = @ \cup {[relay |-> r, kind |-> kind]}]

(***************************************************************************)
(* A payload with more commitments than the block: the loop over them      *)
(* indexes those of the block out of range.  Nobody recovers the panic of  *)
(* the goroutine, which is the end of the process.                         *)
(***************************************************************************)
PayloadPanics(r) ==
    /\ pay.goroutine[r] = "calling" /\ pay.tries[r] < MaxRetries
    /\ pay' = [pay EXCEPT
                 !.state = "crashed",
                 !.received = @ \cup {[relay |-> r, kind |-> "overlong"]}]

\* slip: the context is cancelled in front of the check
MergeAfterCancel(r) ==
    /\ pay.goroutine[r] \in {"good", "foreign"}
    /\ pay' = [pay EXCEPT !.goroutine[r] = "done", !.cancelled = TRUE]

\* the critical section of requestRelayPayload
Merge(r) ==
    /\ pay.goroutine[r] \in {"good", "foreign"}
    /\ pay' = [pay EXCEPT
                 !.goroutine[r] = "done", !.cancelled = TRUE,
                 !.result = IF pay.cancelled \/ @ # {} THEN @
                            ELSE {[relay |-> r, kind |-> pay.goroutine[r]]}]

RequestRelayPayload(r) ==
    /\ \/ AttemptFails(r) \/ GiveUp(r)
       \/ PayloadArrives(r) \/ PayloadPanics(r) \/ Merge(r)
    /\ UNCHANGED <<headerVars, bids>>

\* wg.Wait: without a result the error is ErrNoPayloadReceived
PayloadDone ==
    /\ pay.state = "asked"
    /\ \A r \in DOMAIN pay.goroutine : pay.goroutine[r] = "done"
    /\ pay' = [pay EXCEPT !.state = "done"]
    /\ UNCHANGED <<headerVars, bids>>

RelayNext ==
    /\ pay.state # "crashed"
    /\ \/ \E q \in Headers : RefuseHeader(q) \/ GetHeader(q) \/ HeaderDone(q)
       \/ \E q \in Headers, r \in Relays : RequestRelayHeader(q, r)
       \/ \E key \in DOMAIN bids : GetPayload(key)
       \/ RefusePayload
       \/ \E r \in DOMAIN pay.goroutine : RequestRelayPayload(r)
       \/ PayloadDone

RelaySpec == RelayInit /\ [][RelayNext]_vars

-----------------------------------------------------------------------------
\* the acceptable bids that a request got
Accepted(q) == {o \in Offers : \E r \in Relays :
                                  reply[q][r] = o /\ Acceptable(o, q, r)}

\* the most valuable acceptable bid, and of those the one with the smallest
\* hash
IsBest(q) ==
    IF Accepted(q) = {} THEN best[q] = NoOffer
    ELSE /\ best[q] \in Accepted(q)
         /\ \A o \in Accepted(q) :
              \/ o.value < best[q].value
              \/ /\ o.value = best[q].value
                 /\ o.blockHash >= best[q].blockHash

(***************************************************************************)
(* The bid that processGetHeader returns does not depend on the order in   *)
(* which the relays answer: it is the most valuable acceptable one, and of *)
(* those the one with the smallest hash (outgoing_calls.go:100-112).       *)
(***************************************************************************)
BestBid == \A q \in Headers : state[q] = "done" => IsBest(q)

(***************************************************************************)
(* A bid that was returned can be paid out for two epochs, whatever other  *)
(* requests do to the map they share (internal.go:87-96).  The first two   *)
(* epochs of a chain are left out: there the arithmetic wraps around.      *)
(***************************************************************************)
BidsKept ==
    \A q \in Headers :
        /\ state[q] = "done" /\ best[q] # NoOffer
        /\ \A p \in Headers : state[p] = "done" =>
             Request[p].slot \in Horizon .. Request[q].slot + Horizon
        => Key(q) \in DOMAIN bids

\* relay r gave the block of key k as an acceptable bid to a getHeader request
\* for that slot, which has returned
Delivered(r, k) ==
    \E q \in Headers :
        /\ state[q] = "done" /\ Request[q].slot = k.slot
        /\ Acceptable(reply[q][r], q, r)
        /\ reply[q][r].blockHash = k.blockHash

(***************************************************************************)
(* The payload comes from a relay that delivered just this block, at this  *)
(* slot, as an acceptable bid of a finished getHeader request              *)
(* (internal.go:80, 122, 137).                                             *)
(***************************************************************************)
PayloadFromDeliverer == \A p \in pay.result : Delivered(p.relay, pay.key)

(***************************************************************************)
(* A payload that passed the checks is not lost, although the goroutines   *)
(* cancel each other: getPayload ends with a payload, or goes on with a    *)
(* goroutine that has one in its hands - or the process has ended, of a    *)
(* payload with more commitments than the block, which a relay that had    *)
(* delivered this bid sent (outgoing_calls.go:201-202, 220-224,            *)
(* internal.go:147).                                                       *)
(***************************************************************************)
PayloadNotLost ==
    (\E p \in pay.received : p.kind \in {"good", "foreign"}) =>
        \/ pay.result # {}
        \/ /\ pay.state = "asked"
           /\ \E r \in DOMAIN pay.goroutine :
                  pay.goroutine[r] \in {"good", "foreign"}
        \/ /\ pay.state = "crashed"
           /\ \E p \in pay.received : /\ p.kind = "overlong"
                                      /\ Delivered(p.relay, pay.key)
=============================================================================
