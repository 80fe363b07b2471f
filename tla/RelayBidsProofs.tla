-------------------------- MODULE RelayBidsProofs --------------------------
(***************************************************************************)
(* The relay module returns the best bid, keeps it, and gets its payload   *)
(* from a relay that made it, for every set of relays, requests and bids,  *)
(* every horizon and width and any number of attempts.                     *)
(***************************************************************************)
EXTENDS RelayBids, TLAPS

(***************************************************************************)
(* The types of what belongs to the getHeader requests, and what holds     *)
(* while they collect: a relay that has not answered counts for nothing,   *)
(* nobody is waited for before and after, what is in relaysMap was         *)
(* acceptable, and the result is the best at any time.                     *)
(***************************************************************************)
HeaderType ==
    /\ state \in [Headers -> {"idle", "refused", "asked", "done"}]
    /\ waiting \in [Headers -> SUBSET Relays]
    /\ offered \in [Headers -> SUBSET [relay : Relays, blockHash : Nat]]
    /\ best \in [Headers -> Offers \cup {NoOffer}]
    /\ reply \in [Headers -> [Relays -> Offers \cup {NoOffer}]]

NotAsked ==
    \A q \in Headers :
        /\ state[q] # "asked" => waiting[q] = {}
        /\ \A r \in Relays :
              state[q] = "idle" \/ r \in waiting[q] => reply[q][r] = NoOffer

OfferedAccepted ==
    \A q \in Headers : \A f \in offered[q] :
        /\ Acceptable(reply[q][f.relay], q, f.relay)
        /\ reply[q][f.relay].blockHash = f.blockHash

BestSoFar == \A q \in Headers : IsBest(q)

HeaderInv == HeaderType /\ NotAsked /\ OfferedAccepted /\ BestSoFar

LEMMA HeaderInit == RelayInit => HeaderInv
BY DEF RelayInit, HeaderInv, HeaderType, NotAsked, OfferedAccepted, BestSoFar,
       IsBest, Accepted, Acceptable

(***************************************************************************)
(* Refusing or starting a request changes no answer and no result.         *)
(***************************************************************************)
LEMMA GetHeaderStep ==
    ASSUME HeaderInv, NEW q \in Headers, RefuseHeader(q) \/ GetHeader(q)
    PROVE  HeaderInv'
<1>1. CASE RefuseHeader(q)
  <2>1. HeaderType' /\ NotAsked'
    BY <1>1 DEF RefuseHeader, HeaderInv, HeaderType, NotAsked
  <2>2. OfferedAccepted' /\ BestSoFar'
    BY <1>1 DEF RefuseHeader, HeaderInv, OfferedAccepted, BestSoFar, IsBest,
                Accepted, Acceptable, SigningDomain
  <2> QED BY <2>1, <2>2 DEF HeaderInv
<1>2. CASE GetHeader(q)
  BY <1>2 DEF GetHeader, HeaderInv, HeaderType, NotAsked, OfferedAccepted,
              BestSoFar, IsBest, Accepted, Acceptable
<1> QED BY <1>1, <1>2

LEMMA HeaderDoneStep ==
    ASSUME HeaderInv, NEW q \in Headers, HeaderDone(q)
    PROVE  HeaderInv'
BY DEF HeaderDone, HeaderInv, HeaderType, NotAsked, OfferedAccepted, BestSoFar,
       IsBest, Accepted, Acceptable

(***************************************************************************)
(* The critical section: the new answer joins the accepted ones when it is *)
(* acceptable, and replaces the result when it is better.                  *)
(***************************************************************************)
LEMMA RequestStep ==
    ASSUME HeaderInv, NEW q \in Headers, NEW r \in Relays,
           RequestRelayHeader(q, r)
    PROVE  HeaderInv'
<1>1. PICK o \in Offers \cup {NoOffer} :
        /\ reply' = [reply EXCEPT ![q][r] = o]
        /\ IF Acceptable(o, q, r)
           THEN /\ offered' = [offered EXCEPT ![q] =
                        @ \cup {[relay |-> r, blockHash |-> o.blockHash]}]
                /\ best' = [best EXCEPT ![q] = IF Better(o, @) THEN o ELSE @]
           ELSE UNCHANGED <<offered, best>>
  BY DEF RequestRelayHeader
<1>2. /\ r \in waiting[q] /\ state[q] = "asked" /\ reply[q][r] = NoOffer
      /\ waiting' = [waiting EXCEPT ![q] = @ \ {r}]
      /\ UNCHANGED state
  BY DEF RequestRelayHeader, HeaderInv, HeaderType, NotAsked
<1>3. Acceptable(o, q, r) => o \in Offers /\ o.blockHash \in Nat
  BY OfferAssumption DEF Acceptable
<1>4. HeaderType'
  <2>1. state' \in [Headers -> {"idle", "refused", "asked", "done"}]
    BY <1>2 DEF HeaderInv, HeaderType
  <2>2. waiting' \in [Headers -> SUBSET Relays]
    BY <1>2 DEF HeaderInv, HeaderType
  <2>3. reply' \in [Headers -> [Relays -> Offers \cup {NoOffer}]]
    BY <1>1 DEF HeaderInv, HeaderType
  <2>4. best' \in [Headers -> Offers \cup {NoOffer}]
    BY <1>1 DEF HeaderInv, HeaderType
  <2>5. offered' \in [Headers -> SUBSET [relay : Relays, blockHash : Nat]]
    <3>1. CASE Acceptable(o, q, r)
      <4>1. [relay |-> r, blockHash |-> o.blockHash]
                \in [relay : Relays, blockHash : Nat]
        BY <1>3, <3>1
      <4> QED BY <1>1, <3>1, <4>1 DEF HeaderInv, HeaderType
    <3>2. CASE ~ Acceptable(o, q, r)
      BY <1>1, <3>2 DEF HeaderInv, HeaderType
    <3> QED BY <3>1, <3>2
  <2> QED BY <2>1, <2>2, <2>3, <2>4, <2>5 DEF HeaderType
<1>5. NotAsked'
  BY <1>1, <1>2 DEF HeaderInv, HeaderType, NotAsked
<1>6. ASSUME NEW p \in Headers, NEW s \in Relays
      PROVE  reply'[p][s] = IF p = q /\ s = r THEN o ELSE reply[p][s]
  BY <1>1 DEF HeaderInv, HeaderType
<1>7. OfferedAccepted'
  <2> SUFFICES ASSUME NEW p \in Headers, NEW f \in offered'[p]
               PROVE  /\ Acceptable(reply'[p][f.relay], p, f.relay)
                      /\ reply'[p][f.relay].blockHash = f.blockHash
    BY DEF OfferedAccepted, Acceptable, SigningDomain
  <2>1. f.relay \in Relays
    BY <1>4 DEF HeaderType
  <2>2. CASE f \in offered[p]
    <3>1. /\ Acceptable(reply[p][f.relay], p, f.relay)
          /\ reply[p][f.relay].blockHash = f.blockHash
      BY <2>2 DEF HeaderInv, OfferedAccepted
    <3>2. ~ (p = q /\ f.relay = r)
      BY <1>2, <3>1 DEF Acceptable
    <3> QED BY <1>6, <2>1, <3>1, <3>2
  <2>3. CASE f \notin offered[p]
    <3>1. /\ p = q /\ Acceptable(o, q, r)
          /\ f = [relay |-> r, blockHash |-> o.blockHash]
      BY <1>1, <2>3 DEF HeaderInv, HeaderType
    <3> QED BY <1>6, <2>1, <3>1
  <2> QED BY <2>2, <2>3
<1>8. ASSUME NEW p \in Headers
      PROVE  Accepted(p)' = IF p = q /\ Acceptable(o, q, r)
                            THEN Accepted(p) \cup {o} ELSE Accepted(p)
  <2>1. ~ Acceptable(NoOffer, q, r)
    BY DEF Acceptable
  <2>2. ASSUME NEW x \in Offers
        PROVE  (\E s \in Relays : reply'[p][s] = x /\ Acceptable(x, p, s))
               <=> \/ \E s \in Relays : reply[p][s] = x /\ Acceptable(x, p, s)
                   \/ p = q /\ x = o /\ Acceptable(o, q, r)
    BY <1>2, <1>6, <2>1
  <2> QED BY <1>3, <2>2 DEF Accepted, Acceptable, SigningDomain
<1>9. BestSoFar'
  <2> SUFFICES ASSUME NEW p \in Headers PROVE IsBest(p)'
    BY DEF BestSoFar
  <2>1. IsBest(p)
    BY DEF HeaderInv, BestSoFar
  <2>2. CASE ~ (p = q /\ Acceptable(o, q, r))
    <3>1. best'[p] = best[p]
      BY <1>1, <2>2 DEF HeaderInv, HeaderType
    <3> QED BY <1>8, <2>1, <2>2, <3>1 DEF IsBest
  <2>3. CASE p = q /\ Acceptable(o, q, r)
    <3>1. best'[q] = IF Better(o, best[q]) THEN o ELSE best[q]
      BY <1>1, <2>3 DEF HeaderInv, HeaderType
    <3>2. Accepted(q)' = Accepted(q) \cup {o}
      BY <1>8, <2>3
    <3>3. /\ Accepted(q) \subseteq Offers /\ o \in Offers
          /\ \A x \in Offers : x.value \in Nat /\ x.blockHash \in Nat
          /\ NoOffer \notin Offers
      BY <1>3, <2>3, OfferAssumption DEF Accepted
    <3>4. CASE Accepted(q) = {}
      BY <2>1, <2>3, <3>1, <3>2, <3>3, <3>4 DEF IsBest, Better
    <3>5. CASE Accepted(q) # {}
      BY <2>1, <2>3, <3>1, <3>2, <3>3, <3>5 DEF IsBest, Better
    <3> QED BY <3>4, <3>5
  <2> QED BY <2>2, <2>3
<1> QED BY <1>4, <1>5, <1>7, <1>9 DEF HeaderInv

-----------------------------------------------------------------------------
(***************************************************************************)
(* What r.bids holds: a relay that is noted for key k has delivered the    *)
(* block of k.                                                             *)
(***************************************************************************)
Keys == [slot : Nat, blockHash : Nat]

BidsDelivered ==
    /\ DOMAIN bids \subseteq Keys
    /\ \A k \in DOMAIN bids : \A r \in bids[k].relays :
            r \in Relays /\ Delivered(r, k)

(***************************************************************************)
(* A request that has returned keeps its answers and its result.           *)
(***************************************************************************)
LEMMA DoneKept ==
    ASSUME HeaderInv, NEW q \in Headers, state[q] = "done",
           \/ \E p \in Headers : \/ RefuseHeader(p) \/ GetHeader(p)
                             \/ HeaderDone(p)
           \/ \E p \in Headers, r \in Relays : RequestRelayHeader(p, r)
           \/ UNCHANGED headerVars
    PROVE  state'[q] = "done" /\ reply'[q] = reply[q] /\ best'[q] = best[q]
<1>1. ASSUME NEW p \in Headers,
             RefuseHeader(p) \/ GetHeader(p) \/ HeaderDone(p)
      PROVE  state'[q] = "done" /\ reply'[q] = reply[q] /\ best'[q] = best[q]
  BY <1>1 DEF RefuseHeader, GetHeader, HeaderDone, HeaderInv, HeaderType
<1>2. ASSUME NEW p \in Headers, NEW r \in Relays, RequestRelayHeader(p, r)
      PROVE  state'[q] = "done" /\ reply'[q] = reply[q] /\ best'[q] = best[q]
  <2>1. p # q
    BY <1>2 DEF RequestRelayHeader, HeaderInv, NotAsked
  <2> QED BY <1>2, <2>1 DEF RequestRelayHeader, HeaderInv, HeaderType
<1>3. CASE UNCHANGED headerVars
  BY <1>3 DEF headerVars
<1> QED BY <1>1, <1>2, <1>3

LEMMA DeliveredKept ==
    ASSUME HeaderInv, NEW r, NEW k, Delivered(r, k),
           \/ \E p \in Headers : \/ RefuseHeader(p) \/ GetHeader(p)
                             \/ HeaderDone(p)
           \/ \E p \in Headers, s \in Relays : RequestRelayHeader(p, s)
           \/ UNCHANGED headerVars
    PROVE  Delivered(r, k)'
<1>1. PICK q \in Headers :
        /\ state[q] = "done" /\ Request[q].slot = k.slot
        /\ Acceptable(reply[q][r], q, r)
        /\ reply[q][r].blockHash = k.blockHash
  BY DEF Delivered
<1>2. state'[q] = "done" /\ reply'[q] = reply[q]
  BY <1>1, DoneKept
<1> QED BY <1>1, <1>2 DEF Delivered, Acceptable, SigningDomain

(***************************************************************************)
(* HeaderDone stores the relays of the block it returns; nothing else      *)
(* changes the bids.                                                       *)
(***************************************************************************)
LEMMA BidsDeliveredStep ==
    ASSUME HeaderInv, BidsDelivered, NEW q \in Headers, HeaderDone(q)
    PROVE  BidsDelivered'
<1>1. CASE best[q] = NoOffer
  BY <1>1, DeliveredKept DEF HeaderDone, BidsDelivered
<1>2. CASE best[q] # NoOffer
  <2> DEFINE kept == {j \in DOMAIN bids \cup {Key(q)} :
                                        ~ Expired(j, Request[q].slot)}
  <2>1. /\ DOMAIN bids' = kept
        /\ \A k \in kept : bids'[k].relays =
                IF k = Key(q) THEN RelaysOf(q, best[q].blockHash)
                ELSE bids[k].relays
    BY <1>2 DEF HeaderDone
  <2>2. Key(q) \in Keys /\ best[q].blockHash \in Nat
    BY <1>2, OfferAssumption DEF Key, Keys, HeaderInv, HeaderType
  <2>3. ASSUME NEW r \in RelaysOf(q, best[q].blockHash)
        PROVE  r \in Relays /\ Delivered(r, Key(q))'
    <3>1. /\ r \in Relays
          /\ [relay |-> r, blockHash |-> best[q].blockHash] \in offered[q]
      BY DEF RelaysOf
    <3>2. /\ Acceptable(reply[q][r], q, r)
          /\ reply[q][r].blockHash = best[q].blockHash
      BY <3>1 DEF HeaderInv, OfferedAccepted
    <3>3. state'[q] = "done" /\ UNCHANGED <<reply, best>>
      BY DEF HeaderDone, HeaderInv, HeaderType
    <3> QED BY <3>1, <3>2, <3>3 DEF Delivered, Key, Acceptable, SigningDomain
  <2>4. UNCHANGED best
    BY DEF HeaderDone
  <2>5. Key(q)' = Key(q)
    BY <2>4 DEF Key
  <2> HIDE DEF kept
  <2>6. DOMAIN bids' \subseteq Keys
    BY <2>1, <2>2 DEF kept, BidsDelivered
  <2>7. ASSUME NEW k \in DOMAIN bids', NEW r \in bids'[k].relays
        PROVE  r \in Relays /\ Delivered(r, k)'
    <3>1. CASE k = Key(q)
      BY <2>1, <2>3, <2>5, <2>7, <3>1
    <3>2. CASE k # Key(q)
      <4>1. k \in DOMAIN bids /\ r \in bids[k].relays
        BY <2>1, <3>2, <2>7 DEF kept
      <4> QED BY <4>1, DeliveredKept DEF BidsDelivered
    <3> QED BY <3>1, <3>2
  <2> QED BY <2>6, <2>7 DEF BidsDelivered
<1> QED BY <1>1, <1>2

(***************************************************************************)
(* A request that returns deletes no bid of the two epochs before its slot *)
(* - and not its own.                                                      *)
(***************************************************************************)
LEMMA BidsKeptStep ==
    ASSUME HeaderInv, BidsKept, NEW q \in Headers, HeaderDone(q)
    PROVE  BidsKept'
<1>1. /\ \A p \in Headers : Request[p].slot \in Nat
      /\ Horizon \in Nat /\ Modulus \in Nat
  BY OfferAssumption
<1>2. /\ UNCHANGED best
      /\ \A p \in Headers : state'[p] = IF p = q THEN "done" ELSE state[p]
  BY DEF HeaderDone, HeaderInv, HeaderType
<1> SUFFICES ASSUME NEW p \in Headers, state'[p] = "done", best[p] # NoOffer,
                    \A o \in Headers : state'[o] = "done" =>
                       Request[o].slot \in Horizon .. Request[p].slot + Horizon
             PROVE  Key(p) \in DOMAIN bids'
  BY <1>2 DEF BidsKept, Key
<1>3. Request[q].slot \in Horizon .. Request[p].slot + Horizon
  BY <1>2
<1>4. ~ Expired(Key(p), Request[q].slot)
  BY <1>1, <1>3 DEF Expired, Minus, Key
<1>5. CASE p = q
  BY <1>4, <1>5 DEF HeaderDone
<1>6. CASE p # q
  <2>1. Key(p) \in DOMAIN bids
    BY <1>2, <1>6 DEF BidsKept
  <2> QED BY <1>4, <2>1 DEF HeaderDone
<1> QED BY <1>5, <1>6

(***************************************************************************)
(* No other step of a request makes it return or touches the bids.         *)
(***************************************************************************)
LEMMA BidsOtherStep ==
    ASSUME HeaderInv, BidsDelivered, BidsKept, UNCHANGED bids,
           \/ \E q \in Headers : RefuseHeader(q) \/ GetHeader(q)
           \/ \E q \in Headers, r \in Relays : RequestRelayHeader(q, r)
           \/ UNCHANGED headerVars
    PROVE  BidsDelivered' /\ BidsKept'
<1>1. BidsDelivered'
  BY DeliveredKept DEF BidsDelivered
<1>2. ASSUME NEW q \in Headers PROVE state'[q] = "done" <=> state[q] = "done"
  BY DEF RefuseHeader, GetHeader, RequestRelayHeader, headerVars, HeaderInv,
         HeaderType
<1>3. ASSUME NEW q \in Headers, state[q] = "done" PROVE best'[q] = best[q]
  BY <1>3, DoneKept
<1>4. BidsKept'
  BY <1>2, <1>3 DEF BidsKept, Key
<1> QED BY <1>1, <1>4

-----------------------------------------------------------------------------
(***************************************************************************)
(* The getPayload request: its goroutines are of the relays the bid came   *)
(* from; the context is cancelled only once there is a result; a payload   *)
(* that was received is in the hands of a goroutine until there is one;    *)
(* and only a payload with too many commitments ends the process.          *)
(***************************************************************************)
Holding == {"good", "foreign"}

Received(rs) == [relay : rs, kind : Holding \cup {"overlong"}]

PayRecord(rs) ==
    [state : {"asked", "done", "crashed"}, key : Keys, cancelled : BOOLEAN,
     goroutine : [rs -> Holding \cup {"calling", "done"}], tries : [rs -> Nat],
     result : SUBSET [relay : rs, kind : Holding],
     received : SUBSET Received(rs)]

PayType ==
    \/ pay \in {NoPayload, [NoPayload EXCEPT !.state = "refused"]}
    \/ \E rs \in SUBSET Relays : pay \in PayRecord(rs)

PayDelivered ==
    pay.state # "idle" =>
        \A r \in DOMAIN pay.goroutine : Delivered(r, pay.key)

PayHeld ==
    /\ pay.cancelled => pay.result # {}
    /\ (\E p \in pay.received : p.kind \in Holding) =>
          pay.result # {} \/ \E r \in DOMAIN pay.goroutine :
                                             pay.goroutine[r] \in Holding
    /\ pay.state = "done" =>
          \A r \in DOMAIN pay.goroutine : pay.goroutine[r] = "done"
    /\ pay.state = "crashed" =>
          \E p \in pay.received : p.kind = "overlong"

PayInv == PayType /\ PayDelivered /\ PayHeld

LEMMA GetPayloadStep ==
    ASSUME BidsDelivered, NEW key \in DOMAIN bids, GetPayload(key)
    PROVE  PayInv'
<1> DEFINE rs == bids[key].relays
<1>1. rs \in SUBSET Relays /\ key \in Keys
  BY DEF BidsDelivered
<1>2. pay' = [state |-> "asked", key |-> key, cancelled |-> FALSE,
              goroutine |-> [r \in rs |-> "calling"],
              tries |-> [r \in rs |-> 0],
              result |-> {}, received |-> {}]
  BY DEF GetPayload
<1>3. pay' \in PayRecord(rs)
  BY <1>1, <1>2 DEF PayRecord
<1>4. PayDelivered'
  BY <1>2 DEF GetPayload, PayDelivered, BidsDelivered, Delivered, headerVars,
              Acceptable, SigningDomain
<1>5. PayHeld'
  BY <1>2 DEF PayHeld
<1> QED BY <1>1, <1>3, <1>4, <1>5 DEF PayInv, PayType

(***************************************************************************)
(* A step of a goroutine of getPayload, and the end of the request.        *)
(***************************************************************************)
LEMMA PayloadStep ==
    ASSUME PayInv, NEW r \in DOMAIN pay.goroutine, RequestRelayPayload(r)
    PROVE  PayInv'
<1>1. PICK rs \in SUBSET Relays : pay \in PayRecord(rs)
  BY DEF PayInv, PayType, NoPayload
<1>2. /\ DOMAIN pay.goroutine = rs /\ r \in rs
      /\ UNCHANGED headerVars
  BY <1>1 DEF PayRecord, RequestRelayPayload
<1>3. /\ pay' \in PayRecord(rs) /\ DOMAIN pay'.goroutine = rs
      /\ pay'.key = pay.key
      /\ PayHeld'
  <2>1. CASE AttemptFails(r)
    <3> DEFINE t == [pay.tries EXCEPT ![r] = pay.tries[r] + 1]
    <3>1. t \in [rs -> Nat]
      BY <1>1, <1>2 DEF PayRecord
    <3>2. pay' = [pay EXCEPT !.tries = t]
      BY <2>1 DEF AttemptFails
    <3> HIDE DEF t
    <3>3. /\ pay' \in PayRecord(rs) /\ pay'.key = pay.key
          /\ pay'.state = pay.state /\ pay'.cancelled = pay.cancelled
          /\ pay'.goroutine = pay.goroutine
          /\ pay'.result = pay.result /\ pay'.received = pay.received
      BY <1>1, <3>1, <3>2 DEF PayRecord
    <3> QED BY <1>2, <3>3 DEF PayInv, PayHeld
  <2>2. CASE GiveUp(r)
    <3> DEFINE g == [pay.goroutine EXCEPT ![r] = "done"]
    <3>1. g \in [rs -> Holding \cup {"calling", "done"}]
      BY <1>1, <1>2 DEF PayRecord
    <3>2. pay' = [pay EXCEPT !.goroutine = g]
      BY <2>2 DEF GiveUp
    <3>3. \A s \in rs : g[s] = IF s = r THEN "done" ELSE pay.goroutine[s]
      BY <1>1, <1>2 DEF PayRecord
    <3>4. pay.goroutine[r] = "calling"
      BY <2>2 DEF GiveUp
    <3> HIDE DEF g
    <3>5. /\ pay' \in PayRecord(rs) /\ pay'.key = pay.key
          /\ pay'.state = pay.state /\ pay'.cancelled = pay.cancelled
          /\ pay'.goroutine = g /\ DOMAIN g = rs
          /\ pay'.result = pay.result /\ pay'.received = pay.received
      BY <1>1, <3>1, <3>2 DEF PayRecord
    <3> QED BY <1>2, <3>3, <3>4, <3>5 DEF PayInv, PayHeld, Holding
  <2>3. CASE PayloadArrives(r)
    <3>1. CASE pay' = [pay EXCEPT !.goroutine[r] = "done"]
      <4> DEFINE g == [pay.goroutine EXCEPT ![r] = "done"]
      <4>1. g \in [rs -> Holding \cup {"calling", "done"}]
        BY <1>1, <1>2 DEF PayRecord
      <4>2. pay' = [pay EXCEPT !.goroutine = g]
        BY <3>1
      <4>3. /\ \A s \in rs : g[s] = IF s = r THEN "done" ELSE pay.goroutine[s]
            /\ pay.goroutine[r] = "calling"
        BY <1>1, <1>2, <2>3 DEF PayRecord, PayloadArrives
      <4> HIDE DEF g
      <4>4. /\ pay' \in PayRecord(rs) /\ pay'.key = pay.key
            /\ pay'.state = pay.state /\ pay'.cancelled = pay.cancelled
            /\ pay'.goroutine = g /\ DOMAIN g = rs
            /\ pay'.result = pay.result /\ pay'.received = pay.received
        BY <1>1, <4>1, <4>2 DEF PayRecord
      <4> QED BY <1>2, <4>3, <4>4 DEF PayInv, PayHeld, Holding
    <3>2. ASSUME NEW kind \in Holding,
                 pay' = [pay EXCEPT
                       !.goroutine[r] = kind,
                       !.received = @ \cup {[relay |-> r, kind |-> kind]}]
          PROVE  /\ pay' \in PayRecord(rs) /\ DOMAIN pay'.goroutine = rs
                 /\ pay'.key = pay.key
                 /\ PayHeld'
      <4> DEFINE g == [pay.goroutine EXCEPT ![r] = kind]
                 n == pay.received \cup {[relay |-> r, kind |-> kind]}
      <4>1. /\ g \in [rs -> Holding \cup {"calling", "done"}]
            /\ n \in SUBSET Received(rs) /\ pay.received \subseteq n
        BY <1>1, <1>2 DEF PayRecord, Received
      <4>2. pay' = [pay EXCEPT !.goroutine = g, !.received = n]
        BY <3>2
      <4>3. /\ \A s \in rs : g[s] = IF s = r THEN kind ELSE pay.goroutine[s]
            /\ pay.goroutine[r] = "calling"
        BY <1>1, <1>2, <2>3 DEF PayRecord, PayloadArrives
      <4> HIDE DEF g, n
      <4>4. /\ pay' \in PayRecord(rs) /\ pay'.key = pay.key
            /\ pay'.state = pay.state /\ pay'.cancelled = pay.cancelled
            /\ pay'.goroutine = g /\ DOMAIN g = rs
            /\ pay'.result = pay.result /\ pay'.received = n
        BY <1>1, <4>1, <4>2 DEF PayRecord
      <4> QED BY <1>2, <4>1, <4>3, <4>4 DEF PayInv, PayHeld, Holding
    <3> QED BY <2>3, <3>1, <3>2 DEF PayloadArrives, Holding
  <2>4. CASE Merge(r)
    <3> DEFINE g == [pay.goroutine EXCEPT ![r] = "done"]
               f == [relay |-> r, kind |-> pay.goroutine[r]]
               n == IF pay.cancelled \/ pay.result # {} THEN pay.result
                    ELSE {f}
    <3>1. pay.goroutine[r] \in Holding /\ pay.state # "done"
      BY <1>2, <2>4 DEF Merge, Holding, PayInv, PayHeld
    <3>2. f \in [relay : rs, kind : Holding]
      BY <1>2, <3>1
    <3>3. pay' = [pay EXCEPT !.goroutine = g, !.cancelled = TRUE, !.result = n]
      BY <2>4 DEF Merge
    <3>4. g \in [rs -> Holding \cup {"calling", "done"}]
      BY <1>1, <1>2 DEF PayRecord
    <3> HIDE DEF f, g
    <3>5. n \in SUBSET [relay : rs, kind : Holding] /\ n # {}
      BY <1>1, <3>2 DEF PayRecord, PayInv, PayHeld
    <3> HIDE DEF n
    <3>6. /\ pay' \in PayRecord(rs) /\ pay'.key = pay.key
          /\ pay'.state = pay.state /\ pay'.received = pay.received
          /\ pay'.goroutine = g /\ DOMAIN g = rs /\ pay'.result = n
      BY <1>1, <3>3, <3>4, <3>5 DEF PayRecord
    <3> QED BY <3>1, <3>5, <3>6 DEF PayInv, PayHeld
  <2>5. CASE PayloadPanics(r)
    <3> DEFINE n == pay.received \cup {[relay |-> r, kind |-> "overlong"]}
    <3>1. /\ n \in SUBSET Received(rs)
          /\ \A p \in n : p.kind \in Holding => p \in pay.received
          /\ \E p \in n : p.kind = "overlong"
      <4> DEFINE f == [relay |-> r, kind |-> "overlong"]
      <4>1. f \in Received(rs) /\ f.kind = "overlong"
        BY <1>2 DEF Received
      <4>2. pay.received \subseteq Received(rs) /\ f.kind \notin Holding
        BY <1>1 DEF PayRecord, Holding
      <4>3. n = pay.received \cup {f}
        OBVIOUS
      <4> HIDE DEF f, n
      <4> QED BY <4>1, <4>2, <4>3
    <3>2. pay' = [pay EXCEPT !.state = "crashed", !.received = n]
      BY <2>5 DEF PayloadPanics
    <3> HIDE DEF n
    <3>3. /\ pay' \in PayRecord(rs) /\ pay'.key = pay.key
          /\ pay'.state = "crashed" /\ pay'.cancelled = pay.cancelled
          /\ pay'.goroutine = pay.goroutine
          /\ pay'.result = pay.result /\ pay'.received = n
      BY <1>1, <3>1, <3>2 DEF PayRecord
    <3> QED BY <1>2, <3>1, <3>3 DEF PayInv, PayHeld
  <2> QED BY <2>1, <2>2, <2>3, <2>4, <2>5 DEF RequestRelayPayload
<1>4. PayDelivered'
  <2>1. pay.state # "idle"
    BY <1>1 DEF PayRecord
  <2> QED BY <1>2, <1>3, <2>1 DEF PayInv, PayDelivered, Delivered, headerVars,
                                  Acceptable, SigningDomain
<1> QED BY <1>1, <1>3, <1>4 DEF PayInv, PayType

LEMMA PayloadDoneStep ==
    ASSUME PayInv, PayloadDone
    PROVE  PayInv'
<1>1. PICK rs \in SUBSET Relays : pay \in PayRecord(rs)
  BY DEF PayInv, PayType, NoPayload, PayloadDone
<1>2. /\ pay' \in PayRecord(rs) /\ pay'.key = pay.key
      /\ pay'.goroutine = pay.goroutine
  BY <1>1 DEF PayloadDone, PayRecord
<1>3. PayHeld'
  BY <1>1 DEF PayloadDone, PayRecord, PayInv, PayHeld
<1>4. PayDelivered'
  BY <1>1, <1>2 DEF PayloadDone, PayRecord, PayInv, PayDelivered, Delivered,
                    headerVars, Acceptable, SigningDomain
<1> QED BY <1>1, <1>2, <1>3, <1>4 DEF PayInv, PayType

\* a request that is refused asks nobody
LEMMA RefusePayloadStep ==
    ASSUME PayInv, RefusePayload
    PROVE  PayInv'
<1>1. pay = NoPayload
  <2>1. pay # [NoPayload EXCEPT !.state = "refused"]
    BY DEF RefusePayload, NoPayload
  <2> QED BY <2>1 DEF RefusePayload, PayInv, PayType, PayRecord
<1>2. pay' = [NoPayload EXCEPT !.state = "refused"]
  BY <1>1 DEF RefusePayload
<1> QED BY <1>2 DEF PayInv, PayType, PayDelivered, PayHeld, NoPayload

\* what the getHeader requests do leaves the payload alone
LEMMA PayOtherStep ==
    ASSUME HeaderInv, PayInv, UNCHANGED pay,
           \/ \E q \in Headers : \/ RefuseHeader(q) \/ GetHeader(q)
                             \/ HeaderDone(q)
           \/ \E q \in Headers, r \in Relays : RequestRelayHeader(q, r)
           \/ UNCHANGED headerVars
    PROVE  PayInv'
<1>1. PayDelivered'
  BY DeliveredKept DEF PayInv, PayDelivered
<1> QED BY <1>1 DEF PayInv, PayType, PayHeld, NoPayload, PayRecord

-----------------------------------------------------------------------------
(***************************************************************************)
(* The inductive invariant holds of every behaviour of the relay module.   *)
(***************************************************************************)
RelayInv == HeaderInv /\ BidsDelivered /\ BidsKept /\ PayInv

LEMMA RelayInitInv == RelayInit => RelayInv
<1> SUFFICES ASSUME RelayInit PROVE RelayInv
  OBVIOUS
<1>1. HeaderInv
  BY HeaderInit
<1>2. BidsDelivered /\ BidsKept
  BY DEF RelayInit, BidsDelivered, BidsKept
<1>3. PayInv
  BY DEF RelayInit, PayInv, PayType, PayDelivered, PayHeld, NoPayload
<1> QED BY <1>1, <1>2, <1>3 DEF RelayInv

THEOREM RelayInvariant == RelaySpec => []RelayInv
<1>1. RelayInv /\ [RelayNext]_vars => RelayInv'
  <2> SUFFICES ASSUME RelayInv, [RelayNext]_vars PROVE RelayInv'
    OBVIOUS
  <2>1. ASSUME NEW q \in Headers, RefuseHeader(q) \/ GetHeader(q)
        PROVE  RelayInv'
    <3>1. UNCHANGED <<bids, pay>>
      BY <2>1 DEF RefuseHeader, GetHeader
    <3> QED BY <2>1, <3>1, GetHeaderStep, BidsOtherStep, PayOtherStep
        DEF RelayInv
  <2>2. ASSUME NEW q \in Headers, HeaderDone(q) PROVE RelayInv'
    <3>1. UNCHANGED pay
      BY <2>2 DEF HeaderDone
    <3> QED BY <2>2, <3>1, HeaderDoneStep, BidsDeliveredStep, BidsKeptStep,
               PayOtherStep DEF RelayInv
  <2>3. ASSUME NEW q \in Headers, NEW r \in Relays, RequestRelayHeader(q, r)
        PROVE  RelayInv'
    <3>1. UNCHANGED <<bids, pay>>
      BY <2>3 DEF RequestRelayHeader
    <3> QED BY <2>3, <3>1, RequestStep, BidsOtherStep, PayOtherStep
        DEF RelayInv
  <2>4. ASSUME UNCHANGED <<headerVars, bids>>, PayInv' PROVE RelayInv'
    <3>1. HeaderInv'
      BY <2>4 DEF RelayInv, HeaderInv, HeaderType, NotAsked, OfferedAccepted,
                  BestSoFar, IsBest, Accepted, Acceptable, SigningDomain,
                  headerVars
    <3> QED BY <2>4, <3>1, BidsOtherStep DEF RelayInv
  <2>5. ASSUME NEW key \in DOMAIN bids, GetPayload(key) PROVE RelayInv'
    BY <2>4, <2>5, GetPayloadStep DEF RelayInv, GetPayload
  <2>6. ASSUME NEW r \in DOMAIN pay.goroutine, RequestRelayPayload(r)
        PROVE  RelayInv'
    BY <2>4, <2>6, PayloadStep DEF RelayInv, RequestRelayPayload
  <2>7. CASE PayloadDone
    BY <2>4, <2>7, PayloadDoneStep DEF RelayInv, PayloadDone
  <2>8. CASE UNCHANGED vars
    BY <2>4, <2>8, PayOtherStep DEF RelayInv, vars
  <2>9. CASE RefusePayload
    BY <2>4, <2>9, RefusePayloadStep DEF RelayInv, RefusePayload
  <2> QED BY <2>1, <2>2, <2>3, <2>5, <2>6, <2>7, <2>8, <2>9 DEF RelayNext
<1> QED BY RelayInitInv, <1>1, PTL DEF RelaySpec

(***************************************************************************)
(* processGetHeader returns the best acceptable bid, in whatever order the *)
(* relays answer.                                                          *)
(***************************************************************************)
THEOREM BestBidReturned == RelaySpec => []BestBid
<1>1. RelayInv => BestBid
  BY DEF RelayInv, HeaderInv, BestSoFar, BestBid
<1> QED BY <1>1, RelayInvariant, PTL

(***************************************************************************)
(* A returned bid stays in r.bids for two epochs.                          *)
(***************************************************************************)
THEOREM ReturnedBidsKept == RelaySpec => []BidsKept
BY RelayInvariant, PTL DEF RelayInv

(***************************************************************************)
(* The payload is one of a relay that delivered the block as a bid.        *)
(***************************************************************************)
THEOREM PayloadsFromDeliverers == RelaySpec => []PayloadFromDeliverer
<1>1. RelayInv => PayloadFromDeliverer
  <2> SUFFICES ASSUME RelayInv, NEW p \in pay.result
               PROVE  Delivered(p.relay, pay.key)
    BY DEF PayloadFromDeliverer, Delivered
  <2>1. PICK rs \in SUBSET Relays : pay \in PayRecord(rs)
    BY DEF RelayInv, PayInv, PayType, NoPayload
  <2>2. p.relay \in DOMAIN pay.goroutine /\ pay.state # "idle"
    BY <2>1 DEF PayRecord
  <2> QED BY <2>2 DEF RelayInv, PayInv, PayDelivered
<1> QED BY <1>1, RelayInvariant, PTL

(***************************************************************************)
(* A payload that passed the checks is not lost: getPayload ends with one, *)
(* has one in its hands, or the process has ended, of a payload with more  *)
(* commitments than the block that a relay of this bid sent.               *)
(***************************************************************************)
THEOREM PayloadsNotLost == RelaySpec => []PayloadNotLost
<1>1. RelayInv => PayloadNotLost
  <2> SUFFICES ASSUME RelayInv, NEW p \in pay.received, p.kind \in Holding,
                      pay.result = {}
               PROVE  \/ /\ pay.state = "asked"
                         /\ \E r \in DOMAIN pay.goroutine :
                                            pay.goroutine[r] \in Holding
                      \/ /\ pay.state = "crashed"
                         /\ \E x \in pay.received :
                               /\ x.kind = "overlong"
                               /\ Delivered(x.relay, pay.key)
    BY DEF PayloadNotLost, Holding
  <2>1. PICK rs \in SUBSET Relays : pay \in PayRecord(rs)
    BY DEF RelayInv, PayInv, PayType, NoPayload
  <2>2. PICK r \in DOMAIN pay.goroutine : pay.goroutine[r] \in Holding
    BY DEF RelayInv, PayInv, PayHeld
  <2>3. pay.state \in {"asked", "crashed"}
    BY <2>1, <2>2 DEF RelayInv, PayInv, PayHeld, PayRecord, Holding
  <2>4. CASE pay.state = "crashed"
    <3>1. PICK x \in pay.received : x.kind = "overlong"
      BY <2>4 DEF RelayInv, PayInv, PayHeld
    <3>2. x.relay \in DOMAIN pay.goroutine
      BY <2>1 DEF PayRecord, Received
    <3>3. Delivered(x.relay, pay.key)
      BY <2>4, <3>2 DEF RelayInv, PayInv, PayDelivered
    <3> QED BY <2>4, <3>1, <3>3
  <2> QED BY <2>2, <2>3, <2>4
<1> QED BY <1>1, RelayInvariant, PTL
=============================================================================
