------------------------ MODULE BlockAggregatorProofs -----------------------
(***************************************************************************)
(* The safety of the block aggregator.  First its list of sources alone,   *)
(* for any number of modules and of concurrent calls; then its header      *)
(* store, for every set of headers, every horizon and every integer width; *)
(* then the whole, for any number of requests, of sources and of headers,  *)
(* and any answers.                                                        *)
(***************************************************************************)
EXTENDS BlockAggregator, SequenceTheorems, TLAPS

-----------------------------------------------------------------------------
(***************************************************************************)
(* The list of sources.  A call that is under way has found its module     *)
(* missing; the invariant says that it is still missing, as the call is    *)
(* the only one and nobody else can write to the list.                     *)
(***************************************************************************)
CallStates == {"idle", "calling", "returned"}

(***************************************************************************)
(* The inductive invariant.                                                *)
(***************************************************************************)
ListTypeOK ==
    /\ ConnectedBLockSources \in Seq(KnownModules)
    /\ connecting \in [Connects -> CallStates]

OneCalling ==
    \A c, d \in Connects :
        connecting[c] = "calling" /\ connecting[d] = "calling" => c = d

CallingIsMissing ==
    \A c \in Connects : connecting[c] = "calling" =>
        \A i \in DOMAIN ConnectedBLockSources :
            ConnectedBLockSources[i] # Name[c]

ListInv == ListTypeOK /\ SourcesDistinct /\ OneCalling /\ CallingIsMissing

(***************************************************************************)
(* What taking an element out makes of a list (service.go:161).            *)
(***************************************************************************)
LEMMA RemoveAtElements ==
    ASSUME NEW S, NEW s \in Seq(S), NEW i \in 1..Len(s)
    PROVE  /\ RemoveAt(s, i) \in Seq(S)
           /\ Len(RemoveAt(s, i)) = Len(s) - 1
           /\ \A j \in 1..(Len(s) - 1) :
                RemoveAt(s, i)[j] = IF j < i THEN s[j] ELSE s[j + 1]
<1> DEFINE front == SubSeq(s, 1, i - 1)
           back  == SubSeq(s, i + 1, Len(s))
<1>1. /\ front \in Seq(S) /\ Len(front) = i - 1
      /\ \A j \in 1..(i - 1) : front[j] = s[j]
  BY SubSeqProperties
<1>2. /\ back \in Seq(S) /\ Len(back) = Len(s) - i
      /\ \A j \in 1..(Len(s) - i) : back[j] = s[i + j]
  BY SubSeqProperties
<1>3. /\ front \o back \in Seq(S)
      /\ Len(front \o back) = Len(front) + Len(back)
      /\ \A j \in 1..(Len(front) + Len(back)) :
            (front \o back)[j] = IF j <= Len(front) THEN front[j]
                                 ELSE back[j - Len(front)]
  BY <1>1, <1>2, ConcatProperties
<1>4. RemoveAt(s, i) = front \o back
  BY DEF RemoveAt
<1> HIDE DEF front, back
<1>5. ASSUME NEW j \in 1..(Len(s) - 1)
      PROVE  (front \o back)[j] = IF j < i THEN s[j] ELSE s[j + 1]
  <2>1. CASE j < i
    BY <2>1, <1>1, <1>2, <1>3
  <2>2. CASE ~(j < i)
    <3>1. j - (i - 1) \in 1..(Len(s) - i) /\ i + (j - (i - 1)) = j + 1
      BY <2>2
    <3>2. (front \o back)[j] = back[j - (i - 1)]
      BY <2>2, <1>1, <1>2, <1>3
    <3> QED
      BY <2>2, <3>1, <3>2, <1>2
  <2> QED
    BY <2>1, <2>2
<1>6. Len(front \o back) = Len(s) - 1
  BY <1>1, <1>2, <1>3
<1> QED
  BY <1>3, <1>4, <1>5, <1>6

LEMMA ListInitially == ListInit => ListInv
  BY DEF ListInit, ListInv, ListTypeOK, SourcesDistinct, OneCalling,
         CallingIsMissing, IsInjective, CallStates

LEMMA ConnectKeepsInv ==
    ASSUME ListInv, NEW c \in Connects, Connect(c)
    PROVE  ListInv'
<1> USE DEF ListInv, ListTypeOK, Connect, CallStates
<1>1. ListTypeOK' /\ SourcesDistinct'
  BY DEF SourcesDistinct
<1>2. OneCalling'
  BY DEF OneCalling, LockFree
<1>3. CallingIsMissing'
  BY DEF CallingIsMissing, LockFree, Range
<1> QED
  BY <1>1, <1>2, <1>3

LEMMA NameAnsweredKeepsInv ==
    ASSUME ListInv, NEW c \in Connects, NameAnswered(c)
    PROVE  ListInv'
<1> USE DEF ListInv, ListTypeOK, NameAnswered, CallStates
<1>1. CASE ConnectedBLockSources' = ConnectedBLockSources
  BY <1>1 DEF SourcesDistinct, OneCalling, CallingIsMissing
<1>2. CASE ConnectedBLockSources' = Append(ConnectedBLockSources, Name[c])
  <2>1. /\ ConnectedBLockSources' \in Seq(KnownModules)
        /\ DOMAIN ConnectedBLockSources' = 1..(Len(ConnectedBLockSources) + 1)
        /\ \A i \in 1..Len(ConnectedBLockSources) :
              ConnectedBLockSources'[i] = ConnectedBLockSources[i]
        /\ ConnectedBLockSources'[Len(ConnectedBLockSources) + 1] = Name[c]
    BY <1>2
  <2>2. ListTypeOK'
    BY <2>1
  <2>3. SourcesDistinct'
    BY <2>1 DEF SourcesDistinct, CallingIsMissing, IsInjective
  <2>4. OneCalling' /\ CallingIsMissing'
    BY <2>1 DEF OneCalling, CallingIsMissing
  <2> QED
    BY <2>2, <2>3, <2>4
<1> QED
  BY <1>1, <1>2

LEMMA DisconnectKeepsInv ==
    ASSUME ListInv, NEW m, DisconnectBlockSource(m)
    PROVE  ListInv'
<1> USE DEF ListInv, ListTypeOK
<1>1. PICK i \in DOMAIN ConnectedBLockSources :
        ConnectedBLockSources' = RemoveAt(ConnectedBLockSources, i)
  BY DEF DisconnectBlockSource
<1> DEFINE n == Len(ConnectedBLockSources)
<1>2. /\ ConnectedBLockSources' \in Seq(KnownModules)
      /\ DOMAIN ConnectedBLockSources' = 1..(n - 1)
      /\ \A j \in 1..(n - 1) :
            ConnectedBLockSources'[j] = ConnectedBLockSources[
                                            IF j < i THEN j ELSE j + 1]
  BY <1>1, RemoveAtElements
<1>3. ListTypeOK' /\ OneCalling'
  BY <1>2 DEF DisconnectBlockSource, OneCalling
<1>4. SourcesDistinct'
  BY <1>2 DEF SourcesDistinct, IsInjective
<1>5. CallingIsMissing'
  BY DEF DisconnectBlockSource, LockFree, CallingIsMissing
<1> QED
  BY <1>3, <1>4, <1>5

LEMMA ListStepKeepsInv == ListInv /\ [ListNext]_listVars => ListInv'
<1> SUFFICES ASSUME ListInv, [ListNext]_listVars
             PROVE  ListInv'
  OBVIOUS
<1>1. CASE \E c \in Connects : Connect(c) \/ NameAnswered(c)
  BY <1>1, ConnectKeepsInv, NameAnsweredKeepsInv
<1>2. CASE \E m \in Leaving : DisconnectBlockSource(m)
  BY <1>2, DisconnectKeepsInv
<1>3. CASE \/ UNCHANGED listVars
           \/ \E m \in Excludable :
                ExcludeFromNotifications(m) \/ IncludeInNotifications(m)
  BY <1>3 DEF ListInv, ListTypeOK, SourcesDistinct, OneCalling,
              CallingIsMissing, listVars, ExcludeFromNotifications,
              IncludeInNotifications
<1> QED
  BY <1>1, <1>2, <1>3 DEF ListNext

(***************************************************************************)
(* No module is in the list of sources twice (service.go:106-145).         *)
(***************************************************************************)
THEOREM NoneTwice == ListSpec => []SourcesDistinct
<1>1. ListInv => SourcesDistinct
  BY DEF ListInv
<1> QED
  BY <1>1, ListInitially, ListStepKeepsInv, PTL DEF ListSpec

-----------------------------------------------------------------------------
(***************************************************************************)
(* The header store.                                                       *)
(***************************************************************************)
(***************************************************************************)
(* A sorted list of at most three headers has a place for every value: the *)
(* CHOOSE of Position is never empty-handed.                               *)
(***************************************************************************)
LEMMA PositionExists ==
    ASSUME NEW S, \A h \in S : h.value \in Nat,
           NEW hs \in Seq(S), Len(hs) \in 0 .. 3,
           \A i, j \in 1 .. Len(hs) : i <= j => hs[i].value >= hs[j].value,
           NEW v \in Nat
    PROVE  /\ Position(hs, v) \in 0 .. Len(hs)
           /\ \A i \in 1 .. Position(hs, v) : hs[i].value >= v
           /\ \A i \in (Position(hs, v) + 1) .. Len(hs) : hs[i].value < v
<1> DEFINE P(k) == /\ \A i \in 1 .. k : hs[i].value >= v
                   /\ \A i \in (k + 1) .. Len(hs) : hs[i].value < v
<1>1. \A i \in 1 .. Len(hs) : hs[i].value \in Nat
  OBVIOUS
<1>2. \E k \in 0 .. Len(hs) : P(k)
  <2>1. CASE \A i \in 1 .. Len(hs) : hs[i].value >= v
    BY <2>1, P(Len(hs))
  <2>2. CASE \E i \in 1 .. Len(hs) : hs[i].value < v
    <3>1. Len(hs) \in {1, 2, 3}
      BY <2>2
    <3>2. CASE hs[1].value < v
      <4>1. P(0)
        BY <1>1, <3>1, <3>2
      <4> QED BY <4>1
    <3>3. CASE hs[1].value >= v /\ Len(hs) >= 2 /\ hs[2].value < v
      <4>1. P(1)
        BY <1>1, <3>1, <3>3
      <4> QED BY <4>1, <3>1
    <3>4. CASE hs[1].value >= v /\ ~ (Len(hs) >= 2 /\ hs[2].value < v)
      <4>1. Len(hs) = 3 /\ hs[2].value >= v /\ hs[3].value < v
        <5>1. PICK i \in 1 .. Len(hs) : hs[i].value < v
          BY <2>2
        <5>2. i # 1 /\ i # 2
          BY <1>1, <3>4, <5>1
        <5>3. i = 3 /\ Len(hs) = 3
          BY <3>1, <5>2
        <5> QED BY <1>1, <3>4, <5>1, <5>3
      <4>2. P(2)
        BY <1>1, <4>1, <3>4
      <4> QED BY <4>2, <4>1
    <3> QED BY <1>1, <3>1, <3>2, <3>3, <3>4
  <2> QED BY <1>1, <2>1, <2>2
<1> QED BY <1>2 DEF Position

-----------------------------------------------------------------------------
(***************************************************************************)
(* What "append, sort, truncate to three" makes of a sorted list: a sorted *)
(* list of one to three headers that has lost no header unless three of at *)
(* least its value remain, and whose first header changes only for a       *)
(* strictly better one.                                                    *)
(***************************************************************************)
LEMMA RankedProperties ==
    ASSUME NEW S, NEW h, \A g \in S \cup {h} : g.value \in Nat,
           NEW hs \in Seq(S), Len(hs) \in 0 .. 3,
           \A i, j \in 1 .. Len(hs) : i <= j => hs[i].value >= hs[j].value
    PROVE  LET r == Ranked(hs, h) IN
           /\ r \in Seq(S \cup {h})
           /\ Len(r) \in 1 .. 3
           /\ \A i, j \in 1 .. Len(r) : i <= j => r[i].value >= r[j].value
           /\ \A i \in 1 .. Len(hs) :
                \/ \E j \in 1 .. Len(r) : r[j] = hs[i]
                \/ Len(r) = 3 /\ \A j \in 1 .. 3 : r[j].value >= hs[i].value
           /\ \/ \E j \in 1 .. Len(r) : r[j] = h
              \/ Len(r) = 3 /\ \A j \in 1 .. 3 : r[j].value >= h.value
           /\ Len(hs) > 0 => r[1] = hs[1] \/ r[1].value > hs[1].value
           /\ Len(hs) = 3 => Len(r) = 3
           /\ \A i \in 1 .. Len(r) : i <= Len(hs) => r[i].value >= hs[i].value
<1> DEFINE k == Position(hs, h.value)
           n == IF Len(hs) < 3 THEN Len(hs) + 1 ELSE 3
           r == Ranked(hs, h)
<1>1. /\ k \in 0 .. Len(hs)
      /\ \A i \in 1 .. k : hs[i].value >= h.value
      /\ \A i \in (k + 1) .. Len(hs) : hs[i].value < h.value
  BY PositionExists
<1>2. /\ n \in 1 .. 3
      /\ r = [i \in 1 .. n |-> IF i <= k THEN hs[i]
                               ELSE IF i = k + 1 THEN h ELSE hs[i - 1]]
  BY DEF Ranked
<1>3. \A i \in 1 .. Len(hs) : hs[i] \in S /\ hs[i].value \in Nat
  OBVIOUS
<1> HIDE DEF k, r
<1>4. r \in Seq(S \cup {h}) /\ Len(r) = n
  <2>1. \A i \in 1 .. n : r[i] \in S \cup {h}
    BY <1>1, <1>2, <1>3
  <2> HIDE DEF n
  <2>2. r \in [1 .. n -> S \cup {h}]
    BY <1>2, <2>1
  <2>3. n \in Nat
    BY <1>2
  <2> QED BY <2>2, <2>3
<1> HIDE DEF n
<1>5. /\ n \in {1, 2, 3} /\ n = IF Len(hs) < 3 THEN Len(hs) + 1 ELSE 3
      /\ \A i \in 1 .. n : r[i] = IF i <= k THEN hs[i]
                                  ELSE IF i = k + 1 THEN h ELSE hs[i - 1]
  BY <1>2 DEF n
<1>6. \A i, j \in 1 .. n : i <= j => r[i].value >= r[j].value
  <2> SUFFICES ASSUME NEW i \in 1 .. n, NEW j \in 1 .. n, i < j
               PROVE  r[i].value >= r[j].value
    <3>1. \A i \in 1 .. n : r[i].value \in Nat
      BY <1>1, <1>3, <1>5
    <3> QED BY <3>1
  <2>1. CASE j <= k
    BY <1>1, <1>3, <1>5, <2>1
  <2>2. CASE j = k + 1
    BY <1>1, <1>3, <1>5, <2>2
  <2>3. CASE j > k + 1 /\ i <= k
    BY <1>1, <1>3, <1>5, <2>3
  <2>4. CASE j > k + 1 /\ i = k + 1
    <3>1. j - 1 \in (k + 1) .. Len(hs)
      BY <1>1, <1>5, <2>4
    <3>2. r[j] = hs[j - 1] /\ r[i] = h
      BY <1>1, <1>5, <2>4
    <3>3. hs[j - 1].value < h.value /\ hs[j - 1].value \in Nat
      BY <1>1, <1>3, <3>1
    <3> QED BY <3>2, <3>3
  <2>5. CASE i > k + 1
    BY <1>1, <1>3, <1>5, <2>5
  <2> QED BY <1>1, <2>1, <2>2, <2>3, <2>4, <2>5
<1>7. ASSUME NEW i \in 1 .. Len(hs)
      PROVE  \/ \E j \in 1 .. n : r[j] = hs[i]
             \/ n = 3 /\ \A j \in 1 .. 3 : r[j].value >= hs[i].value
  <2>1. CASE i <= k /\ i <= n
    BY <1>1, <1>5, <2>1
  <2>2. CASE i > k /\ i + 1 <= n
    <3>1. r[i + 1] = hs[i] /\ i + 1 \in 1 .. n
      BY <1>1, <1>5, <2>2
    <3> QED BY <3>1
  <2>3. CASE i > k /\ i + 1 > n
    <3>1. n = 3 /\ i = 3 /\ Len(hs) = 3
      <4>1. i \in Nat /\ i <= Len(hs) /\ Len(hs) \in {0, 1, 2, 3}
        OBVIOUS
      <4>2. n \in {1, 2, 3} /\ i + 1 > n
        BY <1>5, <2>3
      <4>3. (Len(hs) < 3 => n = Len(hs) + 1) /\ (~ (Len(hs) < 3) => n = 3)
        BY <1>5
      <4> QED BY <4>1, <4>2, <4>3
    <3>2. \A j \in 1 .. 3 : r[j] = h \/ \E m \in 1 .. 3 : r[j] = hs[m]
      BY <1>1, <1>5, <3>1
    <3>3. \A m \in 1 .. 3 : hs[m].value >= hs[3].value
      BY <3>1
    <3>4. h.value >= hs[3].value
      BY <1>1, <1>3, <2>3, <3>1
    <3> QED BY <3>1, <3>2, <3>3, <3>4
  <2> QED BY <1>1, <1>5, <2>1, <2>2, <2>3
<1>8. \/ \E j \in 1 .. n : r[j] = h
      \/ n = 3 /\ \A j \in 1 .. 3 : r[j].value >= h.value
  <2>1. CASE k + 1 <= n
    BY <1>1, <1>5, <2>1
  <2>2. CASE k + 1 > n
    <3>1. n = 3 /\ k = 3
      BY <1>1, <1>5, <2>2
    <3> QED BY <1>1, <1>5, <3>1
  <2> QED BY <1>1, <1>5, <2>1, <2>2
<1>9. Len(hs) > 0 => r[1] = hs[1] \/ r[1].value > hs[1].value
  BY <1>1, <1>3, <1>5
<1>10. ASSUME NEW i \in 1 .. n, i <= Len(hs)
       PROVE  r[i].value >= hs[i].value
  <2>1. CASE i <= k
    BY <1>1, <1>3, <1>5, <2>1
  <2>2. CASE i = k + 1
    BY <1>1, <1>3, <1>5, <1>10, <2>2
  <2>3. CASE i > k + 1
    BY <1>1, <1>3, <1>5, <1>10, <2>3
  <2> QED BY <1>1, <2>1, <2>2, <2>3
<1> QED BY <1>4, <1>5, <1>6, <1>7, <1>8, <1>9, <1>10 DEF r

-----------------------------------------------------------------------------
(***************************************************************************)
(* The inductive invariant.  BestThreeKept needs the shape of the lists,   *)
(* or the truncation could drop the wrong header, and NoneAhead: a header  *)
(* of a later slot than lastSlot could be deleted by a clean-up whose      *)
(* subtraction wraps around.                                               *)
(***************************************************************************)
NoneAhead == \A h \in added : h.slot <= lastSlot

StoreInv == StoreTypeOK /\ NoneAhead /\ BestThreeKept

LEMMA StoreInitInv == StoreInit => StoreInv
BY WidthAssumption DEF StoreInit, StoreInv, StoreTypeOK, NoneAhead, BestThreeKept

(***************************************************************************)
(* What one AddSlotHeader does to the list of the slot it adds to.         *)
(***************************************************************************)
LEMMA ListForm ==
    ASSUME StoreInv, NEW h \in Headers
    PROVE  LET hs == HeadersOf(h.slot) IN
           /\ hs \in Seq(added)
           /\ Len(hs) \in 0 .. 3
           /\ \A i \in 1 .. Len(hs) : hs[i].slot = h.slot
           /\ \A i, j \in 1 .. Len(hs) : i <= j => hs[i].value >= hs[j].value
           /\ \A g \in added \cup {h} : g.value \in Nat
           /\ \A i \in 1 .. Len(Ranked(hs, h)) : Ranked(hs, h)[i].slot = h.slot
<1> DEFINE hs == HeadersOf(h.slot)
<1>1. /\ hs \in Seq(added)
      /\ Len(hs) \in 0 .. 3
      /\ \A i \in 1 .. Len(hs) : hs[i].slot = h.slot
      /\ \A i, j \in 1 .. Len(hs) : i <= j => hs[i].value >= hs[j].value
  BY DEF StoreInv, StoreTypeOK, HeadersOf
<1>2. \A g \in added \cup {h} : g.value \in Nat
  BY HeaderAssumption DEF StoreInv, StoreTypeOK
<1> HIDE DEF hs
<1>3. Position(hs, h.value) \in 0 .. Len(hs)
  BY <1>1, <1>2, PositionExists
<1>4. \A i \in 1 .. Len(Ranked(hs, h)) : Ranked(hs, h)[i].slot = h.slot
  BY <1>1, <1>3 DEF Ranked
<1> QED BY <1>1, <1>2, <1>4 DEF hs

LEMMA StoreStepType ==
    ASSUME StoreInv, NEW h \in Headers, AddSlotHeader(h)
    PROVE  StoreTypeOK' /\ NoneAhead'
<1> DEFINE hs == HeadersOf(h.slot)
<1> USE DEF AddSlotHeader, TooOld
<1>1. /\ lastSlot' = h.slot /\ lastSlot <= h.slot
      /\ lastSlot \in 0 .. Modulus - 1 /\ h.slot \in 0 .. Modulus - 1
      /\ added' = added \cup {h} /\ added' \subseteq Headers
      /\ \A g \in added : g.slot \in 0 .. Modulus - 1
  BY HeaderAssumption, WidthAssumption DEF StoreInv, StoreTypeOK
<1>2. NoneAhead'
  BY <1>1 DEF NoneAhead, StoreInv
<1>3. DOMAIN selectedSlotHeaders' \subseteq 0 .. lastSlot'
  BY <1>1 DEF StoreInv, StoreTypeOK
<1>4. ASSUME NEW s \in DOMAIN selectedSlotHeaders'
      PROVE  LET r == selectedSlotHeaders'[s] IN
             /\ r \in Seq(added')
             /\ Len(r) \in 1 .. 3
             /\ \A i \in 1 .. Len(r) : r[i].slot = s
             /\ \A i, j \in 1 .. Len(r) : i <= j => r[i].value >= r[j].value
  <2>1. CASE s = h.slot
    <3>1. selectedSlotHeaders'[s] = Ranked(hs, h)
      BY <2>1, <1>4
    <3>2. /\ hs \in Seq(added) /\ Len(hs) \in 0 .. 3
          /\ \A i, j \in 1 .. Len(hs) : i <= j => hs[i].value >= hs[j].value
          /\ \A g \in added \cup {h} : g.value \in Nat
          /\ \A i \in 1 .. Len(Ranked(hs, h)) : Ranked(hs, h)[i].slot = h.slot
      BY ListForm
    <3> HIDE DEF hs
    <3>3. /\ Ranked(hs, h) \in Seq(added \cup {h})
          /\ Len(Ranked(hs, h)) \in 1 .. 3
          /\ \A i, j \in 1 .. Len(Ranked(hs, h)) :
                i <= j => Ranked(hs, h)[i].value >= Ranked(hs, h)[j].value
      BY <3>2, RankedProperties
    <3> QED BY <2>1, <1>1, <3>1, <3>2, <3>3
  <2>2. CASE s # h.slot
    <3>1. s \in DOMAIN selectedSlotHeaders
          /\ selectedSlotHeaders'[s] = selectedSlotHeaders[s]
      BY <2>2, <1>4
    <3>2. \A q \in Seq(added) : q \in Seq(added')
      BY <1>1
    <3> QED BY <3>1, <3>2 DEF StoreInv, StoreTypeOK
  <2> QED BY <2>1, <2>2
<1>5. lastSlot' \in 0 .. Modulus - 1
  BY <1>1
<1> QED BY <1>1, <1>2, <1>3, <1>4, <1>5 DEF StoreTypeOK

LEMMA StoreStepBest ==
    ASSUME StoreInv, NEW h \in Headers, AddSlotHeader(h)
    PROVE  BestThreeKept'
<1> DEFINE hs == HeadersOf(h.slot)
           r  == Ranked(hs, h)
<1> USE DEF AddSlotHeader, TooOld
<1> SUFFICES ASSUME NEW g \in added', g.slot >= Horizon,
                    g.slot + Horizon >= lastSlot'
             PROVE  /\ g.slot \in DOMAIN selectedSlotHeaders'
                    /\ \/ \E i \in DOMAIN selectedSlotHeaders'[g.slot] :
                                      selectedSlotHeaders'[g.slot][i] = g
                       \/ /\ Len(selectedSlotHeaders'[g.slot]) = 3
                          /\ \A i \in 1 .. 3 :
                              selectedSlotHeaders'[g.slot][i].value >= g.value
  BY DEF BestThreeKept, Stored
<1>1. /\ lastSlot' = h.slot /\ lastSlot <= h.slot
      /\ lastSlot \in Nat /\ h.slot \in Nat /\ g.slot \in Nat
      /\ added' = added \cup {h} /\ g.slot <= h.slot /\ Horizon \in Nat
  BY HeaderAssumption, WidthAssumption DEF StoreInv, StoreTypeOK, NoneAhead
<1>2. ~ Expired(g.slot, h.slot)
  BY <1>1 DEF Expired, Minus
<1>3. CASE g.slot = h.slot
  <2>1. g.slot \in DOMAIN selectedSlotHeaders' /\ selectedSlotHeaders'[g.slot] = r
    BY <1>2, <1>3
  <2>2. /\ hs \in Seq(added) /\ Len(hs) \in 0 .. 3
        /\ \A i, j \in 1 .. Len(hs) : i <= j => hs[i].value >= hs[j].value
        /\ \A f \in added \cup {h} : f.value \in Nat
    BY ListForm
  <2>3. /\ r \in Seq(added \cup {h})
        /\ \A i \in 1 .. Len(hs) :
             \/ \E j \in 1 .. Len(r) : r[j] = hs[i]
             \/ Len(r) = 3 /\ \A j \in 1 .. 3 : r[j].value >= hs[i].value
        /\ \/ \E j \in 1 .. Len(r) : r[j] = h
           \/ Len(r) = 3 /\ \A j \in 1 .. 3 : r[j].value >= h.value
        /\ Len(hs) = 3 => Len(r) = 3
        /\ \A i \in 1 .. Len(r) : i <= Len(hs) => r[i].value >= hs[i].value
    <3> HIDE DEF hs
    <3> QED BY <2>2, RankedProperties
  <2>4. CASE g = h
    BY <2>1, <2>3, <2>4
  <2>5. CASE g \in added
    <3>1. /\ g.slot \in DOMAIN selectedSlotHeaders
          /\ hs = selectedSlotHeaders[g.slot]
          /\ \/ \E i \in 1 .. Len(hs) : hs[i] = g
             \/ Len(hs) = 3 /\ \A i \in 1 .. 3 : hs[i].value >= g.value
      BY <1>1, <1>3, <2>5
      DEF StoreInv, StoreTypeOK, BestThreeKept, Stored, HeadersOf
    <3> HIDE DEF hs, r
    <3>2. CASE \E i \in 1 .. Len(hs) : hs[i] = g
      BY <2>1, <2>3, <3>2
    <3>3. CASE Len(hs) = 3 /\ \A i \in 1 .. 3 : hs[i].value >= g.value
      <4>1. Len(r) = 3 /\ Len(hs) = 3
        BY <2>3, <3>3
      <4>2. ASSUME NEW i \in 1 .. 3
            PROVE  /\ r[i].value \in Nat /\ hs[i].value \in Nat
                   /\ r[i].value >= hs[i].value
        <5>1. i \in 1 .. Len(r) /\ i \in 1 .. Len(hs) /\ i <= Len(hs)
          BY <4>1
        <5>2. r[i] \in added \cup {h} /\ hs[i] \in added
          BY <2>2, <2>3, <5>1
        <5> QED BY <2>2, <2>3, <5>1, <5>2
      <4>3. g.value \in Nat
        BY <2>2, <2>5
      <4> QED BY <2>1, <3>3, <4>1, <4>2, <4>3
    <3> QED BY <3>1, <3>2, <3>3
  <2> QED BY <1>1, <2>4, <2>5
<1>4. CASE g.slot # h.slot
  <2>1. /\ g \in added /\ g.slot + Horizon >= lastSlot
    BY <1>1, <1>4
  <2>2. /\ g.slot \in DOMAIN selectedSlotHeaders
        /\ \/ \E i \in DOMAIN selectedSlotHeaders[g.slot] :
                                      selectedSlotHeaders[g.slot][i] = g
           \/ /\ Len(selectedSlotHeaders[g.slot]) = 3
              /\ \A i \in 1 .. 3 :
                              selectedSlotHeaders[g.slot][i].value >= g.value
    BY <2>1 DEF StoreInv, BestThreeKept, Stored
  <2>3. /\ g.slot \in DOMAIN selectedSlotHeaders'
        /\ selectedSlotHeaders'[g.slot] = selectedSlotHeaders[g.slot]
    BY <1>2, <1>4, <2>2
  <2> QED BY <2>2, <2>3
<1> QED BY <1>3, <1>4

LEMMA StoreStepSelection ==
    ASSUME StoreInv, NEW h \in Headers, AddSlotHeader(h),
           NEW s \in DOMAIN selectedSlotHeaders \cap DOMAIN selectedSlotHeaders',
           selectedSlotHeaders'[s][1] # selectedSlotHeaders[s][1]
    PROVE  selectedSlotHeaders'[s][1].value > selectedSlotHeaders[s][1].value
<1> DEFINE hs == HeadersOf(h.slot)
<1>1. s = h.slot /\ hs = selectedSlotHeaders[s]
      /\ selectedSlotHeaders'[s] = Ranked(hs, h)
  BY DEF AddSlotHeader, HeadersOf
<1>2. /\ hs \in Seq(added) /\ Len(hs) \in 0 .. 3
      /\ \A i, j \in 1 .. Len(hs) : i <= j => hs[i].value >= hs[j].value
      /\ \A f \in added \cup {h} : f.value \in Nat
  BY ListForm
<1>3. Len(hs) > 0
  BY <1>1 DEF StoreInv, StoreTypeOK
<1> HIDE DEF hs
<1>4. Ranked(hs, h)[1] = hs[1] \/ Ranked(hs, h)[1].value > hs[1].value
  BY <1>2, <1>3, RankedProperties
<1> QED BY <1>1, <1>4

-----------------------------------------------------------------------------
(***************************************************************************)
(* The inductive invariant holds of every behaviour of the store.          *)
(***************************************************************************)
THEOREM StoreInvariant == StoreSpec => []StoreInv
<1>1. StoreInv /\ [StoreNext]_storeVars => StoreInv'
  <2> SUFFICES ASSUME StoreInv, [StoreNext]_storeVars PROVE StoreInv'
    OBVIOUS
  <2>1. ASSUME NEW h \in Headers, AddSlotHeader(h) PROVE StoreInv'
    BY <2>1, StoreStepType, StoreStepBest DEF StoreInv
  <2>2. CASE UNCHANGED storeVars
    BY <2>2 DEF storeVars, StoreInv, StoreTypeOK, NoneAhead, BestThreeKept,
                Stored
  <2> QED BY <2>1, <2>2 DEF StoreNext
<1> QED BY StoreInitInv, <1>1, PTL DEF StoreSpec

(***************************************************************************)
(* The map holds one to three headers for each of its slots, sorted by     *)
(* value: reading element 0 of a slot that is there never fails.           *)
(***************************************************************************)
THEOREM StoreTypeCorrect == StoreSpec => []StoreTypeOK
BY StoreInvariant, PTL DEF StoreInv

(***************************************************************************)
(* An accepted header of the last two epochs is still stored, or three     *)
(* headers at least as valuable are.                                       *)
(***************************************************************************)
THEOREM BestHeadersKept == StoreSpec => []BestThreeKept
BY StoreInvariant, PTL DEF StoreInv

(***************************************************************************)
(* The selected header of a slot is replaced only by a better one.         *)
(***************************************************************************)
THEOREM SelectionImproves == StoreSpec => SelectionOnlyImproves
<1> DEFINE Improves ==
        \A s \in DOMAIN selectedSlotHeaders \cap DOMAIN selectedSlotHeaders' :
            selectedSlotHeaders'[s][1] # selectedSlotHeaders[s][1] =>
               selectedSlotHeaders'[s][1].value > selectedSlotHeaders[s][1].value
<1>1. StoreInv /\ [StoreNext]_storeVars => [Improves]_storeVars
  BY StoreStepSelection DEF StoreNext
<1> QED BY <1>1, StoreInvariant, PTL DEF StoreSpec, SelectionOnlyImproves
-----------------------------------------------------------------------------
(***************************************************************************)
(* The requests.                                                           *)
(***************************************************************************)
RequestStates == {"idle", "notified", "asked", "adding", "done", "failed"}

\* what may be in a channel
Sent == Headers \cup {Unreadable}

RequestType ==
    /\ getHeader \in [HeaderRequests ->
          [state : RequestStates, capacity : Nat,
           asked : SUBSET KnownModules, outbox : [Sources -> Seq(Sent)],
           channel : Seq(Sent), result : SUBSET Headers]]
    /\ got \in [HeaderRequests -> SUBSET Sent]
    /\ getPayload \in
          [state : {"idle", "asked", "done", "failed"},
           hash : SignedBlocks \cup {0},
           module : SUBSET {h.ModuleName : h \in Headers}]

HeaderRecords ==
    [state : RequestStates, capacity : Nat, asked : SUBSET KnownModules,
     outbox : [Sources -> Seq(Sent)], channel : Seq(Sent),
     result : SUBSET Headers]

\* a step of GetHeader that leaves a record of the type for its request
LEMMA RequestTyped ==
    ASSUME RequestType, NEW q \in HeaderRequests, NEW s \in HeaderRecords,
           getHeader' = [getHeader EXCEPT ![q] = s],
           got' \in [HeaderRequests -> SUBSET Sent],
           UNCHANGED getPayload
    PROVE  RequestType'
<1>1. getHeader \in [HeaderRequests -> HeaderRecords]
  BY DEF RequestType, HeaderRecords
<1>2. getHeader' \in [HeaderRequests -> HeaderRecords]
  BY <1>1
<1>3. getPayload' \in
          [state : {"idle", "asked", "done", "failed"},
           hash : SignedBlocks \cup {0},
           module : SUBSET {h.ModuleName : h \in Headers}]
  BY DEF RequestType
<1> QED
  BY <1>2, <1>3 DEF RequestType, HeaderRecords

\* the record of a request, and the headers it got, have their types
LEMMA RecordTyped ==
    ASSUME RequestType, NEW q \in HeaderRequests
    PROVE  /\ getHeader[q] \in HeaderRecords
           /\ got \in [HeaderRequests -> SUBSET Sent]
BY DEF RequestType, HeaderRecords

(***************************************************************************)
(* The first header of a slot is worth as much as every header that was    *)
(* ever accepted for it: a slot that is in the map has not been deleted    *)
(* since its first header.                                                 *)
(***************************************************************************)
SelectionIsBest ==
    \A s \in DOMAIN selectedSlotHeaders : \A h \in added :
        h.slot = s => h.value <= selectedSlotHeaders[s][1].value

AddedWasGot == \A h \in added : \E q \in HeaderRequests : h \in got[q]

\* the headers of q that are not yet in the store
Waiting(q) ==
    ToSet(getHeader[q].channel)
        \cup UNION {ToSet(getHeader[q].outbox[m]) : m \in Sources}

(***************************************************************************)
(* Goroutines are at work only in the state asked, and one that has not    *)
(* been answered has nothing to send.                                      *)
(***************************************************************************)
AtWork(q) ==
    /\ getHeader[q].state \in {"idle", "notified"} => got[q] = {}
    /\ getHeader[q].state # "asked" =>
          /\ getHeader[q].asked = {}
          /\ \A m \in Sources : getHeader[q].outbox[m] = <<>>
    /\ \A m \in Sources \cap getHeader[q].asked :
          getHeader[q].outbox[m] = <<>>
    /\ getHeader[q].state # "done" => getHeader[q].result = {}

(***************************************************************************)
(* A header that was got is for the slot, and is in an outbox, in the      *)
(* channel or in the store, until the request fails.                       *)
(***************************************************************************)
NoneLost(q) ==
    /\ \A h \in HeadersGot(q) : h.slot = Request[q].slot
    /\ Waiting(q) \subseteq got[q]
    /\ getHeader[q].state # "failed" => got[q] \subseteq Waiting(q) \cup added

ResultBest(q) ==
    \A r \in getHeader[q].result :
        /\ r \in added /\ r.slot = Request[q].slot
        /\ \A h \in HeadersGot(q) : h.value <= r.value

FailureDue(q) ==
    getHeader[q].state = "failed" /\ Request[q].slot >= Horizon =>
        \/ got[q] = {} \/ Unreadable \in got[q]
        \/ lastSlot > Request[q].slot

RequestInv(q) == AtWork(q) /\ NoneLost(q) /\ ResultBest(q) /\ FailureDue(q)

(***************************************************************************)
(* The inductive invariant.  ResultIsBest needs that nothing is lost on    *)
(* the way to the store and that the store selects the best of what it was *)
(* given; FailsOnlyWithout and ReturnedIsKept need BestThreeKept; and      *)
(* PayloadFromBidder that the store has nothing but what sources gave.     *)
(***************************************************************************)
AggregatorInv ==
    /\ StoreInv /\ SelectionIsBest /\ ListInv
    /\ RequestType /\ AddedWasGot /\ PayloadFromBidder
    /\ \A q \in HeaderRequests : RequestInv(q)

-----------------------------------------------------------------------------
(***************************************************************************)
(* The headers in a channel before and after a receive and a send.         *)
(***************************************************************************)
LEMMA FirstTaken ==
    ASSUME NEW S, NEW s \in Seq(S), s # <<>>
    PROVE  /\ Head(s) \in S /\ Tail(s) \in Seq(S)
           /\ ToSet(s) = {Head(s)} \cup ToSet(Tail(s))
<1>1. /\ Head(s) = s[1] /\ Tail(s) \in Seq(S) /\ Len(s) \in Nat \ {0}
      /\ Len(Tail(s)) = Len(s) - 1
      /\ \A i \in 1..Len(Tail(s)) : Tail(s)[i] = s[i + 1]
  OBVIOUS
<1>2. \A i \in 2..Len(s) : i - 1 \in 1..Len(Tail(s)) /\ s[i] = Tail(s)[i - 1]
  BY <1>1
<1>3. /\ DOMAIN s = 1..Len(s) /\ DOMAIN Tail(s) = 1..Len(Tail(s))
      /\ \A i \in 1..Len(s) : i = 1 \/ i \in 2..Len(s)
      /\ \A i \in 1..Len(Tail(s)) : i + 1 \in 1..Len(s)
  BY <1>1
<1>4. ASSUME NEW i \in 1..Len(s)
      PROVE  s[i] \in {Head(s)} \cup ToSet(Tail(s))
  <2>1. CASE i = 1
    BY <2>1, <1>1
  <2>2. CASE i \in 2..Len(s)
    BY <2>2, <1>2, <1>3 DEF ToSet
  <2> QED
    BY <1>3, <2>1, <2>2
<1>5. {Head(s)} \cup ToSet(Tail(s)) \subseteq ToSet(s)
  BY <1>1, <1>3 DEF ToSet
<1>6. ToSet(s) \subseteq {Head(s)} \cup ToSet(Tail(s))
  BY <1>3, <1>4 DEF ToSet
<1> QED
  BY <1>1, <1>5, <1>6

LEMMA LastSent ==
    ASSUME NEW S, NEW s \in Seq(S), NEW e \in S
    PROVE  Append(s, e) \in Seq(S) /\ ToSet(Append(s, e)) = ToSet(s) \cup {e}
<1>1. /\ Append(s, e) \in Seq(S) /\ Len(s) \in Nat
      /\ DOMAIN s = 1..Len(s) /\ DOMAIN Append(s, e) = 1..(Len(s) + 1)
      /\ \A i \in 1..Len(s) : Append(s, e)[i] = s[i]
      /\ Append(s, e)[Len(s) + 1] = e
  OBVIOUS
<1>2. \A i \in 1..(Len(s) + 1) : i \in 1..Len(s) \/ i = Len(s) + 1
  BY <1>1
<1>3. ToSet(Append(s, e)) \subseteq ToSet(s) \cup {e}
  BY <1>1, <1>2 DEF ToSet
<1>4. \A i \in 1..Len(s) : i \in 1..(Len(s) + 1)
  BY <1>1
<1>5. Len(s) + 1 \in 1..(Len(s) + 1)
  BY <1>1
<1>6. ToSet(s) \cup {e} \subseteq ToSet(Append(s, e))
  BY <1>1, <1>4, <1>5 DEF ToSet
<1> QED
  BY <1>1, <1>3, <1>6

LEMMA NothingIn == ToSet(<<>>) = {}
  BY DEF ToSet

(***************************************************************************)
(* AddSlotHeader puts the best header of its slot first.                   *)
(***************************************************************************)
LEMMA StoreStepSelects ==
    ASSUME StoreInv, SelectionIsBest, NEW h \in Headers, AddSlotHeader(h)
    PROVE  SelectionIsBest'
<1> DEFINE hs == HeadersOf(h.slot)
           r  == Ranked(hs, h)
<1> SUFFICES ASSUME NEW s \in DOMAIN selectedSlotHeaders',
                    NEW g \in added', g.slot = s
             PROVE  g.value <= selectedSlotHeaders'[s][1].value
  BY DEF SelectionIsBest
<1>1. /\ added' = added \cup {h} /\ ~ Expired(s, h.slot)
      /\ s \in DOMAIN selectedSlotHeaders \cup {h.slot}
      /\ selectedSlotHeaders'[s] = IF s = h.slot THEN r
                                   ELSE selectedSlotHeaders[s]
  BY DEF AddSlotHeader
<1>2. CASE s # h.slot
  BY <1>1, <1>2 DEF SelectionIsBest
<1>3. CASE s = h.slot
  <2>1. /\ hs \in Seq(added) /\ Len(hs) \in 0 .. 3
        /\ \A i, j \in 1 .. Len(hs) : i <= j => hs[i].value >= hs[j].value
        /\ \A f \in added \cup {h} : f.value \in Nat
    BY ListForm
  <2>2. /\ r \in Seq(added \cup {h}) /\ Len(r) \in 1 .. 3
        /\ \A i, j \in 1 .. Len(r) : i <= j => r[i].value >= r[j].value
        /\ \/ \E j \in 1 .. Len(r) : r[j] = h
           \/ Len(r) = 3 /\ \A j \in 1 .. 3 : r[j].value >= h.value
        /\ \A i \in 1 .. Len(r) : i <= Len(hs) => r[i].value >= hs[i].value
    <3> HIDE DEF hs
    <3> QED BY <2>1, RankedProperties
  <2>3. /\ 1 \in 1 .. Len(r) /\ r[1].value \in Nat
        /\ \A j \in 1 .. Len(r) : r[j].value \in Nat
    <3> HIDE DEF r, hs
    <3> QED BY <2>1, <2>2
  <2>4. h.value <= r[1].value
    <3> HIDE DEF r, hs
    <3> QED BY <2>1, <2>2, <2>3
  <2>5. ASSUME g \in added
        PROVE  g.value <= r[1].value
    <3>1. s >= Horizon
      BY <1>1, <1>3, HeaderAssumption, WidthAssumption DEF Expired, Minus
    <3>2. g.slot + Horizon >= lastSlot
      BY <1>3, <2>5, HeaderAssumption, WidthAssumption
         DEF AddSlotHeader, TooOld, StoreInv, StoreTypeOK
    <3>3. s \in DOMAIN selectedSlotHeaders
      BY <2>5, <3>1, <3>2 DEF StoreInv, BestThreeKept
    <3>4. hs = selectedSlotHeaders[s] /\ Len(hs) \in 1 .. 3
      BY <1>3, <3>3 DEF HeadersOf, StoreInv, StoreTypeOK
    <3>5. g.value <= hs[1].value
      BY <2>5, <3>3, <3>4 DEF SelectionIsBest
    <3>6. hs[1].value \in Nat /\ g.value \in Nat /\ r[1].value >= hs[1].value
      <4> HIDE DEF r, hs
      <4> QED BY <2>1, <2>2, <2>3, <2>5, <3>4
    <3> HIDE DEF r, hs
    <3> QED BY <2>3, <3>5, <3>6
  <2> QED BY <1>1, <1>3, <2>4, <2>5
<1> QED BY <1>2, <1>3

(***************************************************************************)
(* A request that a step does not touch stays as it is: the store only     *)
(* accepts more headers, of later slots.                                   *)
(***************************************************************************)
LEMMA RequestUntouched ==
    ASSUME NEW q \in HeaderRequests, RequestInv(q), RequestType,
           getHeader'[q] = getHeader[q], got'[q] = got[q],
           added \subseteq added',
           lastSlot \in Nat, lastSlot' \in Nat, lastSlot <= lastSlot'
    PROVE  RequestInv(q)'
<1>1. AtWork(q)' /\ ResultBest(q)'
  BY DEF RequestInv, AtWork, ResultBest, HeadersGot
<1>2. NoneLost(q)'
  <2>1. Waiting(q)' = Waiting(q)
    BY DEF Waiting
  <2> QED
    BY <2>1 DEF RequestInv, NoneLost, HeadersGot
<1>3. FailureDue(q)'
  BY AggregatorAssumption DEF RequestInv, FailureDue
<1> QED
  BY <1>1, <1>2, <1>3 DEF RequestInv

(***************************************************************************)
(* What a step of one request has to show.                                 *)
(***************************************************************************)
LEMMA OneRequestStep ==
    ASSUME AggregatorInv, NEW q \in HeaderRequests,
           \A p \in HeaderRequests \ {q} :
              getHeader'[p] = getHeader[p] /\ got'[p] = got[p],
           got[q] \subseteq got'[q], added \subseteq added',
           lastSlot <= lastSlot', UNCHANGED <<listVars, getPayload>>,
           StoreInv', SelectionIsBest', RequestType', AddedWasGot',
           RequestInv(q)'
    PROVE  AggregatorInv'
<1>1. ASSUME NEW p \in HeaderRequests PROVE RequestInv(p)'
  <2>1. CASE p = q
    BY <2>1
  <2>2. CASE p # q
    <3>1. lastSlot \in Nat /\ lastSlot' \in Nat
      BY WidthAssumption DEF AggregatorInv, StoreInv, StoreTypeOK
    <3> QED
      BY <2>2, <3>1, RequestUntouched DEF AggregatorInv
  <2> QED
    BY <2>1, <2>2
<1>2. PayloadFromBidder'
  <2>1. \A p \in HeaderRequests : got[p] \subseteq got'[p]
    OBVIOUS
  <2> QED
    BY <2>1 DEF AggregatorInv, PayloadFromBidder, HeadersGot
<1>3. ListInv'
  BY DEF AggregatorInv, listVars, ListInv, ListTypeOK, SourcesDistinct,
         OneCalling, CallingIsMissing
<1> QED
  BY <1>1, <1>2, <1>3 DEF AggregatorInv

\* the store is left alone, and so are the headers that were got
LEMMA StoreUntouched ==
    ASSUME AggregatorInv, UNCHANGED <<storeVars, got>>
    PROVE  /\ StoreInv' /\ SelectionIsBest' /\ AddedWasGot'
           /\ added \subseteq added' /\ lastSlot <= lastSlot'
<1>1. StoreInv'
  BY DEF AggregatorInv, storeVars, StoreInv, StoreTypeOK, NoneAhead,
         BestThreeKept, Stored
<1>2. SelectionIsBest' /\ AddedWasGot'
  BY DEF AggregatorInv, storeVars, SelectionIsBest, AddedWasGot
<1>3. added \subseteq added' /\ lastSlot <= lastSlot'
  BY WidthAssumption DEF AggregatorInv, StoreInv, StoreTypeOK, storeVars
<1> QED
  BY <1>1, <1>2, <1>3

(***************************************************************************)
(* The channel is made and the goroutines are started: nothing is got yet. *)
(***************************************************************************)
LEMMA GetHeaderStep ==
    ASSUME AggregatorInv, NEW q \in HeaderRequests, GetHeader(q)
    PROVE  AggregatorInv'
<1>1. RequestType'
  <2> DEFINE r == getHeader[q]
             s == [r EXCEPT !.state = "notified",
                            !.capacity = Len(ConnectedBLockSources)]
  <2>1. Len(ConnectedBLockSources) \in Nat
    BY DEF AggregatorInv, ListInv, ListTypeOK
  <2>2. /\ getHeader' = [getHeader EXCEPT ![q] = s]
        /\ UNCHANGED <<got, getPayload>>
    BY DEF GetHeader
  <2>3. RequestType /\ r \in HeaderRecords
        /\ got \in [HeaderRequests -> SUBSET Sent]
    BY RecordTyped DEF AggregatorInv
  <2> HIDE DEF r
  <2>4. s \in HeaderRecords
    BY <2>1, <2>3 DEF HeaderRecords, RequestStates
  <2> HIDE DEF s
  <2> QED
    BY <2>2, <2>3, <2>4, RequestTyped
<1>2. /\ \A p \in HeaderRequests \ {q} : getHeader'[p] = getHeader[p]
      /\ getHeader[q].state = "idle" /\ getHeader'[q].state = "notified"
      /\ getHeader'[q].asked = getHeader[q].asked
      /\ getHeader'[q].outbox = getHeader[q].outbox
      /\ getHeader'[q].channel = getHeader[q].channel
      /\ getHeader'[q].result = getHeader[q].result
  BY DEF AggregatorInv, RequestType, GetHeader
<1>3. UNCHANGED <<storeVars, listVars, got, getPayload>>
  BY DEF GetHeader
<1>4. RequestInv(q)'
  BY <1>2, <1>3 DEF AggregatorInv, RequestInv, AtWork, NoneLost, Waiting,
     ResultBest, HeadersGot, FailureDue, storeVars
<1> QED
  BY <1>1, <1>2, <1>3, <1>4, OneRequestStep, StoreUntouched

LEMMA AskSourcesStep ==
    ASSUME AggregatorInv, NEW q \in HeaderRequests, AskSources(q)
    PROVE  AggregatorInv'
<1>1. ToSet(ConnectedBLockSources) \in SUBSET KnownModules
  BY DEF AggregatorInv, ListInv, ListTypeOK, ToSet
<1>2. RequestType'
  <2> DEFINE r == getHeader[q]
             s == [r EXCEPT !.state = "asked",
                            !.asked = ToSet(ConnectedBLockSources)]
  <2>1. /\ getHeader' = [getHeader EXCEPT ![q] = s]
        /\ UNCHANGED <<got, getPayload>>
    BY DEF AskSources
  <2>2. RequestType /\ r \in HeaderRecords
        /\ got \in [HeaderRequests -> SUBSET Sent]
    BY RecordTyped DEF AggregatorInv
  <2> HIDE DEF r
  <2>3. s \in HeaderRecords
    BY <1>1, <2>2 DEF HeaderRecords, RequestStates
  <2> HIDE DEF s
  <2> QED
    BY <2>1, <2>2, <2>3, RequestTyped
<1>3. /\ \A p \in HeaderRequests \ {q} : getHeader'[p] = getHeader[p]
      /\ getHeader[q].state = "notified" /\ getHeader'[q].state = "asked"
      /\ getHeader'[q].outbox = getHeader[q].outbox
      /\ getHeader'[q].channel = getHeader[q].channel
      /\ getHeader'[q].result = getHeader[q].result
  BY DEF AggregatorInv, RequestType, AskSources
<1>4. UNCHANGED <<storeVars, listVars, got, getPayload>>
  BY DEF AskSources
<1>5. RequestInv(q)'
  BY <1>3, <1>4 DEF AggregatorInv, RequestInv, AtWork, NoneLost, Waiting,
     ResultBest, HeadersGot, FailureDue, storeVars
<1> QED
  BY <1>2, <1>3, <1>4, <1>5, OneRequestStep, StoreUntouched

(***************************************************************************)
(* A source answers: its headers are for the slot, and go to its outbox,   *)
(* which was empty.                                                        *)
(***************************************************************************)
LEMMA SourceAnswersStep ==
    ASSUME AggregatorInv, NEW q \in HeaderRequests, NEW m \in Sources,
           SourceAnswers(q, m)
    PROVE  AggregatorInv'
<1>1. PICK bids \in Answers :
        LET hs == [i \in DOMAIN bids |-> SlotHeader(q, m, bids[i])]
        IN  /\ getHeader' = [getHeader EXCEPT ![q].asked = @ \ {m},
                                              ![q].outbox[m] = hs]
            /\ got' = [got EXCEPT ![q] = @ \cup ToSet(hs)]
  BY DEF SourceAnswers
<1> DEFINE hs == [i \in DOMAIN bids |-> SlotHeader(q, m, bids[i])]
<1>2. /\ hs \in Seq(Sent)
      /\ \A h \in ToSet(hs) : h = Unreadable \/ h.slot = Request[q].slot
  <2>1. /\ Len(bids) \in Nat /\ DOMAIN bids = 1..Len(bids)
        /\ \A i \in DOMAIN bids : SlotHeader(q, m, bids[i]) \in Sent
    BY AggregatorAssumption DEF Sent
  <2>2. \A i \in DOMAIN bids :
            \/ SlotHeader(q, m, bids[i]) = Unreadable
            \/ SlotHeader(q, m, bids[i]).slot = Request[q].slot
    BY DEF SlotHeader
  <2> QED
    BY <2>1, <2>2 DEF ToSet
<1>3. /\ getHeader' = [getHeader EXCEPT ![q].asked = @ \ {m},
                                        ![q].outbox[m] = hs]
      /\ got' = [got EXCEPT ![q] = @ \cup ToSet(hs)]
      /\ m \in getHeader[q].asked
      /\ UNCHANGED <<storeVars, listVars, getPayload>>
  BY <1>1 DEF SourceAnswers
<1> HIDE DEF hs
<1>4. RequestType'
  <2> DEFINE r == getHeader[q]
             s == [r EXCEPT !.asked = @ \ {m}, !.outbox[m] = hs]
  <2>1. getHeader' = [getHeader EXCEPT ![q] = s] /\ UNCHANGED getPayload
    BY <1>3
  <2>2. RequestType /\ r \in HeaderRecords
    BY RecordTyped DEF AggregatorInv
  <2>3. got' \in [HeaderRequests -> SUBSET Sent]
    <3>1. ToSet(hs) \subseteq Sent
      BY <1>2 DEF ToSet
    <3> QED
      BY <3>1, <1>3 DEF AggregatorInv, RequestType
  <2> HIDE DEF r
  <2>4. s \in HeaderRecords
    BY <1>2, <2>2 DEF HeaderRecords
  <2> HIDE DEF s
  <2> QED
    BY <2>1, <2>2, <2>3, <2>4, RequestTyped
<1>5. /\ \A p \in HeaderRequests \ {q} :
            getHeader'[p] = getHeader[p] /\ got'[p] = got[p]
      /\ got'[q] = got[q] \cup ToSet(hs)
      /\ getHeader'[q].state = getHeader[q].state
      /\ getHeader'[q].asked = getHeader[q].asked \ {m}
      /\ \A n \in Sources : getHeader'[q].outbox[n] =
                               IF n = m THEN hs ELSE getHeader[q].outbox[n]
      /\ getHeader'[q].channel = getHeader[q].channel
      /\ getHeader'[q].result = getHeader[q].result
  BY <1>3 DEF AggregatorInv, RequestType
<1>6. getHeader[q].state = "asked" /\ getHeader[q].outbox[m] = <<>>
      /\ getHeader[q].result = {}
  BY <1>3 DEF AggregatorInv, RequestInv, AtWork
<1>7. AtWork(q)' /\ ResultBest(q)' /\ FailureDue(q)'
  BY <1>5, <1>6 DEF AggregatorInv, RequestInv, AtWork, ResultBest,
                    HeadersGot, FailureDue
<1>8. NoneLost(q)'
  <2>1. Waiting(q)' = Waiting(q) \cup ToSet(hs)
    BY <1>5, <1>6, NothingIn DEF Waiting
  <2> QED
    BY <2>1, <1>2, <1>3, <1>5
       DEF AggregatorInv, RequestInv, NoneLost, HeadersGot, storeVars
<1>9. StoreInv' /\ SelectionIsBest' /\ AddedWasGot'
      /\ added \subseteq added' /\ lastSlot <= lastSlot'
  <2>1. \A p \in HeaderRequests : got[p] \subseteq got'[p]
    BY <1>5
  <2>2. StoreInv'
    BY <1>3 DEF AggregatorInv, storeVars, StoreInv, StoreTypeOK, NoneAhead,
                BestThreeKept, Stored
  <2>3. SelectionIsBest' /\ AddedWasGot'
    BY <1>3, <2>1 DEF AggregatorInv, storeVars, SelectionIsBest, AddedWasGot
  <2>4. added \subseteq added' /\ lastSlot <= lastSlot'
    BY <1>3, WidthAssumption
       DEF AggregatorInv, StoreInv, StoreTypeOK, storeVars
  <2> QED
    BY <2>2, <2>3, <2>4
<1> QED
  BY <1>3, <1>4, <1>5, <1>7, <1>8, <1>9, OneRequestStep DEF RequestInv

(***************************************************************************)
(* A goroutine moves a header from its outbox to the channel.              *)
(***************************************************************************)
LEMMA SendResultStep ==
    ASSUME AggregatorInv, NEW q \in HeaderRequests, NEW m \in Sources,
           SendResult(q, m)
    PROVE  AggregatorInv'
<1> DEFINE out == getHeader[q].outbox[m]
<1>1. /\ out \in Seq(Sent) /\ out # <<>>
      /\ getHeader[q].channel \in Seq(Sent)
      /\ UNCHANGED <<storeVars, listVars, got, getPayload>>
  BY DEF AggregatorInv, RequestType, SendResult
<1>2. /\ Head(out) \in Sent /\ Tail(out) \in Seq(Sent)
      /\ ToSet(out) = {Head(out)} \cup ToSet(Tail(out))
      /\ Append(getHeader[q].channel, Head(out)) \in Seq(Sent)
      /\ ToSet(Append(getHeader[q].channel, Head(out)))
            = ToSet(getHeader[q].channel) \cup {Head(out)}
  BY <1>1, FirstTaken, LastSent
<1>3. RequestType'
  BY <1>1, <1>2 DEF AggregatorInv, RequestType, SendResult
<1>4. /\ \A p \in HeaderRequests \ {q} : getHeader'[p] = getHeader[p]
      /\ getHeader'[q].state = getHeader[q].state
      /\ getHeader'[q].asked = getHeader[q].asked
      /\ \A n \in Sources : getHeader'[q].outbox[n] =
                         IF n = m THEN Tail(out) ELSE getHeader[q].outbox[n]
      /\ getHeader'[q].channel = Append(getHeader[q].channel, Head(out))
      /\ getHeader'[q].result = getHeader[q].result
  BY DEF AggregatorInv, RequestType, SendResult
<1> HIDE DEF out
<1>5. getHeader[q].state = "asked" /\ m \notin getHeader[q].asked
  BY <1>1 DEF AggregatorInv, RequestInv, AtWork, out
<1>6. AtWork(q)' /\ ResultBest(q)' /\ FailureDue(q)'
  BY <1>1, <1>4, <1>5
     DEF AggregatorInv, RequestInv, AtWork, ResultBest, HeadersGot,
         FailureDue, storeVars
<1>7. NoneLost(q)'
  <2>1. Waiting(q)' = Waiting(q)
    BY <1>2, <1>4 DEF Waiting, out
  <2> QED
    BY <2>1, <1>1, <1>4
       DEF AggregatorInv, RequestInv, NoneLost, HeadersGot, storeVars
<1> QED
  BY <1>1, <1>3, <1>4, <1>6, <1>7, OneRequestStep, StoreUntouched
     DEF RequestInv

(***************************************************************************)
(* wg.Wait returns: every header that was got is in the channel.           *)
(***************************************************************************)
LEMMA AllSentStep ==
    ASSUME AggregatorInv, NEW q \in HeaderRequests, AllSent(q)
    PROVE  AggregatorInv'
<1>1. RequestType'
  <2> DEFINE r == getHeader[q]
             s == [r EXCEPT !.state = "adding"]
  <2>1. /\ getHeader' = [getHeader EXCEPT ![q] = s]
        /\ UNCHANGED <<got, getPayload>>
    BY DEF AllSent
  <2>2. RequestType /\ r \in HeaderRecords
        /\ got \in [HeaderRequests -> SUBSET Sent]
    BY RecordTyped DEF AggregatorInv
  <2> HIDE DEF r
  <2>3. s \in HeaderRecords
    BY <2>2 DEF HeaderRecords, RequestStates
  <2> HIDE DEF s
  <2> QED
    BY <2>1, <2>2, <2>3, RequestTyped
<1>2. /\ \A p \in HeaderRequests \ {q} : getHeader'[p] = getHeader[p]
      /\ getHeader[q].state = "asked" /\ getHeader'[q].state = "adding"
      /\ getHeader'[q].asked = {}
      /\ getHeader'[q].outbox = getHeader[q].outbox
      /\ \A m \in Sources : getHeader[q].outbox[m] = <<>>
      /\ getHeader'[q].channel = getHeader[q].channel
      /\ getHeader'[q].result = getHeader[q].result
  BY DEF AggregatorInv, RequestType, AllSent
<1>3. UNCHANGED <<storeVars, listVars, got, getPayload>>
  BY DEF AllSent
<1>4. RequestInv(q)'
  BY <1>2, <1>3 DEF AggregatorInv, RequestInv, AtWork, NoneLost, Waiting,
     ResultBest, HeadersGot, FailureDue, storeVars
<1> QED
  BY <1>1, <1>2, <1>3, <1>4, OneRequestStep, StoreUntouched

(***************************************************************************)
(* processNewBid: the header goes from the channel to the store, or the    *)
(* store has a header of a later slot and the request fails.               *)
(***************************************************************************)
LEMMA ProcessNewBidStep ==
    ASSUME AggregatorInv, NEW q \in HeaderRequests, ProcessNewBid(q)
    PROVE  AggregatorInv'
<1> DEFINE h == Head(getHeader[q].channel)
           rest == Tail(getHeader[q].channel)
<1>1. /\ getHeader[q].channel \in Seq(Sent) /\ getHeader[q].channel # <<>>
      /\ getHeader[q].state = "adding"
      /\ UNCHANGED <<listVars, got, getPayload>>
  BY DEF AggregatorInv, RequestType, ProcessNewBid
<1>2. /\ h \in Sent /\ rest \in Seq(Sent)
      /\ ToSet(getHeader[q].channel) = {h} \cup ToSet(rest)
  BY <1>1, FirstTaken
<1>3. h \in got[q] /\ (h # Unreadable => h.slot = Request[q].slot)
  BY <1>2 DEF AggregatorInv, RequestInv, NoneLost, HeadersGot, Waiting
<1>4. CASE h = Unreadable \/ TooOld(h)
  <2>1. UNCHANGED storeVars
    BY <1>4 DEF ProcessNewBid
  <2>2. RequestType'
    <3>1. getHeader' = [getHeader EXCEPT ![q].state = "failed"]
      BY <1>4 DEF ProcessNewBid
    <3> QED
      BY <1>1, <3>1 DEF AggregatorInv, RequestType, RequestStates
  <2>3. /\ \A p \in HeaderRequests \ {q} : getHeader'[p] = getHeader[p]
        /\ getHeader'[q].state = "failed"
        /\ getHeader'[q].asked = getHeader[q].asked
        /\ getHeader'[q].outbox = getHeader[q].outbox
        /\ getHeader'[q].channel = getHeader[q].channel
        /\ getHeader'[q].result = getHeader[q].result
    BY <1>4 DEF AggregatorInv, RequestType, ProcessNewBid
  <2>4. Unreadable \in got[q] \/ lastSlot > Request[q].slot
    BY <1>3, <1>4, AggregatorAssumption, WidthAssumption
       DEF TooOld, AggregatorInv, StoreInv, StoreTypeOK
  <2>5. RequestInv(q)'
    BY <1>1, <2>1, <2>3, <2>4 DEF AggregatorInv, RequestInv, AtWork,
       NoneLost, Waiting, ResultBest, HeadersGot, FailureDue, storeVars
  <2> QED
    BY <1>1, <2>1, <2>2, <2>3, <2>5, OneRequestStep, StoreUntouched
<1>5. CASE h # Unreadable /\ ~ TooOld(h)
  <2> h \in Headers
    BY <1>2, <1>5 DEF Sent
  <2>1. AddSlotHeader(h)
    BY <1>5 DEF ProcessNewBid
  <2>2. /\ added' = added \cup {h} /\ lastSlot <= lastSlot'
        /\ lastSlot' = h.slot
    BY <2>1, HeaderAssumption, WidthAssumption, <1>2
       DEF AddSlotHeader, TooOld, AggregatorInv, StoreInv, StoreTypeOK
  <2>3. StoreInv' /\ SelectionIsBest'
    BY <2>1, <1>2, StoreStepType, StoreStepBest, StoreStepSelects
       DEF AggregatorInv, StoreInv
  <2>4. AddedWasGot'
    BY <2>2, <1>1, <1>3 DEF AggregatorInv, AddedWasGot
  <2>5. getHeader' = [getHeader EXCEPT ![q].channel = rest]
    BY <1>5 DEF ProcessNewBid
  <2> HIDE DEF h, rest
  <2>6. RequestType'
    BY <1>1, <1>2, <2>5 DEF AggregatorInv, RequestType
  <2>7. /\ \A p \in HeaderRequests \ {q} : getHeader'[p] = getHeader[p]
        /\ getHeader'[q].state = "adding"
        /\ getHeader'[q].asked = getHeader[q].asked
        /\ getHeader'[q].outbox = getHeader[q].outbox
        /\ getHeader'[q].channel = rest
        /\ getHeader'[q].result = getHeader[q].result
    BY <1>1, <2>5 DEF AggregatorInv, RequestType
  <2>8. AtWork(q)' /\ FailureDue(q)'
    BY <1>1, <2>7 DEF AggregatorInv, RequestInv, AtWork, FailureDue
  <2>9. NoneLost(q)' /\ ResultBest(q)'
    <3>1. Waiting(q) = {h} \cup Waiting(q)'
      BY <1>2, <2>7 DEF Waiting
    <3> QED
      BY <3>1, <1>1, <1>3, <2>2, <2>7
         DEF AggregatorInv, RequestInv, NoneLost, HeadersGot, ResultBest
  <2> QED
    BY <1>1, <2>2, <2>3, <2>4, <2>6, <2>7, <2>8, <2>9, OneRequestStep
       DEF RequestInv
<1> QED
  BY <1>4, <1>5

(***************************************************************************)
(* GetSelectedSlotHeaders: all that was got is in the store.  The slot is  *)
(* missing only if nothing was got, or if it is two epochs behind.         *)
(***************************************************************************)
LEMMA HeaderSelectedStep ==
    ASSUME AggregatorInv, NEW q \in HeaderRequests, HeaderSelected(q)
    PROVE  AggregatorInv'
<1> DEFINE slot == Request[q].slot
           best == selectedSlotHeaders[slot][1]
<1>1. /\ getHeader[q].state = "adding" /\ getHeader[q].channel = <<>>
      /\ UNCHANGED <<storeVars, listVars, got, getPayload>>
  BY DEF HeaderSelected
<1>2. got[q] \subseteq added
  <2>1. Waiting(q) = {}
    BY <1>1, NothingIn DEF AggregatorInv, RequestInv, AtWork, Waiting
  <2> QED
    BY <1>1, <2>1 DEF AggregatorInv, RequestInv, NoneLost
<1>3. ASSUME HasSelected(slot)
      PROVE  /\ best \in added /\ best \in Headers /\ best.slot = slot
             /\ \A h \in HeadersGot(q) : h.value <= best.value
  <2>1. best \in added /\ best.slot = slot /\ best \in Headers
    <3>1. /\ selectedSlotHeaders[slot] \in Seq(added)
          /\ Len(selectedSlotHeaders[slot]) \in 1 .. 3
          /\ \A i \in 1 .. Len(selectedSlotHeaders[slot]) :
                selectedSlotHeaders[slot][i].slot = slot
      BY <1>3 DEF HasSelected, AggregatorInv, StoreInv, StoreTypeOK
    <3>2. 1 \in 1 .. Len(selectedSlotHeaders[slot])
      BY <3>1
    <3>3. best \in added
      BY <3>1, <3>2
    <3> QED
      BY <3>1, <3>2, <3>3 DEF AggregatorInv, StoreInv, StoreTypeOK
  <2>2. \A h \in HeadersGot(q) : h.value <= best.value
    BY <1>2, <1>3 DEF HasSelected, AggregatorInv, SelectionIsBest,
                      RequestInv, NoneLost, HeadersGot
  <2> QED
    BY <2>1, <2>2
<1>4. ASSUME ~ HasSelected(slot), slot >= Horizon, got[q] # {}
      PROVE  lastSlot > slot
  <2>1. PICK h \in got[q] : h \in added /\ h.slot = slot
    <3>1. added \subseteq Headers /\ Unreadable \notin Headers
      BY AggregatorAssumption DEF AggregatorInv, StoreInv, StoreTypeOK
    <3> QED
      BY <3>1, <1>2, <1>4
         DEF AggregatorInv, RequestInv, NoneLost, HeadersGot
  <2>2. ~ (slot + Horizon >= lastSlot)
    BY <1>4, <2>1 DEF HasSelected, AggregatorInv, StoreInv, BestThreeKept
  <2>3. slot \in Nat /\ lastSlot \in Nat /\ Horizon \in Nat
    BY AggregatorAssumption, WidthAssumption
       DEF AggregatorInv, StoreInv, StoreTypeOK
  <2> QED
    BY <2>2, <2>3
<1>5. getHeader' = [getHeader EXCEPT
          ![q].state = IF HasSelected(slot) THEN "done" ELSE "failed",
          ![q].result = IF HasSelected(slot) THEN {best} ELSE {}]
  BY DEF HeaderSelected, GetSelectedSlotHeaders
<1>6. HasSelected(slot) <=> HasSelected(slot)'
  BY <1>1 DEF HasSelected, storeVars
<1> HIDE DEF slot, best
<1>7. RequestType'
  <2> DEFINE r == getHeader[q]
             state == IF HasSelected(slot) THEN "done" ELSE "failed"
             result == IF HasSelected(slot) THEN {best} ELSE {}
             s == [r EXCEPT !.state = state, !.result = result]
  <2>1. state \in RequestStates /\ result \in SUBSET Headers
    BY <1>3 DEF RequestStates
  <2>2. getHeader' = [getHeader EXCEPT ![q].state = state,
                                       ![q].result = result]
    BY <1>5
  <2> HIDE DEF state, result
  <2>3. getHeader' = [getHeader EXCEPT ![q] = s]
    BY <2>2
  <2>4. RequestType /\ r \in HeaderRecords
        /\ got \in [HeaderRequests -> SUBSET Sent]
    BY RecordTyped DEF AggregatorInv
  <2> HIDE DEF r
  <2>5. s \in HeaderRecords
    BY <2>1, <2>4 DEF HeaderRecords
  <2> HIDE DEF s
  <2> QED
    BY <1>1, <2>3, <2>4, <2>5, RequestTyped
<1>8. /\ \A p \in HeaderRequests \ {q} : getHeader'[p] = getHeader[p]
      /\ getHeader'[q].state = IF HasSelected(slot) THEN "done" ELSE "failed"
      /\ getHeader'[q].asked = getHeader[q].asked
      /\ getHeader'[q].outbox = getHeader[q].outbox
      /\ getHeader'[q].channel = getHeader[q].channel
      /\ getHeader'[q].result = IF HasSelected(slot) THEN {best} ELSE {}
  BY <1>5 DEF AggregatorInv, RequestType
<1>9. AtWork(q)' /\ NoneLost(q)'
  BY <1>1, <1>2, <1>8 DEF AggregatorInv, RequestInv, AtWork, NoneLost,
                          HeadersGot, Waiting, storeVars
<1>10. ResultBest(q)'
  BY <1>1, <1>3, <1>8 DEF ResultBest, HeadersGot, slot, storeVars
<1>11. FailureDue(q)'
  BY <1>1, <1>4, <1>8 DEF FailureDue, slot, storeVars
<1> QED
  BY <1>1, <1>7, <1>8, <1>9, <1>10, <1>11, OneRequestStep, StoreUntouched
     DEF RequestInv

(***************************************************************************)
(* getPayload: a stored header is one that a source gave to a request.     *)
(***************************************************************************)
LEMMA GetPayloadStep ==
    ASSUME AggregatorInv, \/ \E hash \in SignedBlocks : GetPayload(hash)
                          \/ PayloadAnswered
    PROVE  AggregatorInv'
<1>1. UNCHANGED <<storeVars, listVars, getHeader, got>>
  BY DEF GetPayload, PayloadAnswered
<1>2. RequestType' /\ PayloadFromBidder'
  <2>1. ASSUME NEW hash \in SignedBlocks, GetPayload(hash)
        PROVE  RequestType' /\ PayloadFromBidder'
    <3>1. CASE getPayload' =
                 [state |-> "failed", hash |-> hash, module |-> {}]
      BY <1>1, <3>1 DEF AggregatorInv, RequestType, PayloadFromBidder
    <3>2. ASSUME NEW h \in GetSlotHeaderByHash(hash),
                 getPayload' = [state |-> "asked", hash |-> hash,
                                module |-> {h.ModuleName}]
          PROVE  RequestType' /\ PayloadFromBidder'
      <4>1. h \in added /\ h.blockHash = hash
        <5>1. PICK s \in DOMAIN selectedSlotHeaders :
                h \in Stored(s) /\ h.blockHash = hash
          BY <3>2 DEF GetSlotHeaderByHash
        <5> QED
          BY <5>1 DEF Stored, AggregatorInv, StoreInv, StoreTypeOK
      <4>2. h \in Headers
        BY <4>1 DEF AggregatorInv, StoreInv, StoreTypeOK
      <4>3. RequestType'
        BY <1>1, <3>2, <4>2 DEF AggregatorInv, RequestType
      <4>4. PayloadFromBidder'
        <5>1. PICK q \in HeaderRequests : h \in got[q]
          BY <4>1 DEF AggregatorInv, AddedWasGot
        <5>2. h \in HeadersGot(q)'
          BY <1>1, <4>2, <5>1, AggregatorAssumption DEF HeadersGot
        <5> QED
          BY <3>2, <4>1, <5>2 DEF PayloadFromBidder
      <4> QED
        BY <4>3, <4>4
    <3> QED
      BY <2>1, <3>1, <3>2 DEF GetPayload
  <2>2. CASE PayloadAnswered
    <3>1. /\ getPayload' \in
               [state : {"idle", "asked", "done", "failed"},
                hash : SignedBlocks \cup {0},
                module : SUBSET {h.ModuleName : h \in Headers}]
          /\ getPayload'.hash = getPayload.hash
          /\ getPayload'.module = getPayload.module
      BY <2>2 DEF PayloadAnswered, AggregatorInv, RequestType
    <3> QED
      BY <1>1, <3>1
         DEF AggregatorInv, RequestType, PayloadFromBidder, HeadersGot
  <2> QED
    BY <2>1, <2>2
<1>3. \A q \in HeaderRequests : RequestInv(q)'
  BY <1>1 DEF AggregatorInv, RequestInv, AtWork, NoneLost, Waiting,
              ResultBest, HeadersGot, FailureDue, storeVars
<1>4. ListInv'
  BY <1>1 DEF AggregatorInv, listVars, ListInv, ListTypeOK, SourcesDistinct,
              OneCalling, CallingIsMissing
<1> QED
  BY <1>1, <1>2, <1>3, <1>4, StoreUntouched DEF AggregatorInv

(***************************************************************************)
(* Sources come and go: the requests do not notice.                        *)
(***************************************************************************)
LEMMA ListsStep ==
    ASSUME AggregatorInv, [ListNext]_listVars,
           UNCHANGED <<storeVars, getHeader, got, getPayload>>
    PROVE  AggregatorInv'
<1>1. ListInv'
  BY ListStepKeepsInv DEF AggregatorInv
<1>2. RequestType' /\ PayloadFromBidder'
  BY DEF AggregatorInv, RequestType, PayloadFromBidder, HeadersGot
<1>3. \A q \in HeaderRequests : RequestInv(q)'
  BY DEF AggregatorInv, RequestInv, AtWork, NoneLost, Waiting, ResultBest,
         HeadersGot, FailureDue, storeVars
<1> QED
  BY <1>1, <1>2, <1>3, StoreUntouched DEF AggregatorInv

LEMMA AggregatorInitInv ==
    ASSUME AggregatorInit
    PROVE  AggregatorInv
<1>1. StoreInv /\ ListInv
  BY StoreInitInv, ListInitially DEF AggregatorInit
<1>2. RequestType
  BY DEF AggregatorInit, RequestType, RequestStates
<1>3. SelectionIsBest /\ AddedWasGot /\ PayloadFromBidder
  BY DEF AggregatorInit, StoreInit, SelectionIsBest, AddedWasGot,
         PayloadFromBidder
<1>4. ASSUME NEW q \in HeaderRequests PROVE RequestInv(q)
  <2>1. Waiting(q) = {}
    BY NothingIn DEF AggregatorInit, Waiting
  <2> QED
    BY <2>1 DEF AggregatorInit, RequestInv, AtWork, NoneLost, ResultBest,
                HeadersGot, FailureDue
<1> QED
  BY <1>1, <1>2, <1>3, <1>4 DEF AggregatorInv

-----------------------------------------------------------------------------
(***************************************************************************)
(* The inductive invariant holds of every behaviour of the aggregator, for *)
(* any number of concurrent requests and of sources that come and go.      *)
(***************************************************************************)
THEOREM AggregatorInvariant == AggregatorSpec => []AggregatorInv
<1>1. ASSUME AggregatorInv, [AggregatorNext]_vars PROVE AggregatorInv'
  <2>1. CASE ListStep
    BY <1>1, <2>1, ListsStep DEF ListStep
  <2>2. ASSUME NEW q \in HeaderRequests, RequestStep(q)
        PROVE  AggregatorInv'
    BY <1>1, <2>2, GetHeaderStep, AskSourcesStep, AllSentStep,
       ProcessNewBidStep, HeaderSelectedStep, SourceAnswersStep,
       SendResultStep DEF RequestStep
  <2>3. CASE (\E hash \in SignedBlocks : GetPayload(hash)) \/ PayloadAnswered
    BY <1>1, <2>3, GetPayloadStep
  <2>4. CASE UNCHANGED vars
    BY <1>1, <2>4, ListsStep DEF vars, listVars
  <2> QED
    BY <1>1, <2>1, <2>2, <2>3, <2>4 DEF AggregatorNext
<1> QED
  BY <1>1, AggregatorInitInv, PTL DEF AggregatorSpec

(***************************************************************************)
(* getHeader returns a header worth as much as any that a source answered  *)
(* to it (backend.go:155-168).                                             *)
(***************************************************************************)
THEOREM BestResult == AggregatorSpec => []ResultIsBest
<1>1. AggregatorInv => ResultIsBest
  BY DEF AggregatorInv, RequestInv, ResultBest, ResultIsBest
<1> QED
  BY <1>1, AggregatorInvariant, PTL

(***************************************************************************)
(* getHeader fails only if nothing was got, or something unreadable, or a  *)
(* later slot came first (backend.go:159-168, bidHandling.go:10-18).       *)
(***************************************************************************)
THEOREM NoNeedlessFailure == AggregatorSpec => []FailsOnlyWithout
<1>1. AggregatorInv => FailsOnlyWithout
  BY DEF AggregatorInv, RequestInv, FailureDue, FailsOnlyWithout
<1> QED
  BY <1>1, AggregatorInvariant, PTL

(***************************************************************************)
(* A returned header stays in the store for two epochs, unless three that  *)
(* are worth as much are there.                                            *)
(***************************************************************************)
THEOREM ReturnedStays == AggregatorSpec => []ReturnedIsKept
<1>1. AggregatorInv => ReturnedIsKept
  <2> SUFFICES ASSUME AggregatorInv, NEW q \in HeaderRequests,
                      NEW r \in getHeader[q].result,
                      r.slot >= Horizon, r.slot + Horizon >= lastSlot
               PROVE  \/ r \in GetSlotHeaderByHash(r.blockHash)
                      \/ HasSelected(r.slot) /\ Displaced(r)
    BY DEF ReturnedIsKept
  <2>1. r \in added
    BY DEF AggregatorInv, RequestInv, ResultBest
  <2>2. /\ r.slot \in DOMAIN selectedSlotHeaders
        /\ \/ r \in Stored(r.slot)
           \/ /\ Len(selectedSlotHeaders[r.slot]) = 3
              /\ \A i \in 1 .. 3 :
                    selectedSlotHeaders[r.slot][i].value >= r.value
    BY <2>1 DEF AggregatorInv, StoreInv, BestThreeKept
  <2> QED
    BY <2>2 DEF GetSlotHeaderByHash, HasSelected, Displaced
<1> QED
  BY <1>1, AggregatorInvariant, PTL

(***************************************************************************)
(* The payload is asked of a module that answered a getHeader with a       *)
(* header of that hash (backend.go:183-194).                               *)
(***************************************************************************)
THEOREM PayloadsFromBidders == AggregatorSpec => []PayloadFromBidder
<1>1. AggregatorInv => PayloadFromBidder
  BY DEF AggregatorInv
<1> QED
  BY <1>1, AggregatorInvariant, PTL

(***************************************************************************)
(* While requests are served, too, no source is listed - and asked - twice *)
(* (service.go:106-145).                                                   *)
(***************************************************************************)
THEOREM NoSourceTwice == AggregatorSpec => []SourcesDistinct
<1>1. AggregatorInv => SourcesDistinct
  BY DEF AggregatorInv, ListInv
<1> QED
  BY <1>1, AggregatorInvariant, PTL

(***************************************************************************)
(* Every behaviour of the aggregator is one of its store and one of its    *)
(* lists, so that what is proved of each alone holds in the whole: the     *)
(* only headers that reach the store are those of the channel of a         *)
(* request.                                                                *)
(***************************************************************************)
THEOREM AggregatorComposes == AggregatorSpec => StoreSpec /\ ListSpec
<1>1. AggregatorInit => StoreInit /\ ListInit
  BY DEF AggregatorInit
<1>2. ASSUME AggregatorInv, [AggregatorNext]_vars
      PROVE  [StoreNext]_storeVars /\ [ListNext]_listVars
  <2>1. ASSUME NEW q \in HeaderRequests, ProcessNewBid(q)
        PROVE  [StoreNext]_storeVars /\ [ListNext]_listVars
    <3>1. Head(getHeader[q].channel) \in Sent
      BY <1>2, <2>1, FirstTaken
         DEF AggregatorInv, RequestType, ProcessNewBid
    <3> QED
      BY <2>1, <3>1 DEF ProcessNewBid, StoreNext, Sent
  <2>2. ASSUME NEW q \in HeaderRequests, RequestStep(q), ~ ProcessNewBid(q)
        PROVE  UNCHANGED <<storeVars, listVars>>
    BY <2>2 DEF RequestStep, GetHeader, AskSources, AllSent, HeaderSelected,
                SourceAnswers, SendResult
  <2>3. CASE ListStep
    BY <2>3 DEF ListStep
  <2>4. CASE \/ \E hash \in SignedBlocks : GetPayload(hash)
             \/ PayloadAnswered \/ UNCHANGED vars
    BY <2>4 DEF GetPayload, PayloadAnswered, vars
  <2> QED
    BY <1>2, <2>1, <2>2, <2>3, <2>4 DEF AggregatorNext
<1> QED
  BY <1>1, <1>2, AggregatorInvariant, PTL
     DEF AggregatorSpec, StoreSpec, ListSpec
=============================================================================
