------------------------- MODULE SourceListsProofs --------------------------
(***************************************************************************)
(* The lists of the aggregator as Go slices, for any number of sources,    *)
(* connects and requests.  What the requests report is true whatever the   *)
(* slices do; that the slices are the lists they stand for, and that       *)
(* everybody is asked or told once, holds as long as readers do not write  *)
(* into the array of the sources.                                          *)
(***************************************************************************)
EXTENDS SourceLists, SequenceTheorems, FiniteSetTheorems,
        WellFoundedInduction, TLAPS

Names == KnownModules \cup Excludable \cup {"builderApi", "blockAggregator", ""}

Slices == [array : Nat, len : Nat]

Tasks == [name : Names, state : {"called", "accepted", "done"},
          yes : BOOLEAN, read : Nat]

RequestStates ==
    {"idle", "read", "notified", "made", "asking", "done", "failed"}

\* a slice is a part of its array
Within(slice) ==
    slice.array \in 1 .. Len(arrays) /\ slice.len <= Len(arrays[slice.array])

(***************************************************************************)
(* Types: every slice is a part of its array, and a loop goes over one.    *)
(***************************************************************************)
HeapType ==
    /\ arrays \in Seq(Seq(Names))
    /\ sources \in Slices /\ Within(sources)
    /\ exclusions \in Seq(Names)
    /\ connecting \in [Connects -> {"idle", "calling", "returned"}]

RequestRecords ==
    [kind : Kinds, state : RequestStates, base : Slices, list : Slices,
     own : Seq(Names), told : SUBSET KnownModules, heard : BOOLEAN,
     capacity : Nat, loop : Slices, asked : Seq(Tasks), ok : Nat,
     members : SUBSET Names, others : SUBSET Names,
     shifted : BOOLEAN, joined : BOOLEAN]

RequestType == request \in [Requests -> RequestRecords]

(***************************************************************************)
(* What the counter of a request says of its goroutines.  The append of    *)
(* registerValidator may lose successes, but never all of them: each       *)
(* writes a length greater than 0.                                         *)
(***************************************************************************)
Counted(r) ==
    /\ \A i \in 1 .. Len(r.asked) :
          /\ r.asked[i].state = "called" => ~ r.asked[i].yes
          /\ r.asked[i].state = "accepted" => r.asked[i].yes
          /\ r.asked[i].state = "done" /\ r.asked[i].yes => r.ok > 0
    /\ r.ok > 0 => \E i \in 1 .. Len(r.asked) : r.asked[i].yes
    /\ r.state \notin {"asking", "done", "failed"} => r.asked = <<>>
    /\ r.state \in {"done", "failed"} =>
          /\ Len(r.asked) = r.loop.len
          /\ \A i \in 1 .. Len(r.asked) : r.asked[i].state = "done"

\* while nobody leaves, there are at least as many as Status asks
StatusAsks(r) ==
    r.kind = "status" /\ r.state = "asking" /\ ~ r.shifted =>
        r.loop.len <= sources.len

\* OutcomeTruth of one request
ResultTrue(q) ==
    LET r == request[q]
    IN  /\ r.kind \in {"registerValidator", "status"} /\ r.state = "failed" =>
              Accepting(q) = {}
        /\ r.kind = "registerValidator" /\ r.state = "done" =>
              Accepting(q) # {}
        /\ r.kind = "status" /\ r.state = "done" /\ ~ r.shifted =>
              Accepting(q) # {} \/ r.asked = <<>>

RequestSound(q) ==
    /\ Within(request[q].base) /\ Within(request[q].list)
    /\ Within(request[q].loop)
    /\ Len(request[q].asked) <= request[q].loop.len
    /\ Counted(request[q]) /\ StatusAsks(request[q]) /\ ResultTrue(q)

OutcomeInv ==
    /\ HeapType /\ RequestType
    /\ \A q \in Requests : RequestSound(q)

-----------------------------------------------------------------------------
(***************************************************************************)
(* No append of a reader finds room behind the sources: always so with two *)
(* sources, one of which stays.                                            *)
(***************************************************************************)
ReadersCopy ==
    \A q \in Requests : request[q].state = "read" =>
        ~ Fits(request[q].base, request[q].own)

\* the lists as the writers see them
ListsSound ==
    /\ IsInjective(Connected) /\ IsInjective(exclusions)
    /\ \A c, d \in Connects :
          connecting[c] = "calling" /\ connecting[d] = "calling" => c = d
    /\ \A c \in Connects : connecting[c] = "calling" =>
          Name[c] \notin Range(Connected)

\* a slice of the array in use does not reach behind the list in use
Behind(slice) == slice.array = sources.array => slice.len <= sources.len

\* element i of the loop: as it was read, or as it will be
Element(r, i) ==
    IF i <= Len(r.asked) THEN r.asked[i].name ELSE arrays[r.loop.array][i]

\* who is to be asked and who told, by the list that the request has
Told(q) ==
    LET r == request[q] IN
    /\ r.list = [array |-> 1, len |-> 0]
    /\ r.state \in {"idle", "read"} => ~ r.heard
    /\ r.state = "read" =>
          /\ Behind(r.base)
          /\ r.members \subseteq Range(Elements(arrays, r.base))
          /\ r.others \cap Range(Elements(arrays, r.base) \o r.own) = {}
    /\ r.state \notin {"idle", "read"} =>
          r.members \subseteq Range(r.own) /\ r.others \cap Range(r.own) = {}
    /\ r.heard => r.members \cap r.told = {} /\ r.others \subseteq r.told

Asked(q) ==
    LET r == request[q] IN
    /\ r.state \in {"read", "notified", "made"} =>
          /\ r.members \subseteq Range(Connected)
          /\ r.others \cap Range(Connected) = {}
    /\ r.state \in {"asking", "done", "failed"} =>
          /\ Len(r.asked) < r.loop.len => Behind(r.loop)
          /\ \A i, j \in 1 .. r.loop.len :
                Element(r, i) = Element(r, j) => i = j
          /\ \A m \in r.members : \E i \in 1 .. r.loop.len : Element(r, i) = m
          /\ \A i \in 1 .. r.loop.len : Element(r, i) \notin r.others

OnceSound(q) ==
    /\ request[q].others \subseteq KnownModules
    /\ request[q].kind # "status" /\ ~ request[q].shifted =>
          Told(q) /\ Asked(q)

OnceInv == ListsSound /\ \A q \in Requests : OnceSound(q)

-----------------------------------------------------------------------------
(***************************************************************************)
(* The elements of a slice.                                                *)
(***************************************************************************)
LEMMA ElementsOf ==
    ASSUME NEW heap \in Seq(Seq(Names)), NEW slice \in Slices,
           slice.array \in 1 .. Len(heap),
           slice.len <= Len(heap[slice.array])
    PROVE  /\ Elements(heap, slice) \in Seq(Names)
           /\ Len(Elements(heap, slice)) = slice.len
           /\ DOMAIN Elements(heap, slice) = 1 .. slice.len
           /\ \A i \in 1 .. slice.len :
                 Elements(heap, slice)[i] = heap[slice.array][i]
<1>1. heap[slice.array] \in Seq(Names) /\ slice.len \in Nat
  BY DEF Slices
<1> DEFINE s == heap[slice.array]  n == slice.len
<1>2. s \in Seq(Names) /\ n \in 0 .. Len(s)
  BY <1>1
<1> HIDE DEF s, n
<1>3. /\ SubSeq(s, 1, n) \in Seq(Names)
      /\ Len(SubSeq(s, 1, n)) = n
      /\ \A i \in 1 .. n : SubSeq(s, 1, n)[i] = s[i]
  BY <1>2, SubSeqProperties
<1> QED
  BY <1>2, <1>3 DEF Elements, s, n

LEMMA FunctionIsSeq ==
    ASSUME NEW S, NEW n \in Nat, NEW f \in [1 .. n -> S]
    PROVE  f \in Seq(S) /\ Len(f) = n
<1>1. f \in Seq(S)
  BY SeqDef
<1>2. DOMAIN f = 1 .. n /\ DOMAIN f = 1 .. Len(f) /\ Len(f) \in Nat
  BY <1>1
<1> QED
  BY <1>1, <1>2

(***************************************************************************)
(* What appends and disconnects do to the heap: no array gets another      *)
(* length, so that a slice stays a part of its array.                      *)
(***************************************************************************)
Kept ==
    /\ arrays' \in Seq(Seq(Names)) /\ Len(arrays) <= Len(arrays')
    /\ \A a \in 1 .. Len(arrays) : Len(arrays'[a]) = Len(arrays[a])

LEMMA Overwritten ==
    ASSUME arrays \in Seq(Seq(Names)), NEW a \in 1 .. Len(arrays),
           NEW f \in [1 .. Len(arrays[a]) -> Names],
           arrays' = [arrays EXCEPT ![a] = f]
    PROVE  /\ Kept /\ Len(arrays') = Len(arrays) /\ arrays'[a] = f
           /\ \A b \in 1 .. Len(arrays) : b # a => arrays'[b] = arrays[b]
<1>1. arrays[a] \in Seq(Names) /\ Len(arrays[a]) \in Nat
  OBVIOUS
<1>2. f \in Seq(Names) /\ Len(f) = Len(arrays[a])
  BY <1>1, FunctionIsSeq
<1>3. arrays' \in Seq(Seq(Names)) /\ Len(arrays') = Len(arrays)
  BY <1>2
<1> QED
  BY <1>2, <1>3 DEF Kept

LEMMA Extended ==
    ASSUME arrays \in Seq(Seq(Names)), NEW f \in Seq(Names),
           arrays' = Append(arrays, f)
    PROVE  /\ Kept /\ Len(arrays') = Len(arrays) + 1
           /\ arrays'[Len(arrays) + 1] = f
           /\ \A b \in 1 .. Len(arrays) : arrays'[b] = arrays[b]
  BY DEF Kept

LEMMA WithinKept ==
    ASSUME arrays \in Seq(Seq(Names)), Kept, NEW slice \in Slices,
           Within(slice)
    PROVE  slice.array \in 1 .. Len(arrays')
           /\ slice.len <= Len(arrays'[slice.array])
  BY DEF Kept, Within, Slices

\* append in place: the elements of the slice stay, the new ones follow
LEMMA WrittenIs ==
    ASSUME arrays \in Seq(Seq(Names)), NEW slice \in Slices, Within(slice),
           NEW names \in Seq(Names), Fits(slice, names)
    PROVE  /\ Written(slice, names) \in
                 [1 .. Len(arrays[slice.array]) -> Names]
           /\ \A i \in 1 .. slice.len :
                 Written(slice, names)[i] = arrays[slice.array][i]
           /\ \A i \in 1 .. Len(names) :
                 Written(slice, names)[slice.len + i] = names[i]
<1>1. /\ arrays[slice.array] \in Seq(Names) /\ slice.len \in Nat
      /\ DOMAIN arrays[slice.array] = 1 .. Len(arrays[slice.array])
      /\ Len(names) \in Nat /\ Len(arrays[slice.array]) \in Nat
      /\ slice.len + Len(names) <= Len(arrays[slice.array])
      /\ slice.len <= Len(arrays[slice.array])
  BY DEF Within, Slices, Fits
<1>2. ASSUME NEW i \in 1 .. Len(arrays[slice.array])
      PROVE  (IF i > slice.len /\ i <= slice.len + Len(names)
              THEN names[i - slice.len] ELSE arrays[slice.array][i]) \in Names
  <2>1. CASE i > slice.len /\ i <= slice.len + Len(names)
    <3>1. i - slice.len \in 1 .. Len(names)
      BY <1>1, <2>1
    <3> QED
      BY <2>1, <3>1
  <2>2. CASE ~ (i > slice.len /\ i <= slice.len + Len(names))
    BY <1>1, <2>2
  <2> QED
    BY <2>1, <2>2
<1>3. Written(slice, names) =
         [i \in 1 .. Len(arrays[slice.array]) |->
            IF i > slice.len /\ i <= slice.len + Len(names)
            THEN names[i - slice.len] ELSE arrays[slice.array][i]]
  BY <1>1 DEF Written
<1>4. \A i \in 1 .. slice.len :
         i \in 1 .. Len(arrays[slice.array]) /\ ~ (i > slice.len)
  BY <1>1
<1>5. \A i \in 1 .. Len(names) :
         /\ slice.len + i \in 1 .. Len(arrays[slice.array])
         /\ slice.len + i > slice.len /\ (slice.len + i) - slice.len = i
         /\ slice.len + i <= slice.len + Len(names)
  BY <1>1
<1> QED
  BY <1>2, <1>3, <1>4, <1>5

\* append into a new array
LEMMA CopiedIs ==
    ASSUME arrays \in Seq(Seq(Names)), NEW slice \in Slices, Within(slice),
           NEW name \in Names, ~ Fits(slice, <<name>>)
    PROVE  /\ Copied(slice, <<name>>) \in Seq(Names)
           /\ slice.len + 1 <= Len(Copied(slice, <<name>>))
           /\ Len(Copied(slice, <<name>>)) =
                 Grown(Len(arrays[slice.array]), slice.len + 1)
           /\ \A i \in 1 .. slice.len :
                 Copied(slice, <<name>>)[i] = arrays[slice.array][i]
           /\ Copied(slice, <<name>>)[slice.len + 1] = name
<1> DEFINE old == Elements(arrays, slice)
           both == old \o <<name>>
           n == Grown(Len(arrays[slice.array]), Len(both))
<1>1. /\ old \in Seq(Names) /\ Len(old) = slice.len /\ slice.len \in Nat
      /\ \A i \in 1 .. slice.len : old[i] = arrays[slice.array][i]
  BY ElementsOf DEF Within, Slices
<1> HIDE DEF old
<1>2. /\ both \in Seq(Names) /\ Len(both) = slice.len + 1
      /\ \A i \in 1 .. slice.len : both[i] = old[i]
      /\ both[slice.len + 1] = name
  BY <1>1
<1> HIDE DEF both
<1>3. n \in Nat /\ slice.len + 1 <= n
  BY <1>1, <1>2 DEF Grown, Fits, Within, Slices
<1>4. Copied(slice, <<name>>) =
         [i \in 1 .. n |-> IF i <= Len(both) THEN both[i] ELSE ""]
  BY DEF Copied, both, old
<1> HIDE DEF n
<1>5. \A i \in 1 .. n : (IF i <= Len(both) THEN both[i] ELSE "") \in Names
  <2>1. "" \in Names
    BY DEF Names
  <2>2. \A i \in 1 .. n : i <= Len(both) => both[i] \in Names
    BY <1>1, <1>2, <1>3
  <2> QED
    BY <2>1, <2>2
<1>6. /\ Copied(slice, <<name>>) \in Seq(Names)
      /\ Len(Copied(slice, <<name>>)) = n
  <2>1. Copied(slice, <<name>>) \in [1 .. n -> Names]
    BY <1>4, <1>5
  <2> QED
    BY <1>3, <2>1, FunctionIsSeq
<1>7. \A i \in 1 .. slice.len + 1 : i \in 1 .. n /\ i <= Len(both)
  BY <1>1, <1>2, <1>3
<1>8. \A i \in 1 .. slice.len + 1 : Copied(slice, <<name>>)[i] = both[i]
  BY <1>4, <1>7
<1>9. /\ \A i \in 1 .. slice.len : i \in 1 .. slice.len + 1
      /\ slice.len + 1 \in 1 .. slice.len + 1
  BY <1>1
<1>10. n = Grown(Len(arrays[slice.array]), slice.len + 1)
  BY <1>2 DEF n
<1> QED
  BY <1>1, <1>2, <1>3, <1>6, <1>8, <1>9, <1>10

-----------------------------------------------------------------------------
(***************************************************************************)
(* A writer of the lists changes nothing of a request but its history.     *)
(***************************************************************************)
SameButHistory(r, s) ==
    /\ s.kind = r.kind /\ s.state = r.state /\ s.base = r.base
    /\ s.list = r.list /\ s.own = r.own /\ s.told = r.told
    /\ s.heard = r.heard /\ s.capacity = r.capacity /\ s.loop = r.loop
    /\ s.asked = r.asked /\ s.ok = r.ok
    /\ s.members \subseteq r.members /\ s.others \subseteq r.others
    /\ r.shifted => s.shifted

LEMMA MovedIs ==
    ASSUME RequestType, NEW m, NEW how, Moved(m, how)
    PROVE  /\ RequestType'
           /\ \A q \in Requests :
                 /\ SameButHistory(request[q], request'[q])
                 /\ ~ Reading(q) => request'[q] = request[q]
                 /\ Reading(q) =>
                       /\ m \notin request'[q].members \cup request'[q].others
                       /\ how = "leaves" => request'[q].shifted
<1>1. request' = [q \in Requests |-> request'[q]]
  BY DEF Moved
<1>2. ASSUME NEW q \in Requests, ~ Reading(q) PROVE request'[q] = request[q]
  BY <1>2 DEF Moved
<1>3. ASSUME NEW q \in Requests, Reading(q)
      PROVE  \E j, k \in BOOLEAN :
                /\ request'[q] = [request[q] EXCEPT
                      !.members = @ \ {m}, !.others = @ \ {m},
                      !.shifted = k, !.joined = j]
                /\ (request[q].shifted => k) /\ (how = "leaves" => k)
  <2> DEFINE j == request[q].joined
                    \/ (how = "connects" /\ request[q].state = "made")
             k == request[q].shifted \/ how = "leaves"
  <2>1. j \in BOOLEAN /\ k \in BOOLEAN
    OBVIOUS
  <2>2. request'[q] = [request[q] EXCEPT
                      !.members = @ \ {m}, !.others = @ \ {m},
                      !.shifted = k, !.joined = j]
    BY <1>3 DEF Moved
  <2>3. (request[q].shifted => k) /\ (how = "leaves" => k)
    OBVIOUS
  <2> HIDE DEF j, k
  <2> QED
    BY <2>1, <2>2, <2>3
<1>4. ASSUME NEW q \in Requests
      PROVE  /\ request'[q] \in RequestRecords
             /\ SameButHistory(request[q], request'[q])
             /\ Reading(q) =>
                   /\ m \notin request'[q].members \cup request'[q].others
                   /\ how = "leaves" => request'[q].shifted
  <2>1. CASE ~ Reading(q)
    BY <1>2, <2>1 DEF RequestType, RequestRecords, SameButHistory
  <2>2. CASE Reading(q)
    <3>1. PICK j, k \in BOOLEAN :
             /\ request'[q] = [request[q] EXCEPT
                   !.members = @ \ {m}, !.others = @ \ {m},
                   !.shifted = k, !.joined = j]
             /\ (request[q].shifted => k) /\ (how = "leaves" => k)
      BY <1>3, <2>2
    <3> DEFINE r == request[q]
    <3>2. r \in RequestRecords
      BY DEF RequestType
    <3>3. request'[q] = [r EXCEPT !.members = r.members \ {m},
                                  !.others = r.others \ {m},
                                  !.shifted = k, !.joined = j]
      BY <3>1
    <3> HIDE DEF r
    <3>4. r.members \ {m} \in SUBSET Names /\ r.others \ {m} \in SUBSET Names
      BY <3>2 DEF RequestRecords
    <3>5. request'[q] \in RequestRecords
      BY <3>2, <3>3, <3>4 DEF RequestRecords
    <3>6. SameButHistory(r, request'[q])
      BY <3>1, <3>2, <3>3 DEF RequestRecords, SameButHistory, r
    <3>7. /\ m \notin request'[q].members \cup request'[q].others
          /\ how = "leaves" => request'[q].shifted
      BY <3>1, <3>2, <3>3 DEF RequestRecords
    <3> QED
      BY <3>5, <3>6, <3>7 DEF r
  <2> QED
    BY <2>1, <2>2
<1>5. RequestType'
  BY <1>1, <1>4 DEF RequestType
<1> QED
  BY <1>2, <1>4, <1>5

\* what a writer must see to for the results of the requests to stay true
LEMMA WriterKeeps ==
    ASSUME OutcomeInv, HeapType', Kept, RequestType',
           \A q \in Requests : SameButHistory(request[q], request'[q]),
           \/ sources'.len >= sources.len
           \/ \A q \in Requests : Reading(q) => request'[q].shifted
    PROVE  OutcomeInv'
<1> SUFFICES ASSUME NEW q \in Requests PROVE RequestSound(q)'
  BY DEF OutcomeInv
<1>1. SameButHistory(request[q], request'[q]) /\ RequestSound(q)
  BY DEF OutcomeInv
<1>2. Within(request[q].base)' /\ Within(request[q].list)'
      /\ Within(request[q].loop)'
  <2>1. request[q] \in RequestRecords /\ arrays \in Seq(Seq(Names))
    BY DEF OutcomeInv, RequestType, HeapType
  <2>2. /\ request[q].base \in Slices /\ request[q].list \in Slices
        /\ request[q].loop \in Slices
    BY <2>1 DEF RequestRecords
  <2>3. ASSUME NEW slice \in Slices, Within(slice)
        PROVE  /\ slice.array \in 1 .. Len(arrays')
               /\ slice.len <= Len(arrays'[slice.array])
    BY <2>1, <2>3, WithinKept
  <2>4. Within(request[q].base) /\ Within(request[q].list)
        /\ Within(request[q].loop)
    BY <1>1 DEF RequestSound
  <2>5. /\ request'[q].base = request[q].base
        /\ request'[q].list = request[q].list
        /\ request'[q].loop = request[q].loop
    BY <1>1 DEF SameButHistory
  <2> QED
    BY <2>2, <2>3, <2>4, <2>5 DEF Within
<1>3. /\ Len(request'[q].asked) <= request'[q].loop.len
      /\ Counted(request'[q])
  BY <1>1 DEF RequestSound, SameButHistory, Counted
<1>4. StatusAsks(request[q])'
  <2>1. CASE sources'.len >= sources.len
    BY <1>1, <2>1 DEF RequestSound, SameButHistory, StatusAsks, OutcomeInv,
       HeapType, RequestType, RequestRecords, Slices
  <2>2. CASE Reading(q) => request'[q].shifted
    BY <1>1, <2>2 DEF RequestSound, SameButHistory, StatusAsks, Reading
  <2> QED
    BY <2>1, <2>2
<1>5. ResultTrue(q)'
  BY <1>1 DEF RequestSound, SameButHistory, ResultTrue, Accepting
<1> QED
  BY <1>2, <1>3, <1>4, <1>5 DEF RequestSound

LEMMA Unmoved ==
    ASSUME RequestType, UNCHANGED <<arrays, request>>,
           arrays \in Seq(Seq(Names))
    PROVE  /\ Kept /\ RequestType'
           /\ \A q \in Requests : SameButHistory(request[q], request'[q])
  BY DEF Kept, RequestType, SameButHistory

-----------------------------------------------------------------------------
\* a set of naturals has a least element: a list has a first of each kind
LEMMA Least ==
    ASSUME NEW S \in SUBSET Nat, S # {}
    PROVE  \E n \in S : \A m \in S : n <= m
<1> DEFINE R == OpToRel(<, Nat)
<1>1. IsWellFoundedOn(R, Nat)
  BY NatLessThanWellFounded
<1>2. R = {ss \in Nat \X Nat : ss[1] < ss[2]}
  BY Zenon DEF OpToRel
<1> HIDE DEF R
<1>3. PICK n \in S : \A m \in S : ~ (<<m, n>> \in R)
  BY <1>1, WFMin
<1>4. ASSUME NEW m \in S PROVE n <= m
  <2>1. n \in Nat /\ m \in Nat
    OBVIOUS
  <2>2. m < n => <<m, n>> \in R
    BY <1>2, <2>1
  <2> QED
    BY <1>3, <2>1, <2>2
<1> QED
  BY <1>4

(***************************************************************************)
(* Taking out one element: the others stay in their order.                 *)
(***************************************************************************)
LEMMA WithoutOne ==
    ASSUME NEW S, NEW s \in Seq(S), NEW k \in 1 .. Len(s)
    PROVE  /\ RemoveAt(s, k) \in Seq(S) /\ Len(RemoveAt(s, k)) = Len(s) - 1
           /\ \A i \in 1 .. (Len(s) - 1) :
                 RemoveAt(s, k)[i] = IF i < k THEN s[i] ELSE s[i + 1]
<1> DEFINE front == SubSeq(s, 1, k - 1)
           back == SubSeq(s, k + 1, Len(s))
<1>1. /\ front \in Seq(S) /\ Len(front) = k - 1
      /\ \A i \in 1 .. (k - 1) : front[i] = s[i]
  BY SubSeqProperties
<1>2. /\ back \in Seq(S) /\ Len(back) = Len(s) - k
      /\ \A i \in 1 .. (Len(s) - k) : back[i] = s[k + i]
  BY SubSeqProperties
<1>3. /\ RemoveAt(s, k) = front \o back
      /\ front \o back \in Seq(S)
      /\ Len(front \o back) = Len(front) + Len(back)
      /\ \A i \in 1 .. (Len(front) + Len(back)) :
            (front \o back)[i] = IF i <= Len(front) THEN front[i]
                                 ELSE back[i - Len(front)]
  BY <1>1, <1>2, ConcatProperties DEF RemoveAt
<1> HIDE DEF front, back
<1>4. ASSUME NEW i \in 1 .. (Len(s) - 1)
      PROVE  (front \o back)[i] = IF i < k THEN s[i] ELSE s[i + 1]
  <2>1. CASE i < k
    BY <2>1, <1>1, <1>2, <1>3
  <2>2. CASE ~ (i < k)
    <3>1. i - (k - 1) \in 1 .. (Len(s) - k) /\ k + (i - (k - 1)) = i + 1
      BY <2>2
    <3>2. (front \o back)[i] = back[i - (k - 1)]
      BY <2>2, <1>1, <1>2, <1>3
    <3> QED
      BY <2>2, <3>1, <3>2, <1>2
  <2> QED
    BY <2>1, <2>2
<1>5. Len(front \o back) = Len(s) - 1
  BY <1>1, <1>2, <1>3
<1> QED
  BY <1>3, <1>4, <1>5

\* the first one that is e
LEMMA FirstPlace ==
    ASSUME NEW S, NEW s \in Seq(S), NEW e, \E i \in 1 .. Len(s) : s[i] = e
    PROVE  \E k \in 1 .. Len(s) : s[k] = e /\ RemoveFirst(s, e) = RemoveAt(s, k)
<1> DEFINE places == {i \in 1 .. Len(s) : s[i] = e}
           k == CHOOSE x \in places : \A y \in places : x <= y
<1>1. places \in SUBSET Nat /\ places # {}
  OBVIOUS
<1>2. k \in places
  BY <1>1, Least
<1>3. RemoveFirst(s, e) = RemoveAt(s, k)
  BY <1>1 DEF RemoveFirst, SelectInSeq, Min
<1> QED
  BY <1>2, <1>3

-----------------------------------------------------------------------------
(***************************************************************************)
(* What ConnectBlockSource does to the heap: a new element behind the      *)
(* others, in place or in a new array, to which the others are copied.     *)
(***************************************************************************)
LEMMA NameAnsweredIs ==
    ASSUME HeapType, NEW c \in Connects, NameAnswered(c)
    PROVE  /\ HeapType' /\ Kept
           /\ sources'.len = sources.len + 1
           /\ sources'.array \in {sources.array, Len(arrays) + 1}
           /\ \A i \in 1 .. sources.len :
                 arrays'[sources'.array][i] = arrays[sources.array][i]
           /\ arrays'[sources'.array][sources.len + 1] = Name[c]
           /\ \A a \in 1 .. Len(arrays) :
                 a # sources.array => arrays'[a] = arrays[a]
           /\ \A i \in 1 .. sources.len :
                 arrays'[sources.array][i] = arrays[sources.array][i]
           /\ Len(arrays'[sources'.array]) =
                 IF sources.len + 1 <= Len(arrays[sources.array])
                 THEN Len(arrays[sources.array])
                 ELSE Grown(Len(arrays[sources.array]), sources.len + 1)
<1> DEFINE name == <<Name[c]>>
<1>1. /\ arrays \in Seq(Seq(Names)) /\ sources \in Slices /\ Within(sources)
      /\ Name[c] \in Names /\ name \in Seq(Names) /\ Len(name) = 1
      /\ name[1] = Name[c]
      /\ sources.len \in Nat /\ sources.array \in 1 .. Len(arrays)
  <2>1. Name[c] \in Names
    BY DEF NameAnswered, Names
  <2>2. /\ arrays \in Seq(Seq(Names)) /\ sources \in Slices /\ Within(sources)
        /\ sources.len \in Nat /\ sources.array \in 1 .. Len(arrays)
    BY DEF HeapType, Slices, Within
  <2> QED
    BY <2>1, <2>2
<1>2. /\ exclusions' \in Seq(Names)
      /\ connecting' \in [Connects -> {"idle", "calling", "returned"}]
  BY DEF HeapType, NameAnswered
<1> HIDE DEF name
<1>3. CASE Fits(sources, name)
  <2>1. /\ arrays' = [arrays EXCEPT ![sources.array] = Written(sources, name)]
        /\ sources' = [sources EXCEPT !.len = @ + 1]
    BY <1>3 DEF NameAnswered, name
  <2>2. /\ Written(sources, name) \in
              [1 .. Len(arrays[sources.array]) -> Names]
        /\ \A i \in 1 .. sources.len :
              Written(sources, name)[i] = arrays[sources.array][i]
        /\ Written(sources, name)[sources.len + 1] = Name[c]
    <3>1. /\ Written(sources, name) \in
                [1 .. Len(arrays[sources.array]) -> Names]
          /\ \A i \in 1 .. sources.len :
                Written(sources, name)[i] = arrays[sources.array][i]
          /\ \A i \in 1 .. Len(name) :
                Written(sources, name)[sources.len + i] = name[i]
      BY <1>1, <1>3, WrittenIs
    <3>2. 1 \in 1 .. Len(name)
      BY <1>1
    <3> QED
      BY <1>1, <3>1, <3>2
  <2>3. /\ Kept /\ Len(arrays') = Len(arrays)
        /\ arrays'[sources.array] = Written(sources, name)
        /\ \A b \in 1 .. Len(arrays) :
              b # sources.array => arrays'[b] = arrays[b]
    BY <1>1, <2>1, <2>2, Overwritten
  <2>4. /\ sources'.array = sources.array /\ sources'.len = sources.len + 1
        /\ sources' \in Slices
    <3>1. sources.len + 1 \in Nat
      BY <1>1
    <3> QED
      BY <1>1, <2>1, <3>1 DEF Slices
  <2>5. Within(sources)'
    BY <1>1, <1>3, <2>3, <2>4 DEF Within, Kept, Fits
  <2>6. /\ sources.len + 1 <= Len(arrays[sources.array])
        /\ Len(arrays'[sources'.array]) = Len(arrays[sources.array])
    BY <1>1, <1>3, <2>3, <2>4 DEF Kept, Fits
  <2> QED
    BY <1>1, <1>2, <2>2, <2>3, <2>4, <2>5, <2>6 DEF HeapType, Kept
<1>4. CASE ~ Fits(sources, name)
  <2> DEFINE f == Copied(sources, name)
  <2>1. /\ arrays' = Append(arrays, f)
        /\ sources' = [array |-> Len(arrays) + 1, len |-> sources.len + 1]
    BY <1>4 DEF NameAnswered, name
  <2>2. /\ f \in Seq(Names) /\ sources.len + 1 <= Len(f)
        /\ \A i \in 1 .. sources.len : f[i] = arrays[sources.array][i]
        /\ f[sources.len + 1] = Name[c]
        /\ Len(f) = Grown(Len(arrays[sources.array]), sources.len + 1)
        /\ ~ (sources.len + 1 <= Len(arrays[sources.array]))
    BY <1>1, <1>4, CopiedIs DEF name, Fits
  <2> HIDE DEF f
  <2>3. /\ Kept /\ Len(arrays') = Len(arrays) + 1
        /\ arrays'[Len(arrays) + 1] = f
        /\ \A b \in 1 .. Len(arrays) : arrays'[b] = arrays[b]
    BY <1>1, <2>1, <2>2, Extended
  <2>4. /\ sources'.array = Len(arrays) + 1 /\ sources'.len = sources.len + 1
        /\ sources' \in Slices /\ Len(arrays) \in Nat
    BY <1>1, <2>1 DEF Slices
  <2>5. Within(sources)'
    BY <1>1, <2>2, <2>3, <2>4 DEF Within
  <2> QED
    BY <1>1, <1>2, <2>2, <2>3, <2>4, <2>5 DEF HeapType, Kept
<1> QED
  BY <1>3, <1>4

\* DisconnectBlockSource: the elements behind move down by one
LEMMA DisconnectIs ==
    ASSUME HeapType, NEW m, DisconnectBlockSource(m)
    PROVE  /\ HeapType' /\ Kept
           /\ sources'.array = sources.array
           /\ \A a \in 1 .. Len(arrays) :
                 a # sources.array => arrays'[a] = arrays[a]
           /\ \E i \in 1 .. sources.len :
                 /\ Connected[i] = m /\ \A j \in 1 .. (i - 1) : Connected[j] # m
                 /\ sources'.len = sources.len - 1
                 /\ \A j \in 1 .. (sources.len - 1) :
                       arrays'[sources.array][j] =
                          arrays[sources.array][IF j < i THEN j ELSE j + 1]
<1>1. /\ arrays \in Seq(Seq(Names)) /\ sources \in Slices /\ Within(sources)
      /\ sources.len \in Nat /\ sources.array \in 1 .. Len(arrays)
      /\ sources.len <= Len(arrays[sources.array])
      /\ arrays[sources.array] \in Seq(Names)
  BY DEF HeapType, Slices, Within
<1>2. DOMAIN Connected = 1 .. sources.len
  BY <1>1, ElementsOf DEF Connected
<1> DEFINE old == arrays[sources.array]
           f(i) == [j \in DOMAIN old |-> IF i <= j /\ j < sources.len
                                         THEN old[j + 1] ELSE old[j]]
<1>3. PICK i \in 1 .. sources.len :
          /\ Connected[i] = m /\ \A j \in 1 .. (i - 1) : Connected[j] # m
          /\ arrays' = [arrays EXCEPT ![sources.array] = f(i)]
  BY <1>2 DEF DisconnectBlockSource
<1>4. /\ sources' = [sources EXCEPT !.len = @ - 1]
      /\ UNCHANGED <<exclusions, connecting>>
  BY DEF DisconnectBlockSource
<1>5. f(i) \in [1 .. Len(arrays[sources.array]) -> Names]
  <2>1. DOMAIN old = 1 .. Len(old)
    BY <1>1
  <2>2. \A j \in 1 .. Len(old) :
           (IF i <= j /\ j < sources.len THEN old[j + 1] ELSE old[j]) \in Names
    BY <1>1
  <2> QED
    BY <2>1, <2>2
<1>6. \A j \in 1 .. (sources.len - 1) :
         f(i)[j] = old[IF j < i THEN j ELSE j + 1]
  <2> SUFFICES ASSUME NEW j \in 1 .. (sources.len - 1)
               PROVE  f(i)[j] = old[IF j < i THEN j ELSE j + 1]
    OBVIOUS
  <2>1. j \in DOMAIN old /\ j < sources.len
    BY <1>1
  <2>2. CASE j < i
    BY <1>1, <2>1, <2>2
  <2>3. CASE i <= j
    BY <1>1, <2>1, <2>3
  <2> QED
    BY <1>1, <2>2, <2>3
<1> HIDE DEF f
<1>7. /\ Kept /\ Len(arrays') = Len(arrays) /\ arrays'[sources.array] = f(i)
      /\ \A b \in 1 .. Len(arrays) :
            b # sources.array => arrays'[b] = arrays[b]
  BY <1>1, <1>3, <1>5, Overwritten
<1>8. /\ sources'.array = sources.array /\ sources'.len = sources.len - 1
      /\ sources' \in Slices
  BY <1>1, <1>4 DEF Slices
<1>9. Within(sources)'
  BY <1>1, <1>7, <1>8 DEF Within, Kept
<1>10. HeapType'
  BY <1>4, <1>7, <1>8, <1>9 DEF HeapType, Kept
<1> QED
  BY <1>3, <1>6, <1>7, <1>8, <1>10

LEMMA ListStepKeeps ==
    ASSUME OutcomeInv, ListStep
    PROVE  OutcomeInv'
<1>1. HeapType /\ RequestType /\ arrays \in Seq(Seq(Names))
  BY DEF OutcomeInv, HeapType
<1>2. ASSUME NEW c \in Connects, Connect(c) \/ NameRefused(c)
      PROVE  OutcomeInv'
  <2>1. HeapType' /\ sources' = sources /\ UNCHANGED <<arrays, request>>
    BY <1>1, <1>2 DEF Connect, NameRefused, HeapType, Within
  <2>2. sources'.len >= sources.len
    BY <1>1, <2>1 DEF HeapType, Slices
  <2> QED
    BY <1>1, <2>1, <2>2, Unmoved, WriterKeeps
<1>3. ASSUME NEW c \in Connects, NameAnswered(c) PROVE OutcomeInv'
  <2>1. HeapType' /\ Kept /\ sources'.len >= sources.len
    BY <1>1, <1>3, NameAnsweredIs DEF HeapType, Slices
  <2>2. /\ RequestType'
        /\ \A q \in Requests : SameButHistory(request[q], request'[q])
    BY <1>1, <1>3, MovedIs DEF NameAnswered
  <2> QED
    BY <2>1, <2>2, WriterKeeps
<1>4. ASSUME NEW m \in Leaving, DisconnectBlockSource(m) PROVE OutcomeInv'
  <2>1. HeapType' /\ Kept
    BY <1>1, <1>4, DisconnectIs
  <2>2. /\ RequestType'
        /\ \A q \in Requests : /\ SameButHistory(request[q], request'[q])
                               /\ Reading(q) => request'[q].shifted
    BY <1>1, <1>4, MovedIs DEF DisconnectBlockSource
  <2> QED
    BY <2>1, <2>2, WriterKeeps
<1>5. ASSUME NEW m \in Excludable,
             ExcludeFromNotifications(m) \/ IncludeInNotifications(m)
      PROVE  OutcomeInv'
  <2>1. UNCHANGED <<arrays, sources, connecting>>
        /\ exclusions' \in Seq(Names)
    <3>1. CASE ExcludeFromNotifications(m)
      <4>1. m \in Names /\ exclusions \in Seq(Names)
        BY <1>1 DEF HeapType, Names
      <4> QED
        BY <3>1, <4>1 DEF ExcludeFromNotifications
    <3>2. CASE IncludeInNotifications(m)
      <4>1. exclusions' = RemoveFirst(exclusions, m)
            /\ exclusions \in Seq(Names)
        BY <1>1, <3>2 DEF IncludeInNotifications, HeapType
      <4>2. CASE \E i \in 1 .. Len(exclusions) : exclusions[i] = m
        <5>1. PICK k \in 1 .. Len(exclusions) :
                 RemoveFirst(exclusions, m) = RemoveAt(exclusions, k)
          BY <4>1, <4>2, FirstPlace
        <5> QED
          BY <3>2, <4>1, <5>1, WithoutOne DEF IncludeInNotifications
      <4>3. CASE ~ \E i \in 1 .. Len(exclusions) : exclusions[i] = m
        BY <3>2, <4>1, <4>3 DEF IncludeInNotifications, RemoveFirst
      <4> QED
        BY <4>2, <4>3
    <3> QED
      BY <1>5, <3>1, <3>2
  <2>2. HeapType' /\ Kept /\ sources'.len >= sources.len
    BY <1>1, <2>1 DEF HeapType, Within, Kept, Slices
  <2>3. /\ RequestType'
        /\ \A q \in Requests : SameButHistory(request[q], request'[q])
    BY <1>1, <1>5, MovedIs
       DEF ExcludeFromNotifications, IncludeInNotifications
  <2> QED
    BY <2>2, <2>3, WriterKeeps
<1> QED
  BY <1>2, <1>3, <1>4, <1>5 DEF ListStep

-----------------------------------------------------------------------------
(***************************************************************************)
(* A step of request q: r is the request, s what becomes of it.            *)
(***************************************************************************)
LEMMA RequestKeeps ==
    ASSUME OutcomeInv, NEW q \in Requests, NEW s \in RequestRecords,
           request' = [request EXCEPT ![q] = s],
           HeapType', Kept, UNCHANGED sources,
           s.base.array \in 1 .. Len(arrays'),
           s.base.len <= Len(arrays'[s.base.array]),
           s.list.array \in 1 .. Len(arrays'),
           s.list.len <= Len(arrays'[s.list.array]),
           s.loop.array \in 1 .. Len(arrays'),
           s.loop.len <= Len(arrays'[s.loop.array]),
           Len(s.asked) <= s.loop.len,
           Counted(s), StatusAsks(s), ResultTrue(q)'
    PROVE  OutcomeInv'
<1>1. /\ RequestType' /\ request'[q] = s
      /\ \A p \in Requests : p # q => request'[p] = request[p]
  BY DEF OutcomeInv, RequestType
<1>2. RequestSound(q)'
  BY <1>1 DEF RequestSound, Within, StatusAsks
<1>3. ASSUME NEW p \in Requests, p # q PROVE RequestSound(p)'
  <2>1. request'[p] = request[p] /\ RequestSound(p)
    BY <1>1, <1>3 DEF OutcomeInv
  <2>2. /\ request[p].base \in Slices /\ request[p].list \in Slices
        /\ request[p].loop \in Slices
    BY DEF OutcomeInv, RequestType, RequestRecords
  <2>3. /\ Within(request[p].base)' /\ Within(request[p].list)'
        /\ Within(request[p].loop)'
    BY <2>1, <2>2, WithinKept
       DEF OutcomeInv, HeapType, RequestSound, Within
  <2>4. StatusAsks(request[p])' /\ ResultTrue(p)'
    BY <2>1 DEF RequestSound, StatusAsks, ResultTrue, Accepting
  <2> QED
    BY <2>1, <2>3, <2>4 DEF RequestSound
<1> QED
  BY <1>1, <1>2, <1>3 DEF OutcomeInv

(***************************************************************************)
(* Steps that leave the goroutines of the sources alone: the readings of   *)
(* the lists, the call of Notify and the channel.                          *)
(***************************************************************************)
LEMMA QuietKeeps ==
    ASSUME OutcomeInv, NEW q \in Requests, NEW s \in RequestRecords,
           request' = [request EXCEPT ![q] = s],
           HeapType', Kept, UNCHANGED sources,
           s.kind = request[q].kind, s.loop = request[q].loop,
           s.asked = request[q].asked, s.ok = request[q].ok,
           s.shifted = request[q].shifted,
           \/ s.state = request[q].state
           \/ s.state \notin {"asking", "done", "failed"}
              /\ request[q].asked = <<>>,
           s.base.array \in 1 .. Len(arrays'),
           s.base.len <= Len(arrays'[s.base.array]),
           s.list.array \in 1 .. Len(arrays'),
           s.list.len <= Len(arrays'[s.list.array])
    PROVE  OutcomeInv'
<1>1. /\ request'[q] = s /\ RequestSound(q) /\ request[q] \in RequestRecords
      /\ arrays \in Seq(Seq(Names))
  BY DEF OutcomeInv, RequestType, HeapType
<1>2. request[q].loop \in Slices /\ Within(request[q].loop)
  BY <1>1 DEF RequestRecords, RequestSound
<1>3. /\ s.loop.array \in 1 .. Len(arrays')
      /\ s.loop.len <= Len(arrays'[s.loop.array])
  BY <1>1, <1>2, WithinKept
<1>4. Len(s.asked) <= s.loop.len /\ Counted(s) /\ StatusAsks(s)
  BY <1>1 DEF RequestSound, Counted, StatusAsks
<1>5. ResultTrue(q)'
  BY <1>1 DEF RequestSound, ResultTrue, Accepting
<1> QED
  BY <1>3, <1>4, <1>5, RequestKeeps

LEMMA ReadKeeps ==
    ASSUME OutcomeInv, NEW q \in Requests, ReadLists(q)
    PROVE  OutcomeInv'
<1> DEFINE r == request[q]
           s == [r EXCEPT !.state = "read", !.base = sources,
                          !.own = exclusions, !.members = Range(Connected),
                          !.others = {m \in KnownModules : ~ Listed(m)}]
<1>1. /\ HeapType /\ RequestType /\ RequestSound(q)
      /\ UNCHANGED <<arrays, sources, exclusions, connecting>>
      /\ r.state = "idle"
  BY DEF OutcomeInv, ReadLists
<1>2. r \in RequestRecords
  BY <1>1 DEF RequestType
<1>3. request' = [request EXCEPT ![q] = s]
  BY <1>1 DEF ReadLists, RequestType
<1>4. Range(Connected) \in SUBSET Names
  <2>1. Connected \in Seq(Names)
    BY <1>1, ElementsOf DEF HeapType, Within, Connected
  <2> QED
    BY <2>1 DEF Range
<1>5. /\ sources \in Slices /\ exclusions \in Seq(Names)
      /\ {m \in KnownModules : ~ Listed(m)} \in SUBSET Names
  BY <1>1 DEF HeapType, Names
<1> DEFINE M == Range(Connected)  O == {m \in KnownModules : ~ Listed(m)}
<1> HIDE DEF r, M, O
<1>6. s \in RequestRecords
  BY <1>2, <1>4, <1>5 DEF RequestRecords, RequestStates, M, O
<1>7. /\ s.kind = r.kind /\ s.loop = r.loop /\ s.asked = r.asked
      /\ s.ok = r.ok /\ s.shifted = r.shifted /\ s.state = "read"
      /\ s.base = sources /\ s.list = r.list
  BY <1>2 DEF RequestRecords
<1>8. r.asked = <<>> /\ Within(r.list) /\ Within(sources)
  BY <1>1 DEF RequestSound, Counted, HeapType, r
<1>9. HeapType' /\ Kept
  BY <1>1 DEF HeapType, Within, Kept
<1> HIDE DEF s
<1> QED
  BY <1>1, <1>3, <1>6, <1>7, <1>8, <1>9, QuietKeeps DEF Within, r

LEMMA SendKeeps ==
    ASSUME OutcomeInv, NEW q \in Requests, SendNotification(q)
    PROVE  OutcomeInv'
<1> DEFINE r == request[q]  base == r.base  names == r.own
<1>1. /\ HeapType /\ RequestType /\ RequestSound(q)
      /\ UNCHANGED <<sources, exclusions, connecting>>
      /\ r.state = "read" /\ r \in RequestRecords
      /\ arrays \in Seq(Seq(Names))
  BY DEF OutcomeInv, SendNotification, RequestType, HeapType
<1>2. /\ base \in Slices /\ Within(base) /\ r.list \in Slices
      /\ Within(r.list) /\ names \in Seq(Names) /\ r.asked = <<>>
      /\ base.len \in Nat /\ base.array \in 1 .. Len(arrays)
      /\ base.len <= Len(arrays[base.array])
  BY <1>1 DEF RequestSound, RequestRecords, Counted, Within, Slices
<1>3. CASE Fits(base, names)
  <2> DEFINE list == [base EXCEPT !.len = @ + Len(names)]
             s == [r EXCEPT !.state = "notified", !.list = list,
                            !.own = <<>>]
  <2>1. /\ arrays' = [arrays EXCEPT ![base.array] = Written(base, names)]
        /\ request' = [request EXCEPT ![q] = s]
    BY <1>1, <1>3 DEF SendNotification, RequestType
  <2>2. Kept
    <3>1. Written(base, names) \in [1 .. Len(arrays[base.array]) -> Names]
      BY <1>1, <1>2, <1>3, WrittenIs
    <3> QED
      BY <1>1, <1>2, <2>1, <3>1, Overwritten
  <2>3. HeapType'
    <3>1. Within(sources)'
      BY <1>1, <2>2, WithinKept DEF HeapType, Within
    <3> QED
      BY <1>1, <2>2, <3>1 DEF HeapType, Kept
  <2>4. /\ list \in Slices /\ list.array = base.array
        /\ list.len = base.len + Len(names)
    BY <1>2 DEF Slices
  <2>5. list.len <= Len(arrays'[list.array])
        /\ list.array \in 1 .. Len(arrays')
    BY <1>1, <1>2, <1>3, <2>2, <2>4 DEF Kept, Fits
  <2>6. /\ base.array \in 1 .. Len(arrays')
        /\ base.len <= Len(arrays'[base.array])
    BY <1>1, <1>2, <2>2, WithinKept
  <2> HIDE DEF r, list
  <2>7. s \in RequestRecords
    <3>1. <<>> \in Seq(Names)
      OBVIOUS
    <3> QED
      BY <1>1, <2>4, <3>1 DEF RequestRecords, RequestStates
  <2>8. /\ s.kind = r.kind /\ s.loop = r.loop /\ s.asked = r.asked
        /\ s.ok = r.ok /\ s.shifted = r.shifted /\ s.state = "notified"
        /\ s.base = base /\ s.list = list
    BY <1>1 DEF RequestRecords
  <2> HIDE DEF s
  <2> QED
    BY <1>1, <1>2, <2>1, <2>2, <2>3, <2>5, <2>6, <2>7, <2>8, QuietKeeps
       DEF r
<1>4. CASE ~ Fits(base, names)
  <2> DEFINE own == Elements(arrays, base) \o names
             s == [r EXCEPT !.state = "notified", !.own = own]
  <2>1. request' = [request EXCEPT ![q] = s] /\ UNCHANGED arrays
    BY <1>1, <1>4 DEF SendNotification, RequestType
  <2>2. HeapType' /\ Kept
    BY <1>1, <2>1 DEF HeapType, Within, Kept
  <2>3. own \in Seq(Names)
    <3>1. Elements(arrays, base) \in Seq(Names)
      BY <1>1, <1>2, ElementsOf
    <3> QED
      BY <1>2, <3>1
  <2> HIDE DEF r, own
  <2>4. s \in RequestRecords
    BY <1>1, <2>3 DEF RequestRecords, RequestStates
  <2>5. /\ s.kind = r.kind /\ s.loop = r.loop /\ s.asked = r.asked
        /\ s.ok = r.ok /\ s.shifted = r.shifted /\ s.state = "notified"
        /\ s.base = base /\ s.list = r.list
    BY <1>1 DEF RequestRecords
  <2> HIDE DEF s
  <2> QED
    BY <1>1, <1>2, <2>1, <2>2, <2>4, <2>5, QuietKeeps DEF r, Within
<1> QED
  BY <1>3, <1>4

\* the rest of the steps leave the heap alone
LEMMA HeapStays ==
    ASSUME OutcomeInv, UNCHANGED <<arrays, sources, exclusions, connecting>>
    PROVE  /\ HeapType' /\ Kept
           /\ \A slice : Within(slice) =>
                 /\ slice.array \in 1 .. Len(arrays')
                 /\ slice.len <= Len(arrays'[slice.array])
  BY DEF OutcomeInv, HeapType, Within, Kept

LEMMA TellKeeps ==
    ASSUME OutcomeInv, NEW q \in Requests, TellOthers(q) \/ MakeChannel(q)
    PROVE  OutcomeInv'
<1> DEFINE r == request[q]
<1>1. /\ RequestType /\ RequestSound(q) /\ r \in RequestRecords
      /\ UNCHANGED <<arrays, sources, exclusions, connecting>>
      /\ sources.len \in Nat
  BY DEF OutcomeInv, TellOthers, MakeChannel, RequestType, HeapType, Slices
<1>2. HeapType' /\ Kept
  BY <1>1, HeapStays
<1>3. Within(r.base) /\ Within(r.list)
  BY <1>1 DEF RequestSound
<1>4. CASE TellOthers(q)
  <2> DEFINE told == KnownModules \ Range(NotifyExclusion(q))
             s == [r EXCEPT !.heard = TRUE, !.told = told]
  <2>1. request' = [request EXCEPT ![q] = s]
    BY <1>1, <1>4 DEF TellOthers, RequestType
  <2>2. told \in SUBSET KnownModules
    OBVIOUS
  <2> HIDE DEF r, told
  <2>3. s \in RequestRecords
    BY <1>1, <2>2 DEF RequestRecords
  <2>4. /\ s.kind = r.kind /\ s.loop = r.loop /\ s.asked = r.asked
        /\ s.ok = r.ok /\ s.shifted = r.shifted /\ s.state = r.state
        /\ s.base = r.base /\ s.list = r.list
    BY <1>1 DEF RequestRecords
  <2> HIDE DEF s
  <2> QED
    BY <1>1, <1>2, <1>3, <2>1, <2>3, <2>4, QuietKeeps DEF r, Within
<1>5. CASE MakeChannel(q)
  <2> DEFINE s == [r EXCEPT !.state = "made", !.capacity = sources.len]
  <2>1. request' = [request EXCEPT ![q] = s]
    BY <1>1, <1>5 DEF MakeChannel, RequestType
  <2>2. r.asked = <<>>
    BY <1>1, <1>5 DEF MakeChannel, RequestSound, Counted
  <2> HIDE DEF r
  <2>3. s \in RequestRecords
    BY <1>1 DEF RequestRecords, RequestStates
  <2>4. /\ s.kind = r.kind /\ s.loop = r.loop /\ s.asked = r.asked
        /\ s.ok = r.ok /\ s.shifted = r.shifted /\ s.state = "made"
        /\ s.base = r.base /\ s.list = r.list
    BY <1>1 DEF RequestRecords
  <2> HIDE DEF s
  <2> QED
    BY <1>1, <1>2, <1>3, <2>1, <2>2, <2>3, <2>4, QuietKeeps DEF r, Within
<1> QED
  BY <1>4, <1>5

LEMMA LoopKeeps ==
    ASSUME OutcomeInv, NEW q \in Requests, StartLoop(q)
    PROVE  OutcomeInv'
<1> DEFINE r == request[q]
           s == [r EXCEPT !.state = "asking", !.loop = sources]
<1>1. /\ RequestType /\ RequestSound(q) /\ r \in RequestRecords
      /\ UNCHANGED <<arrays, sources, exclusions, connecting>>
      /\ sources \in Slices /\ sources.len \in Nat /\ Within(sources)
      /\ Within(r.base) /\ Within(r.list)
  BY DEF OutcomeInv, StartLoop, RequestType, HeapType, Slices, RequestSound
<1>2. HeapType' /\ Kept
  BY <1>1, HeapStays
<1>3. request' = [request EXCEPT ![q] = s]
  BY DEF StartLoop
<1>4. r.state \in {"idle", "notified", "made"}
  BY <1>1 DEF StartLoop, RequestRecords, Kinds
<1>5. r.asked = <<>> /\ Counted(r)
  BY <1>1, <1>4 DEF RequestSound, Counted
<1> HIDE DEF r
<1>6. s \in RequestRecords
  BY <1>1 DEF RequestRecords, RequestStates
<1>7. /\ s.kind = r.kind /\ s.state = "asking" /\ s.base = r.base
      /\ s.list = r.list /\ s.loop = sources /\ s.asked = r.asked
      /\ s.ok = r.ok /\ s.shifted = r.shifted
  BY <1>1 DEF RequestRecords
<1> HIDE DEF s
<1>8. Counted(s) /\ StatusAsks(s) /\ Len(s.asked) <= s.loop.len
  BY <1>1, <1>5, <1>7 DEF Counted, StatusAsks
<1>9. ResultTrue(q)'
  <2>1. request'[q] = s
    BY <1>1, <1>3 DEF RequestType
  <2> QED
    BY <1>7, <2>1 DEF ResultTrue
<1> QED
  BY <1>1, <1>2, <1>3, <1>6, <1>7, <1>8, <1>9, RequestKeeps DEF Within

(***************************************************************************)
(* A step of the goroutines of request q: what is asked and counted        *)
(* changes, the lists and the loop do not.                                 *)
(***************************************************************************)
LEMMA GoroutineKeeps ==
    ASSUME OutcomeInv, NEW q \in Requests,
           NEW asked \in Seq(Tasks), NEW ok \in Nat,
           request[q].state = "asking",
           UNCHANGED <<arrays, sources, exclusions, connecting>>,
           request' = [request EXCEPT ![q].asked = asked, ![q].ok = ok],
           Len(asked) <= request[q].loop.len,
           \A i \in 1 .. Len(asked) :
              /\ asked[i].state = "called" => ~ asked[i].yes
              /\ asked[i].state = "accepted" => asked[i].yes
              /\ asked[i].state = "done" /\ asked[i].yes => ok > 0,
           ok > 0 => \E i \in 1 .. Len(asked) : asked[i].yes
    PROVE  OutcomeInv'
<1> DEFINE r == request[q]  s == [r EXCEPT !.asked = asked, !.ok = ok]
<1>1. /\ RequestType /\ RequestSound(q) /\ r \in RequestRecords
      /\ Within(r.base) /\ Within(r.list) /\ Within(r.loop) /\ StatusAsks(r)
  BY DEF OutcomeInv, RequestType, RequestSound
<1>2. HeapType' /\ Kept
  BY HeapStays
<1>3. request' = [request EXCEPT ![q] = s] /\ r.state = "asking"
  BY <1>1 DEF RequestType
<1> HIDE DEF r
<1>4. s \in RequestRecords
  BY <1>1 DEF RequestRecords
<1>5. /\ s.kind = r.kind /\ s.state = "asking" /\ s.base = r.base
      /\ s.list = r.list /\ s.loop = r.loop /\ s.asked = asked
      /\ s.ok = ok /\ s.shifted = r.shifted
  BY <1>1, <1>3 DEF RequestRecords
<1> HIDE DEF s
<1>6. Counted(s) /\ StatusAsks(s)
  BY <1>1, <1>3, <1>5 DEF Counted, StatusAsks
<1>7. ResultTrue(q)'
  <2>1. request'[q] = s
    BY <1>1, <1>3 DEF RequestType
  <2> QED
    BY <1>5, <2>1 DEF ResultTrue
<1> QED
  BY <1>1, <1>2, <1>3, <1>4, <1>5, <1>6, <1>7, RequestKeeps
     DEF Within, r

LEMMA AskKeeps ==
    ASSUME OutcomeInv, NEW q \in Requests, AskNext(q)
    PROVE  OutcomeInv'
<1> DEFINE r == request[q]  loop == r.loop  old == r.asked
           n == Len(old)
           task == [name |-> arrays[loop.array][n + 1], state |-> "called",
                    yes |-> FALSE, read |-> 0]
           asked == Append(old, task)
<1>1. /\ RequestType /\ RequestSound(q) /\ r \in RequestRecords
      /\ UNCHANGED <<arrays, sources, exclusions, connecting>>
      /\ r.state = "asking" /\ n + 1 <= loop.len
      /\ arrays \in Seq(Seq(Names)) /\ Within(loop) /\ Counted(r)
  BY DEF OutcomeInv, AskNext, RequestType, HeapType, RequestSound
<1>2. old \in Seq(Tasks) /\ n \in Nat /\ r.ok \in Nat /\ loop \in Slices
  BY <1>1 DEF RequestRecords
<1>3. task \in Tasks
  <2>1. loop.array \in 1 .. Len(arrays) /\ n + 1 \in 1 .. Len(arrays[loop.array])
    BY <1>1, <1>2 DEF Within, Slices
  <2>2. arrays[loop.array] \in Seq(Names)
    BY <1>1, <2>1
  <2>3. arrays[loop.array][n + 1] \in Names
    BY <2>1, <2>2
  <2> QED
    BY <2>3 DEF Tasks
<1>4. request' = [request EXCEPT ![q].asked = asked, ![q].ok = r.ok]
  <2>1. request' = [request EXCEPT ![q].asked = asked]
    BY <1>1, <1>2 DEF AskNext, RequestType
  <2>2. [r EXCEPT !.asked = asked]
           = [r EXCEPT !.asked = asked, !.ok = r.ok]
    BY <1>1 DEF RequestRecords
  <2> QED
    BY <2>1, <2>2
<1>5. task.state = "called" /\ task.yes = FALSE
  OBVIOUS
<1>6. Counted(r)
  BY <1>1
<1> HIDE DEF task, old
<1>7. /\ asked \in Seq(Tasks) /\ Len(asked) = n + 1
      /\ \A i \in 1 .. n : asked[i] = old[i]
      /\ asked[n + 1] = task
  BY <1>2, <1>3
<1> HIDE DEF asked
<1>8. \A i \in 1 .. Len(asked) :
         /\ asked[i].state = "called" => ~ asked[i].yes
         /\ asked[i].state = "accepted" => asked[i].yes
         /\ asked[i].state = "done" /\ asked[i].yes => r.ok > 0
  <2>1. \A i \in 1 .. Len(asked) : i \in 1 .. n \/ i = n + 1
    BY <1>2, <1>7
  <2> QED
    BY <1>5, <1>6, <1>7, <2>1 DEF Counted, old
<1>9. r.ok > 0 => \E i \in 1 .. Len(asked) : asked[i].yes
  <2>1. \A i \in 1 .. n : i \in 1 .. Len(asked)
    BY <1>2, <1>7
  <2> QED
    BY <1>6, <1>7, <2>1 DEF Counted, old
<1> QED
  BY <1>1, <1>2, <1>4, <1>7, <1>8, <1>9, GoroutineKeeps

\* goroutine i goes on: task is what becomes of it
LEMMA TaskKeeps ==
    ASSUME OutcomeInv, NEW q \in Requests,
           NEW i \in 1 .. Len(request[q].asked),
           NEW task \in Tasks, NEW ok \in Nat,
           request[q].asked[i].state # "done",
           UNCHANGED <<arrays, sources, exclusions, connecting>>,
           request' = [request EXCEPT
              ![q].asked = [request[q].asked EXCEPT ![i] = task],
              ![q].ok = ok],
           task.state = "called" => ~ task.yes,
           task.state = "accepted" => task.yes,
           task.state = "done" /\ task.yes => ok > 0,
           request[q].asked[i].yes => task.yes,
           request[q].ok > 0 => ok > 0,
           ok > 0 => request[q].ok > 0 \/ task.yes
    PROVE  OutcomeInv'
<1> DEFINE r == request[q]  old == r.asked  asked == [old EXCEPT ![i] = task]
<1>1. /\ RequestSound(q) /\ r \in RequestRecords /\ Counted(r)
      /\ Len(old) <= r.loop.len
  BY DEF OutcomeInv, RequestType, RequestSound
<1>2. old \in Seq(Tasks) /\ Len(old) \in Nat /\ r.state \in RequestStates
  BY <1>1 DEF RequestRecords
<1>3. old[i].state # "done" /\ i \in 1 .. Len(old) /\ old # <<>>
  BY <1>2
<1>4. r.state = "asking"
  BY <1>1, <1>2, <1>3 DEF Counted, RequestStates
<1>5. /\ asked \in Seq(Tasks) /\ Len(asked) = Len(old) /\ asked[i] = task
      /\ \A j \in 1 .. Len(old) : j # i => asked[j] = old[j]
  BY <1>2
<1>6. /\ request' = [request EXCEPT ![q].asked = asked, ![q].ok = ok]
      /\ old[i].yes => task.yes
      /\ r.ok > 0 => ok > 0
      /\ ok > 0 => r.ok > 0 \/ task.yes
  OBVIOUS
<1> HIDE DEF asked
<1>7. ASSUME NEW j \in 1 .. Len(asked)
      PROVE  /\ asked[j].state = "called" => ~ asked[j].yes
             /\ asked[j].state = "accepted" => asked[j].yes
             /\ asked[j].state = "done" /\ asked[j].yes => ok > 0
  BY <1>1, <1>5, <1>6 DEF Counted
<1>8. ok > 0 => \E j \in 1 .. Len(asked) : asked[j].yes
  BY <1>1, <1>5, <1>6 DEF Counted
<1> HIDE DEF r, old
<1>9. request[q].state = "asking" /\ Len(asked) <= request[q].loop.len
  BY <1>1, <1>4, <1>5 DEF r, old
<1> QED
  BY <1>5, <1>6, <1>7, <1>8, <1>9, GoroutineKeeps

LEMMA AnswerKeeps ==
    ASSUME OutcomeInv, NEW q \in Requests, NEW i,
           SourceRefuses(q, i) \/ SourceAccepts(q, i) \/ RecordSuccess(q, i)
    PROVE  OutcomeInv'
<1> DEFINE r == request[q]  old == r.asked  t == old[i]
<1>1. /\ RequestType /\ r \in RequestRecords /\ Counted(r)
      /\ UNCHANGED <<arrays, sources, exclusions, connecting>>
      /\ i \in DOMAIN old /\ t.state \in {"called", "accepted"}
  BY DEF OutcomeInv, RequestType, RequestSound,
         SourceRefuses, SourceAccepts, RecordSuccess
<1>2. /\ old \in Seq(Tasks) /\ r.ok \in Nat /\ i \in 1 .. Len(old)
      /\ t \in Tasks
  BY <1>1 DEF RequestRecords
<1>3. /\ t.state = "called" => ~ t.yes
      /\ t.state = "accepted" => t.yes
      /\ t.read \in Nat /\ t.yes \in BOOLEAN
  BY <1>1, <1>2 DEF Counted, Tasks
<1>4. CASE SourceRefuses(q, i)
  <2> DEFINE task == [t EXCEPT !.state = "done"]
  <2>1. /\ task \in Tasks /\ task.state = "done" /\ task.yes = t.yes
        /\ ~ t.yes /\ t.state # "done"
    BY <1>2, <1>3, <1>4 DEF SourceRefuses, Tasks
  <2>2. request' = [request EXCEPT
           ![q].asked = [old EXCEPT ![i] = task], ![q].ok = r.ok]
    <3>1. request' = [request EXCEPT ![q].asked = [old EXCEPT ![i] = task]]
      BY <1>1, <1>2, <1>4 DEF SourceRefuses, RequestType
    <3>2. [r EXCEPT !.asked = [old EXCEPT ![i] = task]]
             = [r EXCEPT !.asked = [old EXCEPT ![i] = task], !.ok = r.ok]
      BY <1>1 DEF RequestRecords
    <3> QED
      BY <3>1, <3>2
  <2> HIDE DEF task
  <2> QED
    BY <1>1, <1>2, <2>1, <2>2, TaskKeeps
<1>5. CASE SourceAccepts(q, i)
  <2> DEFINE task == [t EXCEPT !.state = "accepted", !.yes = TRUE,
                               !.read = r.ok]
  <2>1. /\ task \in Tasks /\ task.state = "accepted" /\ task.yes
        /\ t.state # "done"
    BY <1>1, <1>2, <1>5 DEF SourceAccepts, Tasks
  <2>2. request' = [request EXCEPT
           ![q].asked = [old EXCEPT ![i] = task], ![q].ok = r.ok]
    <3>1. request' = [request EXCEPT ![q].asked = [old EXCEPT ![i] = task]]
      BY <1>1, <1>2, <1>5 DEF SourceAccepts, RequestType
    <3>2. [r EXCEPT !.asked = [old EXCEPT ![i] = task]]
             = [r EXCEPT !.asked = [old EXCEPT ![i] = task], !.ok = r.ok]
      BY <1>1 DEF RequestRecords
    <3> QED
      BY <3>1, <3>2
  <2> HIDE DEF task
  <2> QED
    BY <1>1, <1>2, <2>1, <2>2, TaskKeeps
<1>6. CASE RecordSuccess(q, i)
  <2> DEFINE task == [t EXCEPT !.state = "done"]
             ok == IF r.kind = "registerValidator" THEN t.read + 1
                   ELSE r.ok + 1
  <2>1. /\ task \in Tasks /\ task.state = "done" /\ task.yes = t.yes
        /\ t.yes /\ t.state # "done"
    BY <1>2, <1>3, <1>6 DEF RecordSuccess, Tasks
  <2>2. ok \in Nat /\ ok > 0
    <3>1. \A n \in Nat : n + 1 \in Nat /\ n + 1 > 0
      OBVIOUS
    <3>2. ok \in {t.read + 1, r.ok + 1}
      OBVIOUS
    <3> HIDE DEF r, t, ok
    <3> QED
      BY <1>2, <1>3, <3>1, <3>2
  <2>3. request' = [request EXCEPT
           ![q].asked = [old EXCEPT ![i] = task], ![q].ok = ok]
    BY <1>1, <1>2, <1>6 DEF RecordSuccess, RequestType
  <2> HIDE DEF task, ok
  <2> QED
    BY <1>1, <1>2, <2>1, <2>2, <2>3, TaskKeeps
<1> QED
  BY <1>4, <1>5, <1>6

LEMMA ReturnKeeps ==
    ASSUME OutcomeInv, NEW q \in Requests, Return(q)
    PROVE  OutcomeInv'
<1> DEFINE r == request[q]
           state == IF Succeeds(q) THEN "done" ELSE "failed"
           s == [r EXCEPT !.state = state]
<1>1. /\ RequestType /\ RequestSound(q) /\ r \in RequestRecords
      /\ UNCHANGED <<arrays, sources, exclusions, connecting>>
      /\ Within(r.base) /\ Within(r.list) /\ Within(r.loop)
      /\ StatusAsks(r) /\ Counted(r) /\ AllDone(q)
      /\ sources.len \in Nat
  BY DEF OutcomeInv, Return, RequestType, RequestSound, HeapType, Slices
<1>2. HeapType' /\ Kept
  BY <1>1, HeapStays
<1>3. request' = [request EXCEPT ![q] = s]
  BY DEF Return
<1>4. /\ r.asked \in Seq(Tasks) /\ Len(r.asked) = r.loop.len
      /\ r.loop.len \in Nat /\ r.ok \in Nat
      /\ \A i \in 1 .. Len(r.asked) : r.asked[i].state = "done"
      /\ r.state = "asking" /\ DOMAIN r.asked = 1 .. Len(r.asked)
  BY <1>1 DEF AllDone, RequestRecords, Slices
<1>5. /\ r.kind = "status" => (state = "done" <=>
             sources.len = 0 \/ r.ok > 0)
      /\ r.kind = "registerValidator" => (state = "done" <=> r.ok > 0)
      /\ state \in {"done", "failed"}
  BY DEF Succeeds
<1>6. r.ok > 0 <=> \E i \in 1 .. Len(r.asked) : r.asked[i].yes
  BY <1>1, <1>4 DEF Counted
<1> HIDE DEF r, state
<1>7. s \in RequestRecords
  BY <1>1, <1>5 DEF RequestRecords, RequestStates
<1>8. /\ s.kind = r.kind /\ s.state = state /\ s.base = r.base
      /\ s.list = r.list /\ s.loop = r.loop /\ s.asked = r.asked
      /\ s.ok = r.ok /\ s.shifted = r.shifted
  BY <1>1 DEF RequestRecords
<1> HIDE DEF s
<1>9. Counted(s) /\ StatusAsks(s) /\ Len(s.asked) <= s.loop.len
  BY <1>1, <1>4, <1>5, <1>8 DEF Counted, StatusAsks
<1>10. ResultTrue(q)'
  <2>1. request'[q] = s
    BY <1>1, <1>3 DEF RequestType
  <2>2. Accepting(q)' = {} <=> ~ (r.ok > 0)
    BY <1>4, <1>6, <1>8, <2>1 DEF Accepting
  <2>3. r.kind = "status" /\ sources.len = 0 /\ ~ r.shifted => r.asked = <<>>
    BY <1>1, <1>4 DEF StatusAsks
  <2> QED
    BY <1>5, <1>8, <2>1, <2>2, <2>3 DEF ResultTrue
<1> QED
  BY <1>1, <1>2, <1>3, <1>4, <1>7, <1>8, <1>9, <1>10, RequestKeeps
     DEF Within

-----------------------------------------------------------------------------
LEMMA OutcomeInit == ListsInit => OutcomeInv
<1> SUFFICES ASSUME ListsInit PROVE OutcomeInv
  OBVIOUS
<1> DEFINE none == [array |-> 1, len |-> 0]
<1>1. /\ arrays = << <<>> >> /\ sources = none
      /\ exclusions = <<"builderApi", "blockAggregator">>
      /\ connecting = [c \in Connects |-> "idle"]
  BY DEF ListsInit
<1>2. PICK Kind \in [Requests -> Kinds] :
          request = [q \in Requests |-> Idle(Kind[q])]
  BY DEF ListsInit
<1>3. /\ arrays \in Seq(Seq(Names)) /\ Len(arrays) = 1 /\ Len(arrays[1]) = 0
      /\ none \in Slices /\ none.array = 1 /\ none.len = 0
  BY <1>1 DEF Slices
<1>4. HeapType
  BY <1>1, <1>3 DEF HeapType, Within, Names
<1>5. ASSUME NEW q \in Requests
      PROVE  request[q] \in RequestRecords /\ RequestSound(q)
  <2> DEFINE r == request[q]
  <2>1. r = Idle(Kind[q]) /\ Kind[q] \in Kinds
    BY <1>2
  <2>2. <<>> \in Seq(Names) /\ <<>> \in Seq(Tasks) /\ Len(<<>>) = 0
    OBVIOUS
  <2>3. r \in RequestRecords
    BY <1>3, <2>1, <2>2 DEF RequestRecords, RequestStates, Idle
  <2>4. /\ r.state = "idle" /\ r.base = none /\ r.list = none
        /\ r.loop = none /\ r.asked = <<>> /\ r.ok = 0
    BY <2>1 DEF Idle
  <2> HIDE DEF r, none
  <2>5. Counted(r) /\ StatusAsks(r)
    BY <2>2, <2>4 DEF Counted, StatusAsks
  <2>6. ResultTrue(q)
    BY <2>4 DEF ResultTrue, r
  <2> QED
    BY <1>3, <2>2, <2>3, <2>4, <2>5, <2>6 DEF RequestSound, Within, r
<1>6. RequestType
  BY <1>2, <1>5 DEF RequestType
<1> QED
  BY <1>4, <1>5, <1>6 DEF OutcomeInv

LEMMA OutcomeStep == OutcomeInv /\ [ListsNext]_vars => OutcomeInv'
<1> SUFFICES ASSUME OutcomeInv, [ListsNext]_vars PROVE OutcomeInv'
  OBVIOUS
<1>1. CASE ListStep
  BY <1>1, ListStepKeeps
<1>2. ASSUME NEW q \in Requests, Step(q) PROVE OutcomeInv'
  <2>1. CASE ReadLists(q)
    BY <2>1, ReadKeeps
  <2>2. CASE SendNotification(q)
    BY <2>2, SendKeeps
  <2>3. CASE TellOthers(q) \/ MakeChannel(q)
    BY <2>3, TellKeeps
  <2>4. CASE StartLoop(q)
    BY <2>4, LoopKeeps
  <2>5. CASE AskNext(q)
    BY <2>5, AskKeeps
  <2>6. CASE Return(q)
    BY <2>6, ReturnKeeps
  <2>7. CASE \E i \in DOMAIN request[q].asked :
               SourceRefuses(q, i) \/ SourceAccepts(q, i) \/ RecordSuccess(q, i)
    BY <2>7, AnswerKeeps
  <2> QED
    BY <1>2, <2>1, <2>2, <2>3, <2>4, <2>5, <2>6, <2>7 DEF Step
<1>3. CASE UNCHANGED vars
  BY <1>3 DEF vars, OutcomeInv, HeapType, RequestType, RequestSound, Within,
              StatusAsks, ResultTrue, Accepting
<1> QED
  BY <1>1, <1>2, <1>3 DEF ListsNext

(***************************************************************************)
(* registerValidator succeeds if and only if some source accepted, for     *)
(* any number of goroutines that overwrite each other's append             *)
(* (backend.go:84, 95); Status says the truth while nobody disconnects     *)
(* (backend.go:43-58).                                                     *)
(***************************************************************************)
THEOREM OutcomesTrue == ListsSpec => []OutcomeTruth
<1>1. OutcomeInv => OutcomeTruth
  BY DEF OutcomeInv, RequestSound, ResultTrue, OutcomeTruth
<1> QED
  BY <1>1, OutcomeInit, OutcomeStep, PTL DEF ListsSpec

-----------------------------------------------------------------------------
(***************************************************************************)
(* The channel of getHeader.  It has room for one header of each source    *)
(* that was in the list when it was made (backend.go:122); the loop, which *)
(* looks the list up again, asks no more than those (backend.go:150), but  *)
(* if a source has joined between the two.                                 *)
(***************************************************************************)
\* a goroutine that has a header for the channel finds room
HeadersFit ==
    \A q \in Requests : \A i \in 1 .. Len(request[q].asked) :
        request[q].kind = "getHeader" /\ request[q].asked[i].state = "accepted"
        => \/ request[q].ok < request[q].capacity
           \/ request[q].joined /\ request[q].loop.len > request[q].capacity

\* the goroutines whose headers are in the channel
Recorded(r) ==
    {i \in 1 .. Len(r.asked) : r.asked[i].state = "done" /\ r.asked[i].yes}

RoomSound(r) ==
    /\ r.ok = Cardinality(Recorded(r))
    /\ r.state = "made" => r.joined \/ sources.len <= r.capacity
    /\ r.state \in {"asking", "done", "failed"} =>
          r.joined \/ r.loop.len <= r.capacity

RoomInv ==
    \A q \in Requests : request[q].kind = "getHeader" => RoomSound(request[q])

LEMMA RoomImplies == OutcomeInv /\ RoomInv => HeadersFit
<1> SUFFICES ASSUME OutcomeInv, RoomInv,
                    NEW q \in Requests, NEW i \in 1 .. Len(request[q].asked),
                    request[q].kind = "getHeader",
                    request[q].asked[i].state = "accepted",
                    request[q].loop.len <= request[q].capacity
                       \/ ~ request[q].joined
             PROVE  request[q].ok < request[q].capacity
  <2>1. ASSUME OutcomeInv, NEW q \in Requests
        PROVE  request[q].loop.len \in Nat /\ request[q].capacity \in Nat
    <3>1. request[q] \in RequestRecords
      BY <2>1 DEF OutcomeInv, RequestType
    <3>2. request[q].loop \in Slices /\ request[q].capacity \in Nat
      BY <3>1 DEF RequestRecords
    <3> QED
      BY <3>2 DEF Slices
  <2> QED
    BY <2>1 DEF HeadersFit
<1> DEFINE r == request[q]  n == Len(r.asked)
<1>1. /\ r \in RequestRecords /\ RoomSound(r) /\ RequestSound(q)
  BY DEF OutcomeInv, RequestType, RoomInv
<1>2. /\ r.asked \in Seq(Tasks) /\ n \in Nat /\ r.loop.len \in Nat
      /\ r.capacity \in Nat /\ r.state \in RequestStates
  BY <1>1 DEF RequestRecords, Slices
<1>3. r.state \in {"asking", "done", "failed"}
  BY <1>1, <1>2 DEF RequestSound, Counted
<1>4. n <= r.loop.len /\ r.loop.len <= r.capacity
  BY <1>1, <1>3 DEF RequestSound, RoomSound
<1>5. Cardinality(Recorded(r)) < n
  <2>2. Recorded(r) \subseteq 1 .. n /\ i \notin Recorded(r) /\ i \in 1 .. n
    BY DEF Recorded
  <2> HIDE DEF r, n
  <2>1. IsFiniteSet(1 .. n) /\ Cardinality(1 .. n) = n
    <3>1. /\ 1 \in Int /\ n \in Int
          /\ (IF 1 > n THEN 0 ELSE n - 1 + 1) = n
      BY <1>2
    <3>2. /\ IsFiniteSet(1 .. n)
          /\ Cardinality(1 .. n) = IF 1 > n THEN 0 ELSE n - 1 + 1
      BY <3>1, FS_Interval, Zenon
    <3> QED
      BY <3>1, <3>2
  <2>3. Recorded(r) # 1 .. n
    BY <2>2
  <2>4. /\ Cardinality(Recorded(r)) <= Cardinality(1 .. n)
        /\ Cardinality(Recorded(r)) = Cardinality(1 .. n)
              => Recorded(r) = 1 .. n
        /\ IsFiniteSet(Recorded(r))
    BY <2>1, <2>2, FS_Subset
  <2>5. Cardinality(Recorded(r)) \in Nat
    BY <2>4, FS_CardinalityType
  <2> QED
    BY <1>2, <2>1, <2>3, <2>4, <2>5
<1>6. r.ok = Cardinality(Recorded(r)) /\ r.ok \in Nat
  BY <1>1 DEF RoomSound, RequestRecords
<1> QED
  BY <1>2, <1>4, <1>5, <1>6

\* who joins the list after the channel was made is remembered
LEMMA JoinedIs ==
    ASSUME RequestType, NEW m, NEW how, Moved(m, how), NEW q \in Requests
    PROVE  /\ request[q].joined => request'[q].joined
           /\ how = "connects" /\ request[q].state = "made" =>
                 request'[q].joined
<1>1. CASE ~ Reading(q)
  BY <1>1 DEF Moved, Reading
<1>2. CASE Reading(q)
  <2> DEFINE r == request[q]
             late == how = "connects" /\ r.state = "made"
  <2>1. request'[q] = [r EXCEPT
              !.members = @ \ {m}, !.others = @ \ {m},
              !.shifted = @ \/ how = "leaves", !.joined = @ \/ late]
    BY <1>2 DEF Moved
  <2>2. r \in RequestRecords
    BY DEF RequestType
  <2> HIDE DEF r, late
  <2>3. request'[q].joined = (r.joined \/ late)
    BY <2>1, <2>2 DEF RequestRecords
  <2> QED
    BY <2>3 DEF r, late
<1> QED
  BY <1>1, <1>2

LEMMA WriterLeavesRoom ==
    ASSUME OutcomeInv, RoomInv, ListStep
    PROVE  RoomInv'
<1>1. /\ RequestType /\ HeapType /\ sources.len \in Nat
      /\ \A q \in Requests : request[q].capacity \in Nat
  BY DEF OutcomeInv, HeapType, Slices, RequestType, RequestRecords
<1>2. ASSUME \A q \in Requests :
                /\ SameButHistory(request[q], request'[q])
                /\ request[q].joined => request'[q].joined
                /\ request[q].state = "made" =>
                      request'[q].joined \/ sources'.len <= sources.len,
             sources'.len \in Nat
      PROVE  RoomInv'
  <2> SUFFICES ASSUME NEW q \in Requests, request'[q].kind = "getHeader"
               PROVE  RoomSound(request[q])'
    BY DEF RoomInv
  <2> DEFINE r == request[q]  s == request'[q]
  <2>1. /\ SameButHistory(r, s) /\ (r.joined => s.joined)
        /\ r.state = "made" => s.joined \/ sources'.len <= sources.len
        /\ s.kind = "getHeader" /\ r.capacity \in Nat
        /\ r.kind = "getHeader" => RoomSound(r)
        /\ RoomSound(request[q])' <=>
              /\ s.ok = Cardinality(Recorded(s))
              /\ s.state = "made" => s.joined \/ sources'.len <= s.capacity
              /\ s.state \in {"asking", "done", "failed"} =>
                    s.joined \/ s.loop.len <= s.capacity
    BY <1>1, <1>2 DEF RoomInv, RoomSound, Recorded
  <2> HIDE DEF r, s
  <2>2. /\ s.state = r.state /\ s.capacity = r.capacity /\ s.ok = r.ok
        /\ s.loop = r.loop /\ s.asked = r.asked /\ r.kind = "getHeader"
    BY <2>1 DEF SameButHistory
  <2>3. RoomSound(r) /\ r.capacity \in Nat
    BY <2>1, <2>2
  <2>4. s.ok = Cardinality(Recorded(s))
    BY <2>2, <2>3 DEF RoomSound, Recorded
  <2>5. s.state = "made" => s.joined \/ sources'.len <= s.capacity
    BY <1>1, <1>2, <2>1, <2>2, <2>3 DEF RoomSound
  <2>6. s.state \in {"asking", "done", "failed"} =>
           s.joined \/ s.loop.len <= s.capacity
    BY <2>1, <2>2, <2>3 DEF RoomSound
  <2> QED
    BY <2>1, <2>4, <2>5, <2>6
<1>3. ASSUME NEW c \in Connects, Connect(c) \/ NameRefused(c) PROVE RoomInv'
  BY <1>3 DEF Connect, NameRefused, RoomInv, RoomSound, Recorded
<1>4. ASSUME NEW c \in Connects, NameAnswered(c) PROVE RoomInv'
  <2>1. sources'.len \in Nat
    BY <1>1, <1>4, NameAnsweredIs
  <2>2. Moved(Name[c], "connects")
    BY <1>4 DEF NameAnswered
  <2> QED
    BY <1>1, <1>2, <2>1, <2>2, MovedIs, JoinedIs
<1>5. ASSUME NEW m \in Leaving, DisconnectBlockSource(m) PROVE RoomInv'
  <2>1. sources'.len \in Nat /\ sources'.len <= sources.len
    <3>1. HeapType' /\ sources'.len = sources.len - 1
      BY <1>1, <1>5, DisconnectIs
    <3> QED
      BY <1>1, <3>1 DEF HeapType, Slices
  <2>2. Moved(m, "leaves")
    BY <1>5 DEF DisconnectBlockSource
  <2> QED
    BY <1>1, <1>2, <2>1, <2>2, MovedIs, JoinedIs
<1>6. ASSUME NEW m \in Excludable,
             ExcludeFromNotifications(m) \/ IncludeInNotifications(m)
      PROVE  RoomInv'
  <2>1. PICK how : Moved(m, how) /\ sources' = sources
    BY <1>6 DEF ExcludeFromNotifications, IncludeInNotifications
  <2>2. sources'.len \in Nat /\ sources'.len <= sources.len
    BY <1>1, <2>1
  <2> QED
    BY <1>1, <1>2, <2>1, <2>2, MovedIs, JoinedIs
<1> QED
  BY <1>3, <1>4, <1>5, <1>6 DEF ListStep

\* a step of request q, which becomes s
LEMMA RoomKeeps ==
    ASSUME OutcomeInv, RoomInv, NEW q \in Requests, NEW s,
           request' = [request EXCEPT ![q] = s], UNCHANGED sources,
           s.kind = "getHeader" => RoomSound(s)
    PROVE  RoomInv'
<1>1. /\ request'[q] = s
      /\ \A p \in Requests : p # q => request'[p] = request[p]
  BY DEF OutcomeInv, RequestType
<1>2. ASSUME NEW p \in Requests, request'[p].kind = "getHeader"
      PROVE  RoomSound(request[p])'
  <2>1. RoomSound(request'[p])
    BY <1>1, <1>2 DEF RoomInv
  <2> QED
    BY <2>1 DEF RoomSound, Recorded
<1> QED
  BY <1>2 DEF RoomInv

\* steps of which the goroutines and the channel know nothing
LEMMA QuietLeavesRoom ==
    ASSUME OutcomeInv, RoomInv, NEW q \in Requests,
           ReadLists(q) \/ SendNotification(q) \/ TellOthers(q) \/ Return(q)
    PROVE  RoomInv'
<1> DEFINE r == request[q]  s == request'[q]
<1>1. r \in RequestRecords /\ RequestType
  BY DEF OutcomeInv, RequestType
<1>2. /\ request' = [request EXCEPT ![q] = s] /\ UNCHANGED sources
      /\ s.kind = r.kind /\ s.asked = r.asked /\ s.ok = r.ok
      /\ s.joined = r.joined /\ s.capacity = r.capacity /\ s.loop = r.loop
      /\ \/ s.state = r.state
         \/ s.state \in {"read", "notified"}
         \/ r.state = "asking" /\ s.state \in {"done", "failed"}
  <2>1. CASE ReadLists(q)
    BY <1>1, <2>1 DEF ReadLists, RequestType, RequestRecords
  <2>2. CASE SendNotification(q)
    BY <1>1, <2>2 DEF SendNotification, RequestType, RequestRecords
  <2>3. CASE TellOthers(q)
    BY <1>1, <2>3 DEF TellOthers, RequestType, RequestRecords
  <2>4. CASE Return(q)
    BY <1>1, <2>4 DEF Return, AllDone, RequestType, RequestRecords
  <2> QED
    BY <2>1, <2>2, <2>3, <2>4
<1>3. r.kind = "getHeader" => RoomSound(r)
  BY DEF RoomInv
<1> HIDE DEF r, s
<1>4. Recorded(s) = Recorded(r)
  BY <1>2 DEF Recorded
<1>5. s.kind = "getHeader" => RoomSound(s)
  BY <1>2, <1>3, <1>4 DEF RoomSound
<1> QED
  BY <1>2, <1>5, RoomKeeps

LEMMA ChannelHasRoom ==
    ASSUME OutcomeInv, RoomInv, NEW q \in Requests,
           MakeChannel(q) \/ StartLoop(q)
    PROVE  RoomInv'
<1> DEFINE r == request[q]  s == request'[q]
<1>1. r \in RequestRecords /\ RequestType /\ sources.len \in Nat
  BY DEF OutcomeInv, RequestType, HeapType, Slices
<1>2. /\ request' = [request EXCEPT ![q] = s] /\ UNCHANGED sources
      /\ s.kind = r.kind /\ s.asked = r.asked /\ s.ok = r.ok
      /\ s.joined = r.joined
      /\ \/ s.state = "made" /\ s.capacity = sources.len
         \/ /\ s.state = "asking" /\ s.capacity = r.capacity
            /\ s.loop = sources /\ (r.kind = "getHeader" => r.state = "made")
  <2>1. CASE MakeChannel(q)
    BY <1>1, <2>1 DEF MakeChannel, RequestType, RequestRecords
  <2>2. CASE StartLoop(q)
    BY <1>1, <2>2 DEF StartLoop, RequestType, RequestRecords, Kinds
  <2> QED
    BY <2>1, <2>2
<1>3. r.kind = "getHeader" => RoomSound(r)
  BY DEF RoomInv
<1> HIDE DEF r, s
<1>4. Recorded(s) = Recorded(r)
  BY <1>2 DEF Recorded
<1>5. s.kind = "getHeader" => RoomSound(s)
  BY <1>1, <1>2, <1>3, <1>4 DEF RoomSound
<1> QED
  BY <1>2, <1>5, RoomKeeps

\* every goroutine puts one header into the channel at most
LEMMA GoroutineLeavesRoom ==
    ASSUME OutcomeInv, RoomInv, NEW q \in Requests,
           \/ AskNext(q)
           \/ \E i \in DOMAIN request[q].asked :
                 SourceRefuses(q, i) \/ SourceAccepts(q, i)
                    \/ RecordSuccess(q, i)
    PROVE  RoomInv'
<1> DEFINE r == request[q]  s == request'[q]  old == r.asked  n == Len(old)
<1>1. /\ r \in RequestRecords /\ RequestType /\ Counted(r)
      /\ old \in Seq(Tasks) /\ n \in Nat /\ DOMAIN old = 1 .. n
      /\ r.ok \in Nat
  BY DEF OutcomeInv, RequestType, RequestRecords, RequestSound
<1>2. ASSUME request' = [request EXCEPT ![q] = s], UNCHANGED sources,
             s.kind = r.kind, s.state = r.state, s.joined = r.joined,
             s.capacity = r.capacity, s.loop = r.loop,
             r.kind = "getHeader" =>
                \/ Recorded(s) = Recorded(r) /\ s.ok = r.ok
                \/ s.ok = r.ok + 1 /\ \E i \in (1 .. n) \ Recorded(r) :
                      Recorded(s) = Recorded(r) \cup {i}
      PROVE  RoomInv'
  <2>1. ASSUME s.kind = "getHeader" PROVE s.ok = Cardinality(Recorded(s))
    <3>1. RoomSound(r)
      BY <1>2, <2>1 DEF RoomInv
    <3>2. IsFiniteSet(Recorded(r))
      <4>1. Recorded(r) \subseteq 1 .. n /\ IsFiniteSet(1 .. n)
        BY <1>1, FS_Interval DEF Recorded
      <4> QED
        BY <4>1, FS_Subset
    <3>3. CASE Recorded(s) = Recorded(r) /\ s.ok = r.ok
      BY <3>1, <3>3 DEF RoomSound
    <3>4. ASSUME s.ok = r.ok + 1, NEW i \in 1 .. n, i \notin Recorded(r),
                 Recorded(s) = Recorded(r) \cup {i}
          PROVE  s.ok = Cardinality(Recorded(s))
      BY <3>1, <3>2, <3>4, FS_AddElement DEF RoomSound
    <3> QED
      BY <1>2, <2>1, <3>3, <3>4
  <2>2. s.kind = "getHeader" => RoomSound(s)
    BY <1>2, <2>1 DEF RoomInv, RoomSound
  <2> QED
    BY <1>2, <2>2, RoomKeeps
<1>3. CASE AskNext(q)
  <2> DEFINE task == [name |-> arrays[r.loop.array][n + 1],
                      state |-> "called", yes |-> FALSE, read |-> 0]
  <2>1. /\ request' = [request EXCEPT ![q] = s] /\ UNCHANGED sources
        /\ s = [r EXCEPT !.asked = Append(old, task)]
    BY <1>1, <1>3 DEF AskNext, RequestType
  <2>2. task.state = "called"
    OBVIOUS
  <2> HIDE DEF task, r, s
  <2>3. /\ s.kind = r.kind /\ s.state = r.state /\ s.joined = r.joined
        /\ s.capacity = r.capacity /\ s.loop = r.loop /\ s.ok = r.ok
        /\ s.asked = Append(r.asked, task)
    BY <1>1, <2>1 DEF RequestRecords
  <2>4. Recorded(s) = Recorded(r)
    <3>1. /\ Len(s.asked) = n + 1 /\ s.asked[n + 1] = task
          /\ \A i \in 1 .. n : s.asked[i] = r.asked[i]
      BY <1>1, <2>3
    <3>2. \A i : i \in 1 .. (n + 1) <=> i \in 1 .. n \/ i = n + 1
      BY <1>1
    <3>3. ~ (s.asked[n + 1].state = "done")
      BY <2>2, <3>1
    <3> QED
      BY <1>1, <3>1, <3>2, <3>3 DEF Recorded
  <2> QED
    BY <1>2, <2>1, <2>3, <2>4 DEF s, r
<1>4. ASSUME NEW i \in 1 .. n,
             SourceRefuses(q, i) \/ SourceAccepts(q, i) \/ RecordSuccess(q, i)
      PROVE  RoomInv'
  <2> DEFINE t == old[i]  u == s.asked[i]
  <2>1. t \in Tasks /\ (t.state = "called" => ~ t.yes)
        /\ (t.state = "accepted" => t.yes)
    BY <1>1 DEF Counted
  <2>2. \E task \in Tasks, ok \in Nat :
           /\ request' = [request EXCEPT ![q] = s] /\ UNCHANGED sources
           /\ s = [r EXCEPT !.asked = [old EXCEPT ![i] = task], !.ok = ok]
           /\ \/ /\ ok = r.ok /\ t.state = "called"
                 /\ ~ (task.state = "done" /\ task.yes)
              \/ /\ r.kind = "getHeader" => ok = r.ok + 1
                 /\ t.state = "accepted" /\ task.state = "done" /\ task.yes
    <3> DEFINE refused == [t EXCEPT !.state = "done"]
               accepted == [t EXCEPT !.state = "accepted", !.yes = TRUE,
                                     !.read = r.ok]
               ok == IF r.kind = "registerValidator" THEN t.read + 1
                     ELSE r.ok + 1
    <3>1. /\ refused \in Tasks /\ accepted \in Tasks /\ ok \in Nat
          /\ refused.state = "done" /\ refused.yes = t.yes
          /\ accepted.state = "accepted"
          /\ r.kind = "getHeader" => ok = r.ok + 1
      <4>1. r.ok \in Nat /\ t.read \in Nat
        BY <1>1, <2>1 DEF Tasks
      <4> HIDE DEF r, t
      <4>2. ok \in Nat /\ (r.kind = "getHeader" => ok = r.ok + 1)
        BY <4>1
      <4> HIDE DEF ok
      <4> QED
        BY <2>1, <4>1, <4>2 DEF Tasks
    <3>2. [r EXCEPT !.asked = [old EXCEPT ![i] = refused]]
             = [r EXCEPT !.asked = [old EXCEPT ![i] = refused], !.ok = r.ok]
          /\ [r EXCEPT !.asked = [old EXCEPT ![i] = accepted]]
             = [r EXCEPT !.asked = [old EXCEPT ![i] = accepted], !.ok = r.ok]
      BY <1>1 DEF RequestRecords
    <3>3. CASE SourceRefuses(q, i)
      <4>1. /\ request' = [request EXCEPT ![q] = s] /\ UNCHANGED sources
            /\ s = [r EXCEPT !.asked = [old EXCEPT ![i] = refused]]
            /\ t.state = "called"
        BY <1>1, <3>3 DEF SourceRefuses, RequestType
      <4> HIDE DEF r, s, refused, accepted, ok
      <4> QED
        BY <1>1, <2>1, <3>1, <3>2, <4>1
    <3>4. CASE SourceAccepts(q, i)
      <4>1. /\ request' = [request EXCEPT ![q] = s] /\ UNCHANGED sources
            /\ s = [r EXCEPT !.asked = [old EXCEPT ![i] = accepted]]
            /\ t.state = "called"
        BY <1>1, <3>4 DEF SourceAccepts, RequestType
      <4> HIDE DEF r, s, refused, accepted, ok
      <4> QED
        BY <1>1, <3>1, <3>2, <4>1
    <3>5. CASE RecordSuccess(q, i)
      <4>1. /\ request' = [request EXCEPT ![q] = s] /\ UNCHANGED sources
            /\ s = [r EXCEPT !.asked = [old EXCEPT ![i] = refused], !.ok = ok]
            /\ t.state = "accepted"
        BY <1>1, <3>5 DEF RecordSuccess, RequestType
      <4> HIDE DEF r, s, refused, accepted, ok
      <4> QED
        BY <1>1, <2>1, <3>1, <4>1
    <3> QED
      BY <1>4, <3>3, <3>4, <3>5
  <2> HIDE DEF r, s
  <2>3. /\ request' = [request EXCEPT ![q] = s] /\ UNCHANGED sources
        /\ s.kind = r.kind /\ s.state = r.state /\ s.joined = r.joined
        /\ s.capacity = r.capacity /\ s.loop = r.loop
        /\ Len(s.asked) = n /\ \A j \in 1 .. n : j # i => s.asked[j] = old[j]
    BY <1>1, <2>2 DEF RequestRecords
  <2>4. \/ s.ok = r.ok /\ t.state = "called" /\ ~ (u.state = "done" /\ u.yes)
        \/ /\ r.kind = "getHeader" => s.ok = r.ok + 1
           /\ t.state = "accepted" /\ u.state = "done" /\ u.yes
    BY <1>1, <2>2 DEF RequestRecords
  <2>5. CASE s.ok = r.ok /\ t.state = "called"
             /\ ~ (u.state = "done" /\ u.yes)
    <3>1. Recorded(s) = Recorded(r)
      BY <2>3, <2>5 DEF Recorded
    <3> QED
      BY <1>2, <2>3, <2>5, <3>1 DEF r, s
  <2>6. CASE /\ r.kind = "getHeader" => s.ok = r.ok + 1
             /\ t.state = "accepted" /\ u.state = "done" /\ u.yes
    <3>1. i \notin Recorded(r) /\ Recorded(s) = Recorded(r) \cup {i}
      BY <2>3, <2>6 DEF Recorded
    <3> QED
      BY <1>2, <2>3, <2>6, <3>1 DEF r, s
  <2> QED
    BY <2>4, <2>5, <2>6
<1> QED
  BY <1>1, <1>3, <1>4

LEMMA RoomStep == OutcomeInv /\ RoomInv /\ [ListsNext]_vars => RoomInv'
<1> SUFFICES ASSUME OutcomeInv, RoomInv, [ListsNext]_vars PROVE RoomInv'
  OBVIOUS
<1>1. CASE ListStep
  BY <1>1, WriterLeavesRoom
<1>2. ASSUME NEW q \in Requests, Step(q) PROVE RoomInv'
  BY <1>2, QuietLeavesRoom, ChannelHasRoom, GoroutineLeavesRoom DEF Step
<1>3. CASE UNCHANGED vars
  BY <1>3 DEF vars, RoomInv, RoomSound, Recorded
<1> QED
  BY <1>1, <1>2, <1>3 DEF ListsNext

(***************************************************************************)
(* A source that has a header finds room for it in the channel, although   *)
(* nobody receives before all have sent (backend.go:122-156), whoever      *)
(* connects or leaves meanwhile, when every source sends one: but in a     *)
(* request whose loop found a source more than the channel was made for.   *)
(***************************************************************************)
THEOREM RoomForHeaders == ListsSpec => []HeadersFit
<1>1. ListsInit => RoomInv
  <2> SUFFICES ASSUME ListsInit, NEW q \in Requests PROVE RoomSound(request[q])
    BY DEF RoomInv
  <2>1. PICK kind : request[q] = Idle(kind)
    BY DEF ListsInit
  <2>2. /\ request[q].state = "idle" /\ request[q].ok = 0
        /\ request[q].asked = <<>>
    BY <2>1 DEF Idle
  <2>3. Recorded(request[q]) = {} /\ Cardinality({}) = 0
    BY <2>2, FS_EmptySet DEF Recorded
  <2> QED
    BY <2>2, <2>3 DEF RoomSound
<1> QED
  BY <1>1, OutcomeInit, OutcomeStep, RoomStep, RoomImplies, PTL DEF ListsSpec

-----------------------------------------------------------------------------
(***************************************************************************)
(* The slices are the lists of BlockSources, as long as readers copy.      *)
(***************************************************************************)
LEMMA ConnectedIs ==
    ASSUME HeapType
    PROVE  /\ Connected \in Seq(Names) /\ Len(Connected) = sources.len
           /\ DOMAIN Connected = 1 .. sources.len /\ sources.len \in Nat
           /\ \A i \in 1 .. sources.len :
                 Connected[i] = arrays[sources.array][i]
<1>1. /\ arrays \in Seq(Seq(Names)) /\ sources \in Slices
      /\ sources.array \in 1 .. Len(arrays) /\ sources.len \in Nat
      /\ sources.len <= Len(arrays[sources.array])
  BY DEF HeapType, Within, Slices
<1> QED
  BY <1>1, ElementsOf DEF Connected

\* the same after a step
LEMMA ConnectedBecomes ==
    ASSUME HeapType'
    PROVE  /\ Connected' \in Seq(Names) /\ Len(Connected') = sources'.len
           /\ DOMAIN Connected' = 1 .. sources'.len /\ sources'.len \in Nat
           /\ \A i \in 1 .. sources'.len :
                 Connected'[i] = arrays'[sources'.array][i]
<1>1. /\ arrays' \in Seq(Seq(Names)) /\ sources' \in Slices
      /\ sources'.array \in 1 .. Len(arrays') /\ sources'.len \in Nat
      /\ sources'.len <= Len(arrays'[sources'.array])
  BY DEF HeapType, Within, Slices
<1> QED
  BY <1>1, ElementsOf DEF Connected

LEMMA ConnectedGrows ==
    ASSUME HeapType, NEW c \in Connects, NameAnswered(c)
    PROVE  Connected' = Append(Connected, Name[c])
<1> DEFINE s == Connected  t == Append(s, Name[c])
<1>1. /\ HeapType' /\ sources'.len = sources.len + 1
      /\ \A i \in 1 .. sources.len :
            arrays'[sources'.array][i] = arrays[sources.array][i]
      /\ arrays'[sources'.array][sources.len + 1] = Name[c]
  BY NameAnsweredIs
<1>2. /\ s \in Seq(Names) /\ Len(s) = sources.len /\ sources.len \in Nat
      /\ \A i \in 1 .. sources.len : s[i] = arrays[sources.array][i]
  BY ConnectedIs
<1>3. /\ Connected' \in Seq(Names) /\ Len(Connected') = sources.len + 1
      /\ \A i \in 1 .. sources.len + 1 :
            Connected'[i] = arrays'[sources'.array][i]
  BY <1>1, ConnectedBecomes
<1> HIDE DEF s
<1>4. Name[c] \in Names
  BY DEF NameAnswered, Names
<1>5. /\ t \in Seq(Names) /\ Len(t) = sources.len + 1
      /\ \A i \in 1 .. sources.len : t[i] = s[i]
      /\ t[sources.len + 1] = Name[c]
  BY <1>2, <1>4
<1> HIDE DEF t
<1>6. ASSUME NEW i \in 1 .. Len(t) PROVE Connected'[i] = t[i]
  <2>1. i \in 1 .. sources.len \/ i = sources.len + 1
    BY <1>2, <1>5
  <2> QED
    BY <1>1, <1>2, <1>3, <1>5, <2>1
<1>7. Connected' = t
  BY <1>3, <1>5, <1>6, SeqEqual
<1> QED
  BY <1>7 DEF s, t

LEMMA ConnectedShrinks ==
    ASSUME HeapType, NEW m, DisconnectBlockSource(m)
    PROVE  \E i \in DOMAIN Connected :
              /\ Connected[i] = m
              /\ \A j \in 1 .. (i - 1) : Connected[j] # m
              /\ Connected' = RemoveAt(Connected, i)
<1> DEFINE s == Connected  n == sources.len
<1>1. /\ HeapType' /\ sources'.array = sources.array
  BY DisconnectIs
<1>2. PICK i \in 1 .. n :
         /\ s[i] = m /\ \A j \in 1 .. (i - 1) : s[j] # m
         /\ sources'.len = n - 1
         /\ \A j \in 1 .. (n - 1) :
               arrays'[sources.array][j] =
                  arrays[sources.array][IF j < i THEN j ELSE j + 1]
  BY DisconnectIs
<1>3. /\ s \in Seq(Names) /\ Len(s) = n /\ n \in Nat
      /\ DOMAIN s = 1 .. n
      /\ \A j \in 1 .. n : s[j] = arrays[sources.array][j]
  BY ConnectedIs
<1>4. /\ Connected' \in Seq(Names) /\ Len(Connected') = n - 1
      /\ \A j \in 1 .. (n - 1) : Connected'[j] = arrays'[sources.array][j]
  BY <1>1, <1>2, ConnectedBecomes
<1> HIDE DEF s, n
<1>5. /\ RemoveAt(s, i) \in Seq(Names) /\ Len(RemoveAt(s, i)) = n - 1
      /\ \A j \in 1 .. (n - 1) :
            RemoveAt(s, i)[j] = IF j < i THEN s[j] ELSE s[j + 1]
  BY <1>3, WithoutOne
<1>6. ASSUME NEW j \in 1 .. (n - 1) PROVE Connected'[j] = RemoveAt(s, i)[j]
  <2>1. j \in 1 .. n /\ j + 1 \in 1 .. n
    BY <1>3
  <2> QED
    BY <1>2, <1>3, <1>4, <1>5, <2>1
<1>7. Connected' = RemoveAt(s, i)
  BY <1>3, <1>4, <1>5, <1>6, SeqEqual
<1> QED
  BY <1>2, <1>3, <1>7 DEF s

\* lists without repetition: one more at the end, one taken out
LEMMA OneMore ==
    ASSUME NEW S, NEW s \in Seq(S), NEW e \in S, IsInjective(s),
           e \notin Range(s)
    PROVE  /\ Range(Append(s, e)) = Range(s) \cup {e}
           /\ IsInjective(Append(s, e))
<1> DEFINE n == Len(s)  t == Append(s, e)
<1>1. n \in Nat /\ DOMAIN s = 1 .. n
  OBVIOUS
<1>2. /\ DOMAIN t = 1 .. n + 1 /\ t[n + 1] = e
      /\ \A i \in 1 .. n : t[i] = s[i]
  OBVIOUS
<1> HIDE DEF n, t
<1>3. /\ \A i \in 1 .. n + 1 : i \in 1 .. n \/ i = n + 1
      /\ \A i \in 1 .. n : i \in 1 .. n + 1 /\ s[i] # e
      /\ n + 1 \in 1 .. n + 1
  BY <1>1 DEF Range
<1>4. Range(t) = Range(s) \cup {e}
  BY <1>1, <1>2, <1>3 DEF Range
<1>5. IsInjective(t)
  BY <1>1, <1>2, <1>3 DEF IsInjective
<1> QED
  BY <1>4, <1>5 DEF t

LEMMA OneLess ==
    ASSUME NEW S, NEW s \in Seq(S), NEW k \in 1 .. Len(s), IsInjective(s)
    PROVE  /\ Range(RemoveAt(s, k)) = Range(s) \ {s[k]}
           /\ IsInjective(RemoveAt(s, k))
<1> DEFINE n == Len(s)  t == RemoveAt(s, k)
<1>1. n \in Nat /\ DOMAIN s = 1 .. n /\ k \in 1 .. n
  OBVIOUS
<1>2. \A i, j \in 1 .. n : s[i] = s[j] => i = j
  BY <1>1 DEF IsInjective
<1>3. /\ DOMAIN t = 1 .. n - 1
      /\ \A i \in 1 .. n - 1 : t[i] = IF i < k THEN s[i] ELSE s[i + 1]
  <2>1. t \in Seq(S) /\ Len(t) = n - 1
        /\ \A i \in 1 .. n - 1 : t[i] = IF i < k THEN s[i] ELSE s[i + 1]
    BY WithoutOne
  <2> HIDE DEF t
  <2> QED
    BY <2>1
<1> HIDE DEF n, t
<1>4. \A i \in 1 .. n - 1 : /\ i \in 1 .. n /\ i + 1 \in 1 .. n
                            /\ i < k => i # k
                            /\ ~ (i < k) => i + 1 # k
  BY <1>1
<1>5. ASSUME NEW i \in 1 .. n, i # k
      PROVE  \/ i \in 1 .. n - 1 /\ i < k
             \/ /\ i - 1 \in 1 .. n - 1 /\ ~ (i - 1 < k)
                /\ (i - 1) + 1 = i
  BY <1>1, <1>5
<1>6. Range(t) \subseteq Range(s) \ {s[k]}
  BY <1>1, <1>2, <1>3, <1>4 DEF Range
<1>7. Range(s) \ {s[k]} \subseteq Range(t)
  <2> SUFFICES ASSUME NEW i \in 1 .. n, s[i] # s[k] PROVE s[i] \in Range(t)
    BY <1>1 DEF Range
  <2>1. CASE i \in 1 .. n - 1 /\ i < k
    BY <1>3, <2>1 DEF Range
  <2>2. CASE i - 1 \in 1 .. n - 1 /\ ~ (i - 1 < k) /\ (i - 1) + 1 = i
    BY <1>3, <2>2 DEF Range
  <2> QED
    BY <1>5, <2>1, <2>2
<1>8. IsInjective(t)
  <2> SUFFICES ASSUME NEW i \in 1 .. n - 1, NEW j \in 1 .. n - 1, t[i] = t[j]
               PROVE  i = j
    BY <1>3 DEF IsInjective
  <2> DEFINE p(x) == IF x < k THEN x ELSE x + 1
  <2>1. p(i) \in 1 .. n /\ p(j) \in 1 .. n
    BY <1>4
  <2>2. s[p(i)] = s[p(j)]
    BY <1>3
  <2>3. p(i) = p(j)
    BY <1>2, <2>1, <2>2
  <2> QED
    BY <2>3
<1> QED
  BY <1>6, <1>7, <1>8 DEF t

\* ExcludeFromNotifications and IncludeInNotifications, as sets of names
LEMMA ExclusionsAre ==
    ASSUME exclusions \in Seq(Names), IsInjective(exclusions),
           NEW m \in Excludable
    PROVE  /\ ExcludeFromNotifications(m) =>
                 /\ Range(exclusions') = Range(exclusions) \cup {m}
                 /\ IsInjective(exclusions')
           /\ IncludeInNotifications(m) =>
                 /\ Range(exclusions') = Range(exclusions) \ {m}
                 /\ IsInjective(exclusions')
<1>1. m \in Names
  BY DEF Names
<1>2. ASSUME ExcludeFromNotifications(m)
      PROVE  /\ Range(exclusions') = Range(exclusions) \cup {m}
             /\ IsInjective(exclusions')
  BY <1>1, <1>2, OneMore DEF ExcludeFromNotifications
<1>3. ASSUME IncludeInNotifications(m)
      PROVE  /\ Range(exclusions') = Range(exclusions) \ {m}
             /\ IsInjective(exclusions')
  <2>1. exclusions' = RemoveFirst(exclusions, m)
        /\ \E i \in 1 .. Len(exclusions) : exclusions[i] = m
    BY <1>3 DEF IncludeInNotifications, Range
  <2>2. PICK k \in 1 .. Len(exclusions) :
           exclusions[k] = m
           /\ RemoveFirst(exclusions, m) = RemoveAt(exclusions, k)
    BY <2>1, FirstPlace
  <2> QED
    BY <2>1, <2>2, OneLess
<1> QED
  BY <1>2, <1>3

\* a request does not change what the list of sources is, unless it appends
LEMMA ListsStay ==
    ASSUME NEW q \in Requests, Step(q), ReadersCopy
    PROVE  UNCHANGED <<arrays, sources, exclusions, connecting>>
<1>1. CASE SendNotification(q)
  BY <1>1 DEF SendNotification, ReadersCopy
<1> QED
  BY <1>1 DEF Step, ReadLists, TellOthers, MakeChannel, StartLoop, AskNext,
              Return, SourceRefuses, SourceAccepts, RecordSuccess

\* no module is excluded twice
LEMMA ExclusionsDistinct ==
    OutcomeInv /\ IsInjective(exclusions) /\ [ListsNext]_vars
        => IsInjective(exclusions)'
<1> SUFFICES ASSUME OutcomeInv, IsInjective(exclusions), [ListsNext]_vars
             PROVE  IsInjective(exclusions')
  OBVIOUS
<1>1. exclusions \in Seq(Names)
  BY DEF OutcomeInv, HeapType
<1>2. ASSUME NEW m \in Excludable,
             ExcludeFromNotifications(m) \/ IncludeInNotifications(m)
      PROVE  IsInjective(exclusions')
  BY <1>1, <1>2, ExclusionsAre
<1>3. CASE exclusions' = exclusions
  BY <1>3
<1>4. ASSUME NEW q \in Requests, Step(q) PROVE exclusions' = exclusions
  BY <1>4 DEF Step, ReadLists, TellOthers, MakeChannel, StartLoop, AskNext,
              Return, SourceRefuses, SourceAccepts, RecordSuccess,
              SendNotification
<1> QED
  BY <1>2, <1>3, <1>4 DEF ListsNext, ListStep, Connect, NameRefused,
     NameAnswered, DisconnectBlockSource, vars

(***************************************************************************)
(* Every step of the slices is a step of the lists, or none.               *)
(***************************************************************************)
LEMMA ListsRefineStep ==
    OutcomeInv /\ IsInjective(exclusions) /\ ReadersCopy /\ [ListsNext]_vars
        => [Lists!ListNext]_Lists!listVars
<1> SUFFICES ASSUME OutcomeInv, IsInjective(exclusions), ReadersCopy,
                    [ListsNext]_vars
             PROVE  [Lists!ListNext]_Lists!listVars
  OBVIOUS
<1>1. HeapType /\ exclusions \in Seq(Names)
  BY DEF OutcomeInv, HeapType
<1>2. ASSUME NEW c \in Connects, Connect(c) PROVE Lists!Connect(c)
  BY <1>2 DEF Connect, Lists!Connect, LockFree, Lists!LockFree, Listed,
              Connected, Range, Lists!Range
<1>3. ASSUME NEW c \in Connects, NameRefused(c) PROVE Lists!NameAnswered(c)
  <2>1. Connected' = Connected
    BY <1>3 DEF NameRefused, Connected
  <2> QED
    BY <1>3, <2>1 DEF NameRefused, Lists!NameAnswered
<1>4. ASSUME NEW c \in Connects, NameAnswered(c) PROVE Lists!NameAnswered(c)
  <2>1. Connected' = Append(Connected, Name[c])
    BY <1>1, <1>4, ConnectedGrows
  <2> QED
    BY <1>4, <2>1 DEF NameAnswered, Lists!NameAnswered
<1>5. ASSUME NEW m \in Leaving, DisconnectBlockSource(m)
      PROVE  Lists!DisconnectBlockSource(m)
  <2>1. \E i \in DOMAIN Connected :
           /\ Connected[i] = m
           /\ \A j \in 1 .. (i - 1) : Connected[j] # m
           /\ Connected' = RemoveAt(Connected, i)
    BY <1>1, <1>5, ConnectedShrinks
  <2> QED
    BY <1>5, <2>1 DEF DisconnectBlockSource, Lists!DisconnectBlockSource,
                      LockFree, Lists!LockFree, RemoveAt, Lists!RemoveAt
<1>6. ASSUME NEW m \in Excludable, ExcludeFromNotifications(m)
      PROVE  Lists!ExcludeFromNotifications(m)
  <2>1. /\ Range(exclusions') = Range(exclusions) \cup {m}
        /\ Connected' = Connected
    BY <1>1, <1>6, ExclusionsAre DEF ExcludeFromNotifications, Connected
  <2> QED
    BY <1>6, <2>1 DEF ExcludeFromNotifications,
       Lists!ExcludeFromNotifications, LockFree, Lists!LockFree
<1>7. ASSUME NEW m \in Excludable, IncludeInNotifications(m)
      PROVE  Lists!IncludeInNotifications(m)
  <2>1. /\ Range(exclusions') = Range(exclusions) \ {m}
        /\ Connected' = Connected
    BY <1>1, <1>7, ExclusionsAre DEF IncludeInNotifications, Connected
  <2> QED
    BY <1>7, <2>1 DEF IncludeInNotifications,
       Lists!IncludeInNotifications, LockFree, Lists!LockFree
<1>8. ASSUME UNCHANGED <<arrays, sources, exclusions, connecting>>
      PROVE  UNCHANGED Lists!listVars
  BY <1>8 DEF Lists!listVars, Connected
<1>9. CASE ListStep
  BY <1>2, <1>3, <1>4, <1>5, <1>6, <1>7, <1>9 DEF ListStep, Lists!ListNext
<1>10. CASE \E q \in Requests : Step(q)
  BY <1>8, <1>10, ListsStay
<1>11. CASE UNCHANGED vars
  BY <1>8, <1>11 DEF vars
<1> QED
  BY <1>9, <1>10, <1>11 DEF ListsNext

LEMMA ListsRefineInit ==
    ListsInit => Lists!ListInit /\ IsInjective(exclusions)
<1> SUFFICES ASSUME ListsInit
             PROVE  Lists!ListInit /\ IsInjective(exclusions)
  OBVIOUS
<1>1. /\ sources.len = 0 /\ HeapType
      /\ exclusions = <<"builderApi", "blockAggregator">>
      /\ connecting = [c \in Connects |-> "idle"]
  BY OutcomeInit DEF ListsInit, OutcomeInv
<1>2. Connected = <<>>
  <2>1. Connected \in Seq(Names) /\ Len(Connected) = 0
    BY <1>1, ConnectedIs
  <2> QED
    BY <2>1
<1>3. /\ Range(exclusions) = {"builderApi", "blockAggregator"}
      /\ IsInjective(exclusions)
  <2>1. /\ DOMAIN exclusions = 1 .. 2 /\ exclusions[1] = "builderApi"
        /\ exclusions[2] = "blockAggregator"
    BY <1>1
  <2>2. 1 .. 2 = {1, 2}
    OBVIOUS
  <2> QED
    BY <2>1, <2>2 DEF Range, IsInjective
<1> QED
  BY <1>1, <1>2, <1>3 DEF Lists!ListInit

(***************************************************************************)
(* The list of sources changes by the calls that are to change it, one     *)
(* element at a time, and by nothing else (service.go:102-204), as long as *)
(* the exclusions that a reader appends find no room behind the sources    *)
(* (backend.go:71, 115): the appends of the writers, in place or with a    *)
(* copy, and the deletion in place are those of lists.                     *)
(***************************************************************************)
THEOREM SlicesAreLists == ListsSpec /\ []ReadersCopy => RefinesLists
  BY ListsRefineInit, ListsRefineStep, ExclusionsDistinct, OutcomeInit,
     OutcomeStep, PTL DEF ListsSpec, RefinesLists, Lists!ListSpec

-----------------------------------------------------------------------------
(***************************************************************************)
(* The lists as the writers see them: one call holds the lock, and what it *)
(* is to append is not there.                                              *)
(***************************************************************************)
LEMMA ListsSoundStep ==
    OutcomeInv /\ ListsSound /\ ReadersCopy /\ [ListsNext]_vars => ListsSound'
<1> SUFFICES ASSUME OutcomeInv, ListsSound, ReadersCopy, [ListsNext]_vars
             PROVE  ListsSound'
  OBVIOUS
<1>1. HeapType /\ Connected \in Seq(Names)
  BY ConnectedIs DEF OutcomeInv
<1>2. IsInjective(exclusions')
  BY ExclusionsDistinct DEF ListsSound
<1>3. ASSUME NEW c \in Connects, Connect(c) PROVE ListsSound'
  <2>1. Connected' = Connected
    BY <1>3 DEF Connect, Connected
  <2> QED
    BY <1>1, <1>2, <1>3, <2>1 DEF ListsSound, Connect, LockFree, Listed,
                                  HeapType
<1>4. ASSUME NEW c \in Connects, NameRefused(c) PROVE ListsSound'
  <2>1. Connected' = Connected
    BY <1>4 DEF NameRefused, Connected
  <2> QED
    BY <1>1, <1>2, <1>4, <2>1 DEF ListsSound, NameRefused, HeapType
<1>5. ASSUME NEW c \in Connects, NameAnswered(c) PROVE ListsSound'
  <2>1. /\ Connected' = Append(Connected, Name[c]) /\ Name[c] \in Names
        /\ Name[c] \notin Range(Connected) /\ connecting[c] = "calling"
        /\ connecting' = [connecting EXCEPT ![c] = "returned"]
    BY <1>1, <1>5, ConnectedGrows DEF NameAnswered, ListsSound, Names
  <2>2. IsInjective(Connected')
    BY <1>1, <2>1, OneMore DEF ListsSound
  <2>3. \A d \in Connects : connecting'[d] # "calling"
    BY <1>1, <2>1 DEF ListsSound, HeapType
  <2> QED
    BY <1>2, <2>2, <2>3 DEF ListsSound
<1>6. ASSUME NEW m \in Leaving, DisconnectBlockSource(m) PROVE ListsSound'
  <2>1. \E i \in DOMAIN Connected : Connected' = RemoveAt(Connected, i)
    BY <1>1, <1>6, ConnectedShrinks
  <2>2. IsInjective(Connected')
    BY <1>1, <2>1, OneLess DEF ListsSound
  <2>3. \A d \in Connects : connecting'[d] # "calling"
    BY <1>6 DEF DisconnectBlockSource, LockFree
  <2> QED
    BY <1>2, <2>2, <2>3 DEF ListsSound
<1>7. ASSUME UNCHANGED <<arrays, sources, connecting>> PROVE ListsSound'
  <2>1. Connected' = Connected
    BY <1>7 DEF Connected
  <2> QED
    BY <1>2, <1>7, <2>1 DEF ListsSound
<1>8. ASSUME NEW m \in Excludable,
             ExcludeFromNotifications(m) \/ IncludeInNotifications(m)
      PROVE  ListsSound'
  BY <1>7, <1>8 DEF ExcludeFromNotifications, IncludeInNotifications
<1>9. ASSUME NEW q \in Requests, Step(q) PROVE ListsSound'
  BY <1>7, <1>9, ListsStay
<1>10. CASE UNCHANGED vars
  BY <1>7, <1>10 DEF vars
<1> QED
  BY <1>3, <1>4, <1>5, <1>6, <1>8, <1>9, <1>10 DEF ListsNext, ListStep

(***************************************************************************)
(* A writer of the lists, for one request: the parts of the arrays that    *)
(* the request reads stay, and modules that move are not its members.      *)
(***************************************************************************)
LEMMA WriterOnce ==
    ASSUME NEW q \in Requests, OnceSound(q),
           SameButHistory(request[q], request'[q]),
           request[q].state = "read" /\ Behind(request[q].base) =>
              /\ Elements(arrays', request[q].base)
                    = Elements(arrays, request[q].base)
              /\ Behind(request[q].base)',
           request[q].state = "asking"
              /\ Len(request[q].asked) < request[q].loop.len
              /\ Behind(request[q].loop) =>
              /\ Behind(request[q].loop)'
              /\ \A i \in 1 .. request[q].loop.len :
                    arrays'[request[q].loop.array][i]
                       = arrays[request[q].loop.array][i],
           request[q].asked \in Seq(Tasks),
           request[q].loop.len \in Nat,
           request[q].state \in {"done", "failed"} =>
              Len(request[q].asked) = request[q].loop.len,
           request[q].state \in {"read", "notified", "made"}
              /\ request[q].members \subseteq Range(Connected)
              /\ request[q].others \cap Range(Connected) = {} =>
              /\ request'[q].members \subseteq Range(Connected')
              /\ request'[q].others \cap Range(Connected') = {}
    PROVE  OnceSound(q)'
<1> DEFINE r == request[q]  s == request'[q]
<1>1. SUFFICES ASSUME s.kind # "status", ~ s.shifted
               PROVE  Told(q)' /\ Asked(q)'
  BY DEF OnceSound, SameButHistory
<1>2. /\ SameButHistory(r, s) /\ Told(q) /\ Asked(q)
      /\ s.members \subseteq r.members /\ s.others \subseteq r.others
      /\ r.asked \in Seq(Tasks) /\ r.loop.len \in Nat
  BY <1>1 DEF OnceSound, SameButHistory
<1>3. Told(q)'
  <2>1. r.state = "read" => /\ Behind(request[q].base)'
                            /\ Elements(arrays', s.base)
                                  = Elements(arrays, r.base)
    BY <1>2 DEF Told, SameButHistory
  <2> QED
    BY <1>2, <2>1 DEF Told, SameButHistory, Behind
<1>4. r.state \in {"asking", "done", "failed"} =>
         \A i \in 1 .. r.loop.len : Element(request[q], i)'
                                       = Element(request[q], i)
  <2> SUFFICES ASSUME r.state \in {"asking", "done", "failed"},
                      NEW i \in 1 .. r.loop.len
               PROVE  Element(request[q], i)' = Element(request[q], i)
    OBVIOUS
  <2>1. s.asked = r.asked /\ s.loop = r.loop
    BY <1>2 DEF SameButHistory
  <2>2. CASE i <= Len(r.asked)
    BY <2>1, <2>2 DEF Element
  <2>3. CASE ~ (i <= Len(r.asked))
    <3>1. Len(r.asked) < r.loop.len /\ r.state = "asking"
      BY <1>2, <2>3
    <3>2. Behind(r.loop)
      BY <1>2, <3>1 DEF Asked
    <3> QED
      BY <2>1, <2>3, <3>1, <3>2 DEF Element
  <2> QED
    BY <2>2, <2>3
<1>5. Asked(q)'
  <2>1. ASSUME s.state \in {"read", "notified", "made"}
        PROVE  /\ s.members \subseteq Range(Connected')
               /\ s.others \cap Range(Connected') = {}
    BY <1>2, <2>1 DEF Asked, SameButHistory
  <2>2. ASSUME s.state \in {"asking", "done", "failed"}
        PROVE  /\ Len(s.asked) < s.loop.len => Behind(request[q].loop)'
               /\ \A i, j \in 1 .. s.loop.len :
                     Element(request[q], i)' = Element(request[q], j)' => i = j
               /\ \A m \in s.members : \E i \in 1 .. s.loop.len :
                     Element(request[q], i)' = m
               /\ \A i \in 1 .. s.loop.len :
                     Element(request[q], i)' \notin s.others
    <3>1. s.state = r.state /\ s.asked = r.asked /\ s.loop = r.loop
      BY <1>2 DEF SameButHistory
    <3>2. Len(s.asked) < s.loop.len => Behind(request[q].loop)'
      BY <1>2, <2>2, <3>1 DEF Asked, Behind
    <3> QED
      BY <1>2, <1>4, <2>2, <3>1, <3>2 DEF Asked
  <2> QED
    BY <2>1, <2>2 DEF Asked
<1> QED
  BY <1>3, <1>5

\* what the lemmas on writers need to know of a request
LEMMA RequestFacts ==
    ASSUME OutcomeInv, NEW q \in Requests
    PROVE  /\ request[q] \in RequestRecords
           /\ request[q].asked \in Seq(Tasks)
           /\ Len(request[q].asked) \in Nat
           /\ request[q].base \in Slices /\ request[q].loop \in Slices
           /\ request[q].loop.len \in Nat /\ request[q].base.len \in Nat
           /\ Within(request[q].base) /\ Within(request[q].loop)
           /\ Len(request[q].asked) <= request[q].loop.len
           /\ request[q].state \in RequestStates
           /\ request[q].state \notin {"asking", "done", "failed"} =>
                 request[q].asked = <<>>
           /\ request[q].state \in {"done", "failed"} =>
                 Len(request[q].asked) = request[q].loop.len
<1>1. request[q] \in RequestRecords /\ RequestSound(q)
  BY DEF OutcomeInv, RequestType
<1>2. /\ request[q].asked \in Seq(Tasks) /\ request[q].base \in Slices
      /\ request[q].loop \in Slices /\ request[q].state \in RequestStates
  BY <1>1 DEF RequestRecords
<1>3. request[q].loop.len \in Nat /\ request[q].base.len \in Nat
  BY <1>2 DEF Slices
<1> QED
  BY <1>1, <1>2, <1>3 DEF RequestSound, Counted

\* a connect: behind the list in use there is nothing that others read
LEMMA SliceStays ==
    ASSUME HeapType, NEW c \in Connects, NameAnswered(c),
           NEW slice \in Slices, Within(slice), Behind(slice)
    PROVE  /\ Elements(arrays', slice) = Elements(arrays, slice)
           /\ \A i \in 1 .. slice.len :
                 arrays'[slice.array][i] = arrays[slice.array][i]
           /\ slice.array = sources'.array => slice.len <= sources'.len
<1>1. /\ Kept /\ sources'.len = sources.len + 1
      /\ sources'.array \in {sources.array, Len(arrays) + 1}
      /\ \A a \in 1 .. Len(arrays) :
            a # sources.array => arrays'[a] = arrays[a]
      /\ \A i \in 1 .. sources.len :
            arrays'[sources.array][i] = arrays[sources.array][i]
  BY NameAnsweredIs
<1>2. /\ arrays \in Seq(Seq(Names)) /\ slice.array \in 1 .. Len(arrays)
      /\ slice.len \in Nat /\ sources.len \in Nat /\ Len(arrays) \in Nat
      /\ slice.len <= Len(arrays[slice.array])
  BY DEF HeapType, Within, Slices
<1>3. \A i \in 1 .. slice.len :
         arrays'[slice.array][i] = arrays[slice.array][i]
  BY <1>1, <1>2 DEF Behind
<1>4. slice.array = sources'.array => slice.len <= sources'.len
  BY <1>1, <1>2 DEF Behind
<1> DEFINE s == Elements(arrays, slice)  t == Elements(arrays', slice)
<1>5. /\ s \in Seq(Names) /\ Len(s) = slice.len
      /\ \A i \in 1 .. slice.len : s[i] = arrays[slice.array][i]
  BY <1>2, ElementsOf
<1>6. /\ t \in Seq(Names) /\ Len(t) = slice.len
      /\ \A i \in 1 .. slice.len : t[i] = arrays'[slice.array][i]
  <2>1. /\ arrays' \in Seq(Seq(Names)) /\ slice.array \in 1 .. Len(arrays')
        /\ slice.len <= Len(arrays'[slice.array])
    BY <1>1, <1>2, WithinKept DEF Kept
  <2> QED
    BY <2>1, ElementsOf
<1> HIDE DEF s, t
<1>7. s = t
  BY <1>3, <1>5, <1>6, SeqEqual
<1> QED
  BY <1>3, <1>4, <1>7 DEF s, t

LEMMA ConnectOnce ==
    ASSUME OutcomeInv, OnceInv, NEW c \in Connects, NameAnswered(c)
    PROVE  \A q \in Requests : OnceSound(q)'
<1> SUFFICES ASSUME NEW q \in Requests PROVE OnceSound(q)'
  OBVIOUS
<1> DEFINE r == request[q]  s == request'[q]
<1>1. /\ HeapType /\ RequestType /\ OnceSound(q) /\ Name[c] \in Names
      /\ Moved(Name[c], "connects")
  BY DEF OutcomeInv, OnceInv, NameAnswered, Names
<1>2. /\ SameButHistory(r, s)
      /\ Reading(q) => Name[c] \notin s.members \cup s.others
  BY <1>1, MovedIs
<1>3. /\ r.asked \in Seq(Tasks) /\ r.loop.len \in Nat
      /\ r.base \in Slices /\ r.loop \in Slices
      /\ Within(r.base) /\ Within(r.loop)
      /\ r.state \in {"done", "failed"} => Len(r.asked) = r.loop.len
  BY RequestFacts
<1>4. Behind(r.base) =>
         /\ Elements(arrays', r.base) = Elements(arrays, r.base)
         /\ Behind(request[q].base)'
  BY <1>1, <1>2, <1>3, SliceStays DEF Behind, SameButHistory
<1>5. Len(r.asked) < r.loop.len /\ Behind(r.loop) =>
         /\ Behind(request[q].loop)'
         /\ \A i \in 1 .. r.loop.len :
               arrays'[r.loop.array][i] = arrays[r.loop.array][i]
  BY <1>1, <1>2, <1>3, SliceStays DEF Behind, SameButHistory
<1>6. Range(Connected') = Range(Connected) \cup {Name[c]}
  <2>1. /\ Connected' = Append(Connected, Name[c])
        /\ Connected \in Seq(Names) /\ IsInjective(Connected)
        /\ Name[c] \notin Range(Connected)
    BY <1>1, ConnectedGrows, ConnectedIs
       DEF OnceInv, ListsSound, NameAnswered
  <2> QED
    BY <1>1, <2>1, OneMore
<1>7. r.state \in {"read", "notified", "made"} => Reading(q)
  BY DEF Reading
<1>8. r.state \in {"read", "notified", "made"}
      /\ r.members \subseteq Range(Connected)
      /\ r.others \cap Range(Connected) = {} =>
         /\ s.members \subseteq Range(Connected')
         /\ s.others \cap Range(Connected') = {}
  BY <1>2, <1>6, <1>7 DEF SameButHistory
<1> QED
  BY <1>1, <1>2, <1>3, <1>4, <1>5, <1>8, WriterOnce

\* nothing that the request has or reads changes
LEMMA OthersOnce ==
    ASSUME NEW p \in Requests, OnceSound(p), request'[p] = request[p],
           UNCHANGED <<arrays, sources>>
    PROVE  OnceSound(p)'
  BY DEF OnceSound, Told, Asked, Element, Behind, Connected

LEMMA ListStepOnce ==
    ASSUME OutcomeInv, OnceInv, ListStep, NEW q \in Requests
    PROVE  OnceSound(q)'
<1> DEFINE r == request[q]  s == request'[q]
<1>1. /\ HeapType /\ RequestType /\ OnceSound(q)
      /\ r.asked \in Seq(Tasks) /\ r.loop.len \in Nat
      /\ Len(r.asked) \in Nat
      /\ r.state \in {"done", "failed"} => Len(r.asked) = r.loop.len
  BY RequestFacts DEF OutcomeInv, OnceInv
<1>2. ASSUME NEW c \in Connects, Connect(c) \/ NameRefused(c)
      PROVE  OnceSound(q)'
  BY <1>1, <1>2, OthersOnce DEF Connect, NameRefused
<1>3. ASSUME NEW c \in Connects, NameAnswered(c) PROVE OnceSound(q)'
  BY <1>3, ConnectOnce
<1>4. ASSUME NEW m \in Leaving, DisconnectBlockSource(m)
      PROVE  OnceSound(q)'
  <2>1. /\ SameButHistory(r, s)
        /\ Reading(q) => s.shifted
        /\ ~ Reading(q) => s = r
    BY <1>1, <1>4, MovedIs DEF DisconnectBlockSource
  <2>2. CASE Reading(q)
    BY <1>1, <2>1, <2>2 DEF OnceSound, SameButHistory
  <2>3. CASE ~ Reading(q)
    <3>1. /\ r.state \notin {"read", "notified", "made"}
          /\ ~ (r.state = "asking" /\ Len(r.asked) < r.loop.len)
      BY <2>3 DEF Reading
    <3> QED
      BY <1>1, <2>1, <3>1, WriterOnce
  <2> QED
    BY <2>2, <2>3
<1>5. ASSUME NEW m \in Excludable,
             ExcludeFromNotifications(m) \/ IncludeInNotifications(m)
      PROVE  OnceSound(q)'
  <2>1. SameButHistory(r, s)
    BY <1>1, <1>5, MovedIs
       DEF ExcludeFromNotifications, IncludeInNotifications
  <2>2. UNCHANGED <<arrays, sources>> /\ Connected' = Connected
    BY <1>5 DEF ExcludeFromNotifications, IncludeInNotifications, Connected
  <2>3. /\ Behind(r.base) => Behind(request[q].base)'
        /\ Behind(r.loop) => Behind(request[q].loop)'
        /\ Elements(arrays', r.base) = Elements(arrays, r.base)
        /\ \A i \in 1 .. r.loop.len :
              arrays'[r.loop.array][i] = arrays[r.loop.array][i]
    BY <2>1, <2>2 DEF Behind, SameButHistory
  <2>4. r.members \subseteq Range(Connected)
        /\ r.others \cap Range(Connected) = {} =>
           /\ s.members \subseteq Range(Connected')
           /\ s.others \cap Range(Connected') = {}
    BY <2>1, <2>2 DEF SameButHistory
  <2> QED
    BY <1>1, <2>1, <2>3, <2>4, WriterOnce
<1> QED
  BY <1>2, <1>3, <1>4, <1>5 DEF ListStep

-----------------------------------------------------------------------------
(***************************************************************************)
(* A step of request q, with the lists as they are.                        *)
(***************************************************************************)
\* q goes on with its loop
LEMMA AskingOnce ==
    ASSUME NEW q \in Requests, OnceSound(q),
           UNCHANGED <<arrays, sources>>, NEW s, request'[q] = s,
           s.kind = request[q].kind, s.members = request[q].members,
           s.others = request[q].others, s.own = request[q].own,
           s.told = request[q].told, s.heard = request[q].heard,
           s.list = request[q].list, s.shifted = request[q].shifted,
           s.loop = request[q].loop,
           request[q].state = "asking",
           s.state \in {"asking", "done", "failed"},
           Len(s.asked) < s.loop.len =>
              Len(request[q].asked) < request[q].loop.len,
           \A i \in 1 .. s.loop.len : Element(s, i) = Element(request[q], i)
    PROVE  OnceSound(q)'
<1> DEFINE r == request[q]
<1>1. SUFFICES ASSUME s.kind # "status", ~ s.shifted
               PROVE  Told(q)' /\ Asked(q)'
  BY DEF OnceSound
<1>2. Told(q) /\ Asked(q)
  BY <1>1 DEF OnceSound
<1>3. Told(q)'
  BY <1>2 DEF Told
<1>4. \A i \in 1 .. s.loop.len : Element(request[q], i)' = Element(s, i)
  BY DEF Element
<1>5. /\ Len(s.asked) < s.loop.len => Behind(request[q].loop)'
      /\ \A i, j \in 1 .. s.loop.len : Element(s, i) = Element(s, j) => i = j
      /\ \A m \in s.members : \E i \in 1 .. s.loop.len : Element(s, i) = m
      /\ \A i \in 1 .. s.loop.len : Element(s, i) \notin s.others
  BY <1>2 DEF Asked, Behind
<1>6. Asked(q)'
  <2>1. request'[q].state \notin {"read", "notified", "made"}
    OBVIOUS
  <2> QED
    BY <1>4, <1>5, <2>1 DEF Asked
<1> QED
  BY <1>3, <1>6

LEMMA ReadOnce ==
    ASSUME OutcomeInv, OnceInv, NEW q \in Requests, ReadLists(q)
    PROVE  OnceSound(q)'
<1> DEFINE r == request[q]
           members == Range(Connected)
           others == {m \in KnownModules : ~ Listed(m)}
           s == [r EXCEPT !.state = "read", !.base = sources,
                          !.own = exclusions, !.members = members,
                          !.others = others]
<1>1. /\ OnceSound(q) /\ r \in RequestRecords /\ r.state = "idle"
      /\ UNCHANGED <<arrays, sources, exclusions>> /\ Connected' = Connected
  BY RequestFacts DEF OnceInv, ReadLists, Connected
<1>2. request'[q] = s
  BY DEF ReadLists, OutcomeInv, RequestType
<1>3. /\ s.kind = r.kind /\ s.shifted = r.shifted /\ s.list = r.list
      /\ s.heard = r.heard /\ s.told = r.told /\ s.state = "read"
      /\ s.base = sources /\ s.own = exclusions /\ s.members = members
      /\ s.others = others
  <2> HIDE DEF r, members, others
  <2> QED
    BY <1>1 DEF RequestRecords
<1>4. members \cup Range(exclusions) = Range(Connected \o exclusions)
  <2>1. Connected \in Seq(Names) /\ exclusions \in Seq(Names)
    BY ConnectedIs DEF OutcomeInv, HeapType
  <2> QED
    BY <2>1, RangeConcatenation
<1>5. others \subseteq KnownModules /\ others \cap members = {}
      /\ others \cap Range(Connected \o exclusions) = {}
  BY <1>4 DEF Listed
<1> HIDE DEF s, members, others
<1>6. SUFFICES ASSUME r.kind # "status", ~ r.shifted
               PROVE  Told(q)' /\ Asked(q)'
  BY <1>2, <1>3, <1>5 DEF OnceSound
<1>7. Told(q) /\ ~ r.heard
  BY <1>1, <1>6 DEF OnceSound, Told
<1>8. Elements(arrays', s.base) = Connected
  BY <1>1, <1>3 DEF Connected
<1>9. Told(q)'
  <2>1. sources.len \in Nat
    BY DEF OutcomeInv, HeapType, Slices
  <2> QED
    BY <1>1, <1>2, <1>3, <1>5, <1>7, <1>8, <2>1 DEF Told, Behind, members
<1>10. Asked(q)'
  BY <1>1, <1>2, <1>3, <1>5 DEF Asked, members
<1> QED
  BY <1>9, <1>10

LEMMA SendOnce ==
    ASSUME OutcomeInv, OnceInv, ReadersCopy, NEW q \in Requests,
           SendNotification(q)
    PROVE  OnceSound(q)'
<1> DEFINE r == request[q]
           own == Elements(arrays, r.base) \o r.own
           s == [r EXCEPT !.state = "notified", !.own = own]
<1>1. /\ OnceSound(q) /\ r \in RequestRecords /\ r.state = "read"
      /\ UNCHANGED <<arrays, sources, exclusions>> /\ Connected' = Connected
  BY RequestFacts DEF OnceInv, SendNotification, Connected, ReadersCopy
<1>2. request'[q] = s
  BY DEF SendNotification, OutcomeInv, RequestType, ReadersCopy
<1>3. /\ s.kind = r.kind /\ s.shifted = r.shifted /\ s.list = r.list
      /\ s.heard = r.heard /\ s.told = r.told /\ s.state = "notified"
      /\ s.own = own /\ s.members = r.members /\ s.others = r.others
  <2> HIDE DEF r, own
  <2> QED
    BY <1>1 DEF RequestRecords
<1>4. SUFFICES ASSUME r.kind # "status", ~ r.shifted
               PROVE  Told(q)' /\ Asked(q)'
  BY <1>1, <1>2, <1>3 DEF OnceSound
<1>5. Told(q) /\ Asked(q)
  BY <1>1, <1>4 DEF OnceSound
<1>6. r.members \subseteq Range(own) /\ r.others \cap Range(own) = {}
  <2>1. /\ r.members \subseteq Range(Elements(arrays, r.base))
        /\ r.others \cap Range(own) = {}
    BY <1>1, <1>5 DEF Told
  <2>2. Elements(arrays, r.base) \in Seq(Names) /\ r.own \in Seq(Names)
    <3>1. r.own \in Seq(Names)
      BY <1>1 DEF RequestRecords
    <3>2. /\ arrays \in Seq(Seq(Names)) /\ r.base \in Slices
          /\ r.base.array \in 1 .. Len(arrays)
          /\ r.base.len <= Len(arrays[r.base.array])
      BY RequestFacts DEF OutcomeInv, HeapType, Within
    <3> QED
      BY <3>1, <3>2, ElementsOf
  <2>3. Range(Elements(arrays, r.base)) \subseteq Range(own)
    BY <2>2, RangeConcatenation
  <2> QED
    BY <2>1, <2>3
<1> HIDE DEF s, own
<1>7. Told(q)'
  BY <1>1, <1>2, <1>3, <1>5, <1>6 DEF Told
<1>8. Asked(q)'
  BY <1>1, <1>2, <1>3, <1>5 DEF Asked
<1> QED
  BY <1>7, <1>8

LEMMA TellOnce ==
    ASSUME OutcomeInv, OnceInv, NEW q \in Requests, TellOthers(q)
    PROVE  OnceSound(q)'
<1> DEFINE r == request[q]
           told == KnownModules \ Range(NotifyExclusion(q))
           s == [r EXCEPT !.heard = TRUE, !.told = told]
<1>1. /\ OnceSound(q) /\ r \in RequestRecords
      /\ r.state \notin {"idle", "read"} /\ r.kind # "status"
      /\ UNCHANGED <<arrays, sources, exclusions>> /\ Connected' = Connected
  BY RequestFacts DEF OnceInv, TellOthers, Connected
<1>2. request'[q] = s
  BY DEF TellOthers, OutcomeInv, RequestType
<1>3. /\ s.kind = r.kind /\ s.shifted = r.shifted /\ s.list = r.list
      /\ s.heard = TRUE /\ s.told = told /\ s.state = r.state
      /\ s.own = r.own /\ s.members = r.members /\ s.others = r.others
      /\ s.asked = r.asked /\ s.loop = r.loop
  <2> HIDE DEF r, told
  <2> QED
    BY <1>1 DEF RequestRecords
<1>4. SUFFICES ASSUME ~ r.shifted PROVE Told(q)' /\ Asked(q)'
  BY <1>1, <1>2, <1>3 DEF OnceSound
<1>5. Told(q) /\ Asked(q) /\ r.others \subseteq KnownModules
  BY <1>1, <1>4 DEF OnceSound
<1>6. NotifyExclusion(q) = r.own
  <2>1. r.list = [array |-> 1, len |-> 0] /\ r.own \in Seq(Names)
    BY <1>1, <1>5 DEF Told, RequestRecords
  <2>2. Elements(arrays, r.list) = <<>>
    <3>1. Elements(arrays, r.list) = SubSeq(arrays[1], 1, 0)
      BY <2>1 DEF Elements
    <3>2. arrays[1] \in Seq(Names)
      BY DEF OutcomeInv, HeapType, Within
    <3> QED
      BY <3>1, <3>2, SubSeqEmpty
  <2> QED
    BY <2>1, <2>2, ConcatEmptySeq DEF NotifyExclusion
<1>7. r.members \cap told = {} /\ r.others \subseteq told
  BY <1>1, <1>5, <1>6 DEF Told
<1> HIDE DEF s, told
<1>8. Told(q)'
  BY <1>1, <1>2, <1>3, <1>5, <1>7 DEF Told
<1>9. Asked(q)'
  BY <1>1, <1>2, <1>3, <1>5 DEF Asked, Element, Behind
<1> QED
  BY <1>8, <1>9

LEMMA MakeOnce ==
    ASSUME OutcomeInv, OnceInv, NEW q \in Requests, MakeChannel(q)
    PROVE  OnceSound(q)'
<1> DEFINE r == request[q]
           s == [r EXCEPT !.state = "made", !.capacity = sources.len]
<1>1. /\ OnceSound(q) /\ r \in RequestRecords /\ r.state = "notified"
      /\ UNCHANGED <<arrays, sources, exclusions>> /\ Connected' = Connected
  BY RequestFacts DEF OnceInv, MakeChannel, Connected
<1>2. request'[q] = s
  BY DEF MakeChannel, OutcomeInv, RequestType
<1>3. /\ s.kind = r.kind /\ s.shifted = r.shifted /\ s.list = r.list
      /\ s.heard = r.heard /\ s.told = r.told /\ s.state = "made"
      /\ s.own = r.own /\ s.members = r.members /\ s.others = r.others
  <2> HIDE DEF r
  <2> QED
    BY <1>1 DEF RequestRecords
<1> HIDE DEF s
<1> QED
  BY <1>1, <1>2, <1>3 DEF OnceSound, Told, Asked

\* the loop is over the list as it is, which has the members and not the
\* others
LEMMA LoopOnce ==
    ASSUME OutcomeInv, OnceInv, NEW q \in Requests, StartLoop(q)
    PROVE  OnceSound(q)'
<1> DEFINE r == request[q]
           s == [r EXCEPT !.state = "asking", !.loop = sources]
<1>1. /\ OnceSound(q) /\ r \in RequestRecords
      /\ UNCHANGED <<arrays, sources, exclusions>>
      /\ r.kind # "status" => r.state \in {"notified", "made"}
      /\ r.state \in {"idle", "notified", "made"}
  BY RequestFacts DEF OnceInv, StartLoop, RequestRecords, Kinds
<1>2. request'[q] = s
  BY DEF StartLoop, OutcomeInv, RequestType
<1>3. /\ s.kind = r.kind /\ s.shifted = r.shifted /\ s.list = r.list
      /\ s.heard = r.heard /\ s.told = r.told /\ s.state = "asking"
      /\ s.own = r.own /\ s.members = r.members /\ s.others = r.others
      /\ s.loop = sources /\ s.asked = r.asked
  <2> HIDE DEF r
  <2> QED
    BY <1>1 DEF RequestRecords
<1>4. s.asked = <<>> /\ Len(s.asked) = 0
  BY <1>1, <1>3, RequestFacts
<1> HIDE DEF s
<1>5. SUFFICES ASSUME r.kind # "status", ~ r.shifted
               PROVE  Told(q)' /\ Asked(q)'
  BY <1>1, <1>2, <1>3 DEF OnceSound
<1>6. Told(q) /\ Asked(q)
  BY <1>1, <1>5 DEF OnceSound
<1>7. Told(q)'
  BY <1>1, <1>2, <1>3, <1>5, <1>6 DEF Told
<1>8. /\ DOMAIN Connected = 1 .. sources.len /\ sources.len \in Nat
      /\ \A i \in 1 .. sources.len :
            Connected[i] = arrays[sources.array][i]
      /\ IsInjective(Connected)
  BY ConnectedIs DEF OutcomeInv, OnceInv, ListsSound
<1>9. \A i \in 1 .. sources.len : Element(request[q], i)' = Connected[i]
  BY <1>1, <1>2, <1>3, <1>4, <1>8 DEF Element
<1>10. /\ \A i, j \in 1 .. sources.len : Connected[i] = Connected[j] => i = j
       /\ \A m \in r.members : \E i \in 1 .. sources.len : Connected[i] = m
       /\ \A i \in 1 .. sources.len : Connected[i] \notin r.others
  BY <1>1, <1>5, <1>6, <1>8 DEF Asked, IsInjective, Range
<1>11. Asked(q)'
  <2>1. Behind(request[q].loop)'
    BY <1>1, <1>2, <1>3, <1>8 DEF Behind
  <2>2. request'[q].state \notin {"read", "notified", "made"}
    BY <1>2, <1>3
  <2> QED
    BY <1>2, <1>3, <1>9, <1>10, <2>1, <2>2 DEF Asked
<1> QED
  BY <1>7, <1>11

LEMMA AskOnce ==
    ASSUME OutcomeInv, OnceInv, NEW q \in Requests, AskNext(q)
    PROVE  OnceSound(q)'
<1> DEFINE r == request[q]  loop == r.loop  old == r.asked
           n == Len(old)
           task == [name |-> arrays[loop.array][n + 1], state |-> "called",
                    yes |-> FALSE, read |-> 0]
           asked == Append(old, task)
           s == [r EXCEPT !.asked = asked]
<1>1. /\ OnceSound(q) /\ r \in RequestRecords /\ r.state = "asking"
      /\ UNCHANGED <<arrays, sources>> /\ n + 1 <= loop.len
      /\ old \in Seq(Tasks) /\ n \in Nat /\ loop.len \in Nat
  BY RequestFacts DEF OnceInv, AskNext
<1>2. request'[q] = s
  BY DEF AskNext, OutcomeInv, RequestType
<1>3. /\ s.kind = r.kind /\ s.shifted = r.shifted /\ s.list = r.list
      /\ s.heard = r.heard /\ s.told = r.told /\ s.state = r.state
      /\ s.own = r.own /\ s.members = r.members /\ s.others = r.others
      /\ s.loop = r.loop /\ s.asked = asked
  <2> HIDE DEF r, asked
  <2> QED
    BY <1>1 DEF RequestRecords
<1>4. /\ Len(asked) = n + 1 /\ asked[n + 1] = task
      /\ \A i \in 1 .. n : asked[i] = old[i]
  <2> HIDE DEF old, task
  <2>1. old \in Seq(Tasks \cup {task})
    BY <1>1
  <2> QED
    BY <2>1, <1>1 DEF old
<1>5. task.name = arrays[loop.array][n + 1]
  OBVIOUS
<1> HIDE DEF s, asked, task
<1>6. ASSUME NEW i \in 1 .. s.loop.len
      PROVE  Element(s, i) = Element(request[q], i)
  <2>1. CASE i <= n
    <3>1. i \in 1 .. n /\ i <= n + 1
      BY <1>1, <1>3, <2>1
    <3> QED
      BY <1>3, <1>4, <2>1, <3>1 DEF Element
  <2>2. CASE i = n + 1
    <3>1. i <= Len(asked) /\ ~ (i <= n)
      BY <1>1, <1>4, <2>2
    <3> QED
      BY <1>3, <1>4, <1>5, <2>2, <3>1 DEF Element
  <2>3. CASE i > n + 1
    <3>1. ~ (i <= n) /\ ~ (i <= Len(asked))
      BY <1>1, <1>3, <1>4, <2>3
    <3> QED
      BY <1>3, <3>1 DEF Element
  <2> QED
    BY <1>1, <1>3, <2>1, <2>2, <2>3
<1>7. Len(s.asked) < s.loop.len => Len(r.asked) < r.loop.len
  BY <1>1, <1>3, <1>4
<1> QED
  BY <1>1, <1>2, <1>3, <1>6, <1>7, AskingOnce

\* an answer, or its recording: the goroutine keeps the name it has
LEMMA AnswerOnce ==
    ASSUME OutcomeInv, OnceInv, NEW q \in Requests, NEW i,
           SourceRefuses(q, i) \/ SourceAccepts(q, i) \/ RecordSuccess(q, i)
    PROVE  OnceSound(q)'
<1> DEFINE r == request[q]  old == r.asked
<1>1. /\ OnceSound(q) /\ r \in RequestRecords /\ i \in DOMAIN old
      /\ UNCHANGED <<arrays, sources>>
      /\ old \in Seq(Tasks) /\ Len(old) \in Nat
      /\ r.state \notin {"asking", "done", "failed"} => old = <<>>
      /\ r.state \in {"done", "failed"} => Len(old) = r.loop.len
      /\ r.ok \in Nat
      /\ old[i].state \in {"called", "accepted"}
  BY RequestFacts DEF OnceInv, SourceRefuses, SourceAccepts, RecordSuccess,
                      RequestRecords
<1>2. /\ i \in 1 .. Len(old) /\ old[i] \in Tasks /\ old # <<>>
      /\ r.state \in {"asking", "done", "failed"}
  BY <1>1
<1>3. r.state = "asking"
  <2>1. r.state \in {"done", "failed"} =>
           \A j \in 1 .. Len(old) : old[j].state = "done"
    BY DEF OutcomeInv, RequestSound, Counted
  <2> QED
    BY <1>1, <1>2, <2>1
<1>4. \E task, ok : /\ request'[q] = [r EXCEPT
                          !.asked = [old EXCEPT ![i] = task], !.ok = ok]
                    /\ task.name = old[i].name
  <2>1. CASE SourceRefuses(q, i)
    <3> DEFINE task == [old[i] EXCEPT !.state = "done"]
    <3>1. request'[q] = [r EXCEPT !.asked = [old EXCEPT ![i] = task]]
      BY <1>1, <2>1 DEF SourceRefuses, OutcomeInv, RequestType
    <3>2. task.name = old[i].name
      BY <1>2 DEF Tasks
    <3> HIDE DEF task
    <3>3. [r EXCEPT !.asked = [old EXCEPT ![i] = task]]
             = [r EXCEPT !.asked = [old EXCEPT ![i] = task], !.ok = r.ok]
      BY <1>1 DEF RequestRecords
    <3> QED
      BY <3>1, <3>2, <3>3
  <2>2. CASE SourceAccepts(q, i)
    <3> DEFINE task == [old[i] EXCEPT !.state = "accepted", !.yes = TRUE,
                                      !.read = r.ok]
    <3>1. request'[q] = [r EXCEPT !.asked = [old EXCEPT ![i] = task]]
      BY <1>1, <1>2, <2>2 DEF SourceAccepts, OutcomeInv, RequestType
    <3>2. task.name = old[i].name
      BY <1>2 DEF Tasks
    <3> HIDE DEF task
    <3>3. [r EXCEPT !.asked = [old EXCEPT ![i] = task]]
             = [r EXCEPT !.asked = [old EXCEPT ![i] = task], !.ok = r.ok]
      BY <1>1 DEF RequestRecords
    <3> QED
      BY <3>1, <3>2, <3>3
  <2>3. CASE RecordSuccess(q, i)
    <3> DEFINE task == [old[i] EXCEPT !.state = "done"]
               ok == IF r.kind = "registerValidator" THEN old[i].read + 1
                     ELSE r.ok + 1
    <3>1. request'[q] = [r EXCEPT !.asked = [old EXCEPT ![i] = task],
                                  !.ok = ok]
      BY <1>1, <2>3 DEF RecordSuccess, OutcomeInv, RequestType
    <3>2. task.name = old[i].name
      BY <1>2 DEF Tasks
    <3> HIDE DEF task, ok
    <3> QED
      BY <3>1, <3>2
  <2> QED
    BY <2>1, <2>2, <2>3
<1>5. PICK task, ok :
         /\ request'[q] = [r EXCEPT
               !.asked = [old EXCEPT ![i] = task], !.ok = ok]
         /\ task.name = old[i].name
  BY <1>4
<1> DEFINE asked == [old EXCEPT ![i] = task]
           s == [r EXCEPT !.asked = asked, !.ok = ok]
<1>6. /\ Len(asked) = Len(old) /\ asked[i] = task
      /\ \A j \in 1 .. Len(old) : j # i => asked[j] = old[j]
  <2> HIDE DEF old
  <2>1. old \in Seq(Tasks \cup {task}) /\ i \in 1 .. Len(old)
    BY <1>1, <1>2 DEF old
  <2> QED
    BY <2>1
<1>7. /\ s.kind = r.kind /\ s.shifted = r.shifted /\ s.list = r.list
      /\ s.heard = r.heard /\ s.told = r.told /\ s.state = r.state
      /\ s.own = r.own /\ s.members = r.members /\ s.others = r.others
      /\ s.loop = r.loop /\ s.asked = asked /\ request'[q] = s
  <2> HIDE DEF r, asked
  <2> QED
    BY <1>1, <1>5 DEF RequestRecords, asked
<1>8. r.loop.len \in Nat
  BY RequestFacts
<1> HIDE DEF s, asked
<1>9. ASSUME NEW j \in 1 .. s.loop.len
      PROVE  Element(s, j) = Element(request[q], j)
  <2>1. CASE j <= Len(old)
    <3>1. j \in 1 .. Len(old)
      BY <1>1, <1>7, <1>8, <2>1
    <3>2. asked[j].name = old[j].name
      BY <1>5, <1>6, <3>1
    <3> QED
      BY <1>6, <1>7, <2>1, <3>2 DEF Element
  <2>2. CASE ~ (j <= Len(old))
    BY <1>6, <1>7, <2>2 DEF Element
  <2> QED
    BY <2>1, <2>2
<1>10. Len(s.asked) < s.loop.len => Len(r.asked) < r.loop.len
  BY <1>6, <1>7
<1> QED
  BY <1>1, <1>3, <1>7, <1>9, <1>10, AskingOnce

LEMMA ReturnOnce ==
    ASSUME OutcomeInv, OnceInv, NEW q \in Requests, Return(q)
    PROVE  OnceSound(q)'
<1> DEFINE r == request[q]
           state == IF Succeeds(q) THEN "done" ELSE "failed"
           s == [r EXCEPT !.state = state]
<1>1. /\ OnceSound(q) /\ r \in RequestRecords /\ r.state = "asking"
      /\ UNCHANGED <<arrays, sources>> /\ state \in {"done", "failed"}
  BY RequestFacts DEF OnceInv, Return, AllDone
<1>2. request'[q] = s
  BY DEF Return, OutcomeInv, RequestType
<1> HIDE DEF state
<1>3. /\ s.kind = r.kind /\ s.shifted = r.shifted /\ s.list = r.list
      /\ s.heard = r.heard /\ s.told = r.told /\ s.state = state
      /\ s.own = r.own /\ s.members = r.members /\ s.others = r.others
      /\ s.loop = r.loop /\ s.asked = r.asked
  <2> HIDE DEF r
  <2> QED
    BY <1>1 DEF RequestRecords
<1> HIDE DEF s
<1>4. /\ \A i \in 1 .. s.loop.len : Element(s, i) = Element(request[q], i)
      /\ Len(s.asked) < s.loop.len => Len(r.asked) < r.loop.len
  BY <1>3 DEF Element
<1> QED
  BY <1>1, <1>2, <1>3, <1>4, AskingOnce

LEMMA OnceStep ==
    OutcomeInv /\ OnceInv /\ ReadersCopy /\ [ListsNext]_vars => OnceInv'
<1> SUFFICES ASSUME OutcomeInv, OnceInv, ReadersCopy, [ListsNext]_vars,
                    NEW p \in Requests
             PROVE  OnceSound(p)'
  BY ListsSoundStep DEF OnceInv
<1>1. OnceSound(p)
  BY DEF OnceInv
<1>2. CASE ListStep
  BY <1>2, ListStepOnce
<1>3. ASSUME NEW q \in Requests, Step(q) PROVE OnceSound(p)'
  <2>1. UNCHANGED <<arrays, sources>>
    BY <1>3, ListsStay
  <2>2. CASE p = q
    <3>1. CASE ReadLists(p)
      BY <3>1, ReadOnce
    <3>2. CASE SendNotification(p)
      BY <3>2, SendOnce
    <3>3. CASE TellOthers(p)
      BY <3>3, TellOnce
    <3>4. CASE MakeChannel(p)
      BY <3>4, MakeOnce
    <3>5. CASE StartLoop(p)
      BY <3>5, LoopOnce
    <3>6. CASE AskNext(p)
      BY <3>6, AskOnce
    <3>7. CASE Return(p)
      BY <3>7, ReturnOnce
    <3>8. CASE \E i \in DOMAIN request[p].asked :
             SourceRefuses(p, i) \/ SourceAccepts(p, i) \/ RecordSuccess(p, i)
      BY <3>8, AnswerOnce
    <3> QED
      BY <1>3, <2>2, <3>1, <3>2, <3>3, <3>4, <3>5, <3>6, <3>7, <3>8 DEF Step
  <2>3. CASE p # q
    <3>1. request'[p] = request[p]
      BY <1>3, <2>3 DEF Step, ReadLists, SendNotification, TellOthers,
         MakeChannel, StartLoop, AskNext, Return, SourceRefuses,
         SourceAccepts, RecordSuccess, OutcomeInv, RequestType
    <3> QED
      BY <1>1, <2>1, <3>1, OthersOnce
  <2> QED
    BY <2>2, <2>3
<1>4. CASE UNCHANGED vars
  BY <1>1, <1>4, OthersOnce DEF vars
<1> QED
  BY <1>2, <1>3, <1>4 DEF ListsNext

LEMMA OnceInit == ListsInit => OnceInv
<1> SUFFICES ASSUME ListsInit PROVE OnceInv
  OBVIOUS
<1>1. ListsSound
  <2>1. Connected = <<>>
    BY ListsRefineInit DEF Lists!ListInit
  <2>2. IsInjective(Connected)
    BY <2>1 DEF IsInjective
  <2>3. \A c \in Connects : connecting[c] # "calling"
    BY DEF ListsInit
  <2> QED
    BY <2>2, <2>3, ListsRefineInit DEF ListsSound
<1>2. ASSUME NEW q \in Requests PROVE OnceSound(q)
  <2>1. PICK Kind \in [Requests -> Kinds] :
            request = [p \in Requests |-> Idle(Kind[p])]
    BY DEF ListsInit
  <2>2. request[q] = Idle(Kind[q])
    BY <2>1
  <2>3. /\ request[q].state = "idle" /\ request[q].others = {}
        /\ request[q].list = [array |-> 1, len |-> 0]
        /\ request[q].heard = FALSE
    BY <2>2 DEF Idle
  <2> QED
    BY <2>3 DEF OnceSound, Told, Asked
<1> QED
  BY <1>1, <1>2 DEF OnceInv

LEMMA OnceImplies == OutcomeInv /\ OnceInv => ToldOnce
<1> SUFFICES ASSUME OutcomeInv, OnceInv, NEW q \in Requests,
                    request[q].kind # "status",
                    request[q].state \in {"done", "failed"},
                    request[q].heard, ~ request[q].shifted
             PROVE  LET r == request[q]
                        calls(m) == Cardinality({i \in DOMAIN r.asked :
                                                    r.asked[i].name = m})
                    IN  /\ \A m \in r.members : calls(m) = 1 /\ m \notin r.told
                        /\ \A m \in r.others : calls(m) = 0 /\ m \in r.told
  BY DEF ToldOnce
<1> DEFINE r == request[q]  n == Len(r.asked)
           places(m) == {i \in DOMAIN r.asked : r.asked[i].name = m}
<1>1. /\ Told(q) /\ Asked(q) /\ r.asked \in Seq(Tasks) /\ n \in Nat
      /\ n = r.loop.len /\ DOMAIN r.asked = 1 .. n
  BY RequestFacts DEF OnceInv, OnceSound
<1>2. \A i \in 1 .. n : Element(request[q], i) = r.asked[i].name
  BY <1>1 DEF Element
<1>3. /\ \A i, j \in 1 .. n : r.asked[i].name = r.asked[j].name => i = j
      /\ \A m \in r.members : \E i \in 1 .. n : r.asked[i].name = m
      /\ \A i \in 1 .. n : r.asked[i].name \notin r.others
  BY <1>1, <1>2 DEF Asked
<1>4. ASSUME NEW m \in r.members
      PROVE  Cardinality(places(m)) = 1 /\ m \notin r.told
  <2>1. PICK i \in 1 .. n : r.asked[i].name = m
    BY <1>3
  <2>2. places(m) = {i}
    BY <1>1, <1>3, <2>1
  <2>3. m \notin r.told
    BY <1>1 DEF Told
  <2> QED
    BY <2>2, <2>3, FS_Singleton
<1>5. ASSUME NEW m \in r.others
      PROVE  Cardinality(places(m)) = 0 /\ m \in r.told
  <2>1. places(m) = {}
    BY <1>1, <1>3
  <2>2. m \in r.told
    BY <1>1 DEF Told
  <2> QED
    BY <2>1, <2>2, FS_EmptySet
<1> QED
  BY <1>4, <1>5

(***************************************************************************)
(* A registerValidator or getHeader reaches every module in one way: who   *)
(* is a source all the while is called once and not notified, who is       *)
(* neither source nor excluded is notified and not called (backend.go:     *)
(* 70-91, 114-153), for any number of connects and requests between the    *)
(* two readings of the list, as long as readers do not write into the      *)
(* array of the sources.                                                   *)
(***************************************************************************)
THEOREM EveryoneOnce == ListsSpec /\ []ReadersCopy => []ToldOnce
  BY OnceInit, OnceStep, OnceImplies, OutcomeInit, OutcomeStep, PTL
     DEF ListsSpec

-----------------------------------------------------------------------------
(***************************************************************************)
(* When do readers copy?  When the array of the sources never has room for *)
(* two more, as there are two exclusions from the start, and these stay.   *)
(***************************************************************************)
Tight(slice) == Len(arrays[slice.array]) < slice.len + 2

CopyInv ==
    /\ Excludable \cap {"builderApi", "blockAggregator"} = {}
    /\ {"builderApi", "blockAggregator"} \subseteq Range(exclusions)
    /\ Tight(sources)
    /\ \A q \in Requests : request[q].state = "read" =>
          Tight(request[q].base) /\ Len(request[q].own) >= 2

LEMMA TwoExclusions ==
    ASSUME NEW s \in Seq(Names),
           {"builderApi", "blockAggregator"} \subseteq Range(s)
    PROVE  Len(s) >= 2
<1>1. PICK i, j \in 1 .. Len(s) : s[i] = "builderApi"
                                  /\ s[j] = "blockAggregator"
  BY DEF Range
<1>2. i # j
  BY <1>1
<1> QED
  BY <1>1, <1>2

LEMMA CopyImplies == OutcomeInv /\ CopyInv => ReadersCopy
<1> SUFFICES ASSUME OutcomeInv, CopyInv, NEW q \in Requests,
                    request[q].state = "read"
             PROVE  ~ Fits(request[q].base, request[q].own)
  BY DEF ReadersCopy
<1> DEFINE b == request[q].base  k == Len(request[q].own)
           n == Len(arrays[b.array])
<1>1. n < b.len + 2 /\ k >= 2
  BY DEF CopyInv, Tight
<1>2. k \in Nat /\ n \in Nat /\ b.len \in Nat
  <2>1. request[q] \in RequestRecords /\ b.len \in Nat /\ Within(b)
    BY RequestFacts
  <2>2. b.array \in 1 .. Len(arrays) /\ arrays \in Seq(Seq(Names))
    BY <2>1 DEF Within, OutcomeInv, HeapType
  <2>3. arrays[b.array] \in Seq(Names) /\ request[q].own \in Seq(Names)
    BY <2>1, <2>2 DEF RequestRecords
  <2> QED
    BY <2>1, <2>3
<1> HIDE DEF n, k
<1>3. ~ (b.len + k <= n)
  BY <1>1, <1>2
<1> QED
  BY <1>3 DEF Fits, n, k

LEMMA CopyStep ==
    OutcomeInv /\ CopyInv /\ [ListsNext]_vars /\ Tight(sources)' => CopyInv'
<1> SUFFICES ASSUME OutcomeInv, CopyInv, [ListsNext]_vars, Tight(sources)'
             PROVE  CopyInv'
  OBVIOUS
<1>1. /\ HeapType /\ RequestType /\ exclusions \in Seq(Names)
      /\ ReadersCopy
  BY CopyImplies DEF OutcomeInv, HeapType
\* the parts of the requests, when only a writer steps
<1>2. ASSUME Kept,
             \A q \in Requests : SameButHistory(request[q], request'[q]),
             exclusions' = exclusions
      PROVE  CopyInv'
  <2>1. ASSUME NEW q \in Requests, request'[q].state = "read"
        PROVE  Tight(request[q].base)' /\ Len(request'[q].own) >= 2
    <3>1. /\ Tight(request[q].base) /\ Len(request[q].own) >= 2
          /\ request'[q].base = request[q].base
          /\ request'[q].own = request[q].own
      BY <1>2, <2>1 DEF SameButHistory, CopyInv
    <3>2. Len(arrays'[request[q].base.array])
             = Len(arrays[request[q].base.array])
      BY <1>2, RequestFacts DEF Kept, Within
    <3> QED
      BY <3>1, <3>2 DEF Tight
  <2> QED
    BY <1>2, <2>1 DEF CopyInv
<1>3. ASSUME NEW c \in Connects, Connect(c) \/ NameRefused(c)
      PROVE  CopyInv'
  <2>1. UNCHANGED <<arrays, exclusions, request>>
    BY <1>3 DEF Connect, NameRefused
  <2> QED
    BY <2>1 DEF CopyInv, Tight
<1>4. ASSUME NEW c \in Connects, NameAnswered(c) PROVE CopyInv'
  <2>1. Kept /\ exclusions' = exclusions
    BY <1>1, <1>4, NameAnsweredIs DEF NameAnswered
  <2>2. \A q \in Requests : SameButHistory(request[q], request'[q])
    BY <1>1, <1>4, MovedIs DEF NameAnswered
  <2> QED
    BY <1>2, <2>1, <2>2
<1>5. ASSUME NEW m \in Leaving, DisconnectBlockSource(m) PROVE CopyInv'
  <2>1. Kept /\ exclusions' = exclusions
    BY <1>1, <1>5, DisconnectIs DEF DisconnectBlockSource
  <2>2. \A q \in Requests : SameButHistory(request[q], request'[q])
    BY <1>1, <1>5, MovedIs DEF DisconnectBlockSource
  <2> QED
    BY <1>2, <2>1, <2>2
<1>6. ASSUME NEW m \in Excludable,
             ExcludeFromNotifications(m) \/ IncludeInNotifications(m)
      PROVE  CopyInv'
  <2>1. arrays' = arrays /\ m \notin {"builderApi", "blockAggregator"}
    BY <1>6 DEF ExcludeFromNotifications, IncludeInNotifications, CopyInv
  <2>2. {"builderApi", "blockAggregator"} \subseteq Range(exclusions')
    <3>1. CASE ExcludeFromNotifications(m)
      <4>1. exclusions' = Append(exclusions, m) /\ m \in Names
        BY <3>1 DEF ExcludeFromNotifications, Names
      <4>2. \A i \in DOMAIN exclusions : /\ i \in DOMAIN exclusions'
                                         /\ exclusions'[i] = exclusions[i]
        BY <1>1, <4>1
      <4> QED
        BY <4>2 DEF CopyInv, Range
    <3>2. CASE IncludeInNotifications(m)
      <4>1. /\ exclusions' = RemoveFirst(exclusions, m)
            /\ \E i \in 1 .. Len(exclusions) : exclusions[i] = m
        BY <1>1, <3>2 DEF IncludeInNotifications, Range
      <4>2. PICK k \in 1 .. Len(exclusions) :
               /\ exclusions[k] = m
               /\ exclusions' = RemoveAt(exclusions, k)
        BY <1>1, <4>1, FirstPlace
      <4> DEFINE n == Len(exclusions)
      <4>3. /\ DOMAIN exclusions' = 1 .. n - 1
            /\ \A i \in 1 .. n - 1 : exclusions'[i] =
                  IF i < k THEN exclusions[i] ELSE exclusions[i + 1]
        <5>1. /\ exclusions' \in Seq(Names) /\ Len(exclusions') = n - 1
              /\ \A i \in 1 .. n - 1 : exclusions'[i] =
                    IF i < k THEN exclusions[i] ELSE exclusions[i + 1]
          BY <1>1, <4>2, WithoutOne
        <5> QED
          BY <5>1
      <4>4. ASSUME NEW i \in 1 .. n, exclusions[i] # m
            PROVE  exclusions[i] \in Range(exclusions')
        <5>1. n \in Nat /\ k \in 1 .. n /\ i # k
          BY <1>1, <4>2, <4>4
        <5>2. \/ i \in 1 .. n - 1 /\ i < k
              \/ /\ i - 1 \in 1 .. n - 1 /\ ~ (i - 1 < k)
                 /\ (i - 1) + 1 = i
          <6> HIDE DEF n
          <6> QED
            BY <5>1
        <5>3. CASE i \in 1 .. n - 1 /\ i < k
          BY <4>3, <5>3 DEF Range
        <5>4. CASE /\ i - 1 \in 1 .. n - 1 /\ ~ (i - 1 < k)
                   /\ (i - 1) + 1 = i
          BY <4>3, <5>4 DEF Range
        <5> QED
          BY <5>2, <5>3, <5>4
      <4> QED
        BY <1>1, <2>1, <4>4 DEF CopyInv, Range
    <3> QED
      BY <1>6, <3>1, <3>2
  <2>3. \A q \in Requests : SameButHistory(request[q], request'[q])
    BY <1>1, <1>6, MovedIs
       DEF ExcludeFromNotifications, IncludeInNotifications
  <2> QED
    BY <2>1, <2>2, <2>3 DEF CopyInv, Tight, SameButHistory
<1>7. ASSUME NEW q \in Requests, Step(q) PROVE CopyInv'
  <2>1. UNCHANGED <<arrays, sources, exclusions>>
    BY <1>1, <1>7, ListsStay
  <2>2. \/ request'[q].state # "read"
        \/ request'[q].base = sources /\ request'[q].own = exclusions
        \/ /\ request[q].state = "read"
           /\ request'[q].base = request[q].base
           /\ request'[q].own = request[q].own
    <3> DEFINE r == request[q]
    <3>1. r \in RequestRecords /\ request \in [Requests -> RequestRecords]
      BY <1>1 DEF RequestType
    <3>2. CASE ReadLists(q)
      <4>1. request'[q].base = sources /\ request'[q].own = exclusions
        BY <3>1, <3>2 DEF ReadLists, RequestRecords
      <4> QED
        BY <4>1
    <3>3. CASE SendNotification(q)
      BY <1>1, <3>1, <3>3 DEF SendNotification, ReadersCopy, RequestRecords
    <3>4. CASE TellOthers(q) \/ MakeChannel(q) \/ StartLoop(q) \/ Return(q)
               \/ AskNext(q)
      <4>1. request'[q].state # "read"
        BY <3>1, <3>4 DEF TellOthers, MakeChannel, StartLoop, Return, AskNext,
           RequestRecords
      <4> QED
        BY <4>1
    <3>5. CASE \E i \in DOMAIN request[q].asked :
             SourceRefuses(q, i) \/ SourceAccepts(q, i) \/ RecordSuccess(q, i)
      <4>1. request'[q].state = r.state /\ r.asked # <<>>
        BY <3>1, <3>5 DEF SourceRefuses, SourceAccepts, RecordSuccess,
           RequestRecords
      <4> QED
        BY <4>1, RequestFacts
    <3> QED
      BY <1>7, <3>2, <3>3, <3>4, <3>5 DEF Step
  <2>3. \A p \in Requests : p # q => request'[p] = request[p]
    BY <1>1, <1>7 DEF Step, ReadLists, SendNotification, TellOthers,
       MakeChannel, StartLoop, AskNext, Return, SourceRefuses,
       SourceAccepts, RecordSuccess, RequestType
  <2>4. Len(exclusions) >= 2
    BY <1>1, TwoExclusions DEF CopyInv
  <2>5. ASSUME NEW p \in Requests, request'[p].state = "read"
        PROVE  Tight(request[p].base)' /\ Len(request'[p].own) >= 2
    BY <2>1, <2>2, <2>3, <2>4, <2>5 DEF CopyInv, Tight
  <2> QED
    BY <2>1, <2>5 DEF CopyInv, Tight
<1>8. CASE UNCHANGED vars
  BY <1>8 DEF vars, CopyInv, Tight
<1> QED
  BY <1>3, <1>4, <1>5, <1>6, <1>7, <1>8 DEF ListsNext, ListStep

LEMMA CopyInit ==
    Excludable \cap {"builderApi", "blockAggregator"} = {} /\ ListsInit
        => CopyInv
<1> SUFFICES ASSUME Excludable \cap {"builderApi", "blockAggregator"} = {},
                    ListsInit
             PROVE  CopyInv
  OBVIOUS
<1>1. Tight(sources)
  BY DEF ListsInit, Tight
<1>2. {"builderApi", "blockAggregator"} \subseteq Range(exclusions)
  BY ListsRefineInit DEF Lists!ListInit
<1>3. ASSUME NEW q \in Requests PROVE request[q].state # "read"
  <2>1. PICK Kind \in [Requests -> Kinds] :
            request = [p \in Requests |-> Idle(Kind[p])]
    BY DEF ListsInit
  <2> QED
    BY <2>1 DEF Idle
<1> QED
  BY <1>1, <1>2, <1>3 DEF CopyInv

-----------------------------------------------------------------------------
(***************************************************************************)
(* While at most four modules connect and none disconnects, the array has  *)
(* room for one more at most.                                              *)
(***************************************************************************)
FourStay ==
    /\ IsFiniteSet(Connects) /\ Cardinality(Connects) <= 4
    /\ Leaving = {}
    /\ Excludable \cap {"builderApi", "blockAggregator"} = {}

Returned == {c \in Connects : connecting[c] = "returned"}

\* the length of a list that only grows, one by one, and its capacity
FourInv ==
    /\ FourStay
    /\ <<sources.len, Len(arrays[sources.array])>> \in
          {<<0, 0>>, <<1, 1>>, <<2, 2>>, <<3, 4>>, <<4, 4>>}
    /\ sources.len <= Cardinality(Returned)

LEMMA FourTight == FourInv => Tight(sources)
<1> SUFFICES ASSUME FourInv PROVE Tight(sources)
  OBVIOUS
<1> DEFINE n == Len(arrays[sources.array])  l == sources.len
<1>1. \/ l = 0 /\ n = 0
      \/ l = 1 /\ n = 1
      \/ l = 2 /\ n = 2
      \/ l = 3 /\ n = 4
      \/ l = 4 /\ n = 4
  BY DEF FourInv
<1>2. n < l + 2
  <2> HIDE DEF n, l
  <2> QED
    BY <1>1
<1> QED
  BY <1>2 DEF Tight

LEMMA FourStep ==
    OutcomeInv /\ ReadersCopy /\ FourInv /\ [ListsNext]_vars => FourInv'
<1> SUFFICES ASSUME OutcomeInv, ReadersCopy, FourInv, [ListsNext]_vars
             PROVE  FourInv'
  OBVIOUS
<1>1. /\ HeapType /\ sources.len \in Nat
      /\ connecting \in [Connects -> {"idle", "calling", "returned"}]
      /\ IsFiniteSet(Returned) /\ Cardinality(Returned) \in Nat
  <2>1. IsFiniteSet(Returned)
    BY FS_Subset DEF FourInv, FourStay, Returned
  <2> QED
    BY <2>1, FS_CardinalityType DEF OutcomeInv, HeapType, Slices
<1>2. ASSUME NEW c \in Connects, Connect(c) \/ NameRefused(c)
      PROVE  FourInv'
  <2>1. UNCHANGED <<arrays, sources>>
        /\ connecting' \in [Connects -> {"idle", "calling", "returned"}]
        /\ connecting[c] # "returned"
        /\ \A d \in Connects : d # c => connecting'[d] = connecting[d]
    BY <1>1, <1>2 DEF Connect, NameRefused
  <2>2. Returned \subseteq Returned' /\ IsFiniteSet(Returned')
    <3>1. Returned \subseteq Returned' /\ Returned' \subseteq Connects
      BY <2>1 DEF Returned
    <3> QED
      BY <3>1, FS_Subset DEF FourInv, FourStay
  <2>3. Cardinality(Returned) <= Cardinality(Returned')
        /\ Cardinality(Returned') \in Nat
    BY <2>2, FS_Subset, FS_CardinalityType
  <2>4. sources'.len <= Cardinality(Returned')
    BY <1>1, <2>1, <2>3 DEF FourInv
  <2> QED
    BY <2>1, <2>4 DEF FourInv
<1>3. ASSUME NEW c \in Connects, NameAnswered(c) PROVE FourInv'
  <2> DEFINE n == Len(arrays[sources.array])
             k == Len(arrays'[sources'.array])
  <2>1. /\ sources'.len = sources.len + 1
        /\ k = IF sources.len + 1 <= n THEN n ELSE Grown(n, sources.len + 1)
    BY <1>1, <1>3, NameAnsweredIs
  <2>2. /\ connecting[c] = "calling"
        /\ connecting' = [connecting EXCEPT ![c] = "returned"]
    BY <1>3 DEF NameAnswered
  <2>3. Returned' = Returned \cup {c} /\ c \notin Returned
    BY <1>1, <2>2 DEF Returned
  <2>4. Cardinality(Returned') = Cardinality(Returned) + 1
    BY <1>1, <2>3, FS_AddElement
  <2>5. Cardinality(Returned') <= 4
    <3>1. Returned' \subseteq Connects
      BY DEF Returned
    <3>2. /\ Cardinality(Returned') <= Cardinality(Connects)
          /\ Cardinality(Connects) \in Nat /\ Cardinality(Connects) <= 4
      BY <3>1, FS_Subset, FS_CardinalityType DEF FourInv, FourStay
    <3> QED
      BY <1>1, <2>4, <3>2
  <2>6. sources'.len <= Cardinality(Returned') /\ sources'.len <= 4
    BY <1>1, <2>1, <2>4, <2>5 DEF FourInv
  <2>7. \/ sources.len = 0 /\ n = 0
        \/ sources.len = 1 /\ n = 1
        \/ sources.len = 2 /\ n = 2
        \/ sources.len = 3 /\ n = 4
    <3>1. \/ sources.len = 0 /\ n = 0
          \/ sources.len = 1 /\ n = 1
          \/ sources.len = 2 /\ n = 2
          \/ sources.len = 3 /\ n = 4
          \/ sources.len = 4 /\ n = 4
      BY DEF FourInv
    <3> QED
      BY <2>1, <2>6, <3>1
  <2> HIDE DEF n, k
  <2>8. \/ sources'.len = 1 /\ k = 1
        \/ sources'.len = 2 /\ k = 2
        \/ sources'.len = 3 /\ k = 4
        \/ sources'.len = 4 /\ k = 4
    BY <2>1, <2>7 DEF Grown
  <2> QED
    BY <2>6, <2>8 DEF FourInv, k
<1>4. ASSUME UNCHANGED <<arrays, sources, connecting>> PROVE FourInv'
  BY <1>4 DEF FourInv, Returned
<1>5. ASSUME NEW q \in Requests, Step(q) PROVE FourInv'
  BY <1>4, <1>5, ListsStay
<1>6. ASSUME NEW m \in Excludable,
             ExcludeFromNotifications(m) \/ IncludeInNotifications(m)
      PROVE  FourInv'
  BY <1>4, <1>6 DEF ExcludeFromNotifications, IncludeInNotifications
<1>7. CASE UNCHANGED vars
  BY <1>4, <1>7 DEF vars
<1> QED
  BY <1>2, <1>3, <1>5, <1>6, <1>7
     DEF ListsNext, ListStep, FourInv, FourStay

LEMMA FourInit == FourStay /\ ListsInit => FourInv
<1> SUFFICES ASSUME FourStay, ListsInit PROVE FourInv
  OBVIOUS
<1>1. /\ arrays = << <<>> >> /\ sources = [array |-> 1, len |-> 0]
      /\ connecting = [c \in Connects |-> "idle"]
  BY DEF ListsInit
<1>2. Returned = {}
  BY <1>1 DEF Returned
<1>3. sources.len <= Cardinality(Returned)
  BY <1>1, <1>2, FS_EmptySet
<1> QED
  BY <1>1, <1>3 DEF FourInv

(***************************************************************************)
(* With up to four modules that connect and stay, whoever is excluded and  *)
(* included, the slices are the lists and everybody is reached once        *)
(* (service.go:102-204, backend.go:70-153): one element more, or one that  *)
(* disconnects, may leave room for what the readers append.                *)
(***************************************************************************)
THEOREM FourAreSafe == FourStay /\ ListsSpec => RefinesLists /\ []ToldOnce
<1>1. FourStay => Excludable \cap {"builderApi", "blockAggregator"} = {}
  BY DEF FourStay
<1>2. FourStay /\ ListsSpec => []ReadersCopy
  BY <1>1, CopyInit, CopyStep, CopyImplies, FourInit, FourStep, FourTight,
     OutcomeInit, OutcomeStep, PTL DEF ListsSpec
<1> QED
  BY <1>2, SlicesAreLists, EveryoneOnce, PTL

-----------------------------------------------------------------------------
(***************************************************************************)
(* With two modules of which one stays, however often the other connects   *)
(* and disconnects: an array for two is made when both are in the list,    *)
(* and the one that stays keeps its place in it.                           *)
(***************************************************************************)
TwoConnect ==
    /\ \E stays \in Sources \ Leaving, other \in Sources :
          \A c \in Connects : Name[c] \in {stays, other}
    /\ Excludable \cap {"builderApi", "blockAggregator"} = {}

TwoInv ==
    \E stays \in Sources \ Leaving, other \in Sources :
        /\ \A c \in Connects : Name[c] \in {stays, other}
        /\ Range(Connected) \subseteq {stays, other}
        /\ Len(arrays[sources.array]) \in {0, 1, 2}
        /\ Len(arrays[sources.array]) = 2 => stays \in Range(Connected)

LEMMA TwoTight == OutcomeInv /\ TwoInv => Tight(sources)
<1> SUFFICES ASSUME OutcomeInv, TwoInv PROVE Tight(sources)
  OBVIOUS
<1> DEFINE n == Len(arrays[sources.array])  l == sources.len
<1>1. n \in {0, 1, 2} /\ (n = 2 => Range(Connected) # {})
  BY DEF TwoInv
<1>2. l \in Nat /\ DOMAIN Connected = 1 .. l
  BY ConnectedIs DEF OutcomeInv
<1>3. n = 2 => l # 0
  BY <1>1, <1>2 DEF Range
<1>4. n < l + 2
  <2> HIDE DEF n, l
  <2> QED
    BY <1>1, <1>2, <1>3
<1> QED
  BY <1>4 DEF Tight

LEMMA TwoStep ==
    OutcomeInv /\ ListsSound /\ ReadersCopy /\ TwoInv /\ [ListsNext]_vars
        => TwoInv'
<1> SUFFICES ASSUME OutcomeInv, ListsSound, ReadersCopy, TwoInv,
                    [ListsNext]_vars
             PROVE  TwoInv'
  OBVIOUS
<1> DEFINE n == Len(arrays[sources.array])  s == Connected
           k == Len(arrays'[sources'.array])
<1>1. PICK stays \in Sources \ Leaving, other \in Sources :
        /\ \A c \in Connects : Name[c] \in {stays, other}
        /\ Range(s) \subseteq {stays, other}
        /\ n \in {0, 1, 2}
        /\ n = 2 => stays \in Range(s)
  BY DEF TwoInv
<1>2. /\ HeapType /\ s \in Seq(Names) /\ Len(s) = sources.len
      /\ DOMAIN s = 1 .. sources.len /\ sources.len \in Nat
      /\ sources.len <= n /\ IsInjective(s)
  BY ConnectedIs DEF OutcomeInv, HeapType, Within, ListsSound
<1>3. ASSUME NEW c \in Connects, NameAnswered(c) PROVE TwoInv'
  <2>1. /\ s' = Append(s, Name[c]) /\ Name[c] \in Names
        /\ Name[c] \notin Range(s)
    BY <1>2, <1>3, ConnectedGrows DEF NameAnswered, ListsSound, Names
  <2>2. Range(s') = Range(s) \cup {Name[c]}
    BY <1>2, <2>1, OneMore
  <2>3. k = IF sources.len + 1 <= n THEN n ELSE Grown(n, sources.len + 1)
    BY <1>2, <1>3, NameAnsweredIs
  <2>4. CASE sources.len + 1 <= n
    BY <1>1, <2>2, <2>3, <2>4 DEF TwoInv
  <2>5. CASE n = 0
    <3>1. k = 1
      BY <1>2, <2>3, <2>5 DEF Grown
    <3> QED
      BY <1>1, <2>2, <3>1 DEF TwoInv
  <2>6. CASE n = 1 /\ sources.len = 1
    <3>1. k = 2
      BY <2>3, <2>6 DEF Grown
    <3>2. Range(s) # {}
      BY <1>2, <2>6 DEF Range
    <3>3. stays \in Range(s')
      BY <1>1, <2>1, <2>2, <3>2
    <3> QED
      BY <1>1, <2>2, <3>1, <3>3 DEF TwoInv
  <2>7. ~ (n = 2 /\ sources.len = 2)
    <3> SUFFICES ASSUME sources.len = 2 PROVE FALSE
      OBVIOUS
    <3>1. s[1] # s[2] /\ s[1] \in Range(s) /\ s[2] \in Range(s)
      BY <1>2 DEF IsInjective, Range
    <3> QED
      BY <1>1, <2>1, <3>1
  <2>8. \/ sources.len + 1 <= n
        \/ n = 0
        \/ n = 1 /\ sources.len = 1
    <3> HIDE DEF n, s
    <3> QED
      BY <1>1, <1>2, <2>7
  <2> QED
    BY <2>4, <2>5, <2>6, <2>8
<1>4. ASSUME NEW m \in Leaving, DisconnectBlockSource(m) PROVE TwoInv'
  <2>1. PICK i \in DOMAIN s : s[i] = m /\ s' = RemoveAt(s, i)
    BY <1>2, <1>4, ConnectedShrinks
  <2>2. Range(s') = Range(s) \ {m}
    BY <1>2, <2>1, OneLess
  <2>3. k = n
    <3>1. Kept /\ sources'.array = sources.array
      BY <1>2, <1>4, DisconnectIs
    <3> QED
      BY <1>2, <3>1 DEF Kept, HeapType, Within
  <2> QED
    BY <1>1, <2>2, <2>3 DEF TwoInv
<1>5. ASSUME UNCHANGED <<arrays, sources>> PROVE TwoInv'
  BY <1>5 DEF TwoInv, Connected
<1>6. ASSUME NEW q \in Requests, Step(q) PROVE TwoInv'
  BY <1>5, <1>6, ListsStay
<1>7. ASSUME NEW m \in Excludable,
             ExcludeFromNotifications(m) \/ IncludeInNotifications(m)
      PROVE  TwoInv'
  BY <1>5, <1>7 DEF ExcludeFromNotifications, IncludeInNotifications
<1>8. ASSUME NEW c \in Connects, Connect(c) \/ NameRefused(c)
      PROVE  TwoInv'
  BY <1>5, <1>8 DEF Connect, NameRefused
<1>9. CASE UNCHANGED vars
  BY <1>5, <1>9 DEF vars
<1> QED
  BY <1>3, <1>4, <1>6, <1>7, <1>8, <1>9 DEF ListsNext, ListStep

LEMMA TwoInit ==
    TwoConnect /\ ListsInit =>
        /\ TwoInv /\ ListsSound
        /\ Excludable \cap {"builderApi", "blockAggregator"} = {}
<1> SUFFICES ASSUME TwoConnect, ListsInit PROVE TwoInv /\ ListsSound
  BY DEF TwoConnect
<1>1. Connected = <<>> /\ Len(arrays[sources.array]) = 0
  BY ListsRefineInit DEF Lists!ListInit, ListsInit
<1>2. Range(Connected) = {}
  BY <1>1 DEF Range
<1> QED
  BY <1>1, <1>2, OnceInit DEF OnceInv, TwoConnect, TwoInv

(***************************************************************************)
(* With two sources, one of which may disconnect and connect again, any    *)
(* exclusions and requests, the slices are the lists and everybody is      *)
(* reached once (service.go:102-204, backend.go:70-153).  If both may      *)
(* disconnect, or a third connects, readers may write into the array.      *)
(***************************************************************************)
THEOREM TwoAreSafe == TwoConnect /\ ListsSpec => RefinesLists /\ []ToldOnce
<1>1. TwoConnect /\ ListsSpec => []ReadersCopy
  BY TwoInit, TwoStep, TwoTight, CopyInit, CopyStep, CopyImplies,
     ListsSoundStep, OutcomeInit, OutcomeStep, PTL DEF ListsSpec
<1> QED
  BY <1>1, SlicesAreLists, EveryoneOnce, PTL
=============================================================================
