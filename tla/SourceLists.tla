---------------------------- MODULE SourceLists -----------------------------
(***************************************************************************)
(* The lists of the block aggregator as the Go slices they are             *)
(* (modules/block-aggregator/service.go), and the requests that read them  *)
(* without the lock (backend.go): registerValidator, getHeader and Status  *)
(* hand append(sources, exclusions...) to Notify, then range over the      *)
(* sources and call each in a goroutine of its own.  A slice is a part of  *)
(* a backing array, which other slices share: append writes into the array *)
(* as long as there is room, and a range loop sees what is written while   *)
(* it runs.  Slice headers are read and written in one step here.          *)
(***************************************************************************)
EXTENDS Naturals, FiniteSets, SequencesExt

CONSTANTS
    Sources,        \* the names of block sources
    Connects, Name, \* the calls of ConnectBlockSource and their argument
    KnownModules,   \* the modules of the core
    Leaving,        \* the sources that may disconnect
    Excludable,     \* the modules that may be excluded and included
    Requests

VARIABLES
    arrays,         \* the backing arrays the list of sources has had
    sources,        \* the slice b.ConnectedBLockSources
    exclusions,     \* b.ModuleNotificationExclusions
    connecting,     \* call -> idle, calling (holds the lock), returned
    request

vars == <<arrays, sources, exclusions, connecting, request>>

-----------------------------------------------------------------------------
Elements(heap, slice) == SubSeq(heap[slice.array], 1, slice.len)

Connected == Elements(arrays, sources)

Lists == INSTANCE BlockSources WITH
    ConnectedBLockSources <- Connected,
    ModuleNotificationExclusions <- Range(exclusions)

\* the capacity of the array that append makes for n elements
Grown(capacity, n) == IF n > 2 * capacity THEN n ELSE 2 * capacity

Fits(slice, names) ==
    slice.len + Len(names) <= Len(arrays[slice.array])

\* the array after names are put behind the elements of slice
Written(slice, names) ==
    [i \in DOMAIN arrays[slice.array] |->
        IF i > slice.len /\ i <= slice.len + Len(names)
        THEN names[i - slice.len] ELSE arrays[slice.array][i]]

\* a new array with the elements of slice, then names, then unused places
Copied(slice, names) ==
    LET both == Elements(arrays, slice) \o names
    IN  [i \in 1..Grown(Len(arrays[slice.array]), Len(both)) |->
            IF i <= Len(both) THEN both[i] ELSE ""]

Kinds == {"getHeader", "registerValidator", "status"}

Idle(kind) ==
        [kind |-> kind, state |-> "idle", base |-> [array |-> 1, len |-> 0],
         list |-> [array |-> 1, len |-> 0], own |-> <<>>,
         told |-> {}, heard |-> FALSE, capacity |-> 0,
         loop |-> [array |-> 1, len |-> 0], asked |-> <<>>, ok |-> 0,
         members |-> {}, others |-> {}, shifted |-> FALSE, joined |-> FALSE]

\* no array, but the first one, which has no elements
ListsInit ==
    /\ arrays = << <<>> >>
    /\ sources = [array |-> 1, len |-> 0]
    /\ exclusions = <<"builderApi", "blockAggregator">>
    /\ connecting = [c \in Connects |-> "idle"]
    /\ \E Kind \in [Requests -> Kinds] :
          request = [q \in Requests |-> Idle(Kind[q])]

-----------------------------------------------------------------------------
Listed(m) == m \in Range(Connected) \cup Range(exclusions)

LockFree == \A c \in Connects : connecting[c] # "calling"

\* the lists are still of importance to the request
Reading(q) ==
    \/ request[q].state \in {"read", "notified", "made"}
    \/ /\ request[q].state = "asking"
       /\ request[q].kind = "status" \/ Len(request[q].asked) < request[q].loop.len

\* history: m is not where it was when the request began.  Did others move,
\* or has it joined after a channel was made for those in the list?
Moved(m, how) ==
    LET late(q) == how = "connects" /\ request[q].state = "made"
    IN  request' = [q \in Requests |->
            IF Reading(q)
            THEN [request[q] EXCEPT !.members = @ \ {m}, !.others = @ \ {m},
                                    !.shifted = @ \/ how = "leaves",
                                    !.joined = @ \/ late(q)]
            ELSE request[q]]

Connect(c) ==
    /\ connecting[c] = "idle" /\ LockFree
    /\ connecting' = [connecting EXCEPT ![c] =
                        IF Listed(Name[c]) THEN "returned" ELSE "calling"]
    /\ UNCHANGED <<arrays, sources, exclusions, request>>

\* an error: newMessage knows no such method, or the call of it fails
NameRefused(c) ==
    /\ connecting[c] = "calling"
    /\ connecting' = [connecting EXCEPT ![c] = "returned"]
    /\ UNCHANGED <<arrays, sources, exclusions, request>>

\* append(b.ConnectedBLockSources, moduleName)
NameAnswered(c) ==
    /\ connecting[c] = "calling" /\ Name[c] \in KnownModules
    /\ connecting' = [connecting EXCEPT ![c] = "returned"]
    /\ LET name == <<Name[c]>>
       IN  IF Fits(sources, name)
           THEN /\ arrays' = [arrays EXCEPT
                                ![sources.array] = Written(sources, name)]
                /\ sources' = [sources EXCEPT !.len = @ + 1]
           ELSE /\ arrays' = Append(arrays, Copied(sources, name))
                /\ sources' = [array |-> Len(arrays) + 1,
                               len |-> sources.len + 1]
    /\ Moved(Name[c], "connects")
    /\ UNCHANGED exclusions

\* append(list[:i], list[i+1:]...): the elements behind i move down in place
DisconnectBlockSource(m) ==
    /\ LockFree
    /\ \E i \in DOMAIN Connected :
        /\ Connected[i] = m /\ \A j \in 1..(i - 1) : Connected[j] # m
        /\ arrays' = [arrays EXCEPT ![sources.array] =
                [j \in DOMAIN @ |-> IF i <= j /\ j < sources.len
                                    THEN @[j + 1] ELSE @[j]]]
    /\ sources' = [sources EXCEPT !.len = @ - 1]
    /\ Moved(m, "leaves")
    /\ UNCHANGED <<exclusions, connecting>>

ExcludeFromNotifications(m) ==
    /\ m \in Excludable \ Range(exclusions) /\ LockFree
    /\ exclusions' = Append(exclusions, m)
    /\ Moved(m, "excluded")
    /\ UNCHANGED <<arrays, sources, connecting>>

IncludeInNotifications(m) ==
    /\ m \in Excludable \cap Range(exclusions) /\ LockFree
    /\ exclusions' = RemoveFirst(exclusions, m)
    /\ Moved(m, "included")
    /\ UNCHANGED <<arrays, sources, connecting>>

-----------------------------------------------------------------------------
\* the arguments of append in the call of Notify
ReadLists(q) ==
    /\ request[q].state = "idle" /\ request[q].kind # "status"
    /\ request' = [request EXCEPT
          ![q].state = "read",
          ![q].base = sources,
          ![q].own = exclusions,
          ![q].members = Range(Connected),
          ![q].others = {m \in KnownModules : ~Listed(m)}]
    /\ UNCHANGED <<arrays, sources, exclusions, connecting>>

(***************************************************************************)
(* append returns, and Notify sends the message with the list: a slice of  *)
(* the array of the sources when the exclusions fit behind them, and a     *)
(* list of its own (array 1, own) when they do not.                        *)
(***************************************************************************)
SendNotification(q) ==
    LET base == request[q].base  names == request[q].own
    IN  /\ request[q].state = "read"
        /\ IF Fits(base, names)
           THEN /\ arrays' = [arrays EXCEPT ![base.array] = Written(base, names)]
                /\ request' = [request EXCEPT
                      ![q].state = "notified",
                      ![q].list = [base EXCEPT !.len = @ + Len(names)],
                      ![q].own = <<>>]
           ELSE /\ request' = [request EXCEPT
                      ![q].state = "notified",
                      ![q].own = Elements(arrays, base) \o names]
                /\ UNCHANGED arrays
        /\ UNCHANGED <<sources, exclusions, connecting>>

NotifyExclusion(q) == Elements(arrays, request[q].list) \o request[q].own

\* RelayComms looks up the list, at some later time, and tells the others
TellOthers(q) ==
    /\ request[q].state \notin {"idle", "read"} /\ ~request[q].heard
    /\ request[q].kind # "status"
    /\ request' = [request EXCEPT
          ![q].heard = TRUE,
          ![q].told = KnownModules \ Range(NotifyExclusion(q))]
    /\ UNCHANGED <<arrays, sources, exclusions, connecting>>

\* slip: the channel is made without a buffer
MakeUnbuffered(q) ==
    /\ request[q].kind = "getHeader" /\ request[q].state = "notified"
    /\ request' = [request EXCEPT ![q].state = "made"]
    /\ UNCHANGED <<arrays, sources, exclusions, connecting>>

MakeChannel(q) ==
    /\ request[q].kind = "getHeader" /\ request[q].state = "notified"
    /\ request' = [request EXCEPT ![q].state = "made",
                                  ![q].capacity = sources.len]
    /\ UNCHANGED <<arrays, sources, exclusions, connecting>>

\* range: the slice is looked up once
StartLoop(q) ==
    /\ request[q].state = CASE request[q].kind = "getHeader" -> "made"
                            [] request[q].kind = "registerValidator" -> "notified"
                            [] request[q].kind = "status" -> "idle"
    /\ request' = [request EXCEPT ![q].state = "asking", ![q].loop = sources]
    /\ UNCHANGED <<arrays, sources, exclusions, connecting>>

\* slip: every goroutine has the module of the last iteration
AskLast(q) ==
    LET loop == request[q].loop
    IN  /\ request[q].state = "asking" /\ Len(request[q].asked) < loop.len
        /\ request' = [request EXCEPT ![q].asked = Append(@,
              [name |-> arrays[loop.array][loop.len], state |-> "called",
               yes |-> FALSE, read |-> 0])]
        /\ UNCHANGED <<arrays, sources, exclusions, connecting>>

\* one iteration: the element is read now, and its module called
AskNext(q) ==
    LET loop == request[q].loop  i == Len(request[q].asked) + 1
    IN  /\ request[q].state = "asking" /\ i <= loop.len
        /\ request' = [request EXCEPT ![q].asked = Append(@,
              [name |-> arrays[loop.array][i], state |-> "called",
               yes |-> FALSE, read |-> 0])]
        /\ UNCHANGED <<arrays, sources, exclusions, connecting>>

\* the call of a source ends with an error, or without a header
SourceRefuses(q, i) ==
    /\ i \in DOMAIN request[q].asked /\ request[q].asked[i].state = "called"
    /\ request' = [request EXCEPT ![q].asked[i].state = "done"]
    /\ UNCHANGED <<arrays, sources, exclusions, connecting>>

\* it succeeds; read is the length of successfulRegistrations that the append
\* of line 84 starts from
SourceAccepts(q, i) ==
    /\ i \in DOMAIN request[q].asked /\ request[q].asked[i].state = "called"
    /\ request' = [request EXCEPT ![q].asked[i].state = "accepted",
                                  ![q].asked[i].yes = TRUE,
                                  ![q].asked[i].read = request[q].ok]
    /\ UNCHANGED <<arrays, sources, exclusions, connecting>>

(***************************************************************************)
(* The goroutine records the success: Status under a lock, getHeader in a  *)
(* channel with a bounded buffer, registerValidator by an append that      *)
(* others may have overtaken since it read the length.                     *)
(***************************************************************************)
RecordSuccess(q, i) ==
    /\ i \in DOMAIN request[q].asked /\ request[q].asked[i].state = "accepted"
    /\ request[q].kind = "getHeader" => request[q].ok < request[q].capacity
    /\ request' = [request EXCEPT
          ![q].asked[i].state = "done",
          ![q].ok = IF request[q].kind = "registerValidator"
                    THEN request[q].asked[i].read + 1 ELSE @ + 1]
    /\ UNCHANGED <<arrays, sources, exclusions, connecting>>

\* slip: nobody waits for the goroutines
NotAwaited(q) ==
    /\ request[q].state = "asking"
    /\ Len(request[q].asked) = request[q].loop.len

\* wg.Wait
AllDone(q) ==
    /\ request[q].state = "asking"
    /\ Len(request[q].asked) = request[q].loop.len
    /\ \A i \in DOMAIN request[q].asked : request[q].asked[i].state = "done"

\* is the result no error?  A getHeader goes on, see BlockAggregator.
Succeeds(q) ==
    CASE request[q].kind = "status" -> sources.len = 0 \/ request[q].ok > 0
      [] request[q].kind = "registerValidator" -> request[q].ok > 0
      [] request[q].kind = "getHeader" -> TRUE

Return(q) ==
    /\ AllDone(q)
    /\ request' = [request EXCEPT ![q].state =
                      IF Succeeds(q) THEN "done" ELSE "failed"]
    /\ UNCHANGED <<arrays, sources, exclusions, connecting>>

-----------------------------------------------------------------------------
ListStep ==
    \/ \E c \in Connects : Connect(c) \/ NameRefused(c) \/ NameAnswered(c)
    \/ \E m \in Leaving : DisconnectBlockSource(m)
    \/ \E m \in Excludable :
          ExcludeFromNotifications(m) \/ IncludeInNotifications(m)

Step(q) ==
    \/ ReadLists(q) \/ SendNotification(q) \/ TellOthers(q) \/ MakeChannel(q)
    \/ StartLoop(q) \/ AskNext(q) \/ Return(q)
    \/ \E i \in DOMAIN request[q].asked :
          SourceRefuses(q, i) \/ SourceAccepts(q, i) \/ RecordSuccess(q, i)

ListsNext == ListStep \/ \E q \in Requests : Step(q)

ListsSpec == ListsInit /\ [][ListsNext]_vars

\* history: the goroutines whose source accepted
Accepting(q) == {i \in DOMAIN request[q].asked : request[q].asked[i].yes}

(***************************************************************************)
(* The Go runtime runs every goroutine that can go on, starvation mode     *)
(* gives everyone the lock in the end, and sources answer.                 *)
(***************************************************************************)
FairListsSpec ==
    /\ ListsSpec
    /\ \A c \in Connects :
        /\ SF_vars(Connect(c))
        /\ WF_vars(NameRefused(c) \/ NameAnswered(c))
    /\ \A q \in Requests :
        /\ WF_vars(SendNotification(q)) /\ WF_vars(MakeChannel(q))
        /\ WF_vars(StartLoop(q) /\ request[q].state # "idle")
        /\ WF_vars(AskNext(q)) /\ WF_vars(Return(q))
        /\ \A i \in 1..Cardinality(Sources) :
            /\ WF_vars(SourceRefuses(q, i) \/ SourceAccepts(q, i))
            /\ WF_vars(RecordSuccess(q, i))

-----------------------------------------------------------------------------
(***************************************************************************)
(* The list of sources changes by the calls that are to change it, one     *)
(* element at a time, and by nothing else (service.go:102-204): no append  *)
(* of a reader (backend.go:71, 115) ends up in it, none of a connect is    *)
(* overwritten.  It is proved in SourceListsProofs, and only for the       *)
(* behaviours where the exclusions do not fit behind the sources in their  *)
(* array, as always with two sources of which one stays: where they fit,   *)
(* it fails.                                                               *)
(***************************************************************************)
RefinesLists == Lists!ListSpec

(***************************************************************************)
(* A registerValidator or getHeader reaches every module in one way: those *)
(* that are sources all the while are called once and not notified, those  *)
(* that are neither source nor excluded are notified and not called,       *)
(* whoever else connects or is excluded between the two readings of the    *)
(* list (backend.go:70-91, 114-153).  A disconnect moves other sources in  *)
(* the array the loop reads: then it does not hold.                        *)
(***************************************************************************)
ToldOnce ==
    \A q \in Requests :
        LET r == request[q]
            calls(m) == Cardinality({i \in DOMAIN r.asked : r.asked[i].name = m})
        IN  /\ request[q].kind # "status" /\ r.state \in {"done", "failed"}
            /\ r.heard /\ ~r.shifted
            => /\ \A m \in r.members : calls(m) = 1 /\ m \notin r.told
               /\ \A m \in r.others : calls(m) = 0 /\ m \in r.told

(***************************************************************************)
(* registerValidator succeeds if and only if some source accepted, even    *)
(* when goroutines overwrite each other's append (backend.go:84, 95); and  *)
(* Status fails only when no source it asked is up, and succeeds only when *)
(* one is or there is none - provided that nobody has disconnected         *)
(* meanwhile, as the list is looked at again in the end (backend.go:43-58).*)
(***************************************************************************)
OutcomeTruth ==
    \A q \in Requests :
        LET r == request[q]
        IN  /\ r.kind \in {"registerValidator", "status"} /\ r.state = "failed" =>
                  Accepting(q) = {}
            /\ r.kind = "registerValidator" /\ r.state = "done" =>
                  Accepting(q) # {}
            /\ r.kind = "status" /\ r.state = "done" /\ ~r.shifted =>
                  Accepting(q) # {} \/ r.asked = <<>>

(***************************************************************************)
(* Every request returns, whoever connects meanwhile, when sources answer  *)
(* with one header each - but for a getHeader that a source has joined     *)
(* between the making of its channel and the loop (backend.go:122-156).    *)
(***************************************************************************)
RequestsReturn ==
    \A q \in Requests :
        request[q].state # "idle" ~>
            \/ request[q].state \in {"done", "failed"}
            \/ request[q].joined /\ request[q].loop.len > request[q].capacity
=============================================================================
