# MEV Plus: a TLA+ development

MEV Plus is a modular proxy between a validator's beacon node and the block
builders and relays it takes blocks from.  This directory models its core - the
message bus that connects the modules - and the modules that decide which block
a proposer is offered.  The repository at this commit is the reference; every
definition that models code is listed with its source lines in `PROJECT.json`.

## 1. The system

One process.  `cmd/core` parses flags, creates a `CoreService`, starts it and
waits.  The core owns a registry of *modules*; every module has a *client*, and
clients talk JSON-RPC messages to each other over Go channels that the core's
relay goroutines connect.  The usual traffic is

    beacon node --HTTP--> builderApi --> blockAggregator --> relay --HTTP--> relays
                                                        \--> externalValidatorProxy --HTTP--> other boosts

| component | state | operations | hard behaviour |
|---|---|---|---|
| **client** (`core/common/coreClient*.go`, `handler.go`) | pending calls `respWait`, send lock, channels `Incoming`, `Outgoing`, `close`, `closed`, the wait group of serving goroutines | `Call`, `CallContext`, `Notify`, `Close`; loops `dispatch` and `read` | five kinds of goroutine meet on six channels; cancelled contexts race answers; `Close` races everything |
| **message bus** (`core/core.go` `RelayComms`, `core/common/jsonRPC.go`) | the clients' channels, one relay goroutine per module | route by namespace or origin, stamp the origin, copy `notifyAll` messages, refuse unknown targets | nested calls on bounded channels, ids that coincide between clients, messages to oneself |
| **core life cycle** (`core/core.go`, `core/common/module.go`, `cmd/core`) | `state`, `stop`, the registry's `ServiceAlive` flags | `Configure`, `Start`, `Close`, `Wait`, starting and stopping services with a timeout | a module that fails or is late to start, one that fails to stop, `Close` from a signal handler and from `defer` |
| **block aggregator** (`modules/block-aggregator`) | connected sources, exclusions, the header store (`data/data.go`) | connect/disconnect, register validators, get header, get payload, status | fan-out to all sources, a bounded result channel, several validators asking at once |
| **relay module** (`modules/relay`) | configured relays per proposer, `bids` | register, get header, get payload, check relays | fan-out over HTTP under a mutex, the best bid whatever the order of arrival, cancellation once a payload is found |
| **external validator proxy** (`modules/external-validator-proxy`) | the proxy addresses | status, register, get header, get payload | two channels per request, read in pairs |
| **builder API** (`modules/builder-api`) | the HTTP server `srv` | Configure, Start, Stop; status, register, header, payload | a goroutine that listens while the module is stopped; requests become calls of the aggregator |
| **module management** (`core/additionalFeatures`) | `moduleList.go` and its backup on disk | install, update, remove, list | a failure between two steps of rewriting a source file |
| **configuration** (`core/config`, `*/config`, `cmd`) | flags | parse and hand to `Configure` | flags of a module come as a Go map, in any order |

The properties that make each of them correct, in a line each:

* client: a call gets its own answer or an error, and keeps nothing behind;
  requests are answered; shutting down hurts no request that is being served.
* message bus: a call is served once, by its target, and answered once, by it;
  what it carries along for third modules changes nothing of that.
* configuration: what the flags mean does not depend on the order of a map.
* core life cycle: `running` means that all modules are up, the end of the
  process that none is, and the end comes when it is asked for.
* builder API, relay and proxy: started, they are connected to the aggregator
  as they are configured, and stopped, they do not listen.
* block aggregator: no source is listed or asked twice, and every other module
  is told of a request once, whoever connects meanwhile.
* header store, block aggregator, relay module: the best bid wins whatever the
  order of events, and stays payable, by those who made it, for two epochs.
* proxy: what the proxies deliver is passed on, what they fail to deliver is
  not, and no goroutine is left behind.
* module management: the program on disk stays whole, a command is done or
  undone, and a package is accepted only if it has a service in it.

## 2. The modules

    AggregatorData  <---+                    CoreLifecycle <---+
                        +--- BlockAggregator                   |
    BlockSources    <---+                    RelayFlags    <---+--- Startup
         ^                                                     |
         :.. refined by .. SourceLists       BlockSources  <---+

    Rpc  <.. refined by .. CoreRelay         InterfaceChecker <--- ModuleList

    MevClient     RelayBids     ValidatorProxy

An arrow is EXTENDS: `Startup` is the composition of the life cycle, the parser of
flags and the lists of the aggregator, `BlockAggregator` that of the lists and the
header store.  The proofs about `M` are in `MProofs`: `SourceListsProofs`,
`BlockAggregatorProofs` (with those about the abstract lists and the header store),
`RelayBidsProofs`, `StartupProofs` (with those about the life cycle and the flags),
`MevClientProofs`, `ModuleListProofs`, `ValidatorProxyProofs` and `CoreRelayProofs`.

A module `MCx` gives the constants of `x` small values; `MCx*.cfg` are the
instances.  Definitions whose comment begins with "slip" are the source with one
plausible mistake; `PROJECT.json` says which property notices which of them.
They are not part of any specification.

### AggregatorData (`modules/block-aggregator/data/data.go`)

`lastSlot` and `selectedSlotHeaders` are the fields of the Go struct; `added` is a
history variable.  Every method holds the mutex from its first line to its last,
so `AddSlotHeader` is one action and the two getters are state functions.
`Minus` is the subtraction of `uint64`, modulo the constant `Modulus`.  The Go
map is a function on its key set; `GetSlotHeaderByHash` ranges over the map in
random order, so its result is a set of candidates.

### BlockSources and SourceLists (`modules/block-aggregator/service.go`, `backend.go`)

`BlockSources` is the abstract specification of the two lists the aggregator
keeps: a sequence and a set.  The writers take `b.lock`, which is held exactly
while some `connecting[c] = "calling"`, that is across the call of the `name`
method.  A call to another module is two steps - the promise of `Rpc`; for a name that no
module has, `newMessage` refuses it at once, and the source is not listed.

`SourceLists` has the lists as the Go slices they are: `arrays` are the backing
arrays, `sources` says which of them is in use and how much of it, `append`
(`Fits`, `Written`, `Copied`, `Grown`) writes in place when there is room.  A
request is a registerValidator, a getHeader or a Status, which read the lists
without the lock.  `ReadLists` and `SendNotification` are the two halves of
`Notify(..., append(sources, exclusions...))`: the operands, then the append, whose
result may be a part of the shared array.  `TellOthers` is RelayComms looking that
list up later.  `MakeChannel` is getHeader's channel, with the capacity of the
moment; `StartLoop` and `AskNext` are the range loop, which fixes the slice but
reads each element when it comes to it; `SourceAccepts`, `SourceRefuses` and
`RecordSuccess` are the goroutine of a source, with the unsynchronised append of
line 84; `Return` is `wg.Wait` and the verdict.  `members`, `others`, `shifted`,
`joined` and `yes` are history.

### BlockAggregator (`modules/block-aggregator/backend.go`)

The getHeader and getPayload of the aggregator over the abstract lists and the
header store, whose `AddSlotHeader` is a conjunct of `ProcessNewBid`.  `GetHeader`
makes the channel, `AskSources` starts one goroutine per source of a later moment,
`SourceAnswers`/`SendResult` are the two halves of such a goroutine, `AllSent` is
`wg.Wait`, `ProcessNewBid` and `HeaderSelected` the rest of the function.  A bid
whose value or hash cannot be read is `Unreadable`: processNewBid fails with it,
and with it the request, whatever else is in the channel.

### RelayBids (`modules/relay/internal.go`, `outgoing_calls.go`)

`bids` is `r.bids`, keyed by slot and block hash.  Each getHeader has its set of
goroutines that have not answered (`waiting`), the relays per block hash
(`offered`), and the best bid; `RequestRelayHeader` is the critical section under
`mu` together with the checks in front of it.  `pay` is one getPayload: a
goroutine calls, tries again up to `MaxRetries` times, gives up, or has a payload
in its hands and merges it; or it panics (`PayloadPanics`) over a payload with
more commitments than the block, which nobody recovers, so that the process ends
(`pay.state = "crashed"`).  `RefuseHeader` and `RefusePayload` are the early
returns.  `SigningDomain` is the zero domain, see section 6.

### ValidatorProxy (`modules/external-validator-proxy/apis.go`)

`poll` is a Status or a RegisterValidator - one error channel, first success wins -
and `fetch` a GetHeader or a GetPayload - an error channel and an answer channel
that are read in pairs.  The order in which a goroutine sends on the two depends
on whether it failed, as in the code.  `CheckPanics` is the same index out of range
as in the relay module (`Overruns`); here callback.call recovers it and answers
with an error, so that the answers kept so far are lost, while the goroutines of
the request go on.

### CoreRelay and Rpc (`core/core.go` RelayComms, `core/common/jsonRPC.go`)

One relay goroutine per module takes a message (`RelayTake`), which fixes the
deliveries it will make, then makes them one by one, blocking on full channels
(`RelayDeliver`, then `RelayNotify` for the copies of notifyAll, in any order).
The clients are reduced to `Issue`, `Refuse`, `Receive`, `Serve`: newMessage lets a
method pass that is among the client's known callbacks, or any `core_` method with
notifyAll (`Sendable`), and `Refuse` is its error for the others, with which the
call has ended before anything is sent.  `Job` is the workload:
which module calls or notifies which, and in the course of serving what.  `Rpc`
is the abstract specification: a call goes through idle, requested, served,
answered and never back; `RefinesRpc` is the refinement for all calls between
two modules, `Abstract` the mapping.

### MevClient (`core/common/coreClient.go`, `coreClientCall.go`, `handler.go`)

The inside of one client.  `pc[c]` is the place of a goroutine in `CallContext`,
`send`, `write`, `wait`, in front of which newMessage may fail
(`NewMessageFails`); `lastOp`, `sending` (`reqInitLock == nil`) and `respWait`
belong to `dispatch`; `reader` and `readMsg` to `read`; `tasks` are the goroutines
`callWG` counts; `closer[k]` is the place of a goroutine in `Close`.  Unbuffered
sends are joint steps with their receive; `ReceiveClose` is the receive from
`close`, which four places of the code compete for. `PeerTakes`, `PeerAnswers` and
`PeerSends` are the relays of `core.go` at the other end of the two channels: what
they may do here is what `CoreRelay` shows them to do - and more, as answers come
in any order.  `Panic` is a send on a closed channel, by a closer, a caller, a
serving goroutine or a relay that has a message for the client (`panicked` says
who); the client closes both its channels, and nothing keeps a relay from sending
to the closed one.

### CoreLifecycle (`core/core.go`, `core/common/module.go`, `cmd/core/coreCli.go`)

`main` is the main goroutine from `Configure` to its return, `service[m]` the
service of a module, `closing[c]` the `Close` of the deferred call in main and of
the signal handler.  A Close that dispatch does not hear of is `"unheard"`.
`startStopLock` is who holds that mutex.  The modules come in any order, as the
registry is a Go map.  `fate` is the end of the process.

### RelayFlags (`modules/relay/utils.go`, `relay.go`)

`left` are the flags that the loop over the map has not met; `ParseFlag` and
`RefuseFlag` are one iteration, with the checks that look at what has been met so
far; `ParseEnd` is what follows the loop, with the rest of `Configure`.  A flag
stands for its value, `unreadable` are those whose value does not parse.
`Compatible` says which sets of flags are acceptable, without an order.

### Startup (`modules/builder-api/server.go`, `relay.go`, `external-validator-proxy/service.go`)

The process with this program's modules in it.  Every action of the life cycle
that runs a method of a module is joined with what that method does: `Configure`
and `ConfigureRelay` with `ConfigureModule`, `StartApi`, `StartRelay` and `StartProxy`
with `ServiceStart`, `StopApi` with `StopModule`.  `Serve` is the goroutine that
`StartApi` leaves behind.  What the relay and the proxy tell the aggregator
(`notices`) is served while the core relays, in any order.  Flags, addresses and
the listen address come from `Configurations`.  `crashed` is a nil pointer that is
followed outside of a callback.

### InterfaceChecker and ModuleList (`core/additionalFeatures/moduleManagement`)

`InterfaceChecker` has no state: `Verdict` is the answer of the code for the files
of a package, by prefixes, last parts of import paths and a count of methods.
What the loops of the code look for is written as a set of places in a file
(`Matching`, `MatchingOf`, `Decisive`), and `First` is the one they meet first.
A type has a name, a prefix and a *shape* - pointer, slice, channel and so on, or
`"nameless"` when there is no name in it - of which the code sees the first two and
panics at the last (`SameType`, `PanicsAt`); `joined` is a value that shares the
field of the one in front of it, as in `(a, b error)`, where the code counts fields
(`Fields`, `Place`) and Go values.  `Implements` is what Go means by implementing
the interface, shapes and values included, `Compiles` what a compiler guarantees
of the names in a file; `Misleading` (imports), `Overlooked` (shapes, fields) and
`Plainly` say where the code and Go differ.

In `ModuleList`, `list` is moduleList.go (imports in file order with aliases,
constructor calls), `backup` its backup, `goMod` the required versions, `package` the
files that have been downloaded, out of those a version may have (`Contents`).  A
command is a sequence of steps; every write and every run of the go tool may
fail, and `Killed` may follow each of them, with the file that was being written
torn.  `NewAlias` and `ServiceNumber` are the two loops that look for a free name,
each once over what is there.  `SortedImports` is what formatting does, described by
its result: the same imports in the order of their paths.

## 3. The runs

| run | instance | what it shows |
|---|---|---|
| `store` | 16 headers in 4 slots, four bids a slot with a tie; `Horizon` 2, `Modulus` 16 | the store keeps the best three of the last two epochs, in order, and its selection only improves |
| `aggregator` | 2 sources that may connect, leave, be excluded at any time; 2 getHeader two epochs apart; a getPayload | the result is the best header, an error has a reason (none, an unreadable one, a later slot), a returned header stays, the payload is asked of a bidder, no source is listed twice |
| `source_lists` | 3 connects of 2 sources, one of which may leave, a module that may be excluded, one request of any of the three kinds; fair | everybody is asked or told once, results are true, requests return |
| `aggregator_two` | one source that answers with two headers, fair | getHeader does **not** return (section 6) |
| `bids` | 2 relays, 6 bids (ties, too small, foreign parent or key), 2 getHeader two epochs apart, a getPayload with 2 attempts | the returned bid does not depend on the order of answers, stays for two epochs, its payload comes from a relay that bid and is not lost, unless the process crashes over another |
| `proxy` | 2 addresses, 6 kinds of answer, fair | answers are passed on if they are good, and none is lost unless an address fails or sends too many commitments; everything ends |
| `bus` | 4 modules, channels of one message, a call that makes a nested call with notifyAll and a notification to nobody, a call that newMessage refuses, a call in the other direction; the core may stop; fair | served once by the right modules, answered by the target, in one place at a time, implements `Rpc`, returns |
| `bus_ping` | a call of `core_ping`, which every client knows, next to another call; fair | it does **not** return (section 6) |
| `client` | 2 calls (one may be cancelled or refused), a request and a notification to serve, 2 goroutines that close, channels of one message | registration of pending calls is exact, own answers, servers never meet a closed channel, nor does a first Close |
| `client_live` | a nested call, a notification, a call that is never answered but may be cancelled, the nested one may be refused; fair | all return, the request is answered |
| `lifecycle` | the builder API, the relay, the proxy; every set of relay flags with two networks and a further flag, 9 more configurations; Starts that fail, a slow one, a Stop that may fail, an interrupt; fair | the order of flags does not matter, modules are connected as configured, `running` and `closed` mean what they say, nobody is left running, the server is closed, nothing is closed twice, an interrupt ends the process unless a Stop fails or a Close is not heard |
| `modules` | the shipped module and two forks with its package name, 2 versions each, a broken one; files with every order of up to three out of six functions, types in other shapes or without a name, two results in one field, imports with and without alias, several files | a whole list survives everything, success is complete, failures are undone, only a package with a service is accepted, or one that looks like it by the names of its types |

The largest are `aggregator` with 3.5 million distinct states, `client` with 2.4,
`modules` with 1.1 million, `bids` with 415 and `lifecycle` with 354 thousand.

### Bounds

* `Horizon` stands for the 64 slots of history and `Modulus` for 2^64.  The code
  uses them in one subtraction and one comparison; slots below, at and above the
  horizon occur, and 2 and 16 keep their relation (horizon and slots small
  against the width).  The theorems hold for all values of both.
* `Capacity` stands for `defaultCommsChanBufferSize`.  One is the smallest
  capacity the channels can have and the one under which most sends block.
* Two relays, sources or addresses: each request treats them alike and combines
  their answers pairwise.  Two is also the most addresses the proxy accepts.
  Ties need two, and displacing a header from the best three is covered by
  `store`, where four bids come for a slot.
* Two requests at a time: the shared state (store, bids, lists) is reached in
  steps that each belong to one request.
* Five jobs on four modules put every kind of message on the bus: call,
  notification, nested call, notifyAll with and without a target, a bystander,
  calls in opposite directions that meet on channels of capacity one, ids that
  coincide; the fifth is refused.
* `Interrupts` is 1 instead of 10 in `lifecycle`, where the first calls `Close` next to
  the deferred one; the code only counts the others.
* One plain flag in `lifecycle` stands for all that set a field of their own; two
  networks are enough for them to exclude each other.  The nine configurations
  have every way in which addresses are refused or crash.  A Stop of the API may
  fail, the others return nil.
* Two methods stand for the six of the service interface in `modules`: one with and
  one without an imported type, one with and one without a pointer, which is what
  the comparison tells apart and what it does not.
* `source_lists` has one request, two sources of which one may leave, and at most
  three exclusions: with these a reader never finds room behind the sources
  (`TwoAreSafe`), and that the slices implement the lists is therefore proved and
  no property of the run.  Section 6 says what happens with more.
* `MaxRetries` is 2: a first, a repeated and no further attempt.
* No run needs symmetry; none has a state constraint.  Unbounded counters
  (ids) are bounded by the number of calls an instance makes.

`CHECK_DEADLOCK FALSE` stands where a workload is finite and the system rests
when it is done.

### Fairness

Weak fairness of an action is what the Go scheduler gives a goroutine that can go
on.  `SF_vars(Connect(c))` in `SourceLists` is the starvation mode of
`sync.Mutex`.  HTTP requests end, by the time-out of `http.Client`, which is the
fairness of `SourceAnswers`, `PollAnswered` and `FetchAnswered`.  A select in Go
picks at random among the cases that are ready: no case of a select in `MevClient`
is promised to be taken while another is ready, the fairness conjuncts are of the
individual cases, each of which stays enabled as long as the goroutine is in the
select and nothing else happened to it.  Nothing is fair that a user or another
program does: contexts that end, requests that arrive, signals, connects, `Close`,
and slow starts (`StartTimeout`).  In `Startup` nothing is fair of `Serve` either,
as no property waits for it.

## 4. What is proved

Every theorem below is about all values of the constants that satisfy the named
assumptions, and its proof is checked to the last leaf.  TLC has checked the
inductive invariants on the instances of section 3 before they were proved.
Each proof has a lemma for each action, or for a few that do much the same.

### The header store and the aggregator (`BlockAggregatorProofs`)

From `WidthAssumption` (the horizon is smaller than the width) and
`HeaderAssumption` (slots fit the width, values are naturals), for every set of
headers, horizon and width:

* `StoreTypeCorrect`: a slot in the map has one to three headers, sorted - element
  0, which `GetSelectedSlotHeaders` reads unchecked, exists;
* `BestHeadersKept`: `BestThreeKept`;
* `SelectionImproves`: `SelectionOnlyImproves`.

The argument: `PositionExists` - a sorted list of at most three values has a place
for a new one - makes the CHOOSE in `Position` meaningful; `RankedProperties` says
what append, sort and truncate make of a sorted list; the inductive invariant
`StoreInv` adds to the two state properties `NoneAhead`, that no accepted header is
of a slot later than `lastSlot`.  The step of `BestThreeKept` needs the sorted
lists of `StoreTypeOK`, or the truncation could drop the wrong header, and
`NoneAhead`, which rules out that a clean-up whose subtraction wraps around hits a
header it must keep.  `StoreStepType`, `StoreStepBest` and `StoreStepSelection` are
the three parts of the step.

On top of that, from `AggregatorAssumption` (of the requests, sources and answers),
for any number of concurrent requests: `BestResult`, `NoNeedlessFailure`,
`ReturnedStays`, `PayloadsFromBidders`, `NoSourceTwice`, the five properties of the
run, and `AggregatorComposes`: the aggregator implements `StoreSpec` and `ListSpec`.
The inductive invariant `AggregatorInv` has `StoreInv`, `ListInv` of the lists,
`AddedWasGot` (the store has nothing but what a source delivered),
`SelectionIsBest` (the selected header of a slot is worth as much as any accepted
one, which `SelectionOnlyImproves` does not say), and of each request where its
headers are: `AtWork` says which goroutines can still send, `NoneLost` that what was
got is with a goroutine, in the channel or in the store until the request fails,
`ResultBest` and `FailureDue` that the result is due to what was got, a failure to
an unreadable header in it, to none, or to a later slot.  The result is
looked up by slot in a store that other requests write to, so none of the parts
about one request is inductive without those about the store.

`NoneTwice`, that is `SourcesDistinct` of the abstract lists, holds for every set of
modules and any calls: the invariant adds that at most one connect is in its call,
and that what it is to append is not in the list.

### The lists of the aggregator as slices (`SourceListsProofs`)

For any sources, connects, disconnects, exclusions and requests:

* `OutcomesTrue`, that is `OutcomeTruth`, whatever readers write into the arrays.
  `OutcomeInv` relates the counter of a request to its goroutines (`Counted`): the
  append of line 84 may lose successes of others, but what it writes is never
  empty, so that one success is enough.  `StatusAsks` says that the list which
  Status looks at in the end is no shorter than the one it asked.
* `SlicesAreLists` (`RefinesLists`: the slices implement `ListSpec`) and
  `EveryoneOnce` (`ToldOnce`), from the hypothesis `ReadersCopy`: when a reader
  appends the exclusions to the sources, the array has no room for them, so that
  append copies.  Without it both are false, and TLC finds the behaviour (section
  6, `backend.go:71`).  `OnceInv` follows a request from the operands it has read to
  the end of its loop: `Told`, what the list given to Notify has of the modules
  that stay in or out of the lists; `Asked`, that the elements that the loop has
  read, and those which it will find in the array, are different, with all of the
  first and none of the second; and `Behind`, that the loop has no element where the
  next connect will write.
* `FourAreSafe`: both without the hypothesis, while at most four modules connect,
  none disconnects, and the API and the aggregator stay excluded (`FourStay`) - the
  modules of this program are fewer.
* `TwoAreSafe`: the same with two sources of which one may disconnect and connect
  again, as in the run (`TwoConnect`).

* `RoomForHeaders`: whoever connects or leaves, a goroutine of a getHeader that has
  a header finds room for it in the channel, when every source sends one - but in a
  request between whose making of the channel and loop a source has joined.  This is
  what `RequestsReturn` depends on for getHeader.  `RoomInv` counts the headers in
  the channel as goroutines that are done (`Recorded`), and has the length of the
  list at most the capacity until the loop starts, and that of the loop after it.

`FourAreSafe` and `TwoAreSafe` rest on `CopyInv`: two modules are excluded, and
the array of the sources never has room for two more (`Tight`), nor has the one
that a request has read. `FourInv` has the capacities that append gives a list
that grows by one, 0, 1, 2, 4 and 4, of which none leaves room for two.  `TwoInv`
is about a list that also shrinks: an array for two is made only when both are in
the list, and the one that stays keeps its place.  The conditions are tight: TLC
finds a reader that does not copy with two sources that may both leave, and with
three of which one may (section 6).

### The relay's bids (`RelayBidsProofs`)

From `OfferAssumption` (values and hashes are naturals, slots fit the width, the
horizon is smaller than the width), for every set of relays, requests and bids,
and any number of attempts: `BestBidReturned`, `ReturnedBidsKept`,
`PayloadsFromDeliverers` and `PayloadsNotLost`, the four properties of the run
that are not types.  The inductive invariant `RelayInv` has three parts that build
on each other:

* `HeaderInv`: `IsBest` holds of every request at any time, not only at its end,
  because a relay that has not answered counts for nothing (`NotAsked`); and who is
  in `relaysMap` made an acceptable bid (`OfferedAccepted`);
* `BidsDelivered` and `BidsKept`: what is in `bids` came from a finished request of
  that slot and hash, and the clean-up takes nothing a payment may need;
* `PayInv`: the result came from the relays of the entry of `bids`; that the work
  has been cancelled means that there is a result; a valid payload that has no
  result yet is in the hands of a goroutine that will merge it, unless the process
  has crashed; and who crashed it is a relay of the entry, so one that delivered
  the bid (`Delivered`).

### The client (`MevClientProofs`)

From `ClientAssumption`, for any callers, requests to serve, closers and capacity
of the channels: `OneSenderAtATime`, `RegistrationsExact`, `AnswersOwn` and
`ServersNeverPanic`.  They are kept together, because of who owns an id: ids of
different calls differ (`IdsOwn`), and whatever carries one - a message in a
channel, on the way, or in the hands of `read` (`MessagesOwn`), an entry of
`respWait` (`RegistrationsOwn`) - belongs to the call that has it, which dispatch
has accepted.  So an answer that comes late, twice or after an error finds its own
call or none.  That dispatch removes the right entry when a write fails is
`FailedReturned`, and needs `OneSender`: `lastOp` is still the caller that failed.
`CloserFirst` says that dispatch leaves its loop only for a closer.  `ServersNeverPanic`
says who may send on a closed channel: no goroutine that serves, and a closer only
behind another.  It does not say so of callers and of the core's relays, which may.

### The message bus (`CoreRelayProofs`)

From `JobAssumption` (what a workload is) and the hypothesis `NobodyCallsItself`,
for any modules, workload and capacity of the channels: `ServedByTheRight`,
`CallsAreSomewhere`, and `BusImplementsRpc` - `RefinesRpc`, for every pair of
modules.  The hypothesis excludes what the code gets wrong (section 6: a message
to oneself is delivered twice), and TLC shows it to hold in the run.  Calls are
those that are sent: what newMessage refuses is served by nobody (`Recipients`).

`BusInv` says what each message on its way is.  There are five kinds: a request as
its sender made it, its copies for notifyAll, the response of the module it names,
the error for an unknown module and the answer of a client to that error; and
`MessagesSound` says which of them may be in which channel, relay goroutine and
server, whose id it carries, and which origin and target.  `AskedOnce` has a
request that was not served yet in one place for each module that is to serve it,
and in none once that module has begun; `RegisteredSound` and `AnsweredSound` are
about pending and ended calls.  `PlaceInv` counts messages: a call that is issued
and not answered is somewhere (`Somewhere`), never twice (`NotInTwo`), with an id
that is registered (`IdKept`).  For the refinement `Phase` is the mapping, and
`Progress` says that a step of the bus moves one call by one phase, or none.

### The external validator proxy (`ValidatorProxyProofs`)

From `AddressesFinite` and `ReplyAssumption`, for any number of addresses:
`OutcomeOfPoll` and `GoodReturned`.  `PollInv` and `FetchInv` count: what was
received and what is in a channel are as many as the addresses that have sent, so
that the loop, which receives as often as there are addresses, has heard all of
them at the end.  `AnswersOwn` and `GoodKept` say whose the answers in the channel
and the result are, and that none is dropped unless a request failed or the loop
panicked; the latter is due to an `"overlong"` payload, and leaves no result.

`NobodyStuck`: where there are addresses - a proxy without any does not start - no
goroutine ever waits for room in a channel, also after the loop has gone, and no
loop for a message that nobody is to send.  `LoopInv` counts the errors as well
(`ErrorSent`), and says that a loop that goes on has not received from all.

### Module management (`ModuleListProofs`)

From `ModuleListAssumption` (the shipped module is a package, there is a version,
paths have an order, and files are files): `WholeCopyAlways`, `FailuresUndone` and
`SuccessesComplete`, for any packages, versions, files and commands, with failures
and kills anywhere; and, with `MethodsAssumption` (the interface has finitely many
methods, and at least one), `ChecksDecide`, that is `CheckDecides`, for any
interface and files of any size.

`ModuleListInv` says which commands take which steps (`Stages`) and what
moduleList.go and its backup are at each of them (`ListAtStep`): the list is
written only when its backup is there, and the backup is removed only when the
list has been restored.

`CompleteInv`, for `SuccessIsComplete`, says in addition that lists are in the form
the program writes (`ListsFormed`: sorted, hence no import twice, and one call for
each), that a removal finds the call it is to remove (`CommandFits`: `go run` built
the list before), and what each step has achieved (`Progress`).  `AddedIsRight` and
`RemovedIsRight` are the two edits: exactly the package comes or goes.  Behind the
first is `SortedHasNew`, that a sorted list with a new element can be sorted: the
element goes in front of the first that is greater, which exists by `Least` (a set
of naturals has a least element, from the well-founded order of the naturals).

`ChecksDecide` has three parts.  `TakenMeans` and `MeansTaken` are about one type:
what the code takes for the expected type is that type for Go, if the shapes agree
and the file is not `Misleading`, and the other way round in a file that is
written `Plainly`; by `Unjoined` the fields are the values where none is joined,
and `SignatureMeans` lifts the two to methods that are not `Overlooked`.
`AllOrFewer` is about the count: in a file that compiles no two methods of a
receiver have one name, so that the places of its matching methods are mapped one
to one into the methods of the interface, and there are as many only if it has
them all.  `FirstMatches`, `VerdictIs` and `CheckIsRight` are about the first that
matches and the file that decides; `VersionInv` says that a package which is
checked is one of the versions.

### The life cycle and the flags (`StartupProofs`)

From `InterruptsAssumption` (their number is a natural), for every set of modules
and whichever of them fail, are slow or do not stop: `LifecycleTypeCorrect` (Start
and Close exclude each other; only proved, no run repeats it), `NoDoubleClose`,
`StateTellsOfModules`, `ServicesStopped`.  None of them is inductive: that the second
Close does not close `c.stop` again depends on the first having set the state under
the lock, which is `ClosedOnce`; that all modules are up when Start returns depends
on the services of the modules that the loop is past, which is `Starting`; and
that they are down after a Close on the loop that stops them, which is `Stopping`.
`Phases` ties the two Close calls to the place of main.

From `FlagsAssumption` (the names of flags are distinct), for every set of networks
and flags: `OrderDoesNotMatter`, that is `FlagsDecide`.  The invariant says of the
loop, at any time, that the configuration is that of the flags it has met, and
that of these at most one fixes the fork.

From `StartupAssumption` (which modules there are, and that they may be connected
and excluded): `Composition`, each step of the process is a step or a stutter of
the life cycle, of the flag parser and of the lists, so that `StartupSpec`
implements `LifecycleSpec`, `FlagsSpec` and `ListSpec`.  `WholeIsCorrect` follows:
`NoPanic`, `StateOfModules`, `StartedAreStopped` and `FlagsDecide` hold in the
whole, and by `NoneTwice` so does `SourcesDistinct`.  `NothingListens`, that is
`ServerStopped`, is about the server of the builder API, which the life cycle
knows nothing of: `ServerInv` says that the API is up only with a server that is
not closed, and that its goroutine listens on no other; it needs the invariant of
the life cycle, by which a service is started once and stopped after that.

### What is only model-checked

* The name that `NewAlias` finds, which is a fold over the imports; `SuccessesComplete`
  holds whatever it is.
* Liveness, as its proofs need ENABLED: `CallsReturn`, `RequestsAnswered`,
  `RequestsReturn`, `GetHeaderReturns`, `RequestsEnd`, `ShutdownCompletes`,
  `ConfiguredAreConnected`.  Of `RequestsEnd` and `RequestsReturn`, `NobodyStuck` and
  `RoomForHeaders` prove that no channel keeps a goroutine; that each does go on is
  fairness.

## 5. What is not modelled, and why

* The HTTP handlers of the builder API (`apis.go`): each checks a request, makes one
  call of the aggregator and writes the answer, without state.  The calls are in
  the workload of `bus`; the life of the server is in `Startup`.
* The relay's registerValidator (`processRegistration`): a fan-out over a buffered
  channel that returns at the first success, like the `poll` of `ValidatorProxy`.
  Its checkRelays is the number of relays that answer, any, in `StartRelay`.
* Flags that set a time-out or the logger; signatures, hash roots and encodings,
  which are fields of bids and messages here; logging; the version command.
* The registration of modules with their callbacks (`RegisterName`).
* In the module checker: imports without a name in moduleList.go, of which the
  program writes none, and functions in front of the struct of their file, at
  which the search for a constructor looks only in its second pass.
* The halves of a slice header: a Go slice is three words, and a read without a
  lock may see some old and some new.  `SourceLists` reads and writes them in one
  step.
* The sleep until the getHeader deadline and the beacon clock of GetHeader: time
  is not in the models.

## 6. Where the code departs from what it says

Two departures are runs of their own, and `PROJECT.json` quotes the lines:
`bus_ping` - the error for a message that finds no module is no response, bounces
for ever and leaves the caller waiting - and `aggregator_two` - a source that answers with
two headers, as the proxy with two addresses does, blocks getHeader.

The models contain more of them, faithfully, and the properties are stated
around them.  Whoever changes the code should know these:

* `data.go:78`, `internal.go:93`: `lastSlot-64` and `slot-64` wrap around in the
  first two epochs; what was just stored is deleted.  `BestThreeKept` and
  `BidsKept` therefore speak of slots from the `Horizon` on.
* `data.go:61`: the store compares values only, so that a bid which three sources
  deliver takes all three places of its slot.  `ReturnedIsKept` lets a returned
  header go when the store has three that are worth as much.
* `core.go:308, 328`: a message to oneself is delivered twice; a module that calls
  itself would execute the call twice.
* `core.go:323`: only a Call of `core_ping`, or of a `core_` method with notifyAll,
  gets as far as the bouncing error of `bus_ping`; newMessage refuses every other
  name that no module has (`coreClientUtils.go:24`).
* `core.go:308, 325, 328, 367`: a relay sends to the client's Incoming, which the
  client closes in dispatch (`coreClient.go:116`): a relay with a message for a
  client that is closed panics.  This program closes the core's own client only
  (`core.go:247`), for which no relay goroutine runs.  `ServersSpared` leaves relays
  and callers out.
* `service.go:128`: ConnectBlockSource calls the module it is to connect with the
  lock held; if the `name` of that module did not return, neither would any later
  change of the lists.  For a name that is no module
  the call fails at once.
* `coreClient.go:97`: the one value that Close sends may be received by `read`,
  `send` or `wait` instead of `dispatch`; Close then waits for ever.  For the core's
  client, `ShutdownCompletes` names this (`"unheard"`).
* `coreClientCall.go:107`: a Call without a deadline that waits while the client is
  closed is not woken, though Close is said to be "aborting any in-flight
  requests".
* `handler.go:118`: handler.close waits for the serving goroutines before it
  cancels them; one in a nested Call keeps it waiting.
* `relay.go:104`: the signing domain is assigned to a copy of each relay entry, so
  that signatures are verified against the zero domain.
* `outgoing_calls.go:213`, the proxy's `apis.go:244`: a payload with foreign blob
  commitments is logged and taken.
* `outgoing_calls.go:202`, the proxy's `apis.go:233`: a payload with more commitments
  than the block is an index out of range.  In the relay module this ends the
  process; in the proxy callback.call recovers, and the payloads of the other
  proxies are lost.  `PayloadNotLost` and `ReturnedAreGood` name these cases.
* `bidHandling.go:10-18`, `backend.go:159`: one header whose value or hash cannot be
  read fails the whole getHeader, though other sources sent good ones.
  `FailsOnlyWithout` names it.
* `external-validator-proxy/apis.go:131`: with two proxies, the error of one may be
  paired with the header of the other, which is then lost; `ReturnedAreGood` is for
  requests no proxy fails where it says that all answers are returned.
* `backend.go:71`: with three sources, one of which leaves, or with two that both
  leave, and few exclusions, the append in the call of Notify writes the
  exclusions into the array of the sources, and a connect at that time takes one
  of them for its own element.  With such an instance `RefinesLists` fails, and with
  four sources `ToldOnce`: a source that connects after the append puts its own name
  over the exclusions that Notify has yet to look up, and is neither notified nor
  asked.  `source_lists` is smaller.
* `backend.go:150`: while a source disconnects, the loop may ask another twice and a
  third not at all.  `ToldOnce` is for requests during which nobody leaves.
* `backend.go:122`: a source that connects between the making of the channel and the
  loop may block a getHeader; `RequestsReturn` and `RoomForHeaders` name it.
* `coreClientUtils.go:19`: ids wrap around after 2^32 messages, and may then be those
  of calls that still wait.
* `server.go:150`: an API stopped before the goroutine of its Start has run follows a
  nil `b.srv`; an empty listen or proxy address is a nil URL, which Start follows;
  that the port is taken is only logged.  `ServerStopped` names these.
* `relay.go:145`: the check that no relay is the API itself compares URLs of which
  one has a public key, and never finds one.
* `relay/utils.go`: of boolean flags only the presence counts, `--relay-check=false`
  turns the check on; a custom fork version without a time leaves the genesis time
  0.
* `external-validator-proxy/service.go`: duplicates are searched as substrings, so
  that an address which is a part of another is refused.
* `interfaceChecker.go:157`: only the methods of the receiver of the first that
  matches are counted, so a package may be refused for the methods of another
  type; an import without alias whose path ends in a version is not recognised,
  and behind an import that has this name it replaces that, so that the types of
  the other package are taken for those expected (`Misleading`); a type imported
  with a dot is not recognised; a
  method with the right name and arguments and no results makes the check panic,
  and an update is then not undone; `interface{}`, `struct{}` or `func()` in a signature,
  or as the result of a function behind the service, panics too.
* `interfaceChecker.go:240, 304`, `common/utils.go:16-45`: fields are counted instead of
  values and a type is compared by the one name found in it, so that
  `Start() (a, b error)`, `Start() []error` and `Stop() chan error` pass though nothing
  implements the interface (`Overlooked`).  The go build that follows fails then, and
  puts the list back.  `CheckDecides` is about accepted packages that are neither
  misleading nor overlooked, and about refused ones only if they are written
  plainly.
* `builder-api/apis.go`: handleGetHeader and handleGetPayload go on after an empty
  result and index it; net/http recovers the panic.
* `backend.go:165`: the result is looked up by slot, so that requests for two
  parents of one slot get the same header.
* `module.go:92`: a Start that is late panics; `core.go:255`: a Stop that fails keeps
  the process from ending; `core.go:247` closes the core client first, though the
  comment has it last.  `NoPanic` and `ShutdownCompletes` name these exceptions.
* `moduleListOperator.go:63`: an alias may be given twice, after which the module
  cannot be installed; `:484`: a removal that fails reinstalls the latest version
  of the module; `:134`: a package without constructor makes the install panic;
  `installModules/service.go:91`: a failed install leaves go.mod changed.

## 7. Plan

Done, in this order: the header store with its theorems; the bus and `Rpc`; the
client; relay bids; the aggregator over the header store; the proxy; the life
cycle; module management; the lists of the aggregator as values and as slices;
the relay's flags; the composition with the modules of the program; the search
for a service in a package; the proofs of section 4.  To come:

1. the relay's registerValidator next to its bids;
2. the handlers of the builder API over `Rpc`.
