----------------------------- MODULE CoreRelay ------------------------------
(***************************************************************************)
(* The message bus of the core (core/core.go RelayComms, together with the *)
(* JSON-RPC message kinds of core/common/jsonRPC.go): one relay goroutine  *)
(* per module takes what the module's client sends and delivers it to the  *)
(* other modules.  The clients are reduced to what the bus sees of them:   *)
(* they send requests, serve what they receive, each request in a          *)
(* goroutine of its own, and match responses to their pending calls by id. *)
(* MevClient models the inside of one client.                              *)
(***************************************************************************)
EXTENDS Naturals, Sequences, FiniteSets, Functions

CONSTANTS
    Modules,    \* the modules of the registry
    NoModule,   \* the empty namespace ""
    Core,       \* the namespace "core", which no module has
    Jobs,       \* the calls and notifications made during a run
    Capacity    \* defaultCommsChanBufferSize, the room in each channel

(***************************************************************************)
(* Job[j] describes one use of a client: from, the module that makes it;   *)
(* to, the namespace of the method; known, whether the method is among the *)
(* client's knownCallbacks, which are the callbacks of all modules and     *)
(* core_ping (core.go:95-102); notify, TRUE for Notify and FALSE for Call; *)
(* all and excl, the notifyAll and notificationExclusion arguments;        *)
(* parent, the job during whose execution it is made, or j itself when     *)
(* nothing has to precede it.                                              *)
(***************************************************************************)
CONSTANT Job

ASSUME JobAssumption ==
    /\ Capacity \in Nat \ {0}
    /\ NoModule \notin Modules /\ Core \notin Modules /\ NoModule # Core
    /\ \A j \in Jobs :
        /\ Job[j].from \in Modules
        /\ Job[j].to \in Modules \cup {Core, NoModule}
        /\ Job[j].known \in BOOLEAN
        /\ Job[j].known => Job[j].to # NoModule
        /\ Job[j].notify \in BOOLEAN /\ Job[j].all \in BOOLEAN
        /\ Job[j].excl \subseteq Modules
        /\ Job[j].parent \in Jobs

VARIABLES
    outgoing,   \* Outgoing channel of each module's client
    incoming,   \* Incoming channel of each module's client
    relay,      \* what the relay goroutine of each module has yet to deliver
    exited,     \* the modules whose relay goroutine has returned
    nextId,     \* idCounter of each client
    respWait,   \* per client, the pending calls: id -> job
    tasks,      \* per client, the requests being served, a goroutine each
    issued,     \* the jobs that have been started
    answered,   \* job -> the response its Call returned with
    runs,       \* history: how often each module has started serving a job
    stop        \* the stop channel of the core is closed

vars == <<outgoing, incoming, relay, exited, nextId, respWait, tasks, issued,
          answered, runs, stop>>

-----------------------------------------------------------------------------
(***************************************************************************)
(* A JsonRPCMessage.  id 0 stands for nil.  The method is split into its   *)
(* namespace ns and whether it ends in "_response"; the empty method is    *)
(* NoModule without the suffix.  job and by are history: the job that      *)
(* caused the message, and who produced a response.                        *)
(***************************************************************************)
HasValidID(msg) == msg.id # 0

HasMethod(msg) == msg.ns # NoModule \/ msg.suffix

IsCall(msg) == HasValidID(msg) /\ HasMethod(msg)

IsResponse(msg) == HasValidID(msg) /\ msg.suffix

(***************************************************************************)
(* Response and ErrorResponse: same id and origin; the suffix is added to  *)
(* the method, but a method that has it already is dropped altogether.     *)
(***************************************************************************)
ResponseTo(msg, who) ==
    [id |-> msg.id, ns |-> IF msg.suffix THEN NoModule ELSE msg.ns,
     suffix |-> ~ msg.suffix, origin |-> msg.origin, all |-> FALSE,
     excl |-> {}, job |-> msg.job, by |-> who]

Request(j, id) ==
    [id |-> id, ns |-> Job[j].to, suffix |-> FALSE, origin |-> NoModule,
     all |-> Job[j].all, excl |-> IF Job[j].all THEN Job[j].excl ELSE {},
     job |-> j, by |-> NoModule]

CoreInit ==
    /\ outgoing = [m \in Modules |-> <<>>]
    /\ incoming = [m \in Modules |-> <<>>]
    /\ relay = [m \in Modules |-> [todo |-> <<>>, copies |-> {}]]
    /\ exited = {}
    /\ nextId = [m \in Modules |-> 0]
    /\ respWait = [m \in Modules |-> [i \in {} |-> NoModule]]
    /\ tasks = [m \in Modules |-> {}]
    /\ issued = {}
    /\ answered = [j \in {} |-> NoModule]
    /\ runs = [m \in Modules |-> [j \in Jobs |-> 0]]
    /\ stop = FALSE

HasRoom(channel) == Len(channel) < Capacity

Put(channels, m, msg) == [channels EXCEPT ![m] = Append(@, msg)]

-----------------------------------------------------------------------------
(***************************************************************************)
(* The client of a module.                                                 *)
(***************************************************************************)

\* a goroutine of module m is executing the method that job j asked for
Executing(m, j) ==
    \E t \in tasks[m] : t.msg.job = j /\ ~ t.msg.suffix /\ HasMethod(t.msg)

\* what newMessage lets pass: known methods, and any core_* with notifyAll
Sendable(j) == Job[j].known \/ (Job[j].to = Core /\ Job[j].all)

Due(j) == j \notin issued /\ (Job[j].parent = j \/
                                 Executing(Job[j].from, Job[j].parent))

\* newMessage's "unknown method": the call fails at once, nothing is sent
Refuse(j) ==
    /\ Due(j) /\ ~ Sendable(j)
    /\ issued' = issued \cup {j}
    /\ UNCHANGED <<outgoing, incoming, relay, exited, nextId, respWait, tasks,
                   answered, runs, stop>>

(***************************************************************************)
(* Call and Notify: take the next id, register the pending call, write the *)
(* message to Outgoing.  A notification uses up an id, and leaves it out.  *)
(***************************************************************************)
Issue(j) ==
    LET m  == Job[j].from
        id == nextId[m] + 1
    IN  /\ Due(j) /\ Sendable(j)
        /\ HasRoom(outgoing[m])
        /\ issued' = issued \cup {j}
        /\ nextId' = [nextId EXCEPT ![m] = id]
        /\ IF Job[j].notify
           THEN /\ outgoing' = Put(outgoing, m, Request(j, 0))
                /\ UNCHANGED respWait
           ELSE /\ outgoing' = Put(outgoing, m, Request(j, id))
                /\ respWait' = [respWait EXCEPT ![m] =
                      [i \in DOMAIN @ \cup {id} |-> IF i = id THEN j ELSE @[i]]]
        /\ UNCHANGED <<incoming, relay, exited, tasks, answered, runs, stop>>

(***************************************************************************)
(* The read loop and the dispatch loop: a response resolves the pending    *)
(* call with its id, or is dropped when there is none; everything else     *)
(* starts a goroutine.                                                     *)
(***************************************************************************)
Receive(m) ==
    /\ incoming[m] # <<>>
    /\ LET msg == Head(incoming[m]) IN
       /\ incoming' = [incoming EXCEPT ![m] = Tail(@)]
       /\ IF IsResponse(msg)
          THEN /\ IF msg.id \in DOMAIN respWait[m]
                  THEN /\ answered' = [j \in DOMAIN answered \cup
                                                  {respWait[m][msg.id]} |->
                              IF j = respWait[m][msg.id]
                              THEN [job |-> msg.job, by |-> msg.by]
                              ELSE answered[j]]
                       /\ respWait' = [respWait EXCEPT ![m] =
                                Restrict(@, DOMAIN @ \ {msg.id})]
                  ELSE UNCHANGED <<answered, respWait>>
               /\ UNCHANGED <<tasks, runs>>
          ELSE /\ runs' = IF HasMethod(msg)
                          THEN [runs EXCEPT ![m][msg.job] = @ + 1] ELSE runs
               /\ tasks' = [tasks EXCEPT ![m] =
                              @ \cup {[msg |-> msg, no |-> runs'[m][msg.job]]}]
               /\ UNCHANGED <<answered, respWait>>
    /\ UNCHANGED <<outgoing, relay, exited, nextId, issued, stop>>

Finished(j) ==
    IF Job[j].notify \/ ~ Sendable(j) THEN j \in issued
    ELSE j \in DOMAIN answered

(***************************************************************************)
(* A goroutine of module m finishes the method it runs, all the calls it   *)
(* makes on the way included, and sends the answer if one is due.          *)
(***************************************************************************)
Serve(m, t) ==
    /\ t \in tasks[m]
    /\ \A j \in Jobs :
          Job[j].from = m /\ Job[j].parent = t.msg.job /\ j # t.msg.job
              => Finished(j)
    /\ tasks' = [tasks EXCEPT ![m] = @ \ {t}]
    /\ IF HasValidID(t.msg)
       THEN /\ HasRoom(outgoing[m])
            /\ outgoing' = Put(outgoing, m, ResponseTo(t.msg, m))
       ELSE UNCHANGED outgoing
    /\ UNCHANGED <<incoming, relay, exited, nextId, respWait, issued,
                   answered, runs, stop>>

-----------------------------------------------------------------------------
(***************************************************************************)
(* The relay goroutine of module m.                                        *)
(***************************************************************************)
RelayIdle(m) == relay[m].todo = <<>> /\ relay[m].copies = {}

\* slip: responses are routed by their namespace like everything else
TargetByNamespace(msg) == msg.ns

\* responses go back to their origin, everything else to its namespace
Target(msg) == IF IsResponse(msg) THEN msg.origin ELSE msg.ns

Stamped(m, msg) ==
    IF ~ IsResponse(msg) /\ msg.origin = NoModule
    THEN [msg EXCEPT !.origin = m] ELSE msg

\* the error for an unknown module, as ErrorResponse makes it of a message
\* whose method has the suffix already
NotFound(msg) ==
    ResponseTo([msg EXCEPT !.suffix = TRUE, !.origin = NoModule], Core)

(***************************************************************************)
(* What the body of the loop sends for one message, in this order: a       *)
(* message to oneself is put into one's own channel, then the target's     *)
(* channel gets it (which is again one's own if the target is oneself); an *)
(* unknown target earns a call an error message.                           *)
(***************************************************************************)
Deliveries(m, msg) ==
    (IF Target(msg) = m THEN <<<<m, msg>>>> ELSE <<>>)
    \o IF Target(msg) \in Modules THEN <<<<Target(msg), msg>>>>
       ELSE IF IsCall(msg) THEN <<<<m, NotFound(msg)>>>>
       ELSE <<>>

\* slip: the exclusions are not looked at
AudienceUnfiltered(m, msg) ==
    IF msg.all THEN Modules \ {m, Target(msg)} ELSE {}

\* the other modules a notifyAll message is copied to
Audience(m, msg) ==
    IF msg.all THEN Modules \ ({m, Target(msg)} \cup msg.excl) ELSE {}

\* slip: the copies keep the id, and would be answered
CopyWithId(msg) == [msg EXCEPT !.excl = {}]

CopyOf(msg) == [msg EXCEPT !.id = 0, !.origin = NoModule, !.excl = {}]

\* slip: the next message is taken while one is being delivered
RelayTakeEarly(m) ==
    /\ m \notin exited
    /\ outgoing[m] # <<>>
    /\ LET msg == Stamped(m, Head(outgoing[m])) IN
       relay' = [relay EXCEPT ![m] =
                    [todo |-> Deliveries(m, msg),
                     copies |-> {<<o, CopyOf(msg)>> : o \in Audience(m, msg)}]]
    /\ outgoing' = [outgoing EXCEPT ![m] = Tail(@)]
    /\ UNCHANGED <<incoming, exited, nextId, respWait, tasks, issued,
                   answered, runs, stop>>

RelayTake(m) ==
    /\ m \notin exited /\ RelayIdle(m)
    /\ outgoing[m] # <<>>
    /\ LET msg == Stamped(m, Head(outgoing[m])) IN
       relay' = [relay EXCEPT ![m] =
                    [todo |-> Deliveries(m, msg),
                     copies |-> {<<o, CopyOf(msg)>> : o \in Audience(m, msg)}]]
    /\ outgoing' = [outgoing EXCEPT ![m] = Tail(@)]
    /\ UNCHANGED <<incoming, exited, nextId, respWait, tasks, issued,
                   answered, runs, stop>>

RelayDeliver(m) ==
    /\ relay[m].todo # <<>>
    /\ LET d == Head(relay[m].todo) IN
       /\ HasRoom(incoming[d[1]])
       /\ incoming' = Put(incoming, d[1], d[2])
       /\ relay' = [relay EXCEPT ![m].todo = Tail(@)]
    /\ UNCHANGED <<outgoing, exited, nextId, respWait, tasks, issued,
                   answered, runs, stop>>

(***************************************************************************)
(* NotifyAll: the copies go out after that, in the order of a module list  *)
(* that is made by iterating over a map; the model allows every order.     *)
(***************************************************************************)
RelayNotify(m) ==
    /\ relay[m].todo = <<>>
    /\ \E d \in relay[m].copies :
       /\ HasRoom(incoming[d[1]])
       /\ incoming' = Put(incoming, d[1], d[2])
       /\ relay' = [relay EXCEPT ![m].copies = @ \ {d}]
    /\ UNCHANGED <<outgoing, exited, nextId, respWait, tasks, issued,
                   answered, runs, stop>>

\* <-c.stop: taken between messages, possibly with messages waiting
RelayExit(m) ==
    /\ stop /\ RelayIdle(m)
    /\ m \notin exited
    /\ exited' = exited \cup {m}
    /\ UNCHANGED <<outgoing, incoming, relay, nextId, respWait, tasks,
                   issued, answered, runs, stop>>

\* close(c.stop), at the end of CoreService.close
Stop ==
    /\ ~ stop
    /\ stop' = TRUE
    /\ UNCHANGED <<outgoing, incoming, relay, exited, nextId, respWait,
                   tasks, issued, answered, runs>>

-----------------------------------------------------------------------------
ModuleStep(m) ==
    \/ Receive(m)
    \/ \E t \in tasks[m] : Serve(m, t)
    \/ RelayTake(m)
    \/ RelayDeliver(m)
    \/ RelayNotify(m)
    \/ RelayExit(m)

CoreNext ==
    \/ \E j \in Jobs : Issue(j) \/ Refuse(j)
    \/ \E m \in Modules : ModuleStep(m)
    \/ Stop

CoreSpec == CoreInit /\ [][CoreNext]_vars

(***************************************************************************)
(* Every goroutine that can take a step eventually does.  Nothing makes    *)
(* the core stop, or a module begin a call nobody waits for.               *)
(***************************************************************************)
CoreFairness ==
    /\ \A j \in Jobs : WF_vars(Job[j].parent # j /\ (Issue(j) \/ Refuse(j)))
    /\ \A m \in Modules :
        /\ WF_vars(Receive(m))
        /\ WF_vars(RelayTake(m))
        /\ WF_vars(RelayDeliver(m))
        /\ WF_vars(RelayNotify(m))
        /\ WF_vars(\E t \in tasks[m] : Serve(m, t))

FairCoreSpec == CoreSpec /\ CoreFairness

-----------------------------------------------------------------------------
\* the calls that are sent; the others have returned when they are issued
Calls == {j \in Jobs : ~ Job[j].notify /\ Sendable(j)}

\* the calls of a method of an existing module, other than the caller
ProperCalls == {j \in Calls : Job[j].to \in Modules \ {Job[j].from}}

\* the modules that are meant to serve a job: none if newMessage refuses it
Recipients(j) ==
    IF ~ Sendable(j) THEN {}
    ELSE ({Job[j].to} \cap Modules) \cup
         IF Job[j].all THEN Modules \ (Job[j].excl \cup {Job[j].from}) ELSE {}

(***************************************************************************)
(* Whatever the relays do with it, a request is served at most once by any *)
(* module, and only by its target and, for notifyAll, by the modules that  *)
(* are neither the sender nor excluded (core.go:344-362); and a Call that  *)
(* returns has the response to that very call, made by the module it       *)
(* named, although the ids of different clients coincide (core.go:295-303).*)
(***************************************************************************)
RightModules ==
    /\ \A m \in Modules, j \in Jobs :
          runs[m][j] <= IF m \in Recipients(j) THEN 1 ELSE 0
    /\ \A j \in DOMAIN answered :
          answered[j].job = j /\ answered[j].by = Job[j].to

(***************************************************************************)
(* While no relay has returned, a call that waits for its answer is in     *)
(* exactly one place: a channel, a relay, a goroutine serving it.  It is   *)
(* never lost and never duplicated (core.go:305-342, handler.go:144-204).  *)
(***************************************************************************)
Occurrences(j) ==
    LET mine(msg) == msg.job = j /\ HasValidID(msg)
        in(seq) == {i \in 1 .. Len(seq) : mine(seq[i])}
        held(m) == {i \in 1 .. Len(relay[m].todo) : mine(relay[m].todo[i][2])}
    IN  (UNION {{<<"out", m, i>> : i \in in(outgoing[m])} : m \in Modules})
        \cup (UNION {{<<"in", m, i>> : i \in in(incoming[m])} : m \in Modules})
        \cup (UNION {{<<"relay", m, i>> : i \in held(m)} : m \in Modules})
        \cup (UNION {{<<"task", m, t>> : t \in {u \in tasks[m] : mine(u.msg)}} :
                                                             m \in Modules})

OnePlacePerCall ==
    exited = {} =>
        \A j \in ProperCalls \cap issued :
            Cardinality(Occurrences(j)) = IF j \in DOMAIN answered THEN 0 ELSE 1

(***************************************************************************)
(* The bus implements remote calls: RefinesRpc is the abstract             *)
(* specification, with the progress of every call read off the bus.        *)
(***************************************************************************)
Abstract == INSTANCE Rpc WITH
    Calls <- ProperCalls,
    phase <- [j \in ProperCalls |->
                IF j \in DOMAIN answered THEN "answered"
                ELSE IF runs[Job[j].to][j] > 0 THEN "served"
                ELSE IF j \in issued THEN "requested" ELSE "idle"]

RefinesRpc == Abstract!RpcSpec

(***************************************************************************)
(* CallsReturn: unless the core is stopped, every call comes back, with    *)
(* channels that hold a single message.  The relays block on full          *)
(* channels and so do the goroutines that answer, but the loop that reads  *)
(* Incoming never does.                                                    *)
(***************************************************************************)
CallsReturn ==
    \A j \in Calls : j \in issued ~> (j \in DOMAIN answered \/ stop)
=============================================================================
