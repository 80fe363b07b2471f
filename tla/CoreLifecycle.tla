--------------------------- MODULE CoreLifecycle ----------------------------
(***************************************************************************)
(* The life of the process (core/core.go, core/common/module.go,           *)
(* cmd/core/coreCli.go): the main goroutine configures, connects and       *)
(* starts the modules and waits; an interrupt starts Close in a goroutine  *)
(* of its own; main closes once more when it leaves.  The order of the     *)
(* modules is the order of a Go map: any.                                  *)
(***************************************************************************)
EXTENDS Naturals

CONSTANTS
    Modules,        \* the registered modules
    Faulty,         \* modules whose Configure, ConnectCore or Start may fail
    Slow,           \* modules whose Start may take more than 30 seconds
    Stubborn,       \* modules whose Stop may fail
    Interrupts      \* the 10 more interrupts after which the program panics

ASSUME InterruptsAssumption == Interrupts \in Nat

VARIABLES
    main,           \* what the main goroutine does
    todo,           \* the modules left in the loop that main is in
    service,        \* module -> what its service is doing
    serviceAlive,   \* module -> ServiceAlive
    state,          \* CoreService.state
    startStopLock,  \* who holds it
    coreClient,     \* none, open, closed
    stop,           \* is the channel c.stop closed?
    closing,        \* goroutine -> where its Close is
    stopping,       \* goroutine -> the modules left in its stop loop
    failed,         \* goroutine -> did a Stop fail?
    interrupts,     \* the signals received
    fate            \* of the process: running, or how it ended

mainVars == <<main, todo>>
serviceVars == <<service, serviceAlive>>
closeVars == <<startStopLock, coreClient, stop, closing, stopping, failed>>
vars == <<mainVars, serviceVars, closeVars, state, interrupts, fate>>

\* the goroutines that stop modules
Closers == {"main", "signal"}

LifecycleInit ==
    /\ main = "configure" /\ todo = Modules
    /\ service = [m \in Modules |-> "new"]
    /\ serviceAlive = [m \in Modules |-> FALSE]
    /\ state = "initializing" /\ startStopLock = "free"
    /\ coreClient = "none" /\ stop = FALSE
    /\ closing = [c \in Closers |-> "idle"]
    /\ stopping = [c \in Closers |-> {}]
    /\ failed = [c \in Closers |-> FALSE]
    /\ interrupts = 0 /\ fate = "running"

-----------------------------------------------------------------------------
\* mevPlus returns: the deferred Close runs
Leave ==
    /\ main' = "leave" /\ todo' = {}
    /\ closing' = [closing EXCEPT !["main"] = "lock"]

(***************************************************************************)
(* The loops of Configure: main first calls Configure of every module,     *)
(* then makes the core client, then connects every module.                 *)
(***************************************************************************)
ConfigureModule(m) ==
    /\ main \in {"configure", "connect"} /\ m \in todo
    /\ \/ /\ todo' = todo \ {m}
          /\ UNCHANGED <<main, closing>>
       \/ m \in Faulty /\ Leave
    /\ UNCHANGED <<serviceVars, startStopLock, coreClient, stop, stopping,
                   failed, state, interrupts, fate>>

MakeCoreClient ==
    /\ main = "configure" /\ todo = {}
    /\ main' = "connect" /\ todo' = Modules
    /\ coreClient' = "open"
    /\ UNCHANGED <<serviceVars, startStopLock, stop, closing, stopping,
                   failed, state, interrupts, fate>>

\* Start, up to the loop of StartModuleServices
StartBegin ==
    /\ main = "connect" /\ todo = {}
    /\ startStopLock = "free" /\ startStopLock' = "main"
    /\ main' = "start" /\ todo' = Modules
    /\ UNCHANGED <<serviceVars, coreClient, stop, closing, stopping, failed,
                   state, interrupts, fate>>

\* startModuleService: main waits for the goroutine that calls Start
StartModule(m) ==
    /\ main = "start" /\ m \in todo
    /\ main' = "await" /\ todo' = todo \ {m}
    /\ service' = [service EXCEPT ![m] = "starting"]
    /\ UNCHANGED <<serviceAlive, closeVars, state, interrupts, fate>>

ServiceStart(m) ==
    /\ service[m] = "starting"
    /\ \E outcome \in {"up"} \cup (IF m \in Faulty THEN {"down"} ELSE {}) :
          service' = [service EXCEPT ![m] = outcome]
    /\ UNCHANGED <<mainVars, serviceAlive, closeVars, state, interrupts, fate>>

\* slip: the modules that are up already are left alone
ServiceReportAndGo(m) ==
    /\ main = "await" /\ service[m] \in {"up", "down"}
    /\ service' = [service EXCEPT ![m] =
                      IF @ = "up" THEN "started" ELSE "failed"]
    /\ serviceAlive' = [serviceAlive EXCEPT ![m] = service[m] = "up"]
    /\ main' = IF service[m] = "up" THEN "start" ELSE "undo"
    /\ UNCHANGED <<todo, closeVars, state, interrupts, fate>>

\* main takes the result out of the channel done
ServiceReport(m) ==
    /\ main = "await" /\ service[m] \in {"up", "down"}
    /\ service' = [service EXCEPT ![m] =
                      IF @ = "up" THEN "started" ELSE "failed"]
    /\ serviceAlive' = [serviceAlive EXCEPT ![m] = service[m] = "up"]
    /\ IF service[m] = "up"
       THEN main' = "start" /\ UNCHANGED stopping
       ELSE /\ main' = "undo"
            /\ stopping' = [stopping EXCEPT !["main"] = Modules]
    /\ UNCHANGED <<todo, startStopLock, coreClient, stop, closing, failed,
                   state, interrupts, fate>>

(***************************************************************************)
(* The start timer fires, and startModuleService closes done and returns.  *)
(* A Start that returns afterwards sends on the closed channel.            *)
(***************************************************************************)
StartTimeout(m) ==
    /\ main = "await" /\ m \in Slow
    /\ service[m] \in {"starting", "up", "down"}
    /\ service' = [service EXCEPT ![m] = "late"]
    /\ main' = "undo" /\ stopping' = [stopping EXCEPT !["main"] = Modules]
    /\ UNCHANGED <<todo, serviceAlive, startStopLock, coreClient, stop,
                   closing, failed, state, interrupts, fate>>

LateStart(m) ==
    /\ service[m] = "late"
    /\ fate' = "panic"
    /\ UNCHANGED <<mainVars, serviceVars, closeVars, state, interrupts>>

\* Start returns
StartEnd ==
    /\ main = "start" /\ todo = {}
    /\ state' = "running" /\ startStopLock' = "free"
    /\ main' = "wait"
    /\ UNCHANGED <<todo, serviceVars, coreClient, stop, closing, stopping,
                   failed, interrupts, fate>>

\* Start fails: log.Fatal, no deferred Close
StartFailed ==
    /\ main = "undo" /\ stopping["main"] = {}
    /\ fate' = "fatal"
    /\ UNCHANGED <<mainVars, serviceVars, closeVars, state, interrupts>>

-----------------------------------------------------------------------------
\* an iteration of StopModuleServices, in main's Start or in a Close
StopModule(c, m) ==
    /\ m \in stopping[c]
    /\ stopping' = [stopping EXCEPT ![c] = @ \ {m}]
    /\ \/ /\ ~ serviceAlive[m]
          /\ UNCHANGED <<serviceVars, failed>>
       \/ /\ serviceAlive[m]
          /\ service' = [service EXCEPT ![m] = "stopped"]
          /\ serviceAlive' = [serviceAlive EXCEPT ![m] = FALSE]
          /\ UNCHANGED failed
       \/ /\ serviceAlive[m] /\ m \in Stubborn
          /\ failed' = [failed EXCEPT ![c] = TRUE]
          /\ UNCHANGED serviceVars
    /\ UNCHANGED <<mainVars, startStopLock, coreClient, stop, closing, state,
                   interrupts, fate>>

\* slip: the lock is released in front of the call of close
CloseLockReleased(c) ==
    /\ closing[c] = "lock" /\ startStopLock = "free"
    /\ closing' = [closing EXCEPT
                      ![c] = IF state = "closed" THEN "returned" ELSE "client"]
    /\ UNCHANGED <<mainVars, serviceVars, startStopLock, coreClient, stop,
                   stopping, failed, state, interrupts, fate>>

CloseLock(c) ==
    /\ closing[c] = "lock" /\ startStopLock = "free"
    /\ IF state = "closed"
       THEN /\ closing' = [closing EXCEPT ![c] = "returned"]
            /\ UNCHANGED startStopLock
       ELSE /\ closing' = [closing EXCEPT ![c] = "client"]
            /\ startStopLock' = c
    /\ UNCHANGED <<mainVars, serviceVars, coreClient, stop, stopping, failed,
                   state, interrupts, fate>>

(***************************************************************************)
(* See MevClient for what Close of a client does: once the client is       *)
(* closed it may panic.  The goroutine read may take the one value that is *)
(* meant for dispatch; then the client is never closed and Close waits.    *)
(***************************************************************************)
CloseClient(c) ==
    /\ closing[c] = "client"
    /\ \/ /\ closing' = [closing EXCEPT ![c] = "modules"]
          /\ stopping' = [stopping EXCEPT ![c] = Modules]
          /\ coreClient' = IF coreClient = "open" THEN "closed" ELSE coreClient
          /\ fate' \in IF coreClient = "closed" THEN {"panic", fate} ELSE {fate}
       \/ /\ coreClient = "open"
          /\ closing' = [closing EXCEPT ![c] = "unheard"]
          /\ UNCHANGED <<stopping, coreClient, fate>>
    /\ UNCHANGED <<mainVars, serviceVars, startStopLock, stop, failed, state,
                   interrupts>>

\* slip: close does not care about a Stop that failed
CloseStopAnyway(c) ==
    /\ closing[c] = "modules" /\ stopping[c] = {}
    /\ closing' = [closing EXCEPT ![c] = "stopped"]
    /\ stop' = TRUE
    /\ fate' = IF stop THEN "panic" ELSE fate
    /\ UNCHANGED <<mainVars, serviceVars, startStopLock, coreClient, stopping,
                   failed, state, interrupts>>

\* slip: c.stop stays open
CloseStopOpen(c) ==
    /\ closing[c] = "modules" /\ stopping[c] = {}
    /\ closing' = [closing EXCEPT
                      ![c] = IF failed[c] THEN "returned" ELSE "stopped"]
    /\ startStopLock' = IF failed[c] THEN "free" ELSE startStopLock
    /\ UNCHANGED <<mainVars, serviceVars, coreClient, stop, stopping, failed,
                   state, interrupts, fate>>

\* a Stop that failed leaves c.stop open and the state as it is
CloseStop(c) ==
    /\ closing[c] = "modules" /\ stopping[c] = {}
    /\ IF failed[c]
       THEN /\ closing' = [closing EXCEPT ![c] = "returned"]
            /\ startStopLock' = "free"
            /\ UNCHANGED <<stop, fate>>
       ELSE /\ closing' = [closing EXCEPT ![c] = "stopped"]
            /\ stop' = TRUE
            /\ fate' = IF stop THEN "panic" ELSE fate
            /\ UNCHANGED startStopLock
    /\ UNCHANGED <<mainVars, serviceVars, coreClient, stopping, failed, state,
                   interrupts>>

CloseEnd(c) ==
    /\ closing[c] = "stopped"
    /\ closing' = [closing EXCEPT ![c] = "returned"]
    /\ state' = "closed" /\ startStopLock' = "free"
    /\ UNCHANGED <<mainVars, serviceVars, coreClient, stop, stopping, failed,
                   interrupts, fate>>

-----------------------------------------------------------------------------
\* the goroutine of startCore
Interrupt ==
    /\ main \in {"wait", "leave"} /\ state # "initializing"
    /\ interrupts <= Interrupts
    /\ interrupts' = interrupts + 1
    /\ closing' = IF interrupts = 0
                  THEN [closing EXCEPT !["signal"] = "lock"] ELSE closing
    /\ fate' = IF interrupts = Interrupts THEN "aborted" ELSE fate
    /\ UNCHANGED <<mainVars, serviceVars, startStopLock, coreClient, stop,
                   stopping, failed, state>>

\* Wait returns
WaitEnd ==
    /\ main = "wait" /\ stop
    /\ Leave
    /\ UNCHANGED <<serviceVars, startStopLock, coreClient, stop, stopping,
                   failed, state, interrupts, fate>>

Exit ==
    /\ main = "leave" /\ closing["main"] = "returned"
    /\ fate' = "exited"
    /\ UNCHANGED <<mainVars, serviceVars, closeVars, state, interrupts>>

MainStep ==
    \/ MakeCoreClient \/ StartBegin \/ StartEnd \/ StartFailed
    \/ WaitEnd \/ Exit
    \/ \E m \in Modules : ConfigureModule(m) \/ StartModule(m)

ServiceStep(m) ==
    \/ ServiceStart(m) \/ ServiceReport(m) \/ StartTimeout(m) \/ LateStart(m)

CloseStep(c) ==
    \/ CloseLock(c) \/ CloseClient(c) \/ CloseStop(c) \/ CloseEnd(c)
    \/ \E m \in Modules : StopModule(c, m)

LifecycleNext ==
    /\ fate = "running"
    /\ \/ MainStep \/ Interrupt
       \/ \E m \in Modules : ServiceStep(m)
       \/ \E c \in Closers : CloseStep(c)

LifecycleSpec == LifecycleInit /\ [][LifecycleNext]_vars

-----------------------------------------------------------------------------
\* who is between Lock and Unlock of startStopLock
Inside(c) ==
    \/ closing[c] \in {"client", "unheard", "modules", "stopped"}
    \/ c = "main" /\ main \in {"start", "await", "undo"}

(***************************************************************************)
(* The type of the state; Start and Close exclude each other.              *)
(***************************************************************************)
LifecycleTypeOK ==
    /\ main \in {"configure", "connect", "start", "await", "undo", "wait",
                 "leave"}
    /\ service \in [Modules -> {"new", "starting", "up", "down", "started",
                                "failed", "late", "stopped"}]
    /\ state \in {"initializing", "running", "closed"}
    /\ \A c \in Closers : Inside(c) <=> startStopLock = c
    /\ interrupts \in 0 .. Interrupts + 1

(***************************************************************************)
(* The process closes a closed channel, or sends on one, only after a      *)
(* Start that took too long or a Stop that failed: the Close of the signal *)
(* handler and the deferred Close of main do not both close the client and *)
(* c.stop (coreCli.go:104, 181, core.go:247-258, module.go:69-92).         *)
(***************************************************************************)
NoPanic ==
    fate = "panic" =>
        \/ \E m \in Modules : service[m] = "late"
        \/ \E c \in Closers : failed[c]

(***************************************************************************)
(* A core that is running and not being closed has all its modules up, and *)
(* a core that is closed has none (core.go:203, 253).                      *)
(***************************************************************************)
StateOfModules ==
    /\ state = "running" /\ (\A c \in Closers : ~ Inside(c) /\ ~ failed[c])
           => \A m \in Modules : service[m] = "started" /\ serviceAlive[m]
    /\ state = "closed" => \A m \in Modules : ~ serviceAlive[m]

(***************************************************************************)
(* However the process ends, short of a panic or of a Stop that fails, no  *)
(* service is left running (core.go:194, 253).                             *)
(***************************************************************************)
StartedAreStopped ==
    /\ fate \in {"exited", "fatal"}
    /\ \A c \in Closers : ~ failed[c]
    => \A m \in Modules : service[m] # "started"
=============================================================================
