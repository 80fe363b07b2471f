--------------------------- MODULE StartupProofs ----------------------------
(***************************************************************************)
(* The core is safe for every set of modules, whichever of them fail, are  *)
(* slow or do not stop, and any number of interrupts.  The verdict on the  *)
(* flags of the relay module, and what is made of them, depend on the      *)
(* flags only: the inductive invariant says what the parser remembers as a *)
(* function of the flags it has met.  And the process with its modules     *)
(* implements each of the three parts it is composed of, so that what is   *)
(* proved of the parts holds of the whole.                                 *)
(***************************************************************************)
EXTENDS Startup, SequenceTheorems, TLAPS

(***************************************************************************)
(* The types of what LifecycleTypeOK leaves out.                           *)
(***************************************************************************)
ClosingType ==
    /\ todo \in SUBSET Modules
    /\ serviceAlive \in [Modules -> BOOLEAN]
    /\ startStopLock \in Closers \cup {"free"}
    /\ coreClient \in {"none", "open", "closed"}
    /\ stop \in BOOLEAN
    /\ closing \in [Closers -> {"idle", "lock", "client", "unheard",
                                "modules", "stopped", "returned"}]
    /\ stopping \in [Closers -> SUBSET Modules]
    /\ failed \in [Closers -> BOOLEAN]
    /\ fate \in {"running", "panic", "fatal", "aborted", "exited"}

(***************************************************************************)
(* Where main is says how far the core has come: nobody closes it before   *)
(* Start has returned, and main only when it leaves.                       *)
(***************************************************************************)
Phases ==
    /\ main \in {"configure", "connect", "start", "await", "undo"} =>
          /\ state = "initializing" /\ ~ stop /\ coreClient # "closed"
          /\ \A c \in Closers : closing[c] = "idle"
    /\ closing["main"] = "idle" <=> main # "leave"
    /\ state = "initializing" \/ interrupts = 0 => closing["signal"] = "idle"
    /\ main = "wait" => state # "initializing"
    /\ \A c \in Closers :
          stopping[c] # {} => \/ closing[c] = "modules"
                              \/ c = "main" /\ main = "undo"
    /\ \A c \in Closers :
          failed[c] => \/ closing[c] \in {"modules", "returned"}
                       \/ c = "main" /\ main = "undo"

(***************************************************************************)
(* The services while Start goes through the modules.                      *)
(***************************************************************************)
Up(m) == service[m] = "started" /\ serviceAlive[m]

Starting ==
    /\ \A m \in Modules : service[m] = "started" <=> serviceAlive[m]
    /\ main \in {"configure", "connect"} =>
          \A m \in Modules : service[m] = "new"
    /\ main \in {"start", "await"} => \A m \in todo : service[m] = "new"
    /\ main = "start" => \A m \in Modules \ todo : Up(m)
    /\ main = "await" =>
          \E m \in Modules \ todo :
              /\ service[m] \in {"starting", "up", "down"}
              /\ \A n \in Modules \ (todo \cup {m}) : Up(n)
    /\ main \notin {"await"} =>
          \A m \in Modules : service[m] \notin {"starting", "up", "down"}

(***************************************************************************)
(* The modules while they are being stopped, and what remains of a Close.  *)
(***************************************************************************)
Stopping ==
    /\ \A c \in Closers : \A m \in Modules :
          /\ closing[c] = "modules" \/ (c = "main" /\ main = "undo")
          /\ ~ failed[c] /\ m \notin stopping[c]
          => ~ serviceAlive[m]
    /\ \A c \in Closers :
          closing[c] = "stopped" => \A m \in Modules : ~ serviceAlive[m]
    /\ state = "closed" => \A m \in Modules : ~ serviceAlive[m]
    /\ state = "running" /\ (\A c \in Closers : ~ failed[c]
                                 /\ closing[c] \notin {"modules", "stopped"})
          => \A m \in Modules : Up(m)
    /\ \A c \in Closers :
          closing[c] = "returned" /\ ~ failed[c] => state = "closed"
    /\ \A c \in Closers :
          closing[c] \in {"client", "unheard", "modules", "stopped"} =>
              state # "closed"

(***************************************************************************)
(* What is closed: by a Close that is still at it, or by one that is done. *)
(***************************************************************************)
ClosedOnce ==
    (\A c \in Closers : ~ failed[c]) =>
        /\ coreClient = "closed" => \/ state = "closed"
                                    \/ \E c \in Closers : closing[c] \in
                                                      {"modules", "stopped"}
        /\ stop => \/ state = "closed"
                   \/ \E c \in Closers : closing[c] = "stopped"

(***************************************************************************)
(* How the process ended.                                                  *)
(***************************************************************************)
Ended ==
    /\ fate = "fatal" => main = "undo" /\ stopping["main"] = {}
    /\ fate = "exited" => closing["main"] = "returned"

LifeInv ==
    /\ LifecycleTypeOK /\ ClosingType
    /\ Phases /\ Starting /\ Stopping /\ ClosedOnce /\ Ended /\ NoPanic

(***************************************************************************)
(* Nothing has happened yet.                                               *)
(***************************************************************************)
LEMMA LifeInit == LifecycleInit => LifeInv
<1>. SUFFICES ASSUME LifecycleInit PROVE LifeInv
  OBVIOUS
<1>1. LifecycleTypeOK
  BY InterruptsAssumption DEF LifecycleInit, LifecycleTypeOK, Inside, Closers
<1>2. ClosingType
  BY DEF LifecycleInit, ClosingType, Closers
<1>3. Phases
  BY DEF LifecycleInit, Phases, Closers
<1>4. Starting
  BY DEF LifecycleInit, Starting, Up
<1>5. Stopping
  BY DEF LifecycleInit, Stopping, Up, Closers
<1>6. ClosedOnce
  BY DEF LifecycleInit, ClosedOnce, Closers
<1>7. Ended
  BY DEF LifecycleInit, Ended
<1>8. NoPanic
  BY DEF LifecycleInit, NoPanic
<1>. QED  BY <1>1, <1>2, <1>3, <1>4, <1>5, <1>6, <1>7, <1>8 DEF LifeInv

(***************************************************************************)
(* Main, up to the start: the services are new and nobody closes anything. *)
(***************************************************************************)
LEMMA MakeCoreClientStep ==
    ASSUME LifeInv, fate = "running", MakeCoreClient
    PROVE  LifeInv'
BY DEF LifeInv, LifecycleTypeOK, ClosingType, Phases, Starting, Stopping,
       ClosedOnce, Ended, NoPanic, Inside, serviceVars, MakeCoreClient

LEMMA ConfigureModuleStep ==
    ASSUME LifeInv, NEW m \in Modules, fate = "running", ConfigureModule(m)
    PROVE  LifeInv'
BY DEF LifeInv, LifecycleTypeOK, ClosingType, Phases, Starting, Stopping,
       ClosedOnce, Ended, NoPanic, Inside, Closers, serviceVars, Leave,
       ConfigureModule

(***************************************************************************)
(* Start: main takes the lock, starts the modules one after the other, and *)
(* lets go of the lock when all are up, or dies.                           *)
(***************************************************************************)
LEMMA StartBeginStep ==
    ASSUME LifeInv, fate = "running", StartBegin
    PROVE  LifeInv'
BY DEF LifeInv, LifecycleTypeOK, ClosingType, Phases, Starting, Stopping,
       ClosedOnce, Ended, NoPanic, Inside, Closers, serviceVars, StartBegin

LEMMA StartModuleStep ==
    ASSUME LifeInv, NEW m \in Modules, fate = "running", StartModule(m)
    PROVE  LifeInv'
BY DEF LifeInv, LifecycleTypeOK, ClosingType, Phases, Starting, Stopping,
       ClosedOnce, Ended, NoPanic, Inside, Up, closeVars, StartModule

LEMMA StartEndStep ==
    ASSUME LifeInv, fate = "running", StartEnd
    PROVE  LifeInv'
BY DEF LifeInv, LifecycleTypeOK, ClosingType, Phases, Starting, Stopping,
       ClosedOnce, Ended, NoPanic, Inside, Up, Closers, serviceVars, StartEnd

LEMMA StartFailedStep ==
    ASSUME LifeInv, fate = "running", StartFailed
    PROVE  LifeInv'
BY DEF LifeInv, LifecycleTypeOK, ClosingType, Phases, Starting, Stopping,
       ClosedOnce, Ended, NoPanic, Inside, mainVars, serviceVars, closeVars,
       StartFailed

(***************************************************************************)
(* Main after the start: it waits for c.stop, closes and exits.            *)
(***************************************************************************)
LEMMA WaitEndStep ==
    ASSUME LifeInv, fate = "running", WaitEnd
    PROVE  LifeInv'
BY DEF LifeInv, LifecycleTypeOK, ClosingType, Phases, Starting, Stopping,
       ClosedOnce, Ended, NoPanic, Inside, Closers, serviceVars, Leave,
       WaitEnd

LEMMA ExitStep ==
    ASSUME LifeInv, fate = "running", Exit
    PROVE  LifeInv'
BY DEF LifeInv, LifecycleTypeOK, ClosingType, Phases, Starting, Stopping,
       ClosedOnce, Ended, NoPanic, Inside, Up, mainVars, serviceVars,
       closeVars, Exit

(***************************************************************************)
(* The first interrupt starts the other Close; it was not there before.    *)
(***************************************************************************)
LEMMA InterruptStep ==
    ASSUME LifeInv, fate = "running", Interrupt
    PROVE  LifeInv'
BY InterruptsAssumption DEF LifeInv, LifecycleTypeOK, ClosingType, Phases,
       Starting, Stopping, ClosedOnce, Ended, NoPanic, Inside, Up, Closers,
       mainVars, serviceVars, Interrupt

(***************************************************************************)
(* The module whose Start main awaits, the only one in that state: its     *)
(* result puts main back in the loop, or in the one that stops them all.   *)
(***************************************************************************)
LEMMA ServiceStartStep ==
    ASSUME LifeInv, NEW m \in Modules, fate = "running", ServiceStart(m)
    PROVE  LifeInv'
BY DEF LifeInv, LifecycleTypeOK, ClosingType, Phases, Starting, Stopping,
       ClosedOnce, Ended, NoPanic, Inside, Up, mainVars, closeVars,
       ServiceStart

LEMMA ServiceReportStep ==
    ASSUME LifeInv, NEW m \in Modules, fate = "running", ServiceReport(m)
    PROVE  LifeInv'
<1>1. LifecycleTypeOK'
  BY DEF LifeInv, LifecycleTypeOK, Inside, ServiceReport
<1>2. ClosingType'
  BY DEF LifeInv, ClosingType, ServiceReport
<1>3. Phases'
  BY DEF LifeInv, ClosingType, Phases, ServiceReport
<1>4. Starting'
  BY DEF LifeInv, LifecycleTypeOK, ClosingType, Starting, Up, Closers,
         ServiceReport
<1>5. Stopping'
  BY DEF LifeInv, ClosingType, Phases, Stopping, ServiceReport
<1>6. ClosedOnce'
  BY DEF LifeInv, ClosedOnce, ServiceReport
<1>7. Ended'
  BY DEF LifeInv, Ended, ServiceReport
<1>8. NoPanic'
  BY DEF LifeInv, NoPanic, ServiceReport
<1>. QED  BY <1>1, <1>2, <1>3, <1>4, <1>5, <1>6, <1>7, <1>8 DEF LifeInv

LEMMA StartTimeoutStep ==
    ASSUME LifeInv, NEW m \in Modules, fate = "running", StartTimeout(m)
    PROVE  LifeInv'
BY DEF LifeInv, LifecycleTypeOK, ClosingType, Phases, Starting, Stopping,
       ClosedOnce, Ended, NoPanic, Inside, Up, Closers, StartTimeout

LEMMA LateStartStep ==
    ASSUME LifeInv, NEW m \in Modules, fate = "running", LateStart(m)
    PROVE  LifeInv'
BY DEF LifeInv, LifecycleTypeOK, ClosingType, Phases, Starting, Stopping,
       ClosedOnce, Ended, NoPanic, Inside, Up, mainVars, serviceVars,
       closeVars, LateStart

(***************************************************************************)
(* A Close: what it closes was open, for the other Close is not inside,    *)
(* and if it has been there without a failure the state is closed.         *)
(***************************************************************************)
LEMMA CloseLockStep ==
    ASSUME LifeInv, NEW c \in Closers, fate = "running", CloseLock(c)
    PROVE  LifeInv'
BY DEF LifeInv, LifecycleTypeOK, ClosingType, Phases, Starting, Stopping,
       ClosedOnce, Ended, NoPanic, Inside, Up, Closers, mainVars, serviceVars,
       CloseLock

LEMMA CloseClientStep ==
    ASSUME LifeInv, NEW c \in Closers, fate = "running", CloseClient(c)
    PROVE  LifeInv'
<1>1. LifecycleTypeOK'
  BY DEF LifeInv, LifecycleTypeOK, ClosingType, Inside, mainVars,
         serviceVars, CloseClient
<1>2. ClosingType'
  BY DEF LifeInv, ClosingType, mainVars, serviceVars, CloseClient
<1>3. Phases'
  BY DEF LifeInv, ClosingType, Phases, Closers, mainVars, CloseClient
<1>4. Starting'
  BY DEF LifeInv, Starting, Up, mainVars, serviceVars, CloseClient
<1>5. Stopping'
  BY DEF LifeInv, LifecycleTypeOK, ClosingType, Stopping, Inside, Up,
         mainVars, serviceVars, CloseClient
<1>6. ClosedOnce'
  BY DEF LifeInv, ClosingType, ClosedOnce, CloseClient
<1>7. Ended'
  BY DEF LifeInv, ClosingType, Ended, CloseClient, mainVars
<1>8. NoPanic'
  BY DEF LifeInv, LifecycleTypeOK, ClosingType, Stopping, ClosedOnce,
         NoPanic, Inside, CloseClient, serviceVars
<1>. QED  BY <1>1, <1>2, <1>3, <1>4, <1>5, <1>6, <1>7, <1>8 DEF LifeInv

LEMMA CloseStopStep ==
    ASSUME LifeInv, NEW c \in Closers, fate = "running", CloseStop(c)
    PROVE  LifeInv'
<1>1. LifecycleTypeOK'
  BY DEF LifeInv, LifecycleTypeOK, ClosingType, Phases, Inside, Closers,
         mainVars, serviceVars, CloseStop
<1>2. ClosingType'
  BY DEF LifeInv, ClosingType, mainVars, serviceVars, CloseStop
<1>3. Phases'
  BY DEF LifeInv, ClosingType, Phases, Closers, mainVars, CloseStop
<1>4. Starting'
  BY DEF LifeInv, Phases, Starting, mainVars, serviceVars, CloseStop
<1>5. Stopping'
  BY DEF LifeInv, ClosingType, Stopping, mainVars, serviceVars, CloseStop
<1>6. ClosedOnce'
  BY DEF LifeInv, ClosingType, ClosedOnce, CloseStop
<1>7. Ended'
  BY DEF LifeInv, Ended, CloseStop
<1>8. NoPanic'
  BY DEF LifeInv, LifecycleTypeOK, Stopping, ClosedOnce, NoPanic, Inside,
         CloseStop
<1>. QED  BY <1>1, <1>2, <1>3, <1>4, <1>5, <1>6, <1>7, <1>8 DEF LifeInv

LEMMA CloseEndStep ==
    ASSUME LifeInv, NEW c \in Closers, fate = "running", CloseEnd(c)
    PROVE  LifeInv'
BY DEF LifeInv, LifecycleTypeOK, ClosingType, Phases, Starting, Stopping,
       ClosedOnce, Ended, NoPanic, Inside, Closers, mainVars, serviceVars,
       CloseEnd

(***************************************************************************)
(* The loop that stops: a module is down once the loop is past it, unless  *)
(* its Stop failed.                                                        *)
(***************************************************************************)
LEMMA StopModuleStep ==
    ASSUME LifeInv, NEW c \in Closers, NEW m \in Modules,
           fate = "running", StopModule(c, m)
    PROVE  LifeInv'
<1>1. LifecycleTypeOK'
  BY DEF LifeInv, LifecycleTypeOK, Inside, mainVars, serviceVars, StopModule
<1>2. ClosingType'
  BY DEF LifeInv, ClosingType, mainVars, serviceVars, StopModule
<1>3. Phases'
  BY DEF LifeInv, ClosingType, Phases, mainVars, StopModule
<1>4. Starting'
  BY DEF LifeInv, LifecycleTypeOK, ClosingType, Phases, Starting, mainVars,
         serviceVars, StopModule
<1>5. Stopping'
  BY DEF LifeInv, ClosingType, Phases, Stopping, mainVars, serviceVars,
         StopModule
<1>6. ClosedOnce'
  BY DEF LifeInv, ClosingType, ClosedOnce, StopModule
<1>7. Ended'
  BY DEF LifeInv, Ended, StopModule
<1>8. NoPanic'
  BY DEF LifeInv, NoPanic, StopModule
<1>. QED  BY <1>1, <1>2, <1>3, <1>4, <1>5, <1>6, <1>7, <1>8 DEF LifeInv

(***************************************************************************)
(* The invariant holds in every state: a step of the process is one of the *)
(* steps above, and a process that has ended takes none.                   *)
(***************************************************************************)
THEOREM LifeInvariant == LifecycleSpec => []LifeInv
<1>1. ASSUME LifeInv, LifecycleNext
      PROVE  LifeInv'
  <2>1. fate = "running"
    BY <1>1 DEF LifecycleNext
  <2>2. CASE MainStep
    BY <1>1, <2>1, <2>2, MakeCoreClientStep, ConfigureModuleStep,
       StartBeginStep, StartModuleStep, StartEndStep, StartFailedStep,
       WaitEndStep, ExitStep
    DEF MainStep
  <2>3. CASE Interrupt
    BY <1>1, <2>1, <2>3, InterruptStep
  <2>4. ASSUME NEW m \in Modules, ServiceStep(m)
        PROVE  LifeInv'
    BY <1>1, <2>1, <2>4, ServiceStartStep, ServiceReportStep,
       StartTimeoutStep, LateStartStep
    DEF ServiceStep
  <2>5. ASSUME NEW c \in Closers, CloseStep(c)
        PROVE  LifeInv'
    BY <1>1, <2>1, <2>5, CloseLockStep, CloseClientStep, CloseStopStep,
       CloseEndStep, StopModuleStep
    DEF CloseStep
  <2>. QED  BY <1>1, <2>2, <2>3, <2>4, <2>5 DEF LifecycleNext
<1>2. ASSUME LifeInv, UNCHANGED vars
      PROVE  LifeInv'
  BY <1>2
  DEF LifeInv, LifecycleTypeOK, ClosingType, Phases, Starting, Stopping,
      ClosedOnce, Ended, NoPanic, Inside, Up, vars, mainVars, serviceVars,
      closeVars
<1>. QED  BY <1>1, <1>2, LifeInit, PTL DEF LifecycleSpec

(***************************************************************************)
(* Start and Close exclude each other: whoever is between Lock and Unlock  *)
(* of startStopLock holds it, and nobody else is (core.go:174, 211).       *)
(***************************************************************************)
THEOREM LifecycleTypeCorrect == LifecycleSpec => []LifecycleTypeOK
<1>1. LifeInv => LifecycleTypeOK
  BY DEF LifeInv
<1>. QED  BY <1>1, LifeInvariant, PTL

(***************************************************************************)
(* The Close of the signal handler and the deferred Close of main do not   *)
(* both close the client and c.stop, whatever their order                  *)
(* (core.go:210-266, coreCli.go:104, 181).                                 *)
(***************************************************************************)
THEOREM NoDoubleClose == LifecycleSpec => []NoPanic
<1>1. LifeInv => NoPanic
  BY DEF LifeInv
<1>. QED  BY <1>1, LifeInvariant, PTL

(***************************************************************************)
(* A core that is running has its modules up and one that is closed has    *)
(* them down (core.go:203, 253).                                           *)
(***************************************************************************)
THEOREM StateTellsOfModules == LifecycleSpec => []StateOfModules
<1>1. LifeInv => StateOfModules
  BY DEF LifeInv, Stopping, Up, StateOfModules, Inside
<1>. QED  BY <1>1, LifeInvariant, PTL

(***************************************************************************)
(* The process does not leave a service running when it exits, or when it  *)
(* gives up on a Start (core.go:194, 253).                                 *)
(***************************************************************************)
THEOREM ServicesStopped == LifecycleSpec => []StartedAreStopped
<1>1. LifeInv => StartedAreStopped
  BY DEF LifeInv, Starting, Stopping, Ended, StartedAreStopped, Closers
<1>. QED  BY <1>1, LifeInvariant, PTL

-----------------------------------------------------------------------------
Seen == moduleFlags \ left

SeenForks == Seen \cap (Networks \cup {ForkVersion})

RefusedInLoop == Plain \cup {Entries, GenesisTime}

FlagsTypeOK ==
    /\ moduleFlags \subseteq FlagNames /\ unreadable \subseteq Valued
    /\ unreadable \subseteq moduleFlags /\ left \subseteq moduleFlags
    /\ parsing \in {"no", "loop", "accepted", "refused"}
    /\ customGenesisTime \in BOOLEAN /\ customForkVersion \in BOOLEAN
    /\ relayConfig \in
          [relays : BOOLEAN, relayCheck : BOOLEAN, signatureCheck : BOOLEAN,
           fork : {"default", ForkVersion} \cup Networks,
           time : {"default", GenesisTime} \cup Networks]

Remembered ==
    /\ customForkVersion <=> ForkVersion \in Seen
    /\ customGenesisTime <=> GenesisTime \in Seen
    /\ forkVersionFlagNameSet = SeenForks
    /\ \A f, g \in SeenForks : f = g
    /\ Seen \cap unreadable \cap RefusedInLoop = {}

Built ==
    /\ relayConfig.relays <=> Entries \in Seen
    /\ relayConfig.signatureCheck <=> SkipSignatureCheck \notin Seen
    /\ relayConfig.fork \in (IF SeenForks = {} THEN {"default"} ELSE SeenForks)
    /\ relayConfig.time = IF Seen \cap Networks # {} THEN relayConfig.fork
                          ELSE IF GenesisTime \in Seen THEN GenesisTime
                          ELSE "default"

FlagsInv == FlagsTypeOK /\ Remembered /\ Built /\ FlagsDecide

-----------------------------------------------------------------------------
\* Nothing is met before the loop begins (utils.go:275-279).
LEMMA FlagsInitially == FlagsInit(Settings) => FlagsInv
<1> SUFFICES ASSUME FlagsInit(Settings) PROVE FlagsInv
  OBVIOUS
<1> USE DEF FlagsInit, Settings
<1>1. FlagsTypeOK
  BY DEF FlagsTypeOK, Defaults
<1>2. Seen = {}
  BY DEF Seen
<1>3. Remembered
  BY <1>2 DEF Remembered, SeenForks
<1>4. Built
  BY <1>2 DEF Built, SeenForks, Defaults
<1>5. FlagsDecide
  BY DEF FlagsDecide
<1> QED
  BY <1>1, <1>3, <1>4, <1>5 DEF FlagsInv

\* The names of the flags are different ones (relay/config/flags.go).
LEMMA FlagsDiffer ==
    /\ ForkVersion \notin Networks /\ GenesisTime \notin Networks
    /\ Entries \notin Networks /\ SkipSignatureCheck \notin Networks
    /\ "default" \notin Networks /\ "default" \notin Valued
    /\ Networks \cap Valued = {}
  BY FlagsAssumption DEF ForkVersion, GenesisTime, Entries, Check,
        SkipSignatureCheck, Valued

\* The loop takes in one more flag (utils.go:279-370).
LEMMA FlagParsed ==
    ASSUME FlagsInv, NEW f \in FlagNames, ParseFlag(f)
    PROVE  FlagsInv'
<1> USE DEF FlagsInv
<1>1. /\ f \in moduleFlags /\ f \notin Seen
      /\ Seen' = Seen \cup {f} /\ moduleFlags' = moduleFlags
      /\ unreadable' = unreadable
  BY DEF ParseFlag, Seen, FlagsTypeOK
<1>2. /\ f \in Networks => SeenForks = {} /\ ForkVersion \notin Seen
      /\ f \in {ForkVersion, GenesisTime} => SeenForks \subseteq {ForkVersion}
      /\ f \notin unreadable \cap RefusedInLoop
  BY DEF ParseFlag, Refuses, Remembered, RefusedInLoop
<1>3. f = ForkVersion => SeenForks = {}
  BY <1>1, <1>2 DEF SeenForks
<1>4. SeenForks' = IF f \in Networks \cup {ForkVersion} THEN {f} ELSE SeenForks
  BY <1>1, <1>2, <1>3 DEF SeenForks
<1>5. FlagsTypeOK'
  BY <1>1 DEF ParseFlag, FlagsTypeOK, Configured, FlagNames
<1>6. Remembered'
  <2>1. customForkVersion' <=> ForkVersion \in Seen'
    BY <1>1 DEF ParseFlag, Remembered
  <2>2. customGenesisTime' <=> GenesisTime \in Seen'
    BY <1>1 DEF ParseFlag, Remembered
  <2>3. forkVersionFlagNameSet' = SeenForks'
    BY <1>4 DEF ParseFlag, Remembered
  <2>4. \A g, h \in SeenForks' : g = h
    BY <1>4 DEF Remembered
  <2>5. Seen' \cap unreadable' \cap RefusedInLoop = {}
    BY <1>1, <1>2 DEF Remembered
  <2> QED
    BY <2>1, <2>2, <2>3, <2>4, <2>5 DEF Remembered, RefusedInLoop
<1>7. Built'
  <2> USE <1>1, FlagsDiffer
  <2>1. relayConfig'.relays <=> Entries \in Seen'
    BY DEF ParseFlag, Configured, Built, FlagsTypeOK
  <2>2. relayConfig'.signatureCheck <=> SkipSignatureCheck \notin Seen'
    BY DEF ParseFlag, Configured, Built, FlagsTypeOK
  <2>3. relayConfig'.fork \in
            (IF SeenForks' = {} THEN {"default"} ELSE SeenForks')
    BY <1>4 DEF ParseFlag, Configured, Built
  <2>4. relayConfig'.time = IF Seen' \cap Networks # {} THEN relayConfig'.fork
                            ELSE IF GenesisTime \in Seen' THEN GenesisTime
                            ELSE "default"
    <3>1. CASE f \in Networks
      BY <3>1 DEF ParseFlag, Configured
    <3>2. CASE f = GenesisTime
      <4>1. Seen \cap Networks = {}
        BY <3>2, <1>2 DEF SeenForks
      <4> QED
        BY <3>2, <4>1 DEF ParseFlag, Configured
    <3>3. CASE f = ForkVersion
      <4>1. Seen \cap Networks = {}
        BY <3>3, <1>3 DEF SeenForks
      <4> QED
        BY <3>3, <4>1 DEF ParseFlag, Configured, Built, ForkVersion, GenesisTime
    <3>4. CASE f \notin Networks \cup {GenesisTime, ForkVersion}
      BY <3>4 DEF ParseFlag, Configured, Built
    <3> QED
      BY <3>1, <3>2, <3>3, <3>4
  <2> QED
    BY <2>1, <2>2, <2>3, <2>4 DEF Built
<1>8. FlagsDecide'
  BY DEF ParseFlag, FlagsDecide
<1> QED
  BY <1>5, <1>6, <1>7, <1>8

\* A flag is refused only if the flags are not compatible (utils.go:310-345).
LEMMA FlagRefused ==
    ASSUME FlagsInv, NEW f \in FlagNames, RefuseFlag(f)
    PROVE  FlagsInv'
<1> USE DEF FlagsInv
<1>1. UNCHANGED <<moduleFlags, unreadable, left, forkVersionFlagNameSet,
                  customGenesisTime, customForkVersion, relayConfig>>
      /\ parsing' = "refused" /\ f \in moduleFlags /\ f \notin Seen /\ Refuses(f)
  BY DEF RefuseFlag, FlagsTypeOK, Seen
<1>2. FlagsTypeOK' /\ Remembered' /\ Built'
  BY <1>1 DEF FlagsTypeOK, Remembered, Built, Seen, SeenForks, RefusedInLoop
<1>3. ~ Compatible
  <2>0. SeenForks \subseteq Forks
    BY DEF SeenForks, Seen, Forks
  <2>1. CASE f \in unreadable \cap RefusedInLoop
    BY <2>1 DEF Compatible, RefusedInLoop
  <2>2. CASE f \in Networks /\ (forkVersionFlagNameSet # {} \/ customForkVersion)
    <3>1. PICK g \in SeenForks : TRUE
      BY <2>2 DEF Remembered, SeenForks
    <3>2. f \in Forks /\ g \in Forks /\ f # g
      BY <3>1, <2>0, <2>2, <1>1 DEF SeenForks, Forks
    <3> QED
      BY <3>2 DEF Compatible
  <2>3. CASE /\ f \in {ForkVersion, GenesisTime}
             /\ ~ forkVersionFlagNameSet \subseteq {ForkVersion}
    <3>1. PICK g \in SeenForks : g # ForkVersion
      BY <2>3 DEF Remembered
    <3>2. g \in Forks
      BY <2>0
    <3>3. ForkVersion \notin Forks \/ ~ Compatible
      BY <3>1, <3>2 DEF Compatible
    <3>4. f = ForkVersion => ForkVersion \in Forks
      BY <1>1 DEF Forks
    <3>5. f = GenesisTime /\ Compatible => ForkVersion \in Forks
      BY <1>1 DEF Compatible, Forks
    <3> QED
      BY <2>3, <3>3, <3>4, <3>5
  <2> QED
    BY <1>1, <2>1, <2>2, <2>3 DEF Refuses, RefusedInLoop
<1>4. FlagsDecide'
  BY <1>1, <1>3 DEF FlagsDecide, Compatible, Forks
<1> QED
  BY <1>2, <1>4

\* Behind the loop every flag has been met (utils.go:372, relay.go:96-112).
LEMMA FlagsDecided ==
    ASSUME FlagsInv, ParseEnd
    PROVE  FlagsInv'
<1> USE DEF FlagsInv
<1>1. UNCHANGED <<moduleFlags, unreadable, left, forkVersionFlagNameSet,
                  customGenesisTime, customForkVersion, relayConfig>>
      /\ Seen = moduleFlags /\ SeenForks = Forks
  BY DEF ParseEnd, Seen, SeenForks, Forks
<1>2. FlagsTypeOK' /\ Remembered' /\ Built'
  BY <1>1 DEF ParseEnd, FlagsTypeOK, Remembered, Built, Seen, SeenForks,
              RefusedInLoop
<1>3. relayConfig.fork \in unreadable <=> ForkVersion \in unreadable
  <2>1. relayConfig.fork \in unreadable => relayConfig.fork = ForkVersion
    BY FlagsDiffer DEF FlagsTypeOK
  <2>2. ForkVersion \in unreadable => ForkVersion \in Forks
    BY DEF FlagsTypeOK, Forks
  <2>3. ForkVersion \in Forks => relayConfig.fork = ForkVersion
    BY <1>1 DEF Built, Remembered
  <2> QED
    BY <2>1, <2>2, <2>3
<1>4. parsing' = IF Compatible THEN "accepted" ELSE "refused"
  <2>1. unreadable \cap RefusedInLoop = {}
    BY <1>1 DEF Remembered, FlagsTypeOK
  <2>2. \A f, g \in Forks : f = g
    BY <1>1 DEF Remembered
  <2>3. Compatible <=> ~ \/ customGenesisTime /\ ~ customForkVersion
                         \/ /\ relayConfig.signatureCheck
                            /\ relayConfig.fork \in unreadable
                         \/ ~ relayConfig.relays
    BY <1>1, <1>3, <2>1, <2>2 DEF Compatible, Remembered, Built, RefusedInLoop
  <2> QED
    BY <2>3 DEF ParseEnd
<1>5. Compatible =>
        /\ relayConfig.fork \in (IF Forks = {} THEN {"default"} ELSE Forks)
        /\ relayConfig.time = IF GenesisTime \in moduleFlags THEN GenesisTime
                              ELSE IF relayConfig.fork = ForkVersion
                              THEN "default" ELSE relayConfig.fork
  <2> SUFFICES ASSUME Compatible
               PROVE  relayConfig.time =
                        IF GenesisTime \in moduleFlags THEN GenesisTime
                        ELSE IF relayConfig.fork = ForkVersion
                        THEN "default" ELSE relayConfig.fork
    BY <1>1 DEF Built
  <2>1. CASE Seen \cap Networks # {}
    <3>1. PICK n \in Forks : n \in Networks
      BY <2>1, <1>1 DEF Forks
    <3>2. relayConfig.fork = n /\ ForkVersion \notin moduleFlags
      BY <3>1, <1>1, FlagsDiffer DEF Compatible, Built, Forks
    <3>3. GenesisTime \notin moduleFlags
      BY <3>2 DEF Compatible
    <3> QED
      BY <2>1, <3>1, <3>2, <3>3, FlagsDiffer DEF Built
  <2>2. CASE Seen \cap Networks = {}
    <3>1. relayConfig.fork \in {"default", ForkVersion}
      BY <2>2, <1>1 DEF Built, Forks
    <3> QED
      BY <2>2, <3>1, <1>1 DEF Built
  <2> QED
    BY <2>1, <2>2
<1>6. FlagsDecide'
  <2>1. Compatible' <=> Compatible
    BY <1>1 DEF Compatible, Forks
  <2>2. Forks' = Forks
    BY <1>1 DEF Forks
  <2> QED
    BY <1>1, <1>4, <1>5, <2>1, <2>2 DEF FlagsDecide
<1> QED
  BY <1>2, <1>6

-----------------------------------------------------------------------------
\* Every step of the parser keeps the invariant (utils.go:275-377).
LEMMA FlagsStep == FlagsInv /\ [FlagsNext]_flagVars => FlagsInv'
<1> SUFFICES ASSUME FlagsInv, [FlagsNext]_flagVars PROVE FlagsInv'
  OBVIOUS
<1>1. CASE ParseBegin
  BY <1>1 DEF ParseBegin, FlagsInv, FlagsTypeOK, Remembered, Built, FlagsDecide,
              Seen, SeenForks, RefusedInLoop
<1>2. CASE UNCHANGED flagVars
  BY <1>2 DEF flagVars, FlagsInv, FlagsTypeOK, Remembered, Built, FlagsDecide,
              Seen, SeenForks, RefusedInLoop, Compatible, Forks
<1> QED
  BY <1>1, <1>2, FlagParsed, FlagRefused, FlagsDecided DEF FlagsNext

(***************************************************************************)
(* Whether the flags of the relay are accepted, and the fork and the time  *)
(* they lead to, do not depend on the order of the Go map (utils.go:275-   *)
(* 377, relay.go:91-112), for any networks and any plain flags.            *)
(***************************************************************************)
THEOREM OrderDoesNotMatter == FlagsSpec => []FlagsDecide
<1>1. FlagsInv => FlagsDecide
  BY DEF FlagsInv
<1> QED
  BY <1>1, FlagsInitially, FlagsStep, PTL DEF FlagsSpec

-----------------------------------------------------------------------------
\* The initial states are initial states of the parts (core.go:45-73).
LEMMA StartupInitially ==
    StartupInit => LifecycleInit /\ FlagsInit(Settings) /\ ListInit
<1> SUFFICES ASSUME StartupInit PROVE FlagsInit(Settings)
  BY DEF StartupInit
<1>1. PICK c \in Configurations : FlagsInit({c})
  BY DEF StartupInit
<1>2. PICK s \in Settings : s.flags = c.flags /\ s.unreadable = c.unreadable
  BY StartupAssumption
<1>3. moduleFlags = c.flags /\ unreadable = c.unreadable
  BY <1>1 DEF FlagsInit
<1> QED
  BY <1>1, <1>2, <1>3 DEF FlagsInit

\* A module that is configured, started or stopped takes part in a step of
\* the life cycle, or does something that it knows nothing of (core.go:80-92,
\* module.go:55-164).
LEMMA StartupIsLifecycle == [StartupNext]_startupVars => [LifecycleNext]_vars
<1> SUFFICES ASSUME StartupNext PROVE [LifecycleNext]_vars
  BY DEF startupVars
<1>0. fate = "running"
  BY DEF StartupNext, Running
<1>1. CASE MainGoesOn
  <2>1. CASE ConfigureRelay
    BY <1>0, <2>1, StartupAssumption DEF ConfigureRelay, LifecycleNext, MainStep
  <2>2. ASSUME NEW m \in Modules, Configure(m) \/ ConnectModule(m)
        PROVE  MainStep
    BY <2>2 DEF Configure, ConnectModule, MainStep
  <2> QED
    BY <1>0, <1>1, <2>1, <2>2 DEF MainGoesOn, LifecycleNext, MainStep, ServiceStep
<1>2. CASE ServiceStarts
  <2>1. Crash => UNCHANGED vars
    BY DEF Crash
  <2>2. ServiceStart(Api) \/ ServiceStart(Relay) \/ ServiceStart(Proxy)
            => LifecycleNext
    BY <1>0, StartupAssumption DEF LifecycleNext, ServiceStep
  <2> QED
    BY <1>2, <2>1, <2>2 DEF ServiceStarts, StartApi, StartRelay, StartProxy
<1>3. CASE Serve
  BY <1>3 DEF Serve, Crash
<1>4. CASE AggregatorServes
  BY <1>4 DEF AggregatorServes, ServeExclude, ServeConnect, SourceNamed
<1>5. CASE Disturbance
  BY <1>0, <1>5 DEF Disturbance, LifecycleNext, ServiceStep
<1>6. ASSUME NEW c \in Closers, CloserGoesOn(c)
      PROVE  LifecycleNext
  BY <1>0, <1>6, StartupAssumption
  DEF CloserGoesOn, StopApi, StopOther, LifecycleNext, CloseStep
<1> QED
  BY <1>1, <1>2, <1>3, <1>4, <1>5, <1>6 DEF StartupNext

\* Only the configuration of the relay module touches the parser (relay.go:
\* 91).
LEMMA StartupIsParsing == [StartupNext]_startupVars => [FlagsNext]_flagVars
<1> SUFFICES ASSUME StartupNext PROVE [FlagsNext]_flagVars
  BY DEF startupVars
<1>1. CASE MainGoesOn
  BY <1>1 DEF MainGoesOn, ConfigureRelay, Configure, ConnectModule,
              OthersUnchanged, FlagsNext
<1>2. CASE ServiceStarts
  BY <1>2 DEF ServiceStarts, StartApi, StartRelay, StartProxy, Crash, Notify,
              OthersUnchanged
<1>3. CASE Serve \/ AggregatorServes \/ Disturbance
  BY <1>3 DEF Serve, Crash, AggregatorServes, ServeExclude, ServeConnect,
              SourceNamed, Disturbance, OthersUnchanged
<1>4. ASSUME NEW c \in Closers, CloserGoesOn(c)
      PROVE  UNCHANGED flagVars
  BY <1>4 DEF CloserGoesOn, StopApi, StopOther, OthersUnchanged
<1> QED
  BY <1>1, <1>2, <1>3, <1>4 DEF StartupNext

\* Only what the aggregator serves touches its lists (block-aggregator/
\* service.go:102-204).
LEMMA StartupIsLists == [StartupNext]_startupVars => [ListNext]_listVars
<1> SUFFICES ASSUME StartupNext PROVE [ListNext]_listVars
  BY DEF startupVars
<1>1. CASE MainGoesOn
  BY <1>1 DEF MainGoesOn, ConfigureRelay, Configure, ConnectModule,
              OthersUnchanged
<1>2. CASE ServiceStarts
  BY <1>2 DEF ServiceStarts, StartApi, StartRelay, StartProxy, Crash, Notify,
              OthersUnchanged
<1>3. CASE Serve \/ Disturbance
  BY <1>3 DEF Serve, Crash, Disturbance, OthersUnchanged
<1>4. CASE AggregatorServes
  BY <1>4, StartupAssumption DEF AggregatorServes, ServeExclude, ServeConnect,
              SourceNamed, ListNext
<1>5. ASSUME NEW c \in Closers, CloserGoesOn(c)
      PROVE  UNCHANGED listVars
  BY <1>5 DEF CloserGoesOn, StopApi, StopOther, OthersUnchanged
<1> QED
  BY <1>1, <1>2, <1>3, <1>4, <1>5 DEF StartupNext

(***************************************************************************)
(* The process with its modules is a process as CoreLifecycle describes    *)
(* it, parses flags as RelayFlags does and keeps lists as BlockSources     *)
(* does, for every set of command lines (core.go, relay.go, external-      *)
(* validator-proxy/service.go, builder-api/server.go).                     *)
(***************************************************************************)
THEOREM Composition == StartupSpec => LifecycleSpec /\ FlagsSpec /\ ListSpec
  BY StartupInitially, StartupIsLifecycle, StartupIsParsing, StartupIsLists, PTL
  DEF StartupSpec, LifecycleSpec, FlagsSpec, ListSpec

(***************************************************************************)
(* What is proved of the parts holds of the process: no double close, no   *)
(* service left behind, and a verdict on the flags that does not depend on *)
(* their order.                                                            *)
(***************************************************************************)
THEOREM WholeIsCorrect ==
    StartupSpec => [](/\ NoPanic /\ StateOfModules /\ StartedAreStopped
                      /\ FlagsDecide)
  BY Composition, NoDoubleClose, StateTellsOfModules, ServicesStopped,
     OrderDoesNotMatter, PTL

-----------------------------------------------------------------------------
(***************************************************************************)
(* The server exists from its Start to its Stop, the module being started  *)
(* once; only a server that is not closed is listened on.                  *)
(***************************************************************************)
FollowedNil ==
    \/ "" \in {listen} \cup Range(addresses)
    \/ serving = "ready" /\ ~ serviceAlive[Api]

ServerInv ==
    /\ service[Api] \in {"new", "starting"} => srv = "nil" /\ serving = "none"
    /\ srv = "new" => service[Api] \in {"up", "started", "late"}
    /\ service[Api] = "up" => srv = "new"
    /\ service[Api] = "late" => main = "undo"
    /\ serving = "listening" => srv = "new"
    /\ serviceAlive[Api] => srv # "nil"
    /\ crashed => FollowedNil

\* what the server depends on stays
ServerUnchanged ==
    UNCHANGED <<apiVars, listen, addresses, crashed>>
    /\ service'[Api] = service[Api] /\ serviceAlive'[Api] = serviceAlive[Api]

LEMMA ServerStays ==
    ASSUME ServerInv, ServerUnchanged,
           service[Api] = "late" /\ main = "undo" => main' = "undo"
    PROVE  ServerInv'
  BY DEF ServerInv, ServerUnchanged, FollowedNil, apiVars

\* The core goes through its modules (core.go:136-258, module.go:55-164).
LEMMA ServerMainStep ==
    ASSUME LifeInv, ServerInv, MainGoesOn, ~ crashed
    PROVE  ServerInv'
<1>1. /\ service \in [Modules -> {"new", "starting", "up", "down", "started",
                                  "failed", "late", "stopped"}]
      /\ serviceAlive \in [Modules -> BOOLEAN]
      /\ Api \in Modules /\ Relay \in Modules /\ Api # Relay
  BY StartupAssumption DEF LifeInv, LifecycleTypeOK, ClosingType, Api, Relay
<1>2. UNCHANGED <<apiVars, listen, addresses, crashed>>
  BY DEF MainGoesOn, ConfigureRelay, Configure, ConnectModule,
         OthersUnchanged, settingVars
<1>3. ASSUME UNCHANGED serviceVars, main # "undo" \/ main' = main
      PROVE  ServerInv'
  BY <1>2, <1>3, ServerStays DEF ServerUnchanged, serviceVars
<1>4. ASSUME NEW m \in Modules, ConfigureModule(m) PROVE ServerInv'
  BY <1>3, <1>4 DEF ConfigureModule
<1>5. CASE ConfigureRelay
  BY <1>1, <1>3, <1>4, <1>5 DEF ConfigureRelay, vars, mainVars
<1>6. ASSUME NEW m \in Modules, StartModule(m) PROVE ServerInv'
  <2>1. service[m] = "new" /\ main = "start" /\ main' = "await"
    BY <1>6 DEF StartModule, LifeInv, Starting
  <2>2. service' = [service EXCEPT ![m] = "starting"]
        /\ serviceAlive' = serviceAlive
    BY <1>6 DEF StartModule
  <2>3. CASE m = Api
    BY <2>1, <2>2, <2>3, <1>1, <1>2 DEF ServerInv, FollowedNil, apiVars
  <2>4. CASE m # Api
    BY <2>1, <2>2, <2>4, <1>1, <1>2, ServerStays DEF ServerUnchanged
  <2> QED
    BY <2>3, <2>4
<1>7. ASSUME NEW m \in Modules, ServiceReport(m) PROVE ServerInv'
  <2>1. /\ main = "await" /\ service[m] \in {"up", "down"}
        /\ service' = [service EXCEPT ![m] =
                          IF @ = "up" THEN "started" ELSE "failed"]
        /\ serviceAlive' = [serviceAlive EXCEPT ![m] = service[m] = "up"]
    BY <1>7 DEF ServiceReport
  <2>2. CASE m = Api
    <3>1. ~ serviceAlive[Api]
      BY <2>1, <2>2, <1>1 DEF LifeInv, Starting
    <3>2. \/ /\ service[Api] = "up" /\ service'[Api] = "started"
             /\ serviceAlive'[Api]
          \/ /\ service[Api] = "down" /\ service'[Api] = "failed"
             /\ ~ serviceAlive'[Api]
      BY <2>1, <2>2, <1>1
    <3> QED
      BY <3>1, <3>2, <1>2 DEF ServerInv, FollowedNil, apiVars
  <2>3. CASE m # Api
    BY <2>1, <2>3, <1>1, <1>2, ServerStays DEF ServerUnchanged
  <2> QED
    BY <2>2, <2>3
<1>8. CASE \/ MakeCoreClient \/ StartBegin \/ StartEnd \/ StartFailed
           \/ WaitEnd \/ Exit
  BY <1>8, <1>3
  DEF MakeCoreClient, StartBegin, StartEnd, StartFailed, WaitEnd, Exit,
      mainVars
<1> QED
  BY <1>4, <1>5, <1>6, <1>7, <1>8 DEF MainGoesOn, Configure, ConnectModule

\* The modules start (server.go:95-137, relay.go:119, external-validator-
\* proxy/service.go:119).
LEMMA ServerStartStep ==
    ASSUME LifeInv, ServerInv, ServiceStarts
    PROVE  ServerInv'
<1>1. /\ service \in [Modules -> {"new", "starting", "up", "down", "started",
                                  "failed", "late", "stopped"}]
      /\ Api \in Modules /\ Relay \in Modules /\ Proxy \in Modules
      /\ Api # Relay /\ Api # Proxy
  BY StartupAssumption DEF LifeInv, LifecycleTypeOK, Api, Relay, Proxy
<1>2. CASE StartApi
  <2>1. CASE listen = "" /\ Crash
    BY <2>1
    DEF Crash, ServerInv, FollowedNil, vars, serviceVars, mainVars, apiVars,
        settingVars
  <2>2. CASE /\ listen # ""
             /\ ServiceStart(Api) /\ service'[Api] = "up"
             /\ srv' = "new" /\ serving' = "ready"
             /\ UNCHANGED <<flagVars, listVars, settingVars, notices, crashed>>
    BY <2>2 DEF ServiceStart, ServerInv, FollowedNil, settingVars
  <2> QED
    BY <1>2, <2>1, <2>2 DEF StartApi
<1>3. ASSUME NEW m \in Modules \ {Api}, ServiceStart(m),
             UNCHANGED <<apiVars, listen, addresses, crashed>>
      PROVE  ServerInv'
  <2>1. service'[Api] = service[Api]
    BY <1>1, <1>3 DEF ServiceStart
  <2> QED
    BY <2>1, <1>3, ServerStays DEF ServiceStart, ServerUnchanged, mainVars
<1>4. CASE StartRelay
  BY <1>1, <1>3, <1>4
  DEF StartRelay, Notify, OthersUnchanged, settingVars
<1>5. CASE StartProxy
  <2>1. CASE "" \in Range(addresses) /\ listen # "" /\ Crash
    BY <2>1
    DEF Crash, ServerInv, FollowedNil, vars, serviceVars, mainVars, apiVars,
        settingVars
  <2>2. CASE ServiceStart(Proxy)
             /\ UNCHANGED <<apiVars, settingVars, crashed>>
    BY <2>2, <1>1, <1>3 DEF settingVars
  <2> QED
    BY <1>5, <2>1, <2>2 DEF StartProxy, Notify, OthersUnchanged
<1> QED
  BY <1>2, <1>4, <1>5 DEF ServiceStarts

\* The server listens, or finds that there is none (server.go:140-160).
LEMMA ServerServeStep ==
    ASSUME LifeInv, ServerInv, Serve, ~ crashed
    PROVE  ServerInv'
<1>1. CASE srv = "nil" /\ Crash
  BY <1>1
  DEF Serve, Crash, ServerInv, FollowedNil, vars, serviceVars, mainVars,
      apiVars, settingVars
<1>2. CASE srv # "nil"
  <2>1. UNCHANGED <<srv, listen, addresses, crashed, main, service,
                    serviceAlive>>
    BY <1>2 DEF Serve, vars, serviceVars, mainVars, settingVars
  <2>2. serving = "ready" /\ (serving' = "listening" => srv = "new")
    BY <1>2 DEF Serve
  <2> QED
    BY <2>1, <2>2 DEF ServerInv
<1> QED
  BY <1>1, <1>2 DEF Serve

\* A Close stops the server (server.go:165-180).
LEMMA ServerCloseStep ==
    ASSUME LifeInv, ServerInv, NEW c \in Closers, CloserGoesOn(c)
    PROVE  ServerInv'
<1>1. /\ service \in [Modules -> {"new", "starting", "up", "down", "started",
                                  "failed", "late", "stopped"}]
      /\ serviceAlive \in [Modules -> BOOLEAN]
      /\ Api \in Modules /\ Relay \in Modules /\ Proxy \in Modules
      /\ Api # Relay /\ Api # Proxy
  BY StartupAssumption
  DEF LifeInv, LifecycleTypeOK, ClosingType, Api, Relay, Proxy
<1>2. CASE StopApi(c)
  <2>1. /\ main' = main /\ UNCHANGED <<listen, addresses, crashed>>
        /\ \/ /\ service'[Api] = service[Api]
              /\ serviceAlive'[Api] = serviceAlive[Api]
           \/ /\ service'[Api] = "stopped" /\ ~ serviceAlive'[Api]
              /\ serviceAlive[Api]
        /\ IF serviceAlive[Api] /\ srv # "nil"
           THEN /\ srv' = IF serviceAlive'[Api] THEN "closed" ELSE "nil"
                /\ serving' = IF serving = "listening" THEN "ended" ELSE serving
           ELSE UNCHANGED apiVars
    BY <1>1, <1>2 DEF StopApi, StopModule, serviceVars, mainVars, settingVars
  <2>2. serviceAlive[Api] <=> service[Api] = "started"
    BY <1>1 DEF LifeInv, Starting
  <2> QED
    BY <2>1, <2>2 DEF ServerInv, FollowedNil, apiVars
<1>3. ASSUME UNCHANGED <<apiVars, listen, addresses, crashed, main>>,
             service'[Api] = service[Api],
             serviceAlive'[Api] = serviceAlive[Api]
      PROVE  ServerInv'
  BY <1>3, ServerStays DEF ServerUnchanged
<1>4. CASE StopOther(c)
  <2>1. ASSUME NEW m \in Modules \ {Api}, StopModule(c, m)
        PROVE  /\ main' = main /\ service'[Api] = service[Api]
               /\ serviceAlive'[Api] = serviceAlive[Api]
    BY <2>1, <1>1 DEF StopModule, serviceVars, mainVars
  <2> QED
    BY <2>1, <1>1, <1>3, <1>4 DEF StopOther, OthersUnchanged, settingVars
<1>5. CASE /\ CloseLock(c) \/ CloseClient(c) \/ CloseStop(c) \/ CloseEnd(c)
           /\ OthersUnchanged
  BY <1>3, <1>5
  DEF CloseLock, CloseClient, CloseStop, CloseEnd, OthersUnchanged,
      settingVars, serviceVars, mainVars
<1> QED
  BY <1>2, <1>4, <1>5 DEF CloserGoesOn

\* A Start takes too long, or an interrupt comes (module.go:86-95).
LEMMA ServerDisturbed ==
    ASSUME LifeInv, ServerInv, Disturbance
    PROVE  ServerInv'
<1>1. /\ service \in [Modules -> {"new", "starting", "up", "down", "started",
                                  "failed", "late", "stopped"}]
      /\ Api \in Modules
      /\ UNCHANGED <<apiVars, listen, addresses, crashed>>
  BY StartupAssumption
  DEF LifeInv, LifecycleTypeOK, Disturbance, OthersUnchanged, settingVars
<1>2. CASE Interrupt \/ \E m \in Modules : LateStart(m)
  BY <1>1, <1>2, ServerStays
  DEF Interrupt, LateStart, ServerUnchanged, serviceVars, mainVars
<1>3. ASSUME NEW m \in Modules, StartTimeout(m) PROVE ServerInv'
  <2>1. /\ service' = [service EXCEPT ![m] = "late"] /\ main' = "undo"
        /\ serviceAlive' = serviceAlive
        /\ service[m] \in {"starting", "up", "down"}
    BY <1>3 DEF StartTimeout
  <2>2. CASE m = Api
    BY <2>1, <2>2, <1>1 DEF ServerInv, FollowedNil, apiVars
  <2>3. CASE m # Api
    BY <2>1, <2>3, <1>1, ServerStays DEF ServerUnchanged
  <2> QED
    BY <2>2, <2>3
<1> QED
  BY <1>2, <1>3 DEF Disturbance

LEMMA ServerNext ==
    LifeInv /\ ServerInv /\ [StartupNext]_startupVars => ServerInv'
<1> SUFFICES ASSUME LifeInv, ServerInv, [StartupNext]_startupVars
             PROVE  ServerInv'
  OBVIOUS
<1>1. CASE AggregatorServes
  BY <1>1, ServerStays
  DEF AggregatorServes, ServeExclude, ServeConnect, SourceNamed,
      ServerUnchanged, vars, mainVars, serviceVars, settingVars
<1>2. CASE UNCHANGED startupVars
  BY <1>2, ServerStays
  DEF startupVars, ServerUnchanged, vars, mainVars, serviceVars, settingVars
<1> QED
  BY <1>1, <1>2, ServerMainStep, ServerStartStep, ServerServeStep,
     ServerCloseStep, ServerDisturbed
  DEF StartupNext, Running

(***************************************************************************)
(* A core that is closed does not listen any more, and the nil server is   *)
(* followed only when the API is stopped before its goroutine has begun    *)
(* (server.go:140-180).                                                    *)
(***************************************************************************)
THEOREM NothingListens == StartupSpec => []ServerStopped
<1>1. StartupInit => ServerInv
  BY StartupAssumption
  DEF StartupInit, LifecycleInit, ServerInv, Api
<1>2. LifeInv /\ ServerInv => ServerStopped
  <2> SUFFICES ASSUME LifeInv, ServerInv, state = "closed",
                      serving = "listening"
               PROVE  FALSE
    BY DEF ServerStopped, ServerInv, FollowedNil
  <2>1. service[Api] \in {"up", "started", "late"} /\ Api \in Modules
    BY StartupAssumption DEF ServerInv
  <2>2. main \notin {"await", "undo"} /\ ~ serviceAlive[Api]
    BY <2>1 DEF LifeInv, Phases, Stopping
  <2> QED
    BY <2>1, <2>2 DEF ServerInv, LifeInv, Starting
<1> QED
  BY <1>1, <1>2, ServerNext, Composition, LifeInvariant, PTL DEF StartupSpec
=============================================================================
