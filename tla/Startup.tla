------------------------------ MODULE Startup -------------------------------
(***************************************************************************)
(* The process with what its modules do when they are configured, started  *)
(* and stopped: the builder API with its HTTP server (modules/builder-api/ *)
(* server.go), the relay module (relay.go) and the validator proxy         *)
(* (external-validator-proxy/service.go), which tell the block aggregator  *)
(* whether they deliver blocks.  It composes the life cycle of the core,   *)
(* the parser of the relay's flags and the lists of the aggregator, whose  *)
(* own Start and Stop do nothing.  A call of the core in use is taken to   *)
(* be answered, see CoreRelay.                                             *)
(***************************************************************************)
EXTENDS CoreLifecycle, RelayFlags, BlockSources

CONSTANTS
    Configurations, \* what the command line may be
    Within          \* pairs of addresses, the first a part of the second

Api == "builderApi"
Relay == "relay"
Proxy == "externalValidatorProxy"

ASSUME StartupAssumption ==
    /\ Modules = {Api, Relay, Proxy}
    /\ {Relay, Proxy} \subseteq Connects \cap Excludable
    /\ \A c \in Configurations : \E s \in Settings :
          s.flags = c.flags /\ s.unreadable = c.unreadable

VARIABLES
    listen,         \* the listen address: a name, "" (a nil URL), "invalid"
    addresses,      \* those of the proxies, <<>> when the flag is not set
    srv,            \* b.srv: nil, new, closed
    serving,        \* the goroutine of Start: none, ready, listening, ended
    notices,        \* notifications that the aggregator has not served
    crashed         \* has a nil pointer ended the process?

settingVars == <<listen, addresses>>
apiVars == <<srv, serving>>
startupVars == <<vars, flagVars, listVars, settingVars, apiVars, notices,
                 crashed>>

StartupInit ==
    /\ LifecycleInit /\ ListInit
    /\ \E c \in Configurations :
        /\ FlagsInit({c}) /\ listen = c.listen /\ addresses = c.addresses
    /\ srv = "nil" /\ serving = "none" /\ notices = {} /\ crashed = FALSE

-----------------------------------------------------------------------------
\* the modules do nothing
OthersUnchanged ==
    UNCHANGED <<flagVars, listVars, settingVars, apiVars, notices, crashed>>

\* strings.Count finds an address in the whole list of them
DuplicateAddress ==
    \E i, j \in DOMAIN addresses :
        /\ i # j
        /\ \/ addresses[i] = addresses[j]
           \/ <<addresses[i], addresses[j]>> \in Within

\* the errors of Configure of the builder API and of the proxy
Invalid(m) ==
    \/ m = Api /\ listen = "invalid"
    \/ /\ m = Proxy
       /\ \/ Len(addresses) > 2 \/ DuplicateAddress
          \/ "invalid" \in Range(addresses)

\* a module without flags is passed over
Configure(m) ==
    /\ main = "configure" /\ m \in {Api, Proxy} /\ parsing # "loop"
    /\ ConfigureModule(m) /\ (main' = "leave" <=> Invalid(m))
    /\ OthersUnchanged

ConfigureRelay ==
    /\ main = "configure" /\ Relay \in todo
    /\ \/ /\ ParseBegin \/ \E f \in FlagNames : ParseFlag(f)
          /\ UNCHANGED vars
       \/ /\ ParseEnd \/ \E f \in FlagNames : RefuseFlag(f)
          /\ ConfigureModule(Relay)
          /\ main' = "leave" <=> parsing' = "refused"
       \/ /\ moduleFlags = {}
          /\ ConfigureModule(Relay) /\ main' = main
          /\ UNCHANGED flagVars
    /\ UNCHANGED <<listVars, settingVars, apiVars, notices, crashed>>

ConnectModule(m) ==
    /\ main = "connect" /\ ConfigureModule(m)
    /\ OthersUnchanged

-----------------------------------------------------------------------------
\* a nil pointer is followed, outside of a callback
Crash ==
    /\ crashed' = TRUE
    /\ UNCHANGED <<vars, flagVars, listVars, settingVars, apiVars, notices>>

StartApi ==
    /\ service[Api] = "starting"
    /\ \/ listen = "" /\ Crash
       \/ /\ listen # ""
          /\ ServiceStart(Api) /\ service'[Api] = "up"
          /\ srv' = "new" /\ serving' = "ready"
          /\ UNCHANGED <<flagVars, listVars, settingVars, notices, crashed>>

\* the goroutine reads b.srv and listens; that the port is taken is logged
Serve ==
    /\ serving = "ready"
    /\ \/ srv = "nil" /\ Crash
       \/ /\ srv # "nil"
          /\ serving' \in IF srv = "new" THEN {"listening", "ended"} ELSE {"ended"}
          /\ UNCHANGED <<vars, flagVars, listVars, settingVars, srv, notices, crashed>>

Notify(notice) ==
    /\ notices' = notices \cup {notice}
    /\ UNCHANGED <<flagVars, listVars, settingVars, apiVars, crashed>>

\* slip: a module that is not configured does not return early
StartRelayAnyway ==
    /\ ServiceStart(Relay) /\ service'[Relay] = "up"
    /\ Notify(<<"connect", Relay>>)

(***************************************************************************)
(* Start of the relay module: any number of relays may answer checkRelays, *)
(* and ListenAddress of a builder API without an address is an error.  No  *)
(* relay has the address of the builder API, for it has a public key.      *)
(***************************************************************************)
StartRelay ==
    /\ ServiceStart(Relay)
    /\ \/ /\ ~ relayConfig.relays
          /\ service'[Relay] = "up" /\ Notify(<<"exclude", Relay>>)
       \/ /\ relayConfig.relays /\ listen # ""
          /\ service'[Relay] = "up" /\ Notify(<<"connect", Relay>>)
       \/ /\ relayConfig.relays /\ (relayConfig.relayCheck \/ listen = "")
          /\ service'[Relay] = "down"
          /\ OthersUnchanged

StartProxy ==
    /\ service[Proxy] = "starting"
    /\ \/ "" \in Range(addresses) /\ listen # "" /\ Crash
       \/ /\ ServiceStart(Proxy)
          /\ \/ /\ addresses = <<>>
                /\ service'[Proxy] = "up" /\ Notify(<<"exclude", Proxy>>)
             \/ /\ addresses # <<>> /\ {"", listen} \cap Range(addresses) = {}
                /\ listen # ""
                /\ service'[Proxy] = "up" /\ Notify(<<"connect", Proxy>>)
             \/ /\ addresses # <<>> /\ listen \in Range(addresses) \cup {""}
                /\ service'[Proxy] = "down"
                /\ OthersUnchanged

\* slip: the server is given up without being closed
StopApiUnclosed(c) ==
    /\ StopModule(c, Api)
    /\ srv' = IF serviceAlive[Api] THEN "nil" ELSE srv
    /\ UNCHANGED <<flagVars, listVars, settingVars, serving, notices, crashed>>

\* Close of the server, and b.srv = nil if that is no error
StopApi(c) ==
    /\ StopModule(c, Api)
    /\ IF serviceAlive[Api] /\ srv # "nil"
       THEN /\ srv' = IF serviceAlive'[Api] THEN "closed" ELSE "nil"
            /\ serving' = IF serving = "listening" THEN "ended" ELSE serving
       ELSE UNCHANGED apiVars
    /\ UNCHANGED <<flagVars, listVars, settingVars, notices, crashed>>

StopOther(c) ==
    /\ StopModule(c, Relay) \/ StopModule(c, Proxy)
    /\ OthersUnchanged

-----------------------------------------------------------------------------
\* the aggregator serves what it is notified of, while the core relays
ServeExclude(m) ==
    /\ ~ stop /\ <<"exclude", m>> \in notices
    /\ ExcludeFromNotifications(m)
    /\ notices' = notices \ {<<"exclude", m>>}
    /\ UNCHANGED <<vars, flagVars, settingVars, apiVars, crashed>>

ServeConnect(m) ==
    /\ ~ stop /\ <<"connect", m>> \in notices
    /\ Connect(m)
    /\ notices' = notices \ {<<"connect", m>>}
    /\ UNCHANGED <<vars, flagVars, settingVars, apiVars, crashed>>

\* the call of a known module's name is answered, see CoreRelay
SourceNamed(m) ==
    /\ ~ stop /\ NameAnswered(m)
    /\ Name[m] \in KnownModules =>
          ConnectedBLockSources' # ConnectedBLockSources
    /\ UNCHANGED <<vars, flagVars, settingVars, apiVars, notices, crashed>>

-----------------------------------------------------------------------------
MainGoesOn ==
    \/ ConfigureRelay
    \/ \E m \in Modules : Configure(m) \/ ConnectModule(m)
    \/ /\ \/ MakeCoreClient \/ StartBegin \/ StartEnd \/ StartFailed
          \/ WaitEnd \/ Exit
          \/ \E m \in Modules : StartModule(m) \/ ServiceReport(m)
       /\ OthersUnchanged

ServiceStarts == StartApi \/ StartRelay \/ StartProxy

CloserGoesOn(c) ==
    \/ StopApi(c) \/ StopOther(c)
    \/ /\ CloseLock(c) \/ CloseClient(c) \/ CloseStop(c) \/ CloseEnd(c)
       /\ OthersUnchanged

Disturbance ==
    /\ Interrupt \/ \E m \in Modules : StartTimeout(m) \/ LateStart(m)
    /\ OthersUnchanged

AggregatorServes ==
    \E m \in {Relay, Proxy} :
        ServeExclude(m) \/ ServeConnect(m) \/ SourceNamed(m)

Running == fate = "running" /\ ~ crashed

StartupNext ==
    /\ Running
    /\ \/ MainGoesOn \/ ServiceStarts \/ Serve \/ AggregatorServes
       \/ Disturbance
       \/ \E c \in Closers : CloserGoesOn(c)

StartupSpec == StartupInit /\ [][StartupNext]_startupVars

(***************************************************************************)
(* As in CoreLifecycle: goroutines that can go on do, interrupts need not  *)
(* come and a Start need not be slow.                                      *)
(***************************************************************************)
FairStartupSpec ==
    /\ StartupSpec
    /\ WF_startupVars(Running /\ MainGoesOn)
    /\ WF_startupVars(Running /\ ServiceStarts)
    /\ WF_startupVars(Running /\ AggregatorServes)
    /\ \A c \in Closers : WF_startupVars(Running /\ CloserGoesOn(c))

-----------------------------------------------------------------------------
\* whether the aggregator will ask m for blocks, notify it, or neither
AsConfigured(m, delivers) ==
    IF delivers
    THEN m \in Range(ConnectedBLockSources)
    ELSE /\ m \notin Range(ConnectedBLockSources)
         /\ m \in ModuleNotificationExclusions

(***************************************************************************)
(* Once the core runs, the relay module and the proxy become block sources *)
(* if they are configured to deliver blocks, and else are left alone,      *)
(* unless the process is stopped meanwhile (relay.go:119-153, external-    *)
(* validator-proxy/service.go:119-152).                                    *)
(***************************************************************************)
ConfiguredAreConnected ==
    state = "running" ~>
        \/ /\ AsConfigured(Relay, relayConfig.relays)
           /\ AsConfigured(Proxy, addresses # <<>>)
        \/ stop \/ ~ Running

(***************************************************************************)
(* An interrupt ends the process (coreCli.go:172-195), unless a Stop       *)
(* fails: then c.stop stays open and main waits on (core.go:255) - or the  *)
(* dispatch of the core's client never hears of the Close                  *)
(* (coreClient.go:97-98, 160-161).                                         *)
(***************************************************************************)
ShutdownCompletes ==
    interrupts > 0 ~>
        ~ Running \/ \E c \in Closers : failed[c] \/ closing[c] = "unheard"

(***************************************************************************)
(* A core that is closed does not listen any more, and a nil pointer is    *)
(* followed only if an address is empty or the API is stopped before the   *)
(* goroutine of its Start has come to read b.srv (server.go:150, 174).     *)
(***************************************************************************)
ServerStopped ==
    /\ state = "closed" => serving # "listening"
    /\ crashed => \/ "" \in {listen} \cup Range(addresses)
                  \/ serving = "ready" /\ ~ serviceAlive[Api]
=============================================================================
