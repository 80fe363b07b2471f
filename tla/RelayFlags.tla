----------------------------- MODULE RelayFlags -----------------------------
(***************************************************************************)
(* The parser of the relay module's flags (modules/relay/utils.go,         *)
(* ParseConfigFLags) with the rest of Configure (relay.go).  The flags are *)
(* a Go map, so that the loop meets them in any order, and each look at    *)
(* what has been met so far depends on it.                                 *)
(***************************************************************************)
EXTENDS Naturals

CONSTANTS
    Networks,       \* the flags that name a network
    Plain           \* flags that only set a field of their own

Entries == "relay-entries"
Check == "relay-check"
SkipSignatureCheck == "skip-relay-signature-check"
ForkVersion == "genesis-fork-version"
GenesisTime == "genesis-time"

FlagNames == Networks \cup Plain
    \cup {Entries, Check, SkipSignatureCheck, ForkVersion, GenesisTime}

ASSUME FlagsAssumption ==
    /\ Networks \cap Plain = {}
    /\ {Entries, Check, SkipSignatureCheck, ForkVersion, GenesisTime, "default"}
          \cap (Networks \cup Plain) = {}

VARIABLES
    moduleFlags,    \* the flags that are set
    unreadable,     \* those whose value does not parse
    left,           \* the flags that the loop has not met
    parsing,        \* no, loop, accepted, refused
    forkVersionFlagNameSet,     \* no flag, or the one that fixed the fork
    customGenesisTime, customForkVersion,
    relayConfig     \* what the relay service is left with

flagVars == <<moduleFlags, unreadable, left, parsing, forkVersionFlagNameSet,
              customGenesisTime, customForkVersion, relayConfig>>

\* NewRelayService; the fork and the time are the default (version 0, time 0),
\* or those of a network or a flag
Defaults == [relays |-> FALSE, relayCheck |-> FALSE, signatureCheck |-> TRUE,
             fork |-> "default", time |-> "default"]

FlagsInit(settings) ==
    /\ \E s \in settings : moduleFlags = s.flags /\ unreadable = s.unreadable
    /\ left = moduleFlags /\ parsing = "no"
    /\ forkVersionFlagNameSet = {}
    /\ customGenesisTime = FALSE /\ customForkVersion = FALSE
    /\ relayConfig = Defaults

-----------------------------------------------------------------------------
\* slip: a network is only compared with other networks
RefusesOrdered(f) ==
    \/ f \in unreadable \cap (Plain \cup {Entries, GenesisTime})
    \/ f \in Networks /\ forkVersionFlagNameSet \cap Networks # {}
    \/ /\ f \in {ForkVersion, GenesisTime}
       /\ ~ forkVersionFlagNameSet \subseteq {ForkVersion}

\* the errors inside the loop
Refuses(f) ==
    \/ f \in unreadable \cap (Plain \cup {Entries, GenesisTime})
    \/ f \in Networks /\ (forkVersionFlagNameSet # {} \/ customForkVersion)
    \/ /\ f \in {ForkVersion, GenesisTime}
       /\ ~ forkVersionFlagNameSet \subseteq {ForkVersion}

\* what a flag makes of the configuration; the value of a boolean flag is
\* not looked at
Configured(f) ==
    [relays |-> relayConfig.relays \/ f = Entries,
     relayCheck |-> relayConfig.relayCheck \/ f = Check,
     signatureCheck |-> relayConfig.signatureCheck /\ f # SkipSignatureCheck,
     fork |-> IF f \in Networks \cup {ForkVersion} THEN f ELSE relayConfig.fork,
     time |-> IF f \in Networks \cup {GenesisTime} THEN f ELSE relayConfig.time]

ParseBegin ==
    /\ parsing = "no" /\ moduleFlags # {}
    /\ parsing' = "loop"
    /\ UNCHANGED <<moduleFlags, unreadable, left, forkVersionFlagNameSet,
                   customGenesisTime, customForkVersion, relayConfig>>

ParseFlag(f) ==
    /\ parsing = "loop" /\ f \in left /\ ~ Refuses(f)
    /\ left' = left \ {f}
    /\ forkVersionFlagNameSet' = IF f \in Networks \cup {ForkVersion}
                                 THEN {f} ELSE forkVersionFlagNameSet
    /\ customForkVersion' = (customForkVersion \/ f = ForkVersion)
    /\ customGenesisTime' = (customGenesisTime \/ f = GenesisTime)
    /\ relayConfig' = Configured(f)
    /\ UNCHANGED <<moduleFlags, unreadable, parsing>>

RefuseFlag(f) ==
    /\ parsing = "loop" /\ f \in left /\ Refuses(f)
    /\ parsing' = "refused"
    /\ UNCHANGED <<moduleFlags, unreadable, left, forkVersionFlagNameSet,
                   customGenesisTime, customForkVersion, relayConfig>>

\* behind the loop: a time needs a fork version, ComputeDomain needs one that
\* can be read, Configure needs relays
ParseEnd ==
    /\ parsing = "loop" /\ left = {}
    /\ parsing' = IF \/ customGenesisTime /\ ~ customForkVersion
                     \/ /\ relayConfig.signatureCheck
                        /\ relayConfig.fork \in unreadable
                     \/ ~ relayConfig.relays
                  THEN "refused" ELSE "accepted"
    /\ UNCHANGED <<moduleFlags, unreadable, left, forkVersionFlagNameSet,
                   customGenesisTime, customForkVersion, relayConfig>>

FlagsNext ==
    \/ ParseBegin \/ ParseEnd
    \/ \E f \in FlagNames : ParseFlag(f) \/ RefuseFlag(f)

\* the flags with a value that may be wrong; the command line has checked
\* that those of boolean flags are boolean
Valued == Plain \cup {Entries, GenesisTime, ForkVersion}

Settings == {s \in [flags : SUBSET FlagNames, unreadable : SUBSET Valued] :
                s.unreadable \subseteq s.flags}

FlagsSpec == FlagsInit(Settings) /\ [][FlagsNext]_flagVars

-----------------------------------------------------------------------------
\* the flags that fix the fork version, of which there may be one
Forks == moduleFlags \cap (Networks \cup {ForkVersion})

Compatible ==
    /\ unreadable \cap (Plain \cup {Entries, GenesisTime}) = {}
    /\ \A f, g \in Forks : f = g
    /\ GenesisTime \in moduleFlags => ForkVersion \in moduleFlags
    /\ Entries \in moduleFlags
    /\ ForkVersion \in unreadable => SkipSignatureCheck \in moduleFlags

(***************************************************************************)
(* Whether the flags are accepted depends on the flags and not on the      *)
(* order in which the loop meets them, and what is accepted is the fork    *)
(* and the time of one network, or those of the flags (utils.go:275-377,   *)
(* relay.go:91-112).                                                       *)
(***************************************************************************)
FlagsDecide ==
    /\ parsing = "accepted" =>
        /\ Compatible
        /\ relayConfig.fork \in (IF Forks = {} THEN {"default"} ELSE Forks)
        /\ relayConfig.time = IF GenesisTime \in moduleFlags THEN GenesisTime
                              ELSE IF relayConfig.fork = ForkVersion
                              THEN "default" ELSE relayConfig.fork
    /\ parsing = "refused" => ~ Compatible
=============================================================================
