---------------------------- MODULE BlockSources ----------------------------
(***************************************************************************)
(* The two lists of the block aggregator (modules/block-aggregator/        *)
(* service.go): the modules that deliver blocks, in the order in which     *)
(* they connected, and the modules that are not to be notified.  This is   *)
(* the abstract view, where a list is a value; SourceLists implements it   *)
(* with Go slices.  All writers of the lists hold b.lock.                  *)
(***************************************************************************)
EXTENDS Naturals, SequencesExt

CONSTANTS
    Sources,        \* the names of block sources
    Connects, Name, \* the calls of ConnectBlockSource and their argument
    KnownModules,   \* the modules of the core
    Leaving,        \* the sources that may disconnect
    Excludable      \* the modules that may be excluded and included

VARIABLES
    ConnectedBLockSources,
    ModuleNotificationExclusions,
    connecting      \* call -> idle, calling (holds the lock), returned

listVars == <<ConnectedBLockSources, ModuleNotificationExclusions, connecting>>

ListInit ==
    /\ ConnectedBLockSources = <<>>
    /\ ModuleNotificationExclusions = {"builderApi", "blockAggregator"}
    /\ connecting = [c \in Connects |-> "idle"]

LockFree == \A c \in Connects : connecting[c] # "calling"

\* slip: the lock is not held across the call
ConnectUnlocked(c) ==
    /\ connecting[c] = "idle"
    /\ connecting' = [connecting EXCEPT ![c] =
          IF \/ Name[c] \in Range(ConnectedBLockSources)
             \/ Name[c] \in ModuleNotificationExclusions
          THEN "returned" ELSE "calling"]
    /\ UNCHANGED <<ConnectedBLockSources, ModuleNotificationExclusions>>

(***************************************************************************)
(* ConnectBlockSource takes the lock, looks at both lists and calls the    *)
(* name method of the module, with the lock in its hands.                  *)
(***************************************************************************)
Connect(c) ==
    /\ connecting[c] = "idle" /\ LockFree
    /\ connecting' = [connecting EXCEPT ![c] =
          IF \/ Name[c] \in Range(ConnectedBLockSources)
             \/ Name[c] \in ModuleNotificationExclusions
          THEN "returned" ELSE "calling"]
    /\ UNCHANGED <<ConnectedBLockSources, ModuleNotificationExclusions>>

\* the call returns, with the name or an error: for a name that is no
\* module's it is refused before it is sent
NameAnswered(c) ==
    /\ connecting[c] = "calling"
    /\ connecting' = [connecting EXCEPT ![c] = "returned"]
    /\ \/ UNCHANGED ConnectedBLockSources
       \/ /\ Name[c] \in KnownModules
          /\ ConnectedBLockSources' = Append(ConnectedBLockSources, Name[c])
    /\ UNCHANGED ModuleNotificationExclusions

\* the first element with that name is taken out
DisconnectBlockSource(m) ==
    /\ LockFree
    /\ \E i \in DOMAIN ConnectedBLockSources :
        /\ ConnectedBLockSources[i] = m
        /\ \A j \in 1..(i - 1) : ConnectedBLockSources[j] # m
        /\ ConnectedBLockSources' = RemoveAt(ConnectedBLockSources, i)
    /\ UNCHANGED <<ModuleNotificationExclusions, connecting>>

ExcludeFromNotifications(m) ==
    /\ m \in Excludable \ ModuleNotificationExclusions /\ LockFree
    /\ ModuleNotificationExclusions' = ModuleNotificationExclusions \cup {m}
    /\ UNCHANGED <<ConnectedBLockSources, connecting>>

IncludeInNotifications(m) ==
    /\ m \in Excludable \cap ModuleNotificationExclusions /\ LockFree
    /\ ModuleNotificationExclusions' = ModuleNotificationExclusions \ {m}
    /\ UNCHANGED <<ConnectedBLockSources, connecting>>

ListNext ==
    \/ \E c \in Connects : Connect(c) \/ NameAnswered(c)
    \/ \E m \in Leaving : DisconnectBlockSource(m)
    \/ \E m \in Excludable :
          ExcludeFromNotifications(m) \/ IncludeInNotifications(m)

ListSpec == ListInit /\ [][ListNext]_listVars

(***************************************************************************)
(* No module is in the list of sources twice, so that none is asked twice, *)
(* whoever connects at the same time: the lock is held from the look at    *)
(* the list to the append, across the call of the module (service.go:106-  *)
(* 145).                                                                   *)
(***************************************************************************)
SourcesDistinct == IsInjective(ConnectedBLockSources)
=============================================================================
