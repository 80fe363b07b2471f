-------------------------- MODULE ModuleListProofs --------------------------
(***************************************************************************)
(* What a command leaves of moduleList.go and go.mod, for any packages,    *)
(* versions and files, whatever fails and wherever the process is killed.  *)
(***************************************************************************)
EXTENDS ModuleList, SequenceTheorems, FiniteSetTheorems,
        WellFoundedInduction, TLAPS

Editing == {"edit", "backup", "write", "restore", "unbackup", "retidy"}

Steps == {"idle", "get", "check", "reget", "tidy", "build"} \cup Editing

(***************************************************************************)
(* The types of what the properties depend on; of the lists it matters     *)
(* that the old one and the new one are whole.                             *)
(***************************************************************************)
CommandTypes ==
    /\ goMod \in [Urls -> Nat] /\ was \in [Urls -> Nat]
    /\ command \in [name : {"list", "install", "update", "remove"},
                    url : Urls, version : Nat]
    /\ step \in Steps
    /\ source.whole /\ edited.whole

\* which commands take which steps, and that a result is the end
Stages ==
    /\ step # "idle" => result = "none" /\ command.name # "list"
    /\ step \in {"get", "check"} => command.name # "remove"
    /\ step = "reget" => command.name = "update"
    /\ step \in Editing => command.name # "update"

(***************************************************************************)
(* What moduleList.go and its backup are at each step.  The list is        *)
(* written only when its backup is there, and the backup is removed only   *)
(* when the list has been restored.                                        *)
(***************************************************************************)
ListAtStep ==
    /\ step \in {"get", "check", "reget", "edit", "backup", "write",
                 "unbackup", "retidy"} => list = source
    /\ step \in {"write", "restore"} => backup = {source}
    /\ step \in {"tidy", "build"} =>
          IF command.name = "update" THEN list = source
          ELSE list = edited /\ backup = {source}

(***************************************************************************)
(* The inductive invariant.                                                *)
(***************************************************************************)
ModuleListInv ==
    CommandTypes /\ Stages /\ ListAtStep /\ WholeCopyKept /\ FailureUndone

-----------------------------------------------------------------------------
\* a command starts from a program that builds: its list is whole
LEMMA BeginStep ==
    ASSUME ModuleListInv, NEW url \in Urls, NEW version \in 0 .. Latest,
           \/ BeginInstall(url, version)
           \/ BeginUpdate(url, version)
           \/ BeginRemove(url)
    PROVE  ModuleListInv'
<1>1. /\ source' = list /\ edited' = list /\ was' = goMod
      /\ UNCHANGED <<files, goMod>> /\ list.whole
      /\ command'.url = url
      /\ command' \in [name : {"install", "update", "remove"},
                       url : Urls, version : Nat]
  BY ModuleListAssumption
     DEF BeginInstall, BeginUpdate, BeginRemove, Begin, Builds
<1>2. \/ step' = "idle" /\ result' \in {"error", "unchanged"}
      \/ /\ step' = "get" /\ result' = "none"
         /\ command'.name \in {"install", "update"}
      \/ /\ step' = "edit" /\ result' = "none" /\ command'.name = "remove"
  BY DEF BeginInstall, BeginUpdate, BeginRemove, Begin, Return
<1>3. CommandTypes' /\ Stages' /\ ListAtStep'
  BY <1>1, <1>2 DEF ModuleListInv, CommandTypes, Stages, ListAtStep, Steps,
                    Editing, files
<1>4. WholeCopyKept' /\ FailureUndone'
  BY <1>1, <1>2 DEF WholeCopyKept, FailureUndone, files
<1> QED
  BY <1>3, <1>4 DEF ModuleListInv

(***************************************************************************)
(* go get and checkPackage do not touch the list; an update that fails     *)
(* goes on to restore its version.                                         *)
(***************************************************************************)
LEMMA GoGetStep ==
    ASSUME ModuleListInv, GoGet \/ CheckPackage
    PROVE  ModuleListInv'
<1>1. /\ UNCHANGED <<files, commandVars, edited>> /\ step \in {"get", "check"}
      /\ goMod' \in [Urls -> Nat]
      /\ goMod' = goMod \/ step' = "check"
  BY DEF ModuleListInv, CommandTypes, GoGet, CheckPackage
<1>2. \/ step' = "check" /\ result' = result
      \/ step' = "reget" /\ result' = result /\ command.name = "update"
      \/ step' = "idle" /\ result' = "error" /\ command.name # "update"
      \/ step' = "edit" /\ result' = result /\ command.name = "install"
      \/ step' = "tidy" /\ result' = result /\ command.name # "install"
      \/ step' = "idle" /\ result' = "panic"
  <2>1. \A found : Verdict(found) \in {"compatible", "incompatible", "panic"}
    BY DEF Verdict
  <2> QED
    BY <2>1 DEF GoGet, CheckPackage, FailedGet, Return
<1>3. CommandTypes' /\ Stages' /\ ListAtStep'
  BY <1>1, <1>2 DEF ModuleListInv, CommandTypes, Stages, ListAtStep, Steps,
                    Editing, files, commandVars
<1>4. WholeCopyKept' /\ FailureUndone'
  BY <1>1, <1>2 DEF ModuleListInv, Stages, ListAtStep, WholeCopyKept,
                    FailureUndone, files, commandVars
<1> QED
  BY <1>3, <1>4 DEF ModuleListInv

(***************************************************************************)
(* AddModuleToModuleList and RemoveModuleFromModuleList up to the write:   *)
(* the new list is whole, and the old one is in the backup before it is    *)
(* overwritten.                                                            *)
(***************************************************************************)
LEMMA EditStep ==
    ASSUME ModuleListInv, Edit \/ WriteBackup \/ WriteList
    PROVE  ModuleListInv'
<1>1. UNCHANGED <<goMod, commandVars>>
  BY DEF Edit, WriteBackup, WriteList
<1>2. CASE Edit
  <2>1. edited'.whole
    BY <1>2 DEF Edit, Added, Removed, ModuleListInv, CommandTypes
  <2> QED
    BY <1>1, <1>2, <2>1 DEF Edit, Return, ModuleListInv, CommandTypes, Stages,
       ListAtStep, Steps, Editing, WholeCopyKept, FailureUndone, files,
       commandVars
<1>3. CASE WriteBackup
  BY <1>1, <1>3 DEF WriteBackup, Return, ModuleListInv, CommandTypes, Stages,
     ListAtStep, Steps, Editing, WholeCopyKept, FailureUndone, commandVars
<1>4. CASE WriteList
  BY <1>1, <1>4 DEF WriteList, Return, ModuleListInv, CommandTypes, Stages,
     ListAtStep, Steps, Editing, WholeCopyKept, FailureUndone, commandVars
<1> QED
  BY <1>2, <1>3, <1>4

(***************************************************************************)
(* go mod tidy and go build leave the list alone, and fail towards the     *)
(* restore that is due.                                                    *)
(***************************************************************************)
LEMMA TidyStep ==
    ASSUME ModuleListInv, Tidy \/ Build
    PROVE  ModuleListInv'
<1>1. UNCHANGED <<files, commandVars, edited>> /\ goMod' \in [Urls -> Nat]
  BY ModuleListAssumption
     DEF Tidy, Build, TidyGoMod, ModuleListInv, CommandTypes
<1>2. /\ step \in {"tidy", "build"}
      /\ \/ step' = "build" /\ result' = result
         \/ step' = "idle" /\ result' = "ok"
         \/ /\ step' = IF command.name = "update" THEN "reget" ELSE "restore"
            /\ result' = result
  BY DEF Tidy, Build, Undo, Return
<1>3. CommandTypes' /\ Stages' /\ ListAtStep'
  BY <1>1, <1>2 DEF ModuleListInv, CommandTypes, Stages, ListAtStep, Steps,
                    Editing, files, commandVars
<1>4. WholeCopyKept' /\ FailureUndone'
  BY <1>1, <1>2 DEF ModuleListInv, Stages, WholeCopyKept, FailureUndone,
                    files, commandVars
<1> QED
  BY <1>3, <1>4 DEF ModuleListInv

(***************************************************************************)
(* restoreModuleList writes the old list, which is in the backup until it  *)
(* has done so; restorePackageVersion asks for the old version.            *)
(***************************************************************************)
LEMMA RestoreStep ==
    ASSUME ModuleListInv,
           RestoreList \/ RemoveBackup \/ TidyRestored \/ RestoreVersion
    PROVE  ModuleListInv'
<1>1. UNCHANGED <<commandVars, edited>>
  BY DEF RestoreList, RemoveBackup, TidyRestored, RestoreVersion
<1>2. CASE RestoreList
  BY <1>1, <1>2 DEF RestoreList, Return, ModuleListInv, CommandTypes, Stages,
     ListAtStep, Steps, Editing, WholeCopyKept, FailureUndone, commandVars
<1>3. CASE RemoveBackup
  BY <1>1, <1>3 DEF RemoveBackup, Return, ModuleListInv, CommandTypes, Stages,
     ListAtStep, Steps, Editing, WholeCopyKept, FailureUndone, commandVars
<1>4. CASE TidyRestored
  <2>1. goMod' \in [Urls -> Nat]
    <3>1. Latest \in Nat
      BY ModuleListAssumption
    <3> QED
      BY <1>4, <3>1 DEF TidyRestored, TidyGoMod, ModuleListInv, CommandTypes
  <2> QED
    BY <1>1, <1>4, <2>1 DEF TidyRestored, Return, ModuleListInv, CommandTypes,
       Stages, ListAtStep, Steps, Editing, WholeCopyKept, FailureUndone,
       commandVars, files
<1>5. CASE RestoreVersion
  <2>1. /\ step = "reget" /\ step' = "idle" /\ command.name = "update"
        /\ result' \in {"error", "unrestored"} /\ list = source
        /\ UNCHANGED files
    BY <1>5 DEF RestoreVersion, Return, ModuleListInv, Stages, ListAtStep
  <2>2. /\ goMod' \in [Urls -> Nat]
        /\ result' = "error" => goMod'[command.url] = was[command.url]
    BY <1>5 DEF RestoreVersion, Return, ModuleListInv, CommandTypes
  <2> QED
    BY <1>1, <2>1, <2>2 DEF ModuleListInv, CommandTypes, Stages, ListAtStep,
       Steps, Editing, WholeCopyKept, FailureUndone, commandVars, files
<1> QED
  BY <1>2, <1>3, <1>4, <1>5

(***************************************************************************)
(* A kill in the middle of a write leaves part of a file: of the list only *)
(* when the backup is there, of the backup only when the list is whole.    *)
(***************************************************************************)
LEMMA KilledStep ==
    ASSUME ModuleListInv, Killed
    PROVE  ModuleListInv'
  BY DEF Killed, Return, ModuleListInv, CommandTypes, Stages, ListAtStep,
     Steps, Editing, WholeCopyKept, FailureUndone, commandVars

-----------------------------------------------------------------------------
(***************************************************************************)
(* The inductive invariant holds of every sequence of commands.            *)
(***************************************************************************)
THEOREM ModuleListInvariant == ModuleListSpec => []ModuleListInv
<1>1. ModuleListInit => ModuleListInv
  <2> SUFFICES ASSUME ModuleListInit PROVE ModuleListInv
    OBVIOUS
  <2>1. CommandTypes
    BY ModuleListAssumption DEF ModuleListInit, CommandTypes, Steps
  <2> QED
    BY <2>1 DEF ModuleListInit, ModuleListInv, Stages, ListAtStep, Editing,
                WholeCopyKept, FailureUndone
<1>2. ASSUME ModuleListInv, [ModuleListNext]_vars PROVE ModuleListInv'
  <2>1. CASE UNCHANGED vars
    BY <1>2, <2>1 DEF vars, files, commandVars, ModuleListInv, CommandTypes,
       Stages, ListAtStep, WholeCopyKept, FailureUndone
  <2>2. ASSUME NEW url \in Urls, NEW version \in 0 .. Latest,
               BeginInstall(url, version) \/ BeginUpdate(url, version)
        PROVE  ModuleListInv'
    BY <1>2, <2>2, BeginStep
  <2>3. ASSUME NEW url \in Urls, BeginRemove(url) PROVE ModuleListInv'
    <3>1. 0 \in 0 .. Latest
      BY ModuleListAssumption
    <3> QED
      BY <1>2, <2>3, <3>1, BeginStep
  <2>4. CASE GoGet \/ CheckPackage
    BY <1>2, <2>4, GoGetStep
  <2>5. CASE Edit \/ WriteBackup \/ WriteList
    BY <1>2, <2>5, EditStep
  <2>6. CASE Tidy \/ Build
    BY <1>2, <2>6, TidyStep
  <2>7. CASE RestoreList \/ RemoveBackup \/ TidyRestored \/ RestoreVersion
    BY <1>2, <2>7, RestoreStep
  <2>8. CASE Killed
    BY <1>2, <2>8, KilledStep
  <2> QED
    BY <1>2, <2>1, <2>2, <2>3, <2>4, <2>5, <2>6, <2>7, <2>8
       DEF ModuleListNext
<1> QED
  BY <1>1, <1>2, PTL DEF ModuleListSpec

(***************************************************************************)
(* The list that a command found is whole on disk, in moduleList.go or in  *)
(* its backup, or the new list has replaced it, after every step, failure  *)
(* and kill (moduleListOperator.go:191-213, 468-482).                      *)
(***************************************************************************)
THEOREM WholeCopyAlways == ModuleListSpec => []WholeCopyKept
<1>1. ModuleListInv => WholeCopyKept
  BY DEF ModuleListInv
<1> QED
  BY <1>1, ModuleListInvariant, PTL

(***************************************************************************)
(* A command that returns an error has put back what it changed            *)
(* (moduleListOperator.go:205, 430, updateModules/service.go:57-63).       *)
(***************************************************************************)
THEOREM FailuresUndone == ModuleListSpec => []FailureUndone
<1>1. ModuleListInv => FailureUndone
  BY DEF ModuleListInv
<1> QED
  BY <1>1, ModuleListInvariant, PTL

-----------------------------------------------------------------------------
(***************************************************************************)
(* The edits of the list.  A set of naturals has a least element: there is *)
(* a first import behind the place of a new one, and a first call under an *)
(* alias.                                                                  *)
(***************************************************************************)
LEMMA Least ==
    ASSUME NEW S \in SUBSET Nat, S # {}
    PROVE  \E n \in S : \A m \in S : n <= m
<1> DEFINE R == OpToRel(<, Nat)
<1>1. IsWellFoundedOn(R, Nat)
  BY NatLessThanWellFounded
<1>2. R = {ss \in Nat \X Nat : ss[1] < ss[2]}
  BY Zenon DEF OpToRel
<1> HIDE DEF R
<1>3. PICK n \in S : \A m \in S : ~ (<<m, n>> \in R)
  BY <1>1, WFMin
<1>4. ASSUME NEW m \in S PROVE n <= m
  <2>1. n \in Nat /\ m \in Nat
    OBVIOUS
  <2>2. m < n => <<m, n>> \in R
    BY <1>2, <2>1
  <2> QED
    BY <1>3, <2>1, <2>2
<1> QED
  BY <1>4

\* the import paths of a file in the order that formatting gives them
InOrder(imports) ==
    \A i, j \in 1 .. Len(imports) :
        i < j => Rank[imports[i].url] < Rank[imports[j].url]

Paths(imports) == {imports[i].url : i \in 1 .. Len(imports)}

(***************************************************************************)
(* A list that the program can have written: its imports are sorted, so    *)
(* that none is there twice, and there is one call for each.               *)
(***************************************************************************)
Formed(file) ==
    /\ file.imports \in Seq(Range(file.imports))
    /\ file.services \in Seq(Range(file.services))
    /\ \A i \in 1 .. Len(file.imports) : file.imports[i].url \in Urls
    /\ InOrder(file.imports)
    /\ Len(file.imports) = Len(file.services)

LEMMA OwnElements ==
    ASSUME NEW S, NEW s \in Seq(S)
    PROVE  s \in Seq(Range(s))
<1>1. Len(s) \in Nat /\ s = [i \in 1 .. Len(s) |-> s[i]]
  OBVIOUS
<1>2. \A i \in 1 .. Len(s) : s[i] \in Range(s)
  BY DEF Range
<1>3. s \in [1 .. Len(s) -> Range(s)]
  BY <1>1, <1>2
<1> QED
  BY <1>1, <1>3, SeqDef

\* where a new import goes
LEMMA PlaceOf ==
    ASSUME NEW S, NEW s \in Seq(S), \A i \in 1 .. Len(s) : s[i].url \in Urls,
           InOrder(s), NEW url \in Urls, \A i \in 1 .. Len(s) : s[i].url # url
    PROVE  \E k \in 1 .. Len(s) + 1 :
              /\ \A i \in 1 .. Len(s) : i < k => Rank[s[i].url] < Rank[url]
              /\ \A i \in 1 .. Len(s) : k <= i => Rank[url] < Rank[s[i].url]
<1> DEFINE behind == {i \in 1 .. Len(s) + 1 :
                         i = Len(s) + 1 \/ Rank[url] < Rank[s[i].url]}
<1>1. behind \in SUBSET Nat /\ behind # {}
  <2>1. Len(s) \in Nat
    OBVIOUS
  <2>2. Len(s) + 1 \in behind
    BY <2>1
  <2> QED
    BY <2>1, <2>2
<1>2. PICK k \in behind : \A i \in behind : k <= i
  BY <1>1, Least
<1>3. \A i \in 1 .. Len(s) : /\ Rank[s[i].url] \in Nat /\ Rank[url] \in Nat
                             /\ Rank[s[i].url] # Rank[url]
  BY ModuleListAssumption DEF IsInjective
<1>4. Len(s) \in Nat /\ k \in 1 .. Len(s) + 1
  OBVIOUS
<1>5. ASSUME NEW i \in 1 .. Len(s), i < k PROVE Rank[s[i].url] < Rank[url]
  <2>1. i \notin behind
    BY <1>2, <1>4, <1>5
  <2>2. i \in 1 .. Len(s) + 1 /\ i # Len(s) + 1
    BY <1>4
  <2>3. ~ (Rank[url] < Rank[s[i].url])
    BY <2>1, <2>2
  <2> QED
    BY <1>3, <2>3
<1>6. ASSUME NEW i \in 1 .. Len(s), k <= i PROVE Rank[url] < Rank[s[i].url]
  <2>1. k # Len(s) + 1 /\ k \in 1 .. Len(s)
    BY <1>4, <1>6
  <2>2. Rank[url] < Rank[s[k].url]
    BY <2>1
  <2>3. k = i \/ k < i
    BY <2>1, <1>6
  <2>4. k < i => Rank[s[k].url] < Rank[s[i].url]
    BY <2>1 DEF InOrder
  <2> QED
    BY <1>3, <2>1, <2>2, <2>3, <2>4
<1> QED
  BY <1>4, <1>5, <1>6

(***************************************************************************)
(* Formatting has an order to put the imports in, and loses none.          *)
(***************************************************************************)
LEMMA SortedHasNew ==
    ASSUME NEW S, NEW s \in Seq(S), \A i \in 1 .. Len(s) : s[i].url \in Urls,
           InOrder(s), NEW new, new.url \in Urls,
           \A i \in 1 .. Len(s) : s[i].url # new.url,
           NEW t, t = SortedImports(Append(s, new))
    PROVE  /\ t \in Seq(Range(t)) /\ Len(t) = Len(s) + 1 /\ InOrder(t)
           /\ \A i \in 1 .. Len(t) : t[i].url \in Urls
           /\ Paths(t) = Paths(s) \cup {new.url}
<1> DEFINE n == Len(s) + 1
           all == Append(s, new)
<1>0. t = SortedImports(all)
  OBVIOUS
<1>1. /\ n \in Nat /\ Len(s) \in Nat /\ n = Len(s) + 1
      /\ DOMAIN all = 1 .. n /\ all[n] = new
      /\ \A i \in 1 .. Len(s) : all[i] = s[i] /\ i \in 1 .. n
      /\ n \in 1 .. n
  OBVIOUS
<1>2. Range(all) = {all[i] : i \in 1 .. n}
  BY <1>1 DEF Range
<1> HIDE DEF all
<1>3. PICK k \in 1 .. n :
          /\ \A i \in 1 .. Len(s) : i < k => Rank[s[i].url] < Rank[new.url]
          /\ \A i \in 1 .. Len(s) : k <= i => Rank[new.url] < Rank[s[i].url]
  BY PlaceOf
<1> DEFINE put == [i \in 1 .. n |-> IF i < k THEN s[i]
                                    ELSE IF i = k THEN new ELSE s[i - 1]]
<1> HIDE DEF n
<1>4. \A i \in 1 .. n : \/ i < k /\ i \in 1 .. Len(s) /\ put[i] = s[i]
                        \/ i = k /\ put[i] = new
                        \/ i > k /\ i - 1 \in 1 .. Len(s) /\ i - 1 >= k
                           /\ put[i] = s[i - 1]
  BY <1>1
<1>5. put \in [DOMAIN all -> Range(all)] /\ Range(put) = Range(all)
  <2>1. put = [i \in 1 .. n |-> put[i]]
    OBVIOUS
  <2>2. put[k] = new
    BY <1>1
  <2> HIDE DEF put
  <2>3. ASSUME NEW i \in 1 .. n PROVE put[i] \in Range(all)
    <3>1. \A l \in 1 .. n : all[l] \in Range(all)
      BY <1>2
    <3>2. \/ put[i] = new
          \/ \E l \in 1 .. Len(s) : put[i] = s[l]
      BY <1>4
    <3> QED
      BY <1>1, <3>1, <3>2
  <2>4. Range(put) = {put[i] : i \in 1 .. n}
    BY <2>1 DEF Range
  <2>5. ASSUME NEW i \in 1 .. n PROVE \E l \in 1 .. n : all[i] = put[l]
    <3>1. CASE i = n
      BY <1>1, <2>2, <3>1
    <3>2. CASE i < k /\ i # n
      BY <1>1, <1>4, <3>2
    <3>3. CASE k <= i /\ i # n
      <4>1. i + 1 \in 1 .. n /\ i + 1 > k /\ (i + 1) - 1 = i
        BY <1>1, <3>3
      <4>2. put[i + 1] = s[i]
        BY <4>1, <1>4
      <4>3. i \in 1 .. Len(s)
        BY <1>1, <3>3
      <4> QED
        BY <1>1, <4>1, <4>2, <4>3
    <3> QED
      BY <1>1, <3>1, <3>2, <3>3
  <2>6. Range(put) = Range(all)
    BY <1>2, <2>3, <2>4, <2>5
  <2> QED
    BY <1>1, <2>1, <2>3, <2>6
<1>6. ASSUME NEW i \in 1 .. n, NEW j \in 1 .. n, i < j
      PROVE  Rank[put[i].url] < Rank[put[j].url]
  <2> HIDE DEF put
  <2>1. /\ \A l \in 1 .. Len(s) : Rank[s[l].url] \in Nat
        /\ Rank[new.url] \in Nat
    BY ModuleListAssumption
  <2>2. k \in Nat /\ i \in Nat /\ j \in Nat
    BY <1>1
  <2>3. CASE j < k
    BY <1>4, <1>6, <2>2, <2>3 DEF InOrder
  <2>4. CASE j = k
    BY <1>3, <1>4, <1>6, <2>2, <2>4
  <2>5. CASE j > k
    <3>1. j - 1 \in 1 .. Len(s) /\ j - 1 >= k /\ put[j] = s[j - 1]
      BY <1>4, <2>2, <2>5
    <3>2. Rank[new.url] < Rank[s[j - 1].url]
      BY <1>3, <3>1
    <3>3. CASE i < k
      <4>1. i \in 1 .. Len(s) /\ put[i] = s[i]
        BY <1>4, <2>2, <3>3
      <4>2. Rank[s[i].url] < Rank[new.url]
        BY <1>3, <3>3, <4>1
      <4> QED
        BY <2>1, <3>1, <3>2, <4>1, <4>2
    <3>4. CASE i = k
      BY <1>4, <2>2, <3>1, <3>2, <3>4
    <3>5. CASE i > k
      <4>1. i - 1 \in 1 .. Len(s) /\ put[i] = s[i - 1]
        BY <1>4, <2>2, <3>5
      <4>2. i - 1 < j - 1
        BY <1>6, <2>2
      <4> QED
        BY <3>1, <4>1, <4>2 DEF InOrder
    <3> QED
      BY <2>2, <3>3, <3>4, <3>5
  <2> QED
    BY <2>2, <2>3, <2>4, <2>5
<1> HIDE DEF put
<1>7. /\ t \in [1 .. n -> Range(all)] /\ Range(t) = Range(all)
      /\ \A i, j \in 1 .. n : i < j => Rank[t[i].url] < Rank[t[j].url]
  <2> DEFINE Sorts(f) == /\ Range(f) = Range(all)
                         /\ \A i, j \in DOMAIN all :
                               i < j => Rank[f[i].url] < Rank[f[j].url]
  <2>1. DOMAIN all = 1 .. n
    BY <1>1
  <2>2. put \in [DOMAIN all -> Range(all)] /\ Sorts(put)
    BY <1>5, <1>6, <2>1
  <2>3. t = CHOOSE f \in [DOMAIN all -> Range(all)] : Sorts(f)
    BY <1>0 DEF SortedImports
  <2> HIDE DEF Sorts, all
  <2>4. t \in [DOMAIN all -> Range(all)] /\ Sorts(t)
    BY <2>2, <2>3, Zenon
  <2> QED
    BY <2>1, <2>4 DEF Sorts
<1>8. t \in Seq(Range(all)) /\ Len(t) = n
  BY <1>1, <1>7, SeqDef
<1>9. \A x \in Range(all) : x.url \in Urls /\ Rank[x.url] \in Nat
  BY <1>1, <1>2, ModuleListAssumption
<1>10. \A i \in 1 .. Len(t) : t[i] \in Range(all)
  BY <1>7, <1>8
<1>11. \A x : x \in Range(all) <=> \E i \in 1 .. Len(t) : x = t[i]
  <2>1. Range(t) = {t[i] : i \in 1 .. n}
    BY <1>7 DEF Range
  <2> QED
    BY <1>7, <1>8, <2>1
<1>12. \A x : x \in Range(all) <=>
          x = new \/ \E i \in 1 .. Len(s) : x = s[i]
  <2>1. \A i \in 1 .. n : i \in 1 .. Len(s) \/ i = n
    BY <1>1
  <2>2. ASSUME NEW x \in Range(all)
        PROVE  x = new \/ \E i \in 1 .. Len(s) : x = s[i]
    BY <1>1, <1>2, <2>1
  <2>3. new \in Range(all) /\ \A i \in 1 .. Len(s) : s[i] \in Range(all)
    <3>1. \A l \in 1 .. n : all[l] \in Range(all)
      BY <1>2
    <3> QED
      BY <1>1, <3>1
  <2> QED
    BY <2>2, <2>3
<1>13. t \in Seq(Range(t)) /\ Len(t) = Len(s) + 1
  BY <1>1, <1>7, <1>8
<1>14. InOrder(t) /\ \A i \in 1 .. Len(t) : t[i].url \in Urls
  BY <1>7, <1>8, <1>9, <1>10 DEF InOrder
<1>15. Paths(t) = Paths(s) \cup {new.url}
  <2>1. ASSUME NEW i \in 1 .. Len(t)
        PROVE  \/ t[i].url = new.url
               \/ \E j \in 1 .. Len(s) : t[i].url = s[j].url
    <3>1. t[i] = new \/ \E j \in 1 .. Len(s) : t[i] = s[j]
      BY <1>11, <1>12
    <3> QED
      BY <3>1
  <2>2. \E i \in 1 .. Len(t) : t[i].url = new.url
    <3>1. PICK i \in 1 .. Len(t) : new = t[i]
      BY <1>11, <1>12
    <3> QED
      BY <3>1
  <2>3. ASSUME NEW j \in 1 .. Len(s)
        PROVE  \E i \in 1 .. Len(t) : t[i].url = s[j].url
    <3>1. PICK i \in 1 .. Len(t) : s[j] = t[i]
      BY <1>11, <1>12
    <3> QED
      BY <3>1
  <2>4. ASSUME NEW u \in Paths(t) PROVE u \in Paths(s) \cup {new.url}
    <3>1. PICK i \in 1 .. Len(t) : u = t[i].url
      BY DEF Paths
    <3> QED
      BY <2>1, <3>1 DEF Paths
  <2>5. new.url \in Paths(t)
    <3>1. PICK i \in 1 .. Len(t) : t[i].url = new.url
      BY <2>2
    <3> QED
      BY <3>1 DEF Paths
  <2>6. ASSUME NEW u \in Paths(s) PROVE u \in Paths(t)
    <3>1. PICK j \in 1 .. Len(s) : u = s[j].url
      BY DEF Paths
    <3>2. PICK i \in 1 .. Len(t) : t[i].url = s[j].url
      BY <2>3
    <3> QED
      BY <3>1, <3>2 DEF Paths
  <2> QED
    BY <2>4, <2>5, <2>6
<1> QED
  BY <1>13, <1>14, <1>15

(***************************************************************************)
(* Taking out one element: the others stay in their order.                 *)
(***************************************************************************)
LEMMA WithoutOne ==
    ASSUME NEW S, NEW s \in Seq(S), NEW k \in 1 .. Len(s)
    PROVE  /\ RemoveAt(s, k) \in Seq(S) /\ Len(RemoveAt(s, k)) = Len(s) - 1
           /\ \A i \in 1 .. (Len(s) - 1) :
                 RemoveAt(s, k)[i] = IF i < k THEN s[i] ELSE s[i + 1]
<1> DEFINE front == SubSeq(s, 1, k - 1)
           back == SubSeq(s, k + 1, Len(s))
<1>1. /\ front \in Seq(S) /\ Len(front) = k - 1
      /\ \A i \in 1 .. (k - 1) : front[i] = s[i]
  BY SubSeqProperties
<1>2. /\ back \in Seq(S) /\ Len(back) = Len(s) - k
      /\ \A i \in 1 .. (Len(s) - k) : back[i] = s[k + i]
  BY SubSeqProperties
<1>3. /\ RemoveAt(s, k) = front \o back
      /\ front \o back \in Seq(S)
      /\ Len(front \o back) = Len(front) + Len(back)
      /\ \A i \in 1 .. (Len(front) + Len(back)) :
            (front \o back)[i] = IF i <= Len(front) THEN front[i]
                                 ELSE back[i - Len(front)]
  BY <1>1, <1>2, ConcatProperties DEF RemoveAt
<1> HIDE DEF front, back
<1>4. ASSUME NEW i \in 1 .. (Len(s) - 1)
      PROVE  (front \o back)[i] = IF i < k THEN s[i] ELSE s[i + 1]
  <2>1. CASE i < k
    BY <2>1, <1>1, <1>2, <1>3
  <2>2. CASE ~ (i < k)
    <3>1. i - (k - 1) \in 1 .. (Len(s) - k) /\ k + (i - (k - 1)) = i + 1
      BY <2>2
    <3>2. (front \o back)[i] = back[i - (k - 1)]
      BY <2>2, <1>1, <1>2, <1>3
    <3> QED
      BY <2>2, <3>1, <3>2, <1>2
  <2> QED
    BY <2>1, <2>2
<1>5. Len(front \o back) = Len(s) - 1
  BY <1>1, <1>2, <1>3
<1> QED
  BY <1>3, <1>4, <1>5

\* the place of the first call under an alias
LEMMA FirstPlace ==
    ASSUME NEW S, NEW s \in Seq(S), NEW e, \E i \in 1 .. Len(s) : s[i] = e
    PROVE  \E k \in 1 .. Len(s) : RemoveFirst(s, e) = RemoveAt(s, k)
<1> DEFINE places == {i \in 1 .. Len(s) : s[i] = e}
           k == CHOOSE x \in places : \A y \in places : x <= y
<1>1. places \in SUBSET Nat /\ places # {}
  OBVIOUS
<1>2. k \in places
  BY <1>1, Least
<1>3. RemoveFirst(s, e) = RemoveAt(s, k)
  BY <1>1 DEF RemoveFirst, SelectInSeq, Min
<1> QED
  BY <1>2, <1>3

(***************************************************************************)
(* The list that an install writes has just the package in addition, and   *)
(* a call for it.                                                          *)
(***************************************************************************)
LEMMA AddedIsRight ==
    ASSUME Formed(source), NEW url \in Urls, url \notin Imported(source)
    PROVE  /\ Formed(Added(url))
           /\ Imported(Added(url)) = Imported(source) \cup {url}
<1> DEFINE s == source.imports
           new == ImportOf(NewAlias(url), url)
           t == SortedImports(Append(s, new))
           calls == <<NewAlias(url)>> \o source.services
<1>1. /\ s \in Seq(Range(s)) /\ InOrder(s)
      /\ \A i \in 1 .. Len(s) : s[i].url \in Urls
      /\ source.services \in Seq(Range(source.services))
      /\ Len(s) = Len(source.services)
  BY DEF Formed
<1>2. Imported(source) = {s[i].url : i \in 1 .. Len(s)}
  BY <1>1 DEF Imported
<1>3. new.url = url
  BY DEF ImportOf
<1>4. /\ t \in Seq(Range(t)) /\ Len(t) = Len(s) + 1 /\ InOrder(t)
      /\ \A i \in 1 .. Len(t) : t[i].url \in Urls
      /\ Paths(t) = Paths(s) \cup {new.url}
  <2>1. \A i \in 1 .. Len(s) : s[i].url # new.url
    BY <1>2, <1>3
  <2>2. t = SortedImports(Append(s, new)) /\ new.url \in Urls
    BY <1>3
  <2> HIDE DEF s, new, t
  <2> QED
    BY <1>1, <2>1, <2>2, SortedHasNew
<1>5. calls \in Seq(Range(calls)) /\ Len(calls) = Len(source.services) + 1
  <2>1. /\ calls \in Seq(Range(source.services) \cup {NewAlias(url)})
        /\ Len(calls) = Len(source.services) + 1
    <3> DEFINE T == Range(source.services) \cup {NewAlias(url)}
    <3>1. source.services \in Seq(T) /\ <<NewAlias(url)>> \in Seq(T)
      BY <1>1
    <3> QED
      BY <3>1, ConcatProperties
  <2> HIDE DEF calls
  <2> QED
    BY <2>1, OwnElements
<1>6. /\ Added(url).imports = t /\ Added(url).services = calls
  BY DEF Added
<1> HIDE DEF t, calls
<1>7. Imported(Added(url)) = Imported(source) \cup {url}
  <2>1. Imported(Added(url)) = Paths(t)
    BY <1>4, <1>6 DEF Imported, Paths
  <2>2. Imported(source) = Paths(s)
    BY <1>2 DEF Paths
  <2> HIDE DEF s, new
  <2> QED
    BY <1>3, <1>4, <2>1, <2>2
<1>8. Formed(Added(url))
  BY <1>1, <1>4, <1>5, <1>6 DEF Formed
<1> QED
  BY <1>7, <1>8

(***************************************************************************)
(* The list that a removal writes lacks just the package, and its call.    *)
(***************************************************************************)
LEMMA RemovedIsRight ==
    ASSUME Formed(source), NEW url \in Imported(source),
           \A i \in 1 .. Len(source.imports) :
              source.imports[i].alias \in ToSet(source.services)
    PROVE  /\ Formed(Removed(url))
           /\ Imported(Removed(url)) = Imported(source) \ {url}
<1> DEFINE s == source.imports
           n == CHOOSE i \in DOMAIN s : s[i].url = url
           t == RemoveAt(s, n)
           calls == RemoveFirst(source.services, s[n].alias)
<1>1. /\ s \in Seq(Range(s)) /\ InOrder(s)
      /\ \A i \in 1 .. Len(s) : s[i].url \in Urls
      /\ source.services \in Seq(Range(source.services))
      /\ Len(s) = Len(source.services)
  BY DEF Formed
<1>2. DOMAIN s = 1 .. Len(s) /\ Len(s) \in Nat
  BY <1>1
<1>3. n \in 1 .. Len(s) /\ s[n].url = url
  BY <1>2 DEF Imported
<1>4. /\ Removed(url).imports = t /\ Removed(url).services = calls
  BY DEF Removed
<1> HIDE DEF s, n
<1>5. /\ t \in Seq(Range(s)) /\ Len(t) = Len(s) - 1
      /\ \A i \in 1 .. (Len(s) - 1) :
            t[i] = IF i < n THEN s[i] ELSE s[i + 1]
  BY <1>1, <1>3, WithoutOne
<1>6. calls \in Seq(Range(source.services))
      /\ Len(calls) = Len(source.services) - 1
  <2>1. \E i \in 1 .. Len(source.services) : source.services[i] = s[n].alias
    <3>1. s[n].alias \in ToSet(source.services)
      BY <1>3 DEF s
    <3>2. DOMAIN source.services = 1 .. Len(source.services)
      BY <1>1
    <3> QED
      BY <3>1, <3>2 DEF ToSet
  <2>2. PICK k \in 1 .. Len(source.services) :
            calls = RemoveAt(source.services, k)
    BY <1>1, <2>1, FirstPlace
  <2> QED
    BY <1>1, <2>2, WithoutOne
<1> HIDE DEF t, calls
<1>7. \A i \in 1 .. Len(t) :
          \/ i < n /\ i \in 1 .. Len(s) /\ t[i] = s[i]
          \/ i >= n /\ i + 1 \in 1 .. Len(s) /\ t[i] = s[i + 1]
  BY <1>2, <1>3, <1>5
<1>8. InOrder(t)
  <2> SUFFICES ASSUME NEW i \in 1 .. Len(t), NEW j \in 1 .. Len(t), i < j
               PROVE  Rank[t[i].url] < Rank[t[j].url]
    BY DEF InOrder
  <2>1. /\ i \in Nat /\ j \in Nat /\ n \in Nat
    BY <1>2, <1>3
  <2>2. CASE j < n
    BY <1>1, <1>7, <2>1, <2>2 DEF InOrder
  <2>3. CASE i < n /\ j >= n
    BY <1>1, <1>7, <2>1, <2>3 DEF InOrder
  <2>4. CASE i >= n
    BY <1>1, <1>7, <2>1, <2>4 DEF InOrder
  <2> QED
    BY <2>1, <2>2, <2>3, <2>4
<1>9. t \in Seq(Range(t)) /\ calls \in Seq(Range(calls))
  BY <1>5, <1>6, OwnElements
<1>10. \A i \in 1 .. Len(t) : t[i].url \in Urls
  BY <1>1, <1>7
<1>11. Formed(Removed(url))
  BY <1>1, <1>4, <1>5, <1>6, <1>8, <1>9, <1>10 DEF Formed
<1>12. /\ Imported(source) = {s[i].url : i \in 1 .. Len(s)}
       /\ Imported(Removed(url)) = {t[i].url : i \in 1 .. Len(t)}
  BY <1>2, <1>4, <1>5 DEF Imported, s
<1>13. \A i \in 1 .. Len(t) : \E j \in 1 .. Len(s) : t[i] = s[j] /\ j # n
  BY <1>2, <1>3, <1>7
<1>14. \A j \in 1 .. Len(s) : j # n => \E i \in 1 .. Len(t) : t[i] = s[j]
  <2> SUFFICES ASSUME NEW j \in 1 .. Len(s), j # n
               PROVE  \E i \in 1 .. Len(t) : t[i] = s[j]
    OBVIOUS
  <2>1. CASE j < n
    <3>1. j \in 1 .. Len(t)
      BY <1>2, <1>3, <1>5, <2>1
    <3> QED
      BY <1>2, <1>3, <1>5, <2>1, <3>1
  <2>2. CASE j > n
    <3>1. j - 1 \in 1 .. Len(t) /\ ~ (j - 1 < n) /\ (j - 1) + 1 = j
      BY <1>2, <1>3, <1>5, <2>2
    <3> QED
      BY <1>2, <1>3, <1>5, <3>1
  <2> QED
    BY <1>2, <1>3, <2>1, <2>2
<1>15. \A j \in 1 .. Len(s) : j # n => s[j].url # url
  <2>1. \A j \in 1 .. Len(s) : Rank[s[j].url] \in Nat
    BY <1>1, ModuleListAssumption
  <2>2. ASSUME NEW j \in 1 .. Len(s), j # n
        PROVE  Rank[s[j].url] # Rank[s[n].url]
    <3>1. j < n \/ n < j
      BY <1>2, <1>3, <2>2
    <3> QED
      BY <1>1, <1>3, <2>1, <3>1 DEF InOrder
  <2> QED
    BY <1>3, <2>2
<1> QED
  <2>1. \A u : u \in Imported(Removed(url)) <=>
                  u \in Imported(source) /\ u # url
    <3>1. ASSUME NEW i \in 1 .. Len(t)
          PROVE  t[i].url \in Imported(source) /\ t[i].url # url
      <4>1. PICK j \in 1 .. Len(s) : t[i] = s[j] /\ j # n
        BY <1>13
      <4> QED
        BY <1>12, <1>15, <4>1
    <3>2. ASSUME NEW j \in 1 .. Len(s), s[j].url # url
          PROVE  s[j].url \in Imported(Removed(url))
      <4>1. PICK i \in 1 .. Len(t) : t[i] = s[j]
        BY <1>3, <1>14, <3>2
      <4> QED
        BY <1>12, <4>1
    <3> QED
      BY <1>12, <3>1, <3>2
  <2> QED
    BY <1>11, <2>1

-----------------------------------------------------------------------------
(***************************************************************************)
(* What a success rests on.  A command can only be started when the list   *)
(* builds, so that each import has its call.                               *)
(***************************************************************************)
ListsFormed ==
    Formed(source) /\ Formed(edited) /\ (list.whole => Formed(list))

CommandFits ==
    step # "idle" =>
        /\ \A i \in 1 .. Len(source.imports) :
              source.imports[i].alias \in ToSet(source.services)
        /\ IF command.name = "install" THEN command.url \notin Imported(source)
           ELSE command.url \in Imported(source)
        /\ command.version # 0

\* the packages that the command is to leave imported
Meant ==
    CASE command.name = "install" -> Imported(source) \cup {command.url}
      [] command.name = "remove" -> Imported(source) \ {command.url}
      [] command.name = "update" -> Imported(source)

\* the version is there from go get on, and go.mod is tidy for the build
Progress ==
    /\ step \in {"backup", "write"} => Imported(edited) = Meant
    /\ step \in {"tidy", "build"} => Imported(list) = Meant
    /\ /\ step \in {"check", "edit", "backup", "write", "tidy", "build"}
       /\ command.name # "remove"
       => goMod[command.url] = command.version
    /\ step = "build" => goMod = TidyGoMod

CompleteInv == ListsFormed /\ CommandFits /\ Progress /\ SuccessIsComplete

LEMMA BeginCompletes ==
    ASSUME ModuleListInv, CompleteInv, NEW url \in Urls,
           NEW version \in 0 .. Latest,
           \/ BeginInstall(url, version)
           \/ BeginUpdate(url, version)
           \/ BeginRemove(url)
    PROVE  CompleteInv'
<1>1. /\ source' = list /\ edited' = list /\ UNCHANGED <<files, goMod>>
      /\ list.whole /\ Builds /\ command'.url = url
      /\ command'.version # 0 /\ result' # "ok"
      /\ step' \in {"idle", "get", "edit"}
  BY ModuleListAssumption
     DEF BeginInstall, BeginUpdate, BeginRemove, Begin, Builds, Return
<1>2. ListsFormed'
  BY <1>1 DEF CompleteInv, ListsFormed, files, Formed
<1>3. step' # "idle" =>
         /\ \/ command'.name = "install" /\ url \notin Imported(list)
            \/ command'.name # "install" /\ url \in Imported(list)
         /\ step' = "edit" => command'.name = "remove"
  BY DEF BeginInstall, BeginUpdate, BeginRemove, Begin, Return
<1>4. \A i \in 1 .. Len(list.imports) :
         list.imports[i].alias \in ToSet(list.services)
  <2>1. DOMAIN list.imports = 1 .. Len(list.imports)
    BY <1>1 DEF CompleteInv, ListsFormed, Formed
  <2> QED
    BY <1>1, <2>1 DEF Builds
<1>5. CommandFits'
  BY <1>1, <1>3, <1>4 DEF CommandFits, Imported
<1>6. Progress' /\ SuccessIsComplete'
  BY <1>1, <1>3 DEF Progress, SuccessIsComplete
<1> QED
  BY <1>2, <1>5, <1>6 DEF CompleteInv

\* the steps in the middle of a command change neither what it is nor what
\* it found, and end it without success
LEMMA MiddleFits ==
    ASSUME ModuleListInv, CompleteInv, step # "idle",
           UNCHANGED <<commandVars>>, result' # "ok"
    PROVE  CommandFits' /\ SuccessIsComplete' /\ Meant' = Meant
  BY DEF CompleteInv, CommandFits, SuccessIsComplete, Meant, Imported,
         commandVars

LEMMA GoGetCompletes ==
    ASSUME ModuleListInv, CompleteInv, GoGet \/ CheckPackage
    PROVE  CompleteInv'
<1>1. /\ UNCHANGED <<files, commandVars, edited>> /\ step \in {"get", "check"}
      /\ result = "none" /\ command.url \in Urls
      /\ goMod \in [Urls -> Nat] /\ list = source
  BY DEF GoGet, CheckPackage, ModuleListInv, CommandTypes, Stages, ListAtStep
<1>2. /\ \/ step' = "check" /\ result' = result
         \/ step' = "edit" /\ result' = result
         \/ step' = "tidy" /\ result' = result /\ command.name # "install"
         \/ step' = "reget" /\ result' = result
         \/ step' = "idle" /\ result' \in {"error", "panic"}
      /\ step' \in {"check", "edit", "tidy"} =>
            goMod'[command.url] = command.version
  <2>1. \A found : Verdict(found) \in {"compatible", "incompatible", "panic"}
    BY DEF Verdict
  <2>2. CASE GoGet
    BY <1>1, <2>2 DEF GoGet, FailedGet, Return
  <2>3. CASE CheckPackage
    <3>1. step = "check" /\ goMod' = goMod
      BY <2>3 DEF CheckPackage
    <3>2. CASE command.name = "remove"
      BY <3>1, <3>2 DEF ModuleListInv, Stages
    <3>3. CASE command.name # "remove"
      <4>1. goMod[command.url] = command.version
        BY <3>1, <3>3 DEF CompleteInv, Progress
      <4> QED
        BY <2>1, <2>3, <3>1, <4>1 DEF CheckPackage, FailedGet, Return
    <3> QED
      BY <3>2, <3>3
  <2> QED
    BY <2>2, <2>3
<1>3. CommandFits' /\ SuccessIsComplete' /\ Meant' = Meant
  BY <1>1, <1>2, MiddleFits
<1>4. ListsFormed'
  BY <1>1 DEF CompleteInv, ListsFormed, Formed, files, commandVars
<1>5. Progress'
  <2>1. step' = "tidy" => Imported(list) = Meant
    BY <1>1, <1>2 DEF Meant, ModuleListInv, CommandTypes, Stages
  <2>2. Imported(list)' = Imported(list)
    BY <1>1 DEF Imported, files
  <2> QED
    BY <1>1, <1>2, <1>3, <2>1, <2>2 DEF Progress, commandVars
<1> QED
  BY <1>3, <1>4, <1>5 DEF CompleteInv

LEMMA EditCompletes ==
    ASSUME ModuleListInv, CompleteInv, Edit
    PROVE  CompleteInv'
<1>1. /\ step = "edit" /\ UNCHANGED <<files, goMod, commandVars>>
      /\ result = "none" /\ command.url \in Urls
      /\ command.name \in {"install", "remove"}
  BY DEF Edit, ModuleListInv, CommandTypes, Stages, Editing
<1>2. \/ edited' = edited /\ step' = "idle" /\ result' = "panic"
      \/ /\ edited' = IF command.name = "install" THEN Added(command.url)
                      ELSE Removed(command.url)
         /\ step' = "backup" /\ result' = result
  BY DEF Edit, Return
<1>3. CommandFits' /\ SuccessIsComplete' /\ Meant' = Meant
  BY <1>1, <1>2, MiddleFits
<1>4. step' = "backup" => Formed(edited)' /\ Imported(edited)' = Meant
  <2> SUFFICES ASSUME step' = "backup"
               PROVE  Formed(edited)' /\ Imported(edited)' = Meant
    OBVIOUS
  <2>1. CASE command.name = "install"
    <3>1. /\ Formed(Added(command.url))
          /\ Imported(Added(command.url)) =
                Imported(source) \cup {command.url}
      BY <1>1, <2>1, AddedIsRight
         DEF CompleteInv, ListsFormed, CommandFits
    <3> QED
      BY <1>2, <2>1, <3>1 DEF Meant, Formed, Imported
  <2>2. CASE command.name = "remove"
    <3>1. /\ Formed(Removed(command.url))
          /\ Imported(Removed(command.url)) =
                Imported(source) \ {command.url}
      BY <1>1, <2>2, RemovedIsRight
         DEF CompleteInv, ListsFormed, CommandFits
    <3> QED
      BY <1>2, <2>2, <3>1 DEF Meant, Formed, Imported
  <2> QED
    BY <1>1, <2>1, <2>2
<1>5. ListsFormed'
  BY <1>1, <1>2, <1>4 DEF CompleteInv, ListsFormed, Formed, files, commandVars
<1>6. Progress'
  BY <1>1, <1>2, <1>3, <1>4 DEF CompleteInv, Progress, commandVars
<1> QED
  BY <1>3, <1>5, <1>6 DEF CompleteInv

LEMMA WriteCompletes ==
    ASSUME ModuleListInv, CompleteInv, WriteBackup \/ WriteList
    PROVE  CompleteInv'
<1>1. /\ step \in {"backup", "write"}
      /\ UNCHANGED <<goMod, commandVars, edited>>
      /\ list' \in {list, edited, Torn}
      /\ result = "none"
  BY DEF WriteBackup, WriteList, ModuleListInv, Stages
<1>2. \/ step' = "write" /\ result' = result
      \/ step' = "tidy" /\ result' = result /\ list' = edited
      \/ step' = "restore" /\ result' = result
      \/ step' = "idle" /\ result' = "error"
  BY DEF WriteBackup, WriteList, Return
<1>3. CommandFits' /\ SuccessIsComplete' /\ Meant' = Meant
  BY <1>1, <1>2, MiddleFits
<1>4. ListsFormed'
  BY <1>1 DEF CompleteInv, ListsFormed, Formed, Torn, commandVars
<1>5. Progress'
  <2>1. Imported(edited)' = Imported(edited)
    BY <1>1 DEF Imported
  <2>2. step' = "tidy" => Imported(list)' = Imported(edited)
    BY <1>2 DEF Imported
  <2> QED
    BY <1>1, <1>2, <1>3, <2>1, <2>2
       DEF CompleteInv, Progress, commandVars
<1> QED
  BY <1>3, <1>4, <1>5 DEF CompleteInv

(***************************************************************************)
(* go mod tidy keeps the version asked for, and a second one would change  *)
(* nothing; what go build finds in order is a success.                     *)
(***************************************************************************)
LEMMA TidyCompletes ==
    ASSUME ModuleListInv, CompleteInv, Tidy
    PROVE  CompleteInv'
<1>1. /\ step = "tidy" /\ UNCHANGED <<files, commandVars, edited, result>>
      /\ result = "none" /\ command.url \in Urls
      /\ goMod \in [Urls -> Nat]
      /\ command.name \in {"install", "update", "remove"}
      /\ Imported(list) = Meant
  BY DEF Tidy, ModuleListInv, CommandTypes, Stages, CompleteInv, Progress
<1>2. CommandFits' /\ SuccessIsComplete' /\ Meant' = Meant
  BY <1>1, MiddleFits
<1>3. ListsFormed'
  BY <1>1 DEF CompleteInv, ListsFormed, Formed, files, commandVars
<1>4. Imported(list)' = Imported(list)
  BY <1>1 DEF Imported, files
<1>5. CASE goMod' = TidyGoMod /\ step' = "build"
  <2>1. TidyGoMod' = TidyGoMod
    <3>1. \A u \in Urls :
             goMod'[u] = IF u \notin Imported(list) THEN 0
                         ELSE IF goMod[u] = 0 THEN Latest ELSE goMod[u]
      BY <1>5 DEF TidyGoMod
    <3> QED
      BY <1>4, <3>1, ModuleListAssumption DEF TidyGoMod
  <2>2. command.name # "remove" => goMod'[command.url] = command.version
    <3> SUFFICES ASSUME command.name # "remove"
                 PROVE  goMod'[command.url] = command.version
      OBVIOUS
    <3>1. goMod[command.url] = command.version /\ command.version # 0
      BY <1>1 DEF CompleteInv, Progress, CommandFits
    <3>2. command.url \in Imported(list)
      BY <1>1 DEF CompleteInv, CommandFits, Meant
    <3> QED
      BY <1>1, <1>5, <3>1, <3>2 DEF TidyGoMod
  <2>3. Progress'
    BY <1>1, <1>2, <1>4, <1>5, <2>1, <2>2 DEF Progress, commandVars
  <2> QED
    BY <1>2, <1>3, <2>3 DEF CompleteInv
<1>6. CASE step' \in {"reget", "restore"}
  BY <1>2, <1>3, <1>6 DEF CompleteInv, Progress
<1> QED
  BY <1>5, <1>6 DEF Tidy, Undo

LEMMA BuildCompletes ==
    ASSUME ModuleListInv, CompleteInv, Build
    PROVE  CompleteInv'
<1>1. /\ step = "build" /\ UNCHANGED <<files, goMod, commandVars, edited>>
      /\ result = "none" /\ Imported(list) = Meant /\ goMod = TidyGoMod
      /\ command.name # "remove" => goMod[command.url] = command.version
      /\ command.name \in {"install", "update", "remove"}
  BY DEF Build, ModuleListInv, CommandTypes, Stages, CompleteInv, Progress
<1>2. /\ Imported(list)' = Imported(list)
      /\ Imported(source)' = Imported(source)
      /\ TidyGoMod' = TidyGoMod /\ Builds' = Builds
  BY <1>1 DEF Imported, TidyGoMod, Builds, AliasesDistinct, files, commandVars
<1>3. ListsFormed'
  BY <1>1 DEF CompleteInv, ListsFormed, Formed, files, commandVars
<1>4. CASE step' = "idle" /\ result' = "ok" /\ Builds
  <2>1. Len(list.imports) = Len(list.services)
    BY <1>4 DEF CompleteInv, ListsFormed, Formed, Builds
  <2>2. SuccessIsComplete'
    BY <1>1, <1>2, <1>4, <2>1 DEF SuccessIsComplete, Meant, files, commandVars
  <2> QED
    BY <1>3, <1>4, <2>2 DEF CompleteInv, CommandFits, Progress
<1>5. CASE step' \in {"reget", "restore"} /\ result' = result
  <2>1. CommandFits' /\ SuccessIsComplete'
    BY <1>1, <1>5, MiddleFits
  <2> QED
    BY <1>3, <1>5, <2>1 DEF CompleteInv, Progress
<1> QED
  BY <1>4, <1>5 DEF Build, Undo, Return

\* what is restored, and what is left by a kill, is not called a success
LEMMA UnsuccessfulStep ==
    ASSUME ModuleListInv, CompleteInv,
           \/ RestoreList \/ RemoveBackup \/ TidyRestored \/ RestoreVersion
           \/ Killed
    PROVE  CompleteInv'
<1>1. /\ step # "idle" /\ UNCHANGED <<commandVars, edited>>
      /\ list' \in {list, source, Torn} /\ result = "none"
      /\ step' \in {"idle", "unbackup", "retidy"} /\ result' # "ok"
  BY DEF RestoreList, RemoveBackup, TidyRestored, RestoreVersion, Killed,
         Return, files, ModuleListInv, Stages
<1>2. CommandFits' /\ SuccessIsComplete'
  BY <1>1, MiddleFits
<1>3. ListsFormed'
  BY <1>1 DEF CompleteInv, ListsFormed, Formed, Torn, commandVars
<1> QED
  BY <1>1, <1>2, <1>3 DEF CompleteInv, Progress

LEMMA CompleteStart ==
    ASSUME ModuleListInit
    PROVE  CompleteInv
<1>1. Formed(list)
  <2> DEFINE import == ImportOf(<<Package[Shipped], 1>>, Shipped)
             call == <<Package[Shipped], 1>>
  <2>1. import.url \in Urls
    BY ModuleListAssumption DEF ImportOf
  <2> HIDE DEF import, call
  <2>2. list.imports = <<import>> /\ list.services = <<call>>
    BY DEF ModuleListInit, import, call
  <2>3. /\ <<import>> \in Seq(Range(<<import>>))
        /\ <<call>> \in Seq(Range(<<call>>))
    <3>1. <<import>> \in Seq({import}) /\ <<call>> \in Seq({call})
      OBVIOUS
    <3> QED
      BY <3>1, OwnElements
  <2> QED
    BY <2>1, <2>2, <2>3 DEF Formed, InOrder
<1> QED
  BY <1>1 DEF ModuleListInit, CompleteInv, ListsFormed, CommandFits, Progress,
              SuccessIsComplete

(***************************************************************************)
(* A command that succeeds leaves a list with just what it was to import,  *)
(* once each and each with its call, a go.mod that is tidy and has the     *)
(* version asked for, and a program that builds                            *)
(* (moduleListOperator.go:209-233, 418-451).                               *)
(***************************************************************************)
THEOREM SuccessesComplete == ModuleListSpec => []SuccessIsComplete
<1>1. ModuleListInit => CompleteInv
  BY CompleteStart
<1>2. ASSUME ModuleListInv, CompleteInv, [ModuleListNext]_vars
      PROVE  CompleteInv'
  <2>1. CASE UNCHANGED vars
    <3>1. /\ list' = list /\ source' = source /\ edited' = edited
          /\ goMod' = goMod /\ step' = step /\ command' = command
          /\ result' = result
      BY <2>1 DEF vars, files, commandVars
    <3>2. ListsFormed' /\ CommandFits'
      BY <1>2, <3>1 DEF CompleteInv, ListsFormed, Formed, CommandFits, Imported
    <3>3. /\ Meant' = Meant /\ TidyGoMod' = TidyGoMod /\ Builds' = Builds
          /\ Imported(list)' = Imported(list)
          /\ Imported(edited)' = Imported(edited)
          /\ Imported(source)' = Imported(source)
      BY <3>1 DEF Meant, Imported, TidyGoMod, Builds, AliasesDistinct
    <3> QED
      BY <1>2, <3>1, <3>2, <3>3 DEF CompleteInv, Progress, SuccessIsComplete
  <2>2. ASSUME NEW url \in Urls, NEW version \in 0 .. Latest,
               BeginInstall(url, version) \/ BeginUpdate(url, version)
        PROVE  CompleteInv'
    BY <1>2, <2>2, BeginCompletes
  <2>3. ASSUME NEW url \in Urls, BeginRemove(url) PROVE CompleteInv'
    <3>1. 0 \in 0 .. Latest
      BY ModuleListAssumption
    <3> QED
      BY <1>2, <2>3, <3>1, BeginCompletes
  <2>4. CASE GoGet \/ CheckPackage
    BY <1>2, <2>4, GoGetCompletes
  <2>5. CASE Edit
    BY <1>2, <2>5, EditCompletes
  <2>6. CASE WriteBackup \/ WriteList
    BY <1>2, <2>6, WriteCompletes
  <2>7. CASE Tidy
    BY <1>2, <2>7, TidyCompletes
  <2>8. CASE Build
    BY <1>2, <2>8, BuildCompletes
  <2>9. CASE \/ RestoreList \/ RemoveBackup \/ TidyRestored \/ RestoreVersion
             \/ Killed
    BY <1>2, <2>9, UnsuccessfulStep
  <2> QED
    BY <1>2, <2>1, <2>2, <2>3, <2>4, <2>5, <2>6, <2>7, <2>8, <2>9
       DEF ModuleListNext
<1>3. CompleteInv => SuccessIsComplete
  BY DEF CompleteInv
<1> QED
  BY <1>1, <1>2, <1>3, ModuleListInvariant, PTL DEF ModuleListSpec
-----------------------------------------------------------------------------
(***************************************************************************)
(* The check of a package.  First and last places exist.                   *)
(***************************************************************************)
LEMMA FirstIs ==
    ASSUME NEW S \in SUBSET Nat, S # {}
    PROVE  First(S) \in S /\ \A j \in S : First(S) <= j
BY Least DEF First

LEMMA Greatest ==
    ASSUME NEW n \in Nat, NEW S \in SUBSET (1 .. n), S # {}
    PROVE  \E m \in S : \A k \in S : k <= m
<1> DEFINE T == {n - k : k \in S}
<1>1. T \in SUBSET Nat /\ T # {}
  <2>1. \A k \in S : n - k \in Nat
    OBVIOUS
  <2> QED
    BY <2>1
<1>2. PICK d \in T : \A e \in T : d <= e
  <2> HIDE DEF T
  <2> QED
    BY <1>1, Least
<1>3. PICK m \in S : d = n - m
  OBVIOUS
<1>4. ASSUME NEW k \in S PROVE k <= m
  <2>1. n - m <= n - k
    BY <1>2, <1>3
  <2> QED
    BY <2>1
<1> QED
  BY <1>4

LEMMA FileIs ==
    ASSUME NEW file \in Files
    PROVE  /\ Len(file.imports) \in Nat /\ Len(file.functions) \in Nat
           /\ DOMAIN file.imports = 1 .. Len(file.imports)
           /\ DOMAIN file.functions = 1 .. Len(file.functions)
           /\ \A i \in DOMAIN file.imports : file.imports[i] \in ImportSpecs
           /\ \A i \in DOMAIN file.functions :
                 file.functions[i] \in FuncDecls
BY DEF Files

(***************************************************************************)
(* parseImports: the path found for a prefix is that of an import that is  *)
(* known by it, and one that alone is known by it is found.                *)
(***************************************************************************)
LEMMA ImportFound ==
    ASSUME NEW file \in Files, NEW prefix,
           NEW i \in DOMAIN file.imports,
           file.imports[i].alias # "_", KnownAs(file.imports[i]) = prefix
    PROVE  \E n \in DOMAIN file.imports :
              /\ file.imports[n].alias # "_"
              /\ KnownAs(file.imports[n]) = prefix
              /\ ImportPath(file, prefix) = file.imports[n].path
<1> DEFINE named == {k \in DOMAIN file.imports :
                        /\ file.imports[k].alias # "_"
                        /\ KnownAs(file.imports[k]) = prefix}
           n == CHOOSE k \in named : \A j \in named : j <= k
<1>1. named \in SUBSET (1 .. Len(file.imports)) /\ named # {}
      /\ Len(file.imports) \in Nat
  BY FileIs
<1>2. n \in named
  <2> HIDE DEF named
  <2>1. \E k \in named : \A j \in named : j <= k
    BY <1>1, Greatest
  <2> QED
    BY <2>1
<1>3. ImportPath(file, prefix) = file.imports[n].path
  BY <1>1 DEF ImportPath
<1> HIDE DEF n
<1> QED
  BY <1>2, <1>3

LEMMA NoImportFound ==
    ASSUME NEW file \in Files, NEW prefix, ImportPath(file, prefix) # ""
    PROVE  \E i \in DOMAIN file.imports :
              /\ file.imports[i].alias # "_"
              /\ KnownAs(file.imports[i]) = prefix
BY DEF ImportPath

(***************************************************************************)
(* A type that the code takes for the expected one is that for Go, unless  *)
(* an import has the name of another; and the other way round in a file    *)
(* whose imports are plain (interfaceChecker.go:197-276).                  *)
(***************************************************************************)
TypesOf(func) == Range(func.args) \cup Range(func.results)

Expected(m) == Range(Methods[m].args) \cup Range(Methods[m].results)

LEMMA TakenMeans ==
    ASSUME NEW file \in Files, Compiles(file), ~ Misleading(file),
           NEW k \in DOMAIN file.functions,
           NEW type \in TypesOf(file.functions[k]),
           NEW m \in DOMAIN Methods, NEW expected \in Expected(m),
           SameType(file, type, expected), type.shape = expected.shape
    PROVE  Means(file, type, expected)
<1>1. type.name = expected.name /\ type.shape = expected.shape
  BY DEF SameType
<1>2. type.prefix # "" =>
         /\ type.prefix \notin {"_", Dot}
         /\ \E i \in DOMAIN file.imports :
               GoName(file.imports[i]) = type.prefix
         /\ expected.path = "" => type.name # expected.name
  BY DEF Compiles, TypesOf, Expected
<1>3. CASE expected.path = ""
  BY <1>1, <1>2, <1>3 DEF Means
<1>4. CASE expected.path # ""
  <2>1. /\ type.prefix # ""
        /\ ImportPath(file, type.prefix) = expected.path
    BY <1>4 DEF SameType
  <2>2. PICK n \in DOMAIN file.imports :
          /\ file.imports[n].alias # "_"
          /\ KnownAs(file.imports[n]) = type.prefix
          /\ file.imports[n].path = expected.path
    <3> DEFINE prefix == type.prefix
    <3>1. ImportPath(file, prefix) = expected.path
      BY <2>1
    <3> HIDE DEF prefix
    <3>2. \E n \in DOMAIN file.imports :
             /\ file.imports[n].alias # "_"
             /\ KnownAs(file.imports[n]) = prefix
             /\ ImportPath(file, prefix) = file.imports[n].path
      BY <1>4, <3>1, NoImportFound, ImportFound
    <3> QED
      BY <3>1, <3>2 DEF prefix
  <2>3. GoName(file.imports[n]) = type.prefix
    <3>1. CASE file.imports[n].alias # ""
      BY <2>2, <3>1 DEF KnownAs, GoName
    <3>2. CASE file.imports[n].alias = ""
      <4>1. file.imports[n].last = type.prefix
        BY <2>2, <3>2 DEF KnownAs
      <4>2. PICK i \in DOMAIN file.imports :
              GoName(file.imports[i]) = type.prefix
        BY <1>2, <2>1
      <4> QED
        BY <3>2, <4>1, <4>2 DEF Misleading
    <3> QED
      BY <3>1, <3>2
  <2>4. file.imports[n].alias # Dot
    <3>1. CASE file.imports[n].alias = ""
      <4>1. Dot # ""
        BY Zenon DEF Dot
      <4> QED
        BY <3>1, <4>1
    <3>2. CASE file.imports[n].alias # ""
      BY <1>2, <2>1, <2>2, <3>2 DEF KnownAs
    <3> QED
      BY <3>1, <3>2
  <2> QED
    BY <1>1, <1>4, <2>2, <2>3, <2>4 DEF Means
<1> QED
  BY <1>3, <1>4

LEMMA MeansTaken ==
    ASSUME NEW file \in Files, Compiles(file), Plainly(file),
           NEW k \in DOMAIN file.functions,
           NEW type \in TypesOf(file.functions[k]),
           NEW m \in DOMAIN Methods, NEW expected \in Expected(m),
           Means(file, type, expected)
    PROVE  SameType(file, type, expected)
<1>1. type.name = expected.name /\ type.shape # "nameless"
  <2>1. type.name = expected.name /\ type.shape = expected.shape
    BY DEF Means
  <2>2. expected.shape \in {"", "*"}
    <3> DEFINE E == [name : STRING \ {""}, path : STRING, shape : {"", "*"}]
    <3>1. Methods[m].args \in Seq(E) /\ Methods[m].results \in Seq(E)
      BY MethodsAssumption DEF ExpectedTypes
    <3> HIDE DEF E
    <3>2. expected \in E
      BY <3>1 DEF Expected, Range
    <3> QED
      BY <3>2 DEF E
  <2> QED
    BY <2>1, <2>2
<1>2. CASE expected.path = ""
  BY <1>1, <1>2 DEF SameType
<1>3. CASE expected.path # ""
  <2>1. PICK i \in DOMAIN file.imports :
          /\ file.imports[i].path = expected.path
          /\ type.prefix = IF file.imports[i].alias = Dot THEN ""
                           ELSE GoName(file.imports[i])
    BY <1>3 DEF Means
  <2>2. \A n \in DOMAIN file.imports :
           /\ file.imports[n].alias # Dot
           /\ KnownAs(file.imports[n]) = GoName(file.imports[n])
    BY DEF Plainly, KnownAs, GoName
  <2>3. type.prefix = GoName(file.imports[i])
    BY <2>1, <2>2
  <2>4. type.prefix # ""
    <3>1. file.imports[i].package # ""
      BY FileIs DEF ImportSpecs
    <3> QED
      BY <2>3, <3>1 DEF GoName
  <2>5. type.prefix \notin {"_", Dot}
    BY <2>4 DEF Compiles, TypesOf
  <2>6. file.imports[i].alias # "_"
        /\ KnownAs(file.imports[i]) = type.prefix
    BY <2>2, <2>3, <2>5 DEF GoName
  <2>7. PICK n \in DOMAIN file.imports :
          /\ KnownAs(file.imports[n]) = type.prefix
          /\ ImportPath(file, type.prefix) = file.imports[n].path
    BY <2>6, ImportFound
  <2>8. n = i
    BY <2>2, <2>3, <2>5, <2>7 DEF Compiles
  <2> QED
    BY <1>1, <2>1, <2>4, <2>7, <2>8 DEF SameType
<1> QED
  BY <1>2, <1>3

(***************************************************************************)
(* When no two values share a field, the fields are the values: the code   *)
(* counts what Go counts (interfaceChecker.go:240, 304).                   *)
(***************************************************************************)
LEMMA Unjoined ==
    ASSUME NEW types \in Types, \A j \in DOMAIN types : ~ types[j].joined
    PROVE  /\ Fields(types) = DOMAIN types
           /\ Cardinality(Fields(types)) = Len(types)
           /\ \A i \in DOMAIN types : Place(types, i) = i
<1>1. DOMAIN types = 1 .. Len(types) /\ Len(types) \in Nat
  BY DEF Types
<1>2. Fields(types) = 1 .. Len(types)
  BY <1>1 DEF Fields
<1>3. Cardinality(1 .. Len(types)) = Len(types)
  BY <1>1, FS_Interval
<1>4. ASSUME NEW i \in 1 .. Len(types) PROVE Place(types, i) = i
  <2>1. {j \in Fields(types) : j <= i} = 1 .. i
    BY <1>1, <1>2
  <2>2. Cardinality(1 .. i) = i
    BY <1>1, FS_Interval
  <2> QED
    BY <2>1, <2>2 DEF Place
<1> QED
  BY <1>1, <1>2, <1>3, <1>4

LEMMA SameTypesMean ==
    ASSUME NEW file \in Files, Compiles(file),
           NEW k \in DOMAIN file.functions, NEW m \in DOMAIN Methods,
           NEW types, NEW expected,
           \/ /\ types = file.functions[k].args
              /\ expected = Methods[m].args
           \/ /\ types = file.functions[k].results
              /\ expected = Methods[m].results,
           \A j \in DOMAIN types : ~ types[j].joined
    PROVE  /\ SameTypes(file, types, expected) /\ ~ Misleading(file)
              /\ ~ Loosely(types, expected) =>
                 /\ Len(types) = Len(expected)
                 /\ \A j \in DOMAIN types : Means(file, types[j], expected[j])
           /\ /\ Len(types) = Len(expected) /\ Plainly(file)
              /\ \A j \in DOMAIN types : Means(file, types[j], expected[j])
              => SameTypes(file, types, expected)
<1>1. types \in Types /\ expected \in ExpectedTypes
  BY MethodsAssumption, FileIs DEF FuncDecls
<1>2. ASSUME Len(types) = Len(expected), NEW j \in DOMAIN types
      PROVE  /\ types[j] \in TypesOf(file.functions[k])
             /\ j \in DOMAIN expected /\ expected[j] \in Expected(m)
  <2>1. j \in DOMAIN expected
    <3>1. DOMAIN types = 1 .. Len(types)
      BY <1>1 DEF Types
    <3> DEFINE E == [name : STRING \ {""}, path : STRING, shape : {"", "*"}]
    <3>2. expected \in Seq(E)
      BY <1>1 DEF ExpectedTypes
    <3> HIDE DEF E
    <3>3. DOMAIN expected = 1 .. Len(expected)
      BY <3>2
    <3> QED
      BY <1>2, <3>1, <3>3
  <2>2. types[j] \in Range(types) /\ expected[j] \in Range(expected)
    BY <1>2, <2>1 DEF Range
  <2> QED
    BY <2>1, <2>2 DEF TypesOf, Expected
<1>3. SameTypes(file, types, expected) <=>
        /\ Len(types) = Len(expected)
        /\ \A j \in DOMAIN types : SameType(file, types[j], expected[j])
  BY <1>1, Unjoined DEF SameTypes
<1>4. ASSUME SameTypes(file, types, expected), ~ Misleading(file),
             ~ Loosely(types, expected), NEW j \in DOMAIN types
      PROVE  Means(file, types[j], expected[j])
  <2>1. Len(types) = Len(expected) /\ SameType(file, types[j], expected[j])
    BY <1>3, <1>4
  <2>2. types[j].shape = expected[j].shape
    BY <1>2, <1>4, <2>1 DEF Loosely
  <2> QED
    BY <1>2, <1>4, <2>1, <2>2, TakenMeans
<1>5. ASSUME Len(types) = Len(expected), Plainly(file),
             NEW j \in DOMAIN types, Means(file, types[j], expected[j])
      PROVE  SameType(file, types[j], expected[j])
  BY <1>2, <1>5, MeansTaken
<1> QED
  BY <1>3, <1>4, <1>5

LEMMA SignatureMeans ==
    ASSUME NEW file \in Files, Compiles(file),
           NEW k \in DOMAIN file.functions, IsMethod(file.functions[k])
    PROVE  LET func == file.functions[k] IN
           /\ CompareMethodSignature(file, func) /\ ~ Misleading(file)
              /\ ~ Overlooked(file) =>
                 HasMethod(file, func.receiver, func.name)
           /\ Plainly(file) /\ HasMethod(file, func.receiver, func.name) =>
                 CompareMethodSignature(file, func)
<1> DEFINE func == file.functions[k]
           m == func.name
           Mean(types, expected) ==
               /\ Len(types) = Len(expected)
               /\ \A j \in DOMAIN types : Means(file, types[j], expected[j])
           Unjoins(types) == \A j \in DOMAIN types : ~ types[j].joined
<1>1. ASSUME NEW types, NEW expected,
             \/ types = func.args /\ expected = Methods[m].args
             \/ types = func.results /\ expected = Methods[m].results
      PROVE  /\ SameTypes(file, types, expected) /\ ~ Misleading(file)
                /\ ~ Loosely(types, expected) => Mean(types, expected)
             /\ Plainly(file) /\ Mean(types, expected) =>
                   SameTypes(file, types, expected)
  <2>1. m \in DOMAIN Methods
    BY DEF IsMethod
  <2>2. ~ Loosely(types, expected) => Unjoins(types)
    BY DEF Loosely
  <2>3. Plainly(file) => Unjoins(types)
    BY <1>1 DEF Plainly, Range
  <2>4. Unjoins(types) =>
           /\ SameTypes(file, types, expected) /\ ~ Misleading(file)
              /\ ~ Loosely(types, expected) => Mean(types, expected)
           /\ Plainly(file) /\ Mean(types, expected) =>
                 SameTypes(file, types, expected)
    BY <1>1, <2>1, SameTypesMean
  <2> QED
    BY <2>2, <2>3, <2>4
<1>2. HasMethod(file, func.receiver, m) <=>
        \E i \in DOMAIN file.functions :
            /\ file.functions[i].receiver = func.receiver
            /\ file.functions[i].name = m
            /\ Mean(file.functions[i].args, Methods[m].args)
            /\ Mean(file.functions[i].results, Methods[m].results)
  BY DEF HasMethod
<1>3. \A i \in DOMAIN file.functions :
         /\ file.functions[i].receiver = func.receiver
         /\ file.functions[i].name = m
         => i = k
  BY DEF Compiles, IsMethod
<1>4. CompareMethodSignature(file, func) /\ ~ Overlooked(file) =>
         /\ ~ Loosely(func.args, Methods[m].args)
         /\ ~ Loosely(func.results, Methods[m].results)
  BY DEF Overlooked, Matching
<1> HIDE DEF Mean
<1>5. CompareMethodSignature(file, func) /\ ~ Misleading(file)
      /\ ~ Overlooked(file) => HasMethod(file, func.receiver, m)
  BY <1>1, <1>2, <1>4 DEF CompareMethodSignature
<1>6. Plainly(file) /\ HasMethod(file, func.receiver, m) =>
         CompareMethodSignature(file, func)
  BY <1>1, <1>2, <1>3 DEF CompareMethodSignature
<1> QED
  BY <1>5, <1>6

(***************************************************************************)
(* As many methods of one receiver as the interface has are all of them,   *)
(* since no two of a receiver have the same name                           *)
(* (interfaceChecker.go:162-195).                                          *)
(***************************************************************************)
LEMMA AllOrFewer ==
    ASSUME NEW file \in Files, Compiles(file), NEW r, r # ""
    PROVE  Cardinality(MatchingOf(file, r)) = Cardinality(DOMAIN Methods) <=>
              \A m \in DOMAIN Methods : \E i \in MatchingOf(file, r) :
                 file.functions[i].name = m
<1> DEFINE M == MatchingOf(file, r)
           f == [i \in M |-> file.functions[i].name]
<1>1. f \in [M -> DOMAIN Methods]
  BY DEF MatchingOf, Matching, IsMethod
<1>2. \A i, j \in M : f[i] = f[j] => i = j
  BY DEF MatchingOf, Matching, Compiles
<1>3. f \in Injection(M, DOMAIN Methods)
  BY <1>1, <1>2 DEF Injection, IsInjective
<1>4. f \in Surjection(M, DOMAIN Methods) <=>
         \A m \in DOMAIN Methods : \E i \in M : file.functions[i].name = m
  BY <1>1 DEF Surjection
<1> HIDE DEF f
<1> QED
  BY <1>3, <1>4, MethodsAssumption, FS_Injection

LEMMA FirstMatches ==
    ASSUME NEW file \in Files, Matching(file) # {}
    PROVE  \E i \in Matching(file) :
              /\ Service(file) = file.functions[i].receiver
              /\ Service(file) # ""
<1>1. Matching(file) \in SUBSET Nat
  BY FileIs DEF Matching
<1>2. First(Matching(file)) \in Matching(file)
  BY <1>1, FirstIs
<1> QED
  BY <1>2 DEF Service, Matching, IsMethod

LEMMA AcceptedImplements ==
    ASSUME NEW file \in Files, Compiles(file), ImplementsInterface(file)
    PROVE  Implements(file) \/ Misleading(file) \/ Overlooked(file)
<1> SUFFICES ASSUME ~ Misleading(file), ~ Overlooked(file)
             PROVE  Implements(file)
  OBVIOUS
<1> DEFINE r == Service(file)
<1>1. /\ Matching(file) # {}
      /\ Cardinality(MatchingOf(file, r)) = Cardinality(DOMAIN Methods)
  BY DEF ImplementsInterface
<1>2. r # "" /\ r \in Receivers(file)
  BY <1>1, FirstMatches DEF Receivers, Matching
<1>3. ASSUME NEW m \in DOMAIN Methods PROVE HasMethod(file, r, m)
  <2>1. PICK i \in MatchingOf(file, r) : file.functions[i].name = m
    <3> HIDE DEF r
    <3> QED
      BY <1>1, <1>2, AllOrFewer
  <2>2. /\ i \in DOMAIN file.functions /\ IsMethod(file.functions[i])
        /\ CompareMethodSignature(file, file.functions[i])
        /\ file.functions[i].receiver = r
    BY DEF MatchingOf, Matching
  <2> QED
    BY <2>1, <2>2, SignatureMeans
<1> QED
  BY <1>2, <1>3 DEF Implements

LEMMA PlainAccepted ==
    ASSUME NEW file \in Files, Compiles(file), Plainly(file),
           Implements(file)
    PROVE  ImplementsInterface(file)
<1>1. PICK r \in Receivers(file) :
        \A m \in DOMAIN Methods : HasMethod(file, r, m)
  BY DEF Implements
<1>2. r # ""
  BY <1>1 DEF Receivers
<1>3. ASSUME NEW m \in DOMAIN Methods
      PROVE  \E i \in MatchingOf(file, r) : file.functions[i].name = m
  <2>1. HasMethod(file, r, m)
    BY <1>1
  <2>2. PICK i \in DOMAIN file.functions :
          file.functions[i].receiver = r /\ file.functions[i].name = m
    BY <2>1 DEF HasMethod
  <2>3. IsMethod(file.functions[i])
    BY <1>2, <2>2 DEF IsMethod
  <2>4. CompareMethodSignature(file, file.functions[i])
    BY <2>1, <2>2, <2>3, SignatureMeans
  <2> QED
    BY <2>2, <2>3, <2>4 DEF MatchingOf, Matching
<1>4. MatchingOf(file, r) # {}
  BY <1>3, MethodsAssumption
<1>5. \A i \in Matching(file) : file.functions[i].receiver = r
  BY <1>4 DEF Plainly, MatchingOf, Matching
<1>6. Service(file) = r /\ Matching(file) # {}
  BY <1>4, <1>5, FirstMatches DEF MatchingOf
<1>7. Cardinality(MatchingOf(file, r)) = Cardinality(DOMAIN Methods)
  BY <1>2, <1>3, AllOrFewer
<1> QED
  BY <1>6, <1>7 DEF ImplementsInterface

(***************************************************************************)
(* The verdict is that of the first file that decides.                     *)
(***************************************************************************)
LEMMA VerdictIs ==
    ASSUME NEW found \in Seq(Files)
    PROVE  /\ Verdict(found) = "compatible" =>
                 \E i \in DOMAIN found :
                    found[i].hasStruct /\ ImplementsInterface(found[i])
           /\ Verdict(found) = "incompatible" =>
                 \A i \in DOMAIN found :
                    found[i].hasStruct => ~ ImplementsInterface(found[i])
<1>1. CASE Decisive(found) = {}
  BY <1>1 DEF Verdict, Decisive
<1>2. CASE Decisive(found) # {}
  <2>1. Decisive(found) \in SUBSET Nat
    BY DEF Decisive
  <2>2. Decider(found) \in Decisive(found)
    BY <1>2, <2>1, FirstIs DEF Decider
  <2>3. Verdict(found) =
          IF Panics(found[Decider(found)]) \/ SearchPanics(found)
          THEN "panic" ELSE "compatible"
    BY <1>2 DEF Verdict
  <2> QED
    BY <2>2, <2>3 DEF Decisive
<1> QED
  BY <1>1, <1>2

LEMMA CheckIsRight ==
    ASSUME NEW found \in Seq(Files),
           \A i \in DOMAIN found : Compiles(found[i])
    PROVE  /\ Verdict(found) = "compatible" =>
                 \E i \in DOMAIN found :
                    /\ found[i].hasStruct
                    /\ \/ Implements(found[i])
                       \/ Misleading(found[i]) \/ Overlooked(found[i])
           /\ Verdict(found) = "incompatible" =>
                 ~ \E i \in DOMAIN found : /\ found[i].hasStruct
                                           /\ Implements(found[i])
                                           /\ Plainly(found[i])
<1>1. \A i \in DOMAIN found : found[i] \in Files
  OBVIOUS
<1> QED
  BY <1>1, VerdictIs, AcceptedImplements, PlainAccepted

\* a package of one of the versions is checked
VersionInv ==
    step \in {"get", "check"} => command.version \in 1 .. Latest

LEMMA VersionStep ==
    ASSUME VersionInv, [ModuleListNext]_vars
    PROVE  VersionInv'
<1>1. CASE UNCHANGED vars
  BY <1>1 DEF vars, commandVars, VersionInv
<1>2. ASSUME NEW url \in Urls, NEW version \in 0 .. Latest,
             BeginInstall(url, version) \/ BeginUpdate(url, version)
      PROVE  VersionInv'
  <2>1. command'.version \in 1 .. Latest
    BY <1>2, ModuleListAssumption DEF BeginInstall, BeginUpdate, Begin
  <2> QED
    BY <2>1 DEF VersionInv
<1>3. ASSUME NEW url \in Urls, BeginRemove(url) PROVE VersionInv'
  BY <1>3 DEF BeginRemove, Return, VersionInv
<1>4. CASE GoGet \/ CheckPackage
  BY <1>4 DEF GoGet, CheckPackage, FailedGet, Return, commandVars, VersionInv
<1>5. CASE \/ Edit \/ WriteBackup \/ WriteList \/ Tidy \/ Build \/ RestoreList
           \/ RemoveBackup \/ TidyRestored \/ RestoreVersion \/ Killed
  BY <1>5 DEF Edit, WriteBackup, WriteList, Tidy, Build, RestoreList,
     RemoveBackup, TidyRestored, RestoreVersion, Killed, Undo, Return,
     VersionInv
<1> QED
  BY <1>1, <1>2, <1>3, <1>4, <1>5 DEF ModuleListNext

(***************************************************************************)
(* Whatever is in the files of a package that compiles: it passes the      *)
(* check only if one of them implements the interface, has two imports of  *)
(* one name or has a method that is of the interface only loosely - by     *)
(* the names of its types but not their shapes, or with two values in one  *)
(* field - and is refused only if none implements it plainly               *)
(* (interfaceChecker.go:104-195, 227-360, common/utils.go:16-45,           *)
(* installModules/service.go:149-198).                                     *)
(***************************************************************************)
THEOREM ChecksDecide == ModuleListSpec => []CheckDecides
<1>1. ModuleListInit => CheckDecides /\ VersionInv
  BY DEF ModuleListInit, CheckDecides, VersionInv
<1>2. ASSUME ModuleListInv, VersionInv, CheckDecides, [ModuleListNext]_vars
      PROVE  CheckDecides'
  <2>1. CASE UNCHANGED vars
    BY <1>2, <2>1 DEF vars, CheckDecides
  <2>2. CASE package' = <<>>
    BY <2>2 DEF CheckDecides
  <2>3. CASE CheckPackage
    <3>1. CASE package' = <<>>
      BY <3>1 DEF CheckDecides
    <3>2. CASE package' # <<>>
      <4>1. PICK found \in Contents[<<command.url, command.version>>] :
              /\ package' = found
              /\ CASE Verdict(found) = "compatible" ->
                        /\ step' = IF command.name = "install"
                                   THEN "edit" ELSE "tidy"
                        /\ UNCHANGED result
                   [] Verdict(found) = "incompatible" -> FailedGet
                   [] Verdict(found) = "panic" -> Return("panic")
        BY <2>3, <3>2 DEF CheckPackage
      <4>2. found \in Seq(Files)
        <5>1. <<command.url, command.version>> \in Urls \X (1 .. Latest)
          BY <1>2, <2>3
             DEF ModuleListInv, CommandTypes, VersionInv, CheckPackage
        <5> QED
          BY <4>1, <5>1, ModuleListAssumption
      <4>3. Verdict(found) \in {"compatible", "incompatible", "panic"}
        BY DEF Verdict
      <4>4. CASE Verdict(found) = "compatible"
        <5>1. step' \in {"edit", "tidy"} /\ result' = result
          BY <4>1, <4>4
        <5>2. result = "none"
          BY <1>2, <2>3 DEF ModuleListInv, Stages, CheckPackage
        <5> QED
          BY <4>1, <4>2, <4>4, <5>1, <5>2, CheckIsRight DEF CheckDecides
      <4>5. CASE Verdict(found) = "incompatible"
        <5>1. step' \notin {"edit", "tidy"}
          BY <4>1, <4>5 DEF FailedGet, Return
        <5> QED
          BY <4>1, <4>2, <4>5, <5>1, CheckIsRight DEF CheckDecides
      <4>6. CASE Verdict(found) = "panic"
        BY <4>1, <4>6 DEF Return, CheckDecides
      <4> QED
        BY <4>3, <4>4, <4>5, <4>6
    <3> QED
      BY <3>1, <3>2
  <2> QED
    BY <1>2, <2>1, <2>2, <2>3 DEF ModuleListNext
<1> QED
  BY <1>1, <1>2, VersionStep, ModuleListInvariant, PTL DEF ModuleListSpec
=============================================================================
