----------------------------- MODULE ModuleList -----------------------------
(***************************************************************************)
(* Installing, updating and removing external modules                      *)
(* (core/additionalFeatures/moduleManagement): a command edits             *)
(* moduleList.go and, through the go tool, go.mod, and then builds the     *)
(* program.  Every write and every call of the go tool may fail, and the   *)
(* process may be killed between any two of them.  Commands are run as     *)
(* ReadMe.md:159 has it, with "go run": the list in the running program is *)
(* the list on disk.                                                       *)
(***************************************************************************)
EXTENDS InterfaceChecker

CONSTANTS
    Urls,           \* the packages that can be asked for
    Rank,           \* the order of their import paths
    Package,        \* url -> the name of its package
    CommandName,    \* url -> the name of its command
    Latest,         \* versions are 1 .. Latest
    Contents,       \* <<url, version>> -> what its files may be
    Broken,         \* the <<url, version>>s that the program fails to build with
    Shipped         \* the module installed at the beginning

ASSUME ModuleListAssumption ==
    /\ Shipped \in Urls /\ Latest \in Nat \ {0}
    /\ Rank \in [Urls -> Nat] /\ IsInjective(Rank)
    /\ \A p \in Urls \X (1 .. Latest) : \A found \in Contents[p] :
          found \in Seq(Files)

VARIABLES
    list,           \* moduleList.go
    backup,         \* moduleList.go.bak: {} or {its content}
    goMod,          \* url -> the version required, 0 if it is not
    step,           \* what the command does next
    command,        \* the last command
    source,         \* moduleList.go as the last command found it
    edited,         \* the list it is going to write
    was,            \* go.mod as the last command found it
    package,        \* the files that checkPackage has just looked at
    result          \* how it ended

files == <<list, backup>>
commandVars == <<command, source, was>>
vars == <<files, goMod, step, commandVars, edited, package, result>>

(***************************************************************************)
(* moduleList.go: imports in the order of the file, calls in ServiceList,  *)
(* both by alias; not whole while or after a write is cut off.  An alias   *)
(* <<package, n>> stands for package_n, and for package when n is 1.       *)
(***************************************************************************)
Torn == [whole |-> FALSE, imports |-> <<>>, services |-> <<>>]

ImportOf(alias, url) == [alias |-> alias, url |-> url]

Imported(file) == {file.imports[i].url : i \in DOMAIN file.imports}

ModuleListInit ==
    /\ list = [whole |-> TRUE,
               imports |-> <<ImportOf(<<Package[Shipped], 1>>, Shipped)>>,
               services |-> <<<<Package[Shipped], 1>>>>]
    /\ backup = {}
    /\ goMod = [u \in Urls |-> IF u = Shipped THEN 1 ELSE 0]
    /\ step = "idle" /\ result = "none" /\ package = <<>>
    /\ command = [name |-> "list", url |-> Shipped, version |-> 0]
    /\ source = list /\ edited = list /\ was = goMod

-----------------------------------------------------------------------------
\* the go tool: what go mod tidy makes of go.mod, and whether go build works
TidyGoMod ==
    [u \in Urls |-> IF u \notin Imported(list) THEN 0
                    ELSE IF goMod[u] = 0 THEN Latest ELSE goMod[u]]

AliasesDistinct(file) ==
    \A i, j \in DOMAIN file.imports :
        file.imports[i].alias = file.imports[j].alias => i = j

Builds ==
    /\ list.whole
    /\ AliasesDistinct(list)
    /\ {list.imports[i].alias : i \in DOMAIN list.imports} = ToSet(list.services)
    /\ \A u \in Imported(list) : goMod[u] # 0 /\ <<u, goMod[u]>> \notin Broken

(***************************************************************************)
(* The name that checkPackage gives a service, and the alias it becomes:   *)
(* each loop goes once over what is there, in its order.  No command is    *)
(* called package_2.                                                       *)
(***************************************************************************)
UrlOf(file, alias) ==
    file.imports[CHOOSE i \in DOMAIN file.imports :
                     file.imports[i].alias = alias].url

ServiceNumber(url) ==
    LET Pass(n, alias) ==
            IF n = 1 /\ CommandName[UrlOf(source, alias)] = Package[url]
            THEN 2 ELSE n
    IN  FoldLeft(Pass, 1, source.services)

NewAlias(url) ==
    LET Pass(n, import) == IF import.alias = <<Package[url], n>> THEN n + 1 ELSE n
    IN  <<Package[url], FoldLeft(Pass, ServiceNumber(url), source.imports)>>

\* formatting the file sorts the imports by path; no two have the same
SortedImports(imports) ==
    CHOOSE sorted \in [DOMAIN imports -> Range(imports)] :
        /\ Range(sorted) = Range(imports)
        /\ \A i, j \in DOMAIN imports :
              i < j => Rank[sorted[i].url] < Rank[sorted[j].url]

Added(url) ==
    [whole |-> TRUE,
     imports |-> SortedImports(Append(source.imports,
                                      ImportOf(NewAlias(url), url))),
     services |-> <<NewAlias(url)>> \o source.services]

\* the one import of the package, and the first call under its alias
Removed(url) ==
    LET n == CHOOSE i \in DOMAIN source.imports : source.imports[i].url = url
    IN  [whole |-> TRUE,
         imports |-> RemoveAt(source.imports, n),
         services |-> RemoveFirst(source.services, source.imports[n].alias)]

-----------------------------------------------------------------------------
Return(how) == step' = "idle" /\ result' = how

(***************************************************************************)
(* "go run" builds the program, and a command begins by listing the        *)
(* modules.  Version 0 stands for none given.                              *)
(***************************************************************************)
Begin(name, url, version) ==
    /\ step = "idle" /\ Builds
    /\ command' = [name |-> name, url |-> url,
                   version |-> IF version = 0 THEN Latest ELSE version]
    /\ source' = list /\ was' = goMod /\ edited' = list
    /\ UNCHANGED <<files, goMod>>

BeginInstall(url, version) ==
    \/ /\ url \notin Imported(list)
       /\ Begin("install", url, version)
       /\ step' = "get" /\ result' = "none"
    \/ /\ url \in Imported(list) /\ version = 0
       /\ Begin("install", url, version)
       /\ Return("error")

\* UpdateModule, also what an install of another version comes to
BeginUpdate(url, version) ==
    /\ Begin("update", url, version)
    /\ IF url \notin Imported(list)
       THEN Return("error")
       ELSE IF version # 0 /\ goMod[url] = version
       THEN Return("unchanged")
       ELSE step' = "get" /\ result' = "none"

BeginRemove(url) ==
    /\ Begin("remove", url, 0)
    /\ IF url \notin Imported(list) THEN Return("error")
       ELSE step' = "edit" /\ result' = "none"

\* obtainPackage; an update that fails goes back to the old version
FailedGet ==
    IF command.name = "update" THEN step' = "reget" /\ UNCHANGED result
    ELSE Return("error")

GoGet ==
    /\ step = "get"
    /\ \/ /\ goMod' = [goMod EXCEPT ![command.url] = command.version]
          /\ step' = "check" /\ UNCHANGED result
       \/ FailedGet /\ UNCHANGED goMod
    /\ UNCHANGED <<files, commandVars, edited>>

\* slip: an update whose check fails returns like an install
CheckPackageNoDefer ==
    /\ step = "check"
    /\ \/ \E found \in Contents[<<command.url, command.version>>] :
          /\ package' = found
          /\ CASE Verdict(found) = "compatible" ->
                    /\ step' = IF command.name = "install" THEN "edit" ELSE "tidy"
                    /\ UNCHANGED result
               [] Verdict(found) = "incompatible" -> Return("error")
               [] Verdict(found) = "panic" -> Return("panic")
       \/ package' = <<>> /\ Return("error")
    /\ UNCHANGED <<files, goMod, commandVars, edited>>

\* a panic does not set errorOccured: an update is not undone then
CheckPackage ==
    /\ step = "check"
    /\ \/ \E found \in Contents[<<command.url, command.version>>] :
          /\ package' = found
          /\ CASE Verdict(found) = "compatible" ->
                    /\ step' = IF command.name = "install" THEN "edit" ELSE "tidy"
                    /\ UNCHANGED result
               [] Verdict(found) = "incompatible" -> FailedGet
               [] Verdict(found) = "panic" -> Return("panic")
       \/ package' = <<>> /\ FailedGet
    /\ UNCHANGED <<files, goMod, commandVars, edited>>

-----------------------------------------------------------------------------
(***************************************************************************)
(* AddModuleToModuleList and RemoveModuleFromModuleList: edit the source   *)
(* in memory, keep the old file, write the new one, tidy, build.           *)
(***************************************************************************)
Edit ==
    /\ step = "edit"
    /\ IF command.name = "install" /\ ~ HasGenerativeFunc(package)
       THEN Return("panic") /\ UNCHANGED edited
       ELSE /\ edited' = IF command.name = "install" THEN Added(command.url)
                         ELSE Removed(command.url)
            /\ step' = "backup" /\ UNCHANGED result
    /\ UNCHANGED <<files, goMod, commandVars>>

WriteBackup ==
    /\ step = "backup"
    /\ \/ backup' = {source} /\ step' = "write" /\ UNCHANGED result
       \/ backup' \in {backup, {Torn}} /\ Return("error")
    /\ UNCHANGED <<list, goMod, commandVars, edited>>

\* an install that cannot write restores the file, a removal does not
WriteList ==
    /\ step = "write"
    /\ \/ list' = edited /\ step' = "tidy" /\ UNCHANGED result
       \/ /\ list' \in {list, Torn}
          /\ IF command.name = "install"
             THEN step' = "restore" /\ UNCHANGED result
             ELSE Return("error")
    /\ UNCHANGED <<backup, goMod, commandVars, edited>>

\* a go mod tidy or go build that fails
Undo == step' = IF command.name = "update" THEN "reget" ELSE "restore"

\* slip: go.mod stays as it is
TidyNot ==
    /\ step = "tidy" /\ step' = "build"
    /\ UNCHANGED <<files, goMod, commandVars, edited, result>>

Tidy ==
    /\ step = "tidy"
    /\ \/ goMod' = TidyGoMod /\ step' = "build"
       \/ Undo /\ UNCHANGED goMod
    /\ UNCHANGED <<files, commandVars, edited, result>>

Build ==
    /\ step = "build"
    /\ \/ Builds /\ Return("ok")
       \/ Undo /\ UNCHANGED result
    /\ UNCHANGED <<files, goMod, commandVars, edited>>

\* slip: the backup is removed in front of the write
RestoreListLate ==
    /\ step = "restore"
    /\ backup' = {}
    /\ \/ list' = source /\ step' = "unbackup" /\ UNCHANGED result
       \/ list' \in {list, Torn} /\ Return("unrestored")
    /\ UNCHANGED <<goMod, commandVars, edited>>

\* restoreModuleList
RestoreList ==
    /\ step = "restore"
    /\ \/ list' = source /\ step' = "unbackup" /\ UNCHANGED result
       \/ list' \in {list, Torn} /\ Return("unrestored")
    /\ UNCHANGED <<backup, goMod, commandVars, edited>>

RemoveBackup ==
    /\ step = "unbackup"
    /\ \/ backup' = {} /\ step' = "retidy" /\ UNCHANGED result
       \/ UNCHANGED backup /\ Return("unrestored")
    /\ UNCHANGED <<list, goMod, commandVars, edited>>

TidyRestored ==
    /\ step = "retidy"
    /\ \/ goMod' = TidyGoMod /\ Return("error")
       \/ UNCHANGED goMod /\ Return("unrestored")
    /\ UNCHANGED <<files, commandVars, edited>>

\* restorePackageVersion
RestoreVersion ==
    /\ step = "reget"
    /\ \/ goMod' = [goMod EXCEPT ![command.url] = was[command.url]]
          /\ Return("error")
       \/ UNCHANGED goMod /\ Return("unrestored")
    /\ UNCHANGED <<files, commandVars, edited>>

\* a write that is cut off leaves part of a file
Killed ==
    /\ step # "idle"
    /\ Return("killed")
    /\ list' \in IF step \in {"write", "restore"} THEN {list, Torn} ELSE {list}
    /\ backup' \in IF step = "backup" THEN {backup, {Torn}} ELSE {backup}
    /\ UNCHANGED <<goMod, commandVars, edited>>

ModuleListNext ==
    \/ CheckPackage
    \/ /\ \/ \E url \in Urls, version \in 0 .. Latest :
                BeginInstall(url, version) \/ BeginUpdate(url, version)
          \/ \E url \in Urls : BeginRemove(url)
          \/ GoGet \/ Edit \/ WriteBackup \/ WriteList \/ Tidy \/ Build
          \/ RestoreList \/ RemoveBackup \/ TidyRestored \/ RestoreVersion
          \/ Killed
       /\ package' = <<>>

ModuleListSpec == ModuleListInit /\ [][ModuleListNext]_vars

-----------------------------------------------------------------------------
(***************************************************************************)
(* Whatever fails and whenever the process is killed, the list that the    *)
(* command found is whole on disk, in moduleList.go or in its backup, or   *)
(* the new list has replaced it (moduleListOperator.go:191-213, 468-482).  *)
(***************************************************************************)
WholeCopyKept == list.whole \/ backup = {source}

(***************************************************************************)
(* A command that succeeds leaves a program that builds, whose imports are *)
(* those before and the new one, or without the removed one, and a go.mod  *)
(* with just what is imported (moduleListOperator.go:209-233, 418-451).    *)
(***************************************************************************)
SuccessIsComplete ==
    result = "ok" =>
        /\ Builds /\ goMod = TidyGoMod
        /\ command.name # "remove" => goMod[command.url] = command.version
        /\ Imported(list) =
              CASE command.name = "install" -> Imported(source) \cup {command.url}
                [] command.name = "remove" -> Imported(source) \ {command.url}
                [] command.name = "update" -> Imported(source)
        /\ Len(list.imports) = Len(list.services)

(***************************************************************************)
(* A command that returns an error, the restore not having failed itself,  *)
(* leaves moduleList.go as it was - a removal that cannot write the file   *)
(* leaves the old one in the backup (moduleListOperator.go:205, 430) - and *)
(* a failed update leaves go.mod with the old version                      *)
(* (updateModules/service.go:57-63, 103-112).                              *)
(***************************************************************************)
FailureUndone ==
    result = "error" =>
        /\ \/ list = source
           \/ command.name = "remove" /\ backup = {source}
        /\ command.name = "update" =>
              goMod[command.url] = was[command.url]

(***************************************************************************)
(* A package that compiles and passes the check has a file with a struct   *)
(* and a type that implements the interface, as Go understands it - unless *)
(* one of its imports has the name of another, or a method that the code   *)
(* takes for one of the interface has a type of another shape, as []error  *)
(* for error, or two values in one field.  And such a package is refused   *)
(* only if there is none, or if it is spread over files, shares a file     *)
(* with a rival, has two values in one field or uses an import whose path  *)
(* does not end in its name (interfaceChecker.go:104-195, 227-360,         *)
(* common/utils.go:16-45, installModules/service.go:149-198).              *)
(***************************************************************************)
CheckDecides ==
    package # <<>> /\ (\A i \in DOMAIN package : Compiles(package[i])) =>
        /\ step \in {"edit", "tidy"} =>
              \E i \in DOMAIN package :
                  /\ package[i].hasStruct
                  /\ \/ Implements(package[i])
                     \/ Misleading(package[i]) \/ Overlooked(package[i])
        /\ step = "reget" \/ result = "error" =>
              ~ \E i \in DOMAIN package : /\ package[i].hasStruct
                                         /\ Implements(package[i])
                                         /\ Plainly(package[i])
=============================================================================
