---------------------------- MODULE MCModuleList ----------------------------
(***************************************************************************)
(* The shipped module and two forks of it, with the same package name and  *)
(* paths in front of its path; each has two versions.  What is in the      *)
(* files of version 1 of a fork is left open.                              *)
(***************************************************************************)
EXTENDS ModuleList

CONSTANTS forkA, forkB, k2

RankValue == [u \in Urls |->
    CASE u = forkA -> 1 [] u = forkB -> 2 [] u = k2 -> 3]
PackageValue == [u \in Urls |-> "k2"]

\* the forks have given their command another name
CommandNameValue == [u \in Urls |->
    CASE u = forkA -> "k2a" [] u = forkB -> "k2b" [] u = k2 -> "k2"]

OneBroken == {<<k2, 2>>}

-----------------------------------------------------------------------------
\* two of the six methods of a service
Error == [name |-> "error", path |-> "", shape |-> ""]
MethodsValue ==
    [Start |-> [args |-> <<>>, results |-> <<Error>>],
     CliCommand |-> [args |-> <<>>, results |->
        <<[name |-> "Command", path |-> "github.com/urfave/cli/v2",
           shape |-> "*"]>>]]

Func(receiver, name, shape, prefix, type) ==
    [receiver |-> receiver, name |-> name, args |-> <<>>,
     results |-> <<[name |-> type, prefix |-> prefix, shape |-> shape,
                    joined |-> FALSE]>>]

Start == Func("K2", "Start", "", "", "error")
CliCommand == Func("K2", "CliCommand", "*", "cli", "Command")
NewK2 == Func("", "NewK2", "*", "", "K2")
RivalStart == Func("Rival", "Start", "", "", "error")
RivalCliCommand == Func("Rival", "CliCommand", "*", "cli", "Command")
OwnCommand == Func("K2", "CliCommand", "*", "", "Command")
MuteStart == [Func("Rival", "Start", "", "", "error") EXCEPT !.results = <<>>]

\* Start() []error, Start() func(), Start() (a, b error)
SliceStart == Func("K2", "Start", "[]", "", "error")
FuncStart == Func("K2", "Start", "nameless", "", "")
TwoErrors ==
    [Start EXCEPT !.results = @ \o << [@[1] EXCEPT !.joined = TRUE] >>]

\* CliCommand() cli.Command, and func New() func()
NoPointer == Func("K2", "CliCommand", "", "cli", "Command")
NewFunc == Func("", "New", "nameless", "", "")

Import(alias, path, last) ==
    [alias |-> alias, path |-> path, last |-> last, package |-> "cli"]
Aliased == Import("cli", "github.com/urfave/cli/v2", "v2")
NotAliased == Import("", "github.com/urfave/cli/v2", "v2")
Foreign == Import("", "example.com/cli", "cli")
ForeignV2 == Import("v2", "example.com/cli", "cli")
V2Command == Func("K2", "CliCommand", "*", "v2", "Command")

File(imports, functions) ==
    [imports |-> imports, hasStruct |-> TRUE, functions |-> functions]

\* every order of up to three of these functions
Functions3 ==
    LET F == {Start, CliCommand, RivalStart, RivalCliCommand, OwnCommand,
              MuteStart}
    IN  {s \in UNION {[1..n -> F] : n \in 0..3} : IsInjective(s)}

Shipping == <<File(<<Aliased>>, <<NewK2, Start, CliCommand>>)>>

ContentsValue == [p \in Urls \X (1 .. Latest) |->
    CASE p = <<forkA, 1>> ->
            {<<File(<<Aliased>>, functions)>> : functions \in Functions3}
            \cup {<<File(<<import>>, <<Start, CliCommand>>)>> :
                     import \in {NotAliased, Foreign}}
            \cup {<<File(<<ForeignV2, NotAliased>>, <<Start, V2Command>>)>>}
            \cup {<<File(<<Aliased>>, <<NewK2, first, second>>)>> :
                     first \in {Start, SliceStart, FuncStart, TwoErrors},
                     second \in {CliCommand, NoPointer}}
            \cup {<<File(<<Aliased>>, <<Start, CliCommand>> \o news)>> :
                     news \in {<<NewK2, NewFunc>>, <<NewFunc, NewK2>>}}
      [] p = <<forkB, 1>> ->
            {<<File(<<Aliased>>, <<Start>>), File(<<Aliased>>, <<CliCommand>>)>>,
             <<File(<<Aliased>>, <<RivalStart>>)>> \o Shipping,
             << [Shipping[1] EXCEPT !.hasStruct = FALSE] >>,
             <<File(<<Aliased>>, <<MuteStart>>)>> \o Shipping,
             Shipping \o <<File(<<Aliased>>, <<MuteStart>>)>>}
      [] OTHER -> {Shipping}]
=============================================================================
