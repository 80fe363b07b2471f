-------------------------- MODULE InterfaceChecker --------------------------
(***************************************************************************)
(* The search for a service in the Go files of a package (common/          *)
(* interfaceChecker.go, and checkPackage in installModules/service.go and  *)
(* updateModules/service.go).  A file is what the parser finds in it: its  *)
(* imports, whether it declares a struct - in front of its functions - and *)
(* its functions, those without a receiver with the receiver "".           *)
(***************************************************************************)
EXTENDS Naturals, FiniteSets, SequencesExt

CONSTANT
    Methods         \* of the interface: name -> types of arguments, results

(***************************************************************************)
(* A type that the interface expects is a name or a pointer to one, shape  *)
(* "" or "*"; the path of a type of the language itself is "".             *)
(***************************************************************************)
ExpectedTypes ==
    Seq([name : STRING \ {""}, path : STRING, shape : {"", "*"}])

ASSUME MethodsAssumption ==
    /\ DOMAIN Methods # {} /\ IsFiniteSet(DOMAIN Methods)
    /\ \A m \in DOMAIN Methods : /\ Methods[m].args \in ExpectedTypes
                                /\ Methods[m].results \in ExpectedTypes

(***************************************************************************)
(* The arguments or results of a function of the file, as Go counts them.  *)
(* One that is joined shares its type with the one in front of it, as the  *)
(* b of (a, b error): the two are one field of the syntax tree.  A type    *)
(* has a prefix, a name and the shape of what is around them: "*", "[]",   *)
(* "chan", ... or "nameless" when there is no name in it, as in func() or  *)
(* struct{}.  An instance of a generic type has the name "".               *)
(***************************************************************************)
Types ==
    {types \in Seq([name : STRING, prefix : STRING, shape : STRING,
                    joined : BOOLEAN]) :
        \A i \in DOMAIN types : types[i].joined =>
            i > 1 /\ types[i - 1] = [types[i] EXCEPT
                                        !.joined = types[i - 1].joined]}

ImportSpecs ==
    [alias : STRING, path : STRING, last : STRING, package : STRING \ {""}]

FuncDecls ==
    [receiver : STRING, name : STRING, args : Types, results : Types]

Files ==
    [imports : Seq(ImportSpecs), hasStruct : BOOLEAN,
     functions : Seq(FuncDecls)]

First(indices) == CHOOSE i \in indices : \A j \in indices : i <= j

(***************************************************************************)
(* parseImports: an import is known by its alias or else by the last part  *)
(* of its path, if that has several; later ones replace earlier ones.      *)
(***************************************************************************)
KnownAs(import) == IF import.alias # "" THEN import.alias ELSE import.last

ImportPath(file, prefix) ==
    LET named == {i \in DOMAIN file.imports :
                      /\ file.imports[i].alias # "_"
                      /\ KnownAs(file.imports[i]) = prefix}
    IN  IF named = {} THEN ""
        ELSE file.imports[CHOOSE i \in named : \A j \in named : j <= i].path

\* the fields, by their first value, and the number of a field
Fields(types) == {i \in DOMAIN types : ~ types[i].joined}

Place(types, i) == Cardinality({j \in Fields(types) : j <= i})

(***************************************************************************)
(* IdentifyAstIdentity looks through every shape to the first name, and    *)
(* panics where it finds none; only names and paths are compared.          *)
(***************************************************************************)
SameType(file, type, expected) ==
    /\ type.shape # "nameless"
    /\ type.name = expected.name
    /\ expected.path # "" =>
          type.prefix # "" /\ ImportPath(file, type.prefix) = expected.path

SameTypes(file, types, expected) ==
    /\ Cardinality(Fields(types)) = Len(expected)
    /\ \A i \in Fields(types) :
          SameType(file, types[i], expected[Place(types, i)])

\* all in front of a nameless one are as expected
PanicsAt(file, types, expected) ==
    /\ Cardinality(Fields(types)) = Len(expected)
    /\ \E i \in Fields(types) :
          /\ types[i].shape = "nameless"
          /\ \A j \in Fields(types) : j < i =>
                SameType(file, types[j], expected[Place(types, j)])

CompareMethodSignature(file, func) ==
    /\ SameTypes(file, func.args, Methods[func.name].args)
    /\ SameTypes(file, func.results, Methods[func.name].results)

IsMethod(func) == func.receiver # "" /\ func.name \in DOMAIN Methods

\* the results of a function without results are a nil list
Panics(file) ==
    \E i \in DOMAIN file.functions :
        LET func == file.functions[i]
        IN  /\ IsMethod(func)
            /\ \/ PanicsAt(file, func.args, Methods[func.name].args)
               \/ /\ SameTypes(file, func.args, Methods[func.name].args)
                  /\ \/ func.results = <<>>
                     \/ PanicsAt(file, func.results,
                                 Methods[func.name].results)

Matching(file) ==
    {i \in DOMAIN file.functions :
        /\ IsMethod(file.functions[i])
        /\ CompareMethodSignature(file, file.functions[i])}

\* the receiver of the first method that matches
Service(file) == file.functions[First(Matching(file))].receiver

\* slip: a method counts, whoever its receiver is
ImplementsInterfaceTogether(file) ==
    /\ Matching(file) # {}
    /\ Cardinality(Matching(file)) = Cardinality(DOMAIN Methods)

MatchingOf(file, receiver) ==
    {i \in Matching(file) : file.functions[i].receiver = receiver}

\* only the methods of that receiver are counted
ImplementsInterface(file) ==
    /\ Matching(file) # {}
    /\ Cardinality(MatchingOf(file, Service(file)))
          = Cardinality(DOMAIN Methods)

(***************************************************************************)
(* The walk over the files: the first struct of a file makes the checker   *)
(* look at the whole file, until a service is found.                       *)
(***************************************************************************)
Decisive(files) ==
    {i \in DOMAIN files : /\ files[i].hasStruct
                          /\ Panics(files[i]) \/ ImplementsInterface(files[i])}

Decider(files) == First(Decisive(files))

(***************************************************************************)
(* The function that makes the service: the first in that file, or in a    *)
(* later one, whose one result has the name of the service.  The search    *)
(* panics at a result without a name.                                      *)
(***************************************************************************)
OneResult(func) == Cardinality(Fields(func.results)) = 1

Generates(files, func) ==
    /\ OneResult(func) /\ func.results[1].shape # "nameless"
    /\ func.results[1].name = Service(files[Decider(files)])

HasGenerativeFunc(files) ==
    \E i \in Decider(files) .. Len(files) :
    \E j \in DOMAIN files[i].functions : Generates(files, files[i].functions[j])

SearchPanics(files) ==
    \E i \in Decider(files) .. Len(files) :
    \E j \in DOMAIN files[i].functions :
        /\ OneResult(files[i].functions[j])
        /\ files[i].functions[j].results[1].shape = "nameless"
        /\ \A k \in Decider(files) .. i :
           \A n \in DOMAIN files[k].functions :
              k < i \/ n < j => ~ Generates(files, files[k].functions[n])

Verdict(files) ==
    IF Decisive(files) = {} THEN "incompatible"
    ELSE IF Panics(files[Decider(files)]) \/ SearchPanics(files)
    THEN "panic" ELSE "compatible"

-----------------------------------------------------------------------------
(***************************************************************************)
(* Go itself: a prefix is the alias of an import or the name of its        *)
(* package, and what is imported with a dot has none.                      *)
(***************************************************************************)
Dot == "."

GoName(import) == IF import.alias # "" THEN import.alias ELSE import.package

\* the names of a file, as far as the compiler looks at them: imports and
\* methods have different names, prefixes are those of imports, and what is
\* of another package is not called like a type of the language
Compiles(file) ==
    /\ \A i, j \in DOMAIN file.imports :
          GoName(file.imports[i]) = GoName(file.imports[j]) =>
             i = j \/ GoName(file.imports[i]) \in {"_", Dot}
    /\ \A i, j \in DOMAIN file.functions :
          /\ file.functions[i].receiver = file.functions[j].receiver
          /\ file.functions[i].name = file.functions[j].name
          => i = j \/ file.functions[i].receiver = ""
    /\ \A i \in DOMAIN file.functions :
       \A type \in Range(file.functions[i].args)
                       \cup Range(file.functions[i].results) :
          type.prefix # "" =>
             /\ type.prefix \notin {"_", Dot}
             /\ \E k \in DOMAIN file.imports :
                   GoName(file.imports[k]) = type.prefix
             /\ \A m \in DOMAIN Methods :
                \A expected \in Range(Methods[m].args)
                                    \cup Range(Methods[m].results) :
                   expected.path = "" => type.name # expected.name

Means(file, type, expected) ==
    /\ type.name = expected.name /\ type.shape = expected.shape
    /\ IF expected.path = "" THEN type.prefix = ""
       ELSE \E i \in DOMAIN file.imports :
                /\ file.imports[i].path = expected.path
                /\ type.prefix = IF file.imports[i].alias = Dot THEN ""
                                 ELSE GoName(file.imports[i])

HasMethod(file, receiver, m) ==
    \E i \in DOMAIN file.functions :
        LET func == file.functions[i]
            Mean(types, expected) ==
                /\ Len(types) = Len(expected)
                /\ \A j \in DOMAIN types : Means(file, types[j], expected[j])
        IN  /\ func.receiver = receiver /\ func.name = m
            /\ Mean(func.args, Methods[m].args)
            /\ Mean(func.results, Methods[m].results)

Receivers(file) ==
    {file.functions[i].receiver : i \in DOMAIN file.functions} \ {""}

\* some type of the file has all the methods of the interface
Implements(file) ==
    \E r \in Receivers(file) : \A m \in DOMAIN Methods : HasMethod(file, r, m)

\* an import without an alias ends in the name that another has
Misleading(file) ==
    \E i, j \in DOMAIN file.imports :
        /\ i # j /\ file.imports[i].alias = ""
        /\ file.imports[i].last = GoName(file.imports[j])

\* two values in one field, or a type of another shape
Loosely(types, expected) ==
    \/ \E j \in DOMAIN types : types[j].joined
    \/ \E j \in DOMAIN types \cap DOMAIN expected :
           types[j].shape # expected[j].shape

\* a method passes that is of the interface only loosely
Overlooked(file) ==
    \E i \in Matching(file) :
        LET func == file.functions[i]
        IN  \/ Loosely(func.args, Methods[func.name].args)
            \/ Loosely(func.results, Methods[func.name].results)

\* no other type of the file has a method of theirs, every value of a method
\* is a field, imports without an alias end in the names of their packages,
\* and nothing is imported with a dot
Plainly(file) ==
    /\ \A i, j \in DOMAIN file.functions :
          IsMethod(file.functions[i]) /\ IsMethod(file.functions[j])
              => file.functions[i].receiver = file.functions[j].receiver
    /\ \A i \in DOMAIN file.functions : IsMethod(file.functions[i]) =>
          \A type \in Range(file.functions[i].args)
                          \cup Range(file.functions[i].results) : ~ type.joined
    /\ \A i \in DOMAIN file.imports :
          /\ file.imports[i].alias # Dot
          /\ file.imports[i].alias = "" =>
                file.imports[i].last = file.imports[i].package
=============================================================================
