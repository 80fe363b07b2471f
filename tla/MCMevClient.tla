---------------------------- MODULE MCMevClient -----------------------------
(***************************************************************************)
(* Small instances of a client: two calls of its own module, one call made *)
(* while a request is served, one notification, two incoming requests.     *)
(***************************************************************************)
EXTENDS MevClient

CONSTANTS a, b, n, note     \* callers
CONSTANTS ask, tell         \* requests
CONSTANTS k, l              \* goroutines that close the client

\* the method that serves ask makes the call n
MCNested == [r \in Requests |-> IF r = ask THEN n ELSE NoCaller]

NoneNested == [r \in Requests |-> NoCaller]
=============================================================================
