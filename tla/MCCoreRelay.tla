---------------------------- MODULE MCCoreRelay -----------------------------
(***************************************************************************)
(* Jobs for the message bus: what the modules of MEV Plus say to each      *)
(* other while the relay module starts and a header is requested.          *)
(***************************************************************************)
EXTENDS CoreRelay

CONSTANTS api, agg, rel, ext

MCModules == {api, agg, rel, ext}

Use(from, to, known, notify, all, excl, parent) ==
    [from |-> from, to |-> to, known |-> known, notify |-> notify,
     all |-> all, excl |-> excl, parent |-> parent]

(***************************************************************************)
(* The builder API asks the aggregator, which notifies "core" with a       *)
(* method that the core does not have, calls a method that ext does not    *)
(* have, and calls the relay module; ext only listens.  At the same time   *)
(* the relay module asks the builder API for its address.                  *)
(***************************************************************************)
ServiceJobs ==
    [header  |-> Use(api, agg, TRUE, FALSE, FALSE, {}, "header"),
     notice  |-> Use(agg, Core, FALSE, TRUE, TRUE, {rel, api, agg}, "header"),
     missing |-> Use(agg, ext, FALSE, FALSE, FALSE, {}, "header"),
     bid     |-> Use(agg, rel, TRUE, FALSE, TRUE, {rel, api}, "header"),
     address |-> Use(rel, api, TRUE, FALSE, FALSE, {}, "address")]

\* a Call of core_ping, which every client knows, and one that is fine
PingJobs ==
    [ping    |-> Use(rel, Core, TRUE, FALSE, FALSE, {}, "ping"),
     address |-> Use(rel, api, TRUE, FALSE, FALSE, {}, "address")]
=============================================================================
