-------------------------------- MODULE Rpc ---------------------------------
(***************************************************************************)
(* What the message bus promises to a module that makes a call through its *)
(* client: the call is served at most once, by the module it names, and is *)
(* answered at most once, after it was served.                             *)
(***************************************************************************)
EXTENDS Naturals

CONSTANT Calls

VARIABLE phase      \* how far each call has got

RpcInit == phase = [c \in Calls |-> "idle"]

Advance(c, from, to) ==
    /\ phase[c] = from
    /\ phase' = [phase EXCEPT ![c] = to]

Request(c) == Advance(c, "idle", "requested")

Serve(c) == Advance(c, "requested", "served")

Answer(c) == Advance(c, "served", "answered")

RpcNext == \E c \in Calls : Request(c) \/ Serve(c) \/ Answer(c)

RpcSpec == RpcInit /\ [][RpcNext]_phase
=============================================================================
