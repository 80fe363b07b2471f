----------------------------- MODULE MCStartup ------------------------------
(***************************************************************************)
(* Every set of relay flags with two networks and one further flag, next   *)
(* to a listen address that is refused, so that the process soon ends; and *)
(* some of each kind with other addresses, for the whole life of the       *)
(* process.  "proxy:1" is a part of "proxy:18".                            *)
(***************************************************************************)
EXTENDS Startup

MCNetworks == {"mainnet", "sepolia"}
MCPlain == {"min-bid"}
MCWithin == {<<"proxy:1", "proxy:18">>}
MCName == [c \in Connects |-> c]

Configuration(flags, l, a) ==
    [flags |-> flags, unreadable |-> {}, listen |-> l, addresses |-> a]

MCConfigurations ==
    {[flags |-> s.flags, unreadable |-> s.unreadable,
      listen |-> "invalid", addresses |-> <<>>] : s \in Settings}
    \cup
    {Configuration({Entries, Check}, "api", <<"proxy:1">>),
     Configuration({Entries, "mainnet"}, "api", <<>>),
     Configuration({}, "api", <<"proxy:1", "proxy:2">>),
     Configuration({}, "api", <<"proxy:1", "proxy:18">>),
     Configuration({}, "api", <<"proxy:1", "proxy:2", "proxy:3">>),
     Configuration({}, "api", <<"proxy:1", "invalid">>),
     Configuration({}, "api", <<"api">>),
     Configuration({}, "api", <<"">>),
     Configuration({Entries}, "", <<"proxy:1">>)}
=============================================================================
