--------------------------- MODULE ValidatorProxy ---------------------------
(***************************************************************************)
(* The external validator proxy (modules/external-validator-proxy/         *)
(* apis.go): every request goes to all configured addresses, each in a     *)
(* goroutine that reports over buffered channels.  Status and              *)
(* RegisterValidator use one channel and return at the first success;      *)
(* GetHeader and GetPayload use two, one for the error and one for the     *)
(* answer, and wait for all.                                               *)
(***************************************************************************)
EXTENDS SequencesExt, FiniteSets

CONSTANTS
    Addresses,  \* p.cfg.Addresses
    Replies     \* what an address may answer to GetHeader or GetPayload

(***************************************************************************)
(* "error" is a failed request or a bad status, "empty" an answer without  *)
(* content, "wrong" a payload that fails a check; "foreign" is a payload   *)
(* with blob commitments of another block, as many as those of the block   *)
(* or fewer, and "overlong" one with more.                                 *)
(***************************************************************************)
ASSUME ReplyAssumption ==
    Replies \subseteq
        {"error", "empty", "wrong", "foreign", "overlong", "good"}

ASSUME AddressesFinite == IsFiniteSet(Addresses)

VARIABLES
    poll,       \* a Status or RegisterValidator
    fetch       \* a GetHeader or GetPayload

vars == <<poll, fetch>>

ProxyInit ==
    /\ poll = [state |-> "idle", channel |-> <<>>, received |-> 0,
               sender |-> [a \in Addresses |-> "asking"],
               reply |-> [a \in Addresses |-> "none"]]
    /\ fetch = [state |-> "idle", errors |-> <<>>, answers |-> <<>>,
                taken |-> {}, received |-> 0, result |-> <<>>,
                sender |-> [a \in Addresses |-> "asking"],
                reply |-> [a \in Addresses |-> "none"]]

-----------------------------------------------------------------------------
\* make(chan ..., len(p.cfg.Addresses))
HasRoom(channel) == Len(channel) < Cardinality(Addresses)

PollBegin ==
    /\ poll.state = "idle"
    /\ poll' = [poll EXCEPT !.state = "polling"]
    /\ UNCHANGED fetch

PollAnswered(a) ==
    /\ poll.state # "idle" /\ poll.sender[a] = "asking"
    /\ \E reply \in {"ok", "error"} : poll' = [poll EXCEPT
                                !.reply[a] = reply, !.sender[a] = "first"]
    /\ UNCHANGED fetch

\* slip: the channel has no buffer
PollReportedUnbuffered(a) ==
    /\ poll.sender[a] = "first"
    /\ poll.channel = <<>> /\ poll.state = "polling"
    /\ poll' = [poll EXCEPT !.channel = <<poll.reply[a]>>,
                            !.sender[a] = "done"]
    /\ UNCHANGED fetch

PollReported(a) ==
    /\ poll.sender[a] = "first" /\ HasRoom(poll.channel)
    /\ poll' = [poll EXCEPT !.channel = Append(@, poll.reply[a]),
                            !.sender[a] = "done"]
    /\ UNCHANGED fetch

\* slip: the first answer decides
PollReceiveFirst ==
    /\ poll.state = "polling" /\ poll.channel # <<>>
    /\ poll' = [poll EXCEPT !.channel = Tail(@), !.received = @ + 1,
                            !.state = Head(poll.channel)]
    /\ UNCHANGED fetch

\* the loop ends with the first success or the last error
PollReceive ==
    /\ poll.state = "polling" /\ poll.channel # <<>>
    /\ LET m == Head(poll.channel)
           last == poll.received + 1 = Cardinality(Addresses)
       IN  poll' = [poll EXCEPT
                      !.channel = Tail(@), !.received = @ + 1,
                      !.state = IF m = "ok" \/ last THEN m ELSE @]
    /\ UNCHANGED fetch

-----------------------------------------------------------------------------
\* a block that cannot be converted is refused in front of the loop
FetchBegin ==
    /\ fetch.state = "idle"
    /\ \E state \in {"waiting", "refused"} :
           fetch' = [fetch EXCEPT !.state = state]
    /\ UNCHANGED poll

FetchAnswered(a) ==
    /\ fetch.state \in {"waiting", "panicked"} /\ fetch.sender[a] = "asking"
    /\ \E reply \in Replies : fetch' = [fetch EXCEPT
                                !.reply[a] = reply, !.sender[a] = "first"]
    /\ UNCHANGED poll

(***************************************************************************)
(* The goroutine of a failed request sends the error first and an empty    *)
(* answer second, the others the answer first and nil second.              *)
(***************************************************************************)
Failed(a) == fetch.reply[a] = "error"

SendError(a) ==
    /\ fetch.sender[a] = IF Failed(a) THEN "first" ELSE "second"
    /\ HasRoom(fetch.errors)
    /\ fetch' = [fetch EXCEPT
          !.errors = Append(@, IF Failed(a) THEN "error" ELSE "nil"),
          !.sender[a] = IF Failed(a) THEN "second" ELSE "done"]
    /\ UNCHANGED poll

SendAnswer(a) ==
    /\ fetch.sender[a] = IF Failed(a) THEN "second" ELSE "first"
    /\ HasRoom(fetch.answers)
    /\ fetch' = [fetch EXCEPT
          !.answers = Append(@, [from |-> a,
                 is |-> IF Failed(a) THEN "empty" ELSE fetch.reply[a]]),
          !.sender[a] = IF Failed(a) THEN "done" ELSE "second"]
    /\ UNCHANGED poll

TakeError ==
    /\ fetch.state = "waiting" /\ fetch.taken = {} /\ fetch.errors # <<>>
    /\ fetch' = [fetch EXCEPT !.taken = {Head(fetch.errors)},
                              !.errors = Tail(@)]
    /\ UNCHANGED poll

\* slip: the checks of the payload do not leave the answer out
KeptAlways(answer) == fetch.taken = {"nil"} /\ answer.is # "empty"

(***************************************************************************)
(* The answer is kept when the error received with it is nil; "foreign"    *)
(* payloads too, as the check of the commitments only continues its own    *)
(* loop.                                                                   *)
(***************************************************************************)
Kept(answer) == fetch.taken = {"nil"} /\ answer.is \in {"good", "foreign"}

\* the loop over the commitments of the payload indexes those of the block
Overruns(answer) == fetch.taken = {"nil"} /\ answer.is = "overlong"

TakeAnswer ==
    /\ fetch.taken # {} /\ fetch.answers # <<>>
    /\ ~ Overruns(Head(fetch.answers))
    /\ LET m == Head(fetch.answers)
           last == fetch.received + 1 = Cardinality(Addresses)
       IN  fetch' = [fetch EXCEPT
              !.answers = Tail(@), !.received = @ + 1, !.taken = {},
              !.result = IF Kept(m) THEN Append(@, m) ELSE @,
              !.state = IF last THEN "done" ELSE @]
    /\ UNCHANGED poll

(***************************************************************************)
(* The index out of range panics.  callback.call recovers and returns an   *)
(* error, and the answers that were kept are lost.                         *)
(***************************************************************************)
CheckPanics ==
    /\ fetch.answers # <<>> /\ Overruns(Head(fetch.answers))
    /\ fetch' = [fetch EXCEPT
           !.answers = Tail(@), !.received = @ + 1, !.taken = {},
           !.result = <<>>, !.state = "panicked"]
    /\ UNCHANGED poll

PollStep ==
    \/ PollBegin \/ PollReceive
    \/ \E a \in Addresses : PollAnswered(a) \/ PollReported(a)

FetchStep ==
    \/ FetchBegin \/ TakeError \/ TakeAnswer \/ CheckPanics
    \/ \E a \in Addresses : FetchAnswered(a) \/ SendError(a) \/ SendAnswer(a)

ProxyNext == PollStep \/ FetchStep

ProxySpec == ProxyInit /\ [][ProxyNext]_vars

(***************************************************************************)
(* A request ends, by the time-out of the HTTP client at the latest, and   *)
(* the Go runtime runs every goroutine that can go on.                     *)
(***************************************************************************)
FairProxySpec ==
    /\ ProxySpec
    /\ WF_vars(PollReceive) /\ WF_vars(TakeError)
    /\ WF_vars(TakeAnswer) /\ WF_vars(CheckPanics)
    /\ \A a \in Addresses :
        /\ WF_vars(PollAnswered(a)) /\ WF_vars(PollReported(a))
        /\ WF_vars(FetchAnswered(a)) /\ WF_vars(SendError(a))
        /\ WF_vars(SendAnswer(a))

-----------------------------------------------------------------------------
\* the addresses of a sequence of answers
From(seq) == {seq[i].from : i \in DOMAIN seq}

Good == {a \in Addresses : fetch.reply[a] \in {"good", "foreign"}}

(***************************************************************************)
(* What GetHeader and GetPayload return are usable answers, each of        *)
(* another address, and when the loop runs to its end and no request       *)
(* failed, all of those: pairing errors with the answers of other          *)
(* goroutines never lets a refused answer through or an answer in twice    *)
(* (apis.go:131-143, 195-251).  The loop does not run to its end, and      *)
(* nothing is returned, only when a payload has too many commitments       *)
(* (apis.go:232-233).                                                      *)
(***************************************************************************)
ReturnedAreGood ==
    /\ From(fetch.result) \subseteq Good
    /\ IsInjective(fetch.result)
    /\ fetch.state = "done" /\ (\A a \in Addresses : fetch.reply[a] # "error")
          => From(fetch.result) = Good
    /\ fetch.state = "panicked" =>
          /\ fetch.result = <<>>
          /\ \E a \in Addresses : fetch.reply[a] = "overlong"

(***************************************************************************)
(* Status and RegisterValidator succeed if and only if some address does,  *)
(* although they return before the others have answered (apis.go:51-59).   *)
(***************************************************************************)
PollOutcome ==
    /\ poll.state = "ok" => \E a \in Addresses : poll.reply[a] = "ok"
    /\ poll.state = "error" => \A a \in Addresses : poll.reply[a] = "error"

(***************************************************************************)
(* Every request returns, and no goroutine is left blocked on a channel    *)
(* that nobody reads any more.                                             *)
(***************************************************************************)
RequestsEnd ==
    /\ poll.state # "idle" ~> /\ poll.state \in {"ok", "error"}
                             /\ \A a \in Addresses : poll.sender[a] = "done"
    /\ fetch.state \in {"waiting", "panicked"} ~>
          /\ fetch.state \in {"done", "panicked"}
          /\ \A a \in Addresses : fetch.sender[a] = "done"
=============================================================================
