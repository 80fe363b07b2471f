----------------------------- MODULE MevClient ------------------------------
(***************************************************************************)
(* One client of the message bus (core/common/coreClient.go,               *)
(* coreClientCall.go, coreClientUtils.go and the handler of handler.go):   *)
(* the dispatch loop, the read loop, the goroutines that use Call,         *)
(* CallContext and Notify, the goroutines that serve incoming requests,    *)
(* and Close.  At the other end of the two channels is RelayComms of the   *)
(* core (core/core.go), and behind it the other modules: it takes what the *)
(* client sends, delivers answers in any order, and requests of others.    *)
(*                                                                         *)
(* Channels: Incoming, Outgoing and reqSent are buffered; reqInit, readOp, *)
(* reqTimeout and close are not, a send on them is one step together with  *)
(* its receive.                                                            *)
(***************************************************************************)
EXTENDS Naturals, Sequences, Functions

CONSTANTS
    Callers,        \* goroutines that make one call or notification each
    Notifiers,      \* those of them that use Notify
    Cancellable,    \* those whose context may be cancelled
    Refusable,      \* those whose message newMessage may refuse
    Requests,       \* calls and notifications that arrive from other modules
    Silent,         \* those of the requests that are notifications
    Nested,         \* request -> the call its method makes, NoCaller if none
    NoCaller,
    Closers,        \* goroutines that call Close
    Unanswered,     \* calls the environment need not answer
    Capacity        \* defaultCommsChanBufferSize

\* what a call ends with, other than the response to some caller's message
Endings == {"none", "cancelled", "quit", "sent", "refused"}

ASSUME ClientAssumption ==
    /\ Notifiers \subseteq Callers /\ Cancellable \subseteq Callers
    /\ Refusable \subseteq Callers
    /\ Silent \subseteq Requests /\ NoCaller \notin Callers
    /\ Nested \in [Requests -> Callers \cup {NoCaller}]
    /\ Callers \cap (Requests \cup Endings) = {}
    /\ Capacity \in Nat \ {0}

VARIABLES
    pc,         \* where each caller is: idle, send (the select of send),
                \* write, signal, wait, cancel (the select of wait after
                \* ctx.Done), returned
    outcome,    \* what a caller returned with, or the error write gave it
    resp,       \* the channel op.resp of each caller, of capacity 1
    ctxDone,    \* the callers whose context has been cancelled
    nextId,     \* idCounter
    id,         \* the id of each caller's message; 0 is none
    respWait,   \* handler.respWait: id -> caller
    lastOp,     \* dispatch: the operation being sent
    sending,    \* dispatch: reqInitLock is nil
    reqSent,    \* the channel reqSent, of capacity 1: "ok" or an error
    reader,     \* the read loop: check, recv, send, done
    readMsg,    \* the message the read loop holds
    tasks,      \* the requests being served (callWG counts them)
    dispatcher, \* loop, drain (waiting for callWG), done
    closer,     \* each goroutine in Close: idle, select, wait, returned
    incoming, outgoing,
    wire,       \* core: calls it has taken and not answered
    arrived,    \* core: requests it has delivered
    replied,    \* core: requests whose answer it has taken
    panicked    \* who has sent on a closed channel, which ends the process

callerVars == <<pc, outcome, resp, ctxDone, nextId, id>>
loopVars   == <<respWait, lastOp, sending, reqSent, dispatcher>>
readVars   == <<reader, readMsg>>
chanVars   == <<incoming, outgoing>>
peerVars   == <<wire, arrived, replied>>
vars == <<callerVars, loopVars, readVars, chanVars, peerVars, tasks, closer,
          panicked>>

ClientInit ==
    /\ pc = [c \in Callers |-> "idle"]
    /\ outcome = [c \in Callers |-> "none"]
    /\ resp = [c \in Callers |-> <<>>]
    /\ ctxDone = {}
    /\ nextId = 0
    /\ id = [c \in Callers |-> 0]
    /\ respWait = [i \in {} |-> NoCaller]
    /\ lastOp = NoCaller
    /\ sending = FALSE
    /\ reqSent = <<>>
    /\ reader = "check"
    /\ readMsg = [kind |-> "none"]
    /\ tasks = {}
    /\ dispatcher = "loop"
    /\ closer = [k \in Closers |-> "idle"]
    /\ incoming = <<>> /\ outgoing = <<>>
    /\ wire = {} /\ arrived = {} /\ replied = {}
    /\ panicked = "nobody"

-----------------------------------------------------------------------------
(***************************************************************************)
(* The channel close.  Close sends one value on it; dispatch, when it has  *)
(* received a value, closes it.  But dispatch is not the only receiver:    *)
(* the selects of send, wait and read receive from it too, and any of them *)
(* may be the one that gets the value.                                     *)
(***************************************************************************)
CloseClosed == dispatcher # "loop"

CloseReady == CloseClosed \/ \E k \in Closers : closer[k] = "select"

\* the receive from close: a closed channel, or the value of one closer
ReceiveClose ==
    IF CloseClosed THEN UNCHANGED closer
    ELSE \E k \in Closers :
            /\ closer[k] = "select"
            /\ closer' = [closer EXCEPT ![k] = "wait"]

ChannelsClosed == dispatcher = "done"

Return(c, how) ==
    /\ pc' = [pc EXCEPT ![c] = "returned"]
    /\ outcome' = [outcome EXCEPT ![c] = how]

Unregister(i) == respWait' = Restrict(respWait, DOMAIN respWait \ {i})

-----------------------------------------------------------------------------
(***************************************************************************)
(* Call, CallContext and Notify.                                           *)
(***************************************************************************)

\* a nested call is made by the goroutine that serves its request
MayBegin(c) == \A r \in Requests : Nested[r] = c => r \in tasks

\* slip: the id counter stands still
BeginSameId(c) ==
    /\ pc[c] = "idle" /\ MayBegin(c)
    /\ pc' = [pc EXCEPT ![c] = "send"]
    /\ nextId' = nextId
    /\ id' = [id EXCEPT ![c] = IF c \in Notifiers THEN 0 ELSE nextId + 1]
    /\ UNCHANGED <<outcome, resp, ctxDone, loopVars, readVars, chanVars,
                   peerVars, tasks, closer>>

\* newMessage takes the next id, Notify leaves it out of the message
Begin(c) ==
    /\ pc[c] = "idle" /\ MayBegin(c)
    /\ pc' = [pc EXCEPT ![c] = "send"]
    /\ nextId' = nextId + 1
    /\ id' = [id EXCEPT ![c] = IF c \in Notifiers THEN 0 ELSE nextId + 1]
    /\ UNCHANGED <<outcome, resp, ctxDone, loopVars, readVars, chanVars,
                   peerVars, tasks, closer>>

(***************************************************************************)
(* newMessage fails: an unknown method, or, when the id is taken already,  *)
(* parameters that cannot be marshalled.                                   *)
(***************************************************************************)
NewMessageFails(c) ==
    /\ c \in Refusable /\ pc[c] = "idle" /\ MayBegin(c)
    /\ nextId' \in {nextId, nextId + 1}
    /\ Return(c, "refused")
    /\ UNCHANGED <<resp, ctxDone, id, loopVars, readVars, chanVars, peerVars,
                   tasks, closer>>

\* slip: the send lock is not looked at
RegisterUnlocked(c) ==
    /\ pc[c] = "send"
    /\ dispatcher = "loop"
    /\ sending' = TRUE /\ lastOp' = c
    /\ respWait' = [i \in DOMAIN respWait \cup {id[c]} |->
                        IF i = id[c] THEN c ELSE respWait[i]]
    /\ pc' = [pc EXCEPT ![c] = "write"]
    /\ UNCHANGED <<outcome, resp, ctxDone, nextId, id, reqSent, dispatcher,
                   readVars, chanVars, peerVars, tasks, closer>>

\* send: c.reqInit <- op, taken by dispatch, which registers the operation
Register(c) ==
    /\ pc[c] = "send"
    /\ dispatcher = "loop" /\ ~ sending
    /\ sending' = TRUE /\ lastOp' = c
    /\ respWait' = [i \in DOMAIN respWait \cup {id[c]} |->
                        IF i = id[c] THEN c ELSE respWait[i]]
    /\ pc' = [pc EXCEPT ![c] = "write"]
    /\ UNCHANGED <<outcome, resp, ctxDone, nextId, id, reqSent, dispatcher,
                   readVars, chanVars, peerVars, tasks, closer>>

\* send: <-ctx.Done()
SendCancelled(c) ==
    /\ pc[c] = "send" /\ c \in ctxDone
    /\ Return(c, "cancelled")
    /\ UNCHANGED <<resp, ctxDone, nextId, id, loopVars, readVars, chanVars,
                   peerVars, tasks, closer>>

\* send: <-c.close
SendQuit(c) ==
    /\ pc[c] = "send" /\ CloseReady
    /\ ReceiveClose
    /\ Return(c, "quit")
    /\ UNCHANGED <<resp, ctxDone, nextId, id, loopVars, readVars, chanVars,
                   peerVars, tasks>>

\* write: refused when the context is done, blocked while Outgoing is full
Write(c) ==
    /\ pc[c] = "write"
    /\ IF c \in ctxDone
       THEN /\ outcome' = [outcome EXCEPT ![c] = "cancelled"]
            /\ UNCHANGED outgoing
       ELSE /\ ~ ChannelsClosed /\ Len(outgoing) < Capacity
            /\ outgoing' = Append(outgoing,
                    [kind |-> "request", from |-> c, id |-> id[c]])
            /\ UNCHANGED outcome
    /\ pc' = [pc EXCEPT ![c] = "signal"]
    /\ UNCHANGED <<resp, ctxDone, nextId, id, loopVars, readVars, incoming,
                   peerVars, tasks, closer>>

\* c.reqSent <- err; a failed Call and every Notify return, a Call waits
Signal(c) ==
    /\ pc[c] = "signal" /\ reqSent = <<>>
    /\ reqSent' = <<IF outcome[c] = "none" THEN "ok" ELSE "error">>
    /\ IF outcome[c] = "none" /\ c \notin Notifiers
       THEN pc' = [pc EXCEPT ![c] = "wait"] /\ UNCHANGED outcome
       ELSE Return(c, IF outcome[c] = "none" THEN "sent" ELSE outcome[c])
    /\ UNCHANGED <<resp, ctxDone, nextId, id, respWait, lastOp, sending,
                   dispatcher, readVars, chanVars, peerVars, tasks, closer>>

\* wait: resp := <-op.resp
WaitAnswered(c) ==
    /\ pc[c] = "wait" /\ resp[c] # <<>>
    /\ resp' = [resp EXCEPT ![c] = Tail(@)]
    /\ Return(c, Head(resp[c]))
    /\ UNCHANGED <<ctxDone, nextId, id, loopVars, readVars, chanVars,
                   peerVars, tasks, closer>>

\* wait: <-ctx.Done()
WaitCancelled(c) ==
    /\ pc[c] = "wait" /\ c \in ctxDone
    /\ pc' = [pc EXCEPT ![c] = "cancel"]
    /\ UNCHANGED <<outcome, resp, ctxDone, nextId, id, loopVars, readVars,
                   chanVars, peerVars, tasks, closer>>

\* wait: c.reqTimeout <- op, taken by dispatch, which drops the operation
Deregister(c) ==
    /\ pc[c] = "cancel" /\ dispatcher = "loop"
    /\ Unregister(id[c])
    /\ Return(c, "cancelled")
    /\ UNCHANGED <<resp, ctxDone, nextId, id, lastOp, sending, reqSent,
                   dispatcher, readVars, chanVars, peerVars, tasks, closer>>

\* wait: <-c.close
CancelQuit(c) ==
    /\ pc[c] = "cancel" /\ CloseReady
    /\ ReceiveClose
    /\ Return(c, "cancelled")
    /\ UNCHANGED <<resp, ctxDone, nextId, id, loopVars, readVars, chanVars,
                   peerVars, tasks>>

CancelContext(c) ==
    /\ c \in Cancellable \ ctxDone /\ pc[c] # "returned"
    /\ ctxDone' = ctxDone \cup {c}
    /\ UNCHANGED <<pc, outcome, resp, nextId, id, loopVars, readVars,
                   chanVars, peerVars, tasks, closer>>

-----------------------------------------------------------------------------
(***************************************************************************)
(* dispatch and read.                                                      *)
(***************************************************************************)

\* slip: the operation is removed whether or not the write failed
SentDropsAlways ==
    /\ dispatcher = "loop" /\ reqSent # <<>>
    /\ reqSent' = <<>> /\ sending' = FALSE
    /\ Unregister(id[lastOp])
    /\ UNCHANGED <<callerVars, lastOp, dispatcher, readVars, chanVars,
                   peerVars, tasks, closer>>

\* slip: a failed write does not let the next request in
SentKeepsLock ==
    /\ dispatcher = "loop" /\ reqSent # <<>>
    /\ reqSent' = <<>> /\ sending' = (Head(reqSent) = "error")
    /\ IF Head(reqSent) = "error" THEN Unregister(id[lastOp])
       ELSE UNCHANGED respWait
    /\ UNCHANGED <<callerVars, lastOp, dispatcher, readVars, chanVars,
                   peerVars, tasks, closer>>

\* err := <-c.reqSent
Sent ==
    /\ dispatcher = "loop" /\ reqSent # <<>>
    /\ reqSent' = <<>> /\ sending' = FALSE
    /\ IF Head(reqSent) = "error" THEN Unregister(id[lastOp])
       ELSE UNCHANGED respWait
    /\ UNCHANGED <<callerVars, lastOp, dispatcher, readVars, chanVars,
                   peerVars, tasks, closer>>

\* read: the select on close, which has a default
ReadCheck ==
    /\ reader = "check"
    /\ IF CloseReady
       THEN ReceiveClose /\ reader' = "done"
       ELSE reader' = "recv" /\ UNCHANGED closer
    /\ UNCHANGED <<callerVars, loopVars, readMsg, chanVars, peerVars, tasks>>

\* msg := <-incomingChan; a closed channel yields the zero message
ReadReceive ==
    /\ reader = "recv"
    /\ \/ /\ incoming # <<>>
          /\ readMsg' = Head(incoming) /\ incoming' = Tail(incoming)
       \/ /\ incoming = <<>> /\ ChannelsClosed
          /\ readMsg' = [kind |-> "none"] /\ UNCHANGED incoming
    /\ reader' = "send"
    /\ UNCHANGED <<callerVars, loopVars, outgoing, peerVars, tasks, closer>>

\* slip: requests are served by the dispatch loop itself
HandleMsgInline ==
    /\ reader = "send" /\ dispatcher = "loop" /\ tasks = {}
    /\ reader' = "check"
    /\ IF readMsg.kind = "response"
       THEN /\ IF readMsg.id \in DOMAIN respWait
               THEN LET c == respWait[readMsg.id] IN
                    /\ resp[c] = <<>>     \* or op.resp would block dispatch
                    /\ resp' = [resp EXCEPT ![c] = <<readMsg.to>>]
                    /\ Unregister(readMsg.id)
               ELSE UNCHANGED <<resp, respWait>>
            /\ UNCHANGED tasks
       ELSE /\ tasks' = tasks \cup {readMsg.request}
            /\ UNCHANGED <<resp, respWait>>
    /\ readMsg' = [kind |-> "none"]
    /\ UNCHANGED <<pc, outcome, ctxDone, nextId, id, lastOp, sending,
                   reqSent, dispatcher, chanVars, peerVars, closer>>

(***************************************************************************)
(* op := <-c.readOp, handleMsg: a response goes to the pending call with   *)
(* its id and that call is no longer pending; a response nobody waits for  *)
(* is dropped; anything else is served by a goroutine of its own.          *)
(***************************************************************************)
HandleMsg ==
    /\ reader = "send" /\ dispatcher = "loop"
    /\ reader' = "check"
    /\ IF readMsg.kind = "response"
       THEN /\ IF readMsg.id \in DOMAIN respWait
               THEN LET c == respWait[readMsg.id] IN
                    /\ resp[c] = <<>>     \* or op.resp would block dispatch
                    /\ resp' = [resp EXCEPT ![c] = <<readMsg.to>>]
                    /\ Unregister(readMsg.id)
               ELSE UNCHANGED <<resp, respWait>>
            /\ UNCHANGED tasks
       ELSE /\ tasks' = tasks \cup {readMsg.request}
            /\ UNCHANGED <<resp, respWait>>
    /\ readMsg' = [kind |-> "none"]
    /\ UNCHANGED <<pc, outcome, ctxDone, nextId, id, lastOp, sending,
                   reqSent, dispatcher, chanVars, peerVars, closer>>

(***************************************************************************)
(* The end of a goroutine that serves a request: the method has returned,  *)
(* its own call included; the answer of a call is written to Outgoing.     *)
(***************************************************************************)
Respond(r) ==
    /\ r \in tasks
    /\ Nested[r] # NoCaller => pc[Nested[r]] = "returned"
    /\ tasks' = tasks \ {r}
    /\ IF r \in Silent THEN UNCHANGED outgoing
       ELSE /\ ~ ChannelsClosed /\ Len(outgoing) < Capacity
            /\ outgoing' = Append(outgoing, [kind |-> "answer", request |-> r])
    /\ UNCHANGED <<callerVars, loopVars, readVars, incoming, peerVars, closer>>

-----------------------------------------------------------------------------
(***************************************************************************)
(* Close, and the deferred function of dispatch.                           *)
(***************************************************************************)
CloseBegin(k) ==
    /\ closer[k] = "idle"
    /\ closer' = [closer EXCEPT ![k] = "select"]
    /\ UNCHANGED <<callerVars, loopVars, readVars, chanVars, peerVars, tasks>>

\* <-c.close in dispatch, which then closes the channel
Quit(k) ==
    /\ closer[k] = "select" /\ dispatcher = "loop"
    /\ closer' = [closer EXCEPT ![k] = "wait"]
    /\ dispatcher' = "drain"
    /\ UNCHANGED <<callerVars, respWait, lastOp, sending, reqSent, readVars,
                   chanVars, peerVars, tasks>>

\* slip: callWG is not waited for
FinishCloseAtOnce ==
    /\ dispatcher = "drain"
    /\ dispatcher' = "done"
    /\ UNCHANGED <<callerVars, respWait, lastOp, sending, reqSent, readVars,
                   chanVars, peerVars, tasks, closer>>

\* callWG.Wait; then Incoming, Outgoing and closed are closed
FinishClose ==
    /\ dispatcher = "drain" /\ tasks = {}
    /\ dispatcher' = "done"
    /\ UNCHANGED <<callerVars, respWait, lastOp, sending, reqSent, readVars,
                   chanVars, peerVars, tasks, closer>>

\* <-c.closed
CloseReturn(k) ==
    /\ closer[k] \in {"select", "wait"} /\ dispatcher = "done"
    /\ closer' = [closer EXCEPT ![k] = "returned"]
    /\ UNCHANGED <<callerVars, loopVars, readVars, chanVars, peerVars, tasks>>

(***************************************************************************)
(* Sends on a closed channel, also by a goroutine that is blocked in one   *)
(* when the channel is closed.  A select with such a send may choose it,   *)
(* so a second Close panics while or after the first one runs; a caller    *)
(* that dispatch has accepted but that has not yet written finds Outgoing  *)
(* closed; and a relay that has a message for the client finds Incoming    *)
(* closed (core.go:308, 325, 328, 367).                                    *)
(***************************************************************************)
SendsOnClosed(who) ==
    \/ /\ who = "closer"
       /\ \E k \in Closers : closer[k] = "select" /\ CloseClosed
    \/ /\ who = "caller" /\ ChannelsClosed
       /\ \E c \in Callers : pc[c] = "write" /\ c \notin ctxDone
    \/ /\ who = "server" /\ ChannelsClosed
       /\ \E r \in tasks \ Silent :
             Nested[r] # NoCaller => pc[Nested[r]] = "returned"
    \/ /\ who = "relay" /\ ChannelsClosed
       /\ wire # {} \/ arrived # Requests

Panic(who) ==
    /\ SendsOnClosed(who)
    /\ panicked' = who
    /\ UNCHANGED <<callerVars, loopVars, readVars, chanVars, peerVars, tasks,
                   closer>>

-----------------------------------------------------------------------------
(***************************************************************************)
(* The core's end (RelayComms): the relay of this client's module takes    *)
(* from Outgoing, and relays deliver to Incoming.                          *)
(***************************************************************************)
PeerTakes ==
    /\ outgoing # <<>>
    /\ outgoing' = Tail(outgoing)
    /\ LET msg == Head(outgoing) IN
       /\ wire' = IF msg.kind = "request" /\ msg.id # 0
                  THEN wire \cup {msg} ELSE wire
       /\ replied' = IF msg.kind = "answer"
                     THEN replied \cup {msg.request} ELSE replied
    /\ UNCHANGED <<callerVars, loopVars, readVars, incoming, arrived, tasks,
                   closer>>

PeerAnswers ==
    /\ ~ ChannelsClosed /\ Len(incoming) < Capacity
    /\ \E msg \in wire :
        /\ wire' = wire \ {msg}
        /\ incoming' = Append(incoming,
                [kind |-> "response", id |-> msg.id, to |-> msg.from])
    /\ UNCHANGED <<callerVars, loopVars, readVars, outgoing, arrived, replied,
                   tasks, closer>>

PeerSends(r) ==
    /\ ~ ChannelsClosed /\ Len(incoming) < Capacity
    /\ r \notin arrived
    /\ arrived' = arrived \cup {r}
    /\ incoming' = Append(incoming, [kind |-> "request", request |-> r])
    /\ UNCHANGED <<callerVars, loopVars, readVars, outgoing, wire, replied,
                   tasks, closer>>

-----------------------------------------------------------------------------
CallerStep(c) ==
    \/ Begin(c) \/ NewMessageFails(c)
    \/ Register(c) \/ SendCancelled(c) \/ SendQuit(c) \/ Write(c) \/ Signal(c)
    \/ WaitAnswered(c) \/ WaitCancelled(c) \/ Deregister(c) \/ CancelQuit(c)
    \/ CancelContext(c)

CloseStep(k) == CloseBegin(k) \/ Quit(k) \/ CloseReturn(k)

LoopStep == Sent \/ ReadCheck \/ ReadReceive \/ HandleMsg \/ FinishClose

PeerStep == PeerTakes \/ PeerAnswers \/ \E r \in Requests : PeerSends(r)

ClientNext ==
    /\ panicked = "nobody"
    /\ \/ /\ UNCHANGED panicked
          /\ \/ \E c \in Callers : CallerStep(c)
             \/ \E k \in Closers : CloseStep(k)
             \/ \E r \in Requests : Respond(r)
             \/ LoopStep
             \/ PeerStep
       \/ \E who \in {"closer", "caller", "server", "relay"} : Panic(who)

ClientSpec == ClientInit /\ [][ClientNext]_vars

(***************************************************************************)
(* Fairness: a goroutine that can go on does; the core's relay keeps       *)
(* taking messages, and other modules answer every call except those of    *)
(* Unanswered.  Nothing makes a context end, a request arrive or a         *)
(* goroutine enter Close.                                                  *)
(***************************************************************************)
Live(A) == panicked = "nobody" /\ UNCHANGED panicked /\ A

ClientFairness ==
    /\ \A c \in Callers :
        /\ WF_vars(Live(/\ c \notin Unanswered
                        /\ Begin(c) \/ NewMessageFails(c)))
        /\ WF_vars(Live(Register(c)))
        /\ WF_vars(Live(SendCancelled(c)))
        /\ WF_vars(Live(SendQuit(c)))
        /\ WF_vars(Live(Write(c)))
        /\ WF_vars(Live(Signal(c)))
        /\ WF_vars(Live(WaitAnswered(c)))
        /\ WF_vars(Live(WaitCancelled(c)))
        /\ WF_vars(Live(Deregister(c)))
        /\ WF_vars(Live(CancelQuit(c)))
        /\ WF_vars(Live(PeerAnswers /\ c \notin Unanswered
                        /\ \E msg \in wire \ wire' : msg.from = c))
    /\ \A k \in Closers :
        WF_vars(Live(Quit(k))) /\ WF_vars(Live(CloseReturn(k)))
    /\ \A r \in Requests : WF_vars(Live(Respond(r)))
    /\ WF_vars(Live(Sent)) /\ WF_vars(Live(ReadCheck))
    /\ WF_vars(Live(ReadReceive)) /\ WF_vars(Live(HandleMsg))
    /\ WF_vars(Live(FinishClose)) /\ WF_vars(Live(PeerTakes))

FairClientSpec == ClientSpec /\ ClientFairness

-----------------------------------------------------------------------------
\* the goroutine of c is between being accepted by dispatch and signalling it
InSend(c) == pc[c] \in {"write", "signal"}

(***************************************************************************)
(* OneSender: dispatch's "send lock" - reqInitLock is nil from the moment  *)
(* an operation is accepted until its write has been signalled - keeps     *)
(* one caller at a time in write, and lastOp is always that caller, so     *)
(* that the operation a failed write removes is the one that failed.       *)
(***************************************************************************)
OneSender ==
    /\ \A c \in Callers : InSend(c) => sending /\ lastOp = c /\ reqSent = <<>>
    /\ reqSent # <<>> => sending

(***************************************************************************)
(* A Call that waits and whose context is alive can still be answered: its *)
(* operation is registered under its id, or the response is in op.resp; no *)
(* error, timeout or response of another call ever removes it.  And once a *)
(* Call has returned - with the response, an error of write, or a          *)
(* cancelled context - its operation is not kept in respWait, except for   *)
(* the moment until dispatch reads the failed write from reqSent, or if    *)
(* Close got in between (coreClient.go:133-151, handler.go:127-130).       *)
(***************************************************************************)
RegistrationExact ==
    /\ \A c \in Callers \ Notifiers :
          pc[c] \in {"write", "signal", "wait"} /\ outcome[c] = "none"
              => \/ resp[c] # <<>>
                 \/ id[c] \in DOMAIN respWait /\ respWait[id[c]] = c
    /\ \A i \in DOMAIN respWait \ {0} :
          pc[respWait[i]] = "returned" =>
              \/ reqSent = <<"error">> /\ lastOp = respWait[i]
              \/ \E k \in Closers : closer[k] # "idle"

(***************************************************************************)
(* OwnAnswer: a Call returns the response to its own message, and nothing  *)
(* once its context has ended and its operation has been removed.          *)
(***************************************************************************)
OwnAnswer ==
    \A c \in Callers : outcome[c] \in Callers => outcome[c] = c

(***************************************************************************)
(* ServersSpared: callWG keeps the channels open for as long as a request  *)
(* is being served, so that a goroutine that answers never writes to a     *)
(* closed channel; and a Close panics only if another Close came first     *)
(* (coreClient.go:94-119).  What the client does not prevent: a caller     *)
(* between reqInit and the write, and a relay of the core with a message   *)
(* for it, do send on the closed channels.                                 *)
(***************************************************************************)
ServersSpared ==
    /\ ChannelsClosed => tasks = {}
    /\ panicked # "server"
    /\ panicked = "closer" =>
          \E k, l \in Closers : k # l /\ closer[k] = "select"
                                     /\ closer[l] \in {"wait", "returned"}

(***************************************************************************)
(* CallsReturn: while nobody closes the client, every Call and Notify that *)
(* is answered returns, and every Call whose context ends returns whether  *)
(* it is answered or not.                                                  *)
(***************************************************************************)
CallsReturn ==
    \A c \in Callers :
        /\ (pc[c] # "idle" /\ c \notin Unanswered) ~> pc[c] = "returned"
        /\ (pc[c] # "idle" /\ c \in ctxDone) ~> pc[c] = "returned"

(***************************************************************************)
(* RequestsAnswered: while nobody closes the client, every call that       *)
(* reaches it is answered, also if its method makes a call itself.         *)
(***************************************************************************)
RequestsAnswered ==
    \A r \in Requests \ Silent : r \in arrived ~> r \in replied
=============================================================================
