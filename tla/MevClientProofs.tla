-------------------------- MODULE MevClientProofs --------------------------
(***************************************************************************)
(* The safety of a client of the message bus for any number of callers,    *)
(* requests and goroutines that close it, and channels of any capacity:    *)
(* every message and every registration belongs to the one caller whose id *)
(* it carries, and that caller has been accepted by dispatch.              *)
(***************************************************************************)
EXTENDS MevClient, TLAPS

Places == {"idle", "send", "write", "signal", "wait", "cancel", "returned"}

Outgoings == [kind : {"request"}, from : Callers, id : Nat]
                \cup [kind : {"answer"}, request : Requests]

Incomings == [kind : {"response"}, id : Nat \ {0}, to : Callers]
                \cup [kind : {"request"}, request : Requests]

CallerTypes ==
    /\ pc \in [Callers -> Places]
    /\ outcome \in [Callers -> Endings \cup Callers]
    /\ resp \in [Callers -> {<<>>} \cup {<<c>> : c \in Callers}]
    /\ nextId \in Nat /\ id \in [Callers -> Nat]

LoopTypes ==
    /\ DOMAIN respWait \subseteq Nat
    /\ \A i \in DOMAIN respWait : respWait[i] \in Callers
    /\ lastOp \in Callers \cup {NoCaller} /\ sending \in BOOLEAN
    /\ reqSent \in {<<>>, <<"ok">>, <<"error">>}

ChannelTypes ==
    /\ incoming \in Seq(Incomings) /\ outgoing \in Seq(Outgoings)
    /\ wire \subseteq [kind : {"request"}, from : Callers, id : Nat \ {0}]
    /\ readMsg \in Incomings \cup {[kind |-> "none"]}

CloseTypes ==
    /\ dispatcher \in {"loop", "drain", "done"}
    /\ closer \in [Closers -> {"idle", "select", "wait", "returned"}]

(***************************************************************************)
(* Ids: only a notification has none, and no two callers have the same.    *)
(***************************************************************************)
IdsOwn ==
    /\ \A c \in Callers : id[c] <= nextId
    /\ \A c \in Notifiers : id[c] = 0
    /\ \A c \in Callers \ Notifiers :
          pc[c] \notin {"idle", "returned"} => id[c] # 0
    /\ \A c, d \in Callers : id[c] = id[d] /\ id[c] # 0 => c = d

\* i is the id of the caller c, and dispatch has accepted its operation
Own(c, i) == id[c] = i /\ pc[c] \notin {"idle", "send"}

(***************************************************************************)
(* What is on the way to the other modules and back carries the id of the  *)
(* caller it belongs to.                                                   *)
(***************************************************************************)
MessagesOwn ==
    /\ \A i \in 1..Len(outgoing) : outgoing[i].kind = "request" =>
          Own(outgoing[i].from, outgoing[i].id)
    /\ \A msg \in wire : Own(msg.from, msg.id)
    /\ \A i \in 1..Len(incoming) : incoming[i].kind = "response" =>
          Own(incoming[i].to, incoming[i].id)
    /\ readMsg.kind = "response" => Own(readMsg.to, readMsg.id)

(***************************************************************************)
(* So does every registration; and a caller whose response is in op.resp   *)
(* is no longer registered.                                                *)
(***************************************************************************)
RegistrationsOwn ==
    /\ \A i \in DOMAIN respWait : Own(respWait[i], i)
    /\ \A c \in Callers : resp[c] # <<>> =>
          /\ resp[c] = <<c>> /\ id[c] # 0 /\ id[c] \notin DOMAIN respWait
          /\ pc[c] \notin {"idle", "send"}

\* the error in reqSent is that of a caller that has returned with it
FailedReturned ==
    reqSent = <<"error">> => lastOp \in Callers /\ pc[lastOp] = "returned"

\* dispatch leaves its loop only when a closer has handed over its value
CloserFirst ==
    dispatcher # "loop" =>
        \E k \in Closers : closer[k] \in {"wait", "returned"}

(***************************************************************************)
(* The inductive invariant.  The four properties are part of it: each is   *)
(* kept because of the ownership of ids, and FailedReturned needs the lock *)
(* of OneSender.                                                           *)
(***************************************************************************)
ClientInv ==
    /\ CallerTypes /\ LoopTypes /\ ChannelTypes /\ CloseTypes
    /\ IdsOwn /\ MessagesOwn /\ RegistrationsOwn
    /\ FailedReturned /\ CloserFirst
    /\ OneSender /\ RegistrationExact /\ OwnAnswer /\ ServersSpared

-----------------------------------------------------------------------------
(***************************************************************************)
(* The first element of a channel and what remains when it is received:    *)
(* dispatch, read and the core's relay all take messages this way.         *)
(***************************************************************************)
LEMMA FirstOf ==
    ASSUME NEW S, NEW s \in Seq(S), s # <<>>
    PROVE  /\ Head(s) \in S /\ Head(s) = s[1] /\ 1 \in 1..Len(s)
           /\ Tail(s) \in Seq(S)
           /\ \A i \in 1..Len(Tail(s)) :
                 i + 1 \in 1..Len(s) /\ Tail(s)[i] = s[i + 1]
  OBVIOUS

(***************************************************************************)
(* What a channel holds after a send: the elements it held and the new     *)
(* one, last.                                                              *)
(***************************************************************************)
LEMMA LastOf ==
    ASSUME NEW S, NEW s \in Seq(S), NEW e \in S
    PROVE  /\ Append(s, e) \in Seq(S)
           /\ \A i \in 1..Len(Append(s, e)) :
                 \/ i \in 1..Len(s) /\ Append(s, e)[i] = s[i]
                 \/ Append(s, e)[i] = e
  OBVIOUS

(***************************************************************************)
(* newMessage: the new id is larger than every id in use, so that no other *)
(* call has it.                                                            *)
(***************************************************************************)
LEMMA BeginStep ==
    ASSUME ClientInv, panicked = "nobody", UNCHANGED panicked,
           NEW c \in Callers,
           Begin(c)
    PROVE  ClientInv'
<1> USE ClientAssumption DEF ClientInv, Begin, callerVars, loopVars,
    readVars, chanVars, peerVars
<1>1. CallerTypes'
  BY DEF CallerTypes, Places
<1>2. IdsOwn'
  BY DEF CallerTypes, IdsOwn
<1>3. MessagesOwn'
  BY DEF MessagesOwn, Own
<1>4. RegistrationsOwn'
  BY DEF RegistrationsOwn, Own
<1>5. FailedReturned'
  BY DEF FailedReturned
<1>6. OneSender'
  BY DEF OneSender, InSend
<1>7. RegistrationExact'
  BY DEF RegistrationExact
<1>8. ServersSpared'
  BY DEF ServersSpared, ChannelsClosed
<1>9. LoopTypes' /\ ChannelTypes' /\ CloseTypes' /\ CloserFirst' /\ OwnAnswer'
  BY DEF ChannelTypes, CloseTypes, CloserFirst, LoopTypes, OwnAnswer
<1> QED
  BY <1>1, <1>2, <1>3, <1>4, <1>5, <1>6, <1>7, <1>8, <1>9

(***************************************************************************)
(* dispatch takes the operation: a call registers under an id that no      *)
(* other caller has, so no registration of another is overwritten, and the *)
(* lock is free, so no other caller is between reqInit and reqSent.        *)
(***************************************************************************)
LEMMA RegisterStep ==
    ASSUME ClientInv, panicked = "nobody", UNCHANGED panicked,
           NEW c \in Callers,
           Register(c)
    PROVE  ClientInv'
<1> USE ClientAssumption DEF ClientInv, Register, callerVars, loopVars,
    readVars, chanVars, peerVars
<1>1. CallerTypes'
  BY DEF CallerTypes, Places
<1>2. LoopTypes'
  <2>1. DOMAIN respWait' = DOMAIN respWait \cup {id[c]} /\ id[c] \in Nat
    BY DEF CallerTypes
  <2>2. \A i \in DOMAIN respWait' :
           respWait'[i] = IF i = id[c] THEN c ELSE respWait[i]
    OBVIOUS
  <2> QED
    BY <2>1, <2>2 DEF LoopTypes
<1>3. IdsOwn'
  BY DEF IdsOwn
<1>4. MessagesOwn'
  BY DEF MessagesOwn, Own
<1>5. RegistrationsOwn'
  BY DEF CallerTypes, RegistrationsOwn, IdsOwn, Own
<1>6. FailedReturned'
  BY DEF FailedReturned, OneSender
<1>7. OneSender'
  BY DEF OneSender, InSend
<1>8. RegistrationExact'
  <2>1. DOMAIN respWait' = DOMAIN respWait \cup {id[c]}
    OBVIOUS
  <2>2. \A i \in DOMAIN respWait' :
           respWait'[i] = IF i = id[c] THEN c ELSE respWait[i]
    OBVIOUS
  <2>3. \A d \in Callers : pc'[d] = IF d = c THEN "write" ELSE pc[d]
    BY DEF CallerTypes
  <2>4. ASSUME NEW d \in Callers \ Notifiers,
               pc'[d] \in {"write", "signal", "wait"}, outcome[d] = "none"
        PROVE  \/ resp[d] # <<>>
               \/ id[d] \in DOMAIN respWait' /\ respWait'[id[d]] = d
    <3>1. CASE d = c
      BY <3>1, <2>1, <2>2
    <3>2. CASE d # c
      <4>1. id[d] # id[c]
        BY <3>2, <2>4, <2>3 DEF IdsOwn
      <4> QED
        BY <3>2, <4>1, <2>1, <2>2, <2>3, <2>4 DEF RegistrationExact
    <3> QED
      BY <3>1, <3>2
  <2>5. ASSUME NEW i \in DOMAIN respWait' \ {0},
               pc'[respWait'[i]] = "returned"
        PROVE  \E k \in Closers : closer[k] # "idle"
    <3>1. i # id[c] /\ i \in DOMAIN respWait /\ respWait'[i] = respWait[i]
      BY <2>1, <2>2, <2>3, <2>5
    <3>2. pc[respWait[i]] = "returned" /\ reqSent = <<>>
      BY <3>1, <2>3, <2>5 DEF OneSender
    <3> QED
      BY <3>1, <3>2 DEF RegistrationExact
  <2> QED
    BY <2>4, <2>5 DEF RegistrationExact
<1>9. ServersSpared'
  BY DEF ServersSpared, ChannelsClosed
<1>10. ChannelTypes' /\ CloseTypes' /\ CloserFirst' /\ OwnAnswer'
  BY DEF ChannelTypes, CloseTypes, CloserFirst, OwnAnswer
<1> QED
  BY <1>1, <1>2, <1>3, <1>4, <1>5, <1>6, <1>7, <1>8, <1>9, <1>10

(***************************************************************************)
(* A call whose message newMessage refuses returns with no id; the counter *)
(* may have moved.                                                         *)
(***************************************************************************)
LEMMA NewMessageFailsStep ==
    ASSUME ClientInv, panicked = "nobody", UNCHANGED panicked,
           NEW c \in Callers,
           NewMessageFails(c)
    PROVE  ClientInv'
<1> USE ClientAssumption DEF ClientInv, NewMessageFails, callerVars, loopVars,
    readVars, chanVars, peerVars, Return
<1>1. CallerTypes'
  BY DEF CallerTypes, Places, Endings
<1>2. IdsOwn'
  BY DEF CallerTypes, IdsOwn
<1>3. MessagesOwn'
  BY DEF MessagesOwn, Own
<1>4. RegistrationsOwn'
  BY DEF RegistrationsOwn, Own
<1>5. FailedReturned'
  BY DEF FailedReturned
<1>6. OneSender'
  BY DEF OneSender, InSend
<1>7. RegistrationExact'
  BY DEF RegistrationExact, RegistrationsOwn, Own
<1>8. OwnAnswer'
  BY DEF Endings, OwnAnswer
<1>9. ServersSpared'
  BY DEF ServersSpared, ChannelsClosed
<1>10. LoopTypes' /\ ChannelTypes' /\ CloseTypes' /\ CloserFirst'
  BY DEF ChannelTypes, CloseTypes, CloserFirst, LoopTypes
<1> QED
  BY <1>1, <1>2, <1>3, <1>4, <1>5, <1>6, <1>7, <1>8, <1>9, <1>10

(***************************************************************************)
(* A call that was not accepted is not registered and returns.             *)
(***************************************************************************)
LEMMA SendCancelledStep ==
    ASSUME ClientInv, panicked = "nobody", UNCHANGED panicked,
           NEW c \in Callers,
           SendCancelled(c)
    PROVE  ClientInv'
<1> USE ClientAssumption DEF ClientInv, SendCancelled, callerVars, loopVars,
    readVars, chanVars, peerVars, Return
<1>1. CallerTypes'
  BY DEF CallerTypes, Places, Endings
<1>2. IdsOwn'
  BY DEF IdsOwn
<1>3. MessagesOwn'
  BY DEF MessagesOwn, Own
<1>4. RegistrationsOwn'
  BY DEF RegistrationsOwn, Own
<1>5. FailedReturned'
  BY DEF FailedReturned
<1>6. OneSender'
  BY DEF OneSender, InSend
<1>7. RegistrationExact'
  BY DEF RegistrationExact, RegistrationsOwn, Own
<1>8. OwnAnswer'
  BY DEF Endings, OwnAnswer
<1>9. ServersSpared'
  BY DEF ServersSpared, ChannelsClosed
<1>10. LoopTypes' /\ ChannelTypes' /\ CloseTypes' /\ CloserFirst'
  BY DEF ChannelTypes, CloseTypes, CloserFirst, LoopTypes
<1> QED
  BY <1>1, <1>2, <1>3, <1>4, <1>5, <1>6, <1>7, <1>8, <1>9, <1>10

(***************************************************************************)
(* The same, on the channel close.                                         *)
(***************************************************************************)
LEMMA SendQuitStep ==
    ASSUME ClientInv, panicked = "nobody", UNCHANGED panicked,
           NEW c \in Callers,
           SendQuit(c)
    PROVE  ClientInv'
<1> USE ClientAssumption DEF ClientInv, SendQuit, callerVars, loopVars,
    readVars, chanVars, peerVars, Return, CloseReady, ReceiveClose,
    CloseClosed, CloserFirst
<1>1. CallerTypes'
  BY DEF CallerTypes, Places, Endings
<1>2. CloseTypes'
  BY DEF CloseTypes
<1>3. IdsOwn'
  BY DEF IdsOwn
<1>4. MessagesOwn'
  BY DEF MessagesOwn, Own
<1>5. RegistrationsOwn'
  BY DEF RegistrationsOwn, Own
<1>6. FailedReturned'
  BY DEF FailedReturned
<1>7. CloserFirst'
  OBVIOUS
<1>8. OneSender'
  BY DEF OneSender, InSend
<1>9. RegistrationExact'
  BY DEF CloseTypes, RegistrationExact
<1>10. OwnAnswer'
  BY DEF Endings, OwnAnswer
<1>11. ServersSpared'
  BY DEF ServersSpared, ChannelsClosed
<1>12. LoopTypes' /\ ChannelTypes'
  BY DEF ChannelTypes, LoopTypes
<1> QED
  BY <1>1, <1>2, <1>3, <1>4, <1>5, <1>6, <1>7, <1>8, <1>9, <1>10, <1>11, <1>12

(***************************************************************************)
(* The message carries the id of its caller, whose operation is            *)
(* registered.                                                             *)
(***************************************************************************)
LEMMA WriteStep ==
    ASSUME ClientInv, panicked = "nobody", UNCHANGED panicked,
           NEW c \in Callers,
           Write(c)
    PROVE  ClientInv'
<1> USE ClientAssumption DEF ClientInv, Write, callerVars, loopVars,
    readVars, chanVars, peerVars, ChannelsClosed
<1>1. CallerTypes'
  BY DEF CallerTypes, Places, Endings
<1>2. ChannelTypes'
  <2>1. [kind |-> "request", from |-> c, id |-> id[c]] \in Outgoings
    BY DEF CallerTypes, Outgoings
  <2>2. \/ outgoing' = outgoing
        \/ outgoing' = Append(outgoing,
                [kind |-> "request", from |-> c, id |-> id[c]])
    OBVIOUS
  <2>3. outgoing' \in Seq(Outgoings)
    <3>1. outgoing \in Seq(Outgoings)
      BY DEF ChannelTypes
    <3> HIDE DEF Write
    <3> QED
      BY <3>1, <2>1, <2>2, LastOf
  <2> QED
    BY <2>3 DEF ChannelTypes
<1>3. IdsOwn'
  BY DEF IdsOwn
<1>4. MessagesOwn'
  <2>1. \A d \in Callers, i \in Nat : Own(d, i) => Own(d, i)'
    BY DEF Own
  <2>2. Own(c, id[c])'
    BY DEF Own
  <2>3. ASSUME NEW i \in 1..Len(outgoing'), outgoing'[i].kind = "request"
        PROVE  Own(outgoing[i].from, outgoing[i].id)'
    <3> DEFINE msg == [kind |-> "request", from |-> c, id |-> id[c]]
    <3>1. msg \in Outgoings /\ outgoing \in Seq(Outgoings)
      BY DEF CallerTypes, ChannelTypes, Outgoings
    <3>2. \/ i \in 1..Len(outgoing) /\ outgoing'[i] = outgoing[i]
          \/ outgoing'[i] = msg
      <4>1. outgoing' = outgoing \/ outgoing' = Append(outgoing, msg)
        OBVIOUS
      <4> QED
        BY <4>1, <3>1, <2>3, LastOf
    <3>3. CASE i \in 1..Len(outgoing) /\ outgoing'[i] = outgoing[i]
      <4>1. Own(outgoing[i].from, outgoing[i].id)
        BY <3>3, <2>3 DEF MessagesOwn
      <4>2. outgoing[i].from \in Callers /\ outgoing[i].id \in Nat
        BY <3>1, <3>3, <2>3 DEF Outgoings
      <4>3. Own(outgoing[i].from, outgoing[i].id)' <=>
               (id'[outgoing'[i].from] = outgoing'[i].id
                /\ pc'[outgoing'[i].from] \notin {"idle", "send"})
        BY DEF Own
      <4> QED
        BY <4>1, <4>2, <4>3, <3>3, <2>1
    <3>4. CASE outgoing'[i] = msg
      <4>1. outgoing'[i].from = c /\ outgoing'[i].id = id[c]
        BY <3>4
      <4> QED
        BY <4>1, <2>2
    <3> QED
      BY <3>2, <3>3, <3>4
  <2> QED
    BY <2>1, <2>3 DEF MessagesOwn, ChannelTypes, Incomings
<1>5. RegistrationsOwn'
  BY DEF RegistrationsOwn, Own
<1>6. FailedReturned'
  BY DEF FailedReturned
<1>7. OneSender'
  BY DEF OneSender, InSend
<1>8. RegistrationExact'
  BY DEF CallerTypes, RegistrationExact
<1>9. OwnAnswer'
  BY DEF CallerTypes, Endings, OwnAnswer
<1>10. ServersSpared'
  BY DEF ServersSpared
<1>11. LoopTypes' /\ CloseTypes' /\ CloserFirst'
  BY DEF CloseTypes, CloserFirst, LoopTypes
<1> QED
  BY <1>1, <1>2, <1>3, <1>4, <1>5, <1>6, <1>7, <1>8, <1>9, <1>10, <1>11

(***************************************************************************)
(* Of the callers in send only the one that holds the lock signals, and    *)
(* reqSent is empty; a failed write leaves its operation registered while  *)
(* the error is in reqSent.                                                *)
(***************************************************************************)
LEMMA SignalStep ==
    ASSUME ClientInv, panicked = "nobody", UNCHANGED panicked,
           NEW c \in Callers,
           Signal(c)
    PROVE  ClientInv'
<1> USE ClientAssumption DEF ClientInv, Signal, callerVars, loopVars,
    readVars, chanVars, peerVars, Return
<1>1. CallerTypes'
  BY DEF CallerTypes, Places, Endings
<1>2. LoopTypes'
  BY DEF LoopTypes
<1>3. IdsOwn'
  BY DEF CallerTypes, IdsOwn
<1>4. MessagesOwn'
  BY DEF CallerTypes, ChannelTypes, Incomings, Outgoings, MessagesOwn, Own
<1>5. RegistrationsOwn'
  BY DEF CallerTypes, LoopTypes, RegistrationsOwn, Own
<1>6. FailedReturned'
  BY DEF CallerTypes, FailedReturned, OneSender, InSend
<1>7. OneSender'
  BY DEF CallerTypes, OneSender, InSend
<1>8. RegistrationExact'
  BY DEF CallerTypes, LoopTypes, RegistrationExact, RegistrationsOwn, IdsOwn,
     Own, OneSender, InSend
<1>9. OwnAnswer'
  <2>1. \A d \in Callers :
           outcome'[d] = outcome[d] \/ outcome'[d] \in Endings
    BY DEF CallerTypes, Endings
  <2> QED
    BY <2>1 DEF OwnAnswer
<1>10. ServersSpared'
  BY DEF ServersSpared, ChannelsClosed
<1>11. ChannelTypes' /\ CloseTypes' /\ CloserFirst'
  BY DEF ChannelTypes, CloseTypes, CloserFirst
<1> QED
  BY <1>1, <1>2, <1>3, <1>4, <1>5, <1>6, <1>7, <1>8, <1>9, <1>10, <1>11

(***************************************************************************)
(* What is in op.resp is the response to the caller's own message, and its *)
(* operation has been removed.                                             *)
(***************************************************************************)
LEMMA WaitAnsweredStep ==
    ASSUME ClientInv, panicked = "nobody", UNCHANGED panicked,
           NEW c \in Callers,
           WaitAnswered(c)
    PROVE  ClientInv'
<1> USE ClientAssumption DEF ClientInv, WaitAnswered, callerVars, loopVars,
    readVars, chanVars, peerVars, Return
<1>1. CallerTypes'
  <2>1. resp[c] = <<c>> /\ Head(resp[c]) = c /\ Tail(resp[c]) = <<>>
    <3>1. resp[c] = <<c>>
      BY DEF RegistrationsOwn
    <3> QED
      BY <3>1
  <2> QED
    BY <2>1 DEF CallerTypes, Places
<1>2. IdsOwn'
  BY DEF IdsOwn
<1>3. MessagesOwn'
  <2>1. \A d \in Callers, i \in Nat : Own(d, i) => Own(d, i)'
    BY DEF Own
  <2> QED
    BY <2>1 DEF MessagesOwn, ChannelTypes, Incomings, Outgoings
<1>4. RegistrationsOwn'
  <2>1. resp[c] = <<c>> /\ Head(resp[c]) = c /\ Tail(resp[c]) = <<>>
    <3>1. resp[c] = <<c>>
      BY DEF RegistrationsOwn
    <3> QED
      BY <3>1
  <2>2. resp'[c] = <<>> /\ \A d \in Callers \ {c} : resp'[d] = resp[d]
    BY <2>1 DEF CallerTypes
  <2>3. \A d \in Callers : \A i : Own(d, i) => Own(d, i)'
    BY DEF Own
  <2>4. \A i \in DOMAIN respWait : Own(respWait[i], i)'
    BY <2>3 DEF LoopTypes, RegistrationsOwn
  <2>5. \A d \in Callers : pc[d] \notin {"idle", "send"} =>
           pc'[d] \notin {"idle", "send"}
    OBVIOUS
  <2> QED
    BY <2>2, <2>4, <2>5 DEF RegistrationsOwn
<1>5. FailedReturned'
  BY DEF FailedReturned
<1>6. OneSender'
  BY DEF OneSender, InSend
<1>7. RegistrationExact'
  BY DEF CallerTypes, RegistrationExact, RegistrationsOwn, Own
<1>8. OwnAnswer'
  BY DEF OwnAnswer, RegistrationsOwn
<1>9. ServersSpared'
  BY DEF ServersSpared, ChannelsClosed
<1>10. LoopTypes' /\ ChannelTypes' /\ CloseTypes' /\ CloserFirst'
  BY DEF ChannelTypes, CloseTypes, CloserFirst, LoopTypes
<1> QED
  BY <1>1, <1>2, <1>3, <1>4, <1>5, <1>6, <1>7, <1>8, <1>9, <1>10

(***************************************************************************)
(* A call whose context ends first says so to dispatch.                    *)
(***************************************************************************)
LEMMA WaitCancelledStep ==
    ASSUME ClientInv, panicked = "nobody", UNCHANGED panicked,
           NEW c \in Callers,
           WaitCancelled(c)
    PROVE  ClientInv'
<1> USE ClientAssumption DEF ClientInv, WaitCancelled, callerVars, loopVars,
    readVars, chanVars, peerVars
<1>1. CallerTypes'
  BY DEF CallerTypes, Places
<1>2. IdsOwn'
  BY DEF IdsOwn
<1>3. MessagesOwn'
  BY DEF MessagesOwn, Own
<1>4. RegistrationsOwn'
  BY DEF RegistrationsOwn, Own
<1>5. FailedReturned'
  BY DEF FailedReturned
<1>6. OneSender'
  BY DEF OneSender, InSend
<1>7. RegistrationExact'
  BY DEF RegistrationExact
<1>8. ServersSpared'
  BY DEF ServersSpared, ChannelsClosed
<1>9. LoopTypes' /\ ChannelTypes' /\ CloseTypes' /\ CloserFirst' /\ OwnAnswer'
  BY DEF ChannelTypes, CloseTypes, CloserFirst, LoopTypes, OwnAnswer
<1> QED
  BY <1>1, <1>2, <1>3, <1>4, <1>5, <1>6, <1>7, <1>8, <1>9

(***************************************************************************)
(* dispatch removes the operation of the call whose context has ended; no  *)
(* other operation has its id.                                             *)
(***************************************************************************)
LEMMA DeregisterStep ==
    ASSUME ClientInv, panicked = "nobody", UNCHANGED panicked,
           NEW c \in Callers,
           Deregister(c)
    PROVE  ClientInv'
<1> USE ClientAssumption DEF ClientInv, Deregister, callerVars, loopVars,
    readVars, chanVars, peerVars, Return, Unregister, Restrict
<1>1. CallerTypes'
  BY DEF CallerTypes, Places, Endings
<1>2. LoopTypes'
  BY DEF LoopTypes
<1>3. IdsOwn'
  BY DEF IdsOwn
<1>4. MessagesOwn'
  BY DEF Outgoings, MessagesOwn, Own
<1>5. RegistrationsOwn'
  BY DEF RegistrationsOwn, Own
<1>6. FailedReturned'
  BY DEF FailedReturned
<1>7. OneSender'
  BY DEF OneSender, InSend
<1>8. RegistrationExact'
  BY DEF RegistrationExact, RegistrationsOwn, IdsOwn, Own
<1>9. OwnAnswer'
  BY DEF Endings, OwnAnswer
<1>10. ServersSpared'
  BY DEF ServersSpared, ChannelsClosed
<1>11. ChannelTypes' /\ CloseTypes' /\ CloserFirst'
  BY DEF ChannelTypes, CloseTypes, CloserFirst
<1> QED
  BY <1>1, <1>2, <1>3, <1>4, <1>5, <1>6, <1>7, <1>8, <1>9, <1>10, <1>11

(***************************************************************************)
(* A cancelled call may find the client closing instead: it returns with   *)
(* its operation registered, while a closer is at work.                    *)
(***************************************************************************)
LEMMA CancelQuitStep ==
    ASSUME ClientInv, panicked = "nobody", UNCHANGED panicked,
           NEW c \in Callers,
           CancelQuit(c)
    PROVE  ClientInv'
<1> USE ClientAssumption DEF ClientInv, CancelQuit, callerVars, loopVars,
    readVars, chanVars, peerVars, Return, CloseReady, ReceiveClose,
    CloseClosed, CloserFirst
<1>1. CallerTypes'
  BY DEF CallerTypes, Places, Endings
<1>2. CloseTypes'
  BY DEF CloseTypes
<1>3. IdsOwn'
  BY DEF IdsOwn
<1>4. MessagesOwn'
  <2>1. \A d \in Callers, i \in Nat : Own(d, i) => Own(d, i)'
    BY DEF Own
  <2> QED
    BY <2>1 DEF MessagesOwn, ChannelTypes, Incomings, Outgoings
<1>5. RegistrationsOwn'
  BY DEF RegistrationsOwn, Own
<1>6. FailedReturned'
  BY DEF FailedReturned
<1>7. CloserFirst'
  OBVIOUS
<1>8. OneSender'
  BY DEF OneSender, InSend
<1>9. RegistrationExact'
  BY DEF CloseTypes, RegistrationExact
<1>10. OwnAnswer'
  BY DEF Endings, OwnAnswer
<1>11. ServersSpared'
  BY DEF ServersSpared, ChannelsClosed
<1>12. LoopTypes' /\ ChannelTypes'
  BY DEF ChannelTypes, LoopTypes
<1> QED
  BY <1>1, <1>2, <1>3, <1>4, <1>5, <1>6, <1>7, <1>8, <1>9, <1>10, <1>11, <1>12

(***************************************************************************)
(* The end of a context changes nothing but the context.                   *)
(***************************************************************************)
LEMMA CancelContextStep ==
    ASSUME ClientInv, panicked = "nobody", UNCHANGED panicked,
           NEW c \in Callers,
           CancelContext(c)
    PROVE  ClientInv'
<1> USE ClientAssumption DEF ClientInv, CancelContext, callerVars, loopVars,
    readVars, chanVars, peerVars
<1>1. CallerTypes' /\ LoopTypes' /\ ChannelTypes' /\ CloseTypes' /\ IdsOwn'
    /\ MessagesOwn' /\ RegistrationsOwn' /\ FailedReturned' /\ CloserFirst'
    /\ OneSender' /\ RegistrationExact' /\ OwnAnswer' /\ ServersSpared'
  BY DEF CallerTypes, ChannelTypes, ChannelsClosed, CloseTypes, CloserFirst,
     FailedReturned, IdsOwn, InSend, LoopTypes, MessagesOwn, OneSender, Own,
     OwnAnswer, RegistrationExact, RegistrationsOwn, ServersSpared
<1> QED
  BY <1>1

(***************************************************************************)
(* dispatch reads reqSent: lastOp is the caller that signalled, so that a  *)
(* failed write removes the operation of that caller.                      *)
(***************************************************************************)
LEMMA SentStep ==
    ASSUME ClientInv, panicked = "nobody", UNCHANGED panicked, Sent
    PROVE  ClientInv'
<1> USE ClientAssumption DEF ClientInv, Sent, callerVars, loopVars, readVars,
    chanVars, peerVars, Unregister, Restrict
<1>1. LoopTypes'
  <2>1. DOMAIN respWait' \subseteq DOMAIN respWait
    OBVIOUS
  <2>2. \A i \in DOMAIN respWait' : respWait'[i] = respWait[i]
    OBVIOUS
  <2> QED
    BY <2>1, <2>2 DEF LoopTypes
<1>2. RegistrationsOwn'
  BY DEF RegistrationsOwn, Own
<1>3. FailedReturned'
  BY DEF FailedReturned
<1>4. OneSender'
  BY DEF OneSender, InSend
<1>5. RegistrationExact'
  BY DEF LoopTypes, RegistrationExact, RegistrationsOwn, IdsOwn, Own, InSend,
     FailedReturned
<1>6. CallerTypes' /\ ChannelTypes' /\ CloseTypes' /\ IdsOwn' /\ MessagesOwn'
    /\ CloserFirst' /\ OwnAnswer' /\ ServersSpared'
  BY DEF CallerTypes, ChannelTypes, ChannelsClosed, CloseTypes, CloserFirst,
     IdsOwn, MessagesOwn, Own, OwnAnswer, ServersSpared
<1> QED
  BY <1>1, <1>2, <1>3, <1>4, <1>5, <1>6

(***************************************************************************)
(* The read loop may be the one that gets the value of a closer.           *)
(***************************************************************************)
LEMMA ReadCheckStep ==
    ASSUME ClientInv, panicked = "nobody", UNCHANGED panicked, ReadCheck
    PROVE  ClientInv'
<1> USE ClientAssumption DEF ClientInv, ReadCheck, callerVars, loopVars,
    readVars, chanVars, peerVars, CloseReady, ReceiveClose, CloseClosed
<1>1. CloseTypes'
  BY DEF CloseTypes
<1>2. CloserFirst'
  BY DEF CloserFirst
<1>3. RegistrationExact'
  BY DEF CloseTypes, RegistrationExact
<1>4. ServersSpared'
  BY DEF ServersSpared, ChannelsClosed
<1>5. CallerTypes' /\ LoopTypes' /\ ChannelTypes' /\ IdsOwn' /\ MessagesOwn'
    /\ RegistrationsOwn' /\ FailedReturned' /\ OneSender' /\ OwnAnswer'
  BY DEF CallerTypes, ChannelTypes, FailedReturned, IdsOwn, InSend,
     LoopTypes, MessagesOwn, OneSender, Own, OwnAnswer, RegistrationsOwn
<1> QED
  BY <1>1, <1>2, <1>3, <1>4, <1>5

(***************************************************************************)
(* The read loop takes a message: a response carries the id of its caller. *)
(***************************************************************************)
LEMMA ReadReceiveStep ==
    ASSUME ClientInv, panicked = "nobody", UNCHANGED panicked, ReadReceive
    PROVE  ClientInv'
<1> USE ClientAssumption DEF ClientInv, ReadReceive, callerVars, loopVars,
    readVars, chanVars, peerVars, ChannelsClosed
<1>1. ChannelTypes'
  <2>1. \/ readMsg' = [kind |-> "none"] /\ incoming' = incoming
        \/ /\ incoming # <<>> /\ incoming \in Seq(Incomings)
           /\ readMsg' = Head(incoming) /\ incoming' = Tail(incoming)
    BY DEF ChannelTypes
  <2>2. incoming' \in Seq(Incomings)
    BY <2>1, FirstOf DEF ChannelTypes
  <2>3. readMsg' \in Incomings \cup {[kind |-> "none"]}
    BY <2>1, FirstOf
  <2> QED
    BY <2>2, <2>3 DEF ChannelTypes
<1>2. MessagesOwn'
  <2>1. \/ readMsg' = [kind |-> "none"] /\ incoming' = incoming
        \/ /\ incoming # <<>> /\ incoming \in Seq(Incomings)
           /\ readMsg' = Head(incoming) /\ incoming' = Tail(incoming)
    BY DEF ChannelTypes
  <2>2. readMsg'.kind = "response" => Own(readMsg'.to, readMsg'.id)
    BY <2>1, FirstOf DEF MessagesOwn
  <2>3. ASSUME NEW i \in 1..Len(incoming'), incoming'[i].kind = "response"
        PROVE  Own(incoming'[i].to, incoming'[i].id)
    <3>1. CASE incoming' = incoming
      BY <3>1, <2>3
    <3>2. CASE incoming # <<>> /\ incoming' = Tail(incoming)
      <4>1. i + 1 \in 1..Len(incoming) /\ incoming'[i] = incoming[i + 1]
        BY <3>2, <2>3, FirstOf
      <4> QED
        BY <4>1, <2>3 DEF MessagesOwn
    <3> QED
      BY <3>1, <3>2, <2>1
  <2>4. \A d, i : Own(d, i)' <=> Own(d, i)
    BY DEF Own
  <2> QED
    BY <2>2, <2>3, <2>4 DEF MessagesOwn
<1>3. CallerTypes' /\ LoopTypes' /\ CloseTypes' /\ IdsOwn' /\
    RegistrationsOwn' /\ FailedReturned' /\ CloserFirst' /\ OneSender' /\
    RegistrationExact' /\ OwnAnswer' /\ ServersSpared'
  BY DEF CallerTypes, CloseTypes, CloserFirst, FailedReturned, IdsOwn,
     InSend, LoopTypes, OneSender, Own, OwnAnswer, RegistrationExact,
     RegistrationsOwn, ServersSpared
<1> QED
  BY <1>1, <1>2, <1>3

(***************************************************************************)
(* handleMsg: the response that is handled belongs to the caller           *)
(* registered under its id, and that caller's operation is removed; a      *)
(* request is only taken while the loop runs, so that the channels are     *)
(* open.                                                                   *)
(***************************************************************************)
LEMMA HandleMsgStep ==
    ASSUME ClientInv, panicked = "nobody", UNCHANGED panicked, HandleMsg
    PROVE  ClientInv'
<1> USE ClientAssumption DEF ClientInv, HandleMsg, callerVars, loopVars,
    readVars, chanVars, peerVars, Unregister, Restrict
<1> DEFINE Answered ==
      /\ readMsg.kind = "response" /\ readMsg.id \in DOMAIN respWait
      /\ resp' = [resp EXCEPT ![readMsg.to] = <<readMsg.to>>]
      /\ respWait' = [i \in DOMAIN respWait \ {readMsg.id} |-> respWait[i]]
<1>a. ASSUME readMsg.kind = "response"
      PROVE  /\ readMsg.to \in Callers /\ readMsg.id \in Nat \ {0}
             /\ id[readMsg.to] = readMsg.id
             /\ pc[readMsg.to] \notin {"idle", "send"}
             /\ readMsg.id \in DOMAIN respWait =>
                   respWait[readMsg.id] = readMsg.to
  <2>1. readMsg.to \in Callers /\ readMsg.id \in Nat \ {0}
    BY <1>a DEF ChannelTypes, Incomings
  <2>2. Own(readMsg.to, readMsg.id)
    BY <1>a DEF MessagesOwn
  <2>3. ASSUME readMsg.id \in DOMAIN respWait
        PROVE  respWait[readMsg.id] = readMsg.to
    <3>1. respWait[readMsg.id] \in Callers
          /\ Own(respWait[readMsg.id], readMsg.id)
      BY <2>3 DEF LoopTypes, RegistrationsOwn
    <3> QED
      BY <3>1, <2>1, <2>2 DEF IdsOwn, Own
  <2> QED
    BY <2>1, <2>2, <2>3 DEF Own
<1>b. UNCHANGED <<resp, respWait>> \/ Answered
  BY <1>a
<1>1. CallerTypes'
  <2>1. resp' \in [Callers -> {<<>>} \cup {<<d>> : d \in Callers}]
    <3>1. CASE UNCHANGED resp
      BY <3>1 DEF CallerTypes
    <3>2. CASE Answered
      <4>1. readMsg.to \in Callers
        BY <3>2, <1>a
      <4> HIDE DEF HandleMsg
      <4> QED
        BY <4>1, <3>2 DEF CallerTypes
    <3> QED
      BY <3>1, <3>2, <1>b
  <2> QED
    BY <2>1 DEF CallerTypes
<1>2. LoopTypes'
  BY DEF LoopTypes
<1>3. ChannelTypes'
  BY DEF ChannelTypes
<1>4. MessagesOwn'
  BY DEF MessagesOwn, Own
<1>5. RegistrationsOwn'
  <2>1. CASE UNCHANGED <<resp, respWait>>
    BY <2>1 DEF RegistrationsOwn, Own
  <2>2. CASE Answered
    <3>1. \A i \in DOMAIN respWait' :
             i \in DOMAIN respWait /\ respWait'[i] = respWait[i]
      BY <2>2
    <3>2. \A i \in DOMAIN respWait' : Own(respWait[i], i)'
      BY <3>1 DEF RegistrationsOwn, Own
    <3>3. ASSUME NEW d \in Callers, resp'[d] # <<>>
          PROVE  /\ resp'[d] = <<d>> /\ id[d] # 0
                 /\ id[d] \notin DOMAIN respWait'
                 /\ pc[d] \notin {"idle", "send"}
      <4>1. CASE d = readMsg.to
        BY <4>1, <2>2, <1>a DEF CallerTypes
      <4>2. CASE d # readMsg.to
        BY <4>2, <3>1, <3>3, <2>2 DEF RegistrationsOwn
      <4> QED
        BY <4>1, <4>2
    <3> QED
      BY <3>2, <3>3 DEF RegistrationsOwn
  <2> QED
    BY <2>1, <2>2, <1>b
<1>6. RegistrationExact'
  <2>1. CASE UNCHANGED <<resp, respWait>>
    BY <2>1 DEF RegistrationExact
  <2>2. CASE Answered
    <3>1. ASSUME NEW d \in Callers \ Notifiers,
                 pc[d] \in {"write", "signal", "wait"}, outcome[d] = "none"
          PROVE  \/ resp'[d] # <<>>
                 \/ id[d] \in DOMAIN respWait' /\ respWait'[id[d]] = d
      <4>1. CASE d = readMsg.to
        BY <4>1, <2>2 DEF CallerTypes
      <4>2. CASE d # readMsg.to
        <5>1. id[d] # id[readMsg.to] /\ resp'[d] = resp[d]
          BY <4>2, <2>2, <1>a DEF IdsOwn
        <5> QED
          BY <5>1, <3>1, <2>2, <1>a DEF RegistrationExact
      <4> QED
        BY <4>1, <4>2
    <3>2. \A i \in DOMAIN respWait' :
             i \in DOMAIN respWait /\ respWait'[i] = respWait[i]
      BY <2>2
    <3> QED
      BY <3>1, <3>2 DEF RegistrationExact
  <2> QED
    BY <2>1, <2>2, <1>b
<1>7. ServersSpared'
  BY DEF ServersSpared, ChannelsClosed
<1>8. CloseTypes' /\ IdsOwn' /\ FailedReturned' /\ CloserFirst' /\ OneSender'
    /\ OwnAnswer'
  BY DEF CloseTypes, CloserFirst, FailedReturned, IdsOwn, InSend, OneSender,
     OwnAnswer
<1> QED
  BY <1>1, <1>2, <1>3, <1>4, <1>5, <1>6, <1>7, <1>8

(***************************************************************************)
(* The channels are closed when no request is being served.                *)
(***************************************************************************)
LEMMA FinishCloseStep ==
    ASSUME ClientInv, panicked = "nobody", UNCHANGED panicked, FinishClose
    PROVE  ClientInv'
<1> USE ClientAssumption DEF ClientInv, FinishClose, callerVars, loopVars,
    readVars, chanVars, peerVars
<1>1. CloseTypes'
  BY DEF CloseTypes
<1>2. CloserFirst'
  BY DEF CloserFirst
<1>3. ServersSpared'
  BY DEF ServersSpared
<1>4. CallerTypes' /\ LoopTypes' /\ ChannelTypes' /\ IdsOwn' /\ MessagesOwn'
    /\ RegistrationsOwn' /\ FailedReturned' /\ OneSender' /\
    RegistrationExact' /\ OwnAnswer'
  BY DEF CallerTypes, ChannelTypes, FailedReturned, IdsOwn, InSend,
     LoopTypes, MessagesOwn, OneSender, Own, OwnAnswer, RegistrationExact,
     RegistrationsOwn
<1> QED
  BY <1>1, <1>2, <1>3, <1>4

(***************************************************************************)
(* The end of a goroutine that serves a request.                           *)
(***************************************************************************)
LEMMA RespondStep ==
    ASSUME ClientInv, panicked = "nobody", UNCHANGED panicked,
           NEW r \in Requests,
           Respond(r)
    PROVE  ClientInv'
<1> USE ClientAssumption DEF ClientInv, Respond, callerVars, loopVars,
    readVars, chanVars, peerVars, ChannelsClosed
<1>1. ChannelTypes'
  BY DEF ChannelTypes, Incomings, Outgoings
<1>2. MessagesOwn'
  <2>1. outgoing' = outgoing
        \/ outgoing' = Append(outgoing, [kind |-> "answer", request |-> r])
    OBVIOUS
  <2>2. [kind |-> "answer", request |-> r] \in Outgoings
        /\ outgoing \in Seq(Outgoings)
    BY DEF ChannelTypes, Outgoings
  <2>3. \A i \in 1..Len(outgoing') :
           \/ i \in 1..Len(outgoing) /\ outgoing'[i] = outgoing[i]
           \/ outgoing'[i].kind = "answer"
    BY <2>1, <2>2, LastOf
  <2> QED
    BY <2>3 DEF MessagesOwn, Own
<1>3. ServersSpared'
  BY DEF ServersSpared
<1>4. CallerTypes' /\ LoopTypes' /\ CloseTypes' /\ IdsOwn' /\
    RegistrationsOwn' /\ FailedReturned' /\ CloserFirst' /\ OneSender' /\
    RegistrationExact' /\ OwnAnswer'
  BY DEF CallerTypes, CloseTypes, CloserFirst, FailedReturned, IdsOwn,
     InSend, LoopTypes, OneSender, Own, OwnAnswer, RegistrationExact,
     RegistrationsOwn
<1> QED
  BY <1>1, <1>2, <1>3, <1>4

(***************************************************************************)
(* A goroutine enters Close.                                               *)
(***************************************************************************)
LEMMA CloseBeginStep ==
    ASSUME ClientInv, panicked = "nobody", UNCHANGED panicked,
           NEW k \in Closers,
           CloseBegin(k)
    PROVE  ClientInv'
<1> USE ClientAssumption DEF ClientInv, CloseBegin, callerVars, loopVars,
    readVars, chanVars, peerVars
<1>1. CloseTypes'
  BY DEF CloseTypes
<1>2. CloserFirst'
  BY DEF CloserFirst
<1>3. RegistrationExact'
  BY DEF RegistrationExact
<1>4. ServersSpared'
  BY DEF ServersSpared, ChannelsClosed
<1>5. CallerTypes' /\ LoopTypes' /\ ChannelTypes' /\ IdsOwn' /\ MessagesOwn'
    /\ RegistrationsOwn' /\ FailedReturned' /\ OneSender' /\ OwnAnswer'
  BY DEF CallerTypes, ChannelTypes, FailedReturned, IdsOwn, InSend,
     LoopTypes, MessagesOwn, OneSender, Own, OwnAnswer, RegistrationsOwn
<1> QED
  BY <1>1, <1>2, <1>3, <1>4, <1>5

(***************************************************************************)
(* dispatch receives the value of a closer, which now waits.               *)
(***************************************************************************)
LEMMA QuitStep ==
    ASSUME ClientInv, panicked = "nobody", UNCHANGED panicked,
           NEW k \in Closers,
           Quit(k)
    PROVE  ClientInv'
<1> USE ClientAssumption DEF ClientInv, Quit, callerVars, loopVars, readVars,
    chanVars, peerVars
<1>1. CloseTypes'
  BY DEF CloseTypes
<1>2. CloserFirst'
  BY DEF CloseTypes, CloserFirst
<1>3. RegistrationExact'
  BY DEF RegistrationExact
<1>4. ServersSpared'
  BY DEF ServersSpared, ChannelsClosed
<1>5. CallerTypes' /\ LoopTypes' /\ ChannelTypes' /\ IdsOwn' /\ MessagesOwn'
    /\ RegistrationsOwn' /\ FailedReturned' /\ OneSender' /\ OwnAnswer'
  BY DEF CallerTypes, ChannelTypes, FailedReturned, IdsOwn, InSend,
     LoopTypes, MessagesOwn, OneSender, Own, OwnAnswer, RegistrationsOwn
<1> QED
  BY <1>1, <1>2, <1>3, <1>4, <1>5

(***************************************************************************)
(* Close returns.                                                          *)
(***************************************************************************)
LEMMA CloseReturnStep ==
    ASSUME ClientInv, panicked = "nobody", UNCHANGED panicked,
           NEW k \in Closers,
           CloseReturn(k)
    PROVE  ClientInv'
<1> USE ClientAssumption DEF ClientInv, CloseReturn, callerVars, loopVars,
    readVars, chanVars, peerVars
<1>1. CloseTypes'
  BY DEF CloseTypes
<1>2. CloserFirst'
  BY DEF CloserFirst
<1>3. RegistrationExact'
  BY DEF RegistrationExact
<1>4. ServersSpared'
  BY DEF ServersSpared, ChannelsClosed
<1>5. CallerTypes' /\ LoopTypes' /\ ChannelTypes' /\ IdsOwn' /\ MessagesOwn'
    /\ RegistrationsOwn' /\ FailedReturned' /\ OneSender' /\ OwnAnswer'
  BY DEF CallerTypes, ChannelTypes, FailedReturned, IdsOwn, InSend,
     LoopTypes, MessagesOwn, OneSender, Own, OwnAnswer, RegistrationsOwn
<1> QED
  BY <1>1, <1>2, <1>3, <1>4, <1>5

(***************************************************************************)
(* The core's relay takes a message, and the id stays that of its caller.  *)
(***************************************************************************)
LEMMA PeerTakesStep ==
    ASSUME ClientInv, panicked = "nobody", UNCHANGED panicked, PeerTakes
    PROVE  ClientInv'
<1> USE ClientAssumption DEF ClientInv, PeerTakes, callerVars, loopVars,
    readVars, chanVars, peerVars
<1>1. ChannelTypes'
  BY DEF ChannelTypes, Outgoings
<1>2. MessagesOwn'
  BY DEF MessagesOwn, Own
<1>3. CallerTypes' /\ LoopTypes' /\ CloseTypes' /\ IdsOwn' /\
    RegistrationsOwn' /\ FailedReturned' /\ CloserFirst' /\ OneSender' /\
    RegistrationExact' /\ OwnAnswer' /\ ServersSpared'
  BY DEF CallerTypes, ChannelsClosed, CloseTypes, CloserFirst,
     FailedReturned, IdsOwn, InSend, LoopTypes, OneSender, Own, OwnAnswer,
     RegistrationExact, RegistrationsOwn, ServersSpared
<1> QED
  BY <1>1, <1>2, <1>3

(***************************************************************************)
(* A response carries the id and the caller of the call it answers.        *)
(***************************************************************************)
LEMMA PeerAnswersStep ==
    ASSUME ClientInv, panicked = "nobody", UNCHANGED panicked, PeerAnswers
    PROVE  ClientInv'
<1> USE ClientAssumption DEF ClientInv, PeerAnswers, callerVars, loopVars,
    readVars, chanVars, peerVars, ChannelsClosed
<1>1. ChannelTypes'
  BY DEF ChannelTypes, Incomings
<1>2. MessagesOwn'
  BY DEF MessagesOwn, Own
<1>3. CallerTypes' /\ LoopTypes' /\ CloseTypes' /\ IdsOwn' /\
    RegistrationsOwn' /\ FailedReturned' /\ CloserFirst' /\ OneSender' /\
    RegistrationExact' /\ OwnAnswer' /\ ServersSpared'
  BY DEF CallerTypes, CloseTypes, CloserFirst, FailedReturned, IdsOwn,
     InSend, LoopTypes, OneSender, Own, OwnAnswer, RegistrationExact,
     RegistrationsOwn, ServersSpared
<1> QED
  BY <1>1, <1>2, <1>3

(***************************************************************************)
(* A request of another module arrives.                                    *)
(***************************************************************************)
LEMMA PeerSendsStep ==
    ASSUME ClientInv, panicked = "nobody", UNCHANGED panicked,
           NEW r \in Requests,
           PeerSends(r)
    PROVE  ClientInv'
<1> USE ClientAssumption DEF ClientInv, PeerSends, callerVars, loopVars,
    readVars, chanVars, peerVars, ChannelsClosed
<1>1. ChannelTypes'
  BY DEF ChannelTypes, Incomings
<1>2. MessagesOwn'
  BY DEF MessagesOwn, Own
<1>3. CallerTypes' /\ LoopTypes' /\ CloseTypes' /\ IdsOwn' /\
    RegistrationsOwn' /\ FailedReturned' /\ CloserFirst' /\ OneSender' /\
    RegistrationExact' /\ OwnAnswer' /\ ServersSpared'
  BY DEF CallerTypes, CloseTypes, CloserFirst, FailedReturned, IdsOwn,
     InSend, LoopTypes, OneSender, Own, OwnAnswer, RegistrationExact,
     RegistrationsOwn, ServersSpared
<1> QED
  BY <1>1, <1>2, <1>3

(***************************************************************************)
(* A goroutine that serves a request finds the channels open, and a Close  *)
(* that sends on the closed channel finds that another closer has been     *)
(* served.  Callers and relays may panic.                                  *)
(***************************************************************************)
LEMMA PanicStep ==
    ASSUME ClientInv, NEW who \in {"closer", "caller", "server", "relay"},
           Panic(who)
    PROVE  ClientInv'
<1> USE DEF ClientInv, Panic, callerVars, loopVars, readVars, chanVars,
            peerVars
<1>1. ServersSpared'
  <2>1. who # "server"
    BY DEF SendsOnClosed, ServersSpared
  <2>2. ASSUME who = "closer"
        PROVE  \E k, l \in Closers : k # l /\ closer[k] = "select"
                                          /\ closer[l] \in {"wait", "returned"}
    <3>1. (\E k \in Closers : closer[k] = "select") /\ CloseClosed
      BY <2>2 DEF SendsOnClosed
    <3>2. \E l \in Closers : closer[l] \in {"wait", "returned"}
      BY <3>1 DEF CloserFirst, CloseClosed
    <3> QED
      BY <3>1, <3>2
  <2> QED
    BY <2>1, <2>2 DEF ServersSpared, ChannelsClosed
<1>2. CallerTypes' /\ LoopTypes' /\ ChannelTypes' /\ CloseTypes' /\ IdsOwn'
  BY DEF CallerTypes, LoopTypes, ChannelTypes, CloseTypes, IdsOwn
<1>3. MessagesOwn' /\ RegistrationsOwn' /\ FailedReturned' /\ CloserFirst'
  BY DEF MessagesOwn, RegistrationsOwn, Own, FailedReturned, CloserFirst
<1>4. OneSender' /\ RegistrationExact' /\ OwnAnswer'
  BY DEF OneSender, InSend, RegistrationExact, OwnAnswer
<1> QED
  BY <1>1, <1>2, <1>3, <1>4

(***************************************************************************)
(* A new client: nobody has called, nothing is registered or on its way.   *)
(***************************************************************************)
LEMMA ClientInitInv ==
    ASSUME ClientInit
    PROVE  ClientInv
<1> USE ClientAssumption DEF ClientInit
<1>1. CallerTypes /\ CloseTypes
  BY DEF CallerTypes, CloseTypes, Places, Endings
<1>2. LoopTypes
  BY DEF LoopTypes
<1>3. ChannelTypes
  BY DEF ChannelTypes
<1>4. IdsOwn /\ RegistrationsOwn
  BY DEF IdsOwn, RegistrationsOwn
<1>5. MessagesOwn
  BY DEF MessagesOwn
<1>6. FailedReturned /\ CloserFirst /\ OneSender /\ ServersSpared
  BY DEF FailedReturned, CloserFirst, OneSender, InSend, ServersSpared
<1>7. RegistrationExact /\ OwnAnswer
  BY DEF RegistrationExact, OwnAnswer, Endings
<1> QED
  BY <1>1, <1>2, <1>3, <1>4, <1>5, <1>6, <1>7 DEF ClientInv

(***************************************************************************)
(* Every message, every registration and every response in op.resp belongs *)
(* to the one caller whose id it carries, however callers, the loops, the  *)
(* goroutines that serve requests and those in Close interleave.           *)
(***************************************************************************)
THEOREM ClientInvariant == ClientSpec => []ClientInv
<1>1. ASSUME ClientInv, [ClientNext]_vars PROVE ClientInv'
  <2>1. CASE UNCHANGED vars
    <3> USE <2>1, <1>1 DEF vars, callerVars, loopVars, readVars, chanVars,
                           peerVars, ClientInv
    <3>1. CallerTypes' /\ LoopTypes' /\ ChannelTypes' /\ CloseTypes'
          /\ IdsOwn'
      BY DEF CallerTypes, LoopTypes, ChannelTypes, CloseTypes, IdsOwn
    <3>2. MessagesOwn' /\ RegistrationsOwn' /\ FailedReturned'
          /\ CloserFirst'
      BY DEF MessagesOwn, RegistrationsOwn, Own, FailedReturned, CloserFirst
    <3>3. OneSender' /\ RegistrationExact' /\ OwnAnswer' /\ ServersSpared'
      BY DEF OneSender, InSend, RegistrationExact, OwnAnswer, ServersSpared,
         ChannelsClosed
    <3> QED
      BY <3>1, <3>2, <3>3
  <2>2. ASSUME NEW who \in {"closer", "caller", "server", "relay"},
               Panic(who)
        PROVE  ClientInv'
    BY <1>1, <2>2, PanicStep
  <2>3. ASSUME panicked = "nobody", UNCHANGED panicked, NEW c \in Callers,
               CallerStep(c)
        PROVE  ClientInv'
    BY <1>1, <2>3, BeginStep, NewMessageFailsStep, RegisterStep,
       SendCancelledStep, SendQuitStep, WriteStep, SignalStep,
       WaitAnsweredStep, WaitCancelledStep,
       DeregisterStep, CancelQuitStep, CancelContextStep DEF CallerStep
  <2>4. ASSUME panicked = "nobody", UNCHANGED panicked, NEW k \in Closers,
               CloseStep(k)
        PROVE  ClientInv'
    BY <1>1, <2>4, CloseBeginStep, QuitStep, CloseReturnStep DEF CloseStep
  <2>5. ASSUME panicked = "nobody", UNCHANGED panicked, NEW r \in Requests,
               Respond(r)
        PROVE  ClientInv'
    BY <1>1, <2>5, RespondStep
  <2>6. ASSUME panicked = "nobody", UNCHANGED panicked, LoopStep
        PROVE  ClientInv'
    BY <1>1, <2>6, SentStep, ReadCheckStep, ReadReceiveStep, HandleMsgStep,
       FinishCloseStep DEF LoopStep
  <2>7. ASSUME panicked = "nobody", UNCHANGED panicked, PeerStep
        PROVE  ClientInv'
    BY <1>1, <2>7, PeerTakesStep, PeerAnswersStep, PeerSendsStep DEF PeerStep
  <2> QED
    BY <1>1, <2>1, <2>2, <2>3, <2>4, <2>5, <2>6, <2>7 DEF ClientNext
<1> QED
  BY <1>1, ClientInitInv, PTL DEF ClientSpec

(***************************************************************************)
(* The send lock of dispatch: one caller at a time is between reqInit and  *)
(* reqSent, and lastOp is that caller.                                     *)
(***************************************************************************)
THEOREM OneSenderAtATime == ClientSpec => []OneSender
<1>1. ClientInv => OneSender
  BY DEF ClientInv
<1> QED
  BY <1>1, ClientInvariant, PTL

(***************************************************************************)
(* No error, timeout or response of another call removes the operation of  *)
(* a call that waits, and no operation of a call that has returned is kept *)
(* in respWait, unless Close got in between.                               *)
(***************************************************************************)
THEOREM RegistrationsExact == ClientSpec => []RegistrationExact
<1>1. ClientInv => RegistrationExact
  BY DEF ClientInv
<1> QED
  BY <1>1, ClientInvariant, PTL

(***************************************************************************)
(* A Call returns the response to its own message.                         *)
(***************************************************************************)
THEOREM AnswersOwn == ClientSpec => []OwnAnswer
<1>1. ClientInv => OwnAnswer
  BY DEF ClientInv
<1> QED
  BY <1>1, ClientInvariant, PTL

(***************************************************************************)
(* A goroutine that serves a request never writes to a closed channel, and *)
(* a Close writes to one only when another Close came first                *)
(* (coreClient.go:94-119).                                                 *)
(***************************************************************************)
THEOREM ServersNeverPanic == ClientSpec => []ServersSpared
<1>1. ClientInv => ServersSpared
  BY DEF ClientInv
<1> QED
  BY <1>1, ClientInvariant, PTL
=============================================================================
