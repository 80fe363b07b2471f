------------------------ MODULE ValidatorProxyProofs ------------------------
(***************************************************************************)
(* The outcome of a poll and of a fetch for any finite set of addresses,   *)
(* whatever they answer and in whatever order their goroutines report.     *)
(* Both loops count what they receive: the invariants tie the count to the *)
(* set of goroutines that have sent.                                       *)
(***************************************************************************)
EXTENDS ValidatorProxy, FiniteSetTheorems, TLAPS

(***************************************************************************)
(* Status and RegisterValidator.                                           *)
(***************************************************************************)
PollType ==
    poll \in [state : {"idle", "polling", "ok", "error"},
              channel : Seq({"ok", "error"}), received : Nat,
              sender : [Addresses -> {"asking", "first", "done"}],
              reply : [Addresses -> {"none", "ok", "error"}]]

Reported == {a \in Addresses : poll.sender[a] = "done"}

(***************************************************************************)
(* The inductive invariant of a poll: what has been reported has been      *)
(* received or is in the channel, and while the loop runs no success has   *)
(* been received.                                                          *)
(***************************************************************************)
PollInv ==
    /\ PollType
    /\ poll.received + Len(poll.channel) = Cardinality(Reported)
    /\ \A a \in Addresses : poll.sender[a] = "asking" <=> poll.reply[a] = "none"
    /\ \A i \in 1..Len(poll.channel) : poll.channel[i] = "ok" =>
          \E a \in Addresses : poll.reply[a] = "ok"
    /\ poll.state \in {"idle", "polling"} =>
          \A a \in Reported : poll.reply[a] = "ok" =>
              \E i \in 1..Len(poll.channel) : poll.channel[i] = "ok"
    /\ PollOutcome

(***************************************************************************)
(* GetHeader and GetPayload.                                               *)
(***************************************************************************)
Answer ==
    [from : Addresses,
     is : {"empty", "wrong", "foreign", "overlong", "good"}]

FetchType ==
    fetch \in [state : {"idle", "refused", "waiting", "done", "panicked"},
               errors : Seq({"error", "nil"}), answers : Seq(Answer),
               taken : SUBSET {"error", "nil"}, received : Nat,
               result : Seq(Answer),
               sender : [Addresses -> {"asking", "first", "second", "done"}],
               reply : [Addresses -> Replies \cup {"none"}]]

\* the goroutines that have sent their answer
Answered == {a \in Addresses :
    fetch.sender[a] \in IF Failed(a) THEN {"done"} ELSE {"second", "done"}}

NoneFailed == \A a \in Addresses : fetch.reply[a] # "error"

\* an answer is what its address replied, and a failed request has none
OwnReply(m) ==
    /\ m.from \in Answered
    /\ m.is = IF Failed(m.from) THEN "empty" ELSE fetch.reply[m.from]

(***************************************************************************)
(* Every address has at most one answer in the channel and the result.     *)
(***************************************************************************)
AnswersOwn ==
    /\ \A i \in 1..Len(fetch.answers) : OwnReply(fetch.answers[i])
    /\ \A i \in 1..Len(fetch.result) :
          /\ OwnReply(fetch.result[i])
          /\ fetch.result[i].is \in {"good", "foreign"}
    /\ \A i, j \in 1..Len(fetch.answers) :
          fetch.answers[i].from = fetch.answers[j].from => i = j
    /\ \A i, j \in 1..Len(fetch.result) :
          fetch.result[i].from = fetch.result[j].from => i = j
    /\ \A i \in 1..Len(fetch.answers), j \in 1..Len(fetch.result) :
          fetch.answers[i].from # fetch.result[j].from

(***************************************************************************)
(* Unless a request fails, every error is nil and a usable answer that has *)
(* been sent is in the channel or in the result, which a panic empties.    *)
(***************************************************************************)
GoodKept ==
    NoneFailed =>
        /\ \A i \in 1..Len(fetch.errors) : fetch.errors[i] = "nil"
        /\ fetch.taken \subseteq {"nil"}
        /\ fetch.state # "panicked" => \A a \in Answered \cap Good :
              \/ \E i \in 1..Len(fetch.answers) : fetch.answers[i].from = a
              \/ \E i \in 1..Len(fetch.result) : fetch.result[i].from = a

\* errors are taken while the loop runs; a panic loses what was kept
PanicLoses ==
    /\ fetch.taken # {} => fetch.state = "waiting"
    /\ fetch.state = "panicked" =>
          /\ fetch.result = <<>>
          /\ \E a \in Addresses : fetch.reply[a] = "overlong"

(***************************************************************************)
(* The inductive invariant of a fetch.                                     *)
(***************************************************************************)
FetchInv ==
    /\ FetchType /\ AnswersOwn /\ GoodKept /\ PanicLoses
    /\ fetch.received + Len(fetch.answers) = Cardinality(Answered)
    /\ \A a \in Addresses :
          fetch.sender[a] = "asking" <=> fetch.reply[a] = "none"
    /\ fetch.state = "done" => fetch.received = Cardinality(Addresses)

-----------------------------------------------------------------------------
(***************************************************************************)
(* One more goroutine has sent, and the count of all of them.              *)
(***************************************************************************)
LEMMA OneMore ==
    ASSUME NEW S \in SUBSET Addresses, NEW a \in Addresses \ S
    PROVE  Cardinality(S \cup {a}) = Cardinality(S) + 1
  BY AddressesFinite, FS_Subset, FS_AddElement

LEMMA CountOf ==
    ASSUME NEW S \in SUBSET Addresses
    PROVE  /\ Cardinality(S) \in Nat /\ Cardinality(Addresses) \in Nat
           /\ Cardinality(S) <= Cardinality(Addresses)
           /\ Cardinality(S) = Cardinality(Addresses) => S = Addresses
  BY AddressesFinite, FS_Subset, FS_CardinalityType

(***************************************************************************)
(* When the loop has received as much as there are addresses, the channel  *)
(* is empty and every goroutine has sent.                                  *)
(***************************************************************************)
LEMMA LastOfAll ==
    ASSUME NEW received \in Nat, NEW left \in Nat, NEW sent \in Nat,
           NEW all \in Nat, received + 1 + left = sent, sent <= all,
           received + 1 = all
    PROVE  left = 0 /\ sent = all
  OBVIOUS

LEMMA PollBeginStep ==
    ASSUME PollInv, PollBegin
    PROVE  PollInv'
<1>1. /\ PollType' /\ poll.state = "idle" /\ poll'.state = "polling"
      /\ poll'.channel = poll.channel /\ poll'.received = poll.received
      /\ poll'.sender = poll.sender /\ poll'.reply = poll.reply
  BY DEF PollInv, PollType, PollBegin
<1>2. Reported' = Reported
  BY <1>1 DEF Reported
<1> QED
  BY <1>1, <1>2 DEF PollInv, PollOutcome

(***************************************************************************)
(* An address answers: after the end of a poll without a success there is  *)
(* none left that could.                                                   *)
(***************************************************************************)
LEMMA PollAnsweredStep ==
    ASSUME PollInv, NEW a \in Addresses, PollAnswered(a)
    PROVE  PollInv'
<1>1. PICK reply \in {"ok", "error"} :
        poll' = [poll EXCEPT !.reply[a] = reply, !.sender[a] = "first"]
  BY DEF PollAnswered
<1>2. /\ PollType' /\ poll.state # "idle" /\ poll'.state = poll.state
      /\ poll'.channel = poll.channel /\ poll'.received = poll.received
      /\ poll.sender[a] = "asking" /\ poll'.sender[a] = "first"
      /\ poll'.reply[a] = reply
      /\ \A b \in Addresses \ {a} : /\ poll'.sender[b] = poll.sender[b]
                                    /\ poll'.reply[b] = poll.reply[b]
  BY <1>1 DEF PollInv, PollType, PollAnswered
<1>3. Reported' = Reported
  BY <1>2 DEF Reported
<1>4. poll.reply[a] = "none"
  BY <1>2 DEF PollInv
<1>5. a \notin Reported
  BY <1>2 DEF Reported
<1>6. PollOutcome'
  BY <1>2, <1>4 DEF PollInv, PollOutcome
<1>7. \A i \in 1..Len(poll.channel) : poll.channel[i] = "ok" =>
          \E b \in Addresses : poll'.reply[b] = "ok"
  BY <1>2, <1>4 DEF PollInv
<1>8. \A b \in Reported : poll'.reply[b] = poll.reply[b]
  BY <1>2, <1>5 DEF Reported
<1>9. \A b \in Addresses :
          poll'.sender[b] = "asking" <=> poll'.reply[b] = "none"
  BY <1>2 DEF PollInv
<1> QED
  BY <1>2, <1>3, <1>6, <1>7, <1>8, <1>9 DEF PollInv

(***************************************************************************)
(* A goroutine sends what it has over the channel.                         *)
(***************************************************************************)
LEMMA PollReportedStep ==
    ASSUME PollInv, NEW a \in Addresses, PollReported(a)
    PROVE  PollInv'
<1> DEFINE ch == poll.channel
<1>1. /\ poll.sender[a] = "first" /\ poll.reply[a] \in {"ok", "error"}
      /\ ch \in Seq({"ok", "error"})
      /\ poll' = [poll EXCEPT !.channel = Append(@, poll.reply[a]),
                              !.sender[a] = "done"]
  BY DEF PollInv, PollType, PollReported
<1>2. /\ PollType' /\ poll'.state = poll.state
      /\ poll'.channel = Append(ch, poll.reply[a])
      /\ poll'.received = poll.received /\ poll'.reply = poll.reply
      /\ \A b \in Addresses : poll'.sender[b] =
                                 IF b = a THEN "done" ELSE poll.sender[b]
  <2>1. Append(ch, poll.reply[a]) \in Seq({"ok", "error"})
    BY <1>1
  <2> QED
    BY <1>1, <2>1 DEF PollInv, PollType
<1>3. /\ Len(poll'.channel) = Len(ch) + 1 /\ Len(ch) \in Nat
      /\ \A i \in 1..Len(ch) : poll'.channel[i] = ch[i]
      /\ poll'.channel[Len(ch) + 1] = poll.reply[a]
      /\ \A i \in 1..(Len(ch) + 1) : i \in 1..Len(ch) \/ i = Len(ch) + 1
      /\ \A i \in 1..Len(ch) : i \in 1..(Len(ch) + 1)
      /\ Len(ch) + 1 \in 1..(Len(ch) + 1)
  BY <1>1, <1>2
<1>4. Reported' = Reported \cup {a} /\ a \notin Reported
  BY <1>1, <1>2 DEF Reported
<1>5. poll'.received + Len(poll'.channel) = Cardinality(Reported')
  <2>1. Reported \in SUBSET Addresses
    BY DEF Reported
  <2>2. Cardinality(Reported') = Cardinality(Reported) + 1
    BY <1>4, <2>1, OneMore
  <2>3. poll.received \in Nat /\ Cardinality(Reported) \in Nat
    BY <2>1, CountOf DEF PollInv, PollType
  <2> QED
    BY <1>2, <1>3, <2>2, <2>3 DEF PollInv
<1> HIDE DEF ch
<1>6. \A i \in 1..Len(poll'.channel) : poll'.channel[i] = "ok" =>
          \E b \in Addresses : poll'.reply[b] = "ok"
  BY <1>2, <1>3 DEF PollInv, ch
<1>7. ASSUME poll.state \in {"idle", "polling"}, NEW b \in Reported',
             poll.reply[b] = "ok"
      PROVE  \E i \in 1..Len(poll'.channel) : poll'.channel[i] = "ok"
  <2>1. CASE b = a
    BY <2>1, <1>3, <1>7
  <2>2. CASE b \in Reported
    BY <2>2, <1>3, <1>7 DEF PollInv, ch
  <2> QED
    BY <2>1, <2>2, <1>4
<1>8. PollOutcome'
  BY <1>2 DEF PollInv, PollOutcome
<1>9. \A b \in Addresses :
          poll'.sender[b] = "asking" <=> poll'.reply[b] = "none"
  BY <1>1, <1>2 DEF PollInv
<1> QED
  BY <1>2, <1>5, <1>6, <1>7, <1>8, <1>9 DEF PollInv

(***************************************************************************)
(* The loop receives: when the count says that it was the last report, all *)
(* goroutines have sent and the channel held nothing else, so that an      *)
(* error there means that nobody succeeded.                                *)
(***************************************************************************)
LEMMA PollReceiveStep ==
    ASSUME PollInv, PollReceive
    PROVE  PollInv'
<1> DEFINE ch == poll.channel
           m == Head(ch)
           last == poll.received + 1 = Cardinality(Addresses)
<1>1. /\ poll.state = "polling" /\ ch \in Seq({"ok", "error"}) /\ ch # <<>>
      /\ poll' = [poll EXCEPT
                    !.channel = Tail(@), !.received = @ + 1,
                    !.state = IF m = "ok" \/ last THEN m ELSE @]
  BY DEF PollInv, PollType, PollReceive
<1>2. /\ m \in {"ok", "error"} /\ m = ch[1] /\ Tail(ch) \in Seq({"ok", "error"})
      /\ Len(ch) \in Nat \ {0} /\ Len(Tail(ch)) = Len(ch) - 1
      /\ \A i \in 1..Len(Tail(ch)) : Tail(ch)[i] = ch[i + 1]
      /\ 1 \in 1..Len(ch)
  BY <1>1
<1>3. \A i \in 1..Len(Tail(ch)) : i + 1 \in 1..Len(ch)
  BY <1>2
<1>4. \A i \in 1..Len(ch) : i = 1 \/ (i - 1 \in 1..Len(Tail(ch))
                                      /\ ch[i] = Tail(ch)[i - 1])
  BY <1>2
<1> HIDE DEF m, last
<1>5. /\ poll'.channel = Tail(ch) /\ poll'.received = poll.received + 1
      /\ poll'.state = IF m = "ok" \/ last THEN m ELSE poll.state
      /\ poll'.sender = poll.sender /\ poll'.reply = poll.reply
      /\ PollType'
  <2> DEFINE state == IF m = "ok" \/ last THEN m ELSE poll.state
  <2>1. state \in {"idle", "polling", "ok", "error"}
    BY <1>1, <1>2
  <2>3. poll' = [poll EXCEPT !.channel = Tail(@), !.received = @ + 1,
                             !.state = state]
    BY <1>1
  <2> HIDE DEF state
  <2> HIDE DEF ch
  <2>2. Tail(ch) \in Seq({"ok", "error"}) /\ poll.channel = ch
    BY <1>2 DEF ch
  <2>4. /\ poll'.channel = Tail(ch) /\ poll'.received = poll.received + 1
        /\ poll'.state = state
        /\ poll'.sender = poll.sender /\ poll'.reply = poll.reply
    BY <2>2, <2>3 DEF PollInv, PollType
  <2>5. PollType'
    <3> DEFINE n == poll.received + 1
    <3>1. n \in Nat
      BY DEF PollInv, PollType
    <3>2. poll' = [poll EXCEPT !.channel = Tail(ch), !.received = n,
                               !.state = state]
      BY <2>2, <2>3
    <3> HIDE DEF n
    <3> QED
      BY <2>1, <2>2, <3>1, <3>2 DEF PollInv, PollType
  <2> QED
    BY <2>4, <2>5 DEF state
<1>6. Reported' = Reported /\ Reported \in SUBSET Addresses
  BY <1>5 DEF Reported
<1>7. poll'.received + Len(poll'.channel) = Cardinality(Reported)
  BY <1>2, <1>5 DEF PollInv, PollType
<1>8. \A i \in 1..Len(poll'.channel) : poll'.channel[i] = "ok" =>
          \E b \in Addresses : poll'.reply[b] = "ok"
  BY <1>2, <1>3, <1>5 DEF PollInv
<1>9. ASSUME m = "error", NEW b \in Reported, poll.reply[b] = "ok"
      PROVE  \E i \in 1..Len(Tail(ch)) : Tail(ch)[i] = "ok"
  <2>1. PICK i \in 1..Len(ch) : ch[i] = "ok"
    BY <1>1, <1>9 DEF PollInv
  <2> QED
    BY <2>1, <1>2, <1>4, <1>9
<1>10. PollOutcome'
  <2>1. CASE m = "ok"
    <3>1. \E b \in Addresses : poll.reply[b] = "ok"
      BY <2>1, <1>2 DEF PollInv
    <3> QED
      BY <2>1, <3>1, <1>5 DEF PollOutcome
  <2>2. CASE m = "error" /\ last
    <3>1. Reported = Addresses /\ Len(Tail(ch)) = 0
      <4>1. /\ Cardinality(Reported) \in Nat /\ Cardinality(Addresses) \in Nat
            /\ Cardinality(Reported) <= Cardinality(Addresses)
            /\ Cardinality(Reported) = Cardinality(Addresses) =>
                  Reported = Addresses
        BY <1>6, CountOf
      <4>2. poll.received \in Nat /\ Len(Tail(ch)) \in Nat
        BY <1>2 DEF PollInv, PollType
      <4>3. poll.received + 1 + Len(Tail(ch)) = Cardinality(Reported)
        BY <1>5, <1>7
      <4>4. poll.received + 1 = Cardinality(Addresses)
        BY <2>2 DEF last
      <4> QED
        BY <4>1, <4>2, <4>3, <4>4, LastOfAll
    <3>2. \A b \in Addresses : poll.reply[b] # "ok" /\ poll.sender[b] = "done"
      BY <3>1, <2>2, <1>9 DEF Reported
    <3>3. \A b \in Addresses : poll.reply[b] = "error"
      BY <3>2 DEF PollInv, PollType
    <3> QED
      BY <2>2, <3>3, <1>5 DEF PollOutcome
  <2>3. CASE m = "error" /\ ~ last
    BY <2>3, <1>1, <1>5 DEF PollOutcome
  <2> QED
    BY <1>2, <2>1, <2>2, <2>3
<1>11. poll'.state \in {"idle", "polling"} => m = "error"
  BY <1>2, <1>5
<1> QED
  BY <1>5, <1>6, <1>7, <1>8, <1>9, <1>10, <1>11 DEF PollInv
-----------------------------------------------------------------------------
(***************************************************************************)
(* A step that sends or takes no answer, and changes no reply of a         *)
(* goroutine that has sent its own, keeps what is said of the answers.     *)
(***************************************************************************)
LEMMA AnswersFrame ==
    ASSUME FetchInv, Answered' = Answered,
           fetch'.answers = fetch.answers, fetch'.result = fetch.result,
           fetch'.received = fetch.received,
           \A a \in Answered : fetch'.reply[a] = fetch.reply[a]
    PROVE  /\ AnswersOwn'
           /\ fetch'.received + Len(fetch'.answers) = Cardinality(Answered')
<1>1. \A m : OwnReply(m) => OwnReply(m)'
  BY DEF OwnReply, Failed
<1> QED
  BY <1>1 DEF FetchInv, AnswersOwn

LEMMA FetchBeginStep ==
    ASSUME FetchInv, FetchBegin
    PROVE  FetchInv'
<1>1. /\ FetchType' /\ fetch'.state \in {"waiting", "refused"}
      /\ fetch.state = "idle" /\ fetch.taken = {}
      /\ fetch'.errors = fetch.errors /\ fetch'.answers = fetch.answers
      /\ fetch'.taken = fetch.taken /\ fetch'.received = fetch.received
      /\ fetch'.result = fetch.result /\ fetch'.sender = fetch.sender
      /\ fetch'.reply = fetch.reply
  BY DEF FetchInv, FetchType, FetchBegin, PanicLoses
<1>2. Answered' = Answered
  BY <1>1 DEF Answered, Failed
<1>3. GoodKept'
  BY <1>1, <1>2 DEF FetchInv, GoodKept, NoneFailed, Good
<1>4. PanicLoses'
  BY <1>1 DEF PanicLoses
<1> QED
  BY <1>1, <1>2, <1>3, <1>4, AnswersFrame DEF FetchInv

(***************************************************************************)
(* An address answers: its goroutine has not sent anything yet.            *)
(***************************************************************************)
LEMMA FetchAnsweredStep ==
    ASSUME FetchInv, NEW a \in Addresses, FetchAnswered(a)
    PROVE  FetchInv'
<1>1. PICK reply \in Replies :
        fetch' = [fetch EXCEPT !.reply[a] = reply, !.sender[a] = "first"]
  BY DEF FetchAnswered
<1>2. /\ FetchType' /\ fetch'.state = fetch.state
      /\ fetch.sender[a] = "asking" /\ fetch'.sender[a] = "first"
      /\ fetch'.errors = fetch.errors /\ fetch'.answers = fetch.answers
      /\ fetch'.taken = fetch.taken /\ fetch'.received = fetch.received
      /\ fetch'.result = fetch.result /\ fetch'.reply[a] = reply
      /\ \A b \in Addresses \ {a} : /\ fetch'.sender[b] = fetch.sender[b]
                                    /\ fetch'.reply[b] = fetch.reply[b]
  BY <1>1 DEF FetchInv, FetchType, FetchAnswered
<1>3. fetch.reply[a] = "none" /\ reply # "none"
  BY <1>2, ReplyAssumption DEF FetchInv
<1>4. a \notin Answered /\ Answered' = Answered
  BY <1>2 DEF Answered, Failed
<1>5. \A b \in Answered : fetch'.reply[b] = fetch.reply[b]
  BY <1>2, <1>4 DEF Answered
<1>6. NoneFailed' => NoneFailed
  BY <1>2, <1>3 DEF NoneFailed
<1>7. (Answered \cap Good)' = Answered \cap Good
  BY <1>4, <1>5 DEF Good
<1>8. GoodKept'
  BY <1>2, <1>6, <1>7 DEF FetchInv, GoodKept
<1>9. \A b \in Addresses :
          fetch'.sender[b] = "asking" <=> fetch'.reply[b] = "none"
  BY <1>2, <1>3 DEF FetchInv
<1>10. PanicLoses'
  BY <1>2, <1>3 DEF FetchInv, PanicLoses
<1> QED
  BY <1>2, <1>4, <1>5, <1>8, <1>9, <1>10, AnswersFrame DEF FetchInv

(***************************************************************************)
(* A goroutine sends its error, or nil.                                    *)
(***************************************************************************)
LEMMA SendErrorStep ==
    ASSUME FetchInv, NEW a \in Addresses, SendError(a)
    PROVE  FetchInv'
<1> DEFINE error == IF Failed(a) THEN "error" ELSE "nil"
           after == IF Failed(a) THEN "second" ELSE "done"
<1>1. /\ fetch.sender[a] = (IF Failed(a) THEN "first" ELSE "second")
      /\ fetch' = [fetch EXCEPT !.errors = Append(@, error),
                                !.sender[a] = after]
      /\ error \in {"error", "nil"} /\ after \in {"second", "done"}
      /\ fetch.errors \in Seq({"error", "nil"})
  BY DEF FetchInv, FetchType, SendError
<1>2. NoneFailed => error = "nil"
  BY DEF NoneFailed, Failed
<1>3. Failed(a) => after = "second"
  OBVIOUS
<1>4. ~ Failed(a) => after = "done"
  OBVIOUS
<1> HIDE DEF error, after
<1>5. Append(fetch.errors, error) \in Seq({"error", "nil"})
  BY <1>1
<1>6. /\ FetchType' /\ fetch'.state = fetch.state
      /\ fetch'.errors = Append(fetch.errors, error)
      /\ fetch'.answers = fetch.answers
      /\ fetch'.taken = fetch.taken /\ fetch'.received = fetch.received
      /\ fetch'.result = fetch.result /\ fetch'.reply = fetch.reply
      /\ \A b \in Addresses : fetch'.sender[b] =
                                 IF b = a THEN after ELSE fetch.sender[b]
  BY <1>1, <1>5 DEF FetchInv, FetchType
<1>7. \A b : Failed(b)' <=> Failed(b)
  BY <1>6 DEF Failed
<1>8. Answered' = Answered
  BY <1>1, <1>3, <1>4, <1>6, <1>7 DEF Answered
<1>9. \A i \in 1..Len(fetch'.errors) :
          \/ i \in 1..Len(fetch.errors) /\ fetch'.errors[i] = fetch.errors[i]
          \/ fetch'.errors[i] = error
  BY <1>1, <1>6
<1>10. GoodKept'
  BY <1>2, <1>6, <1>8, <1>9 DEF FetchInv, GoodKept, NoneFailed, Good
<1>11. \A b \in Addresses :
           fetch'.sender[b] = "asking" <=> fetch'.reply[b] = "none"
  BY <1>1, <1>6 DEF FetchInv
<1>12. PanicLoses'
  BY <1>6 DEF FetchInv, PanicLoses
<1> QED
  BY <1>6, <1>8, <1>10, <1>11, <1>12, AnswersFrame DEF FetchInv

(***************************************************************************)
(* The loop takes an error.                                                *)
(***************************************************************************)
LEMMA TakeErrorStep ==
    ASSUME FetchInv, TakeError
    PROVE  FetchInv'
<1> DEFINE errors == fetch.errors
<1>1. /\ fetch.state = "waiting" /\ errors # <<>>
      /\ errors \in Seq({"error", "nil"})
      /\ fetch' = [fetch EXCEPT !.taken = {Head(errors)},
                                !.errors = Tail(errors)]
  BY DEF FetchInv, FetchType, TakeError
<1>2. /\ Head(errors) \in {"error", "nil"} /\ Head(errors) = errors[1]
      /\ Tail(errors) \in Seq({"error", "nil"}) /\ 1 \in 1..Len(errors)
      /\ \A i \in 1..Len(Tail(errors)) :
            i + 1 \in 1..Len(errors) /\ Tail(errors)[i] = errors[i + 1]
  BY <1>1
<1> HIDE DEF errors
<1>3. /\ FetchType' /\ fetch'.state = fetch.state
      /\ fetch'.errors = Tail(errors) /\ fetch'.answers = fetch.answers
      /\ fetch'.taken = {Head(errors)} /\ fetch'.received = fetch.received
      /\ fetch'.result = fetch.result /\ fetch'.reply = fetch.reply
      /\ fetch'.sender = fetch.sender
  BY <1>1, <1>2 DEF FetchInv, FetchType
<1>4. Answered' = Answered
  BY <1>3 DEF Answered, Failed
<1>5. GoodKept'
  BY <1>2, <1>3, <1>4 DEF FetchInv, GoodKept, NoneFailed, Good, errors
<1>6. PanicLoses'
  BY <1>1, <1>3 DEF PanicLoses
<1> QED
  BY <1>1, <1>3, <1>4, <1>5, <1>6, AnswersFrame DEF FetchInv

(***************************************************************************)
(* A goroutine sends its answer, the first one from its address.           *)
(***************************************************************************)
LEMMA SendAnswerStep ==
    ASSUME FetchInv, NEW a \in Addresses, SendAnswer(a)
    PROVE  FetchInv'
<1> DEFINE is == IF Failed(a) THEN "empty" ELSE fetch.reply[a]
           m == [from |-> a, is |-> is]
           after == IF Failed(a) THEN "done" ELSE "second"
           answers == fetch.answers
<1>1. /\ fetch.sender[a] = (IF Failed(a) THEN "second" ELSE "first")
      /\ fetch' = [fetch EXCEPT !.answers = Append(@, m),
                                !.sender[a] = after]
      /\ answers \in Seq(Answer) /\ after \in {"second", "done"}
  BY DEF FetchInv, FetchType, SendAnswer
<1>2. m \in Answer
  <2>1. fetch.reply[a] \in Replies
    BY <1>1 DEF FetchInv, FetchType
  <2>2. is \in {"empty", "wrong", "foreign", "overlong", "good"}
    BY <2>1, ReplyAssumption DEF Failed
  <2> QED
    BY <2>2 DEF Answer
<1>3. m.from = a /\ m.is = IF Failed(a) THEN "empty" ELSE fetch.reply[a]
  OBVIOUS
<1>4. after = IF Failed(a) THEN "done" ELSE "second"
  OBVIOUS
<1> HIDE DEF m, after, answers
<1>5. /\ Append(answers, m) \in Seq(Answer)
      /\ Len(Append(answers, m)) = Len(answers) + 1 /\ Len(answers) \in Nat
      /\ \A i \in 1..Len(answers) : Append(answers, m)[i] = answers[i]
      /\ Append(answers, m)[Len(answers) + 1] = m
  BY <1>1, <1>2
<1>6. /\ FetchType' /\ fetch'.state = fetch.state
      /\ fetch'.errors = fetch.errors /\ fetch'.answers = Append(answers, m)
      /\ fetch'.taken = fetch.taken /\ fetch'.received = fetch.received
      /\ fetch'.result = fetch.result /\ fetch'.reply = fetch.reply
      /\ \A b \in Addresses : fetch'.sender[b] =
                                 IF b = a THEN after ELSE fetch.sender[b]
  BY <1>1, <1>5 DEF FetchInv, FetchType, answers
<1>7. \A b : Failed(b)' <=> Failed(b)
  BY <1>6 DEF Failed
<1>8. Answered' = Answered \cup {a} /\ a \notin Answered
  BY <1>1, <1>4, <1>6, <1>7 DEF Answered
<1>9. /\ \A i \in 1..(Len(answers) + 1) :
            i \in 1..Len(answers) \/ i = Len(answers) + 1
      /\ \A i \in 1..Len(answers) : i \in 1..(Len(answers) + 1)
      /\ Len(answers) + 1 \in 1..(Len(answers) + 1)
  BY <1>5
<1>10. \A n : OwnReply(n) => OwnReply(n)' /\ n.from # a
  BY <1>6, <1>7, <1>8 DEF OwnReply
<1>11. \A n : n = m => OwnReply(n)'
  BY <1>3, <1>6, <1>7, <1>8 DEF OwnReply
<1>12. AnswersOwn'
  <2>1. /\ \A i \in 1..Len(fetch.answers) : fetch.answers[i].from # a
        /\ \A i \in 1..Len(fetch.result) : fetch.result[i].from # a
    BY <1>10 DEF FetchInv, AnswersOwn
  <2>2. (\A i \in 1..Len(fetch.answers) : OwnReply(fetch.answers[i]))'
    BY <1>5, <1>6, <1>9, <1>10, <1>11 DEF FetchInv, AnswersOwn, answers
  <2>3. \A i, j \in 1..Len(fetch'.answers) :
            fetch'.answers[i].from = fetch'.answers[j].from => i = j
    BY <2>1, <1>3, <1>5, <1>6, <1>9 DEF FetchInv, AnswersOwn, answers
  <2>4. \A i \in 1..Len(fetch'.answers), j \in 1..Len(fetch'.result) :
            fetch'.answers[i].from # fetch'.result[j].from
    BY <2>1, <1>3, <1>5, <1>6, <1>9 DEF FetchInv, AnswersOwn, answers
  <2> QED
    BY <2>2, <2>3, <2>4, <1>6, <1>10 DEF FetchInv, AnswersOwn
<1>13. GoodKept'
  <2>1. \A i \in 1..Len(answers) : /\ i \in 1..Len(fetch'.answers)
                                   /\ fetch'.answers[i] = answers[i]
    BY <1>5, <1>6, <1>9
  <2>2. /\ Len(answers) + 1 \in 1..Len(fetch'.answers)
        /\ fetch'.answers[Len(answers) + 1].from = a
    BY <1>3, <1>5, <1>6, <1>9
  <2>3. Good' = Good /\ (NoneFailed' <=> NoneFailed)
    BY <1>6 DEF Good, NoneFailed
  <2>4. ASSUME NoneFailed, fetch.state # "panicked",
               NEW b \in Answered' \cap Good'
        PROVE  \/ \E i \in 1..Len(fetch'.answers) : fetch'.answers[i].from = b
               \/ \E i \in 1..Len(fetch'.result) : fetch'.result[i].from = b
    <3>1. CASE b = a
      BY <3>1, <2>2
    <3>2. CASE b \in Answered \cap Good
      BY <3>2, <2>1, <2>4, <1>6 DEF FetchInv, GoodKept, answers
    <3> QED
      BY <2>3, <2>4, <3>1, <3>2, <1>8
  <2> QED
    BY <2>3, <2>4, <1>6 DEF FetchInv, GoodKept
<1>14. fetch'.received + Len(fetch'.answers) = Cardinality(Answered')
  <2>1. Answered \in SUBSET Addresses
    BY DEF Answered
  <2>2. Cardinality(Answered') = Cardinality(Answered) + 1
    BY <1>8, <2>1, OneMore
  <2>3. fetch.received \in Nat /\ Cardinality(Answered) \in Nat
    BY <2>1, CountOf DEF FetchInv, FetchType
  <2> QED
    BY <2>2, <2>3, <1>5, <1>6 DEF FetchInv, answers
<1>15. \A b \in Addresses :
           fetch'.sender[b] = "asking" <=> fetch'.reply[b] = "none"
  BY <1>1, <1>6 DEF FetchInv
<1>16. PanicLoses'
  BY <1>6 DEF FetchInv, PanicLoses
<1> QED
  BY <1>6, <1>12, <1>13, <1>14, <1>15, <1>16 DEF FetchInv

(***************************************************************************)
(* The loop takes an answer and keeps it or not.                           *)
(***************************************************************************)
LEMMA TakeAnswerStep ==
    ASSUME FetchInv, TakeAnswer
    PROVE  FetchInv'
<1> DEFINE answers == fetch.answers
           m == Head(answers)
           result == IF Kept(m) THEN Append(fetch.result, m) ELSE fetch.result
           last == fetch.received + 1 = Cardinality(Addresses)
           state == IF last THEN "done" ELSE fetch.state
           received == fetch.received + 1
<1>1. /\ fetch.taken # {} /\ answers # <<>> /\ answers \in Seq(Answer)
      /\ fetch.result \in Seq(Answer) /\ received \in Nat
      /\ fetch.state = "waiting" /\ ~ Overruns(m)
      /\ state \in {"waiting", "done"}
      /\ fetch' = [fetch EXCEPT !.answers = Tail(answers),
                                !.received = received, !.taken = {},
                                !.result = result, !.state = state]
  BY DEF FetchInv, FetchType, PanicLoses, TakeAnswer
<1>2. /\ m = answers[1] /\ 1 \in 1..Len(answers) /\ m \in Answer
      /\ Tail(answers) \in Seq(Answer) /\ Len(answers) \in Nat \ {0}
      /\ Len(Tail(answers)) = Len(answers) - 1
      /\ \A i \in 1..Len(Tail(answers)) :
            /\ i + 1 \in 1..Len(answers) /\ i + 1 # 1
            /\ Tail(answers)[i] = answers[i + 1]
            /\ \A j \in 1..Len(Tail(answers)) : i + 1 = j + 1 => i = j
  BY <1>1
<1>3. \A i \in 1..Len(answers) : i = 1 \/ (i - 1 \in 1..Len(Tail(answers))
                                 /\ Tail(answers)[i - 1] = answers[i])
  BY <1>2
<1>4. /\ result \in Seq(Answer)
      /\ \A i \in 1..Len(result) :
            \/ i \in 1..Len(fetch.result) /\ result[i] = fetch.result[i]
            \/ result[i] = m /\ Kept(m) /\ i = Len(fetch.result) + 1
      /\ \A i \in 1..Len(fetch.result) :
            i \in 1..Len(result) /\ result[i] = fetch.result[i]
      /\ Kept(m) => \E i \in 1..Len(result) : result[i] = m
  <2> HIDE DEF m
  <2>1. CASE Kept(m)
    <3>1. result = Append(fetch.result, m)
      BY <2>1
    <3> HIDE DEF result
    <3> QED
      BY <2>1, <3>1, <1>1, <1>2
  <2>2. CASE ~ Kept(m)
    BY <2>2, <1>1
  <2> QED
    BY <2>1, <2>2
<1>5. (fetch.received = Cardinality(Addresses) \/ ~ last) => state = fetch.state
  BY DEF FetchInv, FetchType
<1>6. state = "done" => last \/ fetch.state = "done"
  OBVIOUS
<1> HIDE DEF answers, m, result, last, state
<1>7. /\ FetchType' /\ fetch'.state = state
      /\ fetch'.errors = fetch.errors /\ fetch'.answers = Tail(answers)
      /\ fetch'.taken = {} /\ fetch'.received = received
      /\ fetch'.result = result /\ fetch'.reply = fetch.reply
      /\ fetch'.sender = fetch.sender
  BY <1>1, <1>2, <1>4 DEF FetchInv, FetchType
<1>8. Answered' = Answered
  BY <1>7 DEF Answered, Failed
<1>9. \A n : OwnReply(n) => OwnReply(n)'
  BY <1>7, <1>8 DEF OwnReply, Failed
<1>10. OwnReply(m)
  BY <1>2 DEF FetchInv, AnswersOwn, answers
<1>11. AnswersOwn'
  <2>1. \A i \in 1..Len(fetch.result) : fetch.result[i].from # m.from
    BY <1>2 DEF FetchInv, AnswersOwn, answers
  <2>2. \A i \in 1..Len(Tail(answers)) : /\ OwnReply(Tail(answers)[i])
                                         /\ Tail(answers)[i].from # m.from
    BY <1>2 DEF FetchInv, AnswersOwn, answers
  <2>3. \A i, j \in 1..Len(Tail(answers)) :
            Tail(answers)[i].from = Tail(answers)[j].from => i = j
    BY <1>2 DEF FetchInv, AnswersOwn, answers
  <2>4. \A i \in 1..Len(result) :
            OwnReply(result[i]) /\ result[i].is \in {"good", "foreign"}
    BY <1>4, <1>10 DEF FetchInv, AnswersOwn, Kept
  <2>5. \A i, j \in 1..Len(result) : result[i].from = result[j].from => i = j
    BY <2>1, <1>4 DEF FetchInv, AnswersOwn
  <2>6. \A i \in 1..Len(Tail(answers)), j \in 1..Len(result) :
            Tail(answers)[i].from # result[j].from
    BY <2>2, <1>2, <1>4 DEF FetchInv, AnswersOwn, answers
  <2>7. (\A i \in 1..Len(fetch.answers) : OwnReply(fetch.answers[i]))'
    BY <2>2, <1>7, <1>9
  <2>8. (\A i \in 1..Len(fetch.result) :
            /\ OwnReply(fetch.result[i])
            /\ fetch.result[i].is \in {"good", "foreign"})'
    BY <2>4, <1>7, <1>9
  <2> QED
    <3>1. \A i, j \in 1..Len(fetch'.answers) :
              fetch'.answers[i].from = fetch'.answers[j].from => i = j
      BY <2>3, <1>7
    <3>2. \A i, j \in 1..Len(fetch'.result) :
              fetch'.result[i].from = fetch'.result[j].from => i = j
      BY <2>5, <1>7
    <3>3. \A i \in 1..Len(fetch'.answers), j \in 1..Len(fetch'.result) :
              fetch'.answers[i].from # fetch'.result[j].from
      BY <2>6, <1>7
    <3> QED
      BY <2>7, <2>8, <3>1, <3>2, <3>3 DEF AnswersOwn
<1>12. GoodKept'
  <2>1. Good' = Good /\ (NoneFailed' <=> NoneFailed)
    BY <1>7 DEF Good, NoneFailed
  <2>2. ASSUME NoneFailed, NEW b \in Answered \cap Good
        PROVE  \/ \E i \in 1..Len(Tail(answers)) : Tail(answers)[i].from = b
               \/ \E i \in 1..Len(result) : result[i].from = b
    <3>1. CASE b = m.from
      <4>1. m.is \in {"good", "foreign"}
        BY <3>1, <1>10, <2>2 DEF OwnReply, NoneFailed, Failed, Good
      <4>2. Kept(m)
        BY <4>1, <1>1, <2>2 DEF FetchInv, GoodKept, Kept
      <4> QED
        BY <4>2, <3>1, <1>4
    <3>2. CASE \E i \in 1..Len(answers) : answers[i].from = b /\ b # m.from
      BY <3>2, <1>2, <1>3
    <3>3. CASE \E i \in 1..Len(fetch.result) : fetch.result[i].from = b
      BY <3>3, <1>4
    <3> QED
      BY <2>2, <3>1, <3>2, <3>3, <1>1 DEF FetchInv, GoodKept, answers
  <2> QED
    BY <2>1, <2>2, <1>7, <1>8 DEF FetchInv, GoodKept
<1>13. /\ Answered \in SUBSET Addresses /\ fetch.received \in Nat
       /\ Cardinality(Answered) \in Nat /\ Cardinality(Addresses) \in Nat
       /\ Cardinality(Answered) <= Cardinality(Addresses)
       /\ fetch.received + Len(answers) = Cardinality(Answered)
  <2>1. Answered \in SUBSET Addresses
    BY DEF Answered
  <2> QED
    BY <2>1, CountOf DEF FetchInv, FetchType, answers
<1>14. fetch'.received + Len(fetch'.answers) = Cardinality(Answered')
  BY <1>2, <1>7, <1>8, <1>13
<1>15. fetch.state # "done"
  BY <1>2, <1>13 DEF FetchInv
<1>16. fetch'.state = "done" => fetch'.received = Cardinality(Addresses)
  BY <1>6, <1>7, <1>15 DEF last
<1>17. PanicLoses'
  BY <1>1, <1>7 DEF PanicLoses
<1> QED
  BY <1>7, <1>11, <1>12, <1>14, <1>16, <1>17 DEF FetchInv

(***************************************************************************)
(* The check of an answer panics: what the loop has kept is lost.          *)
(***************************************************************************)
LEMMA CheckPanicsStep ==
    ASSUME FetchInv, CheckPanics
    PROVE  FetchInv'
<1> DEFINE answers == fetch.answers
           m == Head(answers)
           received == fetch.received + 1
<1>1. /\ fetch.taken = {"nil"} /\ m.is = "overlong"
      /\ answers # <<>> /\ answers \in Seq(Answer) /\ received \in Nat
      /\ fetch' = [fetch EXCEPT !.answers = Tail(answers),
                                !.received = received, !.taken = {},
                                !.result = <<>>, !.state = "panicked"]
  BY DEF FetchInv, FetchType, CheckPanics, Overruns
<1>2. /\ m = answers[1] /\ 1 \in 1..Len(answers)
      /\ Tail(answers) \in Seq(Answer) /\ Len(answers) \in Nat \ {0}
      /\ Len(Tail(answers)) = Len(answers) - 1
      /\ \A i \in 1..Len(Tail(answers)) :
            /\ i + 1 \in 1..Len(answers)
            /\ Tail(answers)[i] = answers[i + 1]
            /\ \A j \in 1..Len(Tail(answers)) : i + 1 = j + 1 => i = j
  BY <1>1
<1> HIDE DEF answers, m, received
<1>3. /\ FetchType' /\ fetch'.state = "panicked"
      /\ fetch'.errors = fetch.errors /\ fetch'.answers = Tail(answers)
      /\ fetch'.taken = {} /\ fetch'.received = received
      /\ fetch'.result = <<>> /\ fetch'.reply = fetch.reply
      /\ fetch'.sender = fetch.sender
  <2>1. <<>> \in Seq(Answer)
    OBVIOUS
  <2> DEFINE none == <<>>
             state == "panicked"
  <2>2. fetch' = [fetch EXCEPT !.answers = Tail(answers),
                               !.received = received, !.taken = {},
                               !.result = none, !.state = state]
    BY <1>1
  <2>3. none \in Seq(Answer)
    BY <2>1
  <2> HIDE DEF none
  <2>4. /\ FetchType' /\ fetch'.state = state
        /\ fetch'.errors = fetch.errors /\ fetch'.answers = Tail(answers)
        /\ fetch'.taken = {} /\ fetch'.received = received
        /\ fetch'.result = none /\ fetch'.reply = fetch.reply
        /\ fetch'.sender = fetch.sender
    BY <1>1, <1>2, <2>2, <2>3 DEF FetchInv, FetchType
  <2> QED
    BY <2>4 DEF none
<1>4. Answered' = Answered
  BY <1>3 DEF Answered, Failed
<1>5. \A n : OwnReply(n) => OwnReply(n)'
  BY <1>3, <1>4 DEF OwnReply, Failed
<1>6. AnswersOwn'
  <2>1. \A i \in 1..Len(Tail(answers)) : OwnReply(Tail(answers)[i])
    BY <1>2 DEF FetchInv, AnswersOwn, answers
  <2>2. \A i, j \in 1..Len(Tail(answers)) :
            Tail(answers)[i].from = Tail(answers)[j].from => i = j
    BY <1>2 DEF FetchInv, AnswersOwn, answers
  <2>3. (\A i \in 1..Len(fetch.answers) : OwnReply(fetch.answers[i]))'
    BY <2>1, <1>3, <1>5
  <2> QED
    BY <2>2, <2>3, <1>3 DEF AnswersOwn
<1>7. GoodKept'
  BY <1>3 DEF FetchInv, GoodKept, NoneFailed
<1>8. PanicLoses'
  <2>1. OwnReply(m)
    BY <1>2 DEF FetchInv, AnswersOwn, answers
  <2>2. m.from \in Addresses /\ fetch.reply[m.from] = "overlong"
    BY <1>1, <2>1 DEF OwnReply, Answered
  <2> QED
    BY <1>3, <2>2 DEF PanicLoses
<1>9. fetch'.received + Len(fetch'.answers) = Cardinality(Answered')
  <2>1. fetch.received \in Nat
    BY DEF FetchInv, FetchType
  <2>2. fetch.received + Len(answers) = Cardinality(Answered)
    BY DEF FetchInv, answers
  <2> QED
    BY <1>2, <1>3, <1>4, <2>1, <2>2 DEF received
<1> QED
  BY <1>3, <1>6, <1>7, <1>8, <1>9 DEF FetchInv

-----------------------------------------------------------------------------
ProxyInv == PollInv /\ FetchInv

LEMMA ProxyInitInv == ProxyInit => ProxyInv
<1> SUFFICES ASSUME ProxyInit PROVE ProxyInv
  OBVIOUS
<1>1. PollType /\ FetchType
  BY DEF ProxyInit, PollType, FetchType
<1>2. /\ poll.state = "idle" /\ poll.channel = <<>> /\ poll.received = 0
      /\ \A a \in Addresses : /\ poll.sender[a] = "asking"
                              /\ poll.reply[a] = "none"
      /\ fetch.state = "idle" /\ fetch.errors = <<>> /\ fetch.answers = <<>>
      /\ fetch.taken = {} /\ fetch.received = 0 /\ fetch.result = <<>>
      /\ \A a \in Addresses : /\ fetch.sender[a] = "asking"
                              /\ fetch.reply[a] = "none"
  BY DEF ProxyInit
<1>3. Reported = {} /\ Answered = {}
  BY <1>2 DEF Reported, Answered
<1>4. Cardinality({}) = 0
  BY FS_EmptySet
<1>5. PollInv
  BY <1>1, <1>2, <1>3, <1>4 DEF PollInv, PollOutcome
<1>6. AnswersOwn /\ GoodKept /\ PanicLoses
  BY <1>2, <1>3 DEF AnswersOwn, GoodKept, PanicLoses
<1> QED
  BY <1>1, <1>2, <1>3, <1>4, <1>5, <1>6 DEF ProxyInv, FetchInv

LEMMA PollUnchanged ==
    ASSUME PollInv, poll' = poll
    PROVE  PollInv'
<1>1. Reported' = Reported /\ PollType'
  BY DEF PollInv, PollType, Reported
<1> QED
  BY <1>1 DEF PollInv, PollOutcome

LEMMA FetchUnchanged ==
    ASSUME FetchInv, fetch' = fetch
    PROVE  FetchInv'
<1>1. Answered' = Answered /\ FetchType'
  BY DEF FetchInv, FetchType, Answered, Failed
<1>2. GoodKept'
  BY <1>1 DEF FetchInv, GoodKept, NoneFailed, Good
<1>3. PanicLoses'
  BY DEF FetchInv, PanicLoses
<1> QED
  BY <1>1, <1>2, <1>3, AnswersFrame DEF FetchInv

LEMMA ProxyNextInv == ProxyInv /\ [ProxyNext]_vars => ProxyInv'
<1> SUFFICES ASSUME ProxyInv, [ProxyNext]_vars PROVE ProxyInv'
  OBVIOUS
<1> USE DEF ProxyInv
<1>1. CASE PollBegin
  BY <1>1, PollBeginStep, FetchUnchanged DEF PollBegin
<1>2. CASE PollReceive
  BY <1>2, PollReceiveStep, FetchUnchanged DEF PollReceive
<1>3. ASSUME NEW a \in Addresses, PollAnswered(a) PROVE ProxyInv'
  BY <1>3, PollAnsweredStep, FetchUnchanged DEF PollAnswered
<1>4. ASSUME NEW a \in Addresses, PollReported(a) PROVE ProxyInv'
  BY <1>4, PollReportedStep, FetchUnchanged DEF PollReported
<1>5. CASE FetchBegin
  BY <1>5, FetchBeginStep, PollUnchanged DEF FetchBegin
<1>6. CASE TakeError
  BY <1>6, TakeErrorStep, PollUnchanged DEF TakeError
<1>7. CASE TakeAnswer
  BY <1>7, TakeAnswerStep, PollUnchanged DEF TakeAnswer
<1>8. ASSUME NEW a \in Addresses, FetchAnswered(a) PROVE ProxyInv'
  BY <1>8, FetchAnsweredStep, PollUnchanged DEF FetchAnswered
<1>9. ASSUME NEW a \in Addresses, SendError(a) PROVE ProxyInv'
  BY <1>9, SendErrorStep, PollUnchanged DEF SendError
<1>10. ASSUME NEW a \in Addresses, SendAnswer(a) PROVE ProxyInv'
  BY <1>10, SendAnswerStep, PollUnchanged DEF SendAnswer
<1>11. CASE CheckPanics
  BY <1>11, CheckPanicsStep, PollUnchanged DEF CheckPanics
<1>12. CASE UNCHANGED vars
  BY <1>12, PollUnchanged, FetchUnchanged DEF vars
<1> QED
  BY <1>1, <1>2, <1>3, <1>4, <1>5, <1>6, <1>7, <1>8, <1>9, <1>10, <1>11, <1>12
     DEF ProxyNext, PollStep, FetchStep

(***************************************************************************)
(* The counts of both loops match the goroutines that have sent (apis.go:  *)
(* 39-61, 104-143, 174-251).                                               *)
(***************************************************************************)
THEOREM ProxyInvariant == ProxySpec => []ProxyInv
  BY ProxyInitInv, ProxyNextInv, PTL DEF ProxySpec

(***************************************************************************)
(* Status and RegisterValidator succeed if and only if an address did, for *)
(* any number of addresses and any order of their answers (apis.go:51-59). *)
(***************************************************************************)
THEOREM OutcomeOfPoll == ProxySpec => []PollOutcome
<1>1. ProxyInv => PollOutcome
  BY DEF ProxyInv, PollInv
<1> QED
  BY <1>1, ProxyInvariant, PTL

(***************************************************************************)
(* At the end every goroutine has sent its answer and none is left in the  *)
(* channel, so that a usable one is in the result unless a request failed. *)
(***************************************************************************)
LEMMA AllTaken ==
    ASSUME FetchInv, fetch.state = "done"
    PROVE  Answered = Addresses /\ Len(fetch.answers) = 0
<1>1. Answered \in SUBSET Addresses
  BY DEF Answered
<1>2. /\ Cardinality(Answered) \in Nat /\ Cardinality(Addresses) \in Nat
      /\ Cardinality(Answered) <= Cardinality(Addresses)
      /\ Cardinality(Answered) = Cardinality(Addresses) => Answered = Addresses
  BY <1>1, CountOf
<1>3. /\ Len(fetch.answers) \in Nat /\ fetch.received \in Nat
      /\ fetch.received + Len(fetch.answers) = Cardinality(Answered)
      /\ fetch.received = Cardinality(Addresses)
  BY DEF FetchInv, FetchType
<1> QED
  BY <1>2, <1>3

(***************************************************************************)
(* GetHeader and GetPayload return usable answers only, each of another    *)
(* address, and all of them when no request failed, however the errors     *)
(* were paired with the answers of other goroutines (apis.go:131-143,      *)
(* 195-251) - unless a payload with too many commitments makes the check   *)
(* panic, which loses them all (apis.go:232-233).                          *)
(***************************************************************************)
THEOREM GoodReturned == ProxySpec => []ReturnedAreGood
<1>1. ProxyInv => ReturnedAreGood
  <2> SUFFICES ASSUME FetchInv PROVE ReturnedAreGood
    BY DEF ProxyInv
  <2>1. fetch.result \in Seq(Answer) /\ DOMAIN fetch.result = 1..Len(fetch.result)
    BY DEF FetchInv, FetchType
  <2>2. \A i \in 1..Len(fetch.result) : fetch.result[i].from \in Good
    BY ReplyAssumption DEF FetchInv, AnswersOwn, OwnReply, Answered, Good
  <2>3. IsInjective(fetch.result)
    BY <2>1 DEF FetchInv, AnswersOwn, IsInjective
  <2>4. From(fetch.result) \subseteq Good
    BY <2>1, <2>2 DEF From
  <2>5. ASSUME fetch.state = "done", NoneFailed
        PROVE  Good \subseteq From(fetch.result)
    <3>1. Good \subseteq Answered /\ Len(fetch.answers) = 0
      BY <2>5, AllTaken DEF Good
    <3>2. \A a \in Good : \E i \in 1..Len(fetch.result) :
              fetch.result[i].from = a
      BY <2>5, <3>1 DEF FetchInv, GoodKept
    <3> QED
      BY <2>1, <3>2 DEF From
  <2>6. fetch.state = "panicked" =>
            /\ fetch.result = <<>>
            /\ \E a \in Addresses : fetch.reply[a] = "overlong"
    BY DEF FetchInv, PanicLoses
  <2> QED
    BY <2>3, <2>4, <2>5, <2>6 DEF ReturnedAreGood, NoneFailed
<1> QED
  BY <1>1, ProxyInvariant, PTL

-----------------------------------------------------------------------------
(***************************************************************************)
(* Why requests end.  A channel has room for one message of each goroutine *)
(* and every goroutine sends one, so that none ever waits for room, also   *)
(* after the loop has gone; and the loop waits only for goroutines that    *)
(* have yet to send.                                                       *)
(***************************************************************************)
NobodyIsStuck ==
    /\ \A a \in Addresses :
          /\ poll.sender[a] = "first" => HasRoom(poll.channel)
          /\ fetch.sender[a] \in {"first", "second"} =>
                HasRoom(IF (fetch.sender[a] = "first") <=> Failed(a)
                        THEN fetch.errors ELSE fetch.answers)
    /\ poll.state = "polling" /\ poll.channel = <<>> =>
          \E a \in Addresses : poll.sender[a] # "done"
    /\ fetch.state = "waiting"
       /\ (IF fetch.taken = {} THEN fetch.errors ELSE fetch.answers) = <<>> =>
          \E a \in Addresses : fetch.sender[a] # "done"

\* the goroutines that have sent their error, or nil
ErrorSent == {a \in Addresses :
    fetch.sender[a] \in IF Failed(a) THEN {"second", "done"} ELSE {"done"}}

\* what each loop has received, and that it ends with the last
LoopInv ==
    /\ poll.state \in {"idle", "polling"} =>
          poll.received < Cardinality(Addresses)
    /\ fetch.state \in {"idle", "waiting"} =>
          fetch.received < Cardinality(Addresses)
    /\ fetch.received + Len(fetch.errors)
          + (IF fetch.taken = {} THEN 0 ELSE 1) = Cardinality(ErrorSent)

LEMMA PollLoopStep ==
    ASSUME ProxyInv, LoopInv, PollStep
    PROVE  LoopInv'
<1>1. fetch' = fetch
  BY DEF PollStep, PollBegin, PollReceive, PollAnswered, PollReported
<1>2. /\ poll'.state = poll.state \/ poll.state = "idle"
         \/ poll'.state \in {"ok", "error"} \/ PollReceive
      /\ poll'.received = poll.received \/ PollReceive
  BY DEF PollStep, PollBegin, PollAnswered, PollReported, ProxyInv, PollInv,
     PollType
<1>3. CASE PollReceive
  <2> DEFINE m == Head(poll.channel)
             last == poll.received + 1 = Cardinality(Addresses)
  <2>1. /\ poll.state = "polling" /\ poll'.received = poll.received + 1
        /\ poll'.state = IF m = "ok" \/ last THEN m ELSE poll.state
    BY <1>3 DEF PollReceive, ProxyInv, PollInv, PollType
  <2>2. m \in {"ok", "error"}
    BY <1>3 DEF PollReceive, ProxyInv, PollInv, PollType
  <2>3. poll'.state \in {"idle", "polling"} => ~ last
    BY <2>1, <2>2
  <2>4. poll.received \in Nat /\ Cardinality(Addresses) \in Nat
    BY AddressesFinite, FS_CardinalityType DEF ProxyInv, PollInv, PollType
  <2>5. poll'.state \in {"idle", "polling"} =>
           poll'.received < Cardinality(Addresses)
    BY <2>1, <2>3, <2>4 DEF LoopInv
  <2> QED
    BY <1>1, <2>5 DEF LoopInv, ErrorSent, Failed
<1> QED
  BY <1>1, <1>2, <1>3 DEF LoopInv, ErrorSent, Failed

LEMMA FetchLoopStep ==
    ASSUME ProxyInv, LoopInv, FetchStep
    PROVE  LoopInv'
<1>1. /\ poll' = poll /\ FetchType /\ ErrorSent \in SUBSET Addresses
      /\ fetch.received \in Nat /\ Len(fetch.errors) \in Nat
      /\ fetch.errors \in Seq({"error", "nil"})
      /\ Cardinality(ErrorSent) \in Nat /\ Cardinality(Addresses) \in Nat
  <2>1. ErrorSent \in SUBSET Addresses
    BY DEF ErrorSent
  <2>2. poll' = poll
    BY DEF FetchStep, FetchBegin, FetchAnswered, SendError, SendAnswer,
       TakeError, TakeAnswer, CheckPanics
  <2>3. /\ FetchType /\ fetch.received \in Nat
        /\ fetch.errors \in Seq({"error", "nil"})
    BY DEF ProxyInv, FetchInv, FetchType
  <2> QED
    BY <2>1, <2>2, <2>3, CountOf
<1>2. CASE FetchBegin
  <2>1. /\ fetch'.sender = fetch.sender /\ fetch'.reply = fetch.reply
        /\ fetch'.errors = fetch.errors /\ fetch'.taken = fetch.taken
        /\ fetch'.received = fetch.received /\ fetch.state = "idle"
    BY <1>1, <1>2 DEF FetchBegin, FetchType
  <2> QED
    BY <1>1, <2>1 DEF LoopInv, ErrorSent, Failed
<1>3. ASSUME NEW a \in Addresses, FetchAnswered(a) PROVE LoopInv'
  <2>1. /\ fetch'.errors = fetch.errors /\ fetch'.taken = fetch.taken
        /\ fetch'.received = fetch.received /\ fetch'.state = fetch.state
        /\ fetch.sender[a] = "asking" /\ fetch'.sender[a] = "first"
        /\ \A b \in Addresses \ {a} : /\ fetch'.sender[b] = fetch.sender[b]
                                      /\ fetch'.reply[b] = fetch.reply[b]
    BY <1>1, <1>3 DEF FetchAnswered, FetchType
  <2>2. ErrorSent' = ErrorSent
    BY <2>1 DEF ErrorSent, Failed
  <2> QED
    BY <1>1, <2>1, <2>2 DEF LoopInv
<1>4. ASSUME NEW a \in Addresses, SendError(a) PROVE LoopInv'
  <2> DEFINE error == IF Failed(a) THEN "error" ELSE "nil"
             after == IF Failed(a) THEN "second" ELSE "done"
  <2>1. /\ fetch.sender[a] = (IF Failed(a) THEN "first" ELSE "second")
        /\ fetch' = [fetch EXCEPT !.errors = Append(@, error),
                                  !.sender[a] = after]
    BY <1>4 DEF SendError
  <2>2. /\ fetch'.errors = Append(fetch.errors, error)
        /\ fetch'.taken = fetch.taken /\ fetch'.reply = fetch.reply
        /\ fetch'.received = fetch.received /\ fetch'.state = fetch.state
        /\ \A b \in Addresses : fetch'.sender[b] =
                                   IF b = a THEN after ELSE fetch.sender[b]
    BY <1>1, <2>1 DEF FetchType
  <2>3. ErrorSent' = ErrorSent \cup {a} /\ a \notin ErrorSent
    BY <2>1, <2>2 DEF ErrorSent, Failed
  <2>4. Cardinality(ErrorSent') = Cardinality(ErrorSent) + 1
    BY <1>1, <2>3, OneMore
  <2>5. Len(fetch'.errors) = Len(fetch.errors) + 1
    BY <1>1, <2>2
  <2> QED
    BY <1>1, <2>2, <2>4, <2>5 DEF LoopInv
<1>5. ASSUME NEW a \in Addresses, SendAnswer(a) PROVE LoopInv'
  <2> DEFINE after == IF Failed(a) THEN "done" ELSE "second"
  <2>1. fetch.sender[a] = IF Failed(a) THEN "second" ELSE "first"
    BY <1>5 DEF SendAnswer
  <2>2. /\ fetch'.errors = fetch.errors
        /\ fetch'.taken = fetch.taken /\ fetch'.reply = fetch.reply
        /\ fetch'.received = fetch.received /\ fetch'.state = fetch.state
        /\ \A b \in Addresses : fetch'.sender[b] =
                                   IF b = a THEN after ELSE fetch.sender[b]
    BY <1>1, <1>5 DEF SendAnswer, FetchType
  <2>3. ErrorSent' = ErrorSent
    BY <2>1, <2>2 DEF ErrorSent, Failed
  <2> QED
    BY <1>1, <2>2, <2>3 DEF LoopInv
<1>6. CASE TakeError
  <2>1. /\ fetch.taken = {} /\ fetch.errors # <<>>
        /\ fetch'.taken = {Head(fetch.errors)}
        /\ fetch'.errors = Tail(fetch.errors)
        /\ fetch'.sender = fetch.sender /\ fetch'.reply = fetch.reply
        /\ fetch'.received = fetch.received /\ fetch'.state = fetch.state
    BY <1>1, <1>6 DEF TakeError, FetchType
  <2>2. /\ Len(fetch'.errors) = Len(fetch.errors) - 1
        /\ fetch'.taken # {}
    BY <1>1, <2>1
  <2>3. ErrorSent' = ErrorSent
    BY <2>1 DEF ErrorSent, Failed
  <2>4. fetch'.received + Len(fetch'.errors)
           + (IF fetch'.taken = {} THEN 0 ELSE 1) = Cardinality(ErrorSent')
    <3>1. fetch.received + Len(fetch.errors) = Cardinality(ErrorSent)
      BY <1>1, <2>1 DEF LoopInv
    <3>2. fetch'.received + Len(fetch'.errors) + 1
             = fetch.received + Len(fetch.errors)
      BY <1>1, <2>1, <2>2
    <3> QED
      BY <2>2, <2>3, <3>1, <3>2
  <2> QED
    BY <1>1, <2>1, <2>4 DEF LoopInv
<1>7. CASE TakeAnswer
  <2> DEFINE last == fetch.received + 1 = Cardinality(Addresses)
  <2>1. /\ fetch.taken # {} /\ fetch'.taken = {}
        /\ fetch'.errors = fetch.errors
        /\ fetch'.sender = fetch.sender /\ fetch'.reply = fetch.reply
        /\ fetch'.received = fetch.received + 1
        /\ fetch'.state = IF last THEN "done" ELSE fetch.state
    BY <1>1, <1>7 DEF TakeAnswer, FetchType
  <2>2. ErrorSent' = ErrorSent
    BY <2>1 DEF ErrorSent, Failed
  <2>3. fetch'.state \in {"idle", "waiting"} =>
            fetch'.received < Cardinality(Addresses)
    BY <1>1, <2>1 DEF LoopInv
  <2> QED
    BY <1>1, <2>1, <2>2, <2>3 DEF LoopInv
<1>8. CASE CheckPanics
  <2>1. /\ fetch.taken # {} /\ fetch'.taken = {}
        /\ fetch'.errors = fetch.errors
        /\ fetch'.sender = fetch.sender /\ fetch'.reply = fetch.reply
        /\ fetch'.received = fetch.received + 1
        /\ fetch'.state = "panicked"
    BY <1>1, <1>8 DEF CheckPanics, Overruns, FetchType
  <2>2. ErrorSent' = ErrorSent
    BY <2>1 DEF ErrorSent, Failed
  <2> QED
    BY <1>1, <2>1, <2>2 DEF LoopInv
<1> QED
  BY <1>2, <1>3, <1>4, <1>5, <1>6, <1>7, <1>8 DEF FetchStep

LEMMA LoopImplies == ProxyInv /\ LoopInv => NobodyIsStuck
<1> SUFFICES ASSUME ProxyInv, LoopInv PROVE NobodyIsStuck
  OBVIOUS
<1> DEFINE N == Cardinality(Addresses)
<1>1. /\ Reported \in SUBSET Addresses /\ Answered \in SUBSET Addresses
      /\ ErrorSent \in SUBSET Addresses
  BY DEF Reported, Answered, ErrorSent
<1>2. \A S \in SUBSET Addresses :
         /\ Cardinality(S) \in Nat /\ N \in Nat /\ Cardinality(S) <= N
         /\ Cardinality(S) = N => S = Addresses
  BY CountOf
<1>3. /\ poll.received \in Nat /\ Len(poll.channel) \in Nat
      /\ poll.received + Len(poll.channel) = Cardinality(Reported)
      /\ fetch.received \in Nat /\ Len(fetch.answers) \in Nat
      /\ fetch.received + Len(fetch.answers) = Cardinality(Answered)
      /\ Len(fetch.errors) \in Nat
      /\ fetch.received + Len(fetch.errors)
            + (IF fetch.taken = {} THEN 0 ELSE 1) = Cardinality(ErrorSent)
  BY DEF ProxyInv, PollInv, PollType, FetchInv, FetchType, LoopInv
<1> HIDE DEF N
<1>4. ASSUME NEW S \in SUBSET Addresses, NEW a \in Addresses \ S
      PROVE  Cardinality(S) < N
  BY <1>2
<1>5. ASSUME NEW a \in Addresses
      PROVE  /\ poll.sender[a] = "first" => Len(poll.channel) < N
             /\ fetch.sender[a] \in {"first", "second"} =>
                   IF (fetch.sender[a] = "first") <=> Failed(a)
                   THEN Len(fetch.errors) < N ELSE Len(fetch.answers) < N
  <2>1. ASSUME a \notin Reported PROVE Len(poll.channel) < N
    <3>1. Cardinality(Reported) < N
      BY <1>1, <1>4, <2>1
    <3> QED
      BY <1>1, <1>2, <1>3, <3>1
  <2>2. ASSUME a \notin ErrorSent PROVE Len(fetch.errors) < N
    <3>1. Cardinality(ErrorSent) < N
      BY <1>1, <1>4, <2>2
    <3> QED
      BY <1>1, <1>2, <1>3, <3>1
  <2>3. ASSUME a \notin Answered PROVE Len(fetch.answers) < N
    <3>1. Cardinality(Answered) < N
      BY <1>1, <1>4, <2>3
    <3> QED
      BY <1>1, <1>2, <1>3, <3>1
  <2>4. poll.sender[a] = "first" => a \notin Reported
    BY DEF Reported
  <2>5. fetch.sender[a] \in {"first", "second"} =>
           IF (fetch.sender[a] = "first") <=> Failed(a)
           THEN a \notin ErrorSent ELSE a \notin Answered
    BY DEF ErrorSent, Answered
  <2> QED
    BY <2>1, <2>2, <2>3, <2>4, <2>5
<1>6. ASSUME poll.state = "polling", poll.channel = <<>>
      PROVE  \E a \in Addresses : poll.sender[a] # "done"
  <2>1. Cardinality(Reported) < N
    BY <1>3, <1>6 DEF LoopInv, N
  <2>2. Reported # Addresses
    BY <1>2, <2>1 DEF N
  <2> QED
    BY <2>2 DEF Reported
<1>7. ASSUME fetch.state = "waiting",
             (IF fetch.taken = {} THEN fetch.errors ELSE fetch.answers) = <<>>
      PROVE  \E a \in Addresses : fetch.sender[a] # "done"
  <2>1. Cardinality(ErrorSent) < N \/ Cardinality(Answered) < N
    BY <1>3, <1>7 DEF LoopInv, N
  <2>2. ErrorSent # Addresses \/ Answered # Addresses
    BY <1>2, <2>1 DEF N
  <2> QED
    BY <2>2 DEF ErrorSent, Answered
<1> QED
  BY <1>5, <1>6, <1>7 DEF NobodyIsStuck, HasRoom, N

(***************************************************************************)
(* No goroutine of a request ever waits for room in a channel, whenever    *)
(* the loop stops receiving, and no loop waits for a message that nobody   *)
(* is to send (apis.go:39-61, 104-143, 174-251): all that can keep a       *)
(* request is an address that does not answer.  There are addresses: a     *)
(* proxy without them excludes itself in Start (service.go:119).           *)
(***************************************************************************)
THEOREM NobodyStuck == Addresses # {} /\ ProxySpec => []NobodyIsStuck
<1>1. Addresses # {} /\ ProxyInit => LoopInv
  <2> SUFFICES ASSUME Addresses # {}, ProxyInit PROVE LoopInv
    OBVIOUS
  <2>1. ErrorSent = {} /\ Cardinality({}) = 0
    BY FS_EmptySet DEF ProxyInit, ErrorSent, Failed
  <2>2. Cardinality(Addresses) \in Nat \ {0}
    BY AddressesFinite, FS_CardinalityType, FS_EmptySet
  <2>3. /\ poll.received = 0 /\ fetch.received = 0 /\ fetch.taken = {}
        /\ fetch.errors = <<>>
    BY DEF ProxyInit
  <2> QED
    BY <2>1, <2>2, <2>3 DEF LoopInv
<1>2. ProxyInv /\ LoopInv /\ [ProxyNext]_vars => LoopInv'
  <2>1. CASE UNCHANGED vars
    BY <2>1 DEF vars, LoopInv, ErrorSent, Failed
  <2> QED
    BY <2>1, PollLoopStep, FetchLoopStep DEF ProxyNext
<1> QED
  BY <1>1, <1>2, ProxyInvariant, LoopImplies, PTL DEF ProxySpec
=============================================================================
