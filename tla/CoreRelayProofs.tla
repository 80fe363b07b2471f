--------------------------- MODULE CoreRelayProofs --------------------------
(***************************************************************************)
(* What the bus does with calls and notifications, for any modules, any    *)
(* jobs they have for each other and channels of any size: who serves      *)
(* them, who answers them, and that they are calls as Rpc describes them.  *)
(***************************************************************************)
EXTENDS CoreRelay, FiniteSetTheorems, SequenceTheorems, TLAPS

(***************************************************************************)
(* RelayComms delivers a message to oneself twice (core.go:308, 328), so   *)
(* that what follows is about modules that only talk to each other.        *)
(***************************************************************************)
NobodyCallsItself == \A j \in Jobs : Job[j].to # Job[j].from

Message == [id : Nat, ns : Modules \cup {Core, NoModule}, suffix : BOOLEAN,
            origin : Modules \cup {NoModule}, all : BOOLEAN,
            excl : SUBSET Modules, job : Jobs,
            by : Modules \cup {Core, NoModule}]

Delivery == Modules \X Message

BusType ==
    /\ outgoing \in [Modules -> Seq(Message)]
    /\ incoming \in [Modules -> Seq(Message)]
    /\ relay \in [Modules -> [todo : Seq(Delivery), copies : SUBSET Delivery]]
    /\ nextId \in [Modules -> Nat]
    /\ tasks \in [Modules -> SUBSET [msg : Message, no : Nat]]
    /\ issued \in SUBSET Jobs
    /\ DOMAIN answered \in SUBSET issued
    /\ runs \in [Modules -> [Jobs -> Nat]]
    /\ DOMAIN respWait = Modules
    /\ \A m \in Modules : DOMAIN respWait[m] \in SUBSET Nat

-----------------------------------------------------------------------------
(***************************************************************************)
(* The five kinds of messages there are: a request as its sender made it,  *)
(* its copies for notifyAll, the response of the module it names, the      *)
(* error for an unknown module and the answer of the client to that error. *)
(***************************************************************************)
IsRequest(msg) ==
    LET job == Job[msg.job] IN
    /\ msg.ns = job.to /\ msg.suffix = FALSE /\ msg.by = NoModule
    /\ msg.all = job.all
    /\ msg.excl = (IF job.all THEN job.excl ELSE {})
    /\ msg.id = 0 <=> job.notify

IsCopy(msg) ==
    /\ msg.ns = Job[msg.job].to /\ msg.suffix = FALSE /\ msg.by = NoModule
    /\ msg.id = 0 /\ Job[msg.job].all

IsAnswer(msg) ==
    LET job == Job[msg.job] IN
    /\ msg.id # 0 /\ msg.ns = job.to /\ msg.suffix = TRUE /\ msg.by = job.to
    /\ msg.origin = job.from /\ msg.all = FALSE
    /\ job.to \in Modules /\ runs[job.to][msg.job] = 1

IsError(msg) ==
    /\ msg.id # 0 /\ msg.ns = NoModule /\ msg.suffix = FALSE
    /\ msg.by = Core /\ msg.origin = NoModule
    /\ Job[msg.job].to = Core

IsErrorAnswer(msg) ==
    /\ msg.id # 0 /\ msg.ns = NoModule /\ msg.suffix = TRUE
    /\ msg.by \in Modules /\ msg.origin = NoModule /\ msg.all = FALSE
    /\ Job[msg.job].to = Core

(***************************************************************************)
(* A message is of a job that newMessage let pass; one with an id belongs  *)
(* to a call, and its id is registered for no other call of the module     *)
(* that made it.                                                           *)
(***************************************************************************)
OwnId(msg) ==
    LET from == Job[msg.job].from IN
    /\ msg.job \in issued /\ Sendable(msg.job)
    /\ msg.id # 0 =>
          /\ ~ Job[msg.job].notify /\ msg.id <= nextId[from]
          /\ msg.id \in DOMAIN respWait[from] =>
                respWait[from][msg.id] = msg.job

\* the modules that get a copy of the messages of job j
Listeners(j) == Modules \ (Job[j].excl \cup {Job[j].from, Job[j].to})

(***************************************************************************)
(* Which messages are found where.                                         *)
(***************************************************************************)
SoundOut(m, msg) ==
    /\ OwnId(msg)
    /\ \/ IsRequest(msg) /\ m = Job[msg.job].from /\ msg.origin = NoModule
       \/ IsAnswer(msg) /\ m = Job[msg.job].to
       \/ IsErrorAnswer(msg)

SoundTodo(m, d) ==
    /\ OwnId(d[2])
    /\ \/ /\ IsRequest(d[2]) /\ m = Job[d[2].job].from /\ d[2].origin = m
          /\ d[1] = Job[d[2].job].to
       \/ /\ IsAnswer(d[2]) /\ m = Job[d[2].job].to
          /\ d[1] = Job[d[2].job].from
       \/ IsError(d[2])

SoundCopy(m, d) ==
    /\ OwnId(d[2]) /\ IsCopy(d[2])
    /\ m = Job[d[2].job].from /\ d[1] \in Listeners(d[2].job)

SoundServed(m, msg) ==
    /\ OwnId(msg)
    /\ \/ /\ IsRequest(msg) /\ m = Job[msg.job].to
          /\ msg.origin = Job[msg.job].from
       \/ IsCopy(msg) /\ m \in Listeners(msg.job)
       \/ IsError(msg)

SoundIn(m, msg) ==
    \/ SoundServed(m, msg)
    \/ OwnId(msg) /\ IsAnswer(msg) /\ m = Job[msg.job].from

SoundTask(m, t) ==
    /\ SoundServed(m, t.msg)
    /\ HasMethod(t.msg) => runs[m][t.msg.job] = 1

MessagesSound ==
    \A m \in Modules :
        /\ \A i \in 1 .. Len(outgoing[m]) : SoundOut(m, outgoing[m][i])
        /\ Len(relay[m].todo) <= 1
        /\ \A i \in 1 .. Len(relay[m].todo) : SoundTodo(m, relay[m].todo[i])
        /\ \A d \in relay[m].copies : SoundCopy(m, d)
        /\ \A d, e \in relay[m].copies : d[1] = e[1] => d = e
        /\ \A i \in 1 .. Len(incoming[m]) : SoundIn(m, incoming[m][i])
        /\ \A t \in tasks[m] : SoundTask(m, t)

-----------------------------------------------------------------------------
(***************************************************************************)
(* Where a request or a copy of job j is before it is served.              *)
(***************************************************************************)
Asks(msg, j) == msg.job = j /\ msg.by = NoModule

Written(j, i) ==
    /\ i \in 1 .. Len(outgoing[Job[j].from])
    /\ Asks(outgoing[Job[j].from][i], j)

Relayed(j) ==
    /\ relay[Job[j].from].todo # <<>>
    /\ Asks(relay[Job[j].from].todo[1][2], j)

Copied(j, m) ==
    \E d \in relay[Job[j].from].copies : d[1] = m /\ d[2].job = j

Delivered(j, m, i) ==
    i \in 1 .. Len(incoming[m]) /\ Asks(incoming[m][i], j)

(***************************************************************************)
(* It is in one of these places for each module that is to serve it, and   *)
(* in none once that module has begun.                                     *)
(***************************************************************************)
AskedOnce(j) ==
    /\ \A i, k : Written(j, i) /\ Written(j, k) => i = k
    /\ \A i : Written(j, i) =>
          /\ ~ Relayed(j)
          /\ \A m \in Modules : /\ ~ Copied(j, m) /\ runs[m][j] = 0
                                /\ \A k : ~ Delivered(j, m, k)
    /\ \A m \in Modules :
          /\ Copied(j, m) \/ (Relayed(j) /\ m = Job[j].to) =>
                runs[m][j] = 0 /\ \A k : ~ Delivered(j, m, k)
          /\ \A i : Delivered(j, m, i) =>
                m \in Recipients(j) /\ runs[m][j] = 0
          /\ \A i, k : Delivered(j, m, i) /\ Delivered(j, m, k) => i = k
          /\ runs[m][j] <= IF m \in Recipients(j) THEN 1 ELSE 0
          /\ j \notin issued => runs[m][j] = 0

RegisteredSound ==
    \A m \in Modules :
        /\ \A i \in DOMAIN respWait[m] :
              /\ i # 0 /\ i <= nextId[m]
              /\ respWait[m][i] \in issued \ DOMAIN answered
              /\ Job[respWait[m][i]].from = m
        /\ \A i, k \in DOMAIN respWait[m] :
              respWait[m][i] = respWait[m][k] => i = k

AnsweredSound ==
    \A j \in DOMAIN answered :
        /\ answered[j].job = j /\ answered[j].by = Job[j].to
        /\ Job[j].to \in Modules /\ runs[Job[j].to][j] = 1

(***************************************************************************)
(* The inductive invariant of the bus.                                     *)
(***************************************************************************)
BusInv ==
    /\ NobodyCallsItself /\ BusType /\ MessagesSound
    /\ \A j \in Jobs : AskedOnce(j)
    /\ RegisteredSound /\ AnsweredSound

-----------------------------------------------------------------------------
LEMMA HeadTail ==
    ASSUME NEW T, NEW s \in Seq(T), s # <<>>
    PROVE  /\ Head(s) = s[1] /\ Head(s) \in T /\ 1 \in 1 .. Len(s)
           /\ Tail(s) \in Seq(T) /\ Len(Tail(s)) = Len(s) - 1
           /\ Len(s) \in Nat \ {0}
           /\ Len(s) <= 1 => Len(s) = 1 /\ Tail(s) = <<>>
           /\ \A i \in 1 .. Len(Tail(s)) :
                 i + 1 \in 1 .. Len(s) /\ Tail(s)[i] = s[i + 1]
<1>1. Tail(s) \in Seq(T) /\ Len(Tail(s)) = Len(s) - 1 /\ Len(s) \in Nat \ {0}
  OBVIOUS
<1>2. Len(s) <= 1 => Len(s) = 1 /\ Len(Tail(s)) = 0
  BY <1>1
<1>3. Len(Tail(s)) = 0 => Tail(s) = <<>>
  BY <1>1, EmptySeq
<1> QED
  BY <1>1, <1>2, <1>3

LEMMA Appended ==
    ASSUME NEW T, NEW s \in Seq(T), NEW x \in T
    PROVE  /\ Append(s, x) \in Seq(T) /\ Len(Append(s, x)) = Len(s) + 1
           /\ Len(s) \in Nat
           /\ Append(s, x)[Len(s) + 1] = x
           /\ \A i \in 1 .. Len(s) : Append(s, x)[i] = s[i]
           /\ \A i : i \in 1 .. (Len(s) + 1) <=>
                        i \in 1 .. Len(s) \/ i = Len(s) + 1
           /\ Len(s) + 1 \notin 1 .. Len(s)
  OBVIOUS

\* jobs as JobAssumption has them
LEMMA JobFacts ==
    ASSUME NEW j \in Jobs
    PROVE  /\ Job[j].from \in Modules /\ NoModule \notin Modules
           /\ Core \notin Modules /\ NoModule # Core
           /\ Job[j].to \in Modules \cup {Core, NoModule}
           /\ Job[j].excl \subseteq Modules
           /\ Job[j].notify \in BOOLEAN /\ Job[j].all \in BOOLEAN
  BY JobAssumption

(***************************************************************************)
(* What a module makes of a request or an error when it has served it      *)
(* (jsonRPC.go:58-79, handler.go:186-204).                                 *)
(***************************************************************************)
LEMMA ResponseSound ==
    ASSUME NEW m \in Modules, NEW msg \in Message, HasValidID(msg),
           SoundServed(m, msg), HasMethod(msg) => runs[m][msg.job] = 1
    PROVE  /\ ResponseTo(msg, m) \in Message
           /\ SoundOut(m, ResponseTo(msg, m))
           /\ ResponseTo(msg, m).job = msg.job
           /\ ResponseTo(msg, m).by = m /\ ResponseTo(msg, m).id = msg.id
<1> DEFINE r == ResponseTo(msg, m)
<1>1. /\ msg.job \in Jobs /\ msg.id \in Nat
      /\ msg.ns \in Modules \cup {Core, NoModule}
      /\ msg.origin \in Modules \cup {NoModule}
      /\ NoModule \notin Modules /\ Core # NoModule /\ Core \notin Modules
  BY JobAssumption DEF Message
<1>2. msg.suffix = FALSE /\ msg.id # 0 /\ ~ IsCopy(msg)
  BY DEF SoundServed, HasValidID, IsRequest, IsCopy, IsError
<1>3. r = [id |-> msg.id, ns |-> msg.ns, suffix |-> TRUE,
           origin |-> msg.origin, all |-> FALSE, excl |-> {},
           job |-> msg.job, by |-> m]
  BY <1>2 DEF ResponseTo
<1>4. r \in Message
  BY <1>1, <1>3 DEF Message
<1>5. /\ r.id = msg.id /\ r.ns = msg.ns /\ r.suffix = TRUE
      /\ r.origin = msg.origin /\ r.all = FALSE /\ r.job = msg.job /\ r.by = m
  BY <1>3
<1> HIDE DEF r
<1>6. OwnId(r)
  BY <1>5 DEF SoundServed, OwnId
<1>7. ASSUME IsError(msg) PROVE SoundOut(m, r)
  BY <1>7, <1>5, <1>6 DEF IsError, IsErrorAnswer, SoundOut
<1>8. ASSUME IsRequest(msg), m = Job[msg.job].to,
             msg.origin = Job[msg.job].from
      PROVE  SoundOut(m, r)
  <2>1. HasMethod(msg)
    BY <1>8, <1>1 DEF HasMethod, IsRequest
  <2>2. runs[m][msg.job] = 1
    BY <2>1
  <2>3. IsAnswer(r)
    BY <1>8, <1>2, <1>5, <2>2 DEF IsRequest, IsAnswer
  <2> QED
    BY <1>5, <1>6, <1>8, <2>3 DEF SoundOut
<1>9. SoundOut(m, r)
  BY <1>2, <1>7, <1>8 DEF SoundServed
<1> QED
  BY <1>4, <1>5, <1>9 DEF r

(***************************************************************************)
(* The error for a call to no module (core.go:312-327).                    *)
(***************************************************************************)
LEMMA NotFoundSound ==
    ASSUME NEW m \in Modules, NEW s \in Message, IsCall(s), OwnId(s),
           Job[s.job].to = Core
    PROVE  /\ <<m, NotFound(s)>> \in Delivery /\ IsError(NotFound(s))
           /\ SoundTodo(m, <<m, NotFound(s)>>)
           /\ NotFound(s).job = s.job /\ NotFound(s).by = Core
           /\ NotFound(s).id = s.id
<1> DEFINE e == NotFound(s)
<1>1. e = [id |-> s.id, ns |-> NoModule, suffix |-> FALSE,
           origin |-> NoModule, all |-> FALSE, excl |-> {},
           job |-> s.job, by |-> Core]
  BY DEF NotFound, ResponseTo, Message
<1>2. /\ e.id = s.id /\ e.ns = NoModule /\ e.suffix = FALSE
      /\ e.origin = NoModule /\ e.job = s.job /\ e.by = Core
  BY <1>1
<1>3. e \in Message
  BY <1>1 DEF Message
<1> HIDE DEF e
<1>4. IsError(e) /\ OwnId(e)
  BY <1>2 DEF IsError, IsCall, HasValidID, OwnId
<1> QED
  BY <1>2, <1>3, <1>4 DEF SoundTodo, Delivery, e

(***************************************************************************)
(* What a relay makes of a message it takes: at most one delivery, as      *)
(* nobody sends to itself, and the copies (core.go:295-362).               *)
(***************************************************************************)
LEMMA TakenSound ==
    ASSUME NobodyCallsItself, NEW m \in Modules, NEW msg \in Message,
           SoundOut(m, msg), NEW s, s = Stamped(m, msg)
    PROVE  /\ s \in Message /\ s.job = msg.job /\ s.by = msg.by
           /\ s.id = msg.id
           /\ \/ Deliveries(m, s) = <<>>
              \/ \E d \in Delivery : /\ Deliveries(m, s) = <<d>>
                                     /\ SoundTodo(m, d)
                                     /\ d[2].job = msg.job
                                     /\ d[2].by \in {msg.by, Core}
                                     /\ d[2].id = msg.id
           /\ \A o \in Audience(m, s) :
                 /\ Asks(msg, msg.job) /\ m = Job[msg.job].from
                 /\ Job[msg.job].all /\ o \in Listeners(msg.job)
                 /\ CopyOf(s) \in Message /\ CopyOf(s).job = msg.job
                 /\ CopyOf(s).id = 0 /\ SoundCopy(m, <<o, CopyOf(s)>>)
<1> DEFINE Delivering ==
        \/ Deliveries(m, s) = <<>>
        \/ \E d \in Delivery : /\ Deliveries(m, s) = <<d>>
                               /\ SoundTodo(m, d)
                               /\ d[2].job = msg.job
                               /\ d[2].by \in {msg.by, Core}
                               /\ d[2].id = msg.id
<1>1. /\ msg.job \in Jobs /\ OwnId(msg) /\ Job[msg.job].to # Job[msg.job].from
  BY DEF Message, SoundOut, NobodyCallsItself
<1>2. CASE /\ IsRequest(msg) /\ m = Job[msg.job].from
           /\ msg.origin = NoModule
  <2>1. s = [msg EXCEPT !.origin = m]
    BY <1>2 DEF Stamped, IsRequest, IsResponse
  <2>2. /\ s \in Message /\ s.job = msg.job /\ s.by = msg.by
        /\ s.id = msg.id /\ s.ns = msg.ns /\ s.suffix = FALSE
        /\ s.all = msg.all /\ s.excl = msg.excl /\ s.origin = m
    BY <1>2, <2>1 DEF Message, IsRequest
  <2>3. Target(s) = Job[msg.job].to /\ Target(s) # m
    BY <1>1, <1>2, <2>2 DEF Target, IsResponse, IsRequest
  <2>4. OwnId(s) /\ IsRequest(s)
    BY <1>1, <1>2, <2>2 DEF OwnId, IsRequest
  <2>5. ASSUME Target(s) \in Modules PROVE Delivering
    <3> DEFINE d == <<Target(s), s>>
    <3>1. Deliveries(m, s) = <<d>>
      BY <2>3, <2>5 DEF Deliveries
    <3>2. d \in Delivery /\ d[1] = Target(s) /\ d[2] = s
      BY <2>2, <2>5 DEF Delivery
    <3>3. SoundTodo(m, d)
      BY <3>2, <2>2, <2>3, <2>4, <1>2 DEF SoundTodo
    <3> QED
      BY <3>1, <3>2, <3>3, <2>2
  <2>6. ASSUME Target(s) \notin Modules, IsCall(s) PROVE Delivering
    <3>1. Deliveries(m, s) = <<<<m, NotFound(s)>>>>
      BY <2>3, <2>6 DEF Deliveries
    <3>2. Job[s.job].to = Core
      BY <2>2, <2>3, <2>4, <2>6, <1>1, JobFacts
      DEF IsCall, HasMethod, IsRequest
    <3> QED
      BY <3>1, <3>2, <2>2, <2>4, <2>6, NotFoundSound
  <2>7. ASSUME Target(s) \notin Modules, ~ IsCall(s) PROVE Delivering
    BY <2>3, <2>7 DEF Deliveries
  <2>8. ASSUME NEW o \in Audience(m, s)
        PROVE  /\ Job[msg.job].all /\ o \in Listeners(msg.job)
               /\ CopyOf(s) \in Message /\ CopyOf(s).job = msg.job
               /\ CopyOf(s).id = 0 /\ SoundCopy(m, <<o, CopyOf(s)>>)
    <3> DEFINE c == CopyOf(s)
    <3>1. /\ s.all /\ o \in Modules \ ({m, Target(s)} \cup s.excl)
      BY DEF Audience
    <3>2. Job[msg.job].all /\ s.excl = Job[msg.job].excl
      BY <3>1, <2>2, <2>4 DEF IsRequest
    <3>3. o \in Listeners(msg.job)
      BY <3>1, <3>2, <2>3, <1>2 DEF Listeners
    <3>4. /\ c \in Message /\ c.job = msg.job /\ c.id = 0 /\ c.by = s.by
          /\ c.ns = s.ns /\ c.suffix = s.suffix
      BY <2>2, JobAssumption DEF CopyOf, Message
    <3> HIDE DEF c
    <3>5. IsCopy(c) /\ OwnId(c)
      BY <3>2, <3>4, <2>2, <2>4 DEF IsCopy, IsRequest, OwnId
    <3> QED
      BY <3>2, <3>3, <3>4, <3>5, <1>2 DEF SoundCopy, c
  <2>9. Asks(msg, msg.job)
    BY <1>2 DEF Asks, IsRequest
  <2>10. Delivering
    BY <2>5, <2>6, <2>7
  <2> QED
    BY <2>2, <2>8, <2>9, <2>10, <1>2
<1>3. CASE IsAnswer(msg) /\ m = Job[msg.job].to
  <2>1. s = msg /\ Target(s) = Job[msg.job].from /\ IsResponse(s)
    BY <1>3 DEF Stamped, IsAnswer, IsResponse, HasValidID, Target
  <2>2. Target(s) \in Modules /\ Target(s) # m
    BY <1>1, <1>3, <2>1, JobFacts
  <2>3. Audience(m, s) = {}
    BY <2>1, <1>3 DEF Audience, IsAnswer
  <2> DEFINE d == <<Target(s), s>>
  <2>4. Deliveries(m, s) = <<d>>
    BY <2>2 DEF Deliveries
  <2>5. d \in Delivery /\ d[1] = Target(s) /\ d[2] = s
    BY <2>1, <2>2 DEF Delivery
  <2>6. SoundTodo(m, d)
    BY <2>1, <2>5, <1>1, <1>3 DEF SoundTodo
  <2> QED
    BY <2>1, <2>3, <2>4, <2>5, <2>6
<1>4. CASE IsErrorAnswer(msg)
  <2>1. /\ s = msg /\ Target(s) \notin Modules /\ Target(s) # m /\ IsCall(s)
    BY <1>4, JobAssumption DEF Stamped, IsErrorAnswer, IsResponse, HasValidID,
       Target, IsCall, HasMethod
  <2>2. Audience(m, s) = {}
    BY <2>1, <1>4 DEF Audience, IsErrorAnswer
  <2>3. Deliveries(m, s) = <<<<m, NotFound(s)>>>>
    BY <2>1 DEF Deliveries
  <2> QED
    BY <2>1, <2>2, <2>3, <1>1, <1>4, NotFoundSound DEF IsErrorAnswer
<1> QED
  BY <1>2, <1>3, <1>4 DEF SoundOut

-----------------------------------------------------------------------------
(***************************************************************************)
(* A step that loses no id, registers none for another call and takes no   *)
(* run back leaves every message sound where it is.                        *)
(***************************************************************************)
LEMMA StaysSound ==
    ASSUME \A msg \in Message : OwnId(msg) => OwnId(msg)',
           \A m \in Modules, j \in Jobs : runs[m][j] = 1 => runs'[m][j] = 1
    PROVE  /\ \A m \in Modules, msg \in Message :
                 /\ SoundOut(m, msg) => SoundOut(m, msg)'
                 /\ SoundServed(m, msg) => SoundServed(m, msg)'
                 /\ SoundIn(m, msg) => SoundIn(m, msg)'
           /\ \A m \in Modules, d \in Delivery :
                 /\ SoundTodo(m, d) => SoundTodo(m, d)'
                 /\ SoundCopy(m, d) => SoundCopy(m, d)'
           /\ \A m \in Modules, t \in [msg : Message, no : Nat] :
                 SoundTask(m, t) => SoundTask(m, t)'
<1>1. \A msg \in Message : IsAnswer(msg) => IsAnswer(msg)'
  BY DEF IsAnswer, Message
<1>2. \A d \in Delivery : d[2] \in Message
  BY DEF Delivery
<1>3. \A m \in Modules, msg \in Message :
          /\ SoundOut(m, msg) => SoundOut(m, msg)'
          /\ SoundServed(m, msg) => SoundServed(m, msg)'
          /\ SoundIn(m, msg) => SoundIn(m, msg)'
  BY <1>1 DEF SoundOut, SoundServed, SoundIn
<1>4. \A m \in Modules, d \in Delivery :
          /\ SoundTodo(m, d) => SoundTodo(m, d)'
          /\ SoundCopy(m, d) => SoundCopy(m, d)'
  BY <1>1, <1>2 DEF SoundTodo, SoundCopy
<1>5. \A m \in Modules, t \in [msg : Message, no : Nat] :
          SoundTask(m, t) => SoundTask(m, t)'
  BY <1>3 DEF SoundTask, Message
<1> QED
  BY <1>3, <1>4, <1>5

(***************************************************************************)
(* A step that only removes requests, those in front of it from a channel, *)
(* and begins no execution, keeps AskedOnce.                               *)
(***************************************************************************)
LEMMA StaysOnce ==
    ASSUME NEW j \in Jobs, AskedOnce(j),
           NEW w \in Nat, NEW f \in [Modules -> Nat],
           \A i : Written(j, i)' => i \in Nat /\ Written(j, i + w),
           Relayed(j)' => Relayed(j),
           \A m \in Modules :
              /\ Copied(j, m)' => Copied(j, m)
              /\ \A i : Delivered(j, m, i)' =>
                           i \in Nat /\ Delivered(j, m, i + f[m])
              /\ runs'[m][j] = runs[m][j],
           j \in issued => j \in issued'
    PROVE  AskedOnce(j)'
  BY DEF AskedOnce

\* Types, for the places a message is in.
LEMMA PlaceTypes ==
    ASSUME BusType, NEW m \in Modules
    PROVE  /\ outgoing[m] \in Seq(Message) /\ incoming[m] \in Seq(Message)
           /\ relay[m].todo \in Seq(Delivery)
           /\ relay[m].copies \subseteq Delivery
           /\ \A i \in 1 .. Len(outgoing[m]) : outgoing[m][i] \in Message
           /\ \A i \in 1 .. Len(incoming[m]) : incoming[m][i] \in Message
           /\ \A i \in 1 .. Len(relay[m].todo) : relay[m].todo[i] \in Delivery
           /\ tasks[m] \subseteq [msg : Message, no : Nat]
           /\ \A j \in Jobs : runs[m][j] \in Nat
  BY DEF BusType

(***************************************************************************)
(* Messages stay sound if each of them was where it is, or is sound there  *)
(* now.                                                                    *)
(***************************************************************************)
WereThere(m) ==
    /\ \A i \in 1 .. Len(outgoing'[m]) :
          \/ \E k \in 1 .. Len(outgoing[m]) : outgoing'[m][i] = outgoing[m][k]
          \/ \E msg : outgoing'[m][i] = msg /\ SoundOut(m, msg)'
    /\ \A i \in 1 .. Len(incoming'[m]) :
          \/ \E k \in 1 .. Len(incoming[m]) : incoming'[m][i] = incoming[m][k]
          \/ \E msg : incoming'[m][i] = msg /\ SoundIn(m, msg)'
    /\ \A t \in tasks'[m] : t \in tasks[m] \/ SoundTask(m, t)'

WereRelayed(m) ==
    /\ Len(relay'[m].todo) <= 1
    /\ \A i \in 1 .. Len(relay'[m].todo) :
          \/ /\ i \in 1 .. Len(relay[m].todo)
             /\ relay'[m].todo[i] = relay[m].todo[i]
          \/ \E d : relay'[m].todo[i] = d /\ SoundTodo(m, d)'
    /\ \A d \in relay'[m].copies :
          d \in relay[m].copies \/ SoundCopy(m, d)'
    /\ \A d, e \in relay'[m].copies : d[1] = e[1] => d = e

LEMMA MessagesStaySound ==
    ASSUME BusInv,
           \A msg \in Message : OwnId(msg) => OwnId(msg)',
           \A m \in Modules, j \in Jobs : runs[m][j] = 1 => runs'[m][j] = 1,
           \A m \in Modules : WereThere(m) /\ WereRelayed(m)
    PROVE  MessagesSound'
<1>1. /\ \A m \in Modules, msg \in Message :
            /\ SoundOut(m, msg) => SoundOut(m, msg)'
            /\ SoundIn(m, msg) => SoundIn(m, msg)'
      /\ \A m \in Modules, d \in Delivery :
            /\ SoundTodo(m, d) => SoundTodo(m, d)'
            /\ SoundCopy(m, d) => SoundCopy(m, d)'
      /\ \A m \in Modules, t \in [msg : Message, no : Nat] :
            SoundTask(m, t) => SoundTask(m, t)'
  BY StaysSound
<1>2. BusType /\ MessagesSound
  BY DEF BusInv
<1> SUFFICES ASSUME NEW m \in Modules
             PROVE
        /\ (\A i \in 1 .. Len(outgoing[m]) : SoundOut(m, outgoing[m][i]))'
        /\ (\A i \in 1 .. Len(relay[m].todo) : SoundTodo(m, relay[m].todo[i]))'
        /\ (\A d \in relay[m].copies : SoundCopy(m, d))'
        /\ (\A i \in 1 .. Len(incoming[m]) : SoundIn(m, incoming[m][i]))'
        /\ (\A t \in tasks[m] : SoundTask(m, t))'
  BY DEF MessagesSound, WereRelayed
<1>3. (\A i \in 1 .. Len(outgoing[m]) : SoundOut(m, outgoing[m][i]))'
  BY <1>1, <1>2, PlaceTypes DEF MessagesSound, WereThere
<1>4. (\A i \in 1 .. Len(relay[m].todo) : SoundTodo(m, relay[m].todo[i]))'
  BY <1>1, <1>2, PlaceTypes DEF MessagesSound, WereRelayed
<1>5. (\A d \in relay[m].copies : SoundCopy(m, d))'
  BY <1>1, <1>2, PlaceTypes DEF MessagesSound, WereRelayed
<1>6. (\A i \in 1 .. Len(incoming[m]) : SoundIn(m, incoming[m][i]))'
  BY <1>1, <1>2, PlaceTypes DEF MessagesSound, WereThere
<1>7. (\A t \in tasks[m] : SoundTask(m, t))'
  BY <1>1, <1>2, PlaceTypes DEF MessagesSound, WereThere
<1> QED
  BY <1>3, <1>4, <1>5, <1>6, <1>7

(***************************************************************************)
(* A goroutine that serves ends, and writes the response (handler.go:175-  *)
(* 236).                                                                   *)
(***************************************************************************)
LEMMA ServeStep ==
    ASSUME BusInv, NEW m \in Modules, NEW t \in tasks[m], Serve(m, t)
    PROVE  BusInv'
<1> DEFINE r == ResponseTo(t.msg, m)
<1>1. /\ t.msg \in Message /\ SoundTask(m, t) /\ BusType
      /\ tasks' = [tasks EXCEPT ![m] = @ \ {t}]
      /\ UNCHANGED <<incoming, relay, nextId, respWait, issued, answered,
                     runs>>
      /\ \/ outgoing' = outgoing
         \/ HasValidID(t.msg) /\ outgoing' = Put(outgoing, m, r)
  BY PlaceTypes DEF BusInv, MessagesSound, Serve
<1>2. HasValidID(t.msg) =>
          r \in Message /\ SoundOut(m, r) /\ r.job = t.msg.job /\ r.by = m
  BY <1>1, ResponseSound DEF SoundTask
<1> HIDE DEF r
<1>3. /\ outgoing' \in [Modules -> Seq(Message)]
      /\ \A n \in Modules : \A i \in 1 .. Len(outgoing'[n]) :
            \/ i \in 1 .. Len(outgoing[n]) /\ outgoing'[n][i] = outgoing[n][i]
            \/ n = m /\ outgoing'[n][i] = r /\ HasValidID(t.msg)
  <2>1. CASE outgoing' = outgoing
    BY <2>1, <1>1 DEF BusType
  <2>2. CASE HasValidID(t.msg) /\ outgoing' = Put(outgoing, m, r)
    <3>1. /\ outgoing'[m] = Append(outgoing[m], r)
          /\ \A n \in Modules \ {m} : outgoing'[n] = outgoing[n]
          /\ Append(outgoing[m], r) \in Seq(Message)
          /\ outgoing' \in [Modules -> Seq(Message)]
      BY <2>2, <1>1, <1>2, PlaceTypes, Appended DEF Put, BusType
    <3>2. \A i \in 1 .. Len(outgoing'[m]) :
              \/ /\ i \in 1 .. Len(outgoing[m])
                 /\ outgoing'[m][i] = outgoing[m][i]
              \/ outgoing'[m][i] = r
      BY <3>1, <2>2, <1>1, <1>2, PlaceTypes, Appended
    <3> QED
      BY <2>2, <3>1, <3>2
  <2> QED
    BY <1>1, <2>1, <2>2
<1>4. tasks' \in [Modules -> SUBSET [msg : Message, no : Nat]]
      /\ \A n \in Modules : tasks'[n] \subseteq tasks[n]
  BY <1>1 DEF BusType
<1>5. BusType'
  BY <1>1, <1>3, <1>4 DEF BusType
<1>6. \A msg \in Message : OwnId(msg) => OwnId(msg)'
  BY <1>1 DEF OwnId
<1>7. MessagesSound'
  <2>1. HasValidID(t.msg) => SoundOut(m, r)'
    <3>1. \A msg \in Message : SoundOut(m, msg) => SoundOut(m, msg)'
      BY <1>1, <1>6, StaysSound
    <3> QED
      BY <3>1, <1>2
  <2>2. ASSUME NEW n \in Modules PROVE WereThere(n)
    BY <1>1, <1>3, <1>4, <2>1 DEF WereThere
  <2>3. ASSUME NEW n \in Modules PROVE WereRelayed(n)
    BY <1>1 DEF WereRelayed, BusInv, MessagesSound
  <2> QED
    BY <1>1, <1>6, <2>2, <2>3, MessagesStaySound
<1>8. ASSUME NEW j \in Jobs PROVE AskedOnce(j)'
  <2> DEFINE f == [n \in Modules |-> 0]
  <2>1. \A i : Written(j, i)' => i \in Nat /\ Written(j, i + 0)
    BY <1>1, <1>2, <1>3, JobFacts DEF Written, Asks
  <2>2. AskedOnce(j) /\ f \in [Modules -> Nat]
    BY DEF BusInv
  <2>3. \A n \in Modules : \A i : Delivered(j, n, i)' =>
            i \in Nat /\ Delivered(j, n, i + f[n])
    BY <1>1 DEF Delivered
  <2>4. (Relayed(j)' <=> Relayed(j)) /\ \A n : Copied(j, n)' <=> Copied(j, n)
    BY <1>1 DEF Relayed, Copied
  <2> HIDE DEF f
  <2> QED
    BY <2>1, <2>2, <2>3, <2>4, <1>1, StaysOnce
<1>9. RegisteredSound' /\ AnsweredSound'
  BY <1>1 DEF BusInv, RegisteredSound, AnsweredSound
<1> QED
  BY <1>5, <1>7, <1>8, <1>9 DEF BusInv, NobodyCallsItself

(***************************************************************************)
(* What a module has to receive is put into its channel.                   *)
(***************************************************************************)
LEMMA PutSound ==
    ASSUME BusType, NEW n \in Modules, NEW msg \in Message,
           incoming' = Put(incoming, n, msg)
    PROVE  /\ incoming' \in [Modules -> Seq(Message)]
           /\ \A m \in Modules : \A i \in 1 .. Len(incoming'[m]) :
                 \/ i \in 1 .. Len(incoming[m])
                    /\ incoming'[m][i] = incoming[m][i]
                 \/ m = n /\ i = Len(incoming[n]) + 1 /\ incoming'[m][i] = msg
<1>1. /\ incoming'[n] = Append(incoming[n], msg)
      /\ \A m \in Modules \ {n} : incoming'[m] = incoming[m]
      /\ Append(incoming[n], msg) \in Seq(Message)
      /\ incoming' \in [Modules -> Seq(Message)]
  BY PlaceTypes, Appended DEF Put, BusType
<1>2. \A i \in 1 .. Len(incoming'[n]) :
          \/ i \in 1 .. Len(incoming[n]) /\ incoming'[n][i] = incoming[n][i]
          \/ i = Len(incoming[n]) + 1 /\ incoming'[n][i] = msg
  BY <1>1, PlaceTypes, Appended
<1> QED
  BY <1>1, <1>2

(***************************************************************************)
(* The relay puts the message into the channel of its target (core.go:305- *)
(* 329).                                                                   *)
(***************************************************************************)
LEMMA DeliverStep ==
    ASSUME BusInv, NEW m \in Modules, RelayDeliver(m)
    PROVE  BusInv'
<1> DEFINE d == relay[m].todo[1]
           n == d[1]
           msg == d[2]
<1>1. /\ BusType /\ relay[m].todo \in Seq(Delivery) /\ relay[m].todo # <<>>
      /\ Head(relay[m].todo) = d /\ d \in Delivery
      /\ Len(relay[m].todo) = 1 /\ Tail(relay[m].todo) = <<>>
      /\ SoundTodo(m, d)
  <2>1. /\ BusType /\ relay[m].todo \in Seq(Delivery) /\ relay[m].todo # <<>>
        /\ Len(relay[m].todo) <= 1
        /\ \A i \in 1 .. Len(relay[m].todo) : SoundTodo(m, relay[m].todo[i])
    BY PlaceTypes DEF BusInv, MessagesSound, RelayDeliver
  <2>2. /\ Len(relay[m].todo) = 1 /\ 1 \in 1 .. Len(relay[m].todo)
        /\ Tail(relay[m].todo) = <<>>
        /\ Head(relay[m].todo) = relay[m].todo[1]
        /\ Head(relay[m].todo) \in Delivery
    BY <2>1, HeadTail
  <2> QED
    BY <2>1, <2>2
<1>2. /\ n \in Modules /\ msg \in Message
      /\ incoming' = Put(incoming, n, msg)
      /\ relay' = [relay EXCEPT ![m].todo = Tail(@)]
      /\ UNCHANGED <<outgoing, tasks, nextId, respWait, issued, answered,
                     runs>>
  BY <1>1 DEF RelayDeliver, Delivery
<1>3. SoundIn(n, msg)
  BY <1>1 DEF SoundTodo, SoundIn, SoundServed
<1>4. /\ Asks(msg, msg.job) => m = Job[msg.job].from /\ n = Job[msg.job].to
      /\ Sendable(msg.job)
  <2>1. IsAnswer(msg) \/ IsError(msg) => ~ Asks(msg, msg.job)
    BY JobAssumption DEF Asks, IsAnswer, IsError
  <2> QED
    BY <1>1, <2>1 DEF SoundTodo, OwnId
<1> HIDE DEF d, n, msg
<1>5. /\ relay' \in
            [Modules -> [todo : Seq(Delivery), copies : SUBSET Delivery]]
      /\ Len(relay'[m].todo) = 0 /\ relay'[m].todo = <<>>
      /\ \A k \in Modules : relay'[k].copies = relay[k].copies
      /\ \A k \in Modules \ {m} : relay'[k].todo = relay[k].todo
  <2>1. relay' = [relay EXCEPT ![m].todo = <<>>]
    BY <1>1, <1>2
  <2>2. <<>> \in Seq(Delivery) /\ Len(<<>>) = 0
    BY EmptySeq
  <2> QED
    BY <1>1, <2>1, <2>2 DEF BusType
<1>6. /\ incoming' \in [Modules -> Seq(Message)]
      /\ \A k \in Modules : \A i \in 1 .. Len(incoming'[k]) :
            \/ i \in 1 .. Len(incoming[k]) /\ incoming'[k][i] = incoming[k][i]
            \/ k = n /\ i = Len(incoming[n]) + 1 /\ incoming'[k][i] = msg
  BY <1>1, <1>2, PutSound
<1>7. BusType'
  BY <1>1, <1>2, <1>5, <1>6 DEF BusType
<1>8. \A x \in Message : OwnId(x) => OwnId(x)'
  BY <1>2 DEF OwnId
<1>9. MessagesSound'
  <2>1. \A k, x : k = n /\ x = msg => SoundIn(k, x)'
    BY <1>2, <1>3, <1>8, StaysSound
  <2>2. ASSUME NEW k \in Modules PROVE WereThere(k)
    BY <1>2, <1>6, <2>1 DEF WereThere
  <2>3. ASSUME NEW k \in Modules PROVE WereRelayed(k)
    <3>1. /\ Len(relay'[k].todo) <= 1
          /\ \A i \in 1 .. Len(relay'[k].todo) :
                /\ i \in 1 .. Len(relay[k].todo)
                /\ relay'[k].todo[i] = relay[k].todo[i]
      <4>1. CASE k = m
        BY <4>1, <1>5
      <4>2. CASE k # m
        BY <4>2, <1>5 DEF BusInv, MessagesSound
      <4> QED
        BY <4>1, <4>2
    <3> QED
      BY <3>1, <1>5 DEF WereRelayed, BusInv, MessagesSound
  <2> QED
    BY <1>2, <1>8, <2>2, <2>3, MessagesStaySound
<1>10. ASSUME NEW j \in Jobs PROVE AskedOnce(j)'
  <2>1. AskedOnce(j) /\ Job[j].from \in Modules /\ Job[j].to # Job[j].from
    BY JobFacts DEF BusInv, NobodyCallsItself
  <2>2. \A i : Written(j, i)' <=> Written(j, i)
    BY <1>2 DEF Written
  <2>3. \A k \in Modules : Copied(j, k)' <=> Copied(j, k)
    BY <1>5, <2>1 DEF Copied
  <2>4. Relayed(j)' => Relayed(j) /\ Job[j].from # m
    BY <1>5, <2>1 DEF Relayed
  <2>5. \A k \in Modules : \A i : Delivered(j, k, i)' =>
            \/ Delivered(j, k, i)
            \/ k = n /\ i = Len(incoming[n]) + 1 /\ Asks(msg, j)
    BY <1>6 DEF Delivered
  <2>6. CASE ~ Asks(msg, j)
    <3> DEFINE f == [k \in Modules |-> 0]
    <3>1. \A i : Written(j, i)' => i \in Nat /\ Written(j, i + 0)
      BY <2>2 DEF Written
    <3>2. \A k \in Modules : \A i : Delivered(j, k, i)' =>
              i \in Nat /\ Delivered(j, k, i + f[k])
      BY <2>5, <2>6 DEF Delivered
    <3>3. f \in [Modules -> Nat]
      OBVIOUS
    <3> HIDE DEF f
    <3> QED
      BY <2>1, <2>3, <2>4, <3>1, <3>2, <3>3, <1>2, StaysOnce
  <2>7. CASE Asks(msg, j)
    <3>1. m = Job[j].from /\ n = Job[j].to /\ Relayed(j)
      BY <2>7, <1>1, <1>4 DEF Asks, Relayed, d, msg
    <3>2. ~ Relayed(j)' /\ \A i : ~ Written(j, i)
      BY <2>1, <2>4, <3>1 DEF AskedOnce
    <3>3. runs[n][j] = 0 /\ \A k : ~ Delivered(j, n, k)
      BY <2>1, <3>1, <1>2 DEF AskedOnce
    <3>4. n \in Recipients(j) /\ ~ Copied(j, n)
      BY <3>1, <2>7, <1>2, <1>4
      DEF Asks, Recipients, BusInv, MessagesSound, SoundCopy, Listeners, Copied
    <3> QED
      BY <2>1, <2>2, <2>3, <2>5, <3>1, <3>2, <3>3, <3>4, <1>2
      DEF AskedOnce, Recipients
  <2> QED
    BY <2>6, <2>7
<1>11. RegisteredSound' /\ AnsweredSound'
  BY <1>2 DEF BusInv, RegisteredSound, AnsweredSound
<1> QED
  BY <1>7, <1>9, <1>10, <1>11 DEF BusInv, NobodyCallsItself

(***************************************************************************)
(* The relay puts a copy into the channel of a module that listens         *)
(* (core.go:344-370).                                                      *)
(***************************************************************************)
LEMMA NotifyStep ==
    ASSUME BusInv, NEW m \in Modules, RelayNotify(m)
    PROVE  BusInv'
<1>1. PICK d \in relay[m].copies :
        /\ incoming' = Put(incoming, d[1], d[2])
        /\ relay' = [relay EXCEPT ![m].copies = @ \ {d}]
  BY DEF RelayNotify
<1> DEFINE n == d[1]
           msg == d[2]
<1>2. /\ BusType /\ n \in Modules /\ msg \in Message
      /\ OwnId(msg) /\ IsCopy(msg) /\ msg.job \in Jobs
      /\ m = Job[msg.job].from /\ n \in Listeners(msg.job)
      /\ \A e \in relay[m].copies : e[1] = n => e = d
  BY <1>1, PlaceTypes
  DEF BusInv, MessagesSound, SoundCopy, Delivery, Message
<1>3. /\ incoming' = Put(incoming, n, msg)
      /\ UNCHANGED <<outgoing, tasks, nextId, respWait, issued, answered,
                     runs>>
  BY <1>1 DEF RelayNotify
<1>4. \A j : Asks(msg, j) <=> j = msg.job
  BY <1>2 DEF Asks, IsCopy
<1>5. SoundIn(n, msg)
  BY <1>2 DEF SoundIn, SoundServed
<1>6. \A e \in relay[m].copies \ {d} : e[1] # n
  BY <1>2
<1> HIDE DEF n, msg
<1>7. /\ relay' \in
            [Modules -> [todo : Seq(Delivery), copies : SUBSET Delivery]]
      /\ relay'[m].copies = relay[m].copies \ {d}
      /\ \A k \in Modules : relay'[k].todo = relay[k].todo
      /\ \A k \in Modules \ {m} : relay'[k].copies = relay[k].copies
  BY <1>1, <1>2 DEF BusType
<1>8. /\ incoming' \in [Modules -> Seq(Message)]
      /\ \A k \in Modules : \A i \in 1 .. Len(incoming'[k]) :
            \/ i \in 1 .. Len(incoming[k]) /\ incoming'[k][i] = incoming[k][i]
            \/ k = n /\ i = Len(incoming[n]) + 1 /\ incoming'[k][i] = msg
  BY <1>2, <1>3, PutSound
<1>9. BusType'
  BY <1>2, <1>3, <1>7, <1>8 DEF BusType
<1>10. \A x \in Message : OwnId(x) => OwnId(x)'
  BY <1>3 DEF OwnId
<1>11. MessagesSound'
  <2>1. \A k, x : k = n /\ x = msg => SoundIn(k, x)'
    BY <1>2, <1>3, <1>5, <1>10, StaysSound
  <2>2. ASSUME NEW k \in Modules PROVE WereThere(k)
    BY <1>3, <1>8, <2>1 DEF WereThere
  <2>3. ASSUME NEW k \in Modules PROVE WereRelayed(k)
    <3>1. relay'[k].todo = relay[k].todo
          /\ relay'[k].copies \subseteq relay[k].copies
      BY <1>7
    <3> QED
      BY <3>1 DEF WereRelayed, BusInv, MessagesSound
  <2> QED
    BY <1>3, <1>10, <2>2, <2>3, MessagesStaySound
<1>12. ASSUME NEW j \in Jobs PROVE AskedOnce(j)'
  <2>1. AskedOnce(j) /\ Job[j].from \in Modules
    BY JobFacts DEF BusInv
  <2>2. \A i : Written(j, i)' <=> Written(j, i)
    BY <1>3 DEF Written
  <2>3. Relayed(j)' <=> Relayed(j)
    BY <1>7, <2>1 DEF Relayed
  <2>4. \A k \in Modules : Copied(j, k)' => Copied(j, k)
    BY <1>7, <2>1 DEF Copied
  <2>5. \A k \in Modules : \A i : Delivered(j, k, i)' =>
            \/ Delivered(j, k, i)
            \/ k = n /\ i = Len(incoming[n]) + 1 /\ Asks(msg, j)
    BY <1>8 DEF Delivered
  <2>6. CASE j # msg.job
    <3> DEFINE f == [k \in Modules |-> 0]
    <3>1. \A i : Written(j, i)' => i \in Nat /\ Written(j, i + 0)
      BY <2>2 DEF Written
    <3>2. \A k \in Modules : \A i : Delivered(j, k, i)' =>
              i \in Nat /\ Delivered(j, k, i + f[k])
      BY <2>5, <2>6, <1>4 DEF Delivered
    <3>3. f \in [Modules -> Nat]
      OBVIOUS
    <3> HIDE DEF f
    <3> QED
      BY <2>1, <2>3, <2>4, <3>1, <3>2, <3>3, <1>3, StaysOnce
  <2>7. CASE j = msg.job
    <3>1. Copied(j, n) /\ m = Job[j].from
      BY <2>7, <1>2, <1>1 DEF Copied, n, msg
    <3>2. ~ Copied(j, n)' /\ \A i : ~ Written(j, i)
      <4>1. ~ Copied(j, n)'
        BY <3>1, <1>6, <1>7 DEF Copied
      <4> QED
        BY <4>1, <2>1, <3>1, <1>2 DEF AskedOnce
    <3>3. runs[n][j] = 0 /\ \A k : ~ Delivered(j, n, k)
      BY <2>1, <3>1, <1>2 DEF AskedOnce
    <3>4. n \in Recipients(j) /\ n # Job[j].to
      BY <1>2, <2>7 DEF Recipients, Listeners, IsCopy, OwnId
    <3> QED
      BY <2>1, <2>2, <2>3, <2>4, <2>5, <3>2, <3>3, <3>4, <1>3
      DEF AskedOnce, Recipients
  <2> QED
    BY <2>6, <2>7
<1>13. RegisteredSound' /\ AnsweredSound'
  BY <1>3 DEF BusInv, RegisteredSound, AnsweredSound
<1> QED
  BY <1>9, <1>11, <1>12, <1>13 DEF BusInv, NobodyCallsItself

(***************************************************************************)
(* The relay takes a message: the first request in Outgoing for its job is *)
(* the only one there is (core.go:287-303, 344-362).                       *)
(***************************************************************************)
LEMMA TakeStep ==
    ASSUME BusInv, NEW m \in Modules, RelayTake(m)
    PROVE  BusInv'
<1> DEFINE msg == Head(outgoing[m])
           s == Stamped(m, msg)
           todo == Deliveries(m, s)
           copies == {<<o, CopyOf(s)>> : o \in Audience(m, s)}
<1>1. /\ BusType /\ outgoing[m] \in Seq(Message) /\ outgoing[m] # <<>>
      /\ relay[m].todo = <<>> /\ relay[m].copies = {}
      /\ relay' = [relay EXCEPT ![m] = [todo |-> todo, copies |-> copies]]
      /\ outgoing' = [outgoing EXCEPT ![m] = Tail(@)]
      /\ UNCHANGED <<incoming, tasks, nextId, respWait, issued, answered,
                     runs>>
  BY PlaceTypes DEF BusInv, RelayTake, RelayIdle
<1>2. /\ msg \in Message /\ msg = outgoing[m][1] /\ 1 \in 1 .. Len(outgoing[m])
      /\ Tail(outgoing[m]) \in Seq(Message)
      /\ \A i \in 1 .. Len(Tail(outgoing[m])) :
            /\ i + 1 \in 1 .. Len(outgoing[m])
            /\ Tail(outgoing[m])[i] = outgoing[m][i + 1]
  BY <1>1, HeadTail
<1>3. SoundOut(m, msg) /\ NobodyCallsItself
  BY <1>2 DEF BusInv, MessagesSound
<1> HIDE DEF msg, s, todo, copies
<1>4. /\ \/ todo = <<>>
         \/ \E d \in Delivery : /\ todo = <<d>> /\ SoundTodo(m, d)
                                /\ d[2].job = msg.job
                                /\ d[2].by \in {msg.by, Core}
      /\ \A o \in Audience(m, s) :
            /\ Asks(msg, msg.job) /\ m = Job[msg.job].from
            /\ o \in Listeners(msg.job)
            /\ CopyOf(s) \in Message /\ CopyOf(s).job = msg.job
            /\ SoundCopy(m, <<o, CopyOf(s)>>)
  BY <1>2, <1>3, TakenSound DEF s, todo
<1>5. /\ todo \in Seq(Delivery) /\ Len(todo) <= 1
      /\ \A i \in 1 .. Len(todo) : SoundTodo(m, todo[i])
      /\ todo # <<>> => /\ todo[1][2].job = msg.job
                        /\ todo[1][2].by \in {msg.by, Core}
  <2>1. CASE todo = <<>>
    BY <2>1, EmptySeq
  <2>2. CASE todo # <<>>
    <3>1. PICK d \in Delivery : /\ todo = <<d>> /\ SoundTodo(m, d)
                               /\ d[2].job = msg.job
                               /\ d[2].by \in {msg.by, Core}
      BY <2>2, <1>4
    <3>2. todo \in Seq(Delivery) /\ Len(todo) = 1 /\ todo[1] = d
      BY <3>1
    <3> QED
      BY <3>1, <3>2
  <2> QED
    BY <2>1, <2>2
<1>6. /\ copies \subseteq Delivery
      /\ \A d \in copies : SoundCopy(m, d) /\ Asks(msg, msg.job)
                           /\ d[2].job = msg.job
      /\ \A d, e \in copies : d[1] = e[1] => d = e
  <2>1. \A o \in Audience(m, s) : o \in Modules
    BY DEF Audience
  <2> DEFINE c == CopyOf(s)
  <2>2. \A d \in copies : \E o \in Audience(m, s) : d = <<o, c>>
    BY DEF copies
  <2>3. \A o \in Audience(m, s) :
            /\ Asks(msg, msg.job) /\ c \in Message /\ c.job = msg.job
            /\ SoundCopy(m, <<o, c>>)
    BY <1>4
  <2> HIDE DEF c
  <2>4. copies \subseteq Delivery
    BY <2>1, <2>2, <2>3 DEF Delivery
  <2>5. \A d \in copies : SoundCopy(m, d) /\ Asks(msg, msg.job)
                         /\ d[2].job = msg.job
    BY <2>2, <2>3
  <2>6. \A d, e \in copies : d[1] = e[1] => d = e
    BY <2>2
  <2> QED
    BY <2>4, <2>5, <2>6
<1>7. /\ relay' \in
            [Modules -> [todo : Seq(Delivery), copies : SUBSET Delivery]]
      /\ relay'[m].todo = todo /\ relay'[m].copies = copies
      /\ \A k \in Modules \ {m} : relay'[k] = relay[k]
  BY <1>1, <1>5, <1>6 DEF BusType
<1>8. /\ outgoing' \in [Modules -> Seq(Message)]
      /\ outgoing'[m] = Tail(outgoing[m])
      /\ \A k \in Modules \ {m} : outgoing'[k] = outgoing[k]
  BY <1>1, <1>2 DEF BusType
<1>9. BusType'
  BY <1>1, <1>7, <1>8 DEF BusType
<1>10. \A x \in Message : OwnId(x) => OwnId(x)'
  BY <1>1 DEF OwnId
<1>11. MessagesSound'
  <2>1. ASSUME NEW k \in Modules PROVE WereThere(k)
    BY <1>1, <1>2, <1>8 DEF WereThere
  <2>2. ASSUME NEW k \in Modules PROVE WereRelayed(k)
    <3>1. CASE k # m
      BY <3>1, <1>7 DEF WereRelayed, BusInv, MessagesSound
    <3>2. CASE k = m
      <4>1. /\ \A d \in Delivery : SoundTodo(m, d) => SoundTodo(m, d)'
            /\ \A d \in Delivery : SoundCopy(m, d) => SoundCopy(m, d)'
        BY <1>1, <1>10, StaysSound
      <4>2. \A i \in 1 .. Len(todo) : todo[i] \in Delivery
        BY <1>5
      <4> QED
        BY <3>2, <4>1, <4>2, <1>5, <1>6, <1>7 DEF WereRelayed
    <3> QED
      BY <3>1, <3>2
  <2> QED
    BY <1>1, <1>10, <2>1, <2>2, MessagesStaySound
<1>12. ASSUME NEW j \in Jobs PROVE AskedOnce(j)'
  <2>1. AskedOnce(j) /\ Job[j].from \in Modules /\ NoModule # Core
    BY JobFacts DEF BusInv
  <2>2. \A i : Written(j, i)' => i \in Nat /\
            Written(j, i + IF Job[j].from = m THEN 1 ELSE 0)
    BY <1>2, <1>8, <2>1 DEF Written
  <2>3. \A k, i : Delivered(j, k, i)' <=> Delivered(j, k, i)
    BY <1>1 DEF Delivered
  <2>4. CASE ~ Asks(msg, j)
    <3> DEFINE f == [k \in Modules |-> 0]
    <3>1. Relayed(j)' => Relayed(j)
      BY <2>1, <2>4, <1>5, <1>7 DEF Relayed, Asks
    <3>2. \A k \in Modules : Copied(j, k)' => Copied(j, k)
      BY <2>1, <2>4, <1>6, <1>7 DEF Copied, Asks
    <3>3. \A k \in Modules : \A i : Delivered(j, k, i)' =>
              i \in Nat /\ Delivered(j, k, i + f[k])
      BY <2>3 DEF Delivered
    <3>4. f \in [Modules -> Nat]
      OBVIOUS
    <3>5. (IF Job[j].from = m THEN 1 ELSE 0) \in Nat
      OBVIOUS
    <3> HIDE DEF f
    <3> QED
      BY <2>1, <2>2, <3>1, <3>2, <3>3, <3>4, <3>5, <1>1, StaysOnce
  <2>5. CASE Asks(msg, j)
    <3>1. Job[j].from = m
      BY <2>5, <1>3, JobAssumption
      DEF SoundOut, Asks, IsAnswer, IsErrorAnswer
    <3>2. Written(j, 1)
      BY <2>5, <3>1, <1>2 DEF Written
    <3>3. \A i : ~ Written(j, i)'
      <4>1. \A i : Written(j, i)' => i \in Nat \ {0} /\ Written(j, i + 1)
        BY <2>2, <3>1 DEF Written
      <4>2. \A i : Written(j, i) => i = 1
        BY <2>1, <3>2 DEF AskedOnce
      <4> QED
        BY <4>1, <4>2
    <3> QED
      BY <2>1, <2>3, <3>2, <3>3, <1>1 DEF AskedOnce
  <2> QED
    BY <2>4, <2>5
<1>13. RegisteredSound' /\ AnsweredSound'
  BY <1>1 DEF BusInv, RegisteredSound, AnsweredSound
<1> QED
  BY <1>9, <1>11, <1>12, <1>13 DEF BusInv, NobodyCallsItself

(***************************************************************************)
(* A channel from which the first message has been taken.                  *)
(***************************************************************************)
LEMMA ReceivedFacts ==
    ASSUME BusInv, NEW m \in Modules, incoming[m] # <<>>,
           incoming' = [incoming EXCEPT ![m] = Tail(@)]
    PROVE  /\ Head(incoming[m]) = incoming[m][1]
           /\ Head(incoming[m]) \in Message /\ SoundIn(m, Head(incoming[m]))
           /\ 1 \in 1 .. Len(incoming[m])
           /\ incoming' \in [Modules -> Seq(Message)]
           /\ \A k \in Modules : \A i \in 1 .. Len(incoming'[k]) :
                 /\ i + (IF k = m THEN 1 ELSE 0) \in 1 .. Len(incoming[k])
                 /\ incoming'[k][i] =
                       incoming[k][i + IF k = m THEN 1 ELSE 0]
<1>1. BusType /\ incoming[m] \in Seq(Message)
  BY PlaceTypes DEF BusInv
<1>2. /\ incoming' \in [Modules -> Seq(Message)]
      /\ incoming'[m] = Tail(incoming[m])
      /\ \A k \in Modules \ {m} : incoming'[k] = incoming[k]
      /\ \A k \in Modules : Len(incoming[k]) \in Nat
  BY <1>1, HeadTail DEF BusType
<1>3. /\ Head(incoming[m]) = incoming[m][1] /\ Head(incoming[m]) \in Message
      /\ 1 \in 1 .. Len(incoming[m])
      /\ \A i \in 1 .. Len(Tail(incoming[m])) :
            /\ i + 1 \in 1 .. Len(incoming[m])
            /\ Tail(incoming[m])[i] = incoming[m][i + 1]
  BY <1>1, HeadTail
<1>4. SoundIn(m, Head(incoming[m]))
  BY <1>3 DEF BusInv, MessagesSound
<1>5. ASSUME NEW k \in Modules, NEW i \in 1 .. Len(incoming'[k])
      PROVE  /\ i + (IF k = m THEN 1 ELSE 0) \in 1 .. Len(incoming[k])
             /\ incoming'[k][i] = incoming[k][i + IF k = m THEN 1 ELSE 0]
  <2>1. CASE k = m
    BY <2>1, <1>2, <1>3
  <2>2. CASE k # m
    BY <2>2, <1>2
  <2> QED
    BY <2>1, <2>2
<1> QED
  BY <1>2, <1>3, <1>4, <1>5

(***************************************************************************)
(* The request that a module takes is the only one of its job for it.      *)
(***************************************************************************)
LEMMA ReceivedOnce ==
    ASSUME BusInv, NEW m \in Modules, incoming[m] # <<>>,
           incoming' = [incoming EXCEPT ![m] = Tail(@)],
           UNCHANGED <<outgoing, relay, issued>>, NEW j \in Jobs,
           \/ \A n \in Modules : runs'[n][j] = runs[n][j]
           \/ /\ Asks(Head(incoming[m]), j) /\ runs'[m][j] = runs[m][j] + 1
              /\ \A n \in Modules \ {m} : runs'[n][j] = runs[n][j]
    PROVE  AskedOnce(j)'
<1> DEFINE f == [k \in Modules |-> IF k = m THEN 1 ELSE 0]
<1>1. AskedOnce(j) /\ Job[j].from \in Modules /\ f \in [Modules -> Nat]
  BY JobFacts DEF BusInv
<1>2. \A k \in Modules : \A i : Delivered(j, k, i)' =>
          i \in Nat \ {0} /\ Delivered(j, k, i + f[k])
  <2>1. \A k \in Modules : f[k] = IF k = m THEN 1 ELSE 0
    OBVIOUS
  <2> HIDE DEF f
  <2> SUFFICES ASSUME NEW k \in Modules, NEW i, Delivered(j, k, i)'
               PROVE  i \in Nat \ {0} /\ Delivered(j, k, i + f[k])
    OBVIOUS
  <2>2. i \in 1 .. Len(incoming'[k]) /\ Asks(incoming'[k][i], j)
    BY DEF Delivered, Asks
  <2>3. /\ i + f[k] \in 1 .. Len(incoming[k])
        /\ incoming'[k][i] = incoming[k][i + f[k]]
    <3>1. /\ i + (IF k = m THEN 1 ELSE 0) \in 1 .. Len(incoming[k])
          /\ incoming'[k][i] = incoming[k][i + IF k = m THEN 1 ELSE 0]
      BY <2>2, ReceivedFacts
    <3>2. f[k] = IF k = m THEN 1 ELSE 0
      BY <2>1
    <3> QED
      BY <3>1, <3>2
  <2>4. Len(incoming'[k]) \in Nat
    BY ReceivedFacts
  <2> QED
    BY <2>2, <2>3, <2>4 DEF Delivered
<1>3. f[m] = 1
  OBVIOUS
<1>4. /\ \A i : Written(j, i)' <=> Written(j, i)
      /\ Relayed(j)' <=> Relayed(j)
      /\ \A k \in Modules : Copied(j, k)' <=> Copied(j, k)
  BY DEF Written, Relayed, Copied
<1> HIDE DEF f
<1>5. CASE \A n \in Modules : runs'[n][j] = runs[n][j]
  <2>1. \A i : Written(j, i)' => i \in Nat /\ Written(j, i + 0)
    BY <1>4 DEF Written
  <2> QED
    BY <2>1, <1>1, <1>2, <1>4, <1>5, StaysOnce
<1>6. CASE /\ Asks(Head(incoming[m]), j) /\ runs'[m][j] = runs[m][j] + 1
           /\ \A n \in Modules \ {m} : runs'[n][j] = runs[n][j]
  <2>1. Delivered(j, m, 1) /\ j \in issued
    BY <1>6, ReceivedFacts DEF Delivered, Asks, SoundIn, SoundServed, OwnId
  <2>2. /\ m \in Recipients(j) /\ runs[m][j] = 0
        /\ ~ Copied(j, m) /\ ~ (Relayed(j) /\ m = Job[j].to)
        /\ \A i : ~ Written(j, i)
    BY <1>1, <2>1 DEF AskedOnce
  <2>3. \A i : ~ Delivered(j, m, i)'
    <3>1. \A i : Delivered(j, m, i) => i = 1
      BY <1>1, <2>1 DEF AskedOnce
    <3> QED
      BY <3>1, <1>2, <1>3
  <2>4. \A k \in Modules \ {m} : \A i :
            Delivered(j, k, i)' <=> Delivered(j, k, i)
    BY DEF Delivered, BusInv, BusType
  <2> QED
    BY <1>1, <1>4, <1>6, <2>1, <2>2, <2>3, <2>4 DEF AskedOnce, Recipients
<1> QED
  BY <1>5, <1>6

(***************************************************************************)
(* The client of a module takes a response (handler.go:155-172): its id is *)
(* that of its own call, or of none.                                       *)
(***************************************************************************)
LEMMA ResponseTakenStep ==
    ASSUME BusInv, NEW m \in Modules, Receive(m),
           IsResponse(Head(incoming[m]))
    PROVE  BusInv'
<1> DEFINE msg == Head(incoming[m])
           j == msg.job
<1>1. /\ BusType /\ incoming[m] # <<>>
      /\ incoming' = [incoming EXCEPT ![m] = Tail(@)]
      /\ UNCHANGED <<outgoing, relay, nextId, issued, runs, tasks>>
      /\ \/ UNCHANGED <<answered, respWait>>
         \/ /\ msg.id \in DOMAIN respWait[m]
            /\ answered' =
                  [i \in DOMAIN answered \cup {respWait[m][msg.id]} |->
                              IF i = respWait[m][msg.id]
                              THEN [job |-> msg.job, by |-> msg.by]
                              ELSE answered[i]]
            /\ respWait' = [respWait EXCEPT ![m] =
                              Restrict(@, DOMAIN @ \ {msg.id})]
  BY DEF BusInv, Receive
<1>2. /\ msg \in Message /\ OwnId(msg) /\ IsAnswer(msg) /\ j \in Jobs
      /\ m = Job[j].from
      /\ incoming' \in [Modules -> Seq(Message)]
  <2>1. msg \in Message /\ SoundIn(m, msg)
        /\ incoming' \in [Modules -> Seq(Message)]
    BY <1>1, ReceivedFacts
  <2>2. ~ SoundServed(m, msg)
    BY DEF SoundServed, IsResponse, IsRequest, IsCopy, IsError
  <2> QED
    BY <2>1, <2>2 DEF SoundIn, Message
<1> HIDE DEF msg, j
<1>3. /\ UNCHANGED <<answered, respWait>>
      \/ /\ j = respWait[m][msg.id] /\ msg.id \in DOMAIN respWait[m]
         /\ j \in issued \ DOMAIN answered
         /\ DOMAIN answered' = DOMAIN answered \cup {j}
         /\ answered'[j] = [job |-> j, by |-> msg.by]
         /\ \A i \in DOMAIN answered : answered'[i] = answered[i]
         /\ DOMAIN respWait' = Modules
         /\ DOMAIN respWait'[m] = DOMAIN respWait[m] \ {msg.id}
         /\ \A i \in DOMAIN respWait'[m] : respWait'[m][i] = respWait[m][i]
         /\ \A k \in Modules \ {m} : respWait'[k] = respWait[k]
  <2> SUFFICES ASSUME ~ UNCHANGED <<answered, respWait>>
               PROVE /\ j = respWait[m][msg.id]
                     /\ msg.id \in DOMAIN respWait[m]
                     /\ j \in issued \ DOMAIN answered
                     /\ DOMAIN answered' = DOMAIN answered \cup {j}
                     /\ answered'[j] = [job |-> j, by |-> msg.by]
                     /\ \A i \in DOMAIN answered : answered'[i] = answered[i]
                     /\ DOMAIN respWait' = Modules
                     /\ DOMAIN respWait'[m] = DOMAIN respWait[m] \ {msg.id}
                     /\ \A i \in DOMAIN respWait'[m] :
                           respWait'[m][i] = respWait[m][i]
                     /\ \A k \in Modules \ {m} : respWait'[k] = respWait[k]
    OBVIOUS
  <2>1. msg.id \in DOMAIN respWait[m] /\ msg.job = j
    BY <1>1 DEF j
  <2>2. j = respWait[m][msg.id] /\ j \in issued \ DOMAIN answered
    BY <2>1, <1>2 DEF OwnId, IsAnswer, BusInv, RegisteredSound
  <2>3. /\ answered' = [i \in DOMAIN answered \cup {j} |->
                          IF i = j THEN [job |-> j, by |-> msg.by]
                          ELSE answered[i]]
        /\ respWait' = [respWait EXCEPT ![m] =
                           Restrict(@, DOMAIN @ \ {msg.id})]
    BY <1>1, <2>1, <2>2
  <2>4. /\ respWait'[m] = Restrict(respWait[m], DOMAIN respWait[m] \ {msg.id})
        /\ DOMAIN respWait' = Modules
        /\ \A k \in Modules \ {m} : respWait'[k] = respWait[k]
    BY <1>1, <2>3 DEF BusType
  <2> QED
    BY <2>1, <2>2, <2>3, <2>4 DEF Restrict
<1>4. BusType'
  <2>1. \A k \in Modules : DOMAIN respWait'[k] \subseteq DOMAIN respWait[k]
    BY <1>3
  <2> QED
    BY <1>1, <1>2, <1>3, <2>1 DEF BusType
<1>5. \A x \in Message : OwnId(x) => OwnId(x)'
  <2>1. ASSUME NEW k \in Modules
        PROVE  /\ DOMAIN respWait'[k] \subseteq DOMAIN respWait[k]
               /\ \A i \in DOMAIN respWait'[k] :
                     respWait'[k][i] = respWait[k][i]
    BY <1>3
  <2> QED
    BY <1>1, <2>1, JobFacts DEF OwnId, Message
<1>6. MessagesSound'
  <2>1. ASSUME NEW k \in Modules PROVE WereThere(k)
    BY <1>1, ReceivedFacts DEF WereThere
  <2>2. ASSUME NEW k \in Modules PROVE WereRelayed(k)
    BY <1>1 DEF WereRelayed, BusInv, MessagesSound
  <2> QED
    BY <1>1, <1>5, <2>1, <2>2, MessagesStaySound
<1>7. ASSUME NEW i \in Jobs PROVE AskedOnce(i)'
  BY <1>1, ReceivedOnce
<1>8. RegisteredSound'
  <2>1. RegisteredSound
    BY DEF BusInv
  <2>2. CASE UNCHANGED <<answered, respWait>>
    BY <2>1, <2>2, <1>1 DEF RegisteredSound
  <2>3. CASE ~ UNCHANGED <<answered, respWait>>
    <3> SUFFICES ASSUME NEW k \in Modules
                 PROVE  /\ \A i \in DOMAIN respWait'[k] :
                              /\ i # 0 /\ i <= nextId'[k]
                              /\ respWait'[k][i] \in issued' \ DOMAIN answered'
                              /\ Job[respWait'[k][i]].from = k
                        /\ \A i, n \in DOMAIN respWait'[k] :
                              respWait'[k][i] = respWait'[k][n] => i = n
      BY DEF RegisteredSound
    <3>1. CASE k = m
      BY <3>1, <2>1, <2>3, <1>1, <1>3 DEF RegisteredSound
    <3>2. CASE k # m
      BY <3>2, <2>1, <2>3, <1>1, <1>2, <1>3 DEF RegisteredSound
    <3> QED
      BY <3>1, <3>2
  <2> QED
    BY <2>2, <2>3
<1>9. AnsweredSound'
  <2>1. j = msg.job /\ AnsweredSound
    BY DEF j, BusInv
  <2>2. CASE UNCHANGED <<answered, respWait>>
    BY <2>1, <2>2, <1>1 DEF AnsweredSound
  <2>3. CASE ~ UNCHANGED <<answered, respWait>>
    <3>1. /\ answered'[j].job = j /\ answered'[j].by = Job[j].to
          /\ Job[j].to \in Modules /\ runs'[Job[j].to][j] = 1
      <4>1. /\ msg.by = Job[j].to /\ Job[j].to \in Modules
            /\ runs[Job[j].to][j] = 1
        BY <2>1, <1>2 DEF IsAnswer
      <4> QED
        BY <4>1, <2>3, <1>1, <1>3
    <3> QED
      BY <3>1, <2>1, <2>3, <1>1, <1>3 DEF AnsweredSound
  <2> QED
    BY <2>2, <2>3
<1> QED
  BY <1>4, <1>6, <1>7, <1>8, <1>9 DEF BusInv, NobodyCallsItself

(***************************************************************************)
(* The client of a module takes a request or an error, and begins to serve *)
(* it (handler.go:144-154, 175-204): what it can serve asks for the first  *)
(* execution of its job there.                                             *)
(***************************************************************************)
LEMMA RequestTakenStep ==
    ASSUME BusInv, NEW m \in Modules, Receive(m),
           ~ IsResponse(Head(incoming[m]))
    PROVE  BusInv'
<1> DEFINE msg == Head(incoming[m])
           j == msg.job
           t == [msg |-> msg, no |-> runs'[m][j]]
<1>1. /\ BusType /\ incoming[m] # <<>>
      /\ incoming' = [incoming EXCEPT ![m] = Tail(@)]
      /\ UNCHANGED <<outgoing, relay, nextId, issued, answered, respWait>>
      /\ runs' = IF HasMethod(msg)
                 THEN [runs EXCEPT ![m][j] = @ + 1] ELSE runs
      /\ tasks' = [tasks EXCEPT ![m] = @ \cup {t}]
  BY DEF BusInv, Receive
<1>2. /\ msg \in Message /\ j \in Jobs /\ SoundServed(m, msg)
      /\ msg = incoming[m][1] /\ 1 \in 1 .. Len(incoming[m])
      /\ incoming' \in [Modules -> Seq(Message)]
  <2>1. /\ msg \in Message /\ SoundIn(m, msg)
        /\ msg = incoming[m][1] /\ 1 \in 1 .. Len(incoming[m])
        /\ incoming' \in [Modules -> Seq(Message)]
    BY <1>1, ReceivedFacts
  <2>2. ~ IsAnswer(msg)
    BY DEF IsAnswer, IsResponse, HasValidID
  <2> QED
    BY <2>1, <2>2 DEF SoundIn, Message
<1> HIDE DEF msg, j
<1>3. HasMethod(msg) => Asks(msg, j) /\ runs[m][j] = 0
  <2>1. HasMethod(msg) => Asks(msg, j)
    BY <1>2 DEF SoundServed, HasMethod, IsRequest, IsCopy, IsError, Asks, j
  <2>2. Asks(msg, j) => Delivered(j, m, 1)
    BY <1>2 DEF Delivered
  <2> QED
    BY <1>2, <2>1, <2>2 DEF BusInv, AskedOnce
<1>4. \/ ~ HasMethod(msg) /\ runs' = runs
      \/ /\ Asks(msg, j) /\ runs[m][j] = 0 /\ runs'[m][j] = 1
         /\ runs' \in [Modules -> [Jobs -> Nat]]
         /\ \A k \in Modules \ {m} : runs'[k] = runs[k]
         /\ \A i \in Jobs \ {j} : runs'[m][i] = runs[m][i]
  BY <1>1, <1>2, <1>3 DEF BusType
<1>5. /\ runs' \in [Modules -> [Jobs -> Nat]]
      /\ \A k \in Modules, i \in Jobs : runs[k][i] = 1 => runs'[k][i] = 1
  BY <1>1, <1>2, <1>4 DEF BusType
<1>6. /\ t \in [msg : Message, no : Nat] /\ t.msg = msg
      /\ HasMethod(msg) => runs'[m][j] = 1
  BY <1>2, <1>4, <1>5
<1> HIDE DEF t
<1>7. /\ tasks' \in [Modules -> SUBSET [msg : Message, no : Nat]]
      /\ \A k \in Modules : \A u \in tasks'[k] :
            u \in tasks[k] \/ (k = m /\ u = t)
  <2>1. tasks \in [Modules -> SUBSET [msg : Message, no : Nat]]
    BY <1>1 DEF BusType
  <2>2. /\ tasks'[m] = tasks[m] \cup {t}
        /\ \A k \in Modules \ {m} : tasks'[k] = tasks[k]
        /\ DOMAIN tasks' = Modules
    BY <1>1, <2>1
  <2>3. tasks' \in [Modules -> SUBSET [msg : Message, no : Nat]]
    BY <1>1, <1>6, <2>1
  <2> QED
    BY <2>2, <2>3
<1>8. BusType'
  BY <1>1, <1>2, <1>5, <1>7 DEF BusType
<1>9. \A x \in Message : OwnId(x) => OwnId(x)'
  BY <1>1 DEF OwnId
<1>10. MessagesSound'
  <2>1. \A u : u = t => SoundTask(m, u)'
    <3>1. \A x : x = msg => SoundServed(m, x)'
      BY <1>1, <1>2, <1>5, <1>9, StaysSound
    <3>2. \A u : u = t => u.msg = msg /\ u.msg.job = j
      BY <1>6 DEF j
    <3> QED
      BY <3>1, <3>2, <1>6 DEF SoundTask
  <2>2. ASSUME NEW k \in Modules PROVE WereThere(k)
    <3>1. \A i \in 1 .. Len(incoming'[k]) : \E n \in 1 .. Len(incoming[k]) :
              incoming'[k][i] = incoming[k][n]
      BY <1>1, ReceivedFacts
    <3> QED
      BY <1>1, <1>7, <2>1, <3>1 DEF WereThere
  <2>3. ASSUME NEW k \in Modules PROVE WereRelayed(k)
    BY <1>1 DEF WereRelayed, BusInv, MessagesSound
  <2> QED
    BY <1>5, <1>9, <2>2, <2>3, MessagesStaySound
<1>11. ASSUME NEW i \in Jobs PROVE AskedOnce(i)'
  <2>1. \/ \A n \in Modules : runs'[n][i] = runs[n][i]
        \/ /\ Asks(Head(incoming[m]), i) /\ runs'[m][i] = runs[m][i] + 1
           /\ \A n \in Modules \ {m} : runs'[n][i] = runs[n][i]
    <3>1. CASE i = j
      BY <3>1, <1>4 DEF msg
    <3>2. CASE i # j
      BY <3>2, <1>4
    <3> QED
      BY <3>1, <3>2
  <2> QED
    BY <1>1, <2>1, ReceivedOnce
<1>12. RegisteredSound'
  BY <1>1 DEF BusInv, RegisteredSound
<1>13. AnsweredSound'
  <2>1. \A i \in DOMAIN answered : i \in Jobs
    BY <1>1 DEF BusType
  <2> QED
    BY <1>1, <1>5, <2>1 DEF BusInv, AnsweredSound
<1> QED
  BY <1>8, <1>10, <1>11, <1>12, <1>13 DEF BusInv, NobodyCallsItself

\* Nothing is under way for a job that has not been started.
LEMMA NotIssued ==
    ASSUME BusInv, NEW j \in Jobs, j \notin issued
    PROVE  /\ ~ Relayed(j) /\ \A i : ~ Written(j, i)
           /\ \A m \in Modules : /\ ~ Copied(j, m) /\ runs[m][j] = 0
                                 /\ \A i : ~ Delivered(j, m, i)
<1>1. BusType /\ MessagesSound /\ AskedOnce(j) /\ Job[j].from \in Modules
  BY JobFacts DEF BusInv
<1>2. \A i : ~ Written(j, i)
  BY <1>1 DEF Written, Asks, MessagesSound, SoundOut, OwnId
<1>3. ~ Relayed(j)
  <2>1. relay[Job[j].from].todo # <<>> =>
            1 \in 1 .. Len(relay[Job[j].from].todo)
    BY <1>1, PlaceTypes, HeadTail
  <2> QED
    BY <1>1, <2>1 DEF Relayed, Asks, MessagesSound, SoundTodo, OwnId
<1>4. ASSUME NEW m \in Modules
      PROVE  ~ Copied(j, m) /\ runs[m][j] = 0 /\ \A i : ~ Delivered(j, m, i)
  BY <1>1
  DEF AskedOnce, Copied, Delivered, Asks, MessagesSound, SoundCopy, SoundIn,
      SoundServed, OwnId
<1> QED
  BY <1>2, <1>3, <1>4

(***************************************************************************)
(* A client makes a call or a notification (client.go:285-378): its id is  *)
(* new to the client, and nothing of its job is on the way.                *)
(***************************************************************************)
LEMMA IssueStep ==
    ASSUME BusInv, NEW j \in Jobs, Issue(j)
    PROVE  BusInv'
<1> DEFINE m == Job[j].from
           id == nextId[m] + 1
           x == Request(j, IF Job[j].notify THEN 0 ELSE id)
<1>1. /\ BusType /\ m \in Modules /\ j \notin issued /\ Sendable(j)
      /\ issued' = issued \cup {j}
      /\ nextId' = [nextId EXCEPT ![m] = id]
      /\ outgoing' = Put(outgoing, m, x)
      /\ IF Job[j].notify THEN UNCHANGED respWait
         ELSE respWait' = [respWait EXCEPT ![m] =
                 [i \in DOMAIN @ \cup {id} |-> IF i = id THEN j ELSE @[i]]]
      /\ UNCHANGED <<incoming, relay, tasks, answered, runs>>
  BY JobFacts DEF BusInv, Issue, Due
<1>2. /\ nextId[m] \in Nat /\ id \in Nat /\ id # 0 /\ ~ (id <= nextId[m])
      /\ nextId' \in [Modules -> Nat] /\ nextId'[m] = id
      /\ \A k \in Modules \ {m} : nextId'[k] = nextId[k]
      /\ \A i \in Nat : i <= nextId[m] => i <= id /\ i # id
  BY <1>1 DEF BusType
<1>3. /\ DOMAIN respWait' = Modules
      /\ \A k \in Modules : DOMAIN respWait[k] \subseteq DOMAIN respWait'[k]
      /\ \A k \in Modules : \A i \in DOMAIN respWait[k] :
            ~ (k = m /\ i = id) => respWait'[k][i] = respWait[k][i]
      /\ \A k \in Modules : \A i \in DOMAIN respWait'[k] :
            \/ i \in DOMAIN respWait[k] /\ ~ (k = m /\ i = id)
            \/ k = m /\ i = id /\ ~ Job[j].notify /\ respWait'[k][i] = j
  <2>1. id \notin DOMAIN respWait[m] /\ DOMAIN respWait = Modules
    BY <1>1, <1>2 DEF BusInv, RegisteredSound, BusType
  <2>2. CASE Job[j].notify
    BY <2>1, <2>2, <1>1
  <2>3. CASE ~ Job[j].notify
    <3>1. /\ respWait'[m] = [i \in DOMAIN respWait[m] \cup {id} |->
                               IF i = id THEN j ELSE respWait[m][i]]
          /\ DOMAIN respWait' = Modules
          /\ \A k \in Modules \ {m} : respWait'[k] = respWait[k]
      BY <2>1, <2>3, <1>1
    <3> QED
      BY <2>1, <2>3, <3>1
  <2> QED
    BY <2>2, <2>3
<1>4. /\ x \in Message /\ x.job = j /\ x.by = NoModule /\ IsRequest(x)
      /\ x.origin = NoModule
      /\ x.id = IF Job[j].notify THEN 0 ELSE id
  BY <1>2, JobFacts DEF Request, Message, IsRequest
<1> HIDE DEF x, id, m
<1>5. /\ outgoing' \in [Modules -> Seq(Message)]
      /\ outgoing[m] \in Seq(Message) /\ Len(outgoing[m]) \in Nat
      /\ \A k \in Modules : \A i \in 1 .. Len(outgoing'[k]) :
            \/ i \in 1 .. Len(outgoing[k]) /\ outgoing'[k][i] = outgoing[k][i]
            \/ k = m /\ i = Len(outgoing[m]) + 1 /\ outgoing'[k][i] = x
  <2>1. /\ outgoing'[m] = Append(outgoing[m], x)
        /\ \A k \in Modules \ {m} : outgoing'[k] = outgoing[k]
        /\ Append(outgoing[m], x) \in Seq(Message)
        /\ outgoing' \in [Modules -> Seq(Message)]
        /\ outgoing[m] \in Seq(Message)
    BY <1>1, <1>4, PlaceTypes, Appended DEF Put, BusType
  <2>2. \A i \in 1 .. Len(outgoing'[m]) :
            \/ i \in 1 .. Len(outgoing[m]) /\ outgoing'[m][i] = outgoing[m][i]
            \/ i = Len(outgoing[m]) + 1 /\ outgoing'[m][i] = x
    BY <2>1, <1>4, Appended
  <2> QED
    BY <2>1, <2>2
<1>6. BusType'
  <2>1. \A k \in Modules : DOMAIN respWait'[k] \subseteq Nat
    BY <1>1, <1>2, <1>3 DEF BusType
  <2> QED
    BY <1>1, <1>2, <1>3, <1>5, <2>1 DEF BusType
<1>7. \A y \in Message : OwnId(y) => OwnId(y)'
  <2> SUFFICES ASSUME NEW y \in Message, OwnId(y) PROVE OwnId(y)'
    OBVIOUS
  <2>1. y.job \in Jobs /\ y.id \in Nat /\ Job[y.job].from \in Modules
    BY JobFacts DEF Message
  <2> QED
    BY <2>1, <1>1, <1>2, <1>3 DEF OwnId, BusType
<1>8. MessagesSound'
  <2>1. \A y : y = x => SoundOut(m, y)'
    <3>1. \A y : y = x => OwnId(y)'
      BY <1>1, <1>2, <1>3, <1>4 DEF OwnId, m
    <3> QED
      BY <3>1, <1>4 DEF SoundOut, m, IsRequest
  <2>2. ASSUME NEW k \in Modules PROVE WereThere(k)
    BY <1>1, <1>5, <2>1 DEF WereThere
  <2>3. ASSUME NEW k \in Modules PROVE WereRelayed(k)
    BY <1>1 DEF WereRelayed, BusInv, MessagesSound
  <2> QED
    BY <1>1, <1>7, <2>2, <2>3, MessagesStaySound
<1>9. ASSUME NEW i \in Jobs PROVE AskedOnce(i)'
  <2>1. AskedOnce(i) /\ Job[i].from \in Modules
    BY JobFacts DEF BusInv
  <2>2. \A k : Written(i, k)' =>
            Written(i, k) \/ (i = j /\ k = Len(outgoing[m]) + 1)
    BY <2>1, <1>4, <1>5 DEF Written, Asks
  <2>3. /\ Relayed(i)' <=> Relayed(i)
        /\ \A k \in Modules : /\ Copied(i, k)' <=> Copied(i, k)
                              /\ \A n : Delivered(i, k, n)' <=>
                                           Delivered(i, k, n)
    BY <1>1 DEF Relayed, Copied, Delivered
  <2>4. CASE i # j
    <3> DEFINE f == [k \in Modules |-> 0]
    <3>1. \A k : Written(i, k)' => k \in Nat /\ Written(i, k + 0)
      BY <2>2, <2>4 DEF Written
    <3>2. \A k \in Modules : \A n : Delivered(i, k, n)' =>
              n \in Nat /\ Delivered(i, k, n + f[k])
      BY <2>3 DEF Delivered
    <3>3. f \in [Modules -> Nat]
      OBVIOUS
    <3> HIDE DEF f
    <3> QED
      BY <2>1, <2>3, <3>1, <3>2, <3>3, <1>1, StaysOnce
  <2>5. CASE i = j
    <3>1. /\ ~ Relayed(i) /\ \A k : ~ Written(i, k)
          /\ \A k \in Modules : /\ ~ Copied(i, k) /\ runs[k][i] = 0
                                /\ \A n : ~ Delivered(i, k, n)
      BY <2>5, <1>1, NotIssued
    <3> QED
      BY <2>2, <2>3, <2>5, <3>1, <1>1 DEF AskedOnce, Recipients
  <2> QED
    BY <2>4, <2>5
<1>10. RegisteredSound'
  <2>1. RegisteredSound /\ j \notin DOMAIN answered
    BY <1>1 DEF BusInv, BusType
  <2>2. \A k \in Modules : DOMAIN respWait[k] \subseteq Nat
    BY <1>1 DEF BusType
  <2> SUFFICES ASSUME NEW k \in Modules
               PROVE  /\ \A i \in DOMAIN respWait'[k] :
                            /\ i # 0 /\ i <= nextId'[k]
                            /\ respWait'[k][i] \in issued' \ DOMAIN answered'
                            /\ Job[respWait'[k][i]].from = k
                      /\ \A i, n \in DOMAIN respWait'[k] :
                            respWait'[k][i] = respWait'[k][n] => i = n
    BY DEF RegisteredSound
  <2>3. ASSUME NEW i \in DOMAIN respWait'[k]
        PROVE  /\ i # 0 /\ i <= nextId'[k]
               /\ respWait'[k][i] \in issued' \ DOMAIN answered'
               /\ Job[respWait'[k][i]].from = k
    <3>1. CASE i \in DOMAIN respWait[k] /\ ~ (k = m /\ i = id)
      BY <3>1, <2>1, <2>2, <1>1, <1>2, <1>3 DEF RegisteredSound
    <3>2. CASE k = m /\ i = id /\ respWait'[k][i] = j
      <4>1. id <= nextId'[m]
        BY <1>2
      <4> QED
        BY <3>2, <4>1, <2>1, <1>1, <1>2 DEF m
    <3> QED
      BY <3>1, <3>2, <1>3
  <2>4. ASSUME NEW i \in DOMAIN respWait'[k], NEW n \in DOMAIN respWait'[k],
               respWait'[k][i] = respWait'[k][n]
        PROVE  i = n
    BY <2>1, <2>4, <1>1, <1>3 DEF RegisteredSound
  <2> QED
    BY <2>3, <2>4
<1>11. AnsweredSound'
  BY <1>1 DEF BusInv, AnsweredSound
<1> QED
  BY <1>6, <1>8, <1>9, <1>10, <1>11 DEF BusInv, NobodyCallsItself

-----------------------------------------------------------------------------
LEMMA BusInit == NobodyCallsItself /\ CoreInit => BusInv
<1> SUFFICES ASSUME NobodyCallsItself, CoreInit PROVE BusInv
  OBVIOUS
<1>1. <<>> \in Seq(Message) /\ <<>> \in Seq(Delivery) /\ Len(<<>>) = 0
  BY EmptySeq
<1>2. /\ outgoing = [m \in Modules |-> <<>>]
      /\ incoming = [m \in Modules |-> <<>>]
      /\ relay = [m \in Modules |-> [todo |-> <<>>, copies |-> {}]]
      /\ \A m \in Modules : relay[m].todo = <<>> /\ relay[m].copies = {}
      /\ nextId = [m \in Modules |-> 0] /\ tasks = [m \in Modules |-> {}]
      /\ issued = {} /\ DOMAIN answered = {} /\ DOMAIN respWait = Modules
      /\ \A m \in Modules : DOMAIN respWait[m] = {}
      /\ runs = [m \in Modules |-> [j \in Jobs |-> 0]]
  BY DEF CoreInit
<1>3. BusType
  BY <1>1, <1>2 DEF BusType
<1>4. MessagesSound
  BY <1>1, <1>2 DEF MessagesSound
<1>5. ASSUME NEW j \in Jobs PROVE AskedOnce(j)
  <2>1. Job[j].from \in Modules
    BY JobFacts
  <2>2. \A i : ~ Written(j, i)
    BY <1>1, <1>2, <2>1 DEF Written
  <2>3. ~ Relayed(j)
    BY <1>2, <2>1 DEF Relayed
  <2>4. \A m \in Modules : /\ ~ Copied(j, m) /\ runs[m][j] = 0
                           /\ \A i : ~ Delivered(j, m, i)
    BY <1>1, <1>2, <2>1 DEF Copied, Delivered
  <2> QED
    BY <2>2, <2>3, <2>4 DEF AskedOnce
<1>6. RegisteredSound /\ AnsweredSound
  BY <1>2 DEF RegisteredSound, AnsweredSound
<1> QED
  BY <1>3, <1>4, <1>5, <1>6 DEF BusInv

\* a refused call, the relays that return, the stop and a stutter change no
\* messages
LEMMA QuietStep ==
    ASSUME BusInv, issued \subseteq issued', issued' \subseteq Jobs,
           UNCHANGED <<outgoing, incoming, relay, nextId, respWait, tasks,
                       answered, runs>>
    PROVE  BusInv'
<1>1. BusType' /\ RegisteredSound' /\ AnsweredSound'
  <2>1. BusType /\ RegisteredSound /\ AnsweredSound
    BY DEF BusInv
  <2>2. BusType'
    BY <2>1 DEF BusType
  <2> QED
    BY <2>1, <2>2 DEF RegisteredSound, AnsweredSound
<1>2. MessagesSound'
  <2>1. \A y \in Message : OwnId(y) => OwnId(y)'
    BY DEF OwnId
  <2>2. \A m \in Modules : WereThere(m) /\ WereRelayed(m)
    BY DEF WereThere, WereRelayed, BusInv, MessagesSound
  <2> QED
    BY <2>1, <2>2, MessagesStaySound
<1>3. ASSUME NEW j \in Jobs PROVE AskedOnce(j)'
  <2>1. AskedOnce(j)
    BY DEF BusInv
  <2>2. /\ \A i : Written(j, i)' <=> Written(j, i)
        /\ Relayed(j)' <=> Relayed(j)
        /\ \A m : /\ Copied(j, m)' <=> Copied(j, m)
                  /\ \A i : Delivered(j, m, i)' <=> Delivered(j, m, i)
    BY DEF Written, Relayed, Copied, Delivered
  <2> QED
    BY <2>1, <2>2 DEF AskedOnce
<1> QED
  BY <1>1, <1>2, <1>3 DEF BusInv, NobodyCallsItself

LEMMA BusNext == BusInv /\ [CoreNext]_vars => BusInv'
<1> SUFFICES ASSUME BusInv, [CoreNext]_vars PROVE BusInv'
  OBVIOUS
<1>6. issued \subseteq Jobs
  BY DEF BusInv, BusType
<1>1. ASSUME NEW j \in Jobs, Issue(j) PROVE BusInv'
  BY <1>1, IssueStep
<1>5. ASSUME NEW j \in Jobs, Refuse(j) PROVE BusInv'
  BY <1>5, <1>6, QuietStep DEF Refuse
<1>2. ASSUME NEW m \in Modules, ModuleStep(m) PROVE BusInv'
  <2>1. CASE Receive(m)
    BY <2>1, RequestTakenStep, ResponseTakenStep
  <2>2. ASSUME NEW t \in tasks[m], Serve(m, t) PROVE BusInv'
    BY <2>2, ServeStep
  <2>3. CASE RelayTake(m)
    BY <2>3, TakeStep
  <2>4. CASE RelayDeliver(m)
    BY <2>4, DeliverStep
  <2>5. CASE RelayNotify(m)
    BY <2>5, NotifyStep
  <2>6. CASE RelayExit(m)
    BY <2>6, <1>6, QuietStep DEF RelayExit
  <2> QED
    BY <1>2, <2>1, <2>2, <2>3, <2>4, <2>5, <2>6 DEF ModuleStep
<1>3. CASE Stop
  BY <1>3, <1>6, QuietStep DEF Stop
<1>4. CASE UNCHANGED vars
  BY <1>4, <1>6, QuietStep DEF vars
<1> QED
  BY <1>1, <1>2, <1>3, <1>4, <1>5 DEF CoreNext

THEOREM BusInvariant == NobodyCallsItself /\ CoreSpec => []BusInv
  BY BusInit, BusNext, PTL DEF CoreSpec

(***************************************************************************)
(* A request is served at most once by any module and only by those that   *)
(* are meant to, and a Call returns the response to that call by the       *)
(* module it names (core.go:287-362, handler.go:144-236).                  *)
(***************************************************************************)
THEOREM ServedByTheRight == NobodyCallsItself /\ CoreSpec => []RightModules
<1>1. BusInv => RightModules
  <2> SUFFICES ASSUME BusInv PROVE RightModules
    OBVIOUS
  <2>1. \A m \in Modules, j \in Jobs :
            runs[m][j] <= IF m \in Recipients(j) THEN 1 ELSE 0
    BY DEF BusInv, AskedOnce
  <2>2. \A j \in DOMAIN answered :
            answered[j].job = j /\ answered[j].by = Job[j].to
    BY DEF BusInv, AnsweredSound
  <2> QED
    BY <2>1, <2>2 DEF RightModules
<1> QED
  BY <1>1, BusInvariant, PTL

-----------------------------------------------------------------------------
(***************************************************************************)
(* The refinement of Rpc: how far a call has got.                          *)
(***************************************************************************)
Phase(j) ==
    IF j \in DOMAIN answered THEN "answered"
    ELSE IF runs[Job[j].to][j] > 0 THEN "served"
    ELSE IF j \in issued THEN "requested" ELSE "idle"

\* one call goes one step further, or none does
Progress ==
    \/ \A c \in ProperCalls : Phase(c)' = Phase(c)
    \/ \E c \in ProperCalls :
          /\ \/ Phase(c) = "idle" /\ Phase(c)' = "requested"
             \/ Phase(c) = "requested" /\ Phase(c)' = "served"
             \/ Phase(c) = "served" /\ Phase(c)' = "answered"
          /\ \A d \in ProperCalls \ {c} : Phase(d)' = Phase(d)

LEMMA ProperFacts ==
    ASSUME NEW c \in ProperCalls
    PROVE  c \in Jobs /\ Job[c].to \in Modules
  BY DEF ProperCalls, Calls

LEMMA IssueProgress ==
    ASSUME BusInv, NEW j \in Jobs, Issue(j)
    PROVE  Progress
<1>1. /\ j \notin issued /\ issued' = issued \cup {j}
      /\ answered' = answered /\ runs' = runs /\ j \notin DOMAIN answered
  BY DEF Issue, Due, BusInv, BusType
<1>2. \A c \in ProperCalls \ {j} : Phase(c)' = Phase(c)
  BY <1>1 DEF Phase
<1>3. ASSUME j \in ProperCalls
      PROVE  Phase(j) = "idle" /\ Phase(j)' = "requested"
  <2>1. runs[Job[j].to][j] = 0
    BY <1>1, <1>3, ProperFacts, NotIssued
  <2> QED
    BY <2>1, <1>1 DEF Phase
<1> QED
  BY <1>2, <1>3 DEF Progress

LEMMA RequestTakenProgress ==
    ASSUME BusInv, BusInv', NEW m \in Modules, Receive(m),
           ~ IsResponse(Head(incoming[m]))
    PROVE  Progress
<1> DEFINE msg == Head(incoming[m])
           j == msg.job
<1>1. /\ issued' = issued /\ answered' = answered
      /\ runs' = IF HasMethod(msg)
                 THEN [runs EXCEPT ![m][j] = @ + 1] ELSE runs
      /\ runs \in [Modules -> [Jobs -> Nat]] /\ j \in Jobs
  <2>1. incoming[m] # <<>> /\ incoming[m] \in Seq(Message)
    BY PlaceTypes DEF Receive, BusInv
  <2>2. msg \in Message
    BY <2>1, HeadTail
  <2> QED
    BY <2>2 DEF Receive, BusInv, BusType, Message
<1> HIDE DEF msg, j
<1>2. CASE runs' = runs
  BY <1>1, <1>2 DEF Progress, Phase
<1>3. CASE runs' = [runs EXCEPT ![m][j] = @ + 1]
  <2>1. \A c \in ProperCalls : c # j \/ Job[c].to # m => Phase(c)' = Phase(c)
    <3>1. \A c \in ProperCalls : c # j \/ Job[c].to # m =>
              runs'[Job[c].to][c] = runs[Job[c].to][c]
      BY <1>1, <1>3, ProperFacts
    <3> QED
      BY <3>1, <1>1 DEF Phase
  <2>2. ASSUME NEW c \in ProperCalls, c = j, Job[c].to = m
        PROVE  Phase(c) = "requested" /\ Phase(c)' = "served"
    <3>1. runs'[m][j] = runs[m][j] + 1 /\ runs[m][j] \in Nat
      BY <1>1, <1>3
    <3>2. \A i \in Jobs : AskedOnce(i)' /\ issued' = issued
      BY <1>1 DEF BusInv
    <3>3. /\ runs'[m][j] <= 1
          /\ j \in issued
      BY <1>1, <3>1, <3>2 DEF AskedOnce
    <3>4. runs[m][j] = 0 /\ runs'[m][j] = 1
      BY <3>1, <3>3
    <3>5. j \notin DOMAIN answered
      BY <3>4, <2>2 DEF BusInv, AnsweredSound
    <3> QED
      BY <3>3, <3>4, <3>5, <2>2, <1>1 DEF Phase
  <2> QED
    BY <2>1, <2>2 DEF Progress
<1> QED
  BY <1>1, <1>2, <1>3

LEMMA ResponseTakenProgress ==
    ASSUME BusInv, BusInv', NEW m \in Modules, Receive(m),
           IsResponse(Head(incoming[m]))
    PROVE  Progress
<1> DEFINE msg == Head(incoming[m])
           j == respWait[m][msg.id]
<1>1. /\ issued' = issued /\ runs' = runs
      /\ \/ answered' = answered
         \/ /\ msg.id \in DOMAIN respWait[m]
            /\ DOMAIN answered' = DOMAIN answered \cup {j}
  BY DEF Receive
<1>2. CASE answered' = answered
  BY <1>1, <1>2 DEF Progress, Phase
<1>3. CASE /\ msg.id \in DOMAIN respWait[m]
           /\ DOMAIN answered' = DOMAIN answered \cup {j}
  <2>1. j \notin DOMAIN answered
    BY <1>3 DEF BusInv, RegisteredSound
  <2>2. \A c \in ProperCalls \ {j} : Phase(c)' = Phase(c)
    BY <1>1, <1>3 DEF Phase
  <2>3. ASSUME NEW c \in ProperCalls, c = j
        PROVE  Phase(c) = "served" /\ Phase(c)' = "answered"
    <3>1. \A i \in DOMAIN answered' : runs'[Job[i].to][i] = 1
      BY DEF BusInv, AnsweredSound
    <3>2. runs[Job[j].to][j] = 1
      BY <3>1, <1>1, <1>3
    <3>3. j \in DOMAIN answered'
      BY <1>3
    <3> HIDE DEF j
    <3>4. runs[Job[j].to][j] > 0
      BY <3>2
    <3> QED
      BY <2>1, <2>3, <3>3, <3>4 DEF Phase
  <2> QED
    BY <2>2, <2>3 DEF Progress
<1> QED
  BY <1>1, <1>2, <1>3

LEMMA StepProgress ==
    ASSUME BusInv, BusInv', [CoreNext]_vars
    PROVE  Progress
<1>1. ASSUME UNCHANGED <<issued, answered, runs>> PROVE Progress
  BY <1>1 DEF Progress, Phase
<1>2. ASSUME NEW j \in Jobs, Issue(j) PROVE Progress
  BY <1>2, IssueProgress
<1>6. ASSUME NEW j \in Jobs, Refuse(j) PROVE Progress
  <2>1. /\ j \notin ProperCalls /\ issued' = issued \cup {j}
        /\ answered' = answered /\ runs' = runs
    BY <1>6 DEF Refuse, ProperCalls, Calls
  <2> QED
    BY <2>1 DEF Progress, Phase
<1>3. ASSUME NEW m \in Modules, ModuleStep(m) PROVE Progress
  <2>1. CASE Receive(m)
    BY <2>1, RequestTakenProgress, ResponseTakenProgress
  <2>2. CASE \E t \in tasks[m] : Serve(m, t)
    BY <2>2, <1>1 DEF Serve
  <2>3. CASE RelayTake(m)
    BY <2>3, <1>1 DEF RelayTake
  <2>4. CASE RelayDeliver(m)
    BY <2>4, <1>1 DEF RelayDeliver
  <2>5. CASE RelayNotify(m)
    BY <2>5, <1>1 DEF RelayNotify
  <2>6. CASE RelayExit(m)
    BY <2>6, <1>1 DEF RelayExit
  <2> QED
    BY <1>3, <2>1, <2>2, <2>3, <2>4, <2>5, <2>6 DEF ModuleStep
<1>4. CASE Stop
  BY <1>4, <1>1 DEF Stop
<1>5. CASE UNCHANGED vars
  BY <1>5, <1>1 DEF vars
<1> QED
  BY <1>2, <1>3, <1>4, <1>5, <1>6 DEF CoreNext

(***************************************************************************)
(* The bus implements remote calls: every call between two modules is      *)
(* served at most once, by the module it names, and answered at most once, *)
(* after it was served (core.go:287-342, handler.go:144-236).              *)
(***************************************************************************)
THEOREM BusImplementsRpc == NobodyCallsItself /\ CoreSpec => RefinesRpc
<1> DEFINE phase == [j \in ProperCalls |->
                IF j \in DOMAIN answered THEN "answered"
                ELSE IF runs[Job[j].to][j] > 0 THEN "served"
                ELSE IF j \in issued THEN "requested" ELSE "idle"]
<1>1. CoreInit => Abstract!RpcInit
  <2> SUFFICES ASSUME CoreInit PROVE \A j \in ProperCalls : Phase(j) = "idle"
    BY DEF Abstract!RpcInit, Phase
  <2> QED
    BY ProperFacts DEF CoreInit, Phase
<1>2. BusInv /\ BusInv' /\ [CoreNext]_vars => [Abstract!RpcNext]_phase
  <2> SUFFICES ASSUME BusInv, BusInv', [CoreNext]_vars
               PROVE  Abstract!RpcNext \/ phase' = phase
    OBVIOUS
  <2>1. Progress
    BY StepProgress
  <2>2. phase = [c \in ProperCalls |-> Phase(c)]
    BY DEF Phase
  <2>3. phase' = [c \in ProperCalls |-> Phase(c)']
    BY DEF Phase
  <2>4. \A c \in ProperCalls : phase[c] = Phase(c)
    BY <2>2
  <2> HIDE DEF phase
  <2>5. CASE \A c \in ProperCalls : Phase(c)' = Phase(c)
    BY <2>2, <2>3, <2>5
  <2>6. ASSUME NEW c \in ProperCalls, NEW from, NEW to,
               Phase(c) = from, Phase(c)' = to,
               \A d \in ProperCalls \ {c} : Phase(d)' = Phase(d)
        PROVE  phase[c] = from /\ phase' = [phase EXCEPT ![c] = to]
    BY <2>2, <2>3, <2>6
  <2>7. CASE \E c \in ProperCalls :
          /\ \/ Phase(c) = "idle" /\ Phase(c)' = "requested"
             \/ Phase(c) = "requested" /\ Phase(c)' = "served"
             \/ Phase(c) = "served" /\ Phase(c)' = "answered"
          /\ \A d \in ProperCalls \ {c} : Phase(d)' = Phase(d)
    <3>1. \E c \in ProperCalls :
            \/ /\ phase[c] = "idle"
               /\ phase' = [phase EXCEPT ![c] = "requested"]
            \/ /\ phase[c] = "requested"
               /\ phase' = [phase EXCEPT ![c] = "served"]
            \/ /\ phase[c] = "served"
               /\ phase' = [phase EXCEPT ![c] = "answered"]
      BY <2>6, <2>7
    <3> QED
      BY <3>1
      DEF Abstract!RpcNext, Abstract!Request, Abstract!Serve, Abstract!Answer,
          Abstract!Advance, phase
  <2> QED
    BY <2>1, <2>5, <2>7 DEF Progress
<1> QED
  BY <1>1, <1>2, BusInvariant, PTL DEF CoreSpec, RefinesRpc, Abstract!RpcSpec

-----------------------------------------------------------------------------
(***************************************************************************)
(* Where a call is.  Mine: a message of call j that bears an id, a.        *)
(***************************************************************************)
Mine(j, a, msg) == msg.job = j /\ msg.id = a /\ a # 0

InSeq(s, j, a, x) == x \in 1 .. Len(s) /\ Mine(j, a, s[x])

At(j, a, kind, m, x) ==
    /\ m \in Modules
    /\ \/ kind = "out" /\ InSeq(outgoing[m], j, a, x)
       \/ kind = "in" /\ InSeq(incoming[m], j, a, x)
       \/ /\ kind = "relay" /\ x = 1 /\ relay[m].todo # <<>>
          /\ Mine(j, a, relay[m].todo[1][2])
       \/ kind = "task" /\ x \in tasks[m] /\ Mine(j, a, x.msg)

(***************************************************************************)
(* A call is in one place exactly until it is answered, and its id is      *)
(* registered until then.                                                  *)
(***************************************************************************)
Somewhere(j) == \E a, kind, m, x : At(j, a, kind, m, x)

NotInTwo(j) ==
    \A a, kind, m, x, b, l, n, y :
        At(j, a, kind, m, x) /\ At(j, b, l, n, y) =>
            kind = l /\ m = n /\ x = y

IdKept(j) ==
    \A a, kind, m, x : At(j, a, kind, m, x) =>
        a \in DOMAIN respWait[Job[j].from]

OnePlace(j) ==
    /\ j \in issued \ DOMAIN answered <=> Somewhere(j)
    /\ NotInTwo(j) /\ IdKept(j)

PlaceInv == BusInv /\ \A j \in ProperCalls : OnePlace(j)

LEMMA PutInSeq ==
    ASSUME NEW s \in Seq(Message), NEW y \in Message
    PROVE  \A j, a, x : InSeq(Append(s, y), j, a, x) <=>
              \/ InSeq(s, j, a, x)
              \/ x = Len(s) + 1 /\ Mine(j, a, y)
  BY Appended DEF InSeq

LEMMA TailInSeq ==
    ASSUME NEW s \in Seq(Message), s # <<>>
    PROVE  /\ \A j, a, x : InSeq(Tail(s), j, a, x) <=>
                  x \in Nat \ {0} /\ InSeq(s, j, a, x + 1)
           /\ \A j, a, x : InSeq(s, j, a, x) =>
                  \/ x = 1 /\ Mine(j, a, Head(s))
                  \/ x - 1 \in Nat \ {0} /\ InSeq(Tail(s), j, a, x - 1)
           /\ \A j, a : Mine(j, a, Head(s)) => InSeq(s, j, a, 1)
<1>1. /\ Head(s) = s[1] /\ 1 \in 1 .. Len(s)
      /\ Len(Tail(s)) = Len(s) - 1 /\ Len(s) \in Nat \ {0}
      /\ \A i \in 1 .. Len(Tail(s)) : Tail(s)[i] = s[i + 1]
  BY HeadTail
<1>2. \A x : x \in 1 .. Len(Tail(s)) <=>
                x \in Nat \ {0} /\ x + 1 \in 1 .. Len(s)
  BY <1>1
<1>3. \A x \in 1 .. Len(s) : x = 1 \/
          /\ x - 1 \in Nat \ {0} /\ x - 1 \in 1 .. Len(Tail(s))
          /\ Tail(s)[x - 1] = s[x]
  BY <1>1
<1> QED
  BY <1>1, <1>2, <1>3 DEF InSeq

(***************************************************************************)
(* A call that stays where it is, up to the messages taken in front of it. *)
(***************************************************************************)
LEMMA StaysPlaced ==
    ASSUME NEW j, OnePlace(j),
           NEW w \in [Modules -> Nat], NEW f \in [Modules -> Nat],
           \A a, m, x :
              /\ At(j, a, "out", m, x)' =>
                    x \in Nat /\ At(j, a, "out", m, x + w[m])
              /\ At(j, a, "in", m, x)' =>
                    x \in Nat /\ At(j, a, "in", m, x + f[m])
              /\ At(j, a, "relay", m, x)' => At(j, a, "relay", m, x)
              /\ At(j, a, "task", m, x)' => At(j, a, "task", m, x),
           Somewhere(j) => Somewhere(j)',
           j \in issued \ DOMAIN answered <=> j \in issued' \ DOMAIN answered',
           \A a, kind, m, x : At(j, a, kind, m, x) =>
              \/ a \notin DOMAIN respWait[Job[j].from]
              \/ a \in DOMAIN respWait'[Job[j].from]
    PROVE  OnePlace(j)'
<1>1. \A a, kind, m, x : At(j, a, kind, m, x)' =>
          /\ m \in Modules
          /\ \/ kind = "out" /\ x \in Nat /\ At(j, a, "out", m, x + w[m])
             \/ kind = "in" /\ x \in Nat /\ At(j, a, "in", m, x + f[m])
             \/ kind = "relay" /\ At(j, a, "relay", m, x)
             \/ kind = "task" /\ At(j, a, "task", m, x)
  <2>1. \A a, kind, m, x : At(j, a, kind, m, x)' =>
            m \in Modules /\ kind \in {"out", "in", "relay", "task"}
    BY DEF At
  <2> QED
    BY <2>1
<1>2. Somewhere(j)' => Somewhere(j)
  BY <1>1 DEF Somewhere
<1>3. IdKept(j)'
  BY <1>1 DEF OnePlace, IdKept
<1>4. NotInTwo(j)'
  <2> SUFFICES ASSUME NEW a, NEW kind, NEW m, NEW x, NEW b, NEW l, NEW n,
                      NEW y, At(j, a, kind, m, x)', At(j, b, l, n, y)'
               PROVE  kind = l /\ m = n /\ x = y
    BY DEF NotInTwo
  <2>1. NotInTwo(j) /\ m \in Modules /\ n \in Modules
    BY <1>1 DEF OnePlace
  <2>2. kind = l /\ m = n
    BY <2>1, <1>1 DEF NotInTwo
  <2>3. CASE kind = "out"
    <3>1. x \in Nat /\ y \in Nat /\ x + w[m] = y + w[m] /\ w[m] \in Nat
      BY <2>1, <2>2, <2>3, <1>1 DEF NotInTwo
    <3> QED
      BY <3>1, <2>2
  <2>4. CASE kind = "in"
    <3>1. x \in Nat /\ y \in Nat /\ x + f[m] = y + f[m] /\ f[m] \in Nat
      BY <2>1, <2>2, <2>4, <1>1 DEF NotInTwo
    <3> QED
      BY <3>1, <2>2
  <2>5. CASE kind = "relay" \/ kind = "task"
    BY <2>1, <2>2, <2>5, <1>1 DEF NotInTwo
  <2> QED
    BY <1>1, <2>3, <2>4, <2>5
<1> QED
  BY <1>2, <1>3, <1>4 DEF OnePlace

(***************************************************************************)
(* A call that moves to another place.                                     *)
(***************************************************************************)
LEMMA Moves ==
    ASSUME NEW j, NEW a, NEW kind, NEW m, NEW x, At(j, a, kind, m, x)',
           a \in DOMAIN respWait'[Job[j].from],
           j \in issued' \ DOMAIN answered',
           \A b, l, n, y : At(j, b, l, n, y)' => l = kind /\ n = m /\ y = x
    PROVE  OnePlace(j)'
<1>1. \A b, l, n, y : At(j, b, l, n, y)' => b = a
  <2> SUFFICES ASSUME NEW b, At(j, b, kind, m, x)' PROVE b = a
    OBVIOUS
  <2> QED
    BY DEF At, InSeq, Mine
<1> QED
  BY <1>1 DEF OnePlace, Somewhere, NotInTwo, IdKept

(***************************************************************************)
(* The places after a step that changes the contents of one channel.       *)
(***************************************************************************)
LEMMA AfterOutPut ==
    ASSUME BusType, NEW p \in Modules, NEW r \in Message,
           outgoing' = Put(outgoing, p, r)
    PROVE  \A j, a, m, x : At(j, a, "out", m, x)' <=>
              \/ At(j, a, "out", m, x)
              \/ m = p /\ x = Len(outgoing[p]) + 1 /\ Mine(j, a, r)
<1>1. /\ outgoing'[p] = Append(outgoing[p], r)
      /\ \A m \in Modules \ {p} : outgoing'[m] = outgoing[m]
      /\ outgoing[p] \in Seq(Message)
  BY DEF Put, BusType
<1>2. \A j, a, x : InSeq(outgoing'[p], j, a, x) <=>
          \/ InSeq(outgoing[p], j, a, x)
          \/ x = Len(outgoing[p]) + 1 /\ Mine(j, a, r)
  BY <1>1, PutInSeq
<1>3. \A j, a, m, x : At(j, a, "out", m, x) <=>
          m \in Modules /\ InSeq(outgoing[m], j, a, x)
  BY DEF At
<1>4. \A j, a, m, x : At(j, a, "out", m, x)' <=>
          m \in Modules /\ InSeq(outgoing'[m], j, a, x)
  BY DEF At, InSeq, Mine
<1> QED
  BY <1>1, <1>2, <1>3, <1>4

LEMMA AfterInPut ==
    ASSUME BusType, NEW p \in Modules, NEW r \in Message,
           incoming' = Put(incoming, p, r)
    PROVE  \A j, a, m, x : At(j, a, "in", m, x)' <=>
              \/ At(j, a, "in", m, x)
              \/ m = p /\ x = Len(incoming[p]) + 1 /\ Mine(j, a, r)
<1>1. /\ incoming'[p] = Append(incoming[p], r)
      /\ \A m \in Modules \ {p} : incoming'[m] = incoming[m]
      /\ incoming[p] \in Seq(Message)
  BY DEF Put, BusType
<1>2. \A j, a, x : InSeq(incoming'[p], j, a, x) <=>
          \/ InSeq(incoming[p], j, a, x)
          \/ x = Len(incoming[p]) + 1 /\ Mine(j, a, r)
  BY <1>1, PutInSeq
<1>3. \A j, a, m, x : At(j, a, "in", m, x) <=>
          m \in Modules /\ InSeq(incoming[m], j, a, x)
  BY DEF At
<1>4. \A j, a, m, x : At(j, a, "in", m, x)' <=>
          m \in Modules /\ InSeq(incoming'[m], j, a, x)
  BY DEF At, InSeq, Mine
<1> QED
  BY <1>1, <1>2, <1>3, <1>4

LEMMA AfterOutTail ==
    ASSUME BusType, NEW p \in Modules, outgoing[p] # <<>>,
           outgoing' = [outgoing EXCEPT ![p] = Tail(@)]
    PROVE  /\ \A j, a, m, x : At(j, a, "out", m, x)' <=>
                 \/ m # p /\ At(j, a, "out", m, x)
                 \/ m = p /\ x \in Nat \ {0} /\ At(j, a, "out", m, x + 1)
           /\ \A j, a, x : At(j, a, "out", p, x) =>
                 \/ x = 1 /\ Mine(j, a, Head(outgoing[p]))
                 \/ At(j, a, "out", p, x - 1)'
           /\ \A j, a : Mine(j, a, Head(outgoing[p])) =>
                 At(j, a, "out", p, 1)
<1>1. /\ outgoing'[p] = Tail(outgoing[p])
      /\ \A m \in Modules \ {p} : outgoing'[m] = outgoing[m]
      /\ outgoing[p] \in Seq(Message)
  BY DEF BusType
<1>2. /\ \A j, a, x : InSeq(outgoing'[p], j, a, x) <=>
            x \in Nat \ {0} /\ InSeq(outgoing[p], j, a, x + 1)
      /\ \A j, a, x : InSeq(outgoing[p], j, a, x) =>
            \/ x = 1 /\ Mine(j, a, Head(outgoing[p]))
            \/ InSeq(outgoing'[p], j, a, x - 1)
      /\ \A j, a : Mine(j, a, Head(outgoing[p])) =>
            InSeq(outgoing[p], j, a, 1)
  BY <1>1, TailInSeq
<1>3. \A j, a, m, x : At(j, a, "out", m, x) <=>
          m \in Modules /\ InSeq(outgoing[m], j, a, x)
  BY DEF At
<1>4. \A j, a, m, x : At(j, a, "out", m, x)' <=>
          m \in Modules /\ InSeq(outgoing'[m], j, a, x)
  BY DEF At, InSeq, Mine
<1> QED
  BY <1>1, <1>2, <1>3, <1>4

LEMMA AfterInTail ==
    ASSUME BusType, NEW p \in Modules, incoming[p] # <<>>,
           incoming' = [incoming EXCEPT ![p] = Tail(@)]
    PROVE  /\ \A j, a, m, x : At(j, a, "in", m, x)' <=>
                 \/ m # p /\ At(j, a, "in", m, x)
                 \/ m = p /\ x \in Nat \ {0} /\ At(j, a, "in", m, x + 1)
           /\ \A j, a, x : At(j, a, "in", p, x) =>
                 \/ x = 1 /\ Mine(j, a, Head(incoming[p]))
                 \/ At(j, a, "in", p, x - 1)'
           /\ \A j, a : Mine(j, a, Head(incoming[p])) =>
                 At(j, a, "in", p, 1)
<1>1. /\ incoming'[p] = Tail(incoming[p])
      /\ \A m \in Modules \ {p} : incoming'[m] = incoming[m]
      /\ incoming[p] \in Seq(Message)
  BY DEF BusType
<1>2. /\ \A j, a, x : InSeq(incoming'[p], j, a, x) <=>
            x \in Nat \ {0} /\ InSeq(incoming[p], j, a, x + 1)
      /\ \A j, a, x : InSeq(incoming[p], j, a, x) =>
            \/ x = 1 /\ Mine(j, a, Head(incoming[p]))
            \/ InSeq(incoming'[p], j, a, x - 1)
      /\ \A j, a : Mine(j, a, Head(incoming[p])) =>
            InSeq(incoming[p], j, a, 1)
  BY <1>1, TailInSeq
<1>3. \A j, a, m, x : At(j, a, "in", m, x) <=>
          m \in Modules /\ InSeq(incoming[m], j, a, x)
  BY DEF At
<1>4. \A j, a, m, x : At(j, a, "in", m, x)' <=>
          m \in Modules /\ InSeq(incoming'[m], j, a, x)
  BY DEF At, InSeq, Mine
<1> QED
  BY <1>1, <1>2, <1>3, <1>4

\* A call none of whose messages moves.
LEMMA StaysWhereItIs ==
    ASSUME NEW j, OnePlace(j),
           \A a, kind, m, x : At(j, a, kind, m, x)' <=> At(j, a, kind, m, x),
           j \in issued \ DOMAIN answered <=> j \in issued' \ DOMAIN answered',
           DOMAIN respWait[Job[j].from] \subseteq DOMAIN respWait'[Job[j].from]
    PROVE  OnePlace(j)'
<1>1. Somewhere(j)' <=> Somewhere(j)
  BY DEF Somewhere
<1>2. NotInTwo(j)' <=> NotInTwo(j)
  BY DEF NotInTwo
<1>3. IdKept(j) => IdKept(j)'
  BY DEF IdKept
<1> QED
  BY <1>1, <1>2, <1>3 DEF OnePlace

\* The kinds of places, each with the part of the state it depends on.
LEMMA Kinds ==
    /\ \A j, a, kind, m, x : At(j, a, kind, m, x) =>
          m \in Modules /\ kind \in {"out", "in", "relay", "task"}
    /\ \A j, a, kind, m, x : At(j, a, kind, m, x)' =>
          m \in Modules /\ kind \in {"out", "in", "relay", "task"}
    /\ outgoing' = outgoing => \A j, a, m, x :
          At(j, a, "out", m, x)' <=> At(j, a, "out", m, x)
    /\ incoming' = incoming => \A j, a, m, x :
          At(j, a, "in", m, x)' <=> At(j, a, "in", m, x)
    /\ relay' = relay => \A j, a, m, x :
          At(j, a, "relay", m, x)' <=> At(j, a, "relay", m, x)
    /\ tasks' = tasks => \A j, a, m, x :
          At(j, a, "task", m, x)' <=> At(j, a, "task", m, x)
<1>1. \A j, a, kind, m, x : At(j, a, kind, m, x) =>
          m \in Modules /\ kind \in {"out", "in", "relay", "task"}
  BY DEF At
<1>2. \A j, a, kind, m, x : At(j, a, kind, m, x)' =>
          m \in Modules /\ kind \in {"out", "in", "relay", "task"}
  BY DEF At
<1>3. outgoing' = outgoing => \A j, a, m, x :
          At(j, a, "out", m, x)' <=> At(j, a, "out", m, x)
  BY DEF At, InSeq, Mine
<1>4. incoming' = incoming => \A j, a, m, x :
          At(j, a, "in", m, x)' <=> At(j, a, "in", m, x)
  BY DEF At, InSeq, Mine
<1>5. relay' = relay => \A j, a, m, x :
          At(j, a, "relay", m, x)' <=> At(j, a, "relay", m, x)
  BY DEF At, Mine
<1>6. tasks' = tasks => \A j, a, m, x :
          At(j, a, "task", m, x)' <=> At(j, a, "task", m, x)
  BY DEF At, Mine
<1> QED
  BY <1>1, <1>2, <1>3, <1>4, <1>5, <1>6

\* The id of a call on the way is its own.
LEMMA AtOwnId ==
    ASSUME BusInv, NEW j \in Jobs, NEW a, NEW kind, NEW m, NEW x,
           At(j, a, kind, m, x)
    PROVE  /\ a \in DOMAIN respWait[Job[j].from] =>
                 respWait[Job[j].from][a] = j
<1> DEFINE Own(msg) == msg \in Message /\ OwnId(msg)
<1>1. BusType /\ MessagesSound /\ m \in Modules
  BY Kinds DEF BusInv
<1>2. \A msg : OwnId(msg) /\ Mine(j, a, msg) =>
          (a \in DOMAIN respWait[Job[j].from] => respWait[Job[j].from][a] = j)
  BY DEF OwnId, Mine
<1>3. \E msg : OwnId(msg) /\ Mine(j, a, msg)
  <2>1. CASE kind = "out"
    BY <2>1, <1>1 DEF At, InSeq, MessagesSound, SoundOut
  <2>2. CASE kind = "in"
    BY <2>2, <1>1 DEF At, InSeq, MessagesSound, SoundIn, SoundServed
  <2>3. CASE kind = "relay"
    <3>1. relay[m].todo # <<>> => 1 \in 1 .. Len(relay[m].todo)
      BY <1>1, PlaceTypes, HeadTail
    <3> QED
      BY <2>3, <3>1, <1>1 DEF At, MessagesSound, SoundTodo
  <2>4. CASE kind = "task"
    BY <2>4, <1>1 DEF At, MessagesSound, SoundTask, SoundServed
  <2> QED
    BY <2>1, <2>2, <2>3, <2>4, Kinds
<1> QED
  BY <1>2, <1>3

(***************************************************************************)
(* A call is made: it is in Outgoing.                                      *)
(***************************************************************************)
LEMMA IssuePlaced ==
    ASSUME PlaceInv, NEW i \in Jobs, Issue(i), NEW j \in ProperCalls
    PROVE  OnePlace(j)'
<1> DEFINE p == Job[i].from
           id == nextId[p] + 1
           y == Request(i, IF Job[i].notify THEN 0 ELSE id)
<1>1. /\ BusType /\ OnePlace(j) /\ p \in Modules /\ i \notin issued
      /\ issued' = issued \cup {i} /\ answered' = answered
      /\ outgoing' = Put(outgoing, p, y)
      /\ incoming' = incoming /\ relay' = relay /\ tasks' = tasks
      /\ id \in Nat /\ id # 0
      /\ IF Job[i].notify THEN UNCHANGED respWait
         ELSE respWait' = [respWait EXCEPT ![p] =
                 [k \in DOMAIN @ \cup {id} |-> IF k = id THEN i ELSE @[k]]]
      /\ j \in Jobs /\ ~ Job[j].notify /\ Job[j].from \in Modules
  <2>1. BusType /\ OnePlace(j) /\ j \in Jobs /\ ~ Job[j].notify
    BY DEF PlaceInv, BusInv, ProperCalls, Calls
  <2>2. p \in Modules /\ Job[j].from \in Modules
    BY <2>1, JobFacts
  <2>3. nextId \in [Modules -> Nat]
    BY <2>1 DEF BusType
  <2>4. id \in Nat /\ id # 0
    <3>1. nextId[p] \in Nat
      BY <2>2, <2>3
    <3> QED
      BY <3>1
  <2> QED
    BY <2>1, <2>2, <2>4 DEF Issue, Due
<1>2. /\ y \in Message /\ y.job = i
      /\ y.id = IF Job[i].notify THEN 0 ELSE id
  BY <1>1, JobFacts DEF Request, Message
<1>3. /\ DOMAIN respWait[Job[j].from] \subseteq DOMAIN respWait'[Job[j].from]
      /\ ~ Job[i].notify => id \in DOMAIN respWait'[p]
  <2>1. CASE Job[i].notify
    BY <2>1, <1>1
  <2>2. CASE ~ Job[i].notify
    <3>1. /\ DOMAIN respWait'[p] = DOMAIN respWait[p] \cup {id}
          /\ \A m \in Modules \ {p} : respWait'[m] = respWait[m]
      BY <2>2, <1>1 DEF BusType
    <3> QED
      BY <3>1, <1>1
  <2> QED
    BY <2>1, <2>2
<1> HIDE DEF p, id, y
<1>4. \A a, m, x : At(j, a, "out", m, x)' <=>
          \/ At(j, a, "out", m, x)
          \/ m = p /\ x = Len(outgoing[p]) + 1 /\ Mine(j, a, y)
  BY <1>1, <1>2, AfterOutPut
<1>5. CASE j # i
  <2>1. \A a, kind, m, x : At(j, a, kind, m, x)' <=> At(j, a, kind, m, x)
    BY <1>1, <1>2, <1>4, <1>5, Kinds DEF Mine
  <2> QED
    BY <2>1, <1>1, <1>3, <1>5, StaysWhereItIs
<1>6. CASE j = i
  <2>1. \A a, kind, m, x : ~ At(j, a, kind, m, x)
    BY <1>1, <1>6 DEF OnePlace, Somewhere
  <2>2. Mine(j, id, y) /\ j \notin DOMAIN answered
    BY <1>1, <1>2, <1>6 DEF Mine, BusType
  <2>3. \A a, m, x : m = p /\ a = id /\ x = Len(outgoing[p]) + 1 =>
            At(j, a, "out", m, x)'
    BY <1>4, <2>2
  <2>4. \A a, l, m, x : At(j, a, l, m, x)' =>
            l = "out" /\ m = p /\ x = Len(outgoing[p]) + 1
    BY <1>1, <1>4, <2>1, Kinds
  <2>5. id \in DOMAIN respWait'[Job[j].from]
    BY <1>1, <1>3, <1>6 DEF p
  <2> QED
    BY <2>2, <2>3, <2>4, <2>5, <1>1, <1>6, Moves
<1> QED
  BY <1>5, <1>6

(***************************************************************************)
(* A goroutine that served a call writes its response.                     *)
(***************************************************************************)
LEMMA ServePlaced ==
    ASSUME PlaceInv, NEW p \in Modules, NEW t \in tasks[p], Serve(p, t),
           NEW j \in ProperCalls
    PROVE  OnePlace(j)'
<1> DEFINE r == ResponseTo(t.msg, p)
<1>1. /\ BusType /\ OnePlace(j) /\ j \in Jobs
      /\ t.msg \in Message /\ SoundTask(p, t)
      /\ tasks' = [tasks EXCEPT ![p] = @ \ {t}]
      /\ incoming' = incoming /\ relay' = relay
      /\ UNCHANGED <<respWait, issued, answered>>
      /\ IF HasValidID(t.msg) THEN outgoing' = Put(outgoing, p, r)
         ELSE UNCHANGED outgoing
  BY PlaceTypes
  DEF PlaceInv, BusInv, MessagesSound, Serve, ProperCalls, Calls
<1>2. HasValidID(t.msg) =>
          r \in Message /\ r.job = t.msg.job /\ r.id = t.msg.id
  BY <1>1, ResponseSound DEF SoundTask
<1> HIDE DEF r
<1>3. \A a, m, x : At(j, a, "task", m, x)' <=>
          At(j, a, "task", m, x) /\ ~ (m = p /\ x = t)
  <2>1. /\ tasks'[p] = tasks[p] \ {t}
        /\ \A m \in Modules \ {p} : tasks'[m] = tasks[m]
    BY <1>1 DEF BusType
  <2>2. \A a, m, x : At(j, a, "task", m, x)' <=>
            m \in Modules /\ x \in tasks'[m] /\ Mine(j, a, x.msg)
    BY DEF At, Mine
  <2>3. \A a, m, x : At(j, a, "task", m, x) <=>
            m \in Modules /\ x \in tasks[m] /\ Mine(j, a, x.msg)
    BY DEF At
  <2> QED
    BY <2>1, <2>2, <2>3
<1>4. CASE \E a : Mine(j, a, t.msg)
  <2>1. PICK a : Mine(j, a, t.msg)
    BY <1>4
  <2>2. At(j, a, "task", p, t) /\ HasValidID(t.msg)
    BY <2>1 DEF At, Mine, HasValidID
  <2>3. Mine(j, a, r)
    BY <2>1, <2>2, <1>2 DEF Mine
  <2>4. \A b, m, x : At(j, b, "out", m, x)' <=>
            \/ At(j, b, "out", m, x)
            \/ m = p /\ x = Len(outgoing[p]) + 1 /\ Mine(j, b, r)
    BY <2>2, <1>1, <1>2, AfterOutPut
  <2>5. \A b, l, n, y : At(j, b, l, n, y) => l = "task" /\ n = p /\ y = t
    BY <2>2, <1>1 DEF OnePlace, NotInTwo
  <2>6. \A m, x : m = p /\ x = Len(outgoing[p]) + 1 => At(j, a, "out", m, x)'
    BY <2>3, <2>4
  <2>7. \A b, l, n, y : At(j, b, l, n, y)' =>
            l = "out" /\ n = p /\ y = Len(outgoing[p]) + 1
    BY <2>4, <2>5, <1>1, <1>3, Kinds
  <2>8. /\ a \in DOMAIN respWait'[Job[j].from]
        /\ j \in issued' \ DOMAIN answered'
    BY <2>2, <1>1 DEF OnePlace, IdKept, Somewhere
  <2> QED
    BY <2>6, <2>7, <2>8, Moves
<1>5. CASE ~ \E a : Mine(j, a, t.msg)
  <2>1. HasValidID(t.msg) => \A a : ~ Mine(j, a, r)
    BY <1>2, <1>5 DEF Mine
  <2>2. \A a, m, x : At(j, a, "out", m, x)' <=> At(j, a, "out", m, x)
    BY <2>1, <1>1, <1>2, AfterOutPut, Kinds
  <2>3. \A a, m, x : At(j, a, "task", m, x)' <=> At(j, a, "task", m, x)
    BY <1>3, <1>5 DEF At
  <2>4. \A a, kind, m, x : At(j, a, kind, m, x)' <=> At(j, a, kind, m, x)
    BY <2>2, <2>3, <1>1, Kinds
  <2> QED
    BY <2>4, <1>1, StaysWhereItIs
<1> QED
  BY <1>4, <1>5

\* The place in a relay is that of the one delivery it has to make.
LEMMA AfterRelay ==
    ASSUME BusType, NEW p \in Modules,
           \A m \in Modules \ {p} : relay'[m].todo = relay[m].todo
    PROVE  /\ \A j, a, m, x : At(j, a, "relay", m, x)' <=>
                 \/ m # p /\ At(j, a, "relay", m, x)
                 \/ /\ m = p /\ x = 1 /\ relay'[p].todo # <<>>
                    /\ Mine(j, a, relay'[p].todo[1][2])
           /\ \A j, a, x : At(j, a, "relay", p, x) <=>
                 /\ x = 1 /\ relay[p].todo # <<>>
                 /\ Mine(j, a, relay[p].todo[1][2])
<1>1. \A j, a, m, x : At(j, a, "relay", m, x) <=>
          /\ m \in Modules /\ x = 1 /\ relay[m].todo # <<>>
          /\ Mine(j, a, relay[m].todo[1][2])
  BY DEF At
<1>2. \A j, a, m, x : At(j, a, "relay", m, x)' <=>
          /\ m \in Modules /\ x = 1 /\ relay'[m].todo # <<>>
          /\ Mine(j, a, relay'[m].todo[1][2])
  BY DEF At, Mine
<1> QED
  BY <1>1, <1>2

(***************************************************************************)
(* The relay takes the message of a call: it has a delivery to make.       *)
(***************************************************************************)
LEMMA TakePlaced ==
    ASSUME PlaceInv, NEW p \in Modules, RelayTake(p), NEW j \in ProperCalls
    PROVE  OnePlace(j)'
<1> DEFINE msg == Head(outgoing[p])
           s == Stamped(p, msg)
           todo == Deliveries(p, s)
<1>1. /\ BusType /\ OnePlace(j) /\ j \in Jobs /\ Job[j].to \in Modules
      /\ Job[j].from \in Modules /\ NobodyCallsItself
      /\ outgoing[p] # <<>> /\ outgoing[p] \in Seq(Message)
      /\ relay[p].todo = <<>>
      /\ outgoing' = [outgoing EXCEPT ![p] = Tail(@)]
      /\ incoming' = incoming /\ tasks' = tasks
      /\ UNCHANGED <<respWait, issued, answered>>
  BY PlaceTypes, JobFacts
  DEF PlaceInv, BusInv, RelayTake, RelayIdle, ProperCalls, Calls
<1>2. /\ relay'[p].todo = todo
      /\ \A m \in Modules \ {p} : relay'[m] = relay[m]
  BY <1>1 DEF RelayTake, BusType
<1>3. msg \in Message /\ SoundOut(p, msg)
  <2>1. /\ msg = outgoing[p][1] /\ 1 \in 1 .. Len(outgoing[p])
        /\ msg \in Message
    BY <1>1, HeadTail
  <2> QED
    BY <2>1 DEF PlaceInv, BusInv, MessagesSound
<1>4. /\ s.job = msg.job /\ s.id = msg.id
      /\ todo # <<>> => todo[1][2].job = msg.job /\ todo[1][2].id = msg.id
  <2>1. /\ s.job = msg.job /\ s.id = msg.id
        /\ \/ todo = <<>>
           \/ \E d \in Delivery : /\ todo = <<d>> /\ d[2].job = msg.job
                                  /\ d[2].id = msg.id
    BY <1>1, <1>3, TakenSound
  <2> HIDE DEF todo, s, msg
  <2> QED
    BY <2>1
<1>5. msg.job = j /\ msg.id # 0 => todo # <<>>
  <2> SUFFICES ASSUME msg.job = j, msg.id # 0 PROVE Target(s) \in Modules
    BY DEF Deliveries
  <2>1. Core \notin Modules
    BY JobAssumption
  <2>2. CASE IsRequest(msg)
    <3>1. s.ns = Job[j].to /\ s.suffix = FALSE
      BY <2>2, <1>3 DEF Stamped, IsRequest, Message
    <3> QED
      BY <3>1, <1>1 DEF Target, IsResponse
  <2>3. CASE IsAnswer(msg)
    <3>1. s = msg /\ IsResponse(msg) /\ msg.origin = Job[j].from
      BY <2>3 DEF Stamped, IsAnswer, IsResponse, HasValidID
    <3> QED
      BY <3>1, <1>1 DEF Target
  <2>4. ~ IsErrorAnswer(msg)
    BY <2>1, <1>1 DEF IsErrorAnswer
  <2> QED
    BY <2>2, <2>3, <2>4, <1>3 DEF SoundOut
<1> HIDE DEF msg, s, todo
<1>6. /\ \A a, m, x : At(j, a, "out", m, x)' <=>
            \/ m # p /\ At(j, a, "out", m, x)
            \/ m = p /\ x \in Nat \ {0} /\ At(j, a, "out", m, x + 1)
      /\ \A a, x : At(j, a, "out", p, x) =>
            (x = 1 /\ Mine(j, a, msg)) \/ At(j, a, "out", p, x - 1)'
      /\ \A a : Mine(j, a, msg) => At(j, a, "out", p, 1)
  BY <1>1, AfterOutTail DEF msg
<1>7. \A a, m, x : At(j, a, "relay", m, x)' <=>
          \/ m # p /\ At(j, a, "relay", m, x)
          \/ m = p /\ x = 1 /\ todo # <<>> /\ Mine(j, a, todo[1][2])
  BY <1>1, <1>2, AfterRelay
<1>8. \A a, x : ~ At(j, a, "relay", p, x)
  BY <1>1 DEF At
<1>9. CASE \E a : Mine(j, a, msg)
  <2>1. PICK a : Mine(j, a, msg)
    BY <1>9
  <2>2. At(j, a, "out", p, 1)
    BY <2>1, <1>6
  <2>3. \A b, l, n, y : At(j, b, l, n, y) => l = "out" /\ n = p /\ y = 1
    BY <2>2, <1>1 DEF OnePlace, NotInTwo
  <2>4. At(j, a, "relay", p, 1)'
    BY <2>1, <1>4, <1>5, <1>7 DEF Mine
  <2>5. \A b, n, y : ~ At(j, b, "out", n, y)'
    BY <2>3, <1>6
  <2>6. \A b, l, n, y : At(j, b, l, n, y)' => l = "relay" /\ n = p /\ y = 1
    BY <2>3, <2>5, <1>1, <1>7, Kinds
  <2>7. /\ a \in DOMAIN respWait'[Job[j].from]
        /\ j \in issued' \ DOMAIN answered'
    BY <2>2, <1>1 DEF OnePlace, IdKept, Somewhere
  <2> QED
    BY <2>4, <2>6, <2>7, Moves
<1>10. CASE ~ \E a : Mine(j, a, msg)
  <2> DEFINE w == [m \in Modules |-> IF m = p THEN 1 ELSE 0]
             f == [m \in Modules |-> 0]
  <2>1. /\ w \in [Modules -> Nat] /\ f \in [Modules -> Nat] /\ w[p] = 1
        /\ \A m \in Modules \ {p} : w[m] = 0
        /\ \A m \in Modules : f[m] = 0
    OBVIOUS
  <2> HIDE DEF w, f
  <2>2. \A a, m, x : At(j, a, "relay", m, x)' <=> At(j, a, "relay", m, x)
    BY <1>4, <1>7, <1>8, <1>10 DEF Mine
  <2>3. /\ \A a, m, x : At(j, a, "out", m, x)' =>
              x \in Nat /\ At(j, a, "out", m, x + w[m])
        /\ \A a, m, x : At(j, a, "in", m, x)' =>
              x \in Nat /\ At(j, a, "in", m, x + f[m])
    <3>1. \A a, m, x : At(j, a, "out", m, x) \/ At(j, a, "in", m, x) =>
              m \in Modules /\ x \in Nat
      BY DEF At, InSeq
    <3> QED
      BY <2>1, <3>1, <1>1, <1>6, Kinds
  <2>4. Somewhere(j) => Somewhere(j)'
    <3> SUFFICES ASSUME NEW a, NEW kind, NEW m, NEW x, At(j, a, kind, m, x)
                 PROVE  \E k, n, y : At(j, a, k, n, y)'
      BY DEF Somewhere
    <3>1. CASE kind = "out" /\ m = p
      BY <3>1, <1>6, <1>10
    <3>2. CASE kind # "out" \/ m # p
      <4>1. At(j, a, kind, m, x)'
        <5>1. m \in Modules /\ kind \in {"out", "in", "relay", "task"}
          BY Kinds
        <5>2. CASE kind = "out"
          BY <5>2, <3>2, <1>6
        <5>3. CASE kind = "in"
          BY <5>3, <1>1, Kinds
        <5>4. CASE kind = "relay"
          BY <5>4, <2>2
        <5>5. CASE kind = "task"
          BY <5>5, <1>1, Kinds
        <5> QED
          BY <5>1, <5>2, <5>3, <5>4, <5>5
      <4> QED
        BY <4>1
    <3> QED
      BY <3>1, <3>2
  <2> QED
    BY <2>1, <2>2, <2>3, <2>4, <1>1, Kinds, StaysPlaced
<1> QED
  BY <1>9, <1>10

(***************************************************************************)
(* The relay delivers it.                                                  *)
(***************************************************************************)
LEMMA DeliverPlaced ==
    ASSUME PlaceInv, NEW p \in Modules, RelayDeliver(p), NEW j \in ProperCalls
    PROVE  OnePlace(j)'
<1> DEFINE d == relay[p].todo[1]
<1>1. /\ BusType /\ OnePlace(j) /\ j \in Jobs
      /\ relay[p].todo # <<>> /\ relay[p].todo \in Seq(Delivery)
      /\ Len(relay[p].todo) <= 1
      /\ UNCHANGED <<respWait, issued, answered>>
      /\ outgoing' = outgoing /\ tasks' = tasks
  BY PlaceTypes
  DEF PlaceInv, BusInv, MessagesSound, RelayDeliver, ProperCalls, Calls
<1>2. /\ Head(relay[p].todo) = d /\ d \in Delivery
      /\ Tail(relay[p].todo) = <<>>
  BY <1>1, HeadTail
<1>3. /\ incoming' = Put(incoming, d[1], d[2])
      /\ d[1] \in Modules /\ d[2] \in Message
      /\ relay'[p].todo = <<>>
      /\ \A m \in Modules \ {p} : relay'[m] = relay[m]
  BY <1>1, <1>2 DEF RelayDeliver, Delivery, BusType
<1> HIDE DEF d
<1>4. \A a, m, x : At(j, a, "in", m, x)' <=>
          \/ At(j, a, "in", m, x)
          \/ m = d[1] /\ x = Len(incoming[d[1]]) + 1 /\ Mine(j, a, d[2])
  BY <1>1, <1>3, AfterInPut
<1>5. /\ \A a, m, x : At(j, a, "relay", m, x)' <=>
            m # p /\ At(j, a, "relay", m, x)
      /\ \A a, x : At(j, a, "relay", p, x) <=> x = 1 /\ Mine(j, a, d[2])
  BY <1>1, <1>3, AfterRelay DEF d
<1>6. CASE \E a : Mine(j, a, d[2])
  <2>1. PICK a : Mine(j, a, d[2])
    BY <1>6
  <2>2. At(j, a, "relay", p, 1)
    BY <2>1, <1>5
  <2>3. \A b, l, n, y : At(j, b, l, n, y) => l = "relay" /\ n = p /\ y = 1
    BY <2>2, <1>1 DEF OnePlace, NotInTwo
  <2>4. \A m, x : m = d[1] /\ x = Len(incoming[d[1]]) + 1 =>
            At(j, a, "in", m, x)'
    BY <2>1, <1>4
  <2>5. \A b, l, n, y : At(j, b, l, n, y)' =>
            l = "in" /\ n = d[1] /\ y = Len(incoming[d[1]]) + 1
    BY <2>3, <1>1, <1>4, <1>5, Kinds
  <2>6. /\ a \in DOMAIN respWait'[Job[j].from]
        /\ j \in issued' \ DOMAIN answered'
    BY <2>2, <1>1 DEF OnePlace, IdKept, Somewhere
  <2> QED
    BY <2>4, <2>5, <2>6, Moves
<1>7. CASE ~ \E a : Mine(j, a, d[2])
  <2>1. \A a, kind, m, x : At(j, a, kind, m, x)' <=> At(j, a, kind, m, x)
    BY <1>1, <1>4, <1>5, <1>7, Kinds
  <2> QED
    BY <2>1, <1>1, StaysWhereItIs
<1> QED
  BY <1>6, <1>7

\* Copies have no id.
LEMMA NotifyPlaced ==
    ASSUME PlaceInv, NEW p \in Modules, RelayNotify(p), NEW j \in ProperCalls
    PROVE  OnePlace(j)'
<1>1. PICK d \in relay[p].copies :
        /\ incoming' = Put(incoming, d[1], d[2])
        /\ relay' = [relay EXCEPT ![p].copies = @ \ {d}]
  BY DEF RelayNotify
<1>2. /\ BusType /\ OnePlace(j) /\ d[1] \in Modules /\ d[2] \in Message
      /\ IsCopy(d[2])
      /\ UNCHANGED <<respWait, issued, answered>>
      /\ outgoing' = outgoing /\ tasks' = tasks
  BY <1>1, PlaceTypes
  DEF PlaceInv, BusInv, MessagesSound, SoundCopy, Delivery, RelayNotify
<1>3. \A a : ~ Mine(j, a, d[2])
  BY <1>2 DEF IsCopy, Mine
<1>4. \A a, m, x : At(j, a, "in", m, x)' <=> At(j, a, "in", m, x)
  BY <1>1, <1>2, <1>3, AfterInPut
<1>5. \A m \in Modules : relay'[m].todo = relay[m].todo
  BY <1>1, <1>2 DEF BusType
<1>6. \A a, m, x : At(j, a, "relay", m, x)' <=> At(j, a, "relay", m, x)
  BY <1>5 DEF At, Mine
<1>7. \A a, kind, m, x : At(j, a, kind, m, x)' <=> At(j, a, kind, m, x)
  BY <1>2, <1>4, <1>6, Kinds
<1> QED
  BY <1>2, <1>7, StaysWhereItIs

(***************************************************************************)
(* A call that has nothing to do with the message a client takes.          *)
(***************************************************************************)
LEMMA OthersStayPlaced ==
    ASSUME PlaceInv, NEW p \in Modules, incoming[p] # <<>>,
           incoming' = [incoming EXCEPT ![p] = Tail(@)],
           outgoing' = outgoing, relay' = relay, NEW j \in ProperCalls,
           \A a : ~ Mine(j, a, Head(incoming[p])),
           \A a, m, x : At(j, a, "task", m, x)' <=> At(j, a, "task", m, x),
           j \in issued \ DOMAIN answered <=> j \in issued' \ DOMAIN answered',
           \A a, kind, m, x : At(j, a, kind, m, x) =>
              \/ a \notin DOMAIN respWait[Job[j].from]
              \/ a \in DOMAIN respWait'[Job[j].from]
    PROVE  OnePlace(j)'
<1> DEFINE w == [m \in Modules |-> 0]
           f == [m \in Modules |-> IF m = p THEN 1 ELSE 0]
<1>1. /\ w \in [Modules -> Nat] /\ f \in [Modules -> Nat] /\ f[p] = 1
      /\ \A m \in Modules \ {p} : f[m] = 0
      /\ \A m \in Modules : w[m] = 0
  OBVIOUS
<1> HIDE DEF w, f
<1>2. BusType /\ OnePlace(j)
  BY DEF PlaceInv, BusInv
<1>3. /\ \A a, m, x : At(j, a, "in", m, x)' <=>
            \/ m # p /\ At(j, a, "in", m, x)
            \/ m = p /\ x \in Nat \ {0} /\ At(j, a, "in", m, x + 1)
      /\ \A a, x : At(j, a, "in", p, x) => At(j, a, "in", p, x - 1)'
  BY <1>2, AfterInTail
<1>4. /\ \A a, m, x : At(j, a, "out", m, x)' =>
            x \in Nat /\ At(j, a, "out", m, x + w[m])
      /\ \A a, m, x : At(j, a, "in", m, x)' =>
            x \in Nat /\ At(j, a, "in", m, x + f[m])
  <2>1. \A a, m, x : At(j, a, "out", m, x) \/ At(j, a, "in", m, x) =>
            m \in Modules /\ x \in Nat
    BY DEF At, InSeq
  <2> QED
    BY <2>1, <1>1, <1>3, Kinds
<1>5. Somewhere(j) => Somewhere(j)'
  <2> SUFFICES ASSUME NEW a, NEW kind, NEW m, NEW x, At(j, a, kind, m, x)
               PROVE  \E k, n, y : At(j, a, k, n, y)'
    BY DEF Somewhere
  <2>1. CASE kind = "in" /\ m = p
    BY <2>1, <1>3
  <2>2. CASE kind = "in" /\ m # p
    BY <2>2, <1>3
  <2>3. CASE kind # "in"
    BY <2>3, Kinds
  <2> QED
    BY <2>1, <2>2, <2>3
<1> QED
  BY <1>1, <1>2, <1>4, <1>5, Kinds, StaysPlaced

(***************************************************************************)
(* The client of its target begins to serve it.                            *)
(***************************************************************************)
LEMMA RequestTakenPlaced ==
    ASSUME PlaceInv, NEW p \in Modules, Receive(p),
           ~ IsResponse(Head(incoming[p])), NEW j \in ProperCalls
    PROVE  OnePlace(j)'
<1> DEFINE msg == Head(incoming[p])
           t == [msg |-> msg, no |-> runs'[p][msg.job]]
<1>1. /\ BusType /\ OnePlace(j) /\ incoming[p] # <<>>
      /\ incoming' = [incoming EXCEPT ![p] = Tail(@)]
      /\ outgoing' = outgoing /\ relay' = relay
      /\ UNCHANGED <<respWait, issued, answered>>
      /\ tasks' = [tasks EXCEPT ![p] = @ \cup {t}]
      /\ t.msg = msg
  BY DEF PlaceInv, BusInv, Receive
<1> HIDE DEF t, msg
<1>2. \A a, m, x : At(j, a, "task", m, x)' <=>
          At(j, a, "task", m, x) \/ (m = p /\ x = t /\ Mine(j, a, msg))
  <2>1. /\ tasks'[p] = tasks[p] \cup {t}
        /\ \A m \in Modules \ {p} : tasks'[m] = tasks[m]
    BY <1>1 DEF BusType
  <2>2. \A a, m, x : At(j, a, "task", m, x)' <=>
            m \in Modules /\ x \in tasks'[m] /\ Mine(j, a, x.msg)
    BY DEF At, Mine
  <2>3. \A a, m, x : At(j, a, "task", m, x) <=>
            m \in Modules /\ x \in tasks[m] /\ Mine(j, a, x.msg)
    BY DEF At
  <2> QED
    BY <2>1, <2>2, <2>3, <1>1
<1>3. CASE \E a : Mine(j, a, msg)
  <2>1. PICK a : Mine(j, a, msg)
    BY <1>3
  <2>2. /\ \A b, m, x : At(j, b, "in", m, x)' <=>
              \/ m # p /\ At(j, b, "in", m, x)
              \/ m = p /\ x \in Nat \ {0} /\ At(j, b, "in", m, x + 1)
        /\ At(j, a, "in", p, 1)
    BY <2>1, <1>1, AfterInTail DEF msg
  <2>3. \A b, l, n, y : At(j, b, l, n, y) => l = "in" /\ n = p /\ y = 1
    BY <2>2, <1>1 DEF OnePlace, NotInTwo
  <2>4. \A b, n, y : ~ At(j, b, "in", n, y)'
    BY <2>2, <2>3
  <2>5. \A m, x : m = p /\ x = t => At(j, a, "task", m, x)'
    BY <2>1, <1>2
  <2>6. \A b, l, n, y : At(j, b, l, n, y)' => l = "task" /\ n = p /\ y = t
    BY <2>3, <2>4, <1>1, <1>2, Kinds
  <2>7. /\ a \in DOMAIN respWait'[Job[j].from]
        /\ j \in issued' \ DOMAIN answered'
    BY <2>2, <1>1 DEF OnePlace, IdKept, Somewhere
  <2> QED
    BY <2>5, <2>6, <2>7, Moves
<1>4. CASE ~ \E a : Mine(j, a, msg)
  BY <1>1, <1>2, <1>4, OthersStayPlaced DEF msg
<1> QED
  BY <1>3, <1>4

(***************************************************************************)
(* The client that made the call takes the response: the call is answered, *)
(* and nowhere any more.                                                   *)
(***************************************************************************)
LEMMA ResponseTakenPlaced ==
    ASSUME PlaceInv, NEW p \in Modules, Receive(p),
           IsResponse(Head(incoming[p])), NEW j \in ProperCalls
    PROVE  OnePlace(j)'
<1> DEFINE msg == Head(incoming[p])
           i == msg.job
<1>1. /\ BusType /\ BusInv /\ OnePlace(j) /\ incoming[p] # <<>>
      /\ j \in Jobs
      /\ incoming' = [incoming EXCEPT ![p] = Tail(@)]
      /\ outgoing' = outgoing /\ relay' = relay /\ tasks' = tasks
      /\ issued' = issued
      /\ IF msg.id \in DOMAIN respWait[p]
         THEN /\ DOMAIN answered' = DOMAIN answered \cup {respWait[p][msg.id]}
              /\ respWait' = [respWait EXCEPT ![p] =
                                Restrict(@, DOMAIN @ \ {msg.id})]
         ELSE UNCHANGED <<answered, respWait>>
  BY DEF PlaceInv, BusInv, Receive, ProperCalls, Calls
<1>2. /\ OwnId(msg) /\ IsAnswer(msg) /\ p = Job[i].from /\ i \in Jobs
  <2>1. msg \in Message /\ SoundIn(p, msg)
    BY <1>1, ReceivedFacts
  <2>2. ~ SoundServed(p, msg)
    BY DEF SoundServed, IsResponse, IsRequest, IsCopy, IsError
  <2> QED
    BY <2>1, <2>2 DEF SoundIn, Message
<1>3. /\ i \in ProperCalls /\ Mine(i, msg.id, msg)
      /\ i \in Jobs
  BY <1>1, <1>2, JobFacts
  DEF OwnId, IsAnswer, ProperCalls, Calls, Mine, BusInv, NobodyCallsItself
<1>4. At(i, msg.id, "in", p, 1)
  <2>1. \A k, a : Mine(k, a, Head(incoming[p])) => At(k, a, "in", p, 1)
    BY <1>1, AfterInTail
  <2> QED
    BY <1>3, <2>1
<1>5. /\ msg.id \in DOMAIN respWait[p] /\ respWait[p][msg.id] = i
      /\ i \in issued
  BY <1>2, <1>3, <1>4
  DEF PlaceInv, OnePlace, IdKept, OwnId, IsAnswer
<1>6. /\ DOMAIN answered' = DOMAIN answered \cup {i}
      /\ DOMAIN respWait'[p] = DOMAIN respWait[p] \ {msg.id}
      /\ \A m \in Modules \ {p} : respWait'[m] = respWait[m]
  BY <1>1, <1>5 DEF Restrict, BusType
<1>7. \A a, m, x : At(j, a, "in", m, x)' <=>
          \/ m # p /\ At(j, a, "in", m, x)
          \/ m = p /\ x \in Nat \ {0} /\ At(j, a, "in", m, x + 1)
  BY <1>1, AfterInTail
<1> HIDE DEF i, msg
<1>8. CASE j = i
  <2>1. \A b, l, n, y : At(j, b, l, n, y) => l = "in" /\ n = p /\ y = 1
    BY <1>1, <1>4, <1>8 DEF OnePlace, NotInTwo
  <2>2. \A b, l, n, y : ~ At(j, b, l, n, y)'
    BY <2>1, <1>1, <1>7, Kinds
  <2>3. j \in DOMAIN answered'
    BY <1>6, <1>8
  <2> QED
    BY <2>2, <2>3 DEF OnePlace, Somewhere, NotInTwo, IdKept
<1>9. CASE j # i
  <2>1. \A a : ~ Mine(j, a, msg)
    BY <1>9 DEF Mine, i
  <2>2. \A a, kind, m, x : At(j, a, kind, m, x) =>
            \/ a \notin DOMAIN respWait[Job[j].from]
            \/ a \in DOMAIN respWait'[Job[j].from]
    <3> SUFFICES ASSUME NEW a, NEW kind, NEW m, NEW x, At(j, a, kind, m, x),
                        a \in DOMAIN respWait[Job[j].from]
                 PROVE  a \in DOMAIN respWait'[Job[j].from]
      OBVIOUS
    <3>1. respWait[Job[j].from][a] = j /\ Job[j].from \in Modules
      BY <1>1, AtOwnId, JobFacts
    <3> QED
      BY <3>1, <1>5, <1>6, <1>9
  <2>3. j \in issued \ DOMAIN answered <=> j \in issued' \ DOMAIN answered'
    BY <1>1, <1>6, <1>9
  <2>4. \A a, m, x : At(j, a, "task", m, x)' <=> At(j, a, "task", m, x)
    BY <1>1, Kinds
  <2> QED
    BY <2>1, <2>2, <2>3, <2>4, <1>1, OthersStayPlaced DEF msg
<1> QED
  BY <1>8, <1>9

LEMMA QuietPlaced ==
    ASSUME PlaceInv, NEW j \in ProperCalls,
           j \in issued' <=> j \in issued,
           UNCHANGED <<outgoing, incoming, relay, respWait, tasks, answered>>
    PROVE  OnePlace(j)'
<1>1. \A a, kind, m, x : At(j, a, kind, m, x)' <=> At(j, a, kind, m, x)
  BY Kinds
<1> QED
  BY <1>1, StaysWhereItIs DEF PlaceInv

LEMMA PlaceInit == NobodyCallsItself /\ CoreInit => PlaceInv
<1> SUFFICES ASSUME NobodyCallsItself, CoreInit PROVE PlaceInv
  OBVIOUS
<1>1. BusInv
  BY BusInit
<1>2. \A j, a, kind, m, x : ~ At(j, a, kind, m, x)
  BY DEF CoreInit, At, InSeq
<1>3. issued = {}
  BY DEF CoreInit
<1> QED
  BY <1>1, <1>2, <1>3 DEF PlaceInv, OnePlace, Somewhere, NotInTwo, IdKept

LEMMA PlaceNext == PlaceInv /\ [CoreNext]_vars => PlaceInv'
<1> SUFFICES ASSUME PlaceInv, [CoreNext]_vars, NEW j \in ProperCalls
             PROVE  OnePlace(j)'
  BY BusNext DEF PlaceInv
<1>1. ASSUME NEW i \in Jobs, Issue(i) PROVE OnePlace(j)'
  BY <1>1, IssuePlaced
<1>5. ASSUME NEW i \in Jobs, Refuse(i) PROVE OnePlace(j)'
  <2>1. i # j
    BY <1>5 DEF Refuse, ProperCalls, Calls
  <2> QED
    BY <1>5, <2>1, QuietPlaced DEF Refuse
<1>2. ASSUME NEW m \in Modules, ModuleStep(m) PROVE OnePlace(j)'
  <2>1. CASE Receive(m)
    BY <2>1, RequestTakenPlaced, ResponseTakenPlaced
  <2>2. ASSUME NEW t \in tasks[m], Serve(m, t) PROVE OnePlace(j)'
    BY <2>2, ServePlaced
  <2>3. CASE RelayTake(m)
    BY <2>3, TakePlaced
  <2>4. CASE RelayDeliver(m)
    BY <2>4, DeliverPlaced
  <2>5. CASE RelayNotify(m)
    BY <2>5, NotifyPlaced
  <2>6. CASE RelayExit(m)
    BY <2>6, QuietPlaced DEF RelayExit
  <2> QED
    BY <1>2, <2>1, <2>2, <2>3, <2>4, <2>5, <2>6 DEF ModuleStep
<1>3. CASE Stop
  BY <1>3, QuietPlaced DEF Stop
<1>4. CASE UNCHANGED vars
  BY <1>4, QuietPlaced DEF vars
<1> QED
  BY <1>1, <1>2, <1>3, <1>4, <1>5 DEF CoreNext

(***************************************************************************)
(* Occurrences collects these places.                                      *)
(***************************************************************************)
LEMMA PlacesAre ==
    ASSUME BusInv, NEW j
    PROVE  \A p : p \in Occurrences(j) <=>
              \E a, kind, m, x : At(j, a, kind, m, x) /\ p = <<kind, m, x>>
<1>1. \A m \in Modules : /\ relay[m].todo \in Seq(Delivery)
                         /\ Len(relay[m].todo) <= 1
                         /\ \A d \in Delivery : d[2].id \in Nat
                         /\ \A i : i \in 1 .. Len(relay[m].todo) <=>
                                      i = 1 /\ relay[m].todo # <<>>
  <2> SUFFICES ASSUME NEW m \in Modules
               PROVE  /\ relay[m].todo \in Seq(Delivery)
                      /\ Len(relay[m].todo) <= 1
                      /\ \A i : i \in 1 .. Len(relay[m].todo) <=>
                                   i = 1 /\ relay[m].todo # <<>>
    BY DEF Delivery, Message
  <2>1. relay[m].todo \in Seq(Delivery) /\ Len(relay[m].todo) <= 1
    BY PlaceTypes DEF BusInv, MessagesSound
  <2>2. relay[m].todo # <<>> => Len(relay[m].todo) = 1
    BY <2>1, HeadTail
  <2>3. relay[m].todo = <<>> => Len(relay[m].todo) = 0
    OBVIOUS
  <2> QED
    BY <2>1, <2>2, <2>3
<1> DEFINE mine(msg) == msg.job = j /\ HasValidID(msg)
           in(seq) == {i \in 1 .. Len(seq) : mine(seq[i])}
           held(m) == {i \in 1 .. Len(relay[m].todo) :
                          mine(relay[m].todo[i][2])}
           out == UNION {{<<"out", m, i>> : i \in in(outgoing[m])} :
                            m \in Modules}
           inc == UNION {{<<"in", m, i>> : i \in in(incoming[m])} :
                            m \in Modules}
           rel == UNION {{<<"relay", m, i>> : i \in held(m)} : m \in Modules}
           tsk == UNION {{<<"task", m, t>> :
                            t \in {u \in tasks[m] : mine(u.msg)}} :
                            m \in Modules}
<1>2. Occurrences(j) = out \cup inc \cup rel \cup tsk
  BY DEF Occurrences
<1>3. \A msg : mine(msg) <=> \E a : Mine(j, a, msg)
  BY DEF Mine, HasValidID
<1> HIDE DEF mine
<1>4. \A p : p \in out <=>
          \E a, m, x : At(j, a, "out", m, x) /\ p = <<"out", m, x>>
  <2>1. \A p : p \in out <=>
            \E m \in Modules : \E x \in 1 .. Len(outgoing[m]) :
                mine(outgoing[m][x]) /\ p = <<"out", m, x>>
    OBVIOUS
  <2> HIDE DEF out
  <2> QED
    BY <2>1, <1>3 DEF At, InSeq
<1>5. \A p : p \in inc <=>
          \E a, m, x : At(j, a, "in", m, x) /\ p = <<"in", m, x>>
  <2>1. \A p : p \in inc <=>
            \E m \in Modules : \E x \in 1 .. Len(incoming[m]) :
                mine(incoming[m][x]) /\ p = <<"in", m, x>>
    OBVIOUS
  <2> HIDE DEF inc
  <2> QED
    BY <2>1, <1>3 DEF At, InSeq
<1>6. \A p : p \in rel <=>
          \E a, m, x : At(j, a, "relay", m, x) /\ p = <<"relay", m, x>>
  <2>1. \A p : p \in rel <=>
            \E m \in Modules : \E x \in 1 .. Len(relay[m].todo) :
                mine(relay[m].todo[x][2]) /\ p = <<"relay", m, x>>
    OBVIOUS
  <2>2. \A p : p \in rel <=>
            \E m \in Modules : /\ relay[m].todo # <<>>
                               /\ mine(relay[m].todo[1][2])
                               /\ p = <<"relay", m, 1>>
    BY <2>1, <1>1
  <2> HIDE DEF rel
  <2> QED
    BY <2>2, <1>3 DEF At
<1>7. \A p : p \in tsk <=>
          \E a, m, x : At(j, a, "task", m, x) /\ p = <<"task", m, x>>
  <2>1. \A p : p \in tsk <=>
            \E m \in Modules : \E x \in tasks[m] :
                mine(x.msg) /\ p = <<"task", m, x>>
    OBVIOUS
  <2> HIDE DEF tsk
  <2> QED
    BY <2>1, <1>3 DEF At
<1> HIDE DEF out, inc, rel, tsk
<1>8. \A a, kind, m, x : At(j, a, kind, m, x) =>
          kind \in {"out", "in", "relay", "task"}
  BY Kinds
<1> QED
  BY <1>2, <1>4, <1>5, <1>6, <1>7, <1>8

THEOREM PlaceInvariant == NobodyCallsItself /\ CoreSpec => []PlaceInv
  BY PlaceInit, PlaceNext, PTL DEF CoreSpec

(***************************************************************************)
(* A call that waits for its answer is in exactly one place, whether the   *)
(* relays have returned or not (core.go:305-342, handler.go:144-204).      *)
(***************************************************************************)
THEOREM CallsAreSomewhere == NobodyCallsItself /\ CoreSpec => []OnePlacePerCall
<1>1. PlaceInv => OnePlacePerCall
  <2> SUFFICES ASSUME PlaceInv, NEW j \in ProperCalls \cap issued
               PROVE  Cardinality(Occurrences(j)) =
                          IF j \in DOMAIN answered THEN 0 ELSE 1
    BY DEF OnePlacePerCall
  <2>1. OnePlace(j) /\ BusInv
    BY DEF PlaceInv
  <2>2. \A p : p \in Occurrences(j) <=>
            \E a, kind, m, x : At(j, a, kind, m, x) /\ p = <<kind, m, x>>
    BY <2>1, PlacesAre
  <2>3. CASE j \in DOMAIN answered
    <3>1. Occurrences(j) = {}
      BY <2>1, <2>2, <2>3 DEF OnePlace, Somewhere
    <3> QED
      BY <3>1, <2>3, FS_EmptySet
  <2>4. CASE j \notin DOMAIN answered
    <3>1. PICK a, kind, m, x : At(j, a, kind, m, x)
      BY <2>1, <2>4 DEF OnePlace, Somewhere
    <3>2. Occurrences(j) = {<<kind, m, x>>}
      BY <2>1, <2>2, <3>1 DEF OnePlace, NotInTwo
    <3> QED
      BY <3>2, <2>4, FS_Singleton
  <2> QED
    BY <2>3, <2>4
<1> QED
  BY <1>1, PlaceInvariant, PTL
=============================================================================
