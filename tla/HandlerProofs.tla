---------------------------- MODULE HandlerProofs ----------------------------
(***************************************************************************)
(* What SubscriptionHandler promises, for any number of setters, channels, *)
(* subscriptions and sets.                                                 *)
(*                                                                         *)
(* The argument: who stands where holds which mutex.  A setter keeps       *)
(* accessMutex while it queues, so the ids it has still to queue stay      *)
(* subscribed, and subMutex while it pushes, so the sender takes and waits *)
(* only while nobody pushes.                                               *)
(***************************************************************************)
EXTENDS SubscriptionHandler, TLAPS

Note == [id : Ids, value : Nat]

SetterState ==
    {Idle} \cup [at : {"publish"}, key : Keys, value : Nat]
           \cup [at : {"each"}, key : Keys, value : Nat, rest : SUBSET Ids]
           \cup [at : {"push"}, key : Keys, value : Nat, rest : SUBSET Ids, id : Ids]

Taken == {"send", "forget"}

\* The states of the threads that touch notifications.
Shape ==
    /\ subscriptions \subseteq Ids
    /\ buffer \in Seq(Note)
    /\ IF sender \in Taken THEN sending \in Seq(Note) /\ Len(sending) = 1 ELSE sending = << >>
    /\ setter \in [Setters -> SetterState]
    /\ sent \in [Ids -> Seq(Nat)]
    /\ sets \in Nat

\* Who holds which mutex.
Locks ==
    /\ \A t \in Setters :
          /\ setter[t] # Idle => rwMutex = {t}
          /\ setter[t].at \in {"each", "push"} => accessMutex = {t}
          /\ setter[t].at = "push" => subMutex = {t}
    /\ sender \in Taken => subMutex = {Sender}

\* What a setter has still to queue is subscribed to.
RestSubscribed ==
    \A t \in Setters :
        /\ setter[t].at \in {"each", "push"} => setter[t].rest \subseteq subscriptions
        /\ setter[t].at = "push" => setter[t].id \in subscriptions \ setter[t].rest

Pushing == \E t \in Setters : setter[t].at = "push"

\* The sender found something, or looked while a setter pushed.
Found == sender = "found" => buffer # << >> \/ Pushing

\* The sender goes to sleep on nothing, unless it was notified too early or the
\* setter that is pushing has still to notify it.
Asleep ==
    /\ sender = "empty" /\ buffer # << >> => missed \/ Pushing
    /\ sender = "waiting" /\ buffer # << >> => missed
    /\ owner = "joining" => ~threadRun
    /\ owner = "joining" /\ sender \in {"check", "empty", "waiting"} => missed

HandlerInv ==
    Shape /\ Locks /\ RestSubscribed /\ Found /\ Asleep

------------------------------------------------------------------------------
(* Sequences and records. *)

\* What a queue holds after something was pushed.
LEMMA AppendNote ==
    ASSUME NEW S, NEW q \in Seq(S), NEW n \in S
    PROVE  /\ Append(q, n) \in Seq(S) /\ Append(q, n) # << >>
           /\ DOMAIN Append(q, n) = 1 .. Len(q) + 1 /\ DOMAIN q = 1 .. Len(q) /\ Len(q) \in Nat
           /\ \A i \in 1 .. Len(q) + 1 : Append(q, n)[i] = IF i = Len(q) + 1 THEN n ELSE q[i]
  OBVIOUS

\* The queue p is the queue q of members of S with n pushed.
Pushed(S, q, n, p) ==
    /\ Len(q) \in Nat /\ DOMAIN q = 1 .. Len(q) /\ DOMAIN p = 1 .. Len(q) + 1
    /\ p[Len(q) + 1] = n
    /\ \A i \in 1 .. Len(q) : p[i] = q[i] /\ q[i] \in S

\* Append pushes.
LEMMA AppendPushes ==
    ASSUME NEW S, NEW q \in Seq(S), NEW n \in S, NEW p, p = Append(q, n)
    PROVE  Pushed(S, q, n, p)
  BY DEF Pushed

\* What a queue that is not empty holds after its front was popped.
LEMMA TailNote ==
    ASSUME NEW S, NEW q \in Seq(S), q # << >>
    PROVE  /\ Head(q) \in S /\ Head(q) = q[1] /\ Tail(q) \in Seq(S)
           /\ Len(q) \in Nat \ {0} /\ DOMAIN q = 1 .. Len(q) /\ DOMAIN Tail(q) = 1 .. Len(q) - 1
           /\ \A i \in 1 .. Len(q) - 1 : Tail(q)[i] = q[i + 1]
  OBVIOUS

\* A setter's record has the fields of the place where it is.
LEMMA SetterFields ==
    ASSUME NEW r \in SetterState
    PROVE  /\ r.at \in {"idle", "publish", "each", "push"}
           /\ r = Idle <=> r.at = "idle"
           /\ r.at # "idle" => r.key \in Keys /\ r.value \in Nat
           /\ r.at \in {"each", "push"} => r.rest \subseteq Ids
           /\ r.at = "push" => r.id \in Ids
  BY DEF SetterState, Idle

------------------------------------------------------------------------------
(* Shape and Locks. *)

\* Forgetting a channel only takes subscriptions away.
LEMMA ForgetShrinks ==
    ASSUME NEW c, unsubscribeAll(c)
    PROVE  subscriptions' \subseteq subscriptions
  BY DEF unsubscribeAll

\* The handler starts with nothing queued and no mutex locked.
LEMMA HandlerInitially == HandlerInit => HandlerInv
<1> SUFFICES ASSUME HandlerInit PROVE HandlerInv
  OBVIOUS
<1>1. \A t \in Setters : setter[t] = Idle /\ setter[t].at = "idle"
  BY DEF HandlerInit, Idle
<1>2. Shape
  BY DEF HandlerInit, Shape, Taken, SetterState
<1>3. Locks /\ RestSubscribed
  BY <1>1 DEF HandlerInit, Locks, RestSubscribed, Taken
<1>4. Found /\ Asleep
  BY DEF HandlerInit, Found, Asleep
<1> QED
  BY <1>2, <1>3, <1>4 DEF HandlerInv

\* The threads of the connections leave the sender, the setters and the owner alone.
LEMMA ConnectionFrame ==
    ASSUME \/ UNCHANGED hVars
           \/ \E c \in Channels : ClientSteps(c) \/ Close(c)
           \/ \E id \in Ids : subscribe(id)
           \/ \E c \in Channels, id \in Ids : unsubscribe(c, id) \/ GrpcUnsubscribe(c, id)
    PROVE  UNCHANGED << lockVars, buffer, sender, sending, sent, setter, sets, missed, threadRun,
                        owner >>
<1> USE DEF senderVars, dataVars
<1>1. CASE UNCHANGED hVars
  BY <1>1 DEF hVars
<1>2. CASE \E c \in Channels : ClientSteps(c) \/ Close(c)
  BY <1>2 DEF ClientSteps, Close, GrpcInsert, GrpcErase, GrpcCleanup, GrpcClear
<1>3. CASE \E id \in Ids : subscribe(id)
  BY <1>3 DEF subscribe
<1>4. CASE \E c \in Channels, id \in Ids : unsubscribe(c, id) \/ GrpcUnsubscribe(c, id)
  BY <1>4 DEF unsubscribe, GrpcUnsubscribe
<1> QED
  BY <1>1, <1>2, <1>3, <1>4

\* The steps of the owner, the connections and the sleeping sender leave alone what
\* the setters and the sender do with notifications.
LEMMA OtherHandlerSteps ==
    ASSUME Shape,
           \/ OwnerSteps \/ RunnerLoop \/ RunnerCheck \/ RunnerWait \/ RunnerResume
           \/ SpuriousWakeup \/ UNCHANGED hVars
           \/ \E c \in Channels : ClientSteps(c) \/ Close(c)
           \/ \E id \in Ids : subscribe(id)
           \/ \E c \in Channels, id \in Ids : unsubscribe(c, id) \/ GrpcUnsubscribe(c, id)
    PROVE  /\ UNCHANGED << lockVars, buffer, sending, sent, setter, sets >>
           /\ sender' \in Taken <=> sender \in Taken
           /\ sender \in Taken => sender' = sender
           /\ subscriptions' \subseteq Ids
           /\ accessMutex # {} => subscriptions' = subscriptions
<1>1. CASE OwnerSteps
  BY <1>1 DEF OwnerSteps, SpawnThread, startThread, stopThread, Join, notify_one, Taken, Shape,
              senderVars, dataVars, lockVars
<1>2. CASE RunnerLoop \/ RunnerCheck \/ RunnerWait \/ RunnerResume \/ SpuriousWakeup
  BY <1>2 DEF RunnerLoop, RunnerCheck, RunnerWait, RunnerResume, SpuriousWakeup, Taken, Shape,
              dataVars, lockVars
<1>3. CASE UNCHANGED hVars
  BY <1>3 DEF hVars, senderVars, dataVars, lockVars, Taken, Shape
<1>4. ASSUME NEW c \in Channels, ClientSteps(c) \/ Close(c)
      PROVE  /\ UNCHANGED << lockVars, buffer, senderVars, setter, sets >>
             /\ subscriptions' \subseteq subscriptions
             /\ accessMutex # {} => subscriptions' = subscriptions
  BY <1>4, ForgetShrinks
  DEF ClientSteps, Close, GrpcInsert, GrpcErase, GrpcCleanup, GrpcClear, dataVars
<1>5. ASSUME NEW id \in Ids, subscribe(id)
      PROVE  /\ UNCHANGED << lockVars, buffer, senderVars, setter, sets >>
             /\ subscriptions' \subseteq subscriptions \cup Ids
             /\ accessMutex = {}
  BY <1>5 DEF subscribe, dataVars
<1>6. ASSUME NEW c \in Channels, NEW id \in Ids, unsubscribe(c, id) \/ GrpcUnsubscribe(c, id)
      PROVE  /\ UNCHANGED << lockVars, buffer, senderVars, setter, sets >>
             /\ subscriptions' \subseteq subscriptions
             /\ accessMutex = {}
  BY <1>6 DEF unsubscribe, GrpcUnsubscribe, dataVars
<1> QED
  BY <1>1, <1>2, <1>3, <1>4, <1>5, <1>6 DEF Shape, senderVars, Taken

\* The same for Shape and Locks together.
LEMMA OtherShapeLocks ==
    ASSUME Shape, Locks, subscriptions' \subseteq Ids,
           UNCHANGED << lockVars, buffer, sending, sent, setter, sets >>,
           sender' \in Taken <=> sender \in Taken
    PROVE  Shape' /\ Locks'
  BY DEF Shape, Locks, lockVars

\* What the sender does when it sends.
LEMMA SendFacts ==
    ASSUME Shape, Locks, RunnerSend
    PROVE  /\ sender = "send" /\ subMutex = {Sender} /\ sending[1] \in Note
           /\ UNCHANGED << rwMutex, accessMutex, subscriptions, buffer, setter, sets >>
           /\ \/ sender' = "loop" /\ sending' = << >> /\ subMutex' = {}
              \/ sender' = "forget" /\ UNCHANGED << subMutex, sending, sent >>
           /\ sent' \in [Ids -> Seq(Nat)]
           /\ \/ UNCHANGED sent
              \/ \A id \in Ids : sent'[id] = IF id = sending[1].id
                                            THEN Append(sent[id], sending[1].value) ELSE sent[id]
<1> DEFINE id == sending[1].id
           v == sending[1].value
           c == ChannelOf[id]
           arrives == IF c \in GrpcChannels THEN id \in grpcSubsMap ELSE client[c].at # "gone"
<1>1. sender = "send"
  BY DEF RunnerSend
<1>2. subMutex = {Sender} /\ sending \in Seq(Note) /\ Len(sending) = 1
  BY <1>1 DEF Shape, Locks, Taken
<1>3. sending[1] \in Note
  BY <1>2
<1>4. id \in Ids /\ v \in Nat
  BY <1>3 DEF Note
<1>5. /\ IF arrives THEN sent' = [sent EXCEPT ![id] = Append(@, v)] ELSE UNCHANGED sent
      /\ IF c \in GrpcChannels \/ arrives
         THEN sender' = "loop" /\ sending' = << >> /\ subMutex' = {}
         ELSE sender' = "forget" /\ UNCHANGED << subMutex, sending >>
      /\ UNCHANGED << rwMutex, accessMutex, subscriptions, buffer, setter, sets >>
  BY DEF RunnerSend, dataVars
<1> HIDE DEF id, v, c, arrives
<1>6. sent \in [Ids -> Seq(Nat)]
  BY DEF Shape
<1>7. CASE arrives
  <2>1. sent' = [sent EXCEPT ![id] = Append(sent[id], v)]
    BY <1>5, <1>7
  <2>2. Append(sent[id], v) \in Seq(Nat)
    BY <1>4, <1>6, AppendNote
  <2>3. sent' \in [Ids -> Seq(Nat)]
    BY <1>4, <1>6, <2>1, <2>2
  <2>4. \A x \in Ids : sent'[x] = IF x = id THEN Append(sent[x], v) ELSE sent[x]
    BY <1>6, <2>1
  <2> QED
    BY <1>1, <1>2, <1>3, <1>5, <1>7, <2>3, <2>4 DEF id, v
<1>8. CASE ~arrives
  BY <1>1, <1>2, <1>3, <1>5, <1>6, <1>8
<1> QED
  BY <1>7, <1>8

\* The sender takes, sends and forgets under subMutex.
LEMMA RunnerShapeLocks ==
    ASSUME Shape, Locks, Found, RunnerPop \/ RunnerSend \/ RunnerForget
    PROVE  Shape' /\ Locks'
<1>1. CASE RunnerPop
  <2>1. buffer # << >> /\ sender = "found" /\ sender' = "send"
    BY <1>1 DEF RunnerPop, Found, Pushing, Locks
  <2>2. Shape'
    BY <1>1, <2>1, TailNote DEF RunnerPop, Shape, Taken, dataVars
  <2>3. Locks'
    BY <1>1, <2>1 DEF RunnerPop, Locks, Taken
  <2> QED
    BY <2>2, <2>3
<1>2. CASE RunnerSend
  <2>1. /\ sender = "send" /\ subMutex = {Sender} /\ sending[1] \in Note
        /\ UNCHANGED << rwMutex, accessMutex, subscriptions, buffer, setter, sets >>
        /\ \/ sender' = "loop" /\ sending' = << >> /\ subMutex' = {}
           \/ sender' = "forget" /\ UNCHANGED << subMutex, sending >>
    BY <1>2, SendFacts
  <2>2. sent' \in [Ids -> Seq(Nat)]
    BY <1>2, SendFacts
  <2>3. Shape'
    BY <2>1, <2>2 DEF Shape, Taken
  <2>4. \A t \in Setters : setter[t].at # "push"
    BY <2>1, HandlerAssumption DEF Locks
  <2>5. Locks'
    BY <2>1, <2>4 DEF Locks, Taken
  <2> QED
    BY <2>3, <2>5
<1>3. CASE RunnerForget
  <2>1. subscriptions' \subseteq subscriptions
    BY <1>3, ForgetShrinks DEF RunnerForget
  <2>2. sender = "forget" /\ subMutex = {Sender}
    BY <1>3 DEF RunnerForget, Locks, Taken
  <2>3. \A t \in Setters : setter[t].at # "push"
    BY <2>2, HandlerAssumption DEF Locks
  <2> QED
    BY <1>3, <2>1, <2>2, <2>3 DEF RunnerForget, Shape, Locks, Taken, dataVars
<1> QED
  BY <1>1, <1>2, <1>3

\* What the steps of a setter do to the setters.
LEMMA SetterMoves ==
    ASSUME Shape, Locks, NEW t \in Setters,
           SetterSteps(t) \/ \E k \in Keys : setSignal(t, k)
    PROVE  /\ setter'[t] \in SetterState
           /\ \A u \in Setters \ {t} : setter'[u] = setter[u]
           /\ setter' \in [Setters -> SetterState]
           /\ UNCHANGED << sending, sent, subscriptions >>
           /\ sender' = sender \/ (sender = "waiting" /\ sender' = "woken")
<1>1. setter[t] \in SetterState
  BY DEF Shape
<1>2. CASE \E k \in Keys : setSignal(t, k)
  BY <1>2 DEF setSignal, Shape, SetterState, senderVars
<1>3. CASE publishForVSSPath(t)
  BY <1>1, <1>3, SetterFields DEF publishForVSSPath, Shape, SetterState, senderVars, ToNotify
<1>4. CASE PublishEach(t)
  <2>1. PICK id \in setter[t].rest :
           setter' = [setter EXCEPT ![t] = [at |-> "push", key |-> @.key, value |-> @.value,
                                            rest |-> @.rest \ {id}, id |-> id]]
    BY <1>4, Zenon DEF PublishEach
  <2> QED
    BY <1>1, <1>4, <2>1, SetterFields DEF PublishEach, Shape, SetterState, senderVars
<1>5. CASE PublishPush(t)
  BY <1>1, <1>5, SetterFields DEF PublishPush, notify_one, Shape, SetterState
<1>6. CASE PublishReturn(t)
  BY <1>6 DEF PublishReturn, Shape, SetterState, senderVars
<1> QED
  BY <1>2, <1>3, <1>4, <1>5, <1>6 DEF SetterSteps

\* A setter takes and gives up its mutexes on its way.
LEMMA SetterShapeLocks ==
    ASSUME Shape, Locks, NEW t \in Setters,
           SetterSteps(t) \/ \E k \in Keys : setSignal(t, k)
    PROVE  Shape' /\ Locks'
<1> USE SetterMoves
<1>1. setter[t] \in SetterState
  BY DEF Shape
<1>2. CASE \E k \in Keys : setSignal(t, k)
  <2>1. /\ rwMutex = {} /\ rwMutex' = {t} /\ sets' = sets + 1 /\ setter'[t].at = "publish"
        /\ UNCHANGED << accessMutex, subMutex, buffer, senderVars >>
    BY <1>2 DEF setSignal, Shape
  <2>2. \A u \in Setters : setter[u].at = "idle" /\ setter[u] = Idle
    BY <2>1, SetterFields DEF Locks, Shape
  <2> QED
    BY <2>1, <2>2 DEF Shape, Locks, senderVars
<1>3. CASE publishForVSSPath(t)
  <2>1. /\ accessMutex = {} /\ accessMutex' = {t} /\ setter[t].at = "publish"
        /\ setter'[t].at = "each"
        /\ UNCHANGED << rwMutex, subMutex, buffer, senderVars, sets >>
    BY <1>3 DEF publishForVSSPath, Shape, dataVars
  <2>2. \A u \in Setters : setter[u].at \notin {"each", "push"}
    BY <2>1 DEF Locks
  <2>3. setter[t] # Idle
    BY <2>1 DEF Idle
  <2> QED
    BY <2>1, <2>2, <2>3 DEF Shape, Locks, senderVars
<1>4. CASE PublishEach(t)
  <2>1. /\ subMutex = {} /\ subMutex' = {t} /\ setter[t].at = "each" /\ setter'[t].at = "push"
        /\ UNCHANGED << rwMutex, accessMutex, buffer, senderVars, sets >>
    BY <1>4 DEF PublishEach, Shape, dataVars
  <2>2. \A u \in Setters : setter[u].at # "push"
    BY <2>1 DEF Locks
  <2>3. setter[t] # Idle
    BY <2>1 DEF Idle
  <2> QED
    BY <2>1, <2>2, <2>3 DEF Shape, Locks, senderVars
<1>5. CASE PublishPush(t)
  <2>1. /\ subMutex' = {} /\ setter[t].at = "push" /\ setter'[t].at = "each"
        /\ buffer' = Append(buffer, [id |-> setter[t].id, value |-> setter[t].value])
        /\ UNCHANGED << rwMutex, accessMutex, sets >>
    BY <1>5 DEF PublishPush, Shape, dataVars
  <2>2. buffer' \in Seq(Note)
    BY <1>1, <2>1, SetterFields, AppendNote DEF Shape, Note
  <2>3. subMutex = {t} /\ setter[t] # Idle
    BY <2>1 DEF Locks, Idle
  <2>4. sender \notin Taken /\ \A u \in Setters \ {t} : setter[u].at # "push"
    BY <2>3, HandlerAssumption DEF Locks
  <2> QED
    BY <2>1, <2>2, <2>3, <2>4 DEF Shape, Locks, Taken
<1>6. CASE PublishReturn(t)
  <2>1. /\ setter[t].at = "each" /\ setter'[t] = Idle
        /\ accessMutex' = accessMutex \ {t} /\ rwMutex' = rwMutex \ {t}
        /\ UNCHANGED << subMutex, buffer, senderVars, sets >>
    BY <1>6 DEF PublishReturn, Shape, dataVars
  <2>2. \A u \in Setters \ {t} : setter[u] = Idle /\ setter[u].at = "idle"
    BY <1>1, <2>1, SetterFields, Zenon DEF Locks, Shape
  <2> QED
    BY <2>1, <2>2 DEF Shape, Locks, senderVars, Idle
<1> QED
  BY <1>2, <1>3, <1>4, <1>5, <1>6 DEF SetterSteps

\* Where a setter stands after each of its steps, and what it then carries.
LEMMA SetterAfter ==
    ASSUME Shape, NEW t \in Setters
    PROVE  /\ \A k \in Keys : setSignal(t, k) =>
                 setter'[t].at = "publish" /\ setter'[t].value = sets + 1
           /\ publishForVSSPath(t) =>
                 setter'[t].at = "each" /\ setter'[t].value = setter[t].value
                 /\ setter'[t].rest = ToNotify(t)
           /\ PublishEach(t) =>
                 setter'[t].at = "push" /\ setter'[t].value = setter[t].value
                 /\ setter'[t].id \in setter[t].rest
                 /\ setter'[t].rest = setter[t].rest \ {setter'[t].id}
           /\ PublishPush(t) =>
                 setter'[t].at = "each" /\ setter'[t].value = setter[t].value
                 /\ setter'[t].rest = setter[t].rest
           /\ PublishReturn(t) => setter'[t] = Idle
  BY DEF Shape, setSignal, publishForVSSPath, PublishEach, PublishPush, PublishReturn

------------------------------------------------------------------------------
(* RestSubscribed: the subscriptions change only when accessMutex is free. *)

\* What a setter has still to queue stays subscribed to (publishForVSSPath keeps
\* accessMutex).
LEMMA RestStep ==
    ASSUME Shape, Locks, RestSubscribed, [HandlerNext]_hVars
    PROVE  RestSubscribed'
<1>1. ASSUME UNCHANGED setter, accessMutex # {} => subscriptions' = subscriptions
      PROVE  RestSubscribed'
  BY <1>1 DEF RestSubscribed, Locks
<1>2. CASE RunnerPop \/ RunnerSend
  BY <1>1, <1>2 DEF RunnerPop, RunnerSend
<1>3. CASE RunnerForget
  BY <1>1, <1>3 DEF RunnerForget
<1>4. ASSUME NEW t \in Setters, SetterSteps(t) \/ \E k \in Keys : setSignal(t, k)
      PROVE  RestSubscribed'
  <2>1. /\ \A u \in Setters \ {t} : setter'[u] = setter[u]
        /\ UNCHANGED subscriptions
    BY <1>4, SetterMoves
  <2>2. SUFFICES /\ setter'[t].at \in {"each", "push"} => setter'[t].rest \subseteq subscriptions
                 /\ setter'[t].at = "push" => setter'[t].id \in subscriptions \ setter'[t].rest
    BY <2>1 DEF RestSubscribed
  <2>3. CASE \E k \in Keys : setSignal(t, k)
    BY <2>3, SetterAfter
  <2>4. CASE publishForVSSPath(t)
    BY <2>4, SetterAfter DEF ToNotify
  <2>5. CASE PublishEach(t)
    BY <2>5, SetterAfter DEF RestSubscribed, PublishEach
  <2>6. CASE PublishPush(t)
    BY <2>6, SetterAfter DEF RestSubscribed, PublishPush
  <2>7. CASE PublishReturn(t)
    BY <2>7, SetterAfter DEF Idle
  <2> QED
    BY <1>4, <2>3, <2>4, <2>5, <2>6, <2>7 DEF SetterSteps
<1> QED
  BY <1>1, <1>2, <1>3, <1>4, OtherHandlerSteps DEF HandlerNext, RunnerSteps

------------------------------------------------------------------------------
(* Found and Asleep: what the sender saw without a mutex. *)

\* A setter leaves "push" by pushing.
LEMMA PushingStays ==
    ASSUME Shape, Locks, NEW t \in Setters,
           SetterSteps(t) \/ \E k \in Keys : setSignal(t, k), ~PublishPush(t)
    PROVE  /\ Pushing => Pushing'
           /\ UNCHANGED << buffer, sender, missed, threadRun, owner >>
<1>1. setter[t].at # "push"
  BY DEF SetterSteps, setSignal, publishForVSSPath, PublishEach, PublishReturn, Idle
<1>2. \A u \in Setters \ {t} : setter'[u] = setter[u]
  BY SetterMoves
<1> QED
  BY <1>1, <1>2
  DEF Pushing, SetterSteps, setSignal, publishForVSSPath, PublishEach, PublishReturn, senderVars

\* A push fills the buffer, and wakes the sender or comes before it waits.
LEMMA PushFacts ==
    ASSUME Shape, Locks, NEW t \in Setters, PublishPush(t)
    PROVE  /\ buffer' # << >> /\ subMutex = {t} /\ UNCHANGED << threadRun, owner >>
           /\ IF sender = "waiting"
              THEN sender' = "woken" /\ UNCHANGED missed
              ELSE missed' = (missed \/ sender = "empty") /\ UNCHANGED sender
<1>1. setter[t] \in SetterState /\ setter[t].at = "push"
  BY DEF PublishPush, Shape
<1>2. [id |-> setter[t].id, value |-> setter[t].value] \in Note
  BY <1>1, SetterFields DEF Note
<1>3. buffer' # << >>
  BY <1>2, AppendNote DEF PublishPush, Shape
<1> QED
  BY <1>1, <1>3 DEF PublishPush, notify_one, Locks

\* What the sender found in the buffer is there when it takes it.
LEMMA FoundStep ==
    ASSUME Shape, Locks, Found, [HandlerNext]_hVars
    PROVE  Found'
<1>1. ASSUME UNCHANGED << buffer, setter >>, sender' # "found" \/ UNCHANGED sender
      PROVE  Found'
  BY <1>1 DEF Found, Pushing
<1>2. CASE OwnerSteps
  BY <1>1, <1>2 DEF OwnerSteps, SpawnThread, startThread, stopThread, Join, notify_one, senderVars
<1>3. CASE RunnerSteps \/ SpuriousWakeup
  <2>1. CASE RunnerCheck
    BY <2>1 DEF RunnerCheck, Found, Pushing
  <2>2. CASE RunnerLoop \/ RunnerPop \/ RunnerWait \/ RunnerResume \/ SpuriousWakeup
    BY <2>2 DEF RunnerLoop, RunnerPop, RunnerWait, RunnerResume, SpuriousWakeup, Found
  <2>3. CASE RunnerSend \/ RunnerForget
    BY <2>3 DEF RunnerSend, RunnerForget, Found
  <2> QED
    BY <1>3, <2>1, <2>2, <2>3 DEF RunnerSteps
<1>4. ASSUME NEW t \in Setters, SetterSteps(t) \/ \E k \in Keys : setSignal(t, k)
      PROVE  Found'
  <2>1. CASE PublishPush(t)
    BY <2>1, PushFacts DEF Found
  <2>2. CASE ~PublishPush(t)
    BY <1>4, <2>2, PushingStays DEF Found
  <2> QED
    BY <2>1, <2>2
<1>5. CASE \/ UNCHANGED hVars
           \/ \E c \in Channels : ClientSteps(c) \/ Close(c)
           \/ \E id \in Ids : subscribe(id)
           \/ \E c \in Channels, id \in Ids : unsubscribe(c, id) \/ GrpcUnsubscribe(c, id)
  BY <1>1, <1>5, ConnectionFrame
<1> QED
  BY <1>2, <1>3, <1>4, <1>5 DEF HandlerNext

\* Nothing lets the sender sleep on work but a notification before its wait.
LEMMA AsleepStep ==
    ASSUME Shape, Locks, Asleep, [HandlerNext]_hVars
    PROVE  Asleep'
<1>1. ASSUME UNCHANGED << buffer, setter, sender, missed, threadRun, owner >>
      PROVE  Asleep'
  BY <1>1 DEF Asleep, Pushing
<1>2. CASE OwnerSteps
  BY <1>2, Zenon DEF OwnerSteps, SpawnThread, startThread, stopThread, Join, notify_one, senderVars,
              Asleep, Pushing
<1>3. CASE RunnerSteps \/ SpuriousWakeup
  <2>1. CASE RunnerLoop
    BY <2>1 DEF RunnerLoop, Asleep
  <2>2. CASE RunnerCheck
    BY <2>2 DEF RunnerCheck, Asleep, Pushing
  <2>3. CASE RunnerWait
    <3>1. ~Pushing
      BY <2>3 DEF RunnerWait, Locks, Pushing
    <3> QED
      BY <2>3, <3>1 DEF RunnerWait, Asleep
  <2>4. CASE RunnerPop \/ RunnerResume \/ SpuriousWakeup
    BY <2>4 DEF RunnerPop, RunnerResume, SpuriousWakeup, Asleep
  <2>5. CASE RunnerSend \/ RunnerForget
    BY <2>5 DEF RunnerSend, RunnerForget, Asleep
  <2> QED
    BY <1>3, <2>1, <2>2, <2>3, <2>4, <2>5 DEF RunnerSteps
<1>4. ASSUME NEW t \in Setters, SetterSteps(t) \/ \E k \in Keys : setSignal(t, k)
      PROVE  Asleep'
  <2>1. CASE PublishPush(t)
    BY <2>1, PushFacts, Zenon DEF Asleep
  <2>2. CASE ~PublishPush(t)
    BY <1>4, <2>2, PushingStays DEF Asleep
  <2> QED
    BY <2>1, <2>2
<1>5. CASE \/ UNCHANGED hVars
           \/ \E c \in Channels : ClientSteps(c) \/ Close(c)
           \/ \E id \in Ids : subscribe(id)
           \/ \E c \in Channels, id \in Ids : unsubscribe(c, id) \/ GrpcUnsubscribe(c, id)
  BY <1>1, <1>5, ConnectionFrame
<1> QED
  BY <1>2, <1>3, <1>4, <1>5 DEF HandlerNext

------------------------------------------------------------------------------
(* The invariant and what follows from it. *)

\* Every step of every thread keeps the invariant.
LEMMA HandlerStep == HandlerInv /\ [HandlerNext]_hVars => HandlerInv'
<1> SUFFICES ASSUME HandlerInv, [HandlerNext]_hVars PROVE HandlerInv'
  OBVIOUS
<1> USE DEF HandlerInv
<1>1. RestSubscribed' /\ Found' /\ Asleep'
  BY RestStep, FoundStep, AsleepStep
<1>2. CASE \/ OwnerSteps \/ RunnerLoop \/ RunnerCheck \/ RunnerWait \/ RunnerResume
           \/ SpuriousWakeup \/ UNCHANGED hVars
           \/ \E c \in Channels : ClientSteps(c) \/ Close(c)
           \/ \E id \in Ids : subscribe(id)
           \/ \E c \in Channels, id \in Ids : unsubscribe(c, id) \/ GrpcUnsubscribe(c, id)
  <2>1. /\ UNCHANGED << lockVars, buffer, sending, sent, setter, sets >>
        /\ sender' \in Taken <=> sender \in Taken
        /\ subscriptions' \subseteq Ids
    BY <1>2, OtherHandlerSteps
  <2> QED
    BY <1>1, <2>1, OtherShapeLocks
<1>3. CASE RunnerPop \/ RunnerSend \/ RunnerForget
  BY <1>1, <1>3, RunnerShapeLocks
<1>4. ASSUME NEW t \in Setters, SetterSteps(t) \/ \E k \in Keys : setSignal(t, k)
      PROVE  HandlerInv'
  BY <1>1, <1>4, SetterShapeLocks
<1> QED
  BY <1>2, <1>3, <1>4 DEF HandlerNext, RunnerSteps

\* HandlerInv is an invariant of the handler.
THEOREM HandlerInvariant == HandlerSpec => []HandlerInv
<1>1. HandlerInit => HandlerInv
  BY HandlerInitially
<1>2. HandlerInv /\ [HandlerNext]_hVars => HandlerInv'
  BY HandlerStep
<1> QED
  BY <1>1, <1>2, PTL DEF HandlerSpec

\* subThreadRunner never takes the front of an empty queue, although it looks at the
\* size without the mutex: for any number of setters and subscriptions.
THEOREM FrontAlwaysExists == HandlerSpec => []FrontExists
<1>1. HandlerInv => FrontExists
  BY DEF HandlerInv, Locks, Found, Pushing, FrontExists
<1> QED
  BY <1>1, HandlerInvariant, PTL

\* A sender that sleeps on notifications or on stopThread was notified between its
\* look and its wait; there is no other way.
THEOREM OnlyMissedSleep == HandlerSpec => []AsleepOnlyIfMissed
<1>1. HandlerInv => AsleepOnlyIfMissed
  BY DEF HandlerInv, Asleep, AsleepOnlyIfMissed
<1> QED
  BY <1>1, HandlerInvariant, PTL

\* Nothing is queued for an id that has been unsubscribed.
THEOREM NothingAfterUnsubscribe == HandlerSpec => NoneAfterUnsubscribe
<1>1. ASSUME HandlerInv, [HandlerNext]_hVars, NEW id \in Ids, id \notin subscriptions
      PROVE  Pending(id)' \subseteq Pending(id)
  <2> USE <1>1 DEF HandlerInv
  <2>1. ASSUME UNCHANGED buffer PROVE Pending(id)' \subseteq Pending(id)
    BY <2>1 DEF Pending
  <2>2. CASE RunnerPop
    <3>1. buffer # << >> /\ buffer' = Tail(buffer)
      BY <2>2 DEF RunnerPop, Found, Pushing, Locks
    <3>2. /\ Len(buffer) \in Nat \ {0} /\ DOMAIN buffer = 1 .. Len(buffer)
          /\ DOMAIN buffer' = 1 .. Len(buffer) - 1
          /\ \A i \in 1 .. Len(buffer) - 1 : buffer'[i] = buffer[i + 1]
      BY <3>1, TailNote DEF Shape
    <3>3. \A i \in DOMAIN buffer' : i + 1 \in DOMAIN buffer /\ buffer'[i] = buffer[i + 1]
      BY <3>2
    <3> QED
      BY <3>3 DEF Pending
  <2>3. ASSUME NEW t \in Setters, PublishPush(t) PROVE Pending(id)' \subseteq Pending(id)
    <3> DEFINE note == [id |-> setter[t].id, value |-> setter[t].value]
    <3>1. setter[t].id # id /\ setter[t] \in SetterState /\ setter[t].at = "push"
      BY <2>3 DEF PublishPush, RestSubscribed, Shape
    <3>2. note \in Note /\ buffer' = Append(buffer, note) /\ note.id # id
      BY <2>3, <3>1, SetterFields DEF PublishPush, Note
    <3> HIDE DEF note
    <3>3. \A i \in DOMAIN buffer' :
              buffer'[i].id = id => i \in DOMAIN buffer /\ buffer'[i] = buffer[i]
      BY <3>2, AppendNote DEF Shape
    <3> QED
      BY <3>3 DEF Pending
  <2>4. ASSUME NEW t \in Setters, SetterSteps(t) \/ \E k \in Keys : setSignal(t, k),
               ~PublishPush(t)
        PROVE  UNCHANGED buffer
    BY <2>4, PushingStays, Zenon
  <2>5. CASE RunnerSend \/ RunnerForget
    BY <2>1, <2>5 DEF RunnerSend, RunnerForget
  <2> QED
    BY <2>1, <2>2, <2>3, <2>4, <2>5, OtherHandlerSteps DEF HandlerNext, RunnerSteps
<1>2. HandlerInv /\ [HandlerNext]_hVars =>
          [\A id \in Ids : since[id] # Never /\ id \notin subscriptions
                           => Pending(id)' \subseteq Pending(id)]_hVars
  BY <1>1
<1> QED
  BY <1>2, HandlerInvariant, PTL DEF HandlerSpec, NoneAfterUnsubscribe

------------------------------------------------------------------------------
(* The order of values.  A setter keeps rwMutex until its value is in the   *)
(* buffer for every subscription, so a value that is still to be queued for *)
(* an id is newer than everything queued, taken or sent for it.             *)

\* The value of setter t has still to be queued for id.
Due(t, id) ==
    \/ setter[t].at = "publish"
    \/ setter[t].at \in {"each", "push"} /\ id \in setter[t].rest
    \/ setter[t].at = "push" /\ id = setter[t].id

\* Every value sent for id, taken for it, or queued for it, is below n.
SentBelow(id, n) == \A i \in DOMAIN sent[id] : sent[id][i] < n
TakenBelow(id, n) == sender \in Taken /\ sending[1].id = id => sending[1].value < n
QueuedBelow(id, n) == \A i \in DOMAIN buffer : buffer[i].id = id => buffer[i].value < n

\* Every value of id that is on its way is below n.
Below(id, n) == SentBelow(id, n) /\ TakenBelow(id, n) /\ QueuedBelow(id, n)

\* Sent before taken before queued.
TakenInOrder == sender \in Taken => SentBelow(sending[1].id, sending[1].value)

QueuedInOrder ==
    \A j \in DOMAIN buffer :
        /\ SentBelow(buffer[j].id, buffer[j].value)
        /\ TakenBelow(buffer[j].id, buffer[j].value)
        /\ \A i \in DOMAIN buffer :
              i < j /\ buffer[i].id = buffer[j].id => buffer[i].value < buffer[j].value

\* What is due is newer than what is on its way, and nothing is newer than the last set.
DueIsNewest ==
    /\ \A id \in Ids : Below(id, sets + 1)
    /\ \A t \in Setters : setter[t].at # "idle" =>
          /\ setter[t].value = sets
          /\ \A id \in Ids : Due(t, id) => Below(id, sets)

Ordered == SentInOrder /\ TakenInOrder /\ QueuedInOrder /\ DueIsNewest

------------------------------------------------------------------------------
\* At first nothing is on its way.
LEMMA OrderedInitially == HandlerInit => Ordered
<1> SUFFICES ASSUME HandlerInit PROVE Ordered
  OBVIOUS
<1>1. \A t \in Setters : setter[t].at = "idle"
  BY DEF HandlerInit, Idle
<1>2. buffer = << >> /\ sender \notin Taken /\ DOMAIN << >> = {} /\ \A id \in Ids : sent[id] = << >>
  BY DEF HandlerInit, Taken
<1>3. \A n : \A id \in Ids : SentBelow(id, n)
  BY <1>2 DEF SentBelow
<1>4. \A id, n : TakenBelow(id, n) /\ QueuedBelow(id, n)
  BY <1>2 DEF TakenBelow, QueuedBelow
<1>5. SentInOrder
  BY <1>2 DEF SentInOrder
<1>6. TakenInOrder /\ QueuedInOrder
  BY <1>2, Zenon DEF TakenInOrder, QueuedInOrder
<1>7. DueIsNewest
  BY <1>1, <1>3, <1>4, Zenon DEF DueIsNewest, Below
<1> QED
  BY <1>5, <1>6, <1>7 DEF Ordered

\* A step that moves no notification and no setter keeps the order.
LEMMA OrderedFrame ==
    ASSUME Ordered, UNCHANGED << buffer, sending, sent, setter, sets >>,
           sender' \in Taken <=> sender \in Taken
    PROVE  Ordered'
  BY DEF Ordered, SentInOrder, TakenInOrder, QueuedInOrder, DueIsNewest, Below, SentBelow,
         TakenBelow, QueuedBelow, Due

\* The front of the buffer is the oldest of what is queued.
LEMMA OrderedPop ==
    ASSUME Shape, Locks, Found, Ordered, RunnerPop
    PROVE  Ordered'
<1>1. /\ sender = "found" /\ sender' = "send" /\ subMutex = {} /\ buffer # << >>
      /\ UNCHANGED << sent, setter, sets >>
      /\ sending' = << Head(buffer) >> /\ buffer' = Tail(buffer)
  BY Zenon DEF RunnerPop, Found, Pushing, Locks, dataVars
<1> DEFINE n == Len(buffer)
<1>2. /\ n \in Nat \ {0} /\ DOMAIN buffer = 1 .. n /\ DOMAIN buffer' = 1 .. n - 1
      /\ \A i \in 1 .. n - 1 : buffer'[i] = buffer[i + 1]
      /\ sending'[1] = buffer[1] /\ \A i \in 1 .. n : buffer[i] \in Note
  BY <1>1, TailNote DEF Shape
<1> HIDE DEF n
<1>3. SentInOrder'
  BY <1>1 DEF Ordered, SentInOrder
<1>4. TakenInOrder'
  BY <1>1, <1>2 DEF Ordered, TakenInOrder, QueuedInOrder, SentBelow
<1>5. QueuedInOrder'
  <2> SUFFICES ASSUME NEW j \in 1 .. n - 1
               PROVE  /\ SentBelow(buffer[j].id, buffer[j].value)'
                      /\ TakenBelow(buffer[j].id, buffer[j].value)'
                      /\ \A i \in 1 .. n - 1 : i < j /\ buffer'[i].id = buffer'[j].id
                                               => buffer'[i].value < buffer'[j].value
    BY <1>1, <1>2, Zenon DEF QueuedInOrder, SentBelow, TakenBelow
  <2>1. buffer'[j] = buffer[j + 1] /\ j + 1 \in DOMAIN buffer /\ 1 \in DOMAIN buffer /\ 1 < j + 1
    BY <1>2
  <2>2. SentBelow(buffer[j].id, buffer[j].value)'
    BY <1>1, <2>1, Zenon DEF Ordered, QueuedInOrder, SentBelow
  <2>3. TakenBelow(buffer[j].id, buffer[j].value)'
    BY <1>2, <2>1 DEF Ordered, QueuedInOrder, TakenBelow
  <2>4. ASSUME NEW i \in 1 .. n - 1, i < j, buffer'[i].id = buffer'[j].id
        PROVE  buffer'[i].value < buffer'[j].value
    <3>1. buffer'[i] = buffer[i + 1] /\ i + 1 \in DOMAIN buffer /\ i + 1 < j + 1
      BY <1>2, <2>4
    <3> QED
      BY <2>1, <2>4, <3>1 DEF Ordered, QueuedInOrder
  <2> QED
    BY <2>2, <2>3, <2>4
<1>6. ASSUME NEW id, NEW m, Below(id, m) PROVE Below(id, m)'
  BY <1>1, <1>2, <1>6 DEF Below, SentBelow, TakenBelow, QueuedBelow
<1>7. DueIsNewest'
  BY <1>1, <1>6 DEF Ordered, DueIsNewest, Due
<1> QED
  BY <1>3, <1>4, <1>5, <1>7, Zenon DEF Ordered

\* What was sent stays, and what is sent comes last.
LEMMA SentGrows ==
    ASSUME Shape, Locks, RunnerSend, NEW x, x = sending[1].id, NEW v, v = sending[1].value,
           NEW k, k = Len(sent[x])
    PROVE  /\ x \in Ids /\ v \in Nat /\ k \in Nat /\ DOMAIN sent[x] = 1 .. k
           /\ ~UNCHANGED sent =>
                 /\ \A id \in Ids \ {x} : sent'[id] = sent[id]
                 /\ DOMAIN sent'[x] = 1 .. k + 1
                 /\ \A i \in 1 .. k + 1 : sent'[x][i] = IF i = k + 1 THEN v ELSE sent[x][i]
<1>1. /\ sending[1] \in Note
      /\ \/ UNCHANGED sent
         \/ \A id \in Ids : sent'[id] = IF id = sending[1].id
                                       THEN Append(sent[id], sending[1].value) ELSE sent[id]
  BY SendFacts
<1>2. x \in Ids /\ v \in Nat
  BY <1>1 DEF Note
<1>3. sent[x] \in Seq(Nat) /\ k \in Nat /\ DOMAIN sent[x] = 1 .. k
  BY <1>2 DEF Shape
<1>4. ASSUME ~UNCHANGED sent
      PROVE  /\ \A id \in Ids \ {x} : sent'[id] = sent[id]
             /\ sent'[x] = Append(sent[x], v)
  BY <1>1, <1>2, <1>4, Zenon
<1>5. /\ DOMAIN Append(sent[x], v) = 1 .. k + 1
      /\ \A i \in 1 .. k + 1 : Append(sent[x], v)[i] = IF i = k + 1 THEN v ELSE sent[x][i]
  BY <1>2, <1>3, AppendNote
<1> QED
  BY <1>2, <1>3, <1>4, <1>5, ZenonT(30)

\* What was taken and is sent is no newer for it.
LEMMA SendKeepsBelow ==
    ASSUME Shape, Locks, RunnerSend, NEW id \in Ids, NEW m, SentBelow(id, m), TakenBelow(id, m)
    PROVE  SentBelow(id, m)' /\ TakenBelow(id, m)'
<1>1. /\ sender = "send" /\ sender \in Taken
      /\ \/ sender' = "loop"
         \/ sender' = "forget" /\ UNCHANGED sending
  BY SendFacts DEF Taken
<1>2. SentBelow(id, m)'
  <2>1. PICK x, v, k : x = sending[1].id /\ v = sending[1].value /\ k = Len(sent[x])
    BY Zenon
  <2>2. CASE UNCHANGED sent
    BY <2>2 DEF SentBelow
  <2>3. CASE ~UNCHANGED sent
    <3>1. /\ x \in Ids /\ k \in Nat /\ DOMAIN sent[x] = 1 .. k
          /\ \A y \in Ids \ {x} : sent'[y] = sent[y]
          /\ DOMAIN sent'[x] = 1 .. k + 1
          /\ \A i \in 1 .. k + 1 : sent'[x][i] = IF i = k + 1 THEN v ELSE sent[x][i]
      BY <2>1, <2>3, SentGrows
    <3>2. CASE id = x
      <4>1. \A i \in 1 .. k : sent[x][i] < m
        BY <3>1, <3>2 DEF SentBelow
      <4>2. v < m
        BY <1>1, <2>1, <3>2 DEF TakenBelow
      <4>3. \A i \in 1 .. k + 1 : sent'[x][i] < m
        BY <3>1, <4>1, <4>2
      <4> QED
        BY <3>1, <3>2, <4>3, Zenon DEF SentBelow
    <3>3. CASE id # x
      BY <3>1, <3>3 DEF SentBelow
    <3> QED
      BY <3>2, <3>3
  <2> QED
    BY <2>2, <2>3
<1>3. TakenBelow(id, m)'
  BY <1>1 DEF TakenBelow, Taken
<1> QED
  BY <1>2, <1>3

\* What is sent is newer than what was sent, and older than what is queued.
LEMMA OrderedSend ==
    ASSUME Shape, Locks, Ordered, RunnerSend
    PROVE  Ordered'
<1>1. /\ sender = "send" /\ sender \in Taken
      /\ UNCHANGED << buffer, setter, sets >>
      /\ \/ sender' = "loop"
         \/ sender' = "forget" /\ UNCHANGED << sending, sent >>
  BY SendFacts DEF Taken
<1>2. PICK x, v, k : x = sending[1].id /\ v = sending[1].value /\ k = Len(sent[x])
  BY Zenon
<1>3. x \in Ids /\ SentBelow(x, v)
  BY <1>1, <1>2, SentGrows DEF Ordered, TakenInOrder
<1>4. \A j \in DOMAIN buffer : buffer[j] \in Note
  BY DEF Shape
<1>5. SentInOrder'
  <2>1. SentInOrder
    BY DEF Ordered
  <2>2. CASE UNCHANGED sent
    BY <2>1, <2>2 DEF SentInOrder
  <2>3. CASE ~UNCHANGED sent
    <3>1. /\ k \in Nat /\ DOMAIN sent[x] = 1 .. k
          /\ \A id \in Ids \ {x} : sent'[id] = sent[id]
          /\ DOMAIN sent'[x] = 1 .. k + 1
          /\ \A i \in 1 .. k + 1 : sent'[x][i] = IF i = k + 1 THEN v ELSE sent[x][i]
      BY <1>2, <2>3, SentGrows
    <3>2. /\ \A id \in Ids \ {x} : sent'[id] = sent[id]
          /\ DOMAIN sent'[x] = 1 .. k + 1
      BY <3>1
    <3>3. sent'[x][k + 1] = v /\ \A i \in 1 .. k : sent'[x][i] = sent[x][i]
      BY <3>1
    <3>4. ASSUME NEW i \in 1 .. k + 1, NEW j \in 1 .. k + 1, i < j
          PROVE  sent'[x][i] < sent'[x][j]
      <4>1. i \in 1 .. k /\ (j = k + 1 \/ j \in 1 .. k)
        BY <3>1, <3>4
      <4>2. CASE j = k + 1
        BY <1>3, <3>1, <3>3, <4>1, <4>2 DEF SentBelow
      <4>3. CASE j \in 1 .. k
        BY <1>3, <2>1, <3>1, <3>3, <3>4, <4>1, <4>3 DEF SentInOrder
      <4> QED
        BY <4>1, <4>2, <4>3
    <3> QED
      BY <1>3, <2>1, <3>2, <3>4, Zenon DEF SentInOrder
  <2> QED
    BY <2>2, <2>3
<1>6. TakenInOrder'
  BY <1>1 DEF Ordered, TakenInOrder, SentBelow, Taken
<1>7. QueuedInOrder'
  <2> SUFFICES ASSUME NEW j \in DOMAIN buffer
               PROVE  /\ SentBelow(buffer[j].id, buffer[j].value)'
                      /\ TakenBelow(buffer[j].id, buffer[j].value)'
    BY <1>1 DEF Ordered, QueuedInOrder
  <2>1. buffer[j].id \in Ids
    BY <1>4 DEF Note
  <2>2. /\ SentBelow(buffer[j].id, buffer[j].value)
        /\ TakenBelow(buffer[j].id, buffer[j].value)
    BY DEF Ordered, QueuedInOrder
  <2> QED
    BY <1>1, <2>1, <2>2, SendKeepsBelow, Zenon DEF SentBelow, TakenBelow
<1>8. ASSUME NEW id \in Ids, NEW m, Below(id, m) PROVE Below(id, m)'
  BY <1>1, <1>8, SendKeepsBelow DEF Below, QueuedBelow
<1>9. DueIsNewest'
  BY <1>1, <1>8, Zenon DEF Ordered, DueIsNewest, Due
<1> QED
  BY <1>5, <1>6, <1>7, <1>9 DEF Ordered

\* A notification for a client that is gone is dropped.
LEMMA OrderedForget ==
    ASSUME Ordered, RunnerForget
    PROVE  Ordered'
<1>1. sender' \notin Taken /\ UNCHANGED << buffer, sent, setter, sets >>
  BY Zenon DEF RunnerForget, Taken, dataVars
<1> QED
  BY <1>1 DEF Ordered, SentInOrder, TakenInOrder, QueuedInOrder, DueIsNewest, Below, SentBelow,
              TakenBelow, QueuedBelow, Due

\* What is below a value is below the next.
LEMMA LaterIsAbove ==
    ASSUME Shape, NEW id \in Ids, NEW n \in Nat, Below(id, n + 1)
    PROVE  Below(id, n + 2)
<1>1. \A i \in DOMAIN sent[id] : sent[id][i] \in Nat
  BY DEF Shape
<1>2. \A i \in DOMAIN buffer : buffer[i] \in Note
  BY DEF Shape
<1>3. ASSUME sender \in Taken PROVE sending[1] \in Note
  <2>1. sending \in Seq(Note) /\ Len(sending) = 1
    BY <1>3 DEF Shape
  <2> QED
    BY <2>1
<1> QED
  BY <1>1, <1>2, <1>3 DEF Below, SentBelow, TakenBelow, QueuedBelow, Note

\* A setter queues its value, the last set, for one id after the other.
LEMMA OrderedSetter ==
    ASSUME Shape, Locks, RestSubscribed, Ordered, NEW t \in Setters,
           SetterSteps(t) \/ \E k \in Keys : setSignal(t, k)
    PROVE  Ordered'
<1>1. /\ \A u \in Setters \ {t} : setter'[u] = setter[u]
      /\ UNCHANGED << sending, sent >>
      /\ sender' \in Taken <=> sender \in Taken
  BY SetterMoves DEF Taken
<1>2. setter[t] \in SetterState
  BY Zenon DEF Shape
<1>3. ASSUME UNCHANGED buffer PROVE SentInOrder' /\ TakenInOrder' /\ QueuedInOrder'
  BY <1>1, <1>3, ZenonT(30) DEF Ordered, SentInOrder, TakenInOrder, QueuedInOrder, SentBelow, TakenBelow
<1>4. ASSUME UNCHANGED buffer, NEW id, NEW m, Below(id, m) PROVE Below(id, m)'
  BY <1>1, <1>4, Zenon DEF Below, SentBelow, TakenBelow, QueuedBelow
<1>5. CASE \E k \in Keys : setSignal(t, k)
  <2>1. /\ rwMutex = {} /\ UNCHANGED buffer /\ sets' = sets + 1 /\ sets \in Nat
        /\ setter'[t].at = "publish" /\ setter'[t].value = sets + 1
    BY <1>5, SetterAfter, Zenon DEF setSignal, Shape
  <2>2. \A u \in Setters : setter[u].at = "idle"
    <3>1. \A u \in Setters : setter[u] = Idle
      BY <2>1 DEF Locks
    <3> QED
      BY <3>1 DEF Idle
  <2>3. \A id \in Ids : Below(id, sets + 1)
    BY Zenon DEF Ordered, DueIsNewest
  <2>4. \A id \in Ids : Below(id, sets)'
    BY <1>1, <2>1, <2>3, Zenon DEF Below, SentBelow, TakenBelow, QueuedBelow
  <2>5. \A id \in Ids : Below(id, sets + 1)'
    <3>1. \A id \in Ids : Below(id, sets + 2)
      BY <2>1, <2>3, LaterIsAbove
    <3> QED
      BY <1>1, <2>1, <3>1 DEF Below, SentBelow, TakenBelow, QueuedBelow
  <2>6. DueIsNewest'
    BY <1>1, <2>1, <2>2, <2>4, <2>5, Zenon DEF DueIsNewest
  <2> QED
    BY <1>3, <2>1, <2>6, ZenonT(30) DEF Ordered
<1>6. ASSUME UNCHANGED << buffer, sets >>,
             setter'[t].at # "idle" =>
                 setter[t].at # "idle" /\ setter'[t].value = setter[t].value,
             \A id \in Ids : Due(t, id)' => Due(t, id) /\ setter'[t].at # "idle"
      PROVE  Ordered'
  <2>1. \A id \in Ids : Below(id, sets + 1)'
    BY <1>1, <1>6, Zenon DEF Ordered, DueIsNewest, Below, SentBelow, TakenBelow, QueuedBelow
  <2>2. \A id \in Ids : Below(id, sets) => Below(id, sets)'
    BY <1>1, <1>6 DEF Below, SentBelow, TakenBelow, QueuedBelow
  <2>3. ASSUME NEW u \in Setters, setter'[u].at # "idle"
        PROVE  /\ setter'[u].value = sets'
               /\ \A id \in Ids : Due(u, id)' => Below(id, sets)'
    <3>1. CASE u = t
      BY <1>6, <2>2, <2>3, <3>1, ZenonT(30) DEF Ordered, DueIsNewest
    <3>2. CASE u # t
      <4>1. setter'[u] = setter[u]
        BY <1>1, <3>2
      <4>2. \A id \in Ids : Due(u, id)' => Due(u, id)
        BY <4>1 DEF Due
      <4> QED
        BY <1>6, <2>2, <2>3, <4>1, <4>2 DEF Ordered, DueIsNewest
    <3> QED
      BY <3>1, <3>2, Zenon
  <2>4. DueIsNewest'
    BY <2>1, <2>3 DEF DueIsNewest
  <2> QED
    BY <1>3, <1>6, <2>4, Zenon DEF Ordered
<1>7. CASE publishForVSSPath(t)
  <2>1. /\ setter[t].at = "publish" /\ setter'[t].at = "each"
        /\ setter'[t].value = setter[t].value /\ UNCHANGED << buffer, sets >>
    BY <1>7, SetterAfter, Zenon DEF publishForVSSPath, dataVars
  <2> QED
    BY <1>6, <2>1 DEF Due
<1>8. CASE PublishEach(t)
  <2>1. /\ setter[t].at = "each" /\ setter'[t].at = "push" /\ setter'[t].id \in setter[t].rest
        /\ setter'[t].rest \subseteq setter[t].rest
        /\ setter'[t].value = setter[t].value /\ UNCHANGED << buffer, sets >>
    BY <1>8, SetterAfter, Zenon DEF PublishEach, dataVars
  <2> QED
    BY <1>6, <2>1 DEF Due
<1>9. CASE PublishReturn(t)
  <2>1. setter'[t] = Idle /\ UNCHANGED << buffer, sets >>
    BY <1>9, SetterAfter, Zenon DEF PublishReturn, dataVars
  <2>2. setter'[t].at = "idle"
    BY <2>1 DEF Idle
  <2> QED
    BY <1>6, <2>1, <2>2 DEF Due
<1>10. CASE PublishPush(t)
  <2> DEFINE x == setter[t].id
             n == Len(buffer)
  <2>1. /\ setter[t].at = "push" /\ setter'[t].at = "each" /\ setter'[t].value = setter[t].value
        /\ setter'[t].rest = setter[t].rest /\ x \notin setter[t].rest /\ x \in Ids
        /\ UNCHANGED sets /\ sets \in Nat /\ setter[t] # Idle /\ setter[t].value = sets
    BY <1>2, <1>10, SetterAfter, SetterFields
    DEF PublishPush, dataVars, RestSubscribed, Shape, Ordered, DueIsNewest
  <2>2. [id |-> x, value |-> sets] \in Note /\ buffer' = Append(buffer, [id |-> x, value |-> sets])
    BY <1>10, <2>1, Zenon DEF PublishPush, Note
  <2>3. /\ n \in Nat /\ DOMAIN buffer = 1 .. n /\ DOMAIN buffer' = 1 .. n + 1
        /\ buffer'[n + 1] = [id |-> x, value |-> sets]
        /\ \A i \in 1 .. n : buffer'[i] = buffer[i] /\ buffer[i] \in Note
    <3>1. buffer \in Seq(Note)
      BY Zenon DEF Shape
    <3> DEFINE note == [id |-> x, value |-> sets]
    <3>2. note \in Note /\ buffer' = Append(buffer, note)
      BY <2>2, Zenon
    <3> HIDE DEF note
    <3>3. Pushed(Note, buffer, note, buffer')
      BY <3>1, <3>2, AppendPushes, Zenon
    <3> QED
      BY <3>3, Zenon DEF note, Pushed
  <2> HIDE DEF x, n
  <2>4. Below(x, sets)
    BY <2>1 DEF Ordered, DueIsNewest, Due, x
  <2>5. \A u \in Setters \ {t} : setter'[u].at = "idle"
    <3>1. \A u \in Setters \ {t} : setter[u] = Idle
      BY <2>1 DEF Locks
    <3> QED
      BY <1>1, <3>1 DEF Idle
  <2>6. SentInOrder' /\ TakenInOrder'
    BY <1>1, Zenon DEF Ordered, SentInOrder, TakenInOrder, SentBelow
  <2>7. QueuedInOrder'
    <3> SUFFICES ASSUME NEW j \in 1 .. n + 1
                 PROVE  /\ SentBelow(buffer[j].id, buffer[j].value)'
                        /\ TakenBelow(buffer[j].id, buffer[j].value)'
                        /\ \A i \in 1 .. n + 1 : i < j /\ buffer'[i].id = buffer'[j].id
                                                 => buffer'[i].value < buffer'[j].value
      BY <2>3, Zenon DEF QueuedInOrder
    <3>1. CASE j = n + 1
      <4>1. buffer'[j].id = x /\ buffer'[j].value = sets
        BY <2>3, <3>1
      <4>2. /\ \A i \in DOMAIN sent'[x] : sent'[x][i] < sets
            /\ sender' \in Taken /\ sending'[1].id = x => sending'[1].value < sets
        BY <1>1, <2>4 DEF Below, SentBelow, TakenBelow
      <4>3. \A i \in 1 .. n : buffer'[i].id = x => buffer'[i].value < sets
        BY <2>3, <2>4 DEF Below, QueuedBelow
      <4>4. \A i \in 1 .. n + 1 : i < j => i \in 1 .. n
        BY <2>3, <3>1
      <4> QED
        BY <2>1, <4>1, <4>2, <4>3, <4>4 DEF SentBelow, TakenBelow
    <3>2. CASE j # n + 1
      <4>1. j \in DOMAIN buffer /\ buffer'[j] = buffer[j]
        BY <2>3, <3>2
      <4>2. ASSUME NEW i \in 1 .. n + 1, i < j
            PROVE  i \in DOMAIN buffer /\ buffer'[i] = buffer[i]
        BY <2>3, <3>2, <4>2
      <4>3. \A i \in 1 .. n + 1 : i < j /\ buffer'[i].id = buffer'[j].id
                                  => buffer'[i].value < buffer'[j].value
        BY <4>1, <4>2, Zenon DEF Ordered, QueuedInOrder
      <4>4. SentBelow(buffer[j].id, buffer[j].value)' /\ TakenBelow(buffer[j].id, buffer[j].value)'
        BY <1>1, <4>1, Zenon DEF Ordered, QueuedInOrder, SentBelow, TakenBelow
      <4> QED
        BY <4>3, <4>4
    <3> QED
      BY <3>1, <3>2
  <2>8. \A id \in Ids : Below(id, sets + 1)'
    <3> SUFFICES ASSUME NEW id \in Ids, Below(id, sets + 1) PROVE Below(id, sets + 1)'
      BY Zenon DEF Ordered, DueIsNewest
    <3>1. SentBelow(id, sets + 1)' /\ TakenBelow(id, sets + 1)'
      BY <1>1, <2>1, Zenon DEF Below, SentBelow, TakenBelow
    <3>2. \A i \in 1 .. n : buffer'[i].id = id => buffer'[i].value < sets + 1
      BY <2>3 DEF Below, QueuedBelow
    <3>3. buffer'[n + 1].value < sets + 1
      <4>1. buffer'[n + 1].value = sets
        BY <2>3
      <4> QED
        BY <2>1, <4>1
    <3>4. QueuedBelow(id, sets + 1)'
      BY <2>1, <2>3, <3>2, <3>3 DEF QueuedBelow
    <3> QED
      BY <3>1, <3>4, Zenon DEF Below
  <2>9. \A id \in Ids : Due(t, id)' => Due(t, id) /\ id # x
    BY <2>1 DEF Due
  <2>10. \A id \in Ids : Due(t, id)' => Below(id, sets)'
    <3> SUFFICES ASSUME NEW id \in Ids, id # x, Below(id, sets) PROVE Below(id, sets)'
      BY <2>1, <2>9, ZenonT(30) DEF Ordered, DueIsNewest
    <3>1. SentBelow(id, sets)' /\ TakenBelow(id, sets)'
      BY <1>1, <2>1, ZenonT(30) DEF Below, SentBelow, TakenBelow
    <3>2. ASSUME NEW i \in 1 .. n + 1, buffer'[i].id = id PROVE buffer'[i].value < sets
      <4>1. i \in DOMAIN buffer /\ buffer'[i] = buffer[i]
        BY <2>3, <3>2
      <4> QED
        BY <3>2, <4>1 DEF Below, QueuedBelow
    <3> QED
      BY <2>1, <2>3, <3>1, <3>2, ZenonT(30) DEF Below, QueuedBelow
  <2>11. DueIsNewest'
    BY <2>1, <2>5, <2>8, <2>10 DEF DueIsNewest
  <2> QED
    BY <2>6, <2>7, <2>11, Zenon DEF Ordered
<1> QED
  BY <1>5, <1>7, <1>8, <1>9, <1>10 DEF SetterSteps

\* Ordered is an invariant of the handler.
THEOREM OrderInvariant == HandlerSpec => []Ordered
<1>1. HandlerInit => Ordered
  BY OrderedInitially
<1>2. HandlerInv /\ Ordered /\ [HandlerNext]_hVars => Ordered'
  <2> SUFFICES ASSUME HandlerInv, Ordered, [HandlerNext]_hVars PROVE Ordered'
    OBVIOUS
  <2>1. Shape /\ Locks /\ RestSubscribed /\ Found
    BY DEF HandlerInv
  <2>2. CASE \/ OwnerSteps \/ RunnerLoop \/ RunnerCheck \/ RunnerWait \/ RunnerResume
             \/ SpuriousWakeup \/ UNCHANGED hVars
             \/ \E c \in Channels : ClientSteps(c) \/ Close(c)
             \/ \E id \in Ids : subscribe(id)
             \/ \E c \in Channels, id \in Ids : unsubscribe(c, id) \/ GrpcUnsubscribe(c, id)
    BY <2>1, <2>2, OtherHandlerSteps, OrderedFrame
  <2>3. CASE RunnerPop \/ RunnerSend \/ RunnerForget
    BY <2>1, <2>3, OrderedPop, OrderedSend, OrderedForget
  <2> QED
    BY <2>1, <2>2, <2>3, OrderedSetter DEF HandlerNext, RunnerSteps
<1> QED
  BY <1>1, <1>2, HandlerInvariant, PTL DEF HandlerSpec

\* Every client gets the values of a subscription in the order in which setSignal set
\* them, none twice.
THEOREM AlwaysInOrder == HandlerSpec => []SentInOrder
<1>1. Ordered => SentInOrder
  BY DEF Ordered
<1> QED
  BY <1>1, OrderInvariant, PTL

------------------------------------------------------------------------------
(* The last value arrives: from setSignal on, the current value of a key   *)
(* is due, queued, taken or sent for everyone who wants it, and nothing    *)
(* newer is on its way to them.                                            *)

\* The clients, the tree and the history of subscriptions.
ClientShape ==
    /\ client = [c \in Channels |-> client[c]]
    /\ data_tree \in [Keys -> Nat]
    /\ since \in [Ids -> Int]

\* A setter that is under way has the current value of its key, for that key's ids.
Carries ==
    \A t \in Setters :
        /\ setter[t].at # "idle" => data_tree[setter[t].key] = sets
        /\ setter[t].at \in {"each", "push"} => \A id \in setter[t].rest : KeyOf[id] = setter[t].key
        /\ setter[t].at = "push" => KeyOf[setter[t].id] = setter[t].key

\* Nothing on its way to a subscription is newer than the value of its key.
NotNewer ==
    /\ \A k \in Keys : data_tree[k] <= sets
    /\ \A id \in Ids : Below(id, data_tree[KeyOf[id]] + 1)

Gone(id) == client[ChannelOf[id]].at = "gone"

\* Only a client that is gone is forgotten.
OnlyGoneForgotten == sender = "forget" => Gone(sending[1].id)

\* The client of id is to get the current value.
Wants(id) ==
    /\ id \in subscriptions /\ ChannelOf[id] \notin GrpcChannels /\ ~Gone(id)
    /\ data_tree[KeyOf[id]] > since[id]

IsDue(id) == \E t \in Setters : Due(t, id) /\ setter[t].key = KeyOf[id]
IsQueued(id, n) == \E i \in DOMAIN buffer : buffer[i].id = id /\ buffer[i].value = n
IsTaken(id, n) == sender \in Taken /\ sending[1].id = id /\ sending[1].value = n
IsSent(id, n) == \E i \in DOMAIN sent[id] : sent[id][i] = n

OnItsWay(id) ==
    LET now == data_tree[KeyOf[id]]
    IN  IsDue(id) \/ IsQueued(id, now) \/ IsTaken(id, now) \/ IsSent(id, now)

LatestInv ==
    /\ ClientShape /\ Carries /\ NotNewer /\ OnlyGoneForgotten
    /\ \A id \in Ids : Wants(id) => OnItsWay(id)

\* At first there is nothing to send.
LEMMA LatestInitially == HandlerInit => LatestInv
<1> SUFFICES ASSUME HandlerInit PROVE LatestInv
  OBVIOUS
<1>1. \A t \in Setters : setter[t].at = "idle"
  BY DEF HandlerInit, Idle
<1>2. ClientShape
  BY DEF HandlerInit, ClientShape, Never
<1>3. Carries
  BY <1>1, Zenon DEF Carries
<1>4. NotNewer
  BY HandlerAssumption
  DEF HandlerInit, NotNewer, Below, SentBelow, TakenBelow, QueuedBelow, Taken
<1>5. OnlyGoneForgotten /\ \A id \in Ids : ~Wants(id)
  BY DEF HandlerInit, OnlyGoneForgotten, Wants
<1> QED
  BY <1>2, <1>3, <1>4, <1>5 DEF LatestInv

\* A step that moves no notification and no setter, sets nothing and creates no new
\* want leaves everything on its way.
LEMMA LatestFrame ==
    ASSUME Shape, LatestInv,
           UNCHANGED << buffer, sending, sent, setter, sets, data_tree >>,
           sender' \in Taken <=> sender \in Taken, sender' = "forget" => sender = "forget",
           ClientShape',
           \A id \in Ids : Gone(id) => Gone(id)',
           \A id \in Ids : Wants(id)' => Wants(id)
    PROVE  LatestInv'
<1>1. Carries' /\ NotNewer'
  BY ZenonT(30) DEF LatestInv, Carries, NotNewer, Below, SentBelow, TakenBelow, QueuedBelow
<1>2. OnlyGoneForgotten'
  <2> SUFFICES ASSUME sender' = "forget" PROVE Gone(sending[1].id)'
    BY DEF OnlyGoneForgotten
  <2>1. sender \in Taken
    BY DEF Taken
  <2>2. sending \in Seq(Note) /\ Len(sending) = 1
    BY <2>1 DEF Shape
  <2>3. sending[1] \in Note
    BY <2>2
  <2>4. sending[1].id \in Ids /\ Gone(sending[1].id)
    BY <2>3 DEF Note, LatestInv, OnlyGoneForgotten
  <2> QED
    BY <2>4, Zenon DEF Gone
<1>3. \A id \in Ids : OnItsWay(id) => OnItsWay(id)'
  BY DEF OnItsWay, IsDue, IsQueued, IsTaken, IsSent, Due
<1> QED
  BY <1>1, <1>2, <1>3, Zenon DEF LatestInv

\* The owner and the sender, where it only looks and waits.
LEMMA LatestQuiet ==
    ASSUME Shape, LatestInv,
           \/ OwnerSteps \/ RunnerLoop \/ RunnerCheck \/ RunnerWait \/ RunnerResume
           \/ SpuriousWakeup \/ UNCHANGED hVars
    PROVE  LatestInv'
<1>1. /\ UNCHANGED << buffer, sending, sent, setter, sets >>
      /\ sender' \in Taken <=> sender \in Taken
      /\ sender \in Taken => sender' = sender
  BY OtherHandlerSteps, Zenon
<1>2. UNCHANGED << subscriptions, client, since, data_tree >>
  BY DEF OwnerSteps, SpawnThread, startThread, stopThread, Join, RunnerLoop, RunnerCheck,
         RunnerWait, RunnerResume, SpuriousWakeup, hVars, clientVars, dataVars
<1>3. sender' = "forget" => sender = "forget"
  BY <1>1 DEF Taken
<1>4. ClientShape'
  BY <1>2, Zenon DEF LatestInv, ClientShape
<1>5. \A id \in Ids : (Gone(id) => Gone(id)') /\ (Wants(id)' => Wants(id))
  BY <1>2 DEF Gone, Wants
<1> QED
  BY <1>1, <1>2, <1>3, <1>4, <1>5, LatestFrame

\* The connections: who is gone stays gone, and who subscribes wants later values.
LEMMA LatestConnection ==
    ASSUME Shape, LatestInv,
           \/ \E c \in Channels : ClientSteps(c) \/ Close(c)
           \/ \E id \in Ids : subscribe(id)
           \/ \E c \in Channels, id \in Ids : unsubscribe(c, id) \/ GrpcUnsubscribe(c, id)
    PROVE  LatestInv'
<1>1. UNCHANGED << buffer, sender, sending, sent, setter, sets >>
  BY ConnectionFrame
<1>2. ClientShape
  BY DEF LatestInv
<1>3. ASSUME NEW c \in Channels, NEW r, client' = [client EXCEPT ![c] = r],
             client[c].at # "gone" \/ r = client[c]
      PROVE  /\ client' = [d \in Channels |-> client'[d]]
             /\ \A id \in Ids : Gone(id) => Gone(id)'
  <2>1. client' = [d \in Channels |-> client'[d]]
    BY <1>2, <1>3 DEF ClientShape
  <2>2. \A d \in Channels : client'[d] = IF d = c THEN r ELSE client[d]
    BY <1>2, <1>3 DEF ClientShape
  <2>3. \A id \in Ids : ChannelOf[id] \in Channels
    BY HandlerAssumption
  <2> QED
    BY <1>3, <2>1, <2>2, <2>3 DEF Gone
<1>4. SUFFICES /\ UNCHANGED data_tree /\ since' \in [Ids -> Int]
               /\ client' = [d \in Channels |-> client'[d]]
               /\ \A id \in Ids : Gone(id) => Gone(id)'
               /\ \A id \in Ids : Wants(id)' => Wants(id)
  BY <1>1, <1>2, LatestFrame, Zenon DEF ClientShape
<1>5. ASSUME UNCHANGED << data_tree, since >>, subscriptions' \subseteq subscriptions,
             \A id \in Ids : Gone(id) => Gone(id)'
      PROVE  \A id \in Ids : Wants(id)' => Wants(id)
  BY <1>5, Zenon DEF Wants
<1>6. ASSUME NEW c \in Channels, ClientSteps(c) \/ Close(c)
      PROVE  /\ UNCHANGED << data_tree, since >> /\ subscriptions' \subseteq subscriptions
             /\ \E r : client' = [client EXCEPT ![c] = r]
             /\ client[c].at # "gone"
  <2>1. UNCHANGED << data_tree, since >> /\ subscriptions' \subseteq subscriptions
    BY <1>6, ForgetShrinks, ZenonT(30)
    DEF ClientSteps, Close, GrpcInsert, GrpcErase, GrpcCleanup, GrpcClear, dataVars
  <2>2. \E r : client' = [client EXCEPT ![c] = r]
    BY <1>6, Zenon DEF ClientSteps, Close, GrpcInsert, GrpcErase, GrpcCleanup, GrpcClear
  <2>3. client[c].at # "gone"
    <3>1. client[c] = Idle \/ client[c].at \in {"insert", "erase", "closing", "clear"}
      BY <1>6, Zenon DEF ClientSteps, Close, GrpcInsert, GrpcErase, GrpcCleanup, GrpcClear, Request
    <3>2. Idle.at = "idle"
      BY DEF Idle
    <3> QED
      BY <3>1, <3>2, Zenon
  <2> QED
    BY <2>1, <2>2, <2>3, ZenonT(30)
<1>7. CASE \E c \in Channels : ClientSteps(c) \/ Close(c)
  BY <1>2, <1>3, <1>5, <1>6, <1>7 DEF ClientShape
<1>8. CASE \E c \in Channels, id \in Ids : unsubscribe(c, id) \/ GrpcUnsubscribe(c, id)
  <2>1. PICK c \in Channels, id \in Ids : unsubscribe(c, id) \/ GrpcUnsubscribe(c, id)
    BY <1>8
  <2>2. /\ UNCHANGED << data_tree, since >> /\ subscriptions' \subseteq subscriptions
        /\ UNCHANGED client \/ \E r : client' = [client EXCEPT ![c] = r]
        /\ client[c].at # "gone"
    <3>1. /\ UNCHANGED << data_tree, since >> /\ subscriptions' \subseteq subscriptions
          /\ UNCHANGED client \/ \E r : client' = [client EXCEPT ![c] = r]
      BY <2>1, ZenonT(30) DEF unsubscribe, GrpcUnsubscribe, dataVars, clientVars
    <3>2. client[c] = Idle
      BY <2>1, Zenon DEF unsubscribe, GrpcUnsubscribe, Request
    <3> QED
      BY <3>1, <3>2 DEF Idle
  <2>3. CASE UNCHANGED client
    BY <1>2, <1>5, <2>2, <2>3 DEF ClientShape, Gone
  <2>4. CASE \E r : client' = [client EXCEPT ![c] = r]
    BY <1>2, <1>3, <1>5, <2>2, <2>4 DEF ClientShape
  <2> QED
    BY <2>2, <2>3, <2>4
<1>9. CASE \E id \in Ids : subscribe(id)
  <2>1. PICK id \in Ids : subscribe(id)
    BY <1>9
  <2>2. /\ UNCHANGED data_tree /\ subscriptions' = subscriptions \cup {id}
        /\ since' = [since EXCEPT ![id] = sets]
        /\ UNCHANGED client \/ \E r : client' = [client EXCEPT ![ChannelOf[id]] = r]
        /\ client[ChannelOf[id]].at # "gone" /\ ChannelOf[id] \in Channels
    <3>1. ChannelOf[id] \in Channels
      BY HandlerAssumption
    <3>2. UNCHANGED client \/ \E r : client' = [client EXCEPT ![ChannelOf[id]] = r]
      BY <2>1, Zenon DEF subscribe
    <3>3. client[ChannelOf[id]].at # "gone"
      <4>1. client[ChannelOf[id]] = Idle
        BY <2>1 DEF subscribe, Request
      <4> QED
        BY <4>1 DEF Idle
    <3>4. /\ UNCHANGED data_tree /\ subscriptions' = subscriptions \cup {id}
          /\ since' = [since EXCEPT ![id] = sets]
      BY <2>1 DEF subscribe, dataVars
    <3> QED
      BY <3>1, <3>2, <3>3, <3>4
  <2>3. /\ client' = [d \in Channels |-> client'[d]]
        /\ \A x \in Ids : Gone(x) => Gone(x)'
    <3>1. CASE UNCHANGED client
      BY <1>2, <3>1 DEF ClientShape, Gone
    <3>2. CASE \E r : client' = [client EXCEPT ![ChannelOf[id]] = r]
      BY <1>3, <2>2, <3>2, Zenon
    <3> QED
      BY <2>2, <3>1, <3>2
  <2>4. since' \in [Ids -> Int] /\ since'[id] = sets /\ \A x \in Ids \ {id} : since'[x] = since[x]
    BY <1>2, <2>2 DEF ClientShape, Shape
  <2>5. data_tree[KeyOf[id]] \in Nat /\ data_tree[KeyOf[id]] <= sets /\ sets \in Nat
    BY <1>2, HandlerAssumption, Zenon DEF LatestInv, NotNewer, ClientShape, Shape
  <2>6. ~Wants(id)'
    BY <2>2, <2>4, <2>5 DEF Wants
  <2>7. \A x \in Ids \ {id} : Wants(x)' => Wants(x)
    BY <2>2, <2>3, <2>4, Zenon DEF Wants
  <2> QED
    BY <2>2, <2>3, <2>4, <2>6, <2>7
<1> QED
  BY <1>7, <1>8, <1>9

\* The sender takes the front, sends it, or forgets who is gone.
LEMMA LatestRunner ==
    ASSUME Shape, Locks, Found, LatestInv, RunnerPop \/ RunnerSend \/ RunnerForget
    PROVE  LatestInv'
<1>1. /\ UNCHANGED << setter, sets, data_tree, client, since >>
      /\ subscriptions' \subseteq subscriptions
  <2>1. CASE RunnerPop \/ RunnerSend
    BY <2>1, Zenon DEF RunnerPop, RunnerSend, clientVars, dataVars
  <2>2. CASE RunnerForget
    BY <2>2, ForgetShrinks DEF RunnerForget, clientVars, dataVars
  <2> QED
    BY <2>1, <2>2, Zenon
<1>2. ClientShape' /\ Carries'
  BY <1>1, Zenon DEF LatestInv, ClientShape, Carries
<1>3. \A id \in Ids : (Wants(id)' => Wants(id)) /\ (Gone(id)' <=> Gone(id))
  BY <1>1, Zenon DEF Wants, Gone
<1>4. \A id \in Ids : IsDue(id) => IsDue(id)'
  BY <1>1, Zenon DEF IsDue, Due
<1>5. SUFFICES /\ \A id \in Ids : Below(id, data_tree[KeyOf[id]] + 1)'
               /\ OnlyGoneForgotten'
               /\ \A id \in Ids : Wants(id) /\ OnItsWay(id) /\ ~IsDue(id) => OnItsWay(id)'
  <2>1. NotNewer'
    BY <1>1, <1>5, Zenon DEF LatestInv, NotNewer
  <2>2. \A id \in Ids : Wants(id)' => OnItsWay(id)'
    BY <1>3, <1>4, <1>5, Zenon DEF LatestInv, OnItsWay
  <2> QED
    BY <1>2, <1>5, <2>1, <2>2, ZenonT(30) DEF LatestInv
<1>6. \A id \in Ids : Below(id, data_tree[KeyOf[id]] + 1)
  BY Zenon DEF LatestInv, NotNewer
<1>7. CASE RunnerPop
  <2>1. /\ sender' = "send" /\ sender = "found" /\ buffer # << >> /\ UNCHANGED sent
        /\ sending' = << Head(buffer) >> /\ buffer' = Tail(buffer)
    BY <1>7 DEF RunnerPop, Found, Pushing, Locks
  <2> DEFINE n == Len(buffer)
  <2>2. /\ n \in Nat \ {0} /\ DOMAIN buffer = 1 .. n /\ DOMAIN buffer' = 1 .. n - 1
        /\ \A i \in 1 .. n - 1 : buffer'[i] = buffer[i + 1]
        /\ sending'[1] = buffer[1]
    BY <2>1, TailNote DEF Shape
  <2> HIDE DEF n
  <2>3. \A id \in Ids : Below(id, data_tree[KeyOf[id]] + 1)'
    BY <1>1, <1>6, <2>1, <2>2 DEF Below, SentBelow, TakenBelow, QueuedBelow
  <2>4. OnlyGoneForgotten'
    BY <2>1, Zenon DEF OnlyGoneForgotten
  <2>5. ASSUME NEW id \in Ids, OnItsWay(id), ~IsDue(id) PROVE OnItsWay(id)'
    <3> DEFINE now == data_tree[KeyOf[id]]
    <3>1. CASE IsQueued(id, now)
      <4>1. PICK i \in 1 .. n : buffer[i].id = id /\ buffer[i].value = now
        BY <2>2, <3>1 DEF IsQueued
      <4>2. CASE i = 1
        BY <1>1, <2>1, <2>2, <4>1, <4>2, Zenon DEF OnItsWay, IsTaken, Taken
      <4>3. CASE i # 1
        <5>1. i - 1 \in 1 .. n - 1 /\ buffer'[i - 1] = buffer[i]
          BY <2>2, <4>3
        <5> QED
          BY <1>1, <2>2, <4>1, <5>1 DEF OnItsWay, IsQueued
      <4> QED
        BY <4>2, <4>3, Zenon
    <3>2. CASE IsSent(id, now)
      BY <1>1, <2>1, <3>2 DEF OnItsWay, IsSent
    <3>3. ~IsTaken(id, now)
      BY <2>1, Zenon DEF IsTaken, Taken
    <3> QED
      BY <2>5, <3>1, <3>2, <3>3, Zenon DEF OnItsWay
  <2> QED
    BY <2>3, <2>4, <2>5, Zenon
<1>8. CASE RunnerSend
  <2>1. /\ sender = "send" /\ sender \in Taken /\ UNCHANGED buffer
        /\ \/ sender' = "loop"
           \/ sender' = "forget" /\ UNCHANGED << sending, sent >>
    BY <1>8, SendFacts DEF Taken
  <2>2. \A id \in Ids : Below(id, data_tree[KeyOf[id]] + 1)'
    BY <1>1, <1>6, <1>8, <2>1, SendKeepsBelow DEF Below, SentBelow, TakenBelow, QueuedBelow
  <2>3. PICK x, v, k : x = sending[1].id /\ v = sending[1].value /\ k = Len(sent[x])
    BY Zenon
  <2>4. /\ x \in Ids /\ k \in Nat /\ DOMAIN sent[x] = 1 .. k
        /\ ~UNCHANGED sent =>
              /\ \A id \in Ids \ {x} : sent'[id] = sent[id]
              /\ DOMAIN sent'[x] = 1 .. k + 1
              /\ \A i \in 1 .. k + 1 : sent'[x][i] = IF i = k + 1 THEN v ELSE sent[x][i]
    BY <1>8, <2>3, SentGrows
  <2>5. /\ sender' = "forget" => Gone(x)
        /\ ChannelOf[x] \notin GrpcChannels /\ ~Gone(x) => sent' = [sent EXCEPT ![x] = Append(@, v)]
    BY <1>8, <2>3, Zenon DEF RunnerSend, Gone
  <2>6. OnlyGoneForgotten'
    BY <1>3, <2>1, <2>3, <2>4, <2>5 DEF OnlyGoneForgotten, Gone
  <2>7. \A id \in Ids : \A n : IsSent(id, n) => IsSent(id, n)'
    BY <2>4 DEF IsSent
  <2>8. ASSUME Wants(x) PROVE IsSent(x, v)'
    <3>1. sent' = [sent EXCEPT ![x] = Append(sent[x], v)]
      BY <2>5, <2>8, Zenon DEF Wants
    <3>2. sent'[x] = Append(sent[x], v) /\ sent[x] \in Seq(Nat) /\ v \in Nat
      BY <1>8, <2>3, <2>4, <3>1, SentGrows, ZenonT(30) DEF Shape
    <3>3. k + 1 \in DOMAIN sent'[x] /\ sent'[x][k + 1] = v
      BY <2>3, <3>2, AppendNote
    <3> QED
      BY <3>3 DEF IsSent
  <2>9. ASSUME NEW id \in Ids, Wants(id), OnItsWay(id), ~IsDue(id) PROVE OnItsWay(id)'
    <3> DEFINE now == data_tree[KeyOf[id]]
    <3>1. CASE IsQueued(id, now)
      BY <1>1, <2>1, <3>1, Zenon DEF OnItsWay, IsQueued
    <3>2. CASE IsTaken(id, now)
      <4>1. id = x /\ now = v
        BY <2>3, <3>2, Zenon DEF IsTaken
      <4> QED
        BY <1>1, <2>8, <2>9, <4>1 DEF OnItsWay, IsSent
    <3>3. CASE IsSent(id, now)
      BY <1>1, <2>7, <3>3, Zenon DEF OnItsWay, IsSent
    <3> QED
      BY <2>9, <3>1, <3>2, <3>3, Zenon DEF OnItsWay
  <2> QED
    BY <2>2, <2>6, <2>9
<1>9. CASE RunnerForget
  <2>1. sender = "forget" /\ sender' = "loop" /\ UNCHANGED << buffer, sent >>
    BY <1>9 DEF RunnerForget
  <2>2. \A id \in Ids : Below(id, data_tree[KeyOf[id]] + 1)'
    BY <1>1, <1>6, <2>1 DEF Below, SentBelow, TakenBelow, QueuedBelow, Taken
  <2>3. \A id \in Ids : \A n : Wants(id) => ~IsTaken(id, n)
    BY <2>1, Zenon DEF LatestInv, OnlyGoneForgotten, Wants, IsTaken
  <2>4. \A id \in Ids : Wants(id) /\ OnItsWay(id) /\ ~IsDue(id) => OnItsWay(id)'
    BY <1>1, <2>1, <2>3, Zenon DEF OnItsWay, IsQueued, IsSent
  <2> QED
    BY <2>1, <2>2, <2>4 DEF OnlyGoneForgotten
<1> QED
  BY <1>7, <1>8, <1>9

\* What every step of a setter leaves alone.
LEMMA SetterFrame ==
    ASSUME Shape, Locks, LatestInv, NEW t \in Setters,
           SetterSteps(t) \/ \E k \in Keys : setSignal(t, k)
    PROVE  /\ \A u \in Setters \ {t} : setter'[u] = setter[u]
           /\ UNCHANGED << sending, sent, subscriptions, client, since >>
           /\ sender' \in Taken <=> sender \in Taken
           /\ \A id \in Ids : Gone(id)' <=> Gone(id)
           /\ OnlyGoneForgotten'
<1>1. /\ \A u \in Setters \ {t} : setter'[u] = setter[u]
      /\ UNCHANGED << sending, sent, subscriptions >>
      /\ sender' \in Taken <=> sender \in Taken
      /\ sender' = "forget" => sender = "forget"
  BY SetterMoves, ZenonT(30) DEF Taken
<1>2. UNCHANGED << client, since >>
  BY Zenon DEF SetterSteps, setSignal, publishForVSSPath, PublishEach, PublishPush, PublishReturn,
         clientVars
<1>3. OnlyGoneForgotten'
  BY <1>1, <1>2, Zenon DEF LatestInv, OnlyGoneForgotten, Gone
<1> QED
  BY <1>1, <1>2, <1>3, ZenonT(30) DEF Gone

\* A setter that goes on carries what it carried.
LEMMA CarriesStays ==
    ASSUME Carries, NEW t \in Setters, \A u \in Setters \ {t} : setter'[u] = setter[u],
           UNCHANGED << data_tree, sets >>,
           setter'[t].at # "idle" => setter[t].at # "idle" /\ setter'[t].key = setter[t].key,
           setter'[t].at \in {"each", "push"} =>
               \A id \in setter'[t].rest : KeyOf[id] = setter[t].key,
           setter'[t].at = "push" => KeyOf[setter'[t].id] = setter[t].key
    PROVE  Carries'
<1> SUFFICES ASSUME NEW u \in Setters
             PROVE  /\ setter'[u].at # "idle" => data_tree'[setter'[u].key] = sets'
                    /\ setter'[u].at \in {"each", "push"} =>
                          \A id \in setter'[u].rest : KeyOf[id] = setter'[u].key
                    /\ setter'[u].at = "push" => KeyOf[setter'[u].id] = setter'[u].key
  BY Zenon DEF Carries
<1>1. CASE u = t
  BY <1>1, ZenonT(30) DEF Carries
<1>2. CASE u # t
  <2>1. setter'[u] = setter[u]
    BY <1>2, Zenon
  <2> QED
    BY <2>1 DEF Carries
<1> QED
  BY <1>1, <1>2, ZenonT(30)

\* A value is due from setSignal on.
LEMMA LatestSetSignal ==
    ASSUME Shape, Locks, Ordered, LatestInv, NEW t \in Setters, NEW k \in Keys, setSignal(t, k)
    PROVE  LatestInv'
<1>1. /\ \A u \in Setters \ {t} : setter'[u] = setter[u]
      /\ UNCHANGED << sending, sent, subscriptions, client, since >>
      /\ sender' \in Taken <=> sender \in Taken
      /\ \A id \in Ids : Gone(id)' <=> Gone(id)
      /\ OnlyGoneForgotten'
  BY SetterFrame
<1>2. setter[t] \in SetterState /\ sets \in Nat
  BY DEF Shape
<1>3. \A id \in Ids : KeyOf[id] \in Keys
  BY HandlerAssumption
<1>4. /\ rwMutex = {} /\ UNCHANGED buffer /\ sets' = sets + 1
      /\ data_tree' = [data_tree EXCEPT ![k] = sets + 1]
      /\ setter'[t].at = "publish" /\ setter'[t].key = k
  BY DEF setSignal, Shape
<1>5. \A u \in Setters : setter[u].at = "idle"
  <2>1. \A u \in Setters : setter[u] = Idle
    BY <1>4 DEF Locks
  <2> QED
    BY <2>1 DEF Idle
<1>6. /\ data_tree' \in [Keys -> Nat] /\ data_tree'[k] = sets + 1
      /\ \A j \in Keys \ {k} : data_tree'[j] = data_tree[j]
      /\ \A j \in Keys : data_tree[j] \in Nat /\ data_tree[j] <= sets
  BY <1>2, <1>4 DEF LatestInv, ClientShape, NotNewer
<1>7. ClientShape'
  BY <1>1, <1>6, Zenon DEF LatestInv, ClientShape
<1>8. Carries'
  BY <1>1, <1>4, <1>5, <1>6 DEF Carries
<1>9. \A id \in Ids : Below(id, data_tree[KeyOf[id]] + 1)'
  <2> SUFFICES ASSUME NEW id \in Ids PROVE Below(id, data_tree[KeyOf[id]] + 1)'
    BY Zenon
  <2>1. CASE KeyOf[id] = k
    <3>1. Below(id, sets + 2)
      BY <1>2, LaterIsAbove, Zenon DEF Ordered, DueIsNewest
    <3> QED
      BY <1>1, <1>2, <1>4, <1>6, <2>1, <3>1 DEF Below, SentBelow, TakenBelow, QueuedBelow
  <2>2. CASE KeyOf[id] # k
    <3>1. Below(id, data_tree[KeyOf[id]] + 1) /\ data_tree'[KeyOf[id]] = data_tree[KeyOf[id]]
      BY <1>3, <1>6, <2>2 DEF LatestInv, NotNewer
    <3> QED
      BY <1>1, <1>4, <3>1, Zenon DEF Below, SentBelow, TakenBelow, QueuedBelow
  <2> QED
    BY <2>1, <2>2
<1>10. NotNewer'
  BY <1>2, <1>4, <1>6, <1>9 DEF NotNewer
<1>11. ASSUME NEW id \in Ids, Wants(id)' PROVE OnItsWay(id)'
  <2>1. CASE KeyOf[id] = k
    BY <1>4, <2>1, ZenonT(30) DEF OnItsWay, IsDue, Due
  <2>2. CASE KeyOf[id] # k
    <3>1. data_tree'[KeyOf[id]] = data_tree[KeyOf[id]]
      BY <1>3, <1>6, <2>2, Zenon
    <3>2. Wants(id) /\ ~IsDue(id)
      BY <1>1, <1>5, <1>11, <3>1, Zenon DEF Wants, IsDue, Due
    <3>3. OnItsWay(id)
      BY <3>2, Zenon DEF LatestInv
    <3> QED
      BY <1>1, <1>4, <3>1, <3>2, <3>3, Zenon DEF OnItsWay, IsQueued, IsTaken, IsSent
  <2> QED
    BY <2>1, <2>2, Zenon
<1> QED
  BY <1>1, <1>7, <1>8, <1>10, <1>11, Zenon DEF LatestInv

\* A step after it keeps a value on its way that queues it for those it is due for.
LEMMA LatestPublish ==
    ASSUME Shape, Locks, LatestInv, NEW t \in Setters, SetterSteps(t),
           Carries', \A id \in Ids : QueuedBelow(id, data_tree[KeyOf[id]] + 1)',
           \A id \in Ids : Wants(id) /\ IsDue(id) => OnItsWay(id)',
           \A id \in Ids : \A n : IsQueued(id, n) => IsQueued(id, n)'
    PROVE  LatestInv'
<1>1. /\ \A u \in Setters \ {t} : setter'[u] = setter[u]
      /\ UNCHANGED << sending, sent, subscriptions, client, since >>
      /\ sender' \in Taken <=> sender \in Taken
      /\ \A id \in Ids : Gone(id)' <=> Gone(id)
      /\ OnlyGoneForgotten'
  BY SetterFrame, ZenonT(30)
<1>2. UNCHANGED << sets, data_tree >>
  BY Zenon DEF SetterSteps, publishForVSSPath, PublishEach, PublishPush, PublishReturn, dataVars
<1>3. ClientShape'
  BY <1>1, <1>2, Zenon DEF LatestInv, ClientShape
<1>4. NotNewer'
  BY <1>1, <1>2, Zenon DEF LatestInv, NotNewer, Below, SentBelow, TakenBelow
<1>5. ASSUME NEW id \in Ids, Wants(id)' PROVE OnItsWay(id)'
  <2>1. Wants(id)
    BY <1>1, <1>2, <1>5, ZenonT(30) DEF Wants
  <2>2. OnItsWay(id)
    BY <2>1, ZenonT(30) DEF LatestInv
  <2>3. CASE IsDue(id)
    BY <2>1, <2>3, ZenonT(30)
  <2>4. CASE IsQueued(id, data_tree[KeyOf[id]])
    <3>1. PICK n : n = data_tree[KeyOf[id]]
      BY Zenon
    <3>2. IsQueued(id, n)'
      BY <2>4, <3>1, ZenonT(30)
    <3> QED
      BY <1>2, <3>1, <3>2, Zenon DEF OnItsWay, IsQueued
  <2>5. CASE IsTaken(id, data_tree[KeyOf[id]]) \/ IsSent(id, data_tree[KeyOf[id]])
    BY <1>1, <1>2, <2>5, ZenonT(30) DEF OnItsWay, IsTaken, IsSent
  <2> QED
    BY <2>2, <2>3, <2>4, <2>5, Zenon DEF OnItsWay
<1> QED
  BY <1>1, <1>3, <1>4, <1>5, Zenon DEF LatestInv

\* So does one that queues nothing and leaves it due.
LEMMA LatestStillDue ==
    ASSUME Shape, Locks, LatestInv, NEW t \in Setters, SetterSteps(t), UNCHANGED buffer, Carries',
           \A id \in Ids : Wants(id) /\ Due(t, id) /\ setter[t].key = KeyOf[id] =>
                               Due(t, id)' /\ setter'[t].key = KeyOf[id]
    PROVE  LatestInv'
<1>1. /\ \A u \in Setters \ {t} : setter'[u] = setter[u]
      /\ UNCHANGED << sending, sent, subscriptions, client, since >>
      /\ sender' \in Taken <=> sender \in Taken
      /\ \A id \in Ids : Gone(id)' <=> Gone(id)
      /\ OnlyGoneForgotten'
  BY SetterFrame, ZenonT(30)
<1>2. UNCHANGED data_tree
  BY Zenon DEF SetterSteps, publishForVSSPath, PublishEach, PublishPush, PublishReturn, dataVars
<1>3. \A id \in Ids : QueuedBelow(id, data_tree[KeyOf[id]] + 1)'
  BY <1>2, ZenonT(30) DEF LatestInv, NotNewer, Below, QueuedBelow
<1>4. ASSUME NEW id \in Ids, Wants(id), IsDue(id) PROVE OnItsWay(id)'
  <2>1. PICK u \in Setters : Due(u, id) /\ setter[u].key = KeyOf[id]
    BY <1>4, ZenonT(30) DEF IsDue
  <2>2. Due(u, id)' /\ setter'[u].key = KeyOf[id]
    BY <1>1, <1>4, <2>1, ZenonT(30) DEF Due
  <2> QED
    BY <2>2, ZenonT(30) DEF OnItsWay, IsDue
<1>5. \A id \in Ids : \A n : IsQueued(id, n) => IsQueued(id, n)'
  BY Zenon DEF IsQueued
<1> QED
  BY <1>3, <1>4, <1>5, LatestPublish, ZenonT(30)

\* A value that is pushed is queued.
LEMMA LatestPush ==
    ASSUME Shape, Locks, Ordered, LatestInv, NEW t \in Setters, PublishPush(t)
    PROVE  LatestInv'
<1>1. /\ \A u \in Setters \ {t} : setter'[u] = setter[u]
      /\ UNCHANGED << sending, sent, subscriptions, client, since >>
      /\ sender' \in Taken <=> sender \in Taken
      /\ \A id \in Ids : Gone(id)' <=> Gone(id)
      /\ OnlyGoneForgotten'
  BY SetterFrame, Zenon DEF SetterSteps
<1>2. setter[t] \in SetterState /\ sets \in Nat
  BY DEF Shape
<1>3. PICK x, n : x = setter[t].id /\ n = Len(buffer)
  BY Zenon
<1>4. /\ setter[t].at = "push" /\ setter'[t].at = "each" /\ setter'[t].key = setter[t].key
      /\ setter'[t].rest = setter[t].rest /\ UNCHANGED << data_tree, sets >>
  BY Zenon DEF PublishPush, Shape, dataVars
<1>5. /\ setter[t].value = sets /\ x \in Ids
      /\ KeyOf[x] = setter[t].key /\ data_tree[KeyOf[x]] = sets
  BY <1>2, <1>3, <1>4, SetterFields, Zenon DEF Ordered, DueIsNewest, LatestInv, Carries
<1>6. [id |-> x, value |-> sets] \in Note /\ buffer' = Append(buffer, [id |-> x, value |-> sets])
  BY <1>2, <1>3, <1>5 DEF PublishPush, Note
<1>7. /\ n \in Nat /\ DOMAIN buffer = 1 .. n /\ DOMAIN buffer' = 1 .. n + 1
      /\ buffer'[n + 1] = [id |-> x, value |-> sets]
      /\ \A i \in 1 .. n : buffer'[i] = buffer[i]
  BY <1>3, <1>6, AppendNote DEF Shape
<1>8. Carries'
  BY <1>1, <1>4, CarriesStays, Zenon DEF LatestInv, Carries
<1>9. \A id \in Ids : QueuedBelow(id, data_tree[KeyOf[id]] + 1)'
  <2> SUFFICES ASSUME NEW id \in Ids, NEW i \in 1 .. n + 1, buffer'[i].id = id
               PROVE  buffer'[i].value < data_tree[KeyOf[id]] + 1
    BY <1>4, <1>7, Zenon DEF QueuedBelow
  <2>1. CASE i = n + 1
    <3>1. buffer'[i] = [id |-> x, value |-> sets]
      BY <1>7, <2>1, Zenon
    <3>2. id = x /\ buffer'[i].value = sets
      BY <3>1
    <3> QED
      BY <1>2, <1>5, <3>2
  <2>2. CASE i # n + 1
    <3>1. i \in DOMAIN buffer /\ buffer'[i] = buffer[i]
      <4>1. n \in Nat
        BY <1>7, Zenon
      <4>2. i \in 1 .. n
        BY <2>2, <4>1
      <4> QED
        BY <1>7, <4>2, Zenon
    <3> QED
      BY <3>1 DEF LatestInv, NotNewer, Below, QueuedBelow
  <2> QED
    BY <2>1, <2>2, Zenon
<1>10. \A id \in Ids : \A m : IsQueued(id, m) => IsQueued(id, m)'
  BY <1>7 DEF IsQueued
<1>11. ASSUME NEW id \in Ids, Wants(id), IsDue(id) PROVE OnItsWay(id)'
  <2>1. PICK u \in Setters : Due(u, id) /\ setter[u].key = KeyOf[id]
    BY <1>11 DEF IsDue
  <2>2. CASE id = x
    <3>1. /\ n + 1 \in DOMAIN buffer' /\ buffer'[n + 1].id = id
          /\ buffer'[n + 1].value = data_tree'[KeyOf[id]]
      <4>1. n + 1 \in DOMAIN buffer'
        <5>1. n \in Nat /\ DOMAIN buffer' = 1 .. n + 1
          BY <1>7, Zenon
        <5> QED
          BY <5>1
      <4>2. buffer'[n + 1].id = x /\ buffer'[n + 1].value = sets
        <5>1. buffer'[n + 1] = [id |-> x, value |-> sets]
          BY <1>7, Zenon
        <5> QED
          BY <5>1
      <4> QED
        BY <1>4, <1>5, <2>2, <4>1, <4>2
    <3>2. IsQueued(id, data_tree[KeyOf[id]])'
      BY <3>1, Zenon DEF IsQueued
    <3> QED
      BY <3>2, Zenon DEF OnItsWay
  <2>3. CASE id # x
    <3>1. Due(u, id)' /\ setter'[u].key = KeyOf[id]
      BY <1>1, <1>3, <1>4, <2>1, <2>3, Zenon DEF Due
    <3> QED
      BY <3>1, Zenon DEF OnItsWay, IsDue
  <2> QED
    BY <2>2, <2>3
<1> QED
  BY <1>8, <1>9, <1>10, <1>11, LatestPublish, ZenonT(30) DEF SetterSteps

\* The steps of a setter.
LEMMA LatestSetter ==
    ASSUME Shape, Locks, Ordered, LatestInv, NEW t \in Setters,
           SetterSteps(t) \/ \E k \in Keys : setSignal(t, k)
    PROVE  LatestInv'
<1>1. \A u \in Setters \ {t} : setter'[u] = setter[u]
  BY SetterFrame, ZenonT(30)
<1>2. CASE publishForVSSPath(t)
  <2>1. /\ setter[t].at = "publish" /\ setter'[t].at = "each" /\ setter'[t].key = setter[t].key
        /\ setter'[t].rest = {id \in subscriptions : KeyOf[id] = setter[t].key}
        /\ UNCHANGED << buffer, data_tree, sets >>
    BY <1>2, Zenon DEF publishForVSSPath, Shape, ToNotify, dataVars
  <2>2. Carries'
    BY <1>1, <2>1, CarriesStays, ZenonT(30) DEF LatestInv, Carries
  <2>3. \A id \in Ids : Wants(id) /\ Due(t, id) /\ setter[t].key = KeyOf[id] =>
                            Due(t, id)' /\ setter'[t].key = KeyOf[id]
    BY <2>1, ZenonT(30) DEF Wants, Due
  <2> QED
    BY <1>2, <2>1, <2>2, <2>3, LatestStillDue, ZenonT(30) DEF SetterSteps
<1>3. CASE PublishEach(t)
  <2>1. /\ setter[t].at = "each" /\ setter'[t].at = "push" /\ setter'[t].key = setter[t].key
        /\ setter'[t].id \in setter[t].rest /\ setter'[t].rest = setter[t].rest \ {setter'[t].id}
        /\ UNCHANGED << buffer, data_tree, sets >>
    BY <1>3 DEF PublishEach, Shape, dataVars
  <2>2. Carries'
    BY <1>1, <2>1, CarriesStays, ZenonT(30) DEF LatestInv, Carries
  <2>3. \A id \in Ids : Wants(id) /\ Due(t, id) /\ setter[t].key = KeyOf[id] =>
                            Due(t, id)' /\ setter'[t].key = KeyOf[id]
    BY <2>1, Zenon DEF Due
  <2> QED
    BY <1>3, <2>1, <2>2, <2>3, LatestStillDue, ZenonT(30) DEF SetterSteps
<1>4. CASE PublishReturn(t)
  <2>1. /\ setter[t].at = "each" /\ setter[t].rest = {} /\ setter'[t] = Idle
        /\ UNCHANGED << buffer, data_tree, sets >>
    BY <1>4, Zenon DEF PublishReturn, Shape, dataVars
  <2>2. setter'[t].at = "idle"
    <3>1. setter'[t] = Idle
      BY <2>1, Zenon
    <3>2. Idle.at = "idle"
      BY Zenon DEF Idle
    <3> QED
      BY <3>1, <3>2, Zenon
  <2>3. Carries'
    BY <1>1, <2>1, <2>2, CarriesStays, ZenonT(30) DEF LatestInv
  <2>4. \A id \in Ids : ~Due(t, id)
    BY <2>1, Zenon DEF Due
  <2> QED
    BY <1>4, <2>1, <2>3, <2>4, LatestStillDue, ZenonT(30) DEF SetterSteps
<1> QED
  BY <1>2, <1>3, <1>4, LatestSetSignal, LatestPush, Zenon DEF SetterSteps

\* LatestInv is an invariant of the handler.
THEOREM LatestInvariant == HandlerSpec => []LatestInv
<1>1. HandlerInit => LatestInv
  BY LatestInitially
<1>2. HandlerInv /\ Ordered /\ LatestInv /\ [HandlerNext]_hVars => LatestInv'
  <2> SUFFICES ASSUME HandlerInv, Ordered, LatestInv, [HandlerNext]_hVars PROVE LatestInv'
    OBVIOUS
  <2>1. Shape /\ Locks /\ RestSubscribed /\ Found
    BY DEF HandlerInv
  <2> QED
    BY <2>1, LatestQuiet, LatestConnection, LatestRunner, LatestSetter DEF HandlerNext, RunnerSteps
<1> QED
  BY <1>1, <1>2, HandlerInvariant, OrderInvariant, PTL DEF HandlerSpec

\* Once nothing is under way, each WebSocket client that is there has got the current
\* value of what it subscribes to as the last one, if it was set since.
THEOREM LatestAlwaysArrives == HandlerSpec => []LatestValueArrives
<1>1. HandlerInv /\ Ordered /\ LatestInv => LatestValueArrives
  <2> SUFFICES ASSUME HandlerInv, Ordered, LatestInv, NEW id \in subscriptions, Quiet,
                      ChannelOf[id] \notin GrpcChannels, client[ChannelOf[id]].at # "gone",
                      data_tree[KeyOf[id]] > since[id]
               PROVE  \E i \in DOMAIN sent[id] :
                          i = Len(sent[id]) /\ sent[id][i] = data_tree[KeyOf[id]]
    BY DEF LatestValueArrives
  <2> DEFINE now == data_tree[KeyOf[id]]
             k == Len(sent[id])
  <2>1. id \in Ids /\ Wants(id)
    BY Zenon DEF HandlerInv, Shape, Wants, Gone
  <2>2. ~IsDue(id)
    BY DEF Quiet, IsDue, Due, Idle
  <2>3. ~IsQueued(id, now) /\ ~IsTaken(id, now)
    <3>1. sender \notin Taken
      BY DEF Quiet, HandlerInv, Shape
    <3>2. DOMAIN buffer = {}
      BY DEF Quiet
    <3> QED
      BY <3>1, <3>2, Zenon DEF IsQueued, IsTaken
  <2>4. PICK i \in DOMAIN sent[id] : sent[id][i] = now
    BY <2>1, <2>2, <2>3, Zenon DEF LatestInv, OnItsWay, IsSent
  <2>5. /\ sent[id] \in Seq(Nat) /\ k \in Nat /\ DOMAIN sent[id] = 1 .. k
        /\ now \in Nat /\ SentBelow(id, now + 1)
    BY <2>1, HandlerAssumption DEF HandlerInv, Shape, LatestInv, ClientShape, NotNewer, Below
  <2>6. i = k
    <3> SUFFICES ASSUME i # k PROVE FALSE
      BY Zenon
    <3>1. k \in DOMAIN sent[id] /\ i < k
      BY <2>5
    <3>2. now < sent[id][k] /\ sent[id][k] < now + 1 /\ sent[id][k] \in Nat
      <4>1. sent[id][i] < sent[id][k]
        BY <2>1, <3>1, Zenon DEF Ordered, SentInOrder
      <4>2. sent[id][k] < now + 1
        BY <2>5, <3>1, Zenon DEF SentBelow
      <4> QED
        BY <2>4, <2>5, <3>1, <4>1, <4>2
    <3>3. now \in Nat
      BY <2>5
    <3> QED
      BY <3>2, <3>3
  <2> QED
    BY <2>4, <2>6
<1> QED
  BY <1>1, HandlerInvariant, OrderInvariant, LatestInvariant, PTL

==============================================================================
