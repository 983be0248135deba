------------------------ MODULE SubscriptionHandler ------------------------
(* The subscriptions of kuksa-val-server                                     *)
(* (kuksa-val-server/src/SubscriptionHandler.cpp) with the threads that call *)
(* them: setters (VssDatabase::setSignal), one thread per connection         *)
(* (WebSocket sessions and gRPC streams), the sender thread, and the owner   *)
(* that constructs and destroys the handler.                                 *)
(*                                                                           *)
(* A step takes a thread from one lock operation, or one unprotected access  *)
(* to shared memory, to the next.                                            *)
EXTENDS Integers, Sequences, FiniteSets

CONSTANTS Setters,       \* threads that set signals
          Channels,      \* connections
          GrpcChannels,  \* the gRPC streams among them; the others are WebSockets
          Ids,           \* the subscriptions that may be made, each with a fresh id
          ChannelOf,     \* Ids -> Channels
          KeyOf,         \* Ids -> Keys
          Keys,          \* pairs of a path and an attribute
          Closing,       \* the channels whose client may go away
          InitialRun,    \* what threadRun may hold before it is assigned
          MaxSets        \* how often signals are set

\* The sender thread as the owner of a mutex.
Sender == "sender"

ASSUME HandlerAssumption ==
    /\ GrpcChannels \subseteq Channels /\ Closing \subseteq Channels
    /\ Sender \notin Setters
    /\ ChannelOf \in [Ids -> Channels] /\ KeyOf \in [Ids -> Keys]
    /\ InitialRun \in (SUBSET BOOLEAN) \ {{}} /\ MaxSets \in Nat

VARIABLES rwMutex, accessMutex, subMutex,  \* the threads that hold each: none or one
          subscriptions,  \* the ids in the map of maps
          buffer,         \* the queue of notifications
          threadRun,
          sender,         \* where the sender thread is
          sending,        \* the notification it took from the buffer, if any
          owner,          \* where the owner is
          setter,         \* per setter: where it is, key, value, ids to notify
          client,         \* per channel: where its thread is, and with which id
          currentSubs,    \* per gRPC stream: the id it knows for a key
          grpcSubsMap,    \* the ids that have a stream to write to
          data_tree,      \* per key: the value, numbered by the sets
          sets,           \* sets so far
          sent,           \* history, per id: the values sent to its client
          since,          \* history, per id: the sets before it was registered
          missed          \* history: the sender was notified before it waited

lockVars == << rwMutex, accessMutex, subMutex >>
senderVars == << sender, sending, sent >>
clientVars == << client, currentSubs, grpcSubsMap, since >>
dataVars == << data_tree, sets >>
hVars == << lockVars, subscriptions, buffer, threadRun, senderVars, owner, setter, clientVars,
            dataVars, missed >>

Never == -1
Idle == [at |-> "idle"]

\* The constructor has not spawned the thread yet; threadRun is uninitialised.
HandlerInit ==
    /\ rwMutex = {} /\ accessMutex = {} /\ subMutex = {}
    /\ subscriptions = {} /\ buffer = << >>
    /\ threadRun \in InitialRun
    /\ sender = "unborn" /\ sending = << >> /\ owner = "constructing"
    /\ setter = [t \in Setters |-> Idle]
    /\ client = [c \in Channels |-> Idle]
    /\ currentSubs = [c \in GrpcChannels |-> [k \in Keys |-> {}]]
    /\ grpcSubsMap = {}
    /\ data_tree = [k \in Keys |-> 0] /\ sets = 0
    /\ sent = [id \in Ids |-> << >>]
    /\ since = [id \in Ids |-> Never]
    /\ missed = FALSE

-----------------------------------------------------------------------------
(* The condition variable c. Only the sender waits for it. *)

\* A notification that finds the sender after its look at what has changed and
\* before its wait wakes nobody.
notify_one(looked) ==
    IF sender = "waiting"
    THEN sender' = "woken" /\ UNCHANGED missed
    ELSE missed' = (missed \/ sender \in looked) /\ UNCHANGED sender

-----------------------------------------------------------------------------
(* startThread and stopThread: the constructor and the destructor. The handler
   is destroyed when nobody calls it any more. *)

SpawnThread ==
    /\ owner = "constructing" /\ sender = "unborn"
    /\ sender' = "loop"
    /\ UNCHANGED << lockVars, subscriptions, buffer, threadRun, sending, sent, owner, setter,
                    clientVars, dataVars, missed >>

startThread ==
    /\ owner = "constructing" /\ sender # "unborn"
    /\ threadRun' = TRUE
    /\ owner' = "running"
    /\ UNCHANGED << lockVars, subscriptions, buffer, senderVars, setter, clientVars, dataVars,
                    missed >>

\* Mutant: the sender is not woken.
StopUnnotified ==
    /\ owner = "running" /\ threadRun
    /\ \A t \in Setters : setter[t] = Idle
    /\ \A c \in Channels : client[c].at \in {"idle", "gone"}
    /\ subMutex = {}
    /\ threadRun' = FALSE
    /\ owner' = "joining"
    /\ UNCHANGED << lockVars, subscriptions, buffer, senderVars, setter, clientVars, dataVars,
                    missed >>

stopThread ==
    /\ owner = "running" /\ threadRun
    /\ \A t \in Setters : setter[t] = Idle
    /\ \A c \in Channels : client[c].at \in {"idle", "gone"}
    /\ subMutex = {}
    /\ threadRun' = FALSE
    /\ notify_one({"check", "empty"})
    /\ owner' = "joining"
    /\ UNCHANGED << lockVars, subscriptions, buffer, sending, sent, setter, clientVars, dataVars >>

Join ==
    /\ owner = "joining" /\ sender = "done"
    /\ owner' = "stopped"
    /\ UNCHANGED << lockVars, subscriptions, buffer, threadRun, senderVars, setter, clientVars,
                    dataVars, missed >>
-----------------------------------------------------------------------------
(* subThreadRunner. *)

\* isThreadRunning(), read without a lock.
RunnerLoop ==
    /\ sender = "loop"
    /\ sender' = IF threadRun THEN "check" ELSE "done"
    /\ missed' = FALSE
    /\ UNCHANGED << lockVars, subscriptions, buffer, threadRun, sending, sent, owner, setter,
                    clientVars, dataVars >>

\* Mutant: buffer.size() >= 0.
CheckOffByOne ==
    /\ sender = "check"
    /\ sender' = "found"
    /\ UNCHANGED << lockVars, subscriptions, buffer, threadRun, sending, sent, owner, setter,
                    clientVars, dataVars, missed >>

\* buffer.size() > 0, read without a lock: anything may come out while a setter
\* is pushing.
RunnerCheck ==
    /\ sender = "check"
    /\ \E found \in BOOLEAN :
          /\ (\A t \in Setters : setter[t].at # "push") => found = (buffer # << >>)
          /\ sender' = IF found THEN "found" ELSE "empty"
    /\ UNCHANGED << lockVars, subscriptions, buffer, threadRun, sending, sent, owner, setter,
                    clientVars, dataVars, missed >>

\* The first notification is taken. An empty queue has no front: nothing is
\* specified of what happens then (see FrontExists).
RunnerPop ==
    /\ sender = "found" /\ subMutex = {}
    /\ subMutex' = {Sender}
    /\ sending' = << Head(buffer) >>
    /\ buffer' = Tail(buffer)
    /\ sender' = "send"
    /\ UNCHANGED << rwMutex, accessMutex, subscriptions, threadRun, sent, owner, setter, clientVars,
                    dataVars, missed >>

\* Mutant: the early exit for an unknown gRPC subscription keeps the mutex.
SendKeepingMutex ==
    LET id == sending[1].id
        c == ChannelOf[id]
        arrives == IF c \in GrpcChannels THEN id \in grpcSubsMap ELSE client[c].at # "gone"
    IN  /\ sender = "send"
        /\ IF arrives
           THEN sent' = [sent EXCEPT ![id] = Append(@, sending[1].value)]
           ELSE UNCHANGED sent
        /\ IF c \in GrpcChannels \/ arrives
           THEN /\ sender' = "loop" /\ sending' = << >>
                /\ subMutex' = IF arrives THEN {} ELSE subMutex
           ELSE sender' = "forget" /\ UNCHANGED << subMutex, sending >>
        /\ UNCHANGED << rwMutex, accessMutex, subscriptions, buffer, threadRun, owner, setter,
                        clientVars, dataVars, missed >>

\* grpc_send_object_to_stream or SendToConnection. A gRPC notification without a
\* stream is dropped; a WebSocket that is gone is to be forgotten.
RunnerSend ==
    LET id == sending[1].id
        c == ChannelOf[id]
        arrives == IF c \in GrpcChannels THEN id \in grpcSubsMap ELSE client[c].at # "gone"
    IN  /\ sender = "send"
        /\ IF arrives
           THEN sent' = [sent EXCEPT ![id] = Append(@, sending[1].value)]
           ELSE UNCHANGED sent
        /\ IF c \in GrpcChannels \/ arrives
           THEN sender' = "loop" /\ sending' = << >> /\ subMutex' = {}
           ELSE sender' = "forget" /\ UNCHANGED << subMutex, sending >>
        /\ UNCHANGED << rwMutex, accessMutex, subscriptions, buffer, threadRun, owner, setter,
                        clientVars, dataVars, missed >>

Registered(c) == {id \in subscriptions : ChannelOf[id] = c}

\* For each key, find_if finds one subscription of the channel, and it is erased.
unsubscribeAll(c) ==
    \E found \in SUBSET Registered(c) :
        /\ \A k \in Keys :
              LET here == {id \in Registered(c) : KeyOf[id] = k}
              IN  here # {} => Cardinality(here \cap found) = 1
        /\ subscriptions' = subscriptions \ found

\* unsubscribeAll takes accessMutex while the sender holds subMutex.
RunnerForget ==
    /\ sender = "forget" /\ accessMutex = {}
    /\ unsubscribeAll(ChannelOf[sending[1].id])
    /\ sender' = "loop" /\ sending' = << >> /\ subMutex' = {}
    /\ UNCHANGED << rwMutex, accessMutex, buffer, threadRun, sent, owner, setter, clientVars,
                    dataVars, missed >>

\* c.wait(lock), without a predicate: takes the mutex and gives it up at once.
RunnerWait ==
    /\ sender = "empty" /\ subMutex = {}
    /\ sender' = "waiting"
    /\ UNCHANGED << lockVars, subscriptions, buffer, threadRun, sending, sent, owner, setter,
                    clientVars, dataVars, missed >>

SpuriousWakeup ==
    /\ sender = "waiting"
    /\ sender' = "woken"
    /\ UNCHANGED << lockVars, subscriptions, buffer, threadRun, sending, sent, owner, setter,
                    clientVars, dataVars, missed >>

\* The wait takes the mutex again, and the end of the block gives it up.
RunnerResume ==
    /\ sender = "woken" /\ subMutex = {}
    /\ sender' = "loop"
    /\ UNCHANGED << lockVars, subscriptions, buffer, threadRun, sending, sent, owner, setter,
                    clientVars, dataVars, missed >>

-----------------------------------------------------------------------------
(* VssDatabase::setSignal and publishForVSSPath. The caller keeps rwMutex until
   the notifications are in the buffer. Sets that are rejected change nothing
   and are left out. *)

\* Mutant: the tree is unlocked before the value is published.
SetUnlocked(t, k) ==
    /\ owner = "running" /\ setter[t] = Idle /\ rwMutex = {} /\ sets < MaxSets
    /\ sets' = sets + 1
    /\ data_tree' = [data_tree EXCEPT ![k] = sets + 1]
    /\ setter' = [setter EXCEPT ![t] = [at |-> "publish", key |-> k, value |-> sets + 1]]
    /\ UNCHANGED << lockVars, subscriptions, buffer, threadRun, senderVars, owner, clientVars,
                    missed >>

setSignal(t, k) ==
    /\ owner = "running" /\ setter[t] = Idle /\ rwMutex = {} /\ sets < MaxSets
    /\ rwMutex' = {t}
    /\ sets' = sets + 1
    /\ data_tree' = [data_tree EXCEPT ![k] = sets + 1]
    /\ setter' = [setter EXCEPT ![t] = [at |-> "publish", key |-> k, value |-> sets + 1]]
    /\ UNCHANGED << accessMutex, subMutex, subscriptions, buffer, threadRun, senderVars, owner,
                    clientVars, missed >>

ToNotify(t) == {id \in subscriptions : KeyOf[id] = setter[t].key}

\* Mutant: accessMutex is given up before the loop over the subscriptions.
PublishCopy(t) ==
    /\ setter[t].at = "publish" /\ accessMutex = {}
    /\ setter' = [setter EXCEPT ![t] = [at |-> "each", key |-> @.key, value |-> @.value,
                                        rest |-> ToNotify(t)]]
    /\ UNCHANGED << lockVars, subscriptions, buffer, threadRun, senderVars, owner, clientVars,
                    dataVars, missed >>

\* The subscriptions of the key are found under accessMutex, which stays locked.
publishForVSSPath(t) ==
    /\ setter[t].at = "publish" /\ accessMutex = {}
    /\ accessMutex' = {t}
    /\ setter' = [setter EXCEPT ![t] = [at |-> "each", key |-> @.key, value |-> @.value,
                                        rest |-> ToNotify(t)]]
    /\ UNCHANGED << rwMutex, subMutex, subscriptions, buffer, threadRun, senderVars, owner,
                    clientVars, dataVars, missed >>

\* The loop goes through them in no particular order.
PublishEach(t) ==
    /\ setter[t].at = "each" /\ subMutex = {}
    /\ \E id \in setter[t].rest :
          setter' = [setter EXCEPT ![t] = [at |-> "push", key |-> @.key, value |-> @.value,
                                           rest |-> @.rest \ {id}, id |-> id]]
    /\ subMutex' = {t}
    /\ UNCHANGED << rwMutex, accessMutex, subscriptions, buffer, threadRun, senderVars, owner,
                    clientVars, dataVars, missed >>

\* Mutant: the sender is not notified.
PushSilently(t) ==
    /\ setter[t].at = "push"
    /\ buffer' = Append(buffer, [id |-> setter[t].id, value |-> setter[t].value])
    /\ subMutex' = {}
    /\ setter' = [setter EXCEPT ![t] = [at |-> "each", key |-> @.key, value |-> @.value,
                                        rest |-> @.rest]]
    /\ UNCHANGED << rwMutex, accessMutex, subscriptions, threadRun, senderVars, owner, clientVars,
                    dataVars, missed >>

PublishPush(t) ==
    /\ setter[t].at = "push"
    /\ buffer' = Append(buffer, [id |-> setter[t].id, value |-> setter[t].value])
    /\ notify_one({"empty"})
    /\ subMutex' = {}
    /\ setter' = [setter EXCEPT ![t] = [at |-> "each", key |-> @.key, value |-> @.value,
                                        rest |-> @.rest]]
    /\ UNCHANGED << rwMutex, accessMutex, subscriptions, threadRun, sending, sent, owner, clientVars,
                    dataVars >>

PublishReturn(t) ==
    /\ setter[t].at = "each" /\ setter[t].rest = {}
    /\ accessMutex' = accessMutex \ {t} /\ rwMutex' = rwMutex \ {t}
    /\ setter' = [setter EXCEPT ![t] = Idle]
    /\ UNCHANGED << subMutex, subscriptions, buffer, threadRun, senderVars, owner, clientVars,
                    dataVars, missed >>

-----------------------------------------------------------------------------
(* The threads of the connections. Requests that are refused (no such path, not
   readable, no permission, unknown id) change nothing and are left out. *)

Request(c) == owner = "running" /\ client[c] = Idle

\* A gRPC stream enters its subscription in grpcSubsMap after the reply.
subscribe(id) ==
    LET c == ChannelOf[id]
    IN  /\ Request(c) /\ since[id] = Never /\ accessMutex = {}
        /\ subscriptions' = subscriptions \cup {id}
        /\ since' = [since EXCEPT ![id] = sets]
        /\ client' = IF c \in GrpcChannels
                     THEN [client EXCEPT ![c] = [at |-> "insert", id |-> id]]
                     ELSE client
        /\ UNCHANGED << lockVars, buffer, threadRun, senderVars, owner, setter, currentSubs,
                        grpcSubsMap, dataVars, missed >>

GrpcInsert(c) ==
    /\ client[c].at = "insert"
    /\ grpcSubsMap' = grpcSubsMap \cup {client[c].id}
    /\ currentSubs' = [currentSubs EXCEPT ![c][KeyOf[client[c].id]] = {client[c].id}]
    /\ client' = [client EXCEPT ![c] = Idle]
    /\ UNCHANGED << lockVars, subscriptions, buffer, threadRun, senderVars, owner, setter, since,
                    dataVars, missed >>

\* A WebSocket client may name any id.
unsubscribe(c, id) ==
    /\ c \notin GrpcChannels /\ Request(c) /\ id \in subscriptions /\ accessMutex = {}
    /\ subscriptions' = subscriptions \ {id}
    /\ UNCHANGED << lockVars, buffer, threadRun, senderVars, owner, setter, clientVars, dataVars,
                    missed >>

\* A gRPC client names a key, and the stream finds the id.
GrpcUnsubscribe(c, id) ==
    /\ c \in GrpcChannels /\ Request(c) /\ id \in currentSubs[c][KeyOf[id]]
    /\ id \in subscriptions /\ accessMutex = {}
    /\ subscriptions' = subscriptions \ {id}
    /\ client' = [client EXCEPT ![c] = [at |-> "erase", id |-> id]]
    /\ UNCHANGED << lockVars, buffer, threadRun, senderVars, owner, setter, currentSubs,
                    grpcSubsMap, since, dataVars, missed >>

\* The stream ends with its last subscription.
GrpcErase(c) ==
    /\ client[c].at = "erase"
    /\ grpcSubsMap' = grpcSubsMap \ {client[c].id}
    /\ currentSubs' = [currentSubs EXCEPT ![c][KeyOf[client[c].id]] = {}]
    /\ client' = [client EXCEPT ![c] =
                     IF \E id \in grpcSubsMap' : ChannelOf[id] = c THEN Idle ELSE [at |-> "closing"]]
    /\ UNCHANGED << lockVars, subscriptions, buffer, threadRun, senderVars, owner, setter, since,
                    dataVars, missed >>

\* The client goes away. A WebSocket session leaves its subscriptions behind.
Close(c) ==
    /\ c \in Closing /\ Request(c)
    /\ client' = [client EXCEPT ![c] = [at |-> IF c \in GrpcChannels THEN "closing" ELSE "gone"]]
    /\ UNCHANGED << lockVars, subscriptions, buffer, threadRun, senderVars, owner, setter,
                    currentSubs, grpcSubsMap, since, dataVars, missed >>

GrpcCleanup(c) ==
    /\ client[c].at = "closing" /\ accessMutex = {}
    /\ unsubscribeAll(c)
    /\ client' = [client EXCEPT ![c] = [at |-> "clear"]]
    /\ UNCHANGED << lockVars, buffer, threadRun, senderVars, owner, setter, currentSubs,
                    grpcSubsMap, since, dataVars, missed >>

GrpcClear(c) ==
    /\ client[c].at = "clear"
    /\ grpcSubsMap' = {id \in grpcSubsMap : ChannelOf[id] # c}
    /\ client' = [client EXCEPT ![c] = [at |-> "gone"]]
    /\ UNCHANGED << lockVars, subscriptions, buffer, threadRun, senderVars, owner, setter,
                    currentSubs, since, dataVars, missed >>

-----------------------------------------------------------------------------
OwnerSteps == SpawnThread \/ startThread \/ stopThread \/ Join

RunnerSteps ==
    \/ RunnerLoop \/ RunnerCheck \/ RunnerPop \/ RunnerSend
    \/ RunnerForget \/ RunnerWait \/ RunnerResume

SetterSteps(t) ==
    \/ publishForVSSPath(t) \/ PublishEach(t) \/ PublishPush(t) \/ PublishReturn(t)

ClientSteps(c) == GrpcInsert(c) \/ GrpcErase(c) \/ GrpcCleanup(c) \/ GrpcClear(c)

HandlerNext ==
    \/ OwnerSteps
    \/ RunnerSteps
    \/ SpuriousWakeup
    \/ \E t \in Setters : SetterSteps(t)
    \/ \E t \in Setters, k \in Keys : setSignal(t, k)
    \/ \E c \in Channels : ClientSteps(c) \/ Close(c)
    \/ \E id \in Ids : subscribe(id)
    \/ \E c \in Channels, id \in Ids : unsubscribe(c, id) \/ GrpcUnsubscribe(c, id)

HandlerSpec == HandlerInit /\ [][HandlerNext]_hVars

\* Every thread that can go on goes on. Nobody has to set, subscribe, close or stop.
HandlerFairness ==
    /\ WF_hVars(SpawnThread \/ startThread \/ Join)
    /\ WF_hVars(RunnerSteps)
    /\ \A t \in Setters : WF_hVars(SetterSteps(t))
    /\ \A c \in Channels : WF_hVars(ClientSteps(c))

FairHandlerSpec == HandlerSpec /\ HandlerFairness

-----------------------------------------------------------------------------
(* Properties. *)

\* The sender looks at the size of the buffer without the mutex and takes the first
\* element with it: by then there is one (front() of an empty queue is undefined).
FrontExists == sender = "found" /\ subMutex = {} => buffer # << >>

\* The sender sleeps on notifications, or on an order to stop, only if it was
\* notified after it had looked and before it waited (c.wait has no predicate).
AsleepOnlyIfMissed ==
    sender = "waiting" /\ (buffer # << >> \/ (~threadRun /\ owner = "joining")) => missed

\* A client gets the values of a subscription in the order in which they were set,
\* none of them twice: setSignal publishes before it unlocks the tree.
SentInOrder ==
    \A id \in Ids : \A i, j \in DOMAIN sent[id] : i < j => sent[id][i] < sent[id][j]

Quiet == buffer = << >> /\ sending = << >> /\ \A t \in Setters : setter[t] = Idle

\* Once all is sent, each WebSocket client that is there has the current value of
\* what it has subscribed to, if that was set since (publishForVSSPath,
\* subThreadRunner).
LatestValueArrives ==
    \A id \in subscriptions :
        LET c == ChannelOf[id]
            now == data_tree[KeyOf[id]]
        IN  Quiet /\ c \notin GrpcChannels /\ client[c].at # "gone" /\ now > since[id]
            => \E i \in DOMAIN sent[id] : i = Len(sent[id]) /\ sent[id][i] = now

Pending(id) == {buffer[i].value : i \in {j \in DOMAIN buffer : buffer[j].id = id}}

\* After unsubscribe, no notification for the id enters the buffer any more
\* (publishForVSSPath keeps accessMutex while it goes through the subscriptions).
NoneAfterUnsubscribe ==
    [][\A id \in Ids : since[id] # Never /\ id \notin subscriptions
                       => Pending(id)' \subseteq Pending(id)]_hVars

Overslept == sender = "waiting" /\ missed

\* A notification leaves the buffer, unless the sender missed its wake-up or has
\* ended (subThreadRunner).
NotificationsLeave ==
    \A id \in Ids, n \in 1..MaxSets :
        n \in Pending(id) ~> (n \notin Pending(id) \/ Overslept \/ sender = "done")

\* A set returns as long as no WebSocket client goes away (setSignal; see
\* DeadAreForgotten for what happens if one does).
SetsReturn == \A t \in Setters : setter[t] # Idle ~> setter[t] = Idle

\* stopThread joins the sender, unless the sender missed its wake-up.
StopReturns == owner = "joining" ~> (owner = "stopped" \/ Overslept)

\* The hint that a connection is gone (SendToConnection) leads to its removal.
DeadAreForgotten ==
    \A c \in Channels \ GrpcChannels :
        (sender = "forget" /\ ChannelOf[sending[1].id] = c) ~> Registered(c) = {}

==============================================================================
