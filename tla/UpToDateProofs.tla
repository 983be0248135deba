---------------------------- MODULE UpToDateProofs ----------------------------
(***************************************************************************)
(* A query subscription misses nothing, for any number of tasks, entries,  *)
(* subscriptions and calls.                                                *)
(*                                                                         *)
(* The argument: subscribe_query holds the database's lock as a reader     *)
(* from the first execution of the query until the subscription is added,  *)
(* so the two are about the same state.  From then on, whoever changes     *)
(* what a query reads executes it again on the state it changed.           *)
(***************************************************************************)
EXTENDS GapProofs

------------------------------------------------------------------------------
(* What a query answers *)

Selected(q) == {id \in DOMAIN entries : entries[id].metadata.path \in request[q].select}

Answers(q) ==
    request[q].where = None \/ QueryValue(q, request[q].where[1].path) \in request[q].where[1].values

Body(q) ==
    [k \in Selected(q) \X {"Datapoint"} |-> Some(QueryValue(q, entries[k[1]].metadata.path))]

\* Executing a query is answering it; the commit is only quoted.
LEMMA ExecuteIs ==
    ASSUME NEW q, NEW c
    PROVE  /\ Execute(q, c) # None <=> Answers(q)
           /\ Answers(q) => Execute(q, c)[1].body = Body(q)
           /\ Answers(q) => Execute(q, c) = Some(Message(c, Body(q)))
<1>1. Answers(q) => Execute(q, c) = Some(Message(c, Body(q)))
  BY Zenon DEF Execute, Answers, Body, Selected
<1>2. ~Answers(q) => Execute(q, c) = None
  BY Zenon DEF Execute, Answers
<1>3. Some(Message(c, Body(q))) # None /\ Some(Message(c, Body(q)))[1].body = Body(q)
  BY DEF Some, None, Message
<1> QED
  BY <1>1, <1>2, <1>3

\* The answer depends on what the query reads.
LEMMA SameInputs ==
    ASSUME NEW q, request'[q] = request[q], Selected(q)' = Selected(q),
           \A id \in Selected(q) : entries'[id].metadata.path = entries[id].metadata.path,
           \A path \in InputSpec(request[q]) : QueryValue(q, path)' = QueryValue(q, path)
    PROVE  (Answers(q)' <=> Answers(q)) /\ Body(q)' = Body(q)
<1>1. request[q].where # None => request[q].where[1].path \in InputSpec(request[q])
  BY DEF InputSpec
<1>2. Answers(q)' <=> Answers(q)
  <2>1. CASE request[q].where = None
    BY <2>1, Zenon DEF Answers
  <2>2. CASE request[q].where # None
    <3>1. QueryValue(q, request[q].where[1].path)' = QueryValue(q, request[q].where[1].path)
      BY <1>1, <2>2
    <3> QED
      BY <2>2, <3>1, Zenon DEF Answers
  <2> QED
    BY <2>1, <2>2
<1>3. ASSUME NEW k \in Selected(q) \X {"Datapoint"}
      PROVE  Some(QueryValue(q, entries[k[1]].metadata.path))'
                = Some(QueryValue(q, entries[k[1]].metadata.path))
  <2>1. k[1] \in Selected(q) /\ entries[k[1]].metadata.path \in InputSpec(request[q])
    BY DEF Selected, InputSpec
  <2> QED
    BY <2>1, Zenon
<1>4. Body(q)' = Body(q)
  BY <1>3, Zenon DEF Body
<1> QED
  BY <1>2, <1>4

\* Nothing written, nothing asked anew, the same token: the same answer.
LEMMA SameAnswer ==
    ASSUME NEW q, request'[q] = request[q], Permission(q)' = Permission(q),
           UNCHANGED << entries, path_to_id >>
    PROVE  /\ Answers(q)' <=> Answers(q)
           /\ Body(q)' = Body(q) /\ Selected(q)' = Selected(q)
<1>1. Selected(q)' = Selected(q)
  BY Zenon DEF Selected
<1>2. ASSUME NEW path PROVE QueryValue(q, path)' = QueryValue(q, path)
  BY Zenon DEF QueryValue, get_entry_by_path, get_entry_by_id
<1> QED
  BY <1>1, <1>2, SameInputs

------------------------------------------------------------------------------
(* The inductive invariant *)

\* subscribe_query holds the database's lock.
Waiting(q) == pc[q] \in {"notified", "subs_write"}

InList(q) == q \in Elems(query_subscriptions)

UpToDate(q) == Answers(q) => stream[q].known = Body(q)

\* The writer w has changed what q reads.
Concerns(w, q) ==
    \E id \in (DOMAIN call[w].changed) \cap (DOMAIN entries) :
        /\ entries[id].metadata.path \in InputSpec(request[q])
        /\ "Datapoint" \in call[w].changed[id]

Sending(w, q) == pc[w] = "send" /\ Head(call[w].recipients) = q

\* The writer w is going to execute q, or has.
QueryUnderway(w, q) == (Concerns(w, q) /\ Ahead(w, q)) \/ Sending(w, q)

QueryInv(q) ==
    /\ pc[q] \in Before => DOMAIN stream[q].known = {}
    /\ InList(q) \/ Waiting(q) => InputSpec(request[q]) \subseteq DOMAIN path_to_id
    /\ (InList(q) \/ Waiting(q)) /\ Live(q) =>
          DOMAIN stream[q].known \subseteq Selected(q) \X {"Datapoint"}
    /\ Waiting(q) => q \in dbLock.readers
    /\ Waiting(q) /\ Live(q) => UpToDate(q)
    /\ InList(q) /\ Live(q) => UpToDate(q) \/ \E w \in Writers : QueryUnderway(w, q)
    /\ \A w \in Writers : Sending(w, q) /\ Live(q) =>
          Answers(q) /\ call[w].outbox[1].body = Body(q)

\* A step that leaves the database and what q knows alone.
LEMMA QueryKept ==
    ASSUME NEW q \in Queriers, QueryInv(q),
           pc'[q] \in Before => pc[q] \in Before,
           Waiting(q)' => Waiting(q) /\ (q \in dbLock.readers => q \in dbLock'.readers),
           InList(q)' => InList(q),
           request'[q] = request[q], stream'[q].known = stream[q].known,
           Live(q)' => Live(q) /\ Permission(q)' = Permission(q),
           UNCHANGED << entries, path_to_id >>,
           \A w \in Writers : InList(q) /\ Live(q) /\ QueryUnderway(w, q) =>
              QueryUnderway(w, q)' \/ UpToDate(q),
           \A w \in Writers : Sending(w, q)' /\ Live(q) =>
              \/ Sending(w, q) /\ call'[w].outbox = call[w].outbox
              \/ Answers(q) /\ call'[w].outbox[1].body = Body(q)
    PROVE  QueryInv(q)'
<1>1. Live(q)' => /\ Live(q) /\ (Answers(q)' <=> Answers(q)) /\ Body(q)' = Body(q)
                  /\ Selected(q)' = Selected(q) /\ (UpToDate(q) => UpToDate(q)')
  BY SameAnswer, Zenon DEF UpToDate
<1>2. pc'[q] \in Before => DOMAIN stream'[q].known = {}
  BY DEF QueryInv
<1>3. InList(q)' \/ Waiting(q)' => InputSpec(request'[q]) \subseteq DOMAIN path_to_id'
  BY Zenon DEF QueryInv
<1>4. (InList(q)' \/ Waiting(q)') /\ Live(q)' =>
         DOMAIN stream'[q].known \subseteq Selected(q)' \X {"Datapoint"}
  BY <1>1, Zenon DEF QueryInv
<1>5. Waiting(q)' => q \in dbLock'.readers
  BY Zenon DEF QueryInv
<1>6. Waiting(q)' /\ Live(q)' => UpToDate(q)'
  BY <1>1, Zenon DEF QueryInv
<1>7. InList(q)' /\ Live(q)' => UpToDate(q)' \/ \E w \in Writers : QueryUnderway(w, q)'
  BY <1>1, Zenon DEF QueryInv
<1>8. ASSUME NEW w \in Writers, Sending(w, q)', Live(q)'
      PROVE  Answers(q)' /\ call'[w].outbox[1].body = Body(q)'
  <2>1. CASE Sending(w, q) /\ call'[w].outbox = call[w].outbox
    BY <1>1, <1>8, <2>1, Zenon DEF QueryInv
  <2>2. CASE Answers(q) /\ call'[w].outbox[1].body = Body(q)
    BY <1>1, <1>8, <2>2
  <2> QED
    BY <1>1, <1>8, <2>1, <2>2
<1> QED
  BY <1>2, <1>3, <1>4, <1>5, <1>6, <1>7, <1>8, Zenon DEF QueryInv

------------------------------------------------------------------------------
(* Steps of tasks that are neither q nor writers *)

\* Who holds a lock as a reader keeps it when another task moves.
LEMMA ReadersKept ==
    ASSUME BrokerInv, NEW q, q \in dbLock.readers, NEW t, t # q,
           \/ dbLock' \in {dbLock, Pass(dbLock), AcquireRead(dbLock, t), AcquireWrite(dbLock, t),
                          Release(dbLock, t), Downgrade(dbLock, t), Abandon(dbLock, t)}
           \/ \E mode : dbLock' = Enqueue(dbLock, t, mode)
    PROVE  q \in dbLock'.readers
<1>1. DOMAIN dbLock = {"writer", "readers", "queue"}
  BY DEF BrokerInv, Shape
<1>2. CASE dbLock' \in {dbLock, Pass(dbLock), AcquireWrite(dbLock, t)}
  BY <1>1, <1>2, Zenon DEF Pass, AcquireWrite
<1>3. CASE dbLock' \in {AcquireRead(dbLock, t), Release(dbLock, t), Downgrade(dbLock, t)}
  BY <1>1, <1>3, ZenonT(30) DEF AcquireRead, Release, Downgrade
<1>4. CASE dbLock' = Abandon(dbLock, t)
  BY <1>4, AbandonFacts
<1>5. CASE \E mode : dbLock' = Enqueue(dbLock, t, mode)
  BY <1>1, <1>5 DEF Enqueue
<1> QED
  BY <1>2, <1>3, <1>4, <1>5

\* A step of t that leaves q and the database alone.
LEMMA OtherTask ==
    ASSUME BrokerInv, NEW q \in Queriers, QueryInv(q), NEW t, t \notin Writers, t # q,
           UNCHANGED pc \/ \E label : Goto(t, label),
           UNCHANGED << entries, path_to_id, call >>,
           request'[q] = request[q], stream'[q] = stream[q], InList(q)' => InList(q),
           (q \in expired') = (q \in expired),
           \/ dbLock' \in {dbLock, Pass(dbLock), AcquireRead(dbLock, t), AcquireWrite(dbLock, t),
                          Release(dbLock, t), Downgrade(dbLock, t), Abandon(dbLock, t)}
           \/ \E mode : dbLock' = Enqueue(dbLock, t, mode)
    PROVE  QueryInv(q)'
<1>1. pc'[q] = pc[q] /\ \A w \in Writers : pc'[w] = pc[w]
  BY DEF BrokerInv, Shape, Goto, Tasks, Clients, Streams
<1>2. Permission(q)' = Permission(q) /\ (Live(q)' => Live(q))
  BY DEF Permission, Live
<1>3. ASSUME NEW w \in Writers, QueryUnderway(w, q) PROVE QueryUnderway(w, q)'
  BY <1>1, <1>3, Zenon DEF QueryUnderway, Concerns, Ahead, Sending
<1>4. ASSUME NEW w \in Writers, Sending(w, q)'
      PROVE  Sending(w, q) /\ call'[w].outbox = call[w].outbox
  BY <1>1, <1>4, Zenon DEF Sending
<1>5. Waiting(q)' => Waiting(q) /\ (q \in dbLock.readers => q \in dbLock'.readers)
  BY <1>1, ReadersKept, Zenon DEF Waiting
<1> QED
  BY <1>1, <1>2, <1>3, <1>4, <1>5, QueryKept, Zenon

\* Steps that touch queues and lists, and no list grows.
LEMMA WaitingQuery ==
    ASSUME BrokerInv, TypeInv, NEW q \in Queriers, QueryInv(q), NEW t, t \notin Writers, t # q,
           \/ RequestSubsWrite(t) \/ RequestCleanup(t) \/ Cleanup(t) \/ RequestAdd(t)
           \/ t = Terminator /\ (RequestShutdown \/ Shutdown)
    PROVE  QueryInv(q)'
<1>1. \E label : Goto(t, label)
  BY Zenon DEF RequestSubsWrite, RequestCleanup, Cleanup, RequestAdd, RequestShutdown, Shutdown
<1>2. UNCHANGED << entries, path_to_id, call, expired, request, stream >>
  BY Zenon DEF RequestSubsWrite, RequestCleanup, Cleanup, RequestAdd, RequestShutdown, Shutdown, dbVars
<1>3. InList(q)' => InList(q)
  <2>1. \/ query_subscriptions' = query_subscriptions
        \/ query_subscriptions' = << >>
        \/ query_subscriptions' = Retained(query_subscriptions)
    BY Zenon DEF RequestSubsWrite, RequestCleanup, Cleanup, RequestAdd, RequestShutdown, Shutdown, subsVars
  <2>2. Elems(<< >>) = {}
    BY DEF Elems
  <2> QED
    BY <2>1, <2>2, ChangeSubscribers, RetainedElems, Zenon DEF InList
<1>4. dbLock' = dbLock \/ dbLock' = Enqueue(dbLock, t, "write")
  BY Zenon DEF RequestSubsWrite, RequestCleanup, Cleanup, RequestAdd, RequestShutdown, Shutdown
<1> QED
  BY <1>1, <1>2, <1>3, <1>4, OtherTask

\* Another client subscribes.
LEMMA SubscribingOther ==
    ASSUME BrokerInv, TypeInv, GapInv, NEW q \in Queriers, QueryInv(q), NEW t \in Streams, t # q,
           \/ Subscribe(t) \/ InitialNotification(t) \/ AddChangeSubscription(t)
           \/ SubscribeQuery(t) \/ CompileQuery(t) \/ AddQuerySubscription(t)
    PROVE  QueryInv(q)'
<1>1. t \notin Writers /\ q \in Streams /\ DOMAIN stream = Streams /\ DOMAIN request = Streams
  BY Disjoint DEF BrokerInv, Shape, GapInv, RequestsKnown, Streams
<1>2. \E label : Goto(t, label)
  BY Zenon DEF Subscribe, InitialNotification, AddChangeSubscription,
     SubscribeQuery, CompileQuery, AddQuerySubscription
<1>3. UNCHANGED << entries, path_to_id, call, expired >>
  BY Zenon DEF Subscribe, InitialNotification, AddChangeSubscription,
     SubscribeQuery, CompileQuery, AddQuerySubscription, dbVars
<1>4. request'[q] = request[q]
  <2>1. UNCHANGED request \/ \E r : request' = [request EXCEPT ![t] = r]
    BY Zenon DEF Subscribe, InitialNotification, AddChangeSubscription,
       SubscribeQuery, CompileQuery, AddQuerySubscription
  <2> QED
    BY <1>1, <2>1
<1>5. stream'[q] = stream[q]
  <2>1. \/ UNCHANGED stream \/ \E m : Deliver(t, m)
        \/ stream' = [stream EXCEPT ![t].since = Len(log)]
    BY Zenon DEF Subscribe, InitialNotification, AddChangeSubscription,
       SubscribeQuery, CompileQuery, AddQuerySubscription
  <2>2. ASSUME NEW m, Deliver(t, m) PROVE stream'[q] = stream[q]
    BY <1>1, <2>2 DEF Deliver
  <2> QED
    BY <1>1, <2>1, <2>2
<1>6. InList(q)' => InList(q)
  <2>1. \/ UNCHANGED query_subscriptions
        \/ query_subscriptions' = Append(query_subscriptions, t)
    BY Zenon DEF Subscribe, InitialNotification, AddChangeSubscription,
       SubscribeQuery, CompileQuery, AddQuerySubscription, subsVars
  <2>2. Elems(Append(query_subscriptions, t)) = Elems(query_subscriptions) \cup {t}
    BY ChangeSubscribers, ElemsFacts
  <2> QED
    BY <2>1, <2>2, Zenon DEF InList
<1>7. \/ dbLock' \in {dbLock, Pass(dbLock), AcquireRead(dbLock, t), Release(dbLock, t)}
      \/ dbLock' = Enqueue(dbLock, t, "read")
  BY Zenon DEF Subscribe, InitialNotification, AddChangeSubscription,
     SubscribeQuery, CompileQuery, AddQuerySubscription
<1> QED
  BY <1>1, <1>2, <1>3, <1>4, <1>5, <1>6, <1>7, OtherTask, Zenon

\* Another client reads, leaves, or loses its token or its call.
LEMMA ClientOther ==
    ASSUME BrokerInv, TypeInv, NEW q \in Queriers, QueryInv(q), NEW t \in Clients, t # q,
           t \notin Writers,
           (t \in Streams /\ (Read(t) \/ Leave(t))) \/ Expire(t) \/ Cancel(t)
    PROVE  QueryInv(q)'
<1>1. q \in Streams /\ DOMAIN stream = Streams
  BY DEF BrokerInv, Shape, Streams
<1>2. UNCHANGED pc \/ \E label : Goto(t, label)
  BY Zenon DEF Read, Receive, EndOfStream, Leave, Expire, Cancel
<1>3. UNCHANGED << entries, path_to_id, call, request, query_subscriptions >>
  BY Zenon DEF Read, Receive, EndOfStream, Leave, Expire, Cancel, clientUnchanged, dbVars, subsVars
<1>4. (q \in expired') = (q \in expired)
  <2>1. expired' = expired \/ expired' = expired \cup {t}
    BY Zenon DEF Read, Receive, EndOfStream, Leave, Expire, Cancel, clientUnchanged
  <2> QED
    BY <2>1
<1>5. stream'[q] = stream[q]
  <2>1. \/ UNCHANGED stream
        \/ stream' = [stream EXCEPT ![t].chan = Tail(@)]
        \/ stream' = [stream EXCEPT ![t].chan = << >>, ![t].closed = TRUE]
        \/ stream' = [stream EXCEPT ![t].closed = TRUE, ![t].chan = << >>]
    BY Zenon DEF Read, Receive, EndOfStream, Leave, Expire, Cancel
  <2> QED
    BY <1>1, <2>1
<1>6. dbLock' = dbLock \/ dbLock' = Abandon(dbLock, t)
  BY Zenon DEF Read, Receive, EndOfStream, Leave, Expire, Cancel, clientUnchanged, lockVars
<1> QED
  BY <1>1, <1>2, <1>3, <1>4, <1>5, <1>6, OtherTask, Zenon DEF InList

\* A token that is not q's expires.
LEMMA ExpireWriter ==
    ASSUME BrokerInv, NEW q \in Queriers, QueryInv(q), NEW t, t # q, Expire(t)
    PROVE  QueryInv(q)'
<1>1. /\ UNCHANGED << entries, path_to_id, call, pc, request, stream, query_subscriptions, dbLock >>
      /\ expired' = expired \cup {t}
  BY DEF Expire, dbVars, subsVars, lockVars
<1>2. Housekeeper \notin Writers /\ Housekeeper # q
  BY Disjoint DEF Clients, Streams
<1>3. (q \in expired') = (q \in expired)
  BY <1>1
<1> QED
  BY <1>1, <1>2, <1>3, OtherTask, Zenon DEF InList

------------------------------------------------------------------------------
(* Steps of q *)

\* Who has not been added is in no list and about to get nothing.
LEMMA Unlisted ==
    ASSUME TypeInv, NEW q, pc[q] \notin After
    PROVE  ~InList(q) /\ \A w \in Writers : ~Sending(w, q)
<1>1. ASSUME InList(q) PROVE FALSE
  <2>1. query_subscriptions \in Seq(Queriers \cap Joined)
    BY DEF TypeInv, Lists
  <2>2. Elems(query_subscriptions) \subseteq Joined
    BY <2>1 DEF Elems
  <2> QED
    BY <1>1, <2>2 DEF InList, Joined
<1>2. ASSUME NEW w \in Writers, Sending(w, q) PROVE FALSE
  <2>1. call[w].recipients \in Seq(Joined) /\ call[w].recipients # << >>
    BY <1>2 DEF TypeInv, Lists, Sending
  <2>2. Head(call[w].recipients) \in Joined
    BY <2>1
  <2> QED
    BY <1>2, <2>2, Zenon DEF Sending, Joined
<1> QED
  BY <1>1, <1>2

\* A message with all the keys that are known replaces what is known.
LEMMA MergeAll ==
    ASSUME NEW q, NEW known, DOMAIN known \subseteq Selected(q) \X {"Datapoint"}
    PROVE  Merge(known, Body(q)) = Body(q)
<1> DEFINE D == Selected(q) \X {"Datapoint"}
           value(k) == Some(QueryValue(q, entries[k[1]].metadata.path))
<1>1. Body(q) = [k \in D |-> value(k)]
  BY DEF Body
<1> HIDE DEF D, value
<1>2. DOMAIN Body(q) = D /\ \A k \in D : Body(q)[k] = value(k)
  BY <1>1
<1>3. (DOMAIN known) \cup (DOMAIN Body(q)) = D
  BY <1>2 DEF D
<1>4. Merge(known, Body(q)) = [k \in D |-> IF k \in D THEN Body(q)[k] ELSE known[k]]
  BY <1>2, <1>3, Zenon DEF Merge
<1> QED
  BY <1>1, <1>2, <1>4

\* The request is new.
LEMMA SubscribeQueryOwn ==
    ASSUME BrokerInv, TypeInv, NEW q \in Queriers, QueryInv(q), SubscribeQuery(q)
    PROVE  QueryInv(q)'
<1>1. /\ pc[q] = "idle" /\ Goto(q, "db_read") /\ UNCHANGED << stream, call, query_subscriptions >>
  BY Zenon DEF SubscribeQuery, subsVars
<1>2. pc'[q] = "db_read" /\ \A w \in Writers : pc'[w] = pc[w]
  BY <1>1, Disjoint DEF BrokerInv, Shape, Goto, Tasks, Clients, Streams
<1>3. ~InList(q) /\ \A w \in Writers : ~Sending(w, q)
  BY <1>1, Unlisted DEF After
<1>4. ~InList(q)' /\ ~Waiting(q)' /\ \A w \in Writers : ~Sending(w, q)'
  BY <1>1, <1>2, <1>3, Zenon DEF InList, Waiting, Sending
<1>5. DOMAIN stream'[q].known = {}
  BY <1>1 DEF QueryInv, Before
<1> QED
  BY <1>4, <1>5, Zenon DEF QueryInv

\* The first execution tells q everything, and q keeps the lock.
LEMMA CompileQueryOwn ==
    ASSUME BrokerInv, TypeInv, NEW q \in Queriers, QueryInv(q), CompileQuery(q)
    PROVE  QueryInv(q)'
<1>1. /\ pc[q] = "db_read"
      /\ UNCHANGED << entries, path_to_id, expired, request, call, query_subscriptions >>
      /\ \/ Goto(q, "refused") /\ UNCHANGED stream
         \/ /\ InputSpec(request[q]) \subseteq DOMAIN path_to_id
            /\ dbLock' = AcquireRead(dbLock, q) /\ Goto(q, "notified")
            /\ LET message == Execute(q, Len(log))
               IN  IF message = None THEN UNCHANGED stream ELSE Deliver(q, message[1])
  BY Zenon DEF CompileQuery, subsVars, dbVars
<1>2. /\ q \in Streams /\ DOMAIN stream = Streams /\ q \in Tasks /\ DOMAIN pc = Tasks
      /\ DOMAIN stream[q] = {"chan", "closed", "known", "since"}
      /\ DOMAIN dbLock = {"writer", "readers", "queue"}
  BY Zenon DEF BrokerInv, Shape, Streams, Tasks, Clients
<1>3. \A w \in Writers : pc'[w] = pc[w]
  BY <1>1, Disjoint DEF BrokerInv, Shape, Goto, Tasks, Clients, Streams
<1>4. ~InList(q) /\ \A w \in Writers : ~Sending(w, q)
  BY <1>1, Unlisted, Zenon DEF After
<1>5. ~InList(q)' /\ \A w \in Writers : ~Sending(w, q)'
  BY <1>1, <1>3, <1>4, Zenon DEF InList, Sending
<1>6. DOMAIN stream[q].known = {}
  BY <1>1, Zenon DEF QueryInv, Before
<1>7. CASE Goto(q, "refused") /\ UNCHANGED stream
  <2>1. pc'[q] = "refused"
    BY <1>2, <1>7 DEF Goto
  <2> QED
    BY <1>5, <2>1, Zenon DEF QueryInv, Before, Waiting
<1>8. CASE /\ InputSpec(request[q]) \subseteq DOMAIN path_to_id
           /\ dbLock' = AcquireRead(dbLock, q) /\ Goto(q, "notified")
           /\ LET message == Execute(q, Len(log))
              IN  IF message = None THEN UNCHANGED stream ELSE Deliver(q, message[1])
  <2>1. pc'[q] = "notified"
    BY <1>2, <1>8 DEF Goto
  <2>2. q \in dbLock'.readers
    BY <1>2, <1>8 DEF AcquireRead
  <2>3. Permission(q)' = Permission(q)
    BY <1>1, Zenon DEF Permission
  <2>4. (Answers(q)' <=> Answers(q)) /\ Body(q)' = Body(q) /\ Selected(q)' = Selected(q)
    BY <1>1, <2>3, SameAnswer, Zenon
  <2>5. CASE ~Answers(q)
    <3>1. UNCHANGED stream
      BY <1>8, <2>5, ExecuteIs, Zenon
    <3>2. UpToDate(q)'
      BY <2>4, <2>5, Zenon DEF UpToDate
    <3>3. DOMAIN stream'[q].known = {}
      BY <1>6, <3>1
    <3> QED
      BY <1>1, <1>5, <1>8, <2>1, <2>2, <3>2, <3>3, ZenonT(30) DEF QueryInv, Before
  <2>6. CASE Answers(q)
    <3>1. Deliver(q, Execute(q, Len(log))[1]) /\ Execute(q, Len(log))[1].body = Body(q)
      BY <1>8, <2>6, ExecuteIs
    <3>2. stream'[q].known = Merge(stream[q].known, Body(q))
      BY <1>2, <3>1, ZenonT(30) DEF Deliver
    <3>3. stream'[q].known = Body(q)
      BY <1>6, <3>2, MergeAll, Zenon
    <3>4. UpToDate(q)'
      BY <2>4, <3>3, Zenon DEF UpToDate
    <3>5. DOMAIN stream'[q].known = Selected(q)' \X {"Datapoint"}
      BY <2>4, <3>3 DEF Body
    <3>6. pc'[q] \notin Before
      BY <2>1 DEF Before
    <3> QED
      BY <1>1, <1>5, <1>8, <2>2, <3>4, <3>5, <3>6, Zenon DEF QueryInv
  <2> QED
    BY <2>5, <2>6, Zenon
<1> QED
  BY <1>1, <1>7, <1>8, Zenon

\* What the first execution told is what there is to tell when q is added.
LEMMA AddQuerySubscriptionOwn ==
    ASSUME BrokerInv, TypeInv, NEW q \in Queriers, QueryInv(q), AddQuerySubscription(q)
    PROVE  QueryInv(q)'
<1>1. /\ pc[q] = "subs_write" /\ Goto(q, "subscribed")
      /\ UNCHANGED << entries, path_to_id, expired, request, call >>
      /\ stream' = [stream EXCEPT ![q].since = Len(log)]
  BY ZenonT(30) DEF AddQuerySubscription, dbVars
<1>2. /\ q \in Streams /\ DOMAIN stream = Streams /\ q \in Tasks /\ DOMAIN pc = Tasks
      /\ DOMAIN stream[q] = {"chan", "closed", "known", "since"}
  BY DEF BrokerInv, Shape, Streams, Tasks, Clients
<1>3. pc'[q] = "subscribed" /\ \A w \in Writers : pc'[w] = pc[w]
  BY <1>1, <1>2, Disjoint DEF BrokerInv, Shape, Goto, Tasks, Clients, Streams
<1>4. stream'[q].known = stream[q].known /\ stream'[q].closed = stream[q].closed
  BY <1>1, <1>2
<1>5. Permission(q)' = Permission(q)
  BY <1>1 DEF Permission
<1>6. Live(q)' => Live(q)
  BY <1>4, <1>5 DEF Live
<1>7. (Answers(q)' <=> Answers(q)) /\ Body(q)' = Body(q) /\ Selected(q)' = Selected(q)
  BY <1>1, <1>5, SameAnswer
<1>8. Waiting(q) /\ ~Waiting(q)' /\ pc'[q] \notin Before
  BY <1>1, <1>3 DEF Waiting, Before
<1>9. \A w \in Writers : ~Sending(w, q)'
  BY <1>1, <1>3, Unlisted, Zenon DEF After, Sending
<1>10. Live(q)' => UpToDate(q)' /\ DOMAIN stream'[q].known \subseteq Selected(q)' \X {"Datapoint"}
  <2>1. Live(q)' => UpToDate(q) /\ DOMAIN stream[q].known \subseteq Selected(q) \X {"Datapoint"}
    BY <1>6, <1>8 DEF QueryInv
  <2> QED
    BY <1>4, <1>7, <2>1, Zenon DEF UpToDate
<1>11. InputSpec(request'[q]) \subseteq DOMAIN path_to_id'
  BY <1>1, <1>8, Zenon DEF QueryInv
<1> QED
  BY <1>8, <1>9, <1>10, <1>11, Zenon DEF QueryInv

\* The other steps of q tell it nothing.
LEMMA OwnSteps ==
    ASSUME BrokerInv, TypeInv, GapInv, NEW q \in Queriers, QueryInv(q),
           RequestSubsWrite(q) \/ Read(q) \/ Leave(q) \/ Expire(q) \/ Cancel(q)
    PROVE  QueryInv(q)'
<1>1. /\ q \in Streams /\ DOMAIN stream = Streams /\ q \in Tasks /\ DOMAIN pc = Tasks
      /\ DOMAIN stream[q] = {"chan", "closed", "known", "since"}
      /\ q \notin Writers /\ q \in Clients
  BY Disjoint DEF BrokerInv, Shape, Streams, Tasks, Clients
<1>2. UNCHANGED << entries, path_to_id, call, request, query_subscriptions >>
  BY <1>1, Zenon DEF RequestSubsWrite, Read, Receive, EndOfStream, Leave, Expire, Cancel,
     clientUnchanged, dbVars, subsVars
<1>3. \/ UNCHANGED << pc, dbLock >>
      \/ pc[q] = "notified" /\ Goto(q, "subs_write") /\ UNCHANGED dbLock
      \/ Goto(q, "gone") \/ Goto(q, "ended")
  BY <1>1, Zenon DEF RequestSubsWrite, Read, Receive, EndOfStream, Leave, Expire, Cancel,
     clientUnchanged, lockVars
<1>4. /\ \A w \in Writers : pc'[w] = pc[w]
      /\ pc'[q] \in Before => pc[q] \in Before
      /\ Waiting(q)' => Waiting(q) /\ (q \in dbLock.readers => q \in dbLock'.readers)
  <2>1. \A w \in Writers : pc'[w] = pc[w]
    BY <1>1, <1>3, Disjoint, Zenon DEF BrokerInv, Shape, Goto, Tasks, Clients
  <2>2. pc'[q] \in Before => pc[q] \in Before
    BY <1>1, <1>3 DEF Goto, Before
  <2>3. Waiting(q)' => Waiting(q) /\ (q \in dbLock.readers => q \in dbLock'.readers)
    BY <1>1, <1>3 DEF Goto, Waiting
  <2> QED
    BY <2>1, <2>2, <2>3, Zenon
<1>5. /\ stream'[q].known = stream[q].known
      /\ stream[q].closed => stream'[q].closed
  <2>1. \/ UNCHANGED stream
        \/ stream' = [stream EXCEPT ![q].chan = Tail(@)]
        \/ stream' = [stream EXCEPT ![q].chan = << >>, ![q].closed = TRUE]
        \/ stream' = [stream EXCEPT ![q].closed = TRUE, ![q].chan = << >>]
    BY <1>1, Zenon DEF RequestSubsWrite, Read, Receive, EndOfStream, Leave, Expire, Cancel
  <2> QED
    BY <1>1, <2>1
<1>6. Live(q)' => Live(q) /\ Permission(q)' = Permission(q)
  <2>1. \/ expired' = expired
        \/ q \in expired'
    BY Zenon DEF RequestSubsWrite, Read, Receive, EndOfStream, Leave, Expire, Cancel, clientUnchanged
  <2>2. CASE expired' = expired
    <3>1. Permission(q)' = Permission(q)
      BY <2>2 DEF Permission
    <3> QED
      BY <1>5, <3>1 DEF Live
  <2>3. CASE q \in expired'
    <3>1. PermissionOf[q] \in PermissionSet(Paths)
      BY <1>1, PermissionOfAssumption
    <3>2. Permission(q)'.expired
      BY <2>3, <3>1, Zenon DEF Permission, PermissionSet
    <3> QED
      BY <3>2 DEF Live
  <2> QED
    BY <2>1, <2>2, <2>3, Zenon
<1>7. ASSUME NEW w \in Writers, QueryUnderway(w, q) PROVE QueryUnderway(w, q)'
  BY <1>2, <1>4, <1>7, Zenon DEF QueryUnderway, Concerns, Ahead, Sending
<1>8. ASSUME NEW w \in Writers, Sending(w, q)'
      PROVE  Sending(w, q) /\ call'[w].outbox = call[w].outbox
  BY <1>2, <1>4, <1>8, ZenonT(30) DEF Sending
<1>9. InList(q)' => InList(q)
  BY <1>2 DEF InList
<1> QED
  BY <1>2, <1>4, <1>5, <1>6, <1>7, <1>8, <1>9, QueryKept, ZenonT(30)

------------------------------------------------------------------------------
(* Steps that write *)

\* A new entry has a new path, and the index keeps the others.
LEMMA AddKeepsPaths ==
    ASSUME DbInv, NEW perm, NEW path, NEW metadata, add(perm, path, metadata)
    PROVE  /\ \A x \in DOMAIN path_to_id : x \in DOMAIN path_to_id' /\ path_to_id'[x] = path_to_id[x]
           /\ \A id \in DOMAIN entries' :
                 id \in DOMAIN entries \/ entries'[id].metadata.path \notin DOMAIN path_to_id
<1>1. CASE UNCHANGED dbVars
  BY <1>1 DEF dbVars
<1>2. CASE /\ AddResult(perm, path, metadata) = "Ok"
           /\ path_to_id' = Insert(path_to_id, path, next_id)
           /\ entries' = Insert(entries, next_id, NewEntry(next_id, path, metadata))
  <2>1. path \notin DOMAIN path_to_id
    BY <1>2 DEF AddResult, AndThen
  <2>2. NewEntry(next_id, path, metadata).metadata.path = path
    BY DEF NewEntry
  <2>3. \A x \in DOMAIN path_to_id : x \in DOMAIN path_to_id' /\ path_to_id'[x] = path_to_id[x]
    BY <1>2, <2>1, Zenon DEF Insert
  <2>4. \A id \in DOMAIN entries' :
           id \in DOMAIN entries \/ entries'[id] = NewEntry(next_id, path, metadata)
    BY <1>2, Zenon DEF Insert
  <2> QED
    BY <2>1, <2>2, <2>3, <2>4, Zenon
<1> QED
  BY <1>1, <1>2, ZenonT(30) DEF add

\* No query reads the new entry, and nobody is in the middle of anything.
LEMMA AddEntryQuery ==
    ASSUME BrokerInv, TypeInv, NEW q \in Queriers, QueryInv(q), NEW r \in Registrars, AddEntry(r)
    PROVE  QueryInv(q)'
<1>1. /\ Goto(r, "done") /\ dbLock.writer = {} /\ dbLock.readers = {}
      /\ UNCHANGED << call, expired, request, stream, query_subscriptions >>
  BY Zenon DEF AddEntry, Acquirable, subsVars
<1>2. \A id \in DOMAIN entries : id \in DOMAIN entries' /\ entries'[id] = entries[id]
  BY AddKeepsEntries, Zenon DEF AddEntry, BrokerInv
<1>3. /\ \A x \in DOMAIN path_to_id : x \in DOMAIN path_to_id' /\ path_to_id'[x] = path_to_id[x]
      /\ \A id \in DOMAIN entries' :
            id \in DOMAIN entries \/ entries'[id].metadata.path \notin DOMAIN path_to_id
  BY AddKeepsPaths, Zenon DEF AddEntry, BrokerInv
<1>4. pc'[q] = pc[q] /\ \A w \in Writers : pc'[w] = pc[w]
  <2>1. q # r /\ \A w \in Writers : w # r
    BY Disjoint DEF Streams
  <2>2. pc' = [pc EXCEPT ![r] = "done"] /\ q \in DOMAIN pc /\ \A w \in Writers : w \in DOMAIN pc
    BY <1>1, ZenonT(30) DEF BrokerInv, Shape, Goto, Tasks, Clients, Streams
  <2> QED
    BY <2>1, <2>2
<1>5. \A w \in Writers : ~Notifying(w) /\ pc[w] # "update"
  BY <1>1, Zenon DEF BrokerInv, LocksHeld
<1>6. \A w \in Writers : ~QueryUnderway(w, q) /\ ~Sending(w, q)'
  BY <1>4, <1>5, Zenon DEF Notifying, QueryUnderway, Ahead, Sending
<1>7. ~Waiting(q) /\ ~Waiting(q)'
  BY <1>1, <1>4 DEF QueryInv, Waiting
<1>8. Permission(q)' = Permission(q) /\ (Live(q)' => Live(q)) /\ (InList(q)' => InList(q))
  BY <1>1, Zenon DEF Permission, Live, InList
<1>9. ASSUME InList(q)
      PROVE  /\ InputSpec(request[q]) \subseteq DOMAIN path_to_id'
             /\ (Answers(q)' <=> Answers(q)) /\ Body(q)' = Body(q) /\ Selected(q)' = Selected(q)
  <2>1. InputSpec(request[q]) \subseteq DOMAIN path_to_id
    BY <1>9 DEF QueryInv
  <2>2. request[q].select \subseteq DOMAIN path_to_id
    BY <2>1 DEF InputSpec
  <2>3. Selected(q)' = Selected(q)
    BY <1>1, <1>2, <1>3, <2>2, Zenon DEF Selected
  <2>4. \A id \in Selected(q) : entries'[id].metadata.path = entries[id].metadata.path
    BY <1>2 DEF Selected
  <2>5. ASSUME NEW x \in InputSpec(request[q]) PROVE QueryValue(q, x)' = QueryValue(q, x)
    <3>1. x \in DOMAIN path_to_id /\ path_to_id[x] \in DOMAIN entries
      BY <2>1, Zenon DEF BrokerInv, DbInv, PathsAndIdsAgree
    <3>2. /\ x \in DOMAIN path_to_id' /\ path_to_id'[x] = path_to_id[x]
          /\ path_to_id[x] \in DOMAIN entries' /\ entries'[path_to_id[x]] = entries[path_to_id[x]]
      BY <1>2, <1>3, <3>1, Zenon
    <3> QED
      BY <1>8, <3>1, <3>2, Zenon DEF QueryValue, get_entry_by_path, get_entry_by_id
  <2>6. (Answers(q)' <=> Answers(q)) /\ Body(q)' = Body(q)
    BY <1>1, <2>3, <2>4, <2>5, SameInputs, Zenon
  <2> QED
    BY <1>3, <2>1, <2>3, <2>6, Zenon
<1>10. InList(q)' /\ Live(q)' => UpToDate(q)'
  <2>1. InList(q)' /\ Live(q)' => UpToDate(q)
    BY <1>6, <1>8, ZenonT(30) DEF QueryInv
  <2> QED
    BY <1>1, <1>8, <1>9, <2>1, Zenon DEF UpToDate
<1>11. InList(q)' /\ Live(q)' => DOMAIN stream'[q].known \subseteq Selected(q)' \X {"Datapoint"}
  BY <1>1, <1>8, <1>9, ZenonT(30) DEF QueryInv
<1>12. InList(q)' => InputSpec(request'[q]) \subseteq DOMAIN path_to_id'
  BY <1>1, <1>8, <1>9, Zenon
<1>13. pc'[q] \in Before => DOMAIN stream'[q].known = {}
  BY <1>1, <1>4 DEF QueryInv
<1> QED
  BY <1>6, <1>7, <1>10, <1>11, <1>12, <1>13, Zenon DEF QueryInv

\* What a writer changes of what q reads is in its list.
LEMMA UpdateNextQuery ==
    ASSUME BrokerInv, TypeInv, GapInv, NEW q \in Queriers, QueryInv(q), NEW w \in Writers, UpdateNext(w)
    PROVE  QueryInv(q)'
<1>1. pc[w] = "update" /\ UNCHANGED << pc, expired, request, stream, query_subscriptions, path_to_id >>
  BY Zenon DEF UpdateNext, subsVars, update_entry
<1>2. dbLock.readers = {}
  BY <1>1, Zenon DEF BrokerInv, LocksHeld
<1>3. ~Waiting(q) /\ ~Waiting(q)'
  BY <1>1, <1>2, Zenon DEF QueryInv, Waiting
<1>4. \A v \in Writers : ~Sending(v, q) /\ ~Sending(v, q)' /\ (v # w => ~QueryUnderway(v, q))
  BY <1>1, AloneInUpdate DEF Sending, QueryUnderway, Ahead, Notifying
<1>5. Permission(q)' = Permission(q) /\ (Live(q)' => Live(q)) /\ (InList(q)' => InList(q))
  BY <1>1, Zenon DEF Permission, Live, InList
<1>6. /\ DOMAIN entries' = DOMAIN entries
      /\ \A id \in DOMAIN entries : entries'[id].metadata.path = entries[id].metadata.path
  BY UpdateNextChanges, Zenon
<1>7. Selected(q)' = Selected(q)
  BY <1>1, <1>6, Zenon DEF Selected
<1>8. Concerns(w, q) => Concerns(w, q)'
  <2> SUFFICES ASSUME Concerns(w, q) PROVE Concerns(w, q)'
    BY Zenon
  <2>1. PICK id \in DOMAIN entries : /\ entries[id].metadata.path \in InputSpec(request[q])
                                    /\ HasChanged(w, id, "Datapoint")
    BY Zenon DEF Concerns, HasChanged
  <2>2. HasChanged(w, id, "Datapoint")'
    BY <2>1, UpdateNextChanges, ZenonT(30)
  <2> QED
    BY <1>1, <1>6, <2>1, <2>2, ZenonT(30) DEF Concerns, HasChanged
<1>9. ASSUME Concerns(w, q)' PROVE QueryUnderway(w, q)'
  BY <1>1, <1>9, Zenon DEF QueryUnderway, Ahead
<1>10. ASSUME InList(q), ~Concerns(w, q)'
       PROVE  (Answers(q)' <=> Answers(q)) /\ Body(q)' = Body(q)
  <2>1. ASSUME NEW x \in InputSpec(request[q]) PROVE QueryValue(q, x)' = QueryValue(q, x)
    <3>0. PICK id : id = path_to_id[x]
      BY Zenon
    <3>1. x \in DOMAIN path_to_id /\ id \in DOMAIN entries /\ entries[id].metadata.path = x
      BY <1>10, <3>0, Zenon DEF QueryInv, BrokerInv, DbInv, PathsAndIdsAgree
    <3>2. ~HasChanged(w, id, "Datapoint")'
      BY <1>1, <1>6, <1>10, <3>1, Zenon DEF Concerns, HasChanged
    <3>3. Value(entries'[id], "Datapoint") = Value(entries[id], "Datapoint")
      BY <3>1, <3>2, UpdateNextChanges, Zenon DEF Field
    <3>4. entries'[id].datapoint = entries[id].datapoint
      BY <3>3 DEF Value, Some
    <3>5. get_entry_by_path(Permission(q), x)' = get_entry_by_path(Permission(q), x)
      BY <1>1, <1>5, <1>6, <3>0, <3>1, Zenon DEF get_entry_by_path, get_entry_by_id
    <3> QED
      BY <1>1, <3>0, <3>4, <3>5, Zenon DEF QueryValue
  <2>2. \A id \in Selected(q) : entries'[id].metadata.path = entries[id].metadata.path
    BY <1>6 DEF Selected
  <2> QED
    BY <1>1, <1>7, <2>1, <2>2, SameInputs, Zenon
<1>11. InList(q)' /\ Live(q)' => UpToDate(q)' \/ \E v \in Writers : QueryUnderway(v, q)'
  <2> SUFFICES ASSUME InList(q)', Live(q)', ~Concerns(w, q)' PROVE UpToDate(q)'
    BY <1>9, Zenon
  <2>1. ~QueryUnderway(w, q)
    BY <1>4, <1>8 DEF QueryUnderway
  <2>2. UpToDate(q)
    BY <1>4, <1>5, <2>1, ZenonT(30) DEF QueryInv
  <2> QED
    BY <1>1, <1>5, <1>10, <2>2, Zenon DEF UpToDate
<1>12. InList(q)' /\ Live(q)' => DOMAIN stream'[q].known \subseteq Selected(q)' \X {"Datapoint"}
  BY <1>1, <1>5, <1>7, ZenonT(30) DEF QueryInv
<1>13. InList(q)' => InputSpec(request'[q]) \subseteq DOMAIN path_to_id'
  BY <1>1, <1>5, ZenonT(30) DEF QueryInv
<1>14. pc'[q] \in Before => DOMAIN stream'[q].known = {}
  BY <1>1, Zenon DEF QueryInv
<1> QED
  BY <1>3, <1>4, <1>11, <1>12, <1>13, <1>14, Zenon DEF QueryInv

------------------------------------------------------------------------------
(* The other steps of writers *)

\* A step of a writer that leaves the database and what q knows alone.
LEMMA WriterQuery ==
    ASSUME BrokerInv, NEW q \in Queriers, QueryInv(q), NEW w \in Writers,
           UNCHANGED pc \/ \E label : Goto(w, label),
           \A v \in Writers : v # w => call'[v] = call[v] /\ pc'[v] = pc[v],
           UNCHANGED << entries, path_to_id, expired, request >>, stream'[q] = stream[q],
           InList(q)' => InList(q),
           \/ dbLock' \in {dbLock, AcquireWrite(dbLock, w), Release(dbLock, w), Downgrade(dbLock, w)}
           \/ \E mode : dbLock' = Enqueue(dbLock, w, mode),
           InList(q) /\ Live(q) /\ QueryUnderway(w, q) => QueryUnderway(w, q)' \/ UpToDate(q),
           Sending(w, q)' /\ Live(q) => Answers(q) /\ call'[w].outbox[1].body = Body(q)
    PROVE  QueryInv(q)'
<1>1. pc'[q] = pc[q] /\ w # q
  <2>1. w # q
    BY Disjoint DEF Streams
  <2>2. UNCHANGED pc \/ \E label : pc' = [pc EXCEPT ![w] = label]
    BY Zenon DEF Goto
  <2>3. q \in DOMAIN pc
    BY Zenon DEF BrokerInv, Shape, Tasks, Clients, Streams
  <2> QED
    BY <2>1, <2>2, <2>3, ZenonT(30)
<1>2. Permission(q)' = Permission(q) /\ (Live(q)' => Live(q))
  BY Zenon DEF Permission, Live
<1>3. ASSUME NEW v \in Writers, InList(q), Live(q), QueryUnderway(v, q)
      PROVE  QueryUnderway(v, q)' \/ UpToDate(q)
  <2>1. CASE v = w
    BY <1>3, <2>1, Zenon
  <2>2. CASE v # w
    BY <1>3, <2>2, ZenonT(30) DEF QueryUnderway, Concerns, Ahead, Sending
  <2> QED
    BY <2>1, <2>2, ZenonT(30)
<1>4. ASSUME NEW v \in Writers, Sending(v, q)', Live(q)
      PROVE  \/ Sending(v, q) /\ call'[v].outbox = call[v].outbox
             \/ Answers(q) /\ call'[v].outbox[1].body = Body(q)
  <2>1. CASE v = w
    BY <1>4, <2>1, Zenon
  <2>2. CASE v # w
    BY <1>4, <2>2, ZenonT(30) DEF Sending
  <2> QED
    BY <2>1, <2>2, ZenonT(30)
<1>5. Waiting(q)' => Waiting(q) /\ (q \in dbLock.readers => q \in dbLock'.readers)
  BY <1>1, ReadersKept, ZenonT(30) DEF Waiting
<1> QED
  BY <1>1, <1>2, <1>3, <1>4, <1>5, QueryKept, ZenonT(30)

\* A call begins; nothing is underway.
LEMMA UpdateEntriesQuery ==
    ASSUME BrokerInv, TypeInv, NEW q \in Queriers, QueryInv(q), NEW w \in Writers, UpdateEntries(w)
    PROVE  QueryInv(q)'
<1>1. \A v \in Writers : v # w => call'[v] = call[v] /\ pc'[v] = pc[v]
  BY WriterMoves, Zenon DEF BrokerInv
<1>2. /\ UNCHANGED << entries, path_to_id, expired, request, stream, query_subscriptions >>
      /\ Goto(w, "db_write") /\ dbLock' = Enqueue(dbLock, w, "write")
  BY Zenon DEF UpdateEntries, dbVars, subsVars
<1>3. pc[w] = "idle" /\ pc'[w] = "db_write"
  BY CallShape, Zenon DEF UpdateEntries, Goto
<1>4. ~QueryUnderway(w, q) /\ ~Sending(w, q)'
  BY <1>3, Zenon DEF QueryUnderway, Ahead, Sending
<1> QED
  BY <1>1, <1>2, <1>4, WriterQuery, ZenonT(30) DEF InList

\* Steps in which a writer waits, takes or gives up locks, or cleans up.
LEMMA WaitingWriterQuery ==
    ASSUME BrokerInv, TypeInv, NEW q \in Queriers, QueryInv(q), NEW w \in Writers,
           \/ BeginUpdate(w) \/ DowngradeLock(w) \/ RequestSubsRead(w)
           \/ EndNotify(w) \/ RequestCleanup(w) \/ Cleanup(w)
    PROVE  QueryInv(q)'
<1>1. \A v \in Writers : v # w => call'[v] = call[v] /\ pc'[v] = pc[v]
  BY WriterMoves, Zenon DEF BrokerInv, WriterStep
<1>2. UNCHANGED << entries, path_to_id, expired, request, stream >>
  BY Zenon DEF BeginUpdate, DowngradeLock, RequestSubsRead, EndNotify, RequestCleanup, Cleanup, dbVars
<1>3. InList(q)' => InList(q)
  <2>1. \/ query_subscriptions' = query_subscriptions
        \/ query_subscriptions' = Retained(query_subscriptions)
    BY Zenon DEF BeginUpdate, DowngradeLock, RequestSubsRead, EndNotify, RequestCleanup, Cleanup, subsVars
  <2> QED
    BY <2>1, ChangeSubscribers, RetainedElems, Zenon DEF InList
<1>4. dbLock' \in {dbLock, AcquireWrite(dbLock, w), Release(dbLock, w), Downgrade(dbLock, w)}
  BY Zenon DEF BeginUpdate, DowngradeLock, RequestSubsRead, EndNotify, RequestCleanup, Cleanup
<1>5. \E label : Goto(w, label)
  BY ZenonT(30) DEF BeginUpdate, DowngradeLock, RequestSubsRead, EndNotify, RequestCleanup, Cleanup
<1>6. \/ pc[w] \in {"db_write", "cleanup_wanted", "cleanup"} /\ pc'[w] # "send"
      \/ /\ pc[w] \in {"update", "downgraded"} /\ pc'[w] \in {"downgraded", "subs_read"}
         /\ call'[w].changed = call[w].changed
      \/ pc[w] = "notify" /\ call[w].recipients = << >> /\ pc'[w] # "send"
  <2>1. CASE BeginUpdate(w) \/ RequestCleanup(w) \/ Cleanup(w)
    <3>1. /\ pc[w] \in {"db_write", "cleanup_wanted", "cleanup"}
          /\ Goto(w, "update") \/ Goto(w, "cleanup") \/ Goto(w, "idle")
      BY <2>1, Disjoint, Zenon DEF BeginUpdate, RequestCleanup, Cleanup, Clients
    <3> QED
      BY <3>1, CallShape DEF Goto
  <2>2. CASE DowngradeLock(w)
    BY <2>2, CallShape, Zenon DEF DowngradeLock, Goto
  <2>3. CASE RequestSubsRead(w)
    BY <2>3, CallShape, Zenon DEF RequestSubsRead, Goto
  <2>4. CASE EndNotify(w)
    BY <2>4, CallShape, ZenonT(30) DEF EndNotify, Goto
  <2> QED
    BY <2>1, <2>2, <2>3, <2>4, ZenonT(30)
<1>7. ~Sending(w, q)'
  BY <1>6 DEF Sending
<1>8. ASSUME QueryUnderway(w, q) PROVE QueryUnderway(w, q)'
  <2>1. Elems(<< >>) = {}
    BY DEF Elems
  <2>2. /\ pc'[w] \in {"downgraded", "subs_read"} /\ call'[w].changed = call[w].changed
        /\ Concerns(w, q)
    BY <1>6, <1>8, <2>1, ZenonT(30) DEF QueryUnderway, Ahead, Sending
  <2>3. Concerns(w, q)' /\ Ahead(w, q)'
    BY <1>2, <2>2, ZenonT(30) DEF Concerns, Ahead
  <2> QED
    BY <2>3 DEF QueryUnderway
<1> QED
  BY <1>1, <1>2, <1>3, <1>4, <1>5, <1>7, <1>8, WriterQuery, ZenonT(30)

\* The recipients are all that are registered.
LEMMA BeginNotifyQuery ==
    ASSUME BrokerInv, TypeInv, NEW q \in Queriers, QueryInv(q), NEW w \in Writers, BeginNotify(w)
    PROVE  QueryInv(q)'
<1>1. \A v \in Writers : v # w => call'[v] = call[v] /\ pc'[v] = pc[v]
  BY WriterMoves, Zenon DEF BrokerInv, WriterStep
<1>2. /\ UNCHANGED << entries, path_to_id, expired, request, stream, query_subscriptions, dbLock >>
      /\ Goto(w, "notify")
  BY Zenon DEF BeginNotify, dbVars, subsVars
<1>3. /\ call'[w].changed = call[w].changed
      /\ call'[w].recipients = query_subscriptions \o change_subscriptions
  BY CallShape DEF BeginNotify
<1>4. pc[w] = "subs_read" /\ pc'[w] = "notify"
  BY CallShape, Zenon DEF BeginNotify, Goto
<1>5. Elems(query_subscriptions) \subseteq Elems(call'[w].recipients)
  BY <1>3, ChangeSubscribers, ConcatElems, Zenon
<1>6. ASSUME InList(q), QueryUnderway(w, q) PROVE QueryUnderway(w, q)'
  <2>1. Concerns(w, q)
    BY <1>4, <1>6 DEF QueryUnderway, Sending
  <2>2. Concerns(w, q)'
    BY <1>2, <1>3, <2>1, ZenonT(30) DEF Concerns
  <2>3. Ahead(w, q)'
    BY <1>4, <1>5, <1>6, Zenon DEF Ahead, InList
  <2> QED
    BY <2>2, <2>3 DEF QueryUnderway
<1>7. ~Sending(w, q)'
  BY <1>4, Zenon DEF Sending
<1> QED
  BY <1>1, <1>2, <1>6, <1>7, WriterQuery, ZenonT(30) DEF InList

\* A query that a change concerns is executed on the state that was changed.
LEMMA ComposeQuery ==
    ASSUME BrokerInv, TypeInv, NEW q \in Queriers, QueryInv(q), NEW w \in Writers, Compose(w)
    PROVE  QueryInv(q)'
<1> DEFINE x == Head(call[w].recipients)
           message == MessageFor(x, call[w].changed, call[w].commit)
<1>1. \A v \in Writers : v # w => call'[v] = call[v] /\ pc'[v] = pc[v]
  BY WriterMoves, Zenon DEF BrokerInv, WriterStep
<1>2. UNCHANGED << entries, path_to_id, expired, request, stream, query_subscriptions, dbLock >>
  BY Zenon DEF Compose, dbVars, subsVars, lockVars
<1>3. pc[w] = "notify" /\ call[w].recipients # << >>
  BY Zenon DEF Compose
<1>4. \/ message = None /\ call' = [call EXCEPT ![w].recipients = Tail(@)] /\ UNCHANGED pc
      \/ message # None /\ call' = [call EXCEPT ![w].outbox = message] /\ Goto(w, "send")
  BY Zenon DEF Compose
<1>5. ASSUME q = x
      PROVE  /\ Concerns(w, q) => message = Execute(q, call[w].commit)
             /\ message # None => message = Execute(q, call[w].commit)
  BY <1>5, ZenonT(30) DEF MessageFor, QueryMessage, Concerns
<1>6. Elems(call[w].recipients) = {x} \cup Elems(Tail(call[w].recipients))
  <2>1. IsSeq(call[w].recipients)
    BY SeqIsSeq, Zenon DEF TypeInv, Lists
  <2> QED
    BY <1>3, <2>1, ElemsFacts, Zenon
<1> HIDE DEF message, x
<1>7. /\ call'[w].changed = call[w].changed
      /\ \/ message = None /\ pc'[w] = "notify" /\ call'[w].recipients = Tail(call[w].recipients)
         \/ /\ message # None /\ pc'[w] = "send"
            /\ call'[w].recipients = call[w].recipients /\ call'[w].outbox = message
  <2>1. CASE message = None /\ call' = [call EXCEPT ![w].recipients = Tail(@)] /\ UNCHANGED pc
    BY <1>3, <2>1, CallShape, Zenon
  <2>2. CASE message # None /\ call' = [call EXCEPT ![w].outbox = message] /\ Goto(w, "send")
    BY <2>2, CallShape, ZenonT(30) DEF Goto
  <2> QED
    BY <1>4, <2>1, <2>2
<1>8. ASSUME Sending(w, q)'
      PROVE  Answers(q) /\ call'[w].outbox[1].body = Body(q)
  <2>1. q = x /\ message # None /\ call'[w].outbox = message
    BY <1>7, <1>8 DEF Sending, x
  <2> QED
    BY <1>5, <2>1, ExecuteIs, Zenon
<1>9. ASSUME QueryUnderway(w, q)
      PROVE  QueryUnderway(w, q)' \/ UpToDate(q)
  <2>1. Concerns(w, q) /\ q \in Elems(call[w].recipients)
    BY <1>3, <1>9 DEF QueryUnderway, Ahead, Sending
  <2>2. Concerns(w, q)'
    BY <1>2, <1>7, <2>1, Zenon DEF Concerns
  <2>3. CASE q # x
    <3>1. q \in Elems(Tail(call[w].recipients))
      BY <1>6, <2>1, <2>3, Zenon
    <3>2. Ahead(w, q)'
      BY <1>7, <3>1, Zenon DEF Ahead
    <3> QED
      BY <2>2, <3>2 DEF QueryUnderway
  <2>4. CASE q = x /\ message # None
    BY <1>7, <2>4, ZenonT(30) DEF QueryUnderway, Sending, x
  <2>5. CASE q = x /\ message = None
    BY <1>5, <2>1, <2>5, ExecuteIs, Zenon DEF UpToDate
  <2> QED
    BY <2>3, <2>4, <2>5, Zenon
<1>10. UNCHANGED pc \/ \E label : Goto(w, label)
  BY <1>4, Zenon
<1> QED
  BY <1>1, <1>2, <1>8, <1>9, <1>10, WriterQuery, ZenonT(30) DEF InList

\* What is sent to a query replaces all that it knows.
LEMMA SendQuery ==
    ASSUME BrokerInv, TypeInv, NEW q \in Queriers, QueryInv(q), NEW w \in Writers, Send(w)
    PROVE  QueryInv(q)'
<1> DEFINE x == Head(call[w].recipients)
<1>1. \A v \in Writers : v # w => call'[v] = call[v] /\ pc'[v] = pc[v]
  BY WriterMoves, Zenon DEF BrokerInv, WriterStep
<1>2. /\ pc[w] = "send" /\ pc'[w] = "notify" /\ call'[w].changed = call[w].changed
      /\ call'[w].recipients = Tail(call[w].recipients)
      /\ UNCHANGED << entries, expired, request, query_subscriptions >>
      /\ \A s \in Streams : s # x => stream'[s] = stream[s]
      /\ x \in Streams /\ ~stream[x].closed =>
            stream'[x].known = Merge(stream[x].known, call[w].outbox[1].body) /\ ~stream'[x].closed
      /\ x \in Streams /\ stream[x].closed => stream'[x] = stream[x]
  BY SendMoves, Zenon DEF subsVars
<1>3. UNCHANGED << path_to_id, dbLock >> /\ Goto(w, "notify")
  BY Zenon DEF Send, dbVars, lockVars
<1>4. q \in Streams
  BY Zenon DEF Streams
<1> HIDE DEF x
<1>5. ~Sending(w, q)'
  BY <1>2, ZenonT(30) DEF Sending
<1>6. CASE q # x \/ stream[q].closed
  <2>1. stream'[q] = stream[q]
    BY <1>2, <1>4, <1>6, ZenonT(30)
  <2>2. ASSUME Live(q), QueryUnderway(w, q) PROVE QueryUnderway(w, q)'
    <3>1. q # x
      BY <1>6, <2>2, Zenon DEF Live
    <3>2. Concerns(w, q) /\ q \in Elems(Tail(call[w].recipients))
      BY <1>2, <2>2, <3>1, ZenonT(30) DEF QueryUnderway, Ahead, Sending, x
    <3>3. Concerns(w, q)' /\ Ahead(w, q)'
      BY <1>2, <3>2, ZenonT(30) DEF Concerns, Ahead
    <3> QED
      BY <3>3 DEF QueryUnderway
  <2> QED
    BY <1>1, <1>2, <1>3, <1>5, <2>1, <2>2, WriterQuery, ZenonT(30) DEF InList
<1>7. CASE q = x /\ ~stream[q].closed
  <2>1. stream'[q].known = Merge(stream[q].known, call[w].outbox[1].body)
    BY <1>2, <1>4, <1>7, Zenon
  <2>2. Sending(w, q) /\ pc[q] \in After
    BY <1>2, <1>7, Unlisted, ZenonT(30) DEF Sending, x
  <2>3. pc'[q] = pc[q]
    BY <1>3, Disjoint DEF BrokerInv, Shape, Goto, Tasks, Clients, Streams
  <2>4. ~Waiting(q)' /\ ~Waiting(q) /\ pc'[q] \notin Before
    BY <2>2, <2>3, Zenon DEF Waiting, Before, After
  <2>5. Permission(q)' = Permission(q)
    BY <1>2, Zenon DEF Permission
  <2>6. Live(q)' => Live(q)
    BY <1>7, <2>5, Zenon DEF Live
  <2>7. (Answers(q)' <=> Answers(q)) /\ Body(q)' = Body(q) /\ Selected(q)' = Selected(q)
    BY <1>2, <1>3, <2>5, SameAnswer, Zenon
  <2>8. InList(q)' => InList(q)
    BY <1>2, ZenonT(30) DEF InList
  <2>9. InList(q)' => InputSpec(request'[q]) \subseteq DOMAIN path_to_id'
    BY <1>2, <1>3, <2>8, ZenonT(30) DEF QueryInv
  <2>10. ASSUME InList(q)', Live(q)'
         PROVE  /\ DOMAIN stream'[q].known \subseteq Selected(q)' \X {"Datapoint"}
                /\ UpToDate(q)'
    <3>1. /\ call[w].outbox[1].body = Body(q)
          /\ DOMAIN stream[q].known \subseteq Selected(q) \X {"Datapoint"}
      BY <2>2, <2>6, <2>8, <2>10, ZenonT(30) DEF QueryInv
    <3>2. stream'[q].known = Body(q)
      BY <2>1, <3>1, MergeAll, Zenon
    <3>3. DOMAIN Body(q) = Selected(q) \X {"Datapoint"}
      BY Zenon DEF Body
    <3> QED
      BY <2>7, <3>2, <3>3, Zenon DEF UpToDate
  <2>11. ASSUME NEW v \in Writers, Sending(v, q)', Live(q)'
         PROVE  Answers(q)' /\ call'[v].outbox[1].body = Body(q)'
    <3>1. v # w
      BY <1>5, <2>11
    <3>2. Sending(v, q) /\ call'[v].outbox = call[v].outbox
      BY <1>1, <2>11, <3>1, Zenon DEF Sending
    <3>3. Answers(q) /\ call[v].outbox[1].body = Body(q)
      BY <2>6, <2>11, <3>2, ZenonT(30) DEF QueryInv
    <3> QED
      BY <2>7, <3>2, <3>3, Zenon
  <2> QED
    BY <2>4, <2>9, <2>10, <2>11, Zenon DEF QueryInv
<1> QED
  BY <1>6, <1>7

------------------------------------------------------------------------------
(* The theorem *)

\* No query is known at first.
LEMMA QueryInitially ==
    ASSUME BrokerInit, NEW q \in Queriers
    PROVE  QueryInv(q)
<1>1. /\ query_subscriptions = << >> /\ pc = [t \in Tasks |-> "idle"]
      /\ stream = [s \in Streams |-> [chan |-> << >>, closed |-> FALSE, known |-> EmptyMap, since |-> 0]]
  BY Zenon DEF BrokerInit
<1>2. ~InList(q)
  BY <1>1 DEF InList, Elems
<1>3. pc[q] = "idle" /\ \A w \in Writers : pc[w] = "idle"
  BY <1>1 DEF Tasks, Clients, Streams
<1>4. stream[q].known = EmptyMap
  BY <1>1 DEF Streams
<1>5. DOMAIN stream[q].known = {}
  BY <1>4 DEF EmptyMap
<1> QED
  BY <1>2, <1>3, <1>5, ZenonT(30) DEF QueryInv, Waiting, Sending

\* Every step keeps the invariant of a query, if no batch names an entry twice
\* and no call of update_entries is cut short.
LEMMA QueryStep ==
    ASSUME CompleteUpdates, BrokerInv, TypeInv, GapInv, NEW q \in Queriers, QueryInv(q), [BrokerNext]_vars
    PROVE  QueryInv(q)'
<1>1. ASSUME NEW w \in Writers, UpdateEntries(w) \/ WriterStep(w) PROVE QueryInv(q)'
  BY <1>1, UpdateEntriesQuery, WaitingWriterQuery, UpdateNextQuery, BeginNotifyQuery,
     ComposeQuery, SendQuery, Zenon DEF WriterStep
<1>2. ASSUME NEW s \in Subscribers, Subscribe(s) \/ SubscriberStep(s) PROVE QueryInv(q)'
  <2>1. s \in Streams /\ s \notin Writers /\ s # q
    BY Disjoint DEF Streams
  <2> QED
    BY <1>2, <2>1, SubscribingOther, WaitingQuery, Zenon DEF SubscriberStep
<1>3. ASSUME NEW s \in Queriers, SubscribeQuery(s) \/ QuerierStep(s) PROVE QueryInv(q)'
  <2>1. s \in Streams /\ s \notin Writers
    BY Disjoint DEF Streams
  <2>2. CASE s = q
    BY <1>3, <2>2, SubscribeQueryOwn, CompileQueryOwn, AddQuerySubscriptionOwn, OwnSteps, Zenon
       DEF QuerierStep
  <2>3. CASE s # q
    BY <1>3, <2>1, <2>3, SubscribingOther, WaitingQuery, Zenon DEF QuerierStep
  <2> QED
    BY <2>2, <2>3, Zenon
<1>4. ASSUME NEW r \in Registrars, RequestAdd(r) \/ AddEntry(r) PROVE QueryInv(q)'
  <2>1. r \notin Writers /\ r # q
    BY Disjoint DEF Streams
  <2> QED
    BY <1>4, <2>1, WaitingQuery, AddEntryQuery, Zenon
<1>5. CASE HousekeeperStep \/ RequestShutdown \/ Shutdown
  <2>1. /\ Housekeeper \notin Writers /\ Terminator \notin Writers
        /\ Housekeeper # q /\ Terminator # q
    BY Disjoint DEF Clients, Streams
  <2> QED
    BY <1>5, <2>1, WaitingQuery, ZenonT(30) DEF HousekeeperStep
<1>6. ASSUME NEW s \in Streams, Read(s) \/ Leave(s) PROVE QueryInv(q)'
  <2>1. s \in Clients /\ s \notin Writers
    BY Disjoint DEF Clients
  <2> QED
    BY <1>6, <2>1, ClientOther, OwnSteps, Zenon
<1>7. ASSUME NEW t \in Clients, Expire(t) \/ Cancel(t) PROVE QueryInv(q)'
  <2>1. CASE t \in Writers
    <3>1. Expire(t)
      BY <1>7, <2>1, Zenon DEF Cancel, CompleteUpdates
    <3>2. t # q
      BY <2>1, Disjoint, Zenon DEF Streams
    <3> QED
      BY <3>1, <3>2, ExpireWriter, Zenon
  <2>2. CASE t \notin Writers
    BY <1>7, <2>2, ClientOther, OwnSteps, Zenon
  <2> QED
    BY <2>1, <2>2, Zenon
<1>8. CASE UNCHANGED vars
  <2>1. UNCHANGED << entries, path_to_id, call, pc, expired, request, stream, query_subscriptions, dbLock >>
    BY <1>8 DEF vars, dbVars, subsVars, lockVars
  <2>2. Permission(q)' = Permission(q) /\ (Live(q)' => Live(q)) /\ (InList(q)' => InList(q))
    BY <2>1 DEF Permission, Live, InList
  <2>3. ASSUME NEW w \in Writers, QueryUnderway(w, q) PROVE QueryUnderway(w, q)'
    BY <2>1, <2>3, Zenon DEF QueryUnderway, Concerns, Ahead, Sending
  <2>4. ASSUME NEW w \in Writers, Sending(w, q)'
        PROVE  Sending(w, q) /\ call'[w].outbox = call[w].outbox
    BY <2>1, <2>4, Zenon DEF Sending
  <2>5. Waiting(q)' => Waiting(q)
    BY <2>1, Zenon DEF Waiting
  <2> QED
    BY <2>1, <2>2, <2>3, <2>4, <2>5, QueryKept, ZenonT(30)
<1> QED
  BY <1>1, <1>2, <1>3, <1>4, <1>5, <1>6, <1>7, <1>8, Zenon DEF BrokerNext

\* Once nobody writes or notifies, nothing is underway.
LEMMA QueryInvSuffices ==
    ASSUME CompleteUpdates => \A q \in Queriers : QueryInv(q), TypeInv
    PROVE  QueriesUpToDate
<1> SUFFICES ASSUME CompleteUpdates, Settled, NEW i \in DOMAIN query_subscriptions,
                    Live(query_subscriptions[i]),
                    Execute(query_subscriptions[i], Len(log)) # None
             PROVE  stream[query_subscriptions[i]].known
                       = Execute(query_subscriptions[i], Len(log))[1].body
  BY Zenon DEF QueriesUpToDate
<1>1. PICK q : q = query_subscriptions[i]
  OBVIOUS
<1>2. query_subscriptions \in Seq(Queriers \cap Joined)
  BY DEF TypeInv, Lists
<1>3. q \in Queriers /\ InList(q)
  BY <1>1, <1>2 DEF InList, Elems
<1>4. \A w \in Writers : ~QueryUnderway(w, q)
  BY Zenon DEF Settled, Notifying, QueryUnderway, Ahead, Sending
<1>5. UpToDate(q)
  BY <1>1, <1>3, <1>4, ZenonT(30) DEF QueryInv
<1> QED
  BY <1>1, <1>5, ExecuteIs, Zenon DEF UpToDate

\* A query subscription misses nothing: once the notifications of update_entries
\* are through, a live subscription whose condition holds has been sent exactly
\* what the database now says, because subscribe_query keeps its read lock until
\* it is registered.  For any number of writers, queries and entries, with
\* entries that are added meanwhile, if no batch names an entry twice and no call
\* of update_entries is cut short.
THEOREM QueriesMissNothing == BrokerSpec => []QueriesUpToDate
<1> DEFINE Inv == CompleteUpdates => GapInv /\ \A q \in Queriers : QueryInv(q)
<1>1. BrokerInit => Inv
  BY GapInitially, QueryInitially
<1>2. BrokerInv /\ TypeInv /\ Inv /\ [BrokerNext]_vars => Inv'
  <2>1. CompleteUpdates' => CompleteUpdates
    BY Zenon DEF CompleteUpdates
  <2> QED
    BY <2>1, GapStep, QueryStep, Zenon
<1>3. TypeInv /\ Inv => QueriesUpToDate
  BY QueryInvSuffices
<1> HIDE DEF Inv
<1> QED
  BY <1>1, <1>2, <1>3, BrokerInvariant, TypeInvariant, PTL DEF BrokerSpec

==============================================================================
