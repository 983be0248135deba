------------------------------- MODULE Broker -------------------------------
(***************************************************************************)
(* The databroker's core (broker.rs: AuthorizedAccess, Subscriptions,      *)
(* DataBroker): tasks that update entries, register entries and subscribe, *)
(* the housekeeping task and shutdown, over two locks (database and        *)
(* subscriptions) and one bounded channel per subscription.                *)
(*                                                                         *)
(* A step of the model runs a task from one await to the next, or to a     *)
(* point where another thread can tell the difference: releasing one lock  *)
(* and queueing for the other are two steps.                               *)
(***************************************************************************)
EXTENDS Database, RwLock

CONSTANTS
    Writers,            \* tasks that call update_entries
    Registrars,         \* tasks that call add_entry
    Subscribers,        \* clients of subscribe
    Queriers,           \* clients of subscribe_query
    Housekeeper,        \* the task of start_housekeeping_task
    Terminator,         \* the task that calls shutdown
    PermissionOf,       \* permissions of each of the clients
    Expiring,           \* clients whose token expires at some time
    Cancellable,        \* tasks whose future is dropped when their client goes
    BatchInputs,        \* arguments of update_entries: sequences of <<id, update>>
    SubscribeInputs,    \* arguments of subscribe: functions from ids to sets of fields
    QueryInputs,        \* arguments of subscribe_query
    Preloaded,          \* <<path, metadata, default>> of the entries loaded at startup
    Capacity,           \* of a subscription's channel (10 in the code)
    MaxCalls            \* bound on the calls of update_entries

Streams == Subscribers \cup Queriers
Clients == Writers \cup Registrars \cup Streams
Tasks == Clients \cup {Housekeeper, Terminator}

ASSUME CapacityAssumption == Capacity \in Nat \ {0}

ASSUME TasksAssumption ==
    /\ Writers \cap (Registrars \cup Streams) = {}
    /\ Registrars \cap Streams = {}
    /\ Subscribers \cap Queriers = {}
    /\ Housekeeper \notin Clients
    /\ Terminator \notin Clients \cup {Housekeeper}

ASSUME BrokerInputsAssumption ==
    /\ BatchInputs \subseteq Seq(Nat \X EntryUpdate)
    /\ Preloaded \in Seq(ValidPaths \X MetadataInput \X Option(DataValue))
    /\ \A i, j \in DOMAIN Preloaded : Preloaded[i][1] = Preloaded[j][1] => i = j

ASSUME PermissionOfAssumption == PermissionOf \in [Clients -> PermissionSet(Paths)]

VARIABLES
    dbLock,                 \* DataBroker.database
    subsLock,               \* DataBroker.subscriptions
    pc,                     \* where each task is
    call,                   \* local state of the update_entries of each writer
    registration,           \* argument of the add_entry of each registrar
    query_subscriptions,    \* Subscriptions, in the order they were added
    change_subscriptions,
    request,                \* what each client subscribed to
    stream,                 \* each client's end of its subscription
    expired,                \* clients whose token has expired
    log,                    \* the states of the database after each write, in order
    calls                   \* number of calls of update_entries so far

lockVars == << dbLock, subsLock >>
subsVars == << query_subscriptions, change_subscriptions >>
vars ==
    << dbVars, lockVars, subsVars, pc, call, registration, request, stream,
       expired, log, calls >>

Goto(t, label) == pc' = [pc EXCEPT ![t] = label]

\* Mutant: a subscription keeps the permissions it was created with.
PermissionAtFirst(t) == PermissionOf[t]

Permission(t) == [PermissionOf[t] EXCEPT !.expired = @ \/ t \in expired]

------------------------------------------------------------------------------
(* Notifications.  A message says at which commit it was written and maps   *)
(* <<id, field>> to what the field was then.                                *)

Value(entry, field) ==
    IF field = "Datapoint" THEN Some(entry.datapoint) ELSE entry.actuator_target

Message(commit, body) == [commit |-> commit, body |-> body]

\* ChangeSubscription::notify(None): everything subscribed to that is readable.
InitialMessage(s, commit) ==
    LET keys == {k \in (DOMAIN request[s]) \X Field :
                    /\ k[2] \in request[s][k[1]]
                    /\ get_entry_by_id(Permission(s), k[1]) = "Ok"}
    IN  Some(Message(commit, [k \in keys |-> Value(entries[k[1]], k[2])]))

\* ChangeSubscription::notify(Some(changed)): the hits among what changed.
ChangeMessage(s, changed, commit) ==
    LET keys == {k \in ((DOMAIN request[s]) \cap (DOMAIN changed)) \X Field :
                    /\ k[2] \in request[s][k[1]] \cap changed[k[1]]
                    /\ get_entry_by_id(Permission(s), k[1]) = "Ok"}
    IN  IF keys = {} THEN None
        ELSE Some(Message(commit, [k \in keys |-> Value(entries[k[1]], k[2])]))

\* What a query sees of a path.
QueryValue(q, path) ==
    IF get_entry_by_path(Permission(q), path) = "Ok"
    THEN entries[path_to_id[path]].datapoint ELSE NotAvailable

\* CompiledQuery::execute: a response if the WHERE clause, if any, is true.  A
\* query that fails to execute is one whose clause is not true.
Execute(q, commit) ==
    LET where == request[q].where
        selected == {id \in DOMAIN entries : entries[id].metadata.path \in request[q].select}
    IN  IF where # None /\ QueryValue(q, where[1].path) \notin where[1].values THEN None
        ELSE Some(Message(commit, [k \in selected \X {"Datapoint"} |->
                                      Some(QueryValue(q, entries[k[1]].metadata.path))]))

\* The paths a query reads (CompiledQuery.input_spec).
InputSpec(query) ==
    query.select \cup (IF query.where = None THEN {} ELSE {query.where[1].path})

\* QuerySubscription::notify(Some(changed)).
QueryMessage(q, changed, commit) ==
    IF \E id \in (DOMAIN changed) \cap (DOMAIN entries) :
          /\ entries[id].metadata.path \in InputSpec(request[q])
          /\ "Datapoint" \in changed[id]
    THEN Execute(q, commit) ELSE None

Merge(known, body) ==
    [k \in (DOMAIN known) \cup (DOMAIN body) |-> IF k \in DOMAIN body THEN body[k] ELSE known[k]]

\* `message` goes into the channel of s.
Deliver(s, message) ==
    stream' = [stream EXCEPT ![s].chan = Append(@, message),
                             ![s].known = Merge(@, message.body)]

------------------------------------------------------------------------------
(* update_entries *)

NoCall ==
    [todo |-> << >>, changed |-> EmptyMap, rejected |-> FALSE, commit |-> 0,
     recipients |-> << >>, outbox |-> None, failed |-> FALSE]

UpdateEntries(w) ==
    /\ pc[w] = "idle"
    /\ calls < MaxCalls
    /\ calls' = calls + 1
    /\ \E batch \in BatchInputs : call' = [call EXCEPT ![w] = [NoCall EXCEPT !.todo = batch]]
    /\ dbLock' = Enqueue(dbLock, w, "write")
    /\ Goto(w, "db_write")
    /\ UNCHANGED << dbVars, subsLock, subsVars, registration, request, stream, expired, log >>

BeginUpdate(w) ==
    /\ pc[w] = "db_write"
    /\ Acquirable(dbLock, w, "write")
    /\ dbLock' = AcquireWrite(dbLock, w)
    /\ Goto(w, "update")
    /\ UNCHANGED << dbVars, subsLock, subsVars, call, registration, request, stream,
                    expired, log, calls >>

\* One round of the loop; an update that fails does not end it.
UpdateNext(w) ==
    /\ pc[w] = "update"
    /\ call[w].todo # << >>
    /\ LET id == Head(call[w].todo)[1]
           update == Head(call[w].todo)[2]
           fields == UpdateChanges(Permission(w), id, update)
       IN  /\ update_entry(Permission(w), id, update)
           /\ call' = [call EXCEPT
                  ![w].todo = Tail(@),
                  ![w].changed = IF fields = {} THEN @ ELSE Insert(@, id, fields),
                  ![w].rejected = @ \/ UpdateResult(Permission(w), id, update) # "Ok"]
    /\ UNCHANGED << lockVars, subsVars, pc, registration, request, stream, expired, log, calls >>

\* Mutant: the database is unlocked before subscribers are notified.
UnlockBeforeNotify(w) ==
    /\ pc[w] = "update"
    /\ call[w].todo = << >>
    /\ dbLock' = Release(dbLock, w)
    /\ log' = Append(log, entries)
    /\ call' = [call EXCEPT ![w].commit = Len(log) + 1]
    /\ Goto(w, "downgraded")
    /\ UNCHANGED << dbVars, subsLock, subsVars, registration, request, stream, expired, calls >>

\* The writer becomes a reader, so that nothing is written while it notifies.
DowngradeLock(w) ==
    /\ pc[w] = "update"
    /\ call[w].todo = << >>
    /\ dbLock' = Downgrade(dbLock, w)
    /\ log' = Append(log, entries)
    /\ call' = [call EXCEPT ![w].commit = Len(log) + 1]
    /\ Goto(w, "downgraded")
    /\ UNCHANGED << dbVars, subsLock, subsVars, registration, request, stream, expired, calls >>

RequestSubsRead(w) ==
    /\ pc[w] = "downgraded"
    /\ subsLock' = Enqueue(subsLock, w, "read")
    /\ Goto(w, "subs_read")
    /\ UNCHANGED << dbVars, dbLock, subsVars, call, registration, request, stream,
                    expired, log, calls >>

\* Subscriptions::notify: the query subscriptions first.
BeginNotify(w) ==
    /\ pc[w] = "subs_read"
    /\ Acquirable(subsLock, w, "read")
    /\ subsLock' = AcquireRead(subsLock, w)
    /\ call' = [call EXCEPT ![w].recipients = query_subscriptions \o change_subscriptions]
    /\ Goto(w, "notify")
    /\ UNCHANGED << dbVars, dbLock, subsVars, registration, request, stream,
                    expired, log, calls >>

MessageFor(s, changed, commit) ==
    IF s \in Queriers THEN QueryMessage(s, changed, commit) ELSE ChangeMessage(s, changed, commit)

\* The message is composed before the await of `send`.
Compose(w) ==
    /\ pc[w] = "notify"
    /\ call[w].recipients # << >>
    /\ LET message == MessageFor(Head(call[w].recipients), call[w].changed, call[w].commit)
       IN  IF message = None
           THEN call' = [call EXCEPT ![w].recipients = Tail(@)] /\ UNCHANGED pc
           ELSE call' = [call EXCEPT ![w].outbox = message] /\ Goto(w, "send")
    /\ UNCHANGED << dbVars, lockVars, subsVars, registration, request, stream,
                    expired, log, calls >>

\* Mutant: an unbounded channel.
SendUnbounded(w) ==
    /\ pc[w] = "send"
    /\ Deliver(Head(call[w].recipients), call[w].outbox[1])
    /\ call' = [call EXCEPT ![w].recipients = Tail(@), ![w].outbox = None]
    /\ Goto(w, "notify")
    /\ UNCHANGED << dbVars, lockVars, subsVars, registration, request, expired, log, calls >>

\* Mutant: the first failure ends the notifications.
SendOrReturn(w) ==
    /\ pc[w] = "send"
    /\ LET s == Head(call[w].recipients)
       IN  \/ /\ stream[s].closed
              /\ call' = [call EXCEPT ![w].recipients = << >>, ![w].outbox = None,
                                      ![w].failed = TRUE]
              /\ UNCHANGED stream
           \/ /\ ~stream[s].closed
              /\ Len(stream[s].chan) < Capacity
              /\ Deliver(s, call[w].outbox[1])
              /\ call' = [call EXCEPT ![w].recipients = Tail(@), ![w].outbox = None]
    /\ Goto(w, "notify")
    /\ UNCHANGED << dbVars, lockVars, subsVars, registration, request, expired, log, calls >>

\* mpsc::Sender::send: waits for room in the channel, fails if the receiver is gone.
Send(w) ==
    /\ pc[w] = "send"
    /\ LET s == Head(call[w].recipients)
       IN  \/ /\ stream[s].closed
              /\ call' = [call EXCEPT ![w].recipients = Tail(@), ![w].outbox = None,
                                      ![w].failed = TRUE]
              /\ UNCHANGED stream
           \/ /\ ~stream[s].closed
              /\ Len(stream[s].chan) < Capacity
              /\ Deliver(s, call[w].outbox[1])
              /\ call' = [call EXCEPT ![w].recipients = Tail(@), ![w].outbox = None]
    /\ Goto(w, "notify")
    /\ UNCHANGED << dbVars, lockVars, subsVars, registration, request, expired, log, calls >>

\* Mutant: the guard on the subscriptions lives until the cleanup is done.
EndNotifyGuarded(w) ==
    /\ pc[w] = "notify"
    /\ call[w].recipients = << >>
    /\ dbLock' = Release(dbLock, w)
    /\ subsLock' = IF call[w].failed THEN subsLock ELSE Release(subsLock, w)
    /\ Goto(w, IF call[w].failed THEN "cleanup_wanted" ELSE "idle")
    /\ call' = [call EXCEPT ![w] = NoCall]
    /\ UNCHANGED << dbVars, subsVars, registration, request, stream, expired, log, calls >>

\* Both guards are dropped; closed subscriptions are cleaned up only if a send failed.
EndNotify(w) ==
    /\ pc[w] = "notify"
    /\ call[w].recipients = << >>
    /\ dbLock' = Release(dbLock, w)
    /\ subsLock' = Release(subsLock, w)
    /\ Goto(w, IF call[w].failed THEN "cleanup_wanted" ELSE "idle")
    /\ call' = [call EXCEPT ![w] = NoCall]
    /\ UNCHANGED << dbVars, subsVars, registration, request, stream, expired, log, calls >>

------------------------------------------------------------------------------
(* Cleanup: after a failed send, and by the housekeeping task every second *)

RequestCleanup(t) ==
    /\ \/ t \in Writers /\ pc[t] = "cleanup_wanted"
       \/ t = Housekeeper /\ pc[t] = "idle"
    /\ subsLock' = Enqueue(subsLock, t, "write")
    /\ Goto(t, "cleanup")
    /\ UNCHANGED << dbVars, dbLock, subsVars, call, registration, request, stream,
                    expired, log, calls >>

Retained(subscriptions) == Without(subscriptions, {s \in Streams : stream[s].closed})

\* Mutant: change subscriptions are not cleaned up.
CleanupQueries(t) ==
    /\ pc[t] = "cleanup"
    /\ Acquirable(subsLock, t, "write")
    /\ query_subscriptions' = Retained(query_subscriptions)
    /\ subsLock' = Pass(subsLock)
    /\ Goto(t, "idle")
    /\ UNCHANGED << dbVars, dbLock, change_subscriptions, call, registration, request, stream,
                    expired, log, calls >>

Cleanup(t) ==
    /\ pc[t] = "cleanup"
    /\ Acquirable(subsLock, t, "write")
    /\ query_subscriptions' = Retained(query_subscriptions)
    /\ change_subscriptions' = Retained(change_subscriptions)
    /\ subsLock' = Pass(subsLock)
    /\ Goto(t, "idle")
    /\ UNCHANGED << dbVars, dbLock, call, registration, request, stream, expired, log, calls >>

------------------------------------------------------------------------------
(* subscribe *)

\* An empty request is refused (SubscriptionError::InvalidInput).  The callers have
\* found the ids in the database.
Subscribe(s) ==
    /\ pc[s] = "idle"
    /\ \E valid_entries \in {f \in SubscribeInputs : DOMAIN f \subseteq DOMAIN entries} :
          IF DOMAIN valid_entries = {}
          THEN Goto(s, "refused") /\ UNCHANGED << request, dbLock >>
          ELSE /\ request' = [request EXCEPT ![s] = valid_entries]
               /\ dbLock' = Enqueue(dbLock, s, "read")
               /\ Goto(s, "db_read")
    /\ UNCHANGED << dbVars, subsLock, subsVars, call, registration, stream, expired, log, calls >>

\* The channel is new and empty, so this `send` does not wait.
InitialNotification(s) ==
    /\ pc[s] = "db_read"
    /\ Acquirable(dbLock, s, "read")
    /\ Deliver(s, InitialMessage(s, Len(log))[1])
    /\ dbLock' = Pass(dbLock)
    /\ Goto(s, "notified")
    /\ UNCHANGED << dbVars, subsLock, subsVars, call, registration, request, expired, log, calls >>

RequestSubsWrite(s) ==
    /\ pc[s] = "notified"
    /\ subsLock' = Enqueue(subsLock, s, "write")
    /\ Goto(s, "subs_write")
    /\ UNCHANGED << dbVars, dbLock, subsVars, call, registration, request, stream,
                    expired, log, calls >>

AddChangeSubscription(s) ==
    /\ pc[s] = "subs_write"
    /\ Acquirable(subsLock, s, "write")
    /\ change_subscriptions' = Append(change_subscriptions, s)
    /\ subsLock' = Pass(subsLock)
    /\ stream' = [stream EXCEPT ![s].since = Len(log)]
    /\ Goto(s, "subscribed")
    /\ UNCHANGED << dbVars, dbLock, query_subscriptions, call, registration, request,
                    expired, log, calls >>

------------------------------------------------------------------------------
(* subscribe_query *)

SubscribeQuery(q) ==
    /\ pc[q] = "idle"
    /\ \E query \in QueryInputs : request' = [request EXCEPT ![q] = query]
    /\ dbLock' = Enqueue(dbLock, q, "read")
    /\ Goto(q, "db_read")
    /\ UNCHANGED << dbVars, subsLock, subsVars, call, registration, stream, expired, log, calls >>

\* Mutant: the database is unlocked before the subscription is added.
CompileAndUnlock(q) ==
    /\ pc[q] = "db_read"
    /\ Acquirable(dbLock, q, "read")
    /\ dbLock' = Pass(dbLock)
    /\ IF InputSpec(request[q]) \subseteq DOMAIN path_to_id
       THEN /\ Goto(q, "notified")
            /\ LET message == Execute(q, Len(log))
               IN  IF message = None THEN UNCHANGED stream ELSE Deliver(q, message[1])
       ELSE Goto(q, "refused") /\ UNCHANGED stream
    /\ UNCHANGED << dbVars, subsLock, subsVars, call, registration, request, expired, log, calls >>

\* query::compile fails for a path that is not registered; the initial execution
\* may have no result.  The read lock is kept.
CompileQuery(q) ==
    /\ pc[q] = "db_read"
    /\ Acquirable(dbLock, q, "read")
    /\ IF InputSpec(request[q]) \subseteq DOMAIN path_to_id
       THEN /\ dbLock' = AcquireRead(dbLock, q)
            /\ Goto(q, "notified")
            /\ LET message == Execute(q, Len(log))
               IN  IF message = None THEN UNCHANGED stream ELSE Deliver(q, message[1])
       ELSE /\ dbLock' = Pass(dbLock)
            /\ Goto(q, "refused")
            /\ UNCHANGED stream
    /\ UNCHANGED << dbVars, subsLock, subsVars, call, registration, request, expired, log, calls >>

AddQuerySubscription(q) ==
    /\ pc[q] = "subs_write"
    /\ Acquirable(subsLock, q, "write")
    /\ query_subscriptions' = Append(query_subscriptions, q)
    /\ subsLock' = Pass(subsLock)
    /\ dbLock' = Release(dbLock, q)
    /\ stream' = [stream EXCEPT ![q].since = Len(log)]
    /\ Goto(q, "subscribed")
    /\ UNCHANGED << dbVars, change_subscriptions, call, registration, request,
                    expired, log, calls >>

------------------------------------------------------------------------------
(* add_entry *)

RequestAdd(r) ==
    /\ pc[r] = "idle"
    /\ \E path \in Paths, metadata \in MetadataInputs :
          registration' = [registration EXCEPT ![r] = << path, metadata >>]
    /\ dbLock' = Enqueue(dbLock, r, "write")
    /\ Goto(r, "db_write")
    /\ UNCHANGED << dbVars, subsLock, subsVars, call, request, stream, expired, log, calls >>

AddEntry(r) ==
    /\ pc[r] = "db_write"
    /\ Acquirable(dbLock, r, "write")
    /\ add(Permission(r), registration[r][1], registration[r][2])
    /\ dbLock' = Pass(dbLock)
    /\ log' = Append(log, entries')
    /\ Goto(r, "done")
    /\ UNCHANGED << subsLock, subsVars, call, registration, request, stream, expired, calls >>

------------------------------------------------------------------------------
(* shutdown *)

RequestShutdown ==
    /\ pc[Terminator] = "idle"
    /\ subsLock' = Enqueue(subsLock, Terminator, "write")
    /\ Goto(Terminator, "subs_write")
    /\ UNCHANGED << dbVars, dbLock, subsVars, call, registration, request, stream,
                    expired, log, calls >>

\* Mutant: change subscriptions are not cleared.
ShutdownQueries ==
    /\ pc[Terminator] = "subs_write"
    /\ Acquirable(subsLock, Terminator, "write")
    /\ query_subscriptions' = << >>
    /\ subsLock' = Pass(subsLock)
    /\ Goto(Terminator, "done")
    /\ UNCHANGED << dbVars, dbLock, change_subscriptions, call, registration, request, stream,
                    expired, log, calls >>

Shutdown ==
    /\ pc[Terminator] = "subs_write"
    /\ Acquirable(subsLock, Terminator, "write")
    /\ query_subscriptions' = << >>
    /\ change_subscriptions' = << >>
    /\ subsLock' = Pass(subsLock)
    /\ Goto(Terminator, "done")
    /\ UNCHANGED << dbVars, dbLock, call, registration, request, stream, expired, log, calls >>

------------------------------------------------------------------------------
(* The clients *)

clientUnchanged ==
    << dbVars, lockVars, subsVars, call, registration, request, expired, log, calls >>

Registered(s) ==
    \/ \E i \in DOMAIN query_subscriptions : query_subscriptions[i] = s
    \/ \E i \in DOMAIN change_subscriptions : change_subscriptions[i] = s

Receive(s) ==
    /\ pc[s] = "subscribed"
    /\ stream[s].chan # << >>
    /\ stream' = [stream EXCEPT ![s].chan = Tail(@)]
    /\ UNCHANGED pc
    /\ UNCHANGED clientUnchanged

\* The client goes away: the receiver is dropped with what it holds.
Leave(s) ==
    /\ pc[s] = "subscribed"
    /\ stream' = [stream EXCEPT ![s].chan = << >>, ![s].closed = TRUE]
    /\ Goto(s, "gone")
    /\ UNCHANGED clientUnchanged

\* The sender was dropped with the subscription: the stream ends once it is drained.
EndOfStream(s) ==
    /\ pc[s] = "subscribed"
    /\ stream[s].chan = << >>
    /\ ~Registered(s)
    /\ Goto(s, "ended")
    /\ UNCHANGED stream
    /\ UNCHANGED clientUnchanged

Expire(t) ==
    /\ t \in Expiring \ expired
    /\ expired' = expired \cup {t}
    /\ UNCHANGED << dbVars, lockVars, subsVars, pc, call, registration, request, stream,
                    log, calls >>

\* The future of a call is dropped where it awaits, with the guards it holds
\* and, in subscribe and subscribe_query, with the receiver.
Cancel(t) ==
    /\ t \in Cancellable
    /\ pc[t] \in {"db_write", "db_read", "subs_read", "subs_write", "send", "cleanup"}
    /\ dbLock' = Abandon(dbLock, t)
    /\ subsLock' = Abandon(subsLock, t)
    /\ IF t \in Writers
       THEN /\ call' = [call EXCEPT ![t] = NoCall]
            /\ Goto(t, "idle")
            /\ UNCHANGED stream
       ELSE /\ Goto(t, "gone")
            /\ stream' = IF t \in Streams
                         THEN [stream EXCEPT ![t].closed = TRUE, ![t].chan = << >>] ELSE stream
            /\ UNCHANGED call
    /\ UNCHANGED << dbVars, subsVars, registration, request, expired, log, calls >>

------------------------------------------------------------------------------
(* The specification *)

\* read_metadata_file and add_kuksa_attribute: an entry is registered, then set to
\* its default, if it has one; a default that is refused is only logged.
Load(id, path, metadata, default) ==
    LET entry == NewEntry(id, path, metadata)
        update == diff(entry, [NoUpdate EXCEPT !.datapoint = default])
    IN  IF validate(entry, update) = "Ok" THEN apply(entry, update) ELSE entry

BrokerInit ==
    /\ next_id = Len(Preloaded)
    /\ path_to_id = [path \in {Preloaded[i][1] : i \in DOMAIN Preloaded} |->
                        (CHOOSE i \in DOMAIN Preloaded : Preloaded[i][1] = path) - 1]
    /\ entries = [id \in 0..(Len(Preloaded) - 1) |->
                     Load(id, Preloaded[id + 1][1], Preloaded[id + 1][2], Preloaded[id + 1][3])]
    /\ dbLock = Unlocked
    /\ subsLock = Unlocked
    /\ pc = [t \in Tasks |-> "idle"]
    /\ call = [w \in Writers |-> NoCall]
    /\ registration = [r \in Registrars |-> << >>]
    /\ query_subscriptions = << >>
    /\ change_subscriptions = << >>
    /\ request = [s \in Streams |-> EmptyMap]
    /\ stream = [s \in Streams |->
                    [chan |-> << >>, closed |-> FALSE, known |-> EmptyMap, since |-> 0]]
    /\ expired = {}
    /\ log = << entries >>
    /\ calls = 0

\* What a writer does once it has called update_entries.
WriterStep(w) ==
    \/ BeginUpdate(w) \/ UpdateNext(w) \/ DowngradeLock(w)
    \/ RequestSubsRead(w) \/ BeginNotify(w) \/ Compose(w) \/ Send(w) \/ EndNotify(w)
    \/ RequestCleanup(w) \/ Cleanup(w)

SubscriberStep(s) ==
    InitialNotification(s) \/ RequestSubsWrite(s) \/ AddChangeSubscription(s)

QuerierStep(q) ==
    CompileQuery(q) \/ RequestSubsWrite(q) \/ AddQuerySubscription(q)

HousekeeperStep == RequestCleanup(Housekeeper) \/ Cleanup(Housekeeper)

Read(s) == Receive(s) \/ EndOfStream(s)

BrokerNext ==
    \/ \E w \in Writers : UpdateEntries(w) \/ WriterStep(w)
    \/ \E s \in Subscribers : Subscribe(s) \/ SubscriberStep(s)
    \/ \E q \in Queriers : SubscribeQuery(q) \/ QuerierStep(q)
    \/ \E r \in Registrars : RequestAdd(r) \/ AddEntry(r)
    \/ HousekeeperStep
    \/ RequestShutdown \/ Shutdown
    \/ \E s \in Streams : Read(s) \/ Leave(s)
    \/ \E t \in Clients : Expire(t) \/ Cancel(t)

BrokerSpec == BrokerInit /\ [][BrokerNext]_vars

\* The runtime goes on with every task that can go on, and the housekeeping
\* timer keeps ticking.  Nobody has to make a call.
TaskFairness ==
    /\ \A w \in Writers : WF_vars(WriterStep(w))
    /\ \A s \in Subscribers : WF_vars(SubscriberStep(s))
    /\ \A q \in Queriers : WF_vars(QuerierStep(q))
    /\ \A r \in Registrars : WF_vars(AddEntry(r))
    /\ WF_vars(HousekeeperStep)
    /\ WF_vars(Shutdown)

\* A client that stays reads its stream.
ClientFairness == \A s \in Streams : WF_vars(Read(s))

FairSpec == BrokerSpec /\ TaskFairness /\ ClientFairness

------------------------------------------------------------------------------
(* Properties *)

Labels ==
    {"idle", "db_write", "update", "downgraded", "subs_read", "notify", "send",
     "cleanup_wanted", "cleanup", "db_read", "notified", "subs_write", "subscribed",
     "refused", "gone", "ended", "done"}

\* The shape of the state; a channel never holds more than its capacity.
BrokerTypeOK ==
    /\ DbTypeOK
    /\ dbLock \in LockState(Tasks)
    /\ subsLock \in LockState(Tasks)
    /\ pc \in [Tasks -> Labels]
    /\ DOMAIN call = Writers
    /\ \A w \in Writers : call[w].commit \in Nat /\ call[w].recipients \in Seq(Streams)
    /\ DOMAIN stream = Streams
    /\ \A s \in Streams : Len(stream[s].chan) <= Capacity
    /\ query_subscriptions \in Seq(Queriers)
    /\ change_subscriptions \in Seq(Subscribers)
    /\ expired \subseteq Expiring

\* Between the end of its updates and the end of its notifications.
Notifying(w) == pc[w] \in {"downgraded", "subs_read", "notify", "send"}

\* The values of a message are those of the commit it reports.  A query whose
\* reader's token has expired reports NotAvailable instead.
Faithful(history, s, m) ==
    \A k \in DOMAIN m.body :
        \/ m.body[k] = Value(history[m.commit][k[1]], k[2])
        \/ s \in Queriers /\ m.body[k] = Some(NotAvailable)

\* "no writes in between" (broker.rs:1309): while a writer notifies, the database
\* is in the state that it committed, and every message on its way to a
\* subscriber has the values of that one commit, never of two.
NotifiesOwnCommit ==
    /\ \A w \in Writers : Notifying(w) => entries = log[call[w].commit]
    /\ \A s \in Streams : \A i \in DOMAIN stream[s].chan : Faithful(log, s, stream[s].chan[i])
    /\ \A w \in Writers :
          pc[w] = "send" => Faithful(log, Head(call[w].recipients), call[w].outbox[1])

\* A subscriber is never sent back in time: in each channel, and with what a
\* writer is about to add to it, commits come in order.
InCommitOrder ==
    \A s \in Streams :
        /\ \A i, j \in DOMAIN stream[s].chan :
              i < j => stream[s].chan[i].commit <= stream[s].chan[j].commit
        /\ \A w \in Writers, i \in DOMAIN stream[s].chan :
              pc[w] = "send" /\ Head(call[w].recipients) = s
                  => stream[s].chan[i].commit <= call[w].outbox[1].commit

\* Nobody is between a first write and a last notification.
Settled == \A w \in Writers : pc[w] # "update" /\ ~Notifying(w)

Live(s) == ~stream[s].closed /\ ~Permission(s).expired

\* No batch names an entry twice, and no call of update_entries is cut short.
CompleteUpdates ==
    /\ \A batch \in BatchInputs : \A i, j \in DOMAIN batch :
          batch[i][1] = batch[j][1] => i = j
    /\ Cancellable \cap Writers = {}

\* A query subscription misses nothing: once notifications are through, a query
\* whose condition holds has sent exactly what the database now says, because
\* subscribe_query keeps its read lock until it is registered.
QueriesUpToDate ==
    CompleteUpdates /\ Settled =>
        \A i \in DOMAIN query_subscriptions :
            LET q == query_subscriptions[i]
                now == Execute(q, Len(log))
            IN  Live(q) /\ now # None => stream[q].known = now[1].body

\* What a subscription is about and may see.
Readable(s) ==
    {k \in (DOMAIN request[s]) \X Field :
        /\ k[2] \in request[s][k[1]]
        /\ get_entry_by_id(Permission(s), k[1]) = "Ok"}

Knows(s, k) == k \in DOMAIN stream[s].known /\ stream[s].known[k] = Value(entries[k[1]], k[2])

\* What s should know of k and does not was changed before s was registered.
MissedBefore(s, k) ==
    Value(log[stream[s].since][k[1]], k[2]) = Value(entries[k[1]], k[2])

\* A change subscription is wrong at most about what changed before it was
\* registered, in the gap between its two locks; from then on every change
\* reaches it.
OnlyTheGapIsMissed ==
    CompleteUpdates /\ Settled =>
        \A i \in DOMAIN change_subscriptions :
            LET s == change_subscriptions[i]
            IN  Live(s) => \A k \in Readable(s) : Knows(s, k) \/ MissedBefore(s, k)

\* "Whenever a continuous signal is updated by a provider, all subscribers are
\* notified" (user_guide.md:176): once notifications are through, a subscriber
\* has been sent the current value of what it subscribed to.
SubscribersUpToDate ==
    Settled =>
        \A i \in DOMAIN change_subscriptions :
            LET s == change_subscriptions[i]
            IN  Live(s) => \A k \in Readable(s) : Knows(s, k)

SentNoValue(s, m) ==
    s \in Queriers /\ \A k \in DOMAIN m.body : m.body[k] = Some(NotAvailable)

\* A token that expires ends a subscription's view of the values while the
\* subscription lives on: of what is composed from then on nothing goes to a
\* change subscription, and a query's response has no value in it.
NoValueAfterExpiry ==
    [][\A w \in Writers :
          LET s == Head(call[w].recipients)
          IN  pc[w] = "notify" /\ pc'[w] = "send" /\ s \in expired
                  => SentNoValue(s, call'[w].outbox[1])]_vars

Resting == {"idle", "subscribed", "refused", "gone", "ended", "done"}

\* Every call of update_entries, subscribe, subscribe_query, add_entry and
\* shutdown returns, and so does every cleanup, if subscribers read: the two
\* locks and the full channels never make everyone wait for everyone.
CallsReturn == \A t \in Tasks : pc[t] \notin Resting ~> pc[t] \in Resting

\* The subscription of a client that left is removed, whether or not anything
\* is ever sent to it again.
LeaversAreRemoved == \A s \in Streams : stream[s].closed ~> ~Registered(s)

\* A stream that is registered when shutdown asks for the lock comes to its end.
StreamsEndAtShutdown ==
    \A s \in Streams :
        pc[Terminator] = "subs_write" /\ Registered(s) ~> pc[s] \in {"ended", "gone"}

==============================================================================
