---------------------------------- MODULE Viss ----------------------------------
(***************************************************************************)
(* The VISSv2 interface of the databroker (viss/server.rs,                 *)
(* viss/v2/server.rs).  A websocket has a read task, which handles one     *)
(* request after the other, a write task, which forwards a channel to the  *)
(* socket, and a background task for each subscription.  Responses and     *)
(* events go through the same channel, and nobody waits for room in it.    *)
(*                                                                         *)
(* A provider writes to an entry meanwhile.  Its update waits for room in  *)
(* the subscriptions' own channels, with the lock of the database in hand. *)
(***************************************************************************)
EXTENDS Database, Token, VissValues


CONSTANTS
    Connections,
    Authorization,      \* "Enabled" or "Disabled"
    Leaves,             \* what is registered: a sequence of [path, metadata]
    Provided,           \* the id of the entry that the provider writes to
    Requests,           \* a sequence of [action, path, authorization, filter, value, subscription]
    Buffer,             \* mpsc::channel of a websocket (10 in the code)
    Capacity,           \* mpsc::channel of a subscription (10 in the code)
    MaxRequests,        \* bound on the requests of a connection
    MaxSubscriptions,   \* bound on all subscriptions
    MaxUpdates          \* bound on the provider's updates

ASSUME VissAssumption ==
    /\ Leaves \in Seq([path: Paths, metadata: MetadataInput])
    /\ \A i \in DOMAIN Requests : Requests[i].value \in VissValue /\ Requests[i].subscription \in Nat
    /\ Buffer \in Nat

VARIABLES
    conns,      \* per connection: the request being handled, what went into its
                \* channel so far and how much of it was forwarded, the senders
                \* that are parked, and whether it is open
    subs,       \* the subscriptions in the order they were made
    writer,     \* the provider's update: its phase and whom it has yet to notify
    updates_made

vissVars == << dbVars, conns, subs, writer, updates_made >>

Start ==
    [open |-> TRUE, handling |-> None, handled |-> 0, sent |-> << >>, read |-> 0, parked |-> << >>]

VissInit ==
    /\ next_id = Len(Leaves)
    /\ path_to_id = [p \in {Leaves[i].path : i \in DOMAIN Leaves} |->
                        (CHOOSE i \in DOMAIN Leaves : Leaves[i].path = p) - 1]
    /\ entries = [id \in 0..(Len(Leaves) - 1) |->
                     NewEntry(id, Leaves[id + 1].path, Leaves[id + 1].metadata)]
    /\ conns = [w \in Connections |-> Start]
    /\ subs = << >>
    /\ writer = [phase |-> "idle", left |-> {}]
    /\ updates_made = 0

------------------------------------------------------------------------------
(* Permissions *)

\* Mutant: a client without a token may do what needs none elsewhere: anything.
ResolveLenient(authorization, paths) ==
    IF authorization = None THEN [error |-> "Ok", perm |-> ALLOW_ALL(paths)]
    ELSE IF decode(authorization[1]) /\ parse_whitespace_separated(authorization[1].scope)
    THEN [error |-> "Ok", perm |-> PermissionsOf(authorization[1], paths)]
    ELSE [error |-> "UnauthorizedTokenInvalid"]

resolve_permissions(authorization, paths) ==
    IF Authorization = "Disabled" THEN [error |-> "Ok", perm |-> ALLOW_ALL(paths)]
    ELSE IF authorization = None THEN [error |-> "UnauthorizedTokenMissing"]
    ELSE IF decode(authorization[1]) /\ parse_whitespace_separated(authorization[1].scope)
    THEN [error |-> "Ok", perm |-> PermissionsOf(authorization[1], paths)]
    ELSE [error |-> "UnauthorizedTokenInvalid"]

Resolved ==
    [i \in DOMAIN Requests |-> resolve_permissions(Requests[i].authorization, Paths)]

------------------------------------------------------------------------------
(* The channel of a websocket (futures::channel::mpsc): each sender may    *)
(* put one message more than the buffer holds, and is parked then until    *)
(* the receiver has taken one for each that was parked before it.          *)

Queued(conn) == Len(conn.sent) - conn.read
Response == 0       \* the sender of a response is a clone, made for it alone
Event == 0          \* the number of the request that an event answers

\* What is kept of a response once it is sent is its status.
Sent(message) ==
    [request |-> message.request, subscription |-> message.subscription,
     status |-> ErrorNumber(message.error),
     value |-> IF message.request = Event THEN message.value ELSE VissNone]

Push(conn, sender, message) ==
    [conn EXCEPT !.sent = Append(@, Sent(message)),
                 !.parked = IF Queued(conn) + 1 > Buffer THEN Append(@, sender) ELSE @]

IsParked(conn, sender) == \E i \in DOMAIN conn.parked : conn.parked[i] = sender

Message(request, subscription, error, value) ==
    [request |-> request, subscription |-> subscription, error |-> error, value |-> value,
     metadata |-> EmptyMap]

------------------------------------------------------------------------------
(* get and set *)

\* Everything after the last dot of path, in each path that begins with it.
StripPrefix(path) == Len(path) - Len(Segments(path)[Len(Segments(path))])

\* A tree of metadata is the map from the paths of its leaves, each a sequence of
\* names: a branch is made for the leaf below it and is never empty.
Under(tree, names) == {p \in DOMAIN tree : StartsWith(p, names)}

\* Mutant: a branch that is there already is replaced.
InsertFresh(tree, names, entry) ==
    LET kept == (DOMAIN tree) \ Under(tree, << names[1] >>)
    IN  [p \in kept \cup {names} |-> IF p = names THEN entry ELSE tree[p]]

\* A leaf stays what it is when something is to go below it; a branch gives way
\* to a leaf of its name.
insert_entry(tree, names, entry) ==
    LET kept == (DOMAIN tree) \ Under(tree, names)
    IN  IF \E p \in kept : StartsWith(names, p) THEN tree
        ELSE [p \in kept \cup {names} |-> IF p = names THEN entry ELSE tree[p]]

\* for_each_entry goes through the ids in the order of a hash map.
generate_metadata(path, order) ==
    LET tree[n \in 0..Len(order)] ==
            LET m == entries[order[n]].metadata
                stripped == SubSeq(m.path, StripPrefix(path) + 1, Len(m.path))
            IN  IF n = 0 THEN EmptyMap
                ELSE IF StartsWith(m.path, path)
                THEN insert_entry(tree[n - 1], Segments(stripped), MetadataEntry(m))
                ELSE tree[n - 1]
    IN  tree[Len(order)]

ReadError(result) ==
    CASE result = "NotFound" -> "NotFoundInvalidPath"
      [] result = "Denied" -> "Forbidden"
      [] result = "Expired" -> "UnauthorizedTokenExpired"
      [] OTHER -> "Ok"

\* The errors of update_entries for the one update of a set.
SetUpdateError(result) ==
    CASE result = "NotFound" -> "NotFoundInvalidPath"
      [] result \in {"WrongType", "OutOfBounds", "UnsupportedType"} -> "BadRequest"
      [] result = "PermissionDenied" -> "Forbidden"
      [] result = "PermissionExpired" -> "UnauthorizedTokenExpired"
      [] OTHER -> "Ok"

\* The read task takes the next message, request i.
Reads(w, i, action) ==
    /\ conns[w].open /\ conns[w].handling = None /\ conns[w].handled < MaxRequests
    /\ Requests[i].action = action

\* The response of request i is ready to be sent.
Answer(w, i, response) ==
    conns' = [conns EXCEPT ![w].handling = Some([request |-> i, step |-> "respond", response |-> response]),
                           ![w].handled = @ + 1]

Number(w) == conns[w].handled + 1

\* The orders in which a HashMap may go through a set.
Orders(S) == {o \in [1..Cardinality(S) -> S] : {o[i] : i \in DOMAIN o} = S}

\* Metadata needs no permission.
GetMetadata(w, i) ==
    /\ Reads(w, i, "get") /\ Requests[i].filter
    /\ \E order \in Orders(DOMAIN entries) :
          Answer(w, i, [Message(Number(w), 0, "Ok", VissNone) EXCEPT
                           !.metadata = generate_metadata(Requests[i].path, order)])
    /\ UNCHANGED << dbVars, subs, writer, updates_made >>

get(w, i) ==
    /\ Reads(w, i, "get") /\ ~Requests[i].filter
    /\ LET error == IF Resolved[i].error # "Ok" THEN Resolved[i].error
                    ELSE ReadError(get_entry_by_path(Resolved[i].perm, Requests[i].path))
       IN  Answer(w, i, Message(Number(w), 0, error,
                IF error # "Ok" THEN VissNone
                ELSE FromDataValue(entries[path_to_id[Requests[i].path]].datapoint)))
    /\ UNCHANGED << dbVars, subs, writer, updates_made >>

\* What becomes of a set: an error, or the update to make.
SetOutcome(i) ==
    LET path == Requests[i].path
        metadata == entries[path_to_id[path]].metadata
        value == try_into_type(Requests[i].value, metadata.data_type)
        Refused(error) == [error |-> error, update |-> NoUpdate]
        update == [NoUpdate EXCEPT !.actuator_target = Some(value)]
    IN  IF Resolved[i].error # "Ok" THEN Refused(Resolved[i].error)
        ELSE IF path \notin DOMAIN path_to_id THEN Refused("NotFoundInvalidPath")
        ELSE IF metadata.entry_type # "Actuator" THEN Refused("UnauthorizedReadOnly")
        ELSE IF value = None THEN Refused("BadRequest")
        ELSE [error |-> SetUpdateError(UpdateResult(Resolved[i].perm, path_to_id[path], update)),
              update |-> update]

\* A set waits for the lock of the database.  A VISS subscription is to the
\* datapoint only, so there is nobody here to notify of a target.
set(w, i) ==
    /\ Reads(w, i, "set")
    /\ writer.phase = "idle"
    /\ \E outcome \in {SetOutcome(i)} :
          /\ Answer(w, i, Message(Number(w), 0, outcome.error, VissNone))
          /\ IF outcome.error = "Ok"
             THEN update_entry(Resolved[i].perm, path_to_id[Requests[i].path], outcome.update)
             ELSE UNCHANGED dbVars
    /\ UNCHANGED << subs, writer, updates_made >>

\* A message that does not parse as a request.
Malformed(w, i) ==
    /\ Reads(w, i, "malformed")
    /\ Answer(w, i, Message(Number(w), 0, "BadRequest", VissNone))
    /\ UNCHANGED << dbVars, subs, writer, updates_made >>

------------------------------------------------------------------------------
(* subscribe and unsubscribe *)

\* broker.subscribe reads the entry for the first notification; one that may
\* not be read is left out, and an empty notification becomes an error event.
EventOf(s, sub) ==
    LET entry == entries[sub.entry]
        perm == [Resolved[sub.request].perm EXCEPT !.expired = @ \/ sub.expired]
    IN  IF get_entry_by_id(perm, sub.entry) = "Ok"
        THEN Message(Event, s, "Ok", FromDataValue(entry.datapoint))
        ELSE Message(Event, s, "InternalServerError", VissNone)

SubscribeInitial(w, i) ==
    /\ Reads(w, i, "subscribe") /\ Len(subs) < MaxSubscriptions
    /\ LET s == Len(subs) + 1
           error == IF Resolved[i].error # "Ok" THEN Resolved[i].error
                    ELSE IF Requests[i].path \notin DOMAIN path_to_id THEN "NotFoundInvalidPath"
                    ELSE "Ok"
           sub == [conn |-> w, request |-> i, entry |-> path_to_id[Requests[i].path],
                   expired |-> FALSE, state |-> "new", channel |-> << >>, hand |-> None]
       IN  IF error # "Ok" THEN Answer(w, i, Message(Number(w), 0, error, VissNone)) /\ UNCHANGED subs
           ELSE /\ subs' = Append(subs, [sub EXCEPT !.channel = << EventOf(s, sub) >>])
                /\ conns' = [conns EXCEPT
                       ![w].handling = Some([request |-> i, step |-> "add", response |->
                                               Message(Number(w), s, "Ok", VissNone)]),
                       ![w].handled = @ + 1]
    /\ UNCHANGED << dbVars, writer, updates_made >>

\* add_change_subscription waits until no update is being notified.  The
\* handle goes into the map and the background task is spawned.
SubscribeAdd(w) ==
    /\ conns[w].handling # None
    /\ conns[w].handling[1].step = "add"
    /\ writer.phase # "notifying"
    /\ subs' = [subs EXCEPT ![conns[w].handling[1].response.subscription].state = "active"]
    /\ conns' = [conns EXCEPT ![w].handling[1].step = "respond"]
    /\ UNCHANGED << dbVars, writer, updates_made >>

\* Mutant: the handle is dropped without aborting the stream.
AbortNone(ids) == UNCHANGED subs

\* SubscriptionHandle::drop
Abort(ids) ==
    subs' = [s \in DOMAIN subs |->
                IF s \in ids /\ subs[s].state \in {"new", "active"}
                THEN [subs[s] EXCEPT !.state = IF @ = "new" THEN "ended" ELSE "aborted"]
                ELSE subs[s]]

\* The map is the connection's own: ids of other connections are not in it.
unsubscribe(w, i) ==
    /\ Reads(w, i, "unsubscribe")
    /\ LET s == Requests[i].subscription
           known == \E t \in DOMAIN subs : t = s /\ subs[t].conn = w /\ subs[t].state = "active"
       IN  /\ Answer(w, i, Message(Number(w), s,
                                   IF known THEN "Ok" ELSE "NotFoundInvalidSubscriptionId", VissNone))
           /\ IF known THEN Abort({s}) ELSE UNCHANGED subs
    /\ UNCHANGED << dbVars, writer, updates_made >>

\* Mutant: one sender is kept for all responses, and is parked like any other.
RespondShared(w) ==
    /\ conns[w].handling # None
    /\ conns[w].handling[1].step = "respond"
    /\ conns' = [conns EXCEPT ![w] =
                    LET done == [conns[w] EXCEPT !.handling = None]
                    IN  IF IsParked(conns[w], Response) THEN done
                        ELSE Push(done, Response, conns[w].handling[1].response)]
    /\ UNCHANGED << dbVars, subs, writer, updates_made >>

\* try_send on a clone that was never used, so it is not parked.
Respond(w) ==
    /\ conns[w].handling # None
    /\ conns[w].handling[1].step = "respond"
    /\ conns' = [conns EXCEPT ![w] =
                    Push([conns[w] EXCEPT !.handling = None], Response, conns[w].handling[1].response)]
    /\ UNCHANGED << dbVars, subs, writer, updates_made >>

------------------------------------------------------------------------------
(* The other tasks of a connection *)

\* The write task: the socket takes a message, and one sender is unparked.
Forward(w) ==
    /\ conns[w].open /\ Queued(conns[w]) > 0
    /\ conns' = [conns EXCEPT ![w].read = @ + 1,
                              ![w].parked = IF @ = << >> THEN @ ELSE Tail(@)]
    /\ UNCHANGED << dbVars, subs, writer, updates_made >>

\* The stream gives the background task the next notification.
TaskTake(s) ==
    /\ subs[s].state = "active" /\ subs[s].hand = None /\ subs[s].channel # << >>
    /\ subs' = [subs EXCEPT ![s].hand = Some(Head(subs[s].channel)), ![s].channel = Tail(@)]
    /\ UNCHANGED << dbVars, conns, writer, updates_made >>

Sending(s) == s \in DOMAIN subs /\ subs[s].hand # None

\* Mutant: the task waits for room.
TaskSendWaits(s) ==
    /\ Sending(s)
    /\ LET w == subs[s].conn
       IN  /\ ~IsParked(conns[w], s) \/ ~conns[w].open
           /\ subs' = [subs EXCEPT ![s].hand = None, ![s].state = IF conns[w].open THEN @ ELSE "ended"]
           /\ conns' = IF conns[w].open
                       THEN [conns EXCEPT ![w] = Push(conns[w], s, subs[s].hand[1])] ELSE conns
    /\ UNCHANGED << dbVars, writer, updates_made >>

\* Mutant: an event is dropped as soon as the buffer is full.
TaskSendStrict(s) ==
    /\ Sending(s)
    /\ LET w == subs[s].conn
       IN  /\ subs' = [subs EXCEPT ![s].hand = None, ![s].state = IF conns[w].open THEN @ ELSE "ended"]
           /\ conns' = IF conns[w].open /\ Queued(conns[w]) < Buffer
                       THEN [conns EXCEPT ![w] = Push(conns[w], s, subs[s].hand[1])] ELSE conns
    /\ UNCHANGED << dbVars, writer, updates_made >>

\* try_send: a parked sender drops the event, one whose receiver is gone ends
\* the task.
TaskSend(s) ==
    /\ Sending(s)
    /\ LET w == subs[s].conn
       IN  /\ subs' = [subs EXCEPT ![s].hand = None, ![s].state = IF conns[w].open THEN @ ELSE "ended"]
           /\ conns' = IF conns[w].open /\ ~IsParked(conns[w], s)
                       THEN [conns EXCEPT ![w] = Push(conns[w], s, subs[s].hand[1])] ELSE conns
    /\ UNCHANGED << dbVars, writer, updates_made >>

\* The stream ends when it was aborted; its receiver is dropped.
TaskEnd(s) ==
    /\ subs[s].state = "aborted" /\ subs[s].hand = None
    /\ subs' = [subs EXCEPT ![s].state = "ended", ![s].channel = << >>]
    /\ UNCHANGED << dbVars, conns, writer, updates_made >>

Task(s) == s \in DOMAIN subs /\ (TaskTake(s) \/ TaskSend(s) \/ TaskEnd(s))

\* Close, or a socket that fails: read and write task end, and the read task
\* takes the Server with its handles along.  What is queued is lost.
Close(w) ==
    /\ conns[w].open
    /\ conns' = [conns EXCEPT ![w] = [Start EXCEPT !.open = FALSE]]
    /\ Abort({s \in DOMAIN subs : subs[s].conn = w})
    /\ UNCHANGED << dbVars, writer, updates_made >>

ExpireSubscriber(s) ==
    /\ s \in DOMAIN subs /\ ~subs[s].expired /\ subs[s].state = "active"
    /\ subs' = [subs EXCEPT ![s].expired = TRUE]
    /\ UNCHANGED << dbVars, conns, writer, updates_made >>

------------------------------------------------------------------------------
(* The provider: update_entries of another client *)

Commit ==
    /\ writer.phase = "idle" /\ updates_made < MaxUpdates
    /\ update_entry(ALLOW_ALL(Paths), Provided,
                    [NoUpdate EXCEPT !.datapoint = Some(Scalar("Int32", updates_made + 1))])
    /\ writer' = [writer EXCEPT !.phase = "committed"]
    /\ updates_made' = updates_made + 1
    /\ UNCHANGED << conns, subs >>

Phase(left) == [phase |-> IF left = {} THEN "idle" ELSE "notifying", left |-> left]

\* The lock of the subscriptions is taken after that of the database.
NotifyStart ==
    /\ writer.phase = "committed"
    /\ writer' = Phase({s \in DOMAIN subs :
                           subs[s].entry = Provided /\ subs[s].state \in {"active", "aborted"}})
    /\ UNCHANGED << dbVars, conns, subs, updates_made >>

Room(s) == Len(subs[s].channel) < Capacity

\* Mutant: a notification that nothing is left of is sent too.
NotifyEmpty(s) ==
    /\ writer.phase = "notifying" /\ s \in writer.left /\ \A t \in writer.left : s <= t
    /\ Room(s)
    /\ subs' = [subs EXCEPT ![s].channel = Append(@, EventOf(s, subs[s]))]
    /\ writer' = Phase(writer.left \ {s})
    /\ UNCHANGED << dbVars, conns, updates_made >>

\* ChangeSubscription::notify, one after the other, waiting for room.
Notify(s) ==
    /\ writer.phase = "notifying" /\ s \in writer.left /\ \A t \in writer.left : s <= t
    /\ LET event == EventOf(s, subs[s])
           sends == event.error = "Ok" /\ subs[s].state # "ended"
       IN  /\ sends => Room(s)
           /\ subs' = IF sends THEN [subs EXCEPT ![s].channel = Append(@, event)] ELSE subs
    /\ writer' = Phase(writer.left \ {s})
    /\ UNCHANGED << dbVars, conns, updates_made >>

------------------------------------------------------------------------------
SubIds == 1..MaxSubscriptions

Connection(w) ==
    \/ \E i \in DOMAIN Requests : get(w, i) \/ GetMetadata(w, i) \/ set(w, i) \/ Malformed(w, i)
                                  \/ SubscribeInitial(w, i) \/ unsubscribe(w, i)
    \/ SubscribeAdd(w) \/ Respond(w) \/ Forward(w) \/ Close(w)

VissNext ==
    \/ \E w \in Connections : Connection(w)
    \/ \E s \in SubIds : Task(s) \/ ExpireSubscriber(s) \/ Notify(s)
    \/ Commit \/ NotifyStart

\* Tasks go on when they can; a client need not send, and need not read.
VissSpec ==
    /\ VissInit /\ [][VissNext]_vissVars
    /\ \A s \in SubIds : WF_vissVars(Task(s)) /\ WF_vissVars(Notify(s))
    /\ WF_vissVars(NotifyStart)

==============================================================================
