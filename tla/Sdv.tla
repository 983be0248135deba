---------------------------------- MODULE Sdv ----------------------------------
(***************************************************************************)
(* The services of sdv.databroker.v1: Broker for consumers                 *)
(* (grpc/sdv_databroker_v1/broker.rs) and Collector for providers          *)
(* (collector.rs).  The items of a request that is a map have distinct     *)
(* keys; their order is the map's.  Query subscriptions are in Query.      *)
(***************************************************************************)
EXTENDS Grpc

CONSTANTS
    ErrorCapacity,      \* the channel of a provider stream's errors (10 in the code)
    MaxMessages,        \* bound on what a provider sends on a stream
    StreamMessages      \* the messages of a stream: sequences of [id, value]

ASSUME MessagesAssumption == \A m \in StreamMessages : IsList(m)

------------------------------------------------------------------------------
(* Broker *)

\* One turn of the loop over the names, each under its own lock.
get_datapoints(c) ==
    /\ Open(c, "get_datapoints")
    /\ LET name == Item(c)
           found == get_entry_by_path(Perm(c), name)
           datapoint == CASE found = "Ok" -> SdvDatapoint(EntryAt(name).datapoint)
                          [] found = "NotFound" -> Failure("UnknownDatapoint")
                          [] found \in {"Denied", "Expired"} -> Failure("AccessDenied")
       IN  Goes(c, [call[c] EXCEPT
                       !.results = Insert(@, name, datapoint), !.next = @ + 1,
                       !.status = IF call[c].next = Len(Items(c)) THEN "Ok" ELSE "Open"])
    /\ UNCHANGED dbVars

\* Only actuators can be set here, and of those the target.
SetDatapointsLookup(c) ==
    /\ Open(c, "set_datapoints") /\ ~Handled(c)
    /\ LET item == Item(c)
           skip == [call[c] EXCEPT !.next = @ + 1]
           Refuse(error) == [skip EXCEPT !.errors = @ \cup {[path |-> item.path, error |-> error]}]
       IN  Goes(c, IF item.path \notin Registered THEN Refuse("UnknownDatapoint")
                   ELSE IF EntryAt(item.path).metadata.entry_type # "Actuator" THEN Refuse("AccessDenied")
                   ELSE [skip EXCEPT
                           !.updates = Append(@,
                               [id |-> path_to_id[item.path],
                                update |-> [NoUpdate EXCEPT !.actuator_target =
                                               Some(Some(FromSdvDatapoint(item.value)))]]),
                           !.results = Insert(@, path_to_id[item.path], item.path)])
    /\ UNCHANGED dbVars

\* `results` is id_to_path here.
SetDatapointsCommit(c) ==
    /\ Open(c, "set_datapoints") /\ Handled(c)
    /\ update_entries(Perm(c), call[c].updates)
    /\ Goes(c, [call[c] EXCEPT
                   !.status = "Ok",
                   !.errors = @ \cup {[path |-> call[c].results[e.id], error |-> DatapointError(e.error)]
                                        : e \in UpdateEntries(entries, Perm(c), call[c].updates).errors}])

\* Metadata needs no permission; names that are not registered are left out.
get_metadata(c) ==
    /\ Open(c, "get_metadata")
    /\ LET names == {Items(c)[i] : i \in DOMAIN Items(c)}
       IN  Goes(c, [call[c] EXCEPT
                       !.status = "Ok",
                       !.results = [name \in IF names = {} THEN Registered ELSE names \cap Registered |->
                                       SdvMetadata(EntryAt(name).metadata)]])
    /\ UNCHANGED dbVars

------------------------------------------------------------------------------
(* Collector *)

DatapointUpdates(items) ==
    [i \in DOMAIN items |->
        [id |-> items[i].id,
         update |-> [NoUpdate EXCEPT !.datapoint = Some(FromSdvDatapoint(items[i].value))]]]

UpdateErrors(perm, items) ==
    {[id |-> e.id, error |-> DatapointError(e.error)]
        : e \in UpdateEntries(entries, perm, DatapointUpdates(items)).errors}

update_datapoints(c) ==
    /\ Open(c, "update_datapoints")
    /\ update_entries(Perm(c), DatapointUpdates(Items(c)))
    /\ Goes(c, [call[c] EXCEPT !.status = "Ok", !.errors = UpdateErrors(Perm(c), Items(c))])

\* Mutant: the reply has the id that would be next, new or not.
AddedNextId(path) == next_id

\* What add_entry returns: the id of the path, new or old.
AddedId(path) == IF path \in Registered THEN path_to_id[path] ELSE next_id

RegistrationStatus(result) ==
    CASE result = "PermissionDenied" -> "PermissionDenied"
      [] result = "PermissionExpired" -> "Unauthenticated"
      [] result = "ValidationError" -> "InvalidArgument"
      [] OTHER -> "Open"

\* One turn of the loop: the first failure ends the call, and what was
\* registered before it stays.
RegisterStep(c) ==
    /\ Open(c, "register_datapoints") /\ ~Handled(c)
    /\ LET item == Item(c)
           metadata == [data_type |-> item.data_type[1], change_type |-> item.change_type[1],
                        entry_type |-> "Sensor", allowed |-> None]
           result == AddResult(Perm(c), item.name, metadata)
       IN  IF item.data_type = None \/ item.change_type = None
           THEN Goes(c, [call[c] EXCEPT !.status = "InvalidArgument"]) /\ UNCHANGED dbVars
           ELSE /\ add(Perm(c), item.name, metadata)
                /\ Goes(c, IF result \in {"Ok", "Exists"}
                           THEN [call[c] EXCEPT !.results = Insert(@, item.name, AddedId(item.name)),
                                                !.next = @ + 1]
                           ELSE [call[c] EXCEPT !.status = RegistrationStatus(result)])

RegisterReply(c) ==
    /\ Open(c, "register_datapoints") /\ Handled(c)
    /\ Goes(c, [call[c] EXCEPT !.status = "Ok"])
    /\ UNCHANGED dbVars

------------------------------------------------------------------------------
(* Collector::stream_datapoints: a task of its own.  `provider` has the    *)
(* messages that the task has not received yet, `updates` the errors in    *)
(* the channel, `errors` the ones the task is waiting to put there.        *)

Streaming(c) == Open(c, "stream_datapoints")

ProviderSend(c) ==
    /\ Streaming(c) /\ call[c].provider.state = "Sending" /\ call[c].provider.sent < MaxMessages
    /\ \E m \in StreamMessages :
          Goes(c, [call[c] EXCEPT !.provider.messages = Append(@, m), !.provider.sent = @ + 1])
    /\ UNCHANGED dbVars

\* The provider has no more to send, but may go on reading.
ProviderFinish(c) ==
    /\ Streaming(c) /\ call[c].provider.state = "Sending"
    /\ Goes(c, [call[c] EXCEPT !.provider.state = "Finished"])
    /\ UNCHANGED dbVars

\* The connection breaks; what was not received may be lost with it.
ProviderHangUp(c) ==
    /\ Streaming(c) /\ call[c].provider.state # "Gone"
    /\ \E kept \in {call[c].provider.messages, << >>} :
          Goes(c, [call[c] EXCEPT !.provider.state = "Gone", !.provider.messages = kept, !.updates = << >>])
    /\ UNCHANGED dbVars

ProviderReceive(c) ==
    /\ Streaming(c) /\ call[c].updates # << >>
    /\ Goes(c, [call[c] EXCEPT !.updates = Tail(@)])
    /\ UNCHANGED dbVars

Idle(c) == Streaming(c) /\ call[c].errors = {}

StreamMessage(c) ==
    /\ Idle(c) /\ call[c].provider.messages # << >>
    /\ update_entries(Perm(c), DatapointUpdates(Head(call[c].provider.messages)))
    /\ Goes(c, [call[c] EXCEPT !.provider.messages = Tail(@),
                               !.errors = UpdateErrors(Perm(c), Head(call[c].provider.messages))])

\* send().await: waits for room; an error for a provider that is gone is dropped.
StreamErrors(c) ==
    /\ Streaming(c) /\ call[c].errors # {}
    /\ call[c].provider.state = "Gone" \/ Len(call[c].updates) < ErrorCapacity
    /\ Goes(c, [call[c] EXCEPT
                   !.errors = {},
                   !.updates = IF call[c].provider.state = "Gone" THEN @ ELSE Append(@, call[c].errors)])
    /\ UNCHANGED dbVars

\* Mutant: the task listens to its provider only.
StreamEndUnlessShutdown(c) ==
    /\ Idle(c) /\ call[c].provider.state # "Sending" /\ call[c].provider.messages = << >>
    /\ Goes(c, [call[c] EXCEPT !.status = "Ok"])
    /\ UNCHANGED dbVars

\* No more messages, or the shutdown trigger: whichever select! takes first.
StreamEnd(c) ==
    /\ Idle(c)
    /\ shutdown \/ (call[c].provider.state # "Sending" /\ call[c].provider.messages = << >>)
    /\ Goes(c, [call[c] EXCEPT !.status = "Ok"])
    /\ UNCHANGED dbVars

StreamTask(c) == StreamMessage(c) \/ StreamErrors(c) \/ StreamEnd(c)

SdvNext(c) ==
    \/ get_datapoints(c) \/ SetDatapointsLookup(c) \/ SetDatapointsCommit(c) \/ get_metadata(c)
    \/ update_datapoints(c) \/ RegisterStep(c) \/ RegisterReply(c)
    \/ ProviderSend(c) \/ ProviderFinish(c) \/ ProviderHangUp(c) \/ ProviderReceive(c) \/ StreamTask(c)

==============================================================================
