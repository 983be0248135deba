---------------------------------- MODULE Val ----------------------------------
(***************************************************************************)
(* The service kuksa.val.v1 (grpc/kuksa_val_v1/val.rs): get reads under    *)
(* one lock, set looks its paths up one by one before it writes, subscribe *)
(* looks up one pattern at a time.                                         *)
(*                                                                         *)
(* The metadata of a message stands for all its members: data type and     *)
(* entry type are kept, description and unit go the same way.              *)
(***************************************************************************)
EXTENDS Grpc

ReadableFields == {"Value", "ActuatorTarget"}
MetadataFields == {"Metadata", "MetadataDataType", "MetadataEntryType", "MetadataUnit"}

BadPattern(path) == HasWildcard(path) /\ ~is_valid_pattern(path)

\* The patterns of the requests, and the paths each of them matches.
Globs ==
    UNION {{Requests[r].items[i].path : i \in DOMAIN Requests[r].items}
              : r \in {q \in DOMAIN Requests : Requests[q].op \in {"get", "subscribe"}}}
MatchedBy == [glob \in Globs |-> {path \in Paths : is_match(glob, path)}]

Matching(glob) == MatchedBy[glob] \cap Registered
Readable(c, path) == get_entry_by_path(Perm(c), path) = "Ok"

combine_view_and_fields(view, fields) ==
    fields \cup
    CASE view = "Unspecified" -> IF fields = {} THEN {"Path", "Value"} ELSE {}
      [] view = "CurrentValue" -> {"Path", "Value"}
      [] view = "TargetValue" -> {"Path", "ActuatorTarget"}
      [] view = "Metadata" -> {"Path", "Metadata"}
      [] view = "Fields" -> {}
      [] view = "All" -> {"Path", "Value", "ActuatorTarget", "Metadata"}

------------------------------------------------------------------------------
(* get *)

proto_entry_from_entry_and_fields(c, path, fields) ==
    LET entry == EntryAt(path)
        Field_(name, value) == IF name \in fields /\ Readable(c, path) THEN value ELSE None
        Meta_(name, value) == IF {name, "Metadata"} \cap fields # {} THEN Some(value) ELSE None
    IN  [path |-> path,
         value |-> Field_("Value", ValDatapoint(entry.datapoint)),
         actuator_target |->
            Field_("ActuatorTarget",
                   IF entry.actuator_target = None THEN None ELSE ValDatapoint(entry.actuator_target[1])),
         metadata |-> IF fields \cap MetadataFields = {} THEN None
                      ELSE Some([data_type |-> Meta_("MetadataDataType", ValDataType(entry.metadata.data_type)),
                                 entry_type |-> Meta_("MetadataEntryType", entry.metadata.entry_type)])]

\* The fields that the valid requests show of a path, each for itself: all it
\* asks for, if it asks for metadata or for something that may be read.
ResultFields(c, valid, path) ==
    LET Fields(r) == combine_view_and_fields(r.view, r.fields)
    IN  UNION {Fields(r) : r \in {v \in valid :
                  /\ path \in MatchedBy[v.path]
                  /\ \/ "Metadata" \in Fields(v)
                     \/ Fields(v) \cap ReadableFields # {} /\ Readable(c, path)}}

\* op_error: a request asks for a value that may not be read.
OpError(c, r) ==
    /\ combine_view_and_fields(r.view, r.fields) \cap ReadableFields # {}
    /\ \E path \in Matching(r.path) : ~Readable(c, path)

\* Mutant: the entries found so far are sent along with the error.
GetReplyPartial(c) ==
    LET items == {Items(c)[i] : i \in DOMAIN Items(c)}
        valid == {r \in items : ~BadPattern(r.path)}
        shown == {path \in Registered : ResultFields(c, valid, path) # {}}
        Error_(code, requests) == {[path |-> r.path, code |-> code] : r \in requests}
    IN  [call[c] EXCEPT
            !.status = "Ok",
            !.errors = Error_(400, items \ valid)
                       \cup Error_(404, {r \in valid : Matching(r.path) = {}})
                       \cup Error_(403, {r \in valid : OpError(c, r)}),
            !.results = [path \in shown |->
                            proto_entry_from_entry_and_fields(c, path, ResultFields(c, valid, path))]]

GetReply(c) ==
    LET items == {Items(c)[i] : i \in DOMAIN Items(c)}
        valid == {r \in items : ~BadPattern(r.path)}
        forbidden == {r \in valid : OpError(c, r)}
        shown == {path \in Registered : ResultFields(c, valid, path) # {} /\ forbidden = {}}
        Error_(code, requests) == {[path |-> r.path, code |-> code] : r \in requests}
    IN  [call[c] EXCEPT
            !.status = "Ok",
            !.errors = Error_(400, items \ valid)
                       \cup Error_(404, {r \in valid : Matching(r.path) = {}})
                       \cup Error_(403, forbidden),
            !.results = [path \in shown |->
                            proto_entry_from_entry_and_fields(c, path, ResultFields(c, valid, path))]]

get(c) ==
    /\ Open(c, "get")
    /\ Goes(c, IF \E i \in DOMAIN Items(c) :
                      Items(c)[i].view = "Invalid" /\ ~BadPattern(Items(c)[i].path)
               THEN [call[c] EXCEPT !.status = "InvalidArgument"]
               ELSE GetReply(c))
    /\ UNCHANGED dbVars

------------------------------------------------------------------------------
(* set *)

\* A target that is named in the fields but not given is a target of None.
from_proto_entry_and_fields(entry, fields) ==
    [NoUpdate EXCEPT
        !.datapoint = IF "Value" \in fields /\ entry.value # None
                      THEN Some(FromValDatapoint(entry.value[1])) ELSE None,
        !.actuator_target =
            IF "ActuatorTarget" \notin fields THEN None
            ELSE IF entry.actuator_target = None THEN Some(None)
            ELSE Some(Some(FromValDatapoint(entry.actuator_target[1])))]

SetError(path, error) ==
    [path |-> path,
     code |-> CASE error = "NotFound" -> 404
                [] error \in {"WrongType", "UnsupportedType", "OutOfBounds"} -> 400
                [] error = "PermissionDenied" -> 403
                [] error = "PermissionExpired" -> 401]

\* One turn of the loop over the updates.  An update bears the number of the
\* item it comes from; no handler looks at it.
SetLookup(c) ==
    /\ Open(c, "set") /\ ~Handled(c)
    /\ LET item == Item(c)
           entry == item.entry[1]
           skip == [call[c] EXCEPT !.next = @ + 1]
           invalid == [call[c] EXCEPT !.status = "InvalidArgument"]
       IN  Goes(c, IF item.entry = None THEN invalid
                   ELSE IF entry.path \notin Registered
                   THEN [skip EXCEPT !.errors = @ \cup {SetError(entry.path, "NotFound")}]
                   ELSE IF /\ entry.actuator_target # None
                           /\ EntryAt(entry.path).metadata.entry_type # "Actuator"
                   THEN invalid
                   ELSE [skip EXCEPT !.updates = Append(@,
                            [id |-> path_to_id[entry.path],
                             update |-> from_proto_entry_and_fields(entry, item.fields),
                             item |-> call[c].next])])
    /\ UNCHANGED dbVars

\* Mutant: only the first error is reported.
FirstErrorOnly(c) ==
    LET failed == UpdateEntries(entries, Perm(c), call[c].updates).errors
    IN  IF failed = {} THEN {}
        ELSE LET e == CHOOSE e \in failed : TRUE
             IN  {SetError(entries[e.id].metadata.path, e.error)}

\* The errors of update_entries, with the path found under each id.
SetErrors(c) ==
    {SetError(entries[e.id].metadata.path, e.error)
        : e \in {f \in UpdateEntries(entries, Perm(c), call[c].updates).errors : f.id \in DOMAIN entries}}

SetCommit(c) ==
    /\ Open(c, "set") /\ Handled(c)
    /\ update_entries(Perm(c), call[c].updates)
    /\ Goes(c, [call[c] EXCEPT !.status = "Ok", !.errors = @ \cup SetErrors(c)])

------------------------------------------------------------------------------
(* subscribe *)

\* valid_requests is a map: a later item replaces an earlier one of its path.
SubscribePending(c) ==
    {i \in DOMAIN Items(c) :
        /\ ~BadPattern(Items(c)[i].path)
        /\ \A j \in (i + 1)..Len(Items(c)) : Items(c)[j].path # Items(c)[i].path
        /\ \A k \in DOMAIN call[c].updates : call[c].updates[k].item # i}

\* Mutant: the fields of the last pattern that matches a path replace the others.
MergeLast(subscribed, paths, fields) ==
    [path \in DOMAIN subscribed \cup paths |-> IF path \in paths THEN fields ELSE subscribed[path]]

\* entries.entry(id).and_modify(extend).or_insert
Merge(subscribed, paths, fields) ==
    [path \in DOMAIN subscribed \cup paths |->
        (IF path \in DOMAIN subscribed THEN subscribed[path] ELSE {})
        \cup (IF path \in paths THEN fields ELSE {})]

SubscribeLookup(c) ==
    /\ Open(c, "subscribe")
    /\ \E i \in SubscribePending(c) :
          LET item == Items(c)[i]
              found == Matching(item.path)
          IN  Goes(c, IF found = {} THEN [call[c] EXCEPT !.status = "NotFound"]
                      ELSE IF \E path \in found : ~Readable(c, path)
                      THEN [call[c] EXCEPT !.status = "PermissionDenied"]
                      ELSE [call[c] EXCEPT
                               !.updates = Append(@, [item |-> i]),
                               !.results = Merge(@, found, FromValFields(item.fields))])
    /\ UNCHANGED dbVars

\* AuthorizedAccess::subscribe refuses a subscription to nothing.
SubscribeCreate(c) ==
    /\ Open(c, "subscribe") /\ SubscribePending(c) = {}
    /\ Goes(c, [call[c] EXCEPT
                   !.status = IF call[c].results = EmptyMap THEN "InvalidArgument" ELSE "Ok"])
    /\ UNCHANGED dbVars

get_server_info(c) ==
    /\ Open(c, "get_server_info")
    /\ Goes(c, [call[c] EXCEPT !.status = "Ok"])
    /\ UNCHANGED dbVars

ValNext(c) ==
    get(c) \/ SetLookup(c) \/ SetCommit(c) \/ SubscribeLookup(c) \/ SubscribeCreate(c) \/ get_server_info(c)

==============================================================================
