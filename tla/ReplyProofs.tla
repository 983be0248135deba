----------------------------- MODULE ReplyProofs -----------------------------
(***************************************************************************)
(* Theorems about Services, for any files, clients and requests: what a    *)
(* call of the service kuksa.val.v1 does and answers, what a token permits *)
(* and what the files that the broker loads become.                        *)
(***************************************************************************)
EXTENDS ServicesProofs, FiniteSetTheorems

------------------------------------------------------------------------------
(* How a call ends *)

\* A step of one client's call leaves the calls of the others alone.
LEMMA StepOfClient ==
    ASSUME DOMAIN call = Clients, NEW c \in Clients, NEW d \in Clients, c # d,
           Call(d) \/ Expire(d) \/ ValNext(d) \/ SdvNext(d)
    PROVE  call'[c] = call[c]
<1>1. \E r : call' = [call EXCEPT ![d] = r]
  <2>1. CASE Call(d)
    BY <2>1, Zenon DEF Call
  <2>2. CASE Expire(d)
    BY <2>2, Zenon DEF Expire, Goes
  <2>3. CASE ValNext(d)
    BY <2>3, Zenon DEF ValNext, get, SetLookup, SetCommit, SubscribeLookup, SubscribeCreate,
                       get_server_info, Goes
  <2>4. CASE SdvNext(d)
    BY <2>4, Zenon DEF SdvNext, get_datapoints, SetDatapointsLookup, SetDatapointsCommit, get_metadata,
                       update_datapoints, RegisterStep, RegisterReply, ProviderSend, ProviderFinish,
                       ProviderHangUp, ProviderReceive, StreamTask, StreamMessage, StreamErrors,
                       StreamEnd, Goes
  <2> QED
    BY <2>1, <2>2, <2>3, <2>4
<1> QED
  BY <1>1

\* A handler runs for an open call only, and leaves the server as it is.
LEMMA ClientStep ==
    ASSUME NEW c \in Clients, Expire(c) \/ ValNext(c) \/ SdvNext(c)
    PROVE  call[c].status = "Open" /\ UNCHANGED << startupVars, authorization, calls_made, shutdown >>
<1>1. CASE Expire(c)
  BY <1>1 DEF Expire, Goes
<1>2. CASE ValNext(c)
  BY <1>2, Zenon DEF ValNext, get, SetLookup, SetCommit, SubscribeLookup, SubscribeCreate,
                     get_server_info, Goes, Open
<1>3. CASE SdvNext(c)
  BY <1>3, Zenon DEF SdvNext, get_datapoints, SetDatapointsLookup, SetDatapointsCommit, get_metadata,
                     update_datapoints, RegisterStep, RegisterReply, ProviderSend, ProviderFinish,
                     ProviderHangUp, ProviderReceive, StreamTask, StreamMessage, StreamErrors,
                     StreamEnd, Streaming, Idle, Goes, Open
<1> QED
  BY <1>1, <1>2, <1>3

\* An open call of the kind `op` that changes is changed by its own handler, or expires.
LEMMA OwnStep ==
    ASSUME ServicesInv, ServicesNext, NEW c \in Clients, NEW op, Ends(c, op)
    PROVE  Expire(c) \/ ValNext(c) \/ SdvNext(c)
<1>1. DOMAIN call = Clients /\ call'[c] # call[c]
  BY DEF ServicesInv, CallsOK, Ends, Open
<1>2. ~(StartupNext /\ call' = call) /\ ~Shutdown
  BY <1>1 DEF Shutdown
<1>3. ~Call(c)
  BY DEF Call, Ends, Open
<1>4. PICK d \in Clients : Call(d) \/ Expire(d) \/ ValNext(d) \/ SdvNext(d)
  BY <1>2 DEF ServicesNext
<1>5. d = c
  BY <1>1, <1>4, StepOfClient
<1> QED
  BY <1>3, <1>4, <1>5

\* No call ends as its token expires.
LEMMA ExpireEndsNothing ==
    ASSUME ServicesInv, NEW c \in Clients, NEW op, Ends(c, op)
    PROVE  ~Expire(c)
<1> SUFFICES ASSUME Expire(c) PROVE FALSE
  OBVIOUS
<1>1. DOMAIN call[c] = CallFields /\ call[c].status = "Open" /\ DOMAIN call = Clients
  BY OpenCall DEF ServicesInv, RecordOK, Ends, Open, CallsOK
<1>2. call'[c] = [call[c] EXCEPT !.expired = TRUE]
  BY <1>1 DEF Expire, Goes
<1> QED
  BY <1>1, <1>2 DEF Ends, CallFields

\* Only its commit ends a set with a reply.
LEMMA SetEnds ==
    ASSUME ServicesInv, ServicesNext, NEW c \in Clients, Ends(c, "set")
    PROVE  SetCommit(c)
<1>1. call[c].op = "set" /\ call'[c].status = "Ok" /\ call[c].status = "Open"
  BY Zenon DEF Ends, Open
<1>2. SetLookup(c) \/ SetCommit(c)
  BY <1>1, OwnStep, ExpireEndsNothing, Zenon
     DEF ValNext, get, SubscribeLookup, SubscribeCreate, get_server_info,
         SdvNext, get_datapoints, SetDatapointsLookup, SetDatapointsCommit, get_metadata,
         update_datapoints, RegisterStep, RegisterReply, ProviderSend, ProviderFinish,
         ProviderHangUp, ProviderReceive, StreamTask, StreamMessage, StreamErrors,
         StreamEnd, Streaming, Idle, Open
<1>3. ASSUME SetLookup(c) PROVE FALSE
  <2>1. DOMAIN call[c] = CallFields /\ DOMAIN call = Clients
    BY <1>1, OpenCall DEF ServicesInv, RecordOK, CallsOK
  <2> DEFINE skip == [call[c] EXCEPT !.next = @ + 1]
             invalid == [call[c] EXCEPT !.status = "InvalidArgument"]
  <2>2. \/ call' = [call EXCEPT ![c] = invalid]
        \/ \E errors : call' = [call EXCEPT ![c] = [skip EXCEPT !.errors = errors]]
        \/ \E updates : call' = [call EXCEPT ![c] = [skip EXCEPT !.updates = updates]]
    BY <1>3, Zenon DEF SetLookup, Goes
  <2>3. invalid.status = "InvalidArgument" /\ DOMAIN skip = CallFields /\ skip.status = "Open"
    BY <1>1, <2>1 DEF CallFields
  <2> HIDE DEF skip, invalid
  <2> QED
    BY <1>1, <2>1, <2>2, <2>3, Zenon DEF CallFields
<1> QED
  BY <1>2, <1>3

\* Only its reply ends a get.
LEMMA GetEnds ==
    ASSUME ServicesInv, ServicesNext, NEW c \in Clients, Ends(c, "get")
    PROVE  call'[c] = GetReply(c) /\ UNCHANGED dbVars
<1>1. call[c].op = "get" /\ call'[c].status = "Ok" /\ call[c].status = "Open"
  BY Zenon DEF Ends, Open
<1>2. get(c)
  BY <1>1, OwnStep, ExpireEndsNothing, ZenonT(30)
     DEF ValNext, SetLookup, SetCommit, SubscribeLookup, SubscribeCreate, get_server_info,
         SdvNext, get_datapoints, SetDatapointsLookup, SetDatapointsCommit, get_metadata,
         update_datapoints, RegisterStep, RegisterReply, ProviderSend, ProviderFinish,
         ProviderHangUp, ProviderReceive, StreamTask, StreamMessage, StreamErrors,
         StreamEnd, Streaming, Idle, Open
<1>3. DOMAIN call[c] = CallFields /\ DOMAIN call = Clients
  BY <1>1, OpenCall DEF ServicesInv, RecordOK, CallsOK
<1> DEFINE invalid == [call[c] EXCEPT !.status = "InvalidArgument"]
<1>4. call' = [call EXCEPT ![c] = invalid] \/ call' = [call EXCEPT ![c] = GetReply(c)]
  BY <1>2, Zenon DEF get, Goes
<1>5. invalid.status = "InvalidArgument"
  BY <1>3 DEF CallFields
<1> HIDE DEF invalid
<1>6. call'[c] = GetReply(c)
  BY <1>1, <1>3, <1>4, <1>5
<1> QED
  BY <1>2, <1>6 DEF get

------------------------------------------------------------------------------
(* What a set does *)

\* The items of a set that name a value, and the value they give.
Naming(items, path, field) ==
    {i \in DOMAIN items :
        LET e == items[i].entry[1]
        IN  e.path = path /\ field \in items[i].fields /\ (field = "Value" => e.value # None)}

ValueField(field) == IF field = "Value" THEN "datapoint" ELSE "actuator_target"

Gives(item, field) == from_proto_entry_and_fields(item.entry[1], item.fields)[ValueField(field)]

\* An item that names a value gives it, another does not.
LEMMA NamingGives ==
    ASSUME NEW items, NEW i \in DOMAIN items, NEW field \in {"Value", "ActuatorTarget"}
    PROVE  i \in Naming(items, items[i].entry[1].path, field) <=> Gives(items[i], field) # None
<1> DEFINE e == items[i].entry[1]
           u == from_proto_entry_and_fields(e, items[i].fields)
<1>1. /\ u.datapoint = IF "Value" \in items[i].fields /\ e.value # None
                       THEN Some(FromValDatapoint(e.value[1])) ELSE None
      /\ u.actuator_target =
            IF "ActuatorTarget" \notin items[i].fields THEN None
            ELSE IF e.actuator_target = None THEN Some(None)
            ELSE Some(Some(FromValDatapoint(e.actuator_target[1])))
  BY SetUpdateFacts
<1>2. \A x : Some(x) # None
  BY DEF Some, None
<1>3. Gives(items[i], field) = u[ValueField(field)]
  BY DEF Gives
<1>4. i \in Naming(items, e.path, field)
         <=> field \in items[i].fields /\ (field = "Value" => e.value # None)
  BY DEF Naming
<1> HIDE DEF e, u
<1>5. field = "Value" => (i \in Naming(items, e.path, field) <=> Gives(items[i], field) # None)
  BY <1>1, <1>2, <1>3, <1>4 DEF ValueField
<1>6. field = "ActuatorTarget" => (i \in Naming(items, e.path, field) <=> Gives(items[i], field) # None)
  BY <1>1, <1>2, <1>3, <1>4, Zenon DEF ValueField
<1> QED
  BY <1>5, <1>6 DEF e

\* Nothing is asked of a path that no item names; else the last item that names
\* it counts.
LEMMA AskedOf ==
    ASSUME NEW c, NEW path, NEW field \in {"Value", "ActuatorTarget"}, IsList(Items(c))
    PROVE  LET naming == Naming(Items(c), path, field)
           IN  /\ naming = {} => Asked(c, path, field) = None
               /\ naming # {} =>
                     \E last \in naming :
                        /\ \A j \in naming : j <= last
                        /\ Asked(c, path, field) # None
                        /\ Gives(Items(c)[last], field) # None
                        /\ field = "Value" =>
                              Asked(c, path, field)[1] = Some(Gives(Items(c)[last], field)[1])
                        /\ field = "ActuatorTarget" =>
                              Asked(c, path, field)[1] = Gives(Items(c)[last], field)[1]
<1> DEFINE naming == Naming(Items(c), path, field)
           last == CHOOSE i \in naming : \A j \in naming : j <= i
           entry == Items(c)[last].entry[1]
<1>1. Asked(c, path, field) =
         IF naming = {} THEN None
         ELSE IF field = "Value" THEN Some(Some(FromValDatapoint(entry.value[1])))
         ELSE IF entry.actuator_target = None THEN Some(None)
         ELSE Some(Some(FromValDatapoint(entry.actuator_target[1])))
  BY DEF Asked, Naming
<1>2. naming # {} => last \in naming /\ \A j \in naming : j <= last
  <2>1. Len(Items(c)) \in Nat /\ naming \subseteq 1..Len(Items(c))
    BY DEF Naming, IsList
  <2> HIDE DEF naming
  <2>2. naming # {} => \E i \in naming : \A j \in naming : j <= i
    BY <2>1, Greatest, Zenon
  <2> QED
    BY <2>2
<1>3. naming # {} => /\ Items(c)[last].entry[1] = entry /\ last \in DOMAIN Items(c)
                     /\ field \in Items(c)[last].fields /\ (field = "Value" => entry.value # None)
                     /\ entry.path = path
  BY <1>2, Zenon DEF Naming
<1> DEFINE u == from_proto_entry_and_fields(entry, Items(c)[last].fields)
<1>4. Gives(Items(c)[last], field) = u[ValueField(field)]
  BY DEF Gives
<1>5. /\ u.datapoint = IF "Value" \in Items(c)[last].fields /\ entry.value # None
                       THEN Some(FromValDatapoint(entry.value[1])) ELSE None
      /\ u.actuator_target =
            IF "ActuatorTarget" \notin Items(c)[last].fields THEN None
            ELSE IF entry.actuator_target = None THEN Some(None)
            ELSE Some(Some(FromValDatapoint(entry.actuator_target[1])))
  BY SetUpdateFacts
<1>6. \A x : Some(x) # None /\ Some(x)[1] = x
  BY DEF Some, None
<1> HIDE DEF naming, last, entry, u
<1>7. CASE naming = {}
  BY <1>1, <1>7 DEF naming
<1>8. CASE naming # {} /\ field = "Value"
  <2>1. /\ Asked(c, path, field) = Some(Some(FromValDatapoint(entry.value[1])))
        /\ Gives(Items(c)[last], field) = Some(FromValDatapoint(entry.value[1]))
    BY <1>1, <1>3, <1>4, <1>5, <1>8, Zenon DEF ValueField
  <2> QED
    BY <1>2, <1>6, <1>8, <2>1 DEF naming
<1>9. CASE naming # {} /\ field = "ActuatorTarget"
  <2>1. /\ Asked(c, path, field) = Gives(Items(c)[last], field)
        /\ \E x : Asked(c, path, field) = Some(x)
    BY <1>1, <1>3, <1>4, <1>5, <1>9 DEF ValueField
  <2> QED
    BY <1>2, <1>6, <1>9, <2>1, ZenonT(30) DEF naming
<1> QED
  BY <1>7, <1>8, <1>9 DEF naming

\* What the commit of a set finds: each update comes from an item, in their
\* order, and every item of a path that was known has its update.
AtCommit(items, updates, ids, known) ==
    /\ IsList(items) /\ UpdateList(updates)
    /\ \A k \in DOMAIN updates :
          LET i == updates[k].item
          IN  /\ i \in Nat /\ i \in DOMAIN items
              /\ items[i].entry[1].path \in DOMAIN ids
              /\ updates[k].id = ids[items[i].entry[1].path]
              /\ \A field : updates[k].update[ValueField(field)] = Gives(items[i], field)
    /\ \A k, l \in DOMAIN updates : k < l => updates[k].item < updates[l].item
    /\ \A i \in DOMAIN items :
          items[i].entry[1].path \in known => \E k \in DOMAIN updates : updates[k].item = i

\* The loop over the items leads to such updates.
LEMMA SetAtCommit ==
    ASSUME ServicesInv, NEW c \in Clients, SetCommit(c)
    PROVE  AtCommit(Items(c), call[c].updates, path_to_id, Known(c))
<1>1. Open(c, "set") /\ call[c].status = "Open" /\ call[c].op = "set"
  BY DEF SetCommit, Open
<1>2. SetOK(call[c], path_to_id) /\ RecordOK(call[c], next_id)
  BY <1>1, OpenCall DEF ServicesInv, CallOK
<1>3. IsList(Items(c)) /\ ItemsOf(call[c]) = Items(c)
  BY <1>2, RequestsAssumption DEF Items, ItemsOf, RecordOK
<1>4. UpdateList(call[c].updates)
  BY <1>1, SetUpdateList, Zenon
<1>5. ASSUME NEW k \in DOMAIN call[c].updates
      PROVE  LET i == call[c].updates[k].item
             IN  /\ i \in Nat /\ i \in DOMAIN Items(c)
                 /\ Items(c)[i].entry[1].path \in DOMAIN path_to_id
                 /\ call[c].updates[k].id = path_to_id[Items(c)[i].entry[1].path]
                 /\ \A field : call[c].updates[k].update[ValueField(field)] = Gives(Items(c)[i], field)
  <2>1. FromItem(call[c], path_to_id, call[c].updates[k])
    BY <1>1, <1>2 DEF SetOK
  <2> QED
    BY <1>3, <2>1, Zenon DEF FromItem, EntryOf, SetUpdate, Gives
<1>6. ASSUME NEW i \in DOMAIN Items(c), Items(c)[i].entry[1].path \in Known(c)
      PROVE  \E k \in DOMAIN call[c].updates : call[c].updates[k].item = i
  <2>1. Len(Items(c)) \in Nat /\ DOMAIN Items(c) = 1..Len(Items(c))
    BY <1>3 DEF IsList
  <2>2. i \in 1..(call[c].next - 1)
    BY <1>2, <2>1 DEF SetCommit, Handled, RecordOK
  <2>3. Covered(call[c], path_to_id, i)
    BY <1>1, <1>2, <2>2 DEF SetOK
  <2> QED
    BY <1>3, <1>6, <2>3 DEF Covered, EntryOf, KnownTo, Known, Registered
<1> QED
  BY <1>1, <1>2, <1>3, <1>4, <1>5, <1>6, ZenonT(30) DEF SetOK, AtCommit

\* The error of an update names the path of its entry.
LEMMA SetErrorsName ==
    ASSUME ServicesInv, NEW c \in Clients, SetCommit(c), NEW id \in DOMAIN entries,
           NEW e \in UpdateEntries(entries, Perm(c), call[c].updates).errors, e.id = id
    PROVE  entries[id].metadata.path \in {f.path : f \in call'[c].errors}
<1> DEFINE err == SetError(entries[id].metadata.path, e.error)
           s == [call[c] EXCEPT !.status = "Ok", !.errors = @ \cup SetErrors(c)]
<1>1. err \in SetErrors(c)
  BY DEF SetErrors
<1>2. err.path = entries[id].metadata.path
  BY Zenon DEF SetError
<1>3. call[c].status = "Open" /\ call[c].op = "set"
  BY DEF SetCommit, Open
<1>4. DOMAIN call[c] = CallFields /\ DOMAIN call = Clients
  BY <1>3, OpenCall DEF ServicesInv, RecordOK, CallsOK
<1>5. call' = [call EXCEPT ![c] = s]
  BY DEF SetCommit, Goes
<1>6. s.errors = call[c].errors \cup SetErrors(c)
  BY <1>4 DEF CallFields
<1> HIDE DEF err, s
<1>7. err \in call'[c].errors
  BY <1>1, <1>4, <1>5, <1>6
<1> QED
  BY <1>2, <1>7

\* What the commit of a set does to one value of one entry.
LEMMA SetCommits ==
    ASSUME ServicesInv, NEW c \in Clients, SetCommit(c),
           NEW path \in Registered, NEW field \in {"Value", "ActuatorTarget"}
    PROVE  LET id == path_to_id[path]
               f == ValueField(field)
           IN  /\ Asked(c, path, field) = None => entries'[id][f] = entries[id][f]
               /\ path \in Known(c) /\ Asked(c, path, field) # None
                  /\ path \notin {e.path : e \in call'[c].errors} =>
                     /\ field = "Value" => Asked(c, path, field)[1] = Some(entries'[id][f])
                     /\ field = "ActuatorTarget" => Asked(c, path, field)[1] = entries'[id][f]
<1> DEFINE id == path_to_id[path]
           f == ValueField(field)
           U == call[c].updates
           items == Items(c)
           naming == Naming(items, path, field)
           final == UpdateEntries(entries, Perm(c), U)
<1>1. /\ id \in DOMAIN entries /\ entries[id].metadata.path = path
      /\ \A p \in DOMAIN path_to_id : path_to_id[p] = id => p = path
  BY DEF ServicesInv, StoreInv, PathsAndIdsAgree, Registered
<1> HIDE DEF U, items, f
<1>2. /\ IsList(items) /\ UpdateList(U)
      /\ \A k \in DOMAIN U :
            /\ U[k].item \in Nat /\ U[k].item \in DOMAIN items
            /\ items[U[k].item].entry[1].path \in DOMAIN path_to_id
            /\ U[k].id = path_to_id[items[U[k].item].entry[1].path]
            /\ U[k].update[f] = Gives(items[U[k].item], field)
      /\ \A k, l \in DOMAIN U : k < l => U[k].item < U[l].item
      /\ \A i \in DOMAIN items :
            items[i].entry[1].path \in Known(c) => \E k \in DOMAIN U : U[k].item = i
  <2>1. AtCommit(items, U, path_to_id, Known(c))
    BY SetAtCommit DEF items, U
  <2> QED
    BY <2>1 DEF AtCommit, f
<1>3. entries' = final.entries
  BY DEF SetCommit, update_entries, U
<1>4. f \in Values
  BY DEF Values, ValueField, f
<1>5. Sound(entries)
  BY StoreSound, Zenon DEF ServicesInv
<1> HIDE DEF final
<1>6. /\ (\A k \in DOMAIN U : U[k].id = id => U[k].update[f] = None)
            => final.entries[id][f] = entries[id][f]
      /\ \A k \in DOMAIN U :
            (/\ U[k].id = id /\ U[k].update[f] # None
             /\ \A l \in DOMAIN U : k < l /\ U[l].id = id => U[l].update[f] = None
             /\ \A e \in final.errors : e.id # id)
            => final.entries[id][f] = U[k].update[f][1]
  BY <1>1, <1>2, <1>4, <1>5, UpdateEntriesFacts DEF final
<1>7. \A k \in DOMAIN U : U[k].id = id /\ U[k].update[f] # None => U[k].item \in naming
  <2> SUFFICES ASSUME NEW k \in DOMAIN U, U[k].id = id, U[k].update[f] # None
               PROVE  U[k].item \in naming
    OBVIOUS
  <2>1. items[U[k].item].entry[1].path = path
    BY <1>1, <1>2, Zenon
  <2> QED
    BY <1>2, <2>1, NamingGives
<1>8. naming = {} => Asked(c, path, field) = None
  BY <1>2, AskedOf DEF items
<1>9. ASSUME naming # {}
      PROVE  \E last \in naming :
                /\ \A j \in naming : j <= last
                /\ Asked(c, path, field) # None
                /\ Gives(items[last], field) # None
                /\ field = "Value" => Asked(c, path, field)[1] = Some(Gives(items[last], field)[1])
                /\ field = "ActuatorTarget" => Asked(c, path, field)[1] = Gives(items[last], field)[1]
  BY <1>2, <1>9, AskedOf DEF items
<1>10. \A i \in naming : i \in DOMAIN items /\ items[i].entry[1].path = path
  BY DEF Naming
<1> HIDE DEF naming, id
<1>11. ASSUME Asked(c, path, field) = None PROVE entries'[id][f] = entries[id][f]
  BY <1>3, <1>6, <1>7, <1>9, <1>11, Zenon
<1>12. ASSUME path \in Known(c), Asked(c, path, field) # None,
              path \notin {e.path : e \in call'[c].errors}
       PROVE  /\ field = "Value" => Asked(c, path, field)[1] = Some(entries'[id][f])
              /\ field = "ActuatorTarget" => Asked(c, path, field)[1] = entries'[id][f]
  <2>1. PICK last \in naming :
                /\ \A j \in naming : j <= last
                /\ Gives(items[last], field) # None
                /\ field = "Value" => Asked(c, path, field)[1] = Some(Gives(items[last], field)[1])
                /\ field = "ActuatorTarget" => Asked(c, path, field)[1] = Gives(items[last], field)[1]
    BY <1>8, <1>9, <1>12, Zenon
  <2>2. PICK k \in DOMAIN U : U[k].item = last
    BY <1>2, <1>10, <1>12, Zenon
  <2>3. U[k].id = id /\ U[k].update[f] = Gives(items[last], field)
    BY <1>2, <1>10, <2>2, Zenon DEF id
  <2>4. ASSUME NEW l \in DOMAIN U, k < l, U[l].id = id PROVE U[l].update[f] = None
    <3>1. last < U[l].item /\ last \in Nat /\ U[l].item \in Nat
      BY <1>2, <2>2, <2>4
    <3>2. U[l].item \notin naming
      BY <2>1, <3>1
    <3> QED
      BY <1>7, <2>4, <3>2, Zenon
  <2>5. ASSUME NEW e \in final.errors, e.id = id PROVE FALSE
    BY <1>1, <1>12, <2>5, SetErrorsName, Zenon DEF final, U
  <2>6. entries'[id][f] = Gives(items[last], field)[1]
    BY <1>3, <1>6, <2>1, <2>3, <2>4, <2>5, Zenon
  <2> QED
    BY <2>1, <2>6
<1> QED
  BY <1>11, <1>12 DEF id, f

\* A set that returns accounts for every value it was given: what no error
\* names has the value and the target asked for last, what is not asked for is
\* kept, whatever other calls do between its lookups and its commit.
THEOREM SetsDoAccount == ServicesSpec => SetsAreAccountedFor
<1> DEFINE Accounts(c) ==
       LET refused == {e.path : e \in call'[c].errors}
           Keeps(path, field, before, after) ==
               Asked(c, path, field) = None => after = before
           Gets(path, field, after) ==
               Asked(c, path, field) # None /\ path \notin refused => Asked(c, path, field)[1] = after
       IN  \A path \in Registered :
              LET id == path_to_id[path]
              IN  /\ Keeps(path, "Value", entries[id].datapoint, entries'[id].datapoint)
                  /\ Keeps(path, "ActuatorTarget",
                           entries[id].actuator_target, entries'[id].actuator_target)
                  /\ path \in Known(c) =>
                        /\ Gets(path, "Value", Some(entries'[id].datapoint))
                        /\ Gets(path, "ActuatorTarget", entries'[id].actuator_target)
<1>1. ASSUME ServicesInv, [ServicesNext]_grpcVars
      PROVE  [\A c \in Clients : Ends(c, "set") => Accounts(c)]_grpcVars
  <2> SUFFICES ASSUME ServicesNext, NEW c \in Clients, Ends(c, "set") PROVE Accounts(c)
    BY <1>1
  <2>1. SetCommit(c)
    BY <1>1, SetEnds
  <2>2. ValueField("Value") = "datapoint" /\ ValueField("ActuatorTarget") = "actuator_target"
    BY DEF ValueField
  <2>3. ASSUME NEW path \in Registered
        PROVE  LET id == path_to_id[path]
               IN  /\ Asked(c, path, "Value") = None => entries'[id].datapoint = entries[id].datapoint
                   /\ path \in Known(c) /\ Asked(c, path, "Value") # None
                      /\ path \notin {e.path : e \in call'[c].errors} =>
                         Asked(c, path, "Value")[1] = Some(entries'[id].datapoint)
    BY <1>1, <2>1, <2>2, SetCommits, Zenon
  <2>4. ASSUME NEW path \in Registered
        PROVE  LET id == path_to_id[path]
               IN  /\ Asked(c, path, "ActuatorTarget") = None
                         => entries'[id].actuator_target = entries[id].actuator_target
                   /\ path \in Known(c) /\ Asked(c, path, "ActuatorTarget") # None
                      /\ path \notin {e.path : e \in call'[c].errors} =>
                         Asked(c, path, "ActuatorTarget")[1] = entries'[id].actuator_target
    BY <1>1, <2>1, <2>2, SetCommits
  <2> QED
    BY <2>3, <2>4
<1> QED
  BY <1>1, ServicesInvariant, PTL DEF ServicesSpec, SetsAreAccountedFor

------------------------------------------------------------------------------
(* What a get answers *)

\* The parts of the reply.
LEMMA ReplyParts ==
    ASSUME NEW c \in Clients, DOMAIN call[c] = CallFields
    PROVE  LET items == {Items(c)[i] : i \in DOMAIN Items(c)}
               valid == {r \in items : ~BadPattern(r.path)}
               forbidden == {r \in valid : OpError(c, r)}
               shown == {path \in Registered : ResultFields(c, valid, path) # {} /\ forbidden = {}}
               Error_(code, requests) == {[path |-> r.path, code |-> code] : r \in requests}
           IN  /\ GetReply(c).errors = Error_(400, items \ valid)
                                       \cup Error_(404, {r \in valid : Matching(r.path) = {}})
                                       \cup Error_(403, forbidden)
               /\ GetReply(c).results =
                     [path \in shown |->
                        proto_entry_from_entry_and_fields(c, path, ResultFields(c, valid, path))]
  BY Zenon DEF GetReply, CallFields

\* The value in the entry of a reply.
LEMMA ReplyValue ==
    ASSUME NEW c, NEW path, NEW fields
    PROVE  proto_entry_from_entry_and_fields(c, path, fields).value =
              IF "Value" \in fields /\ Readable(c, path) THEN ValDatapoint(EntryAt(path).datapoint) ELSE None
  BY Zenon DEF proto_entry_from_entry_and_fields

\* A valid request shows all it asks for of a path it matches and may read.
LEMMA FieldsShown ==
    ASSUME NEW c, NEW valid, NEW path, NEW r \in valid, path \in MatchedBy[r.path], Readable(c, path),
           "Value" \in combine_view_and_fields(r.view, r.fields)
    PROVE  "Value" \in ResultFields(c, valid, path)
<1> DEFINE Fields(v) == combine_view_and_fields(v.view, v.fields)
           matching == {v \in valid : /\ path \in MatchedBy[v.path]
                                      /\ \/ "Metadata" \in Fields(v)
                                         \/ Fields(v) \cap ReadableFields # {} /\ Readable(c, path)}
<1>1. r \in matching
  BY DEF ReadableFields
<1>2. "Value" \in Fields(r)
  OBVIOUS
<1> HIDE DEF Fields, matching
<1>3. "Value" \in UNION {Fields(v) : v \in matching}
  BY <1>1, <1>2
<1> QED
  BY <1>3 DEF ResultFields, Fields, matching

\* Nothing is shown that no valid request matches.
LEMMA ShownIsMatched ==
    ASSUME NEW c, NEW valid, NEW path, ResultFields(c, valid, path) # {}
    PROVE  \E r \in valid : path \in MatchedBy[r.path]
  BY DEF ResultFields

\* A get answers as documented, where the patterns of the requests match what
\* the documentation says.
THEOREM GetsDoAnswer == GlobsAsDocumented => (ServicesSpec => GetAnswersAsDocumented)
<1> SUFFICES ASSUME GlobsAsDocumented PROVE ServicesSpec => GetAnswersAsDocumented
  OBVIOUS
<1> DEFINE Asks(r, path) == path \in DescribedBy[r.path] \cap Registered
           Request(c, reply, i) ==
              LET r == Items(c)[i]
                  fields == combine_view_and_fields(r.view, r.fields)
              IN  Regular(r.path) /\ ~BadPattern(r.path) =>
                  /\ (\A path \in Paths : ~Asks(r, path))
                        <=> [path |-> r.path, code |-> 404] \in reply.errors
                  /\ \A path \in Paths : Asks(r, path) /\ "Value" \in fields =>
                        \/ \E e \in reply.errors : e.code = 403
                        \/ /\ path \in DOMAIN reply.results
                           /\ reply.results[path].value = ValDatapoint(EntryAt(path).datapoint)
           Result(c, reply, path) ==
              /\ \E p \in Patterns(c) : Regular(p) => path \in DescribedBy[p]
              /\ reply.results[path].value # None => Readable(c, path)
           Answers(c, reply) ==
              /\ \A i \in DOMAIN Items(c) : Request(c, reply, i)
              /\ \A path \in DOMAIN reply.results : Result(c, reply, path)
              /\ (\E e \in reply.errors : e.code = 403) => reply.results = EmptyMap
<1>1. ASSUME ServicesInv, NEW c \in Clients, Open(c, "get") PROVE Answers(c, GetReply(c))
  <2> DEFINE reply == GetReply(c)
             items == {Items(c)[i] : i \in DOMAIN Items(c)}
             valid == {r \in items : ~BadPattern(r.path)}
             forbidden == {r \in valid : OpError(c, r)}
             shown == {path \in Registered : ResultFields(c, valid, path) # {} /\ forbidden = {}}
             Error_(code, requests) == {[path |-> r.path, code |-> code] : r \in requests}
  <2>1. call[c].status = "Open" /\ call[c].op = "get"
    BY <1>1 DEF Open
  <2>2. RecordOK(call[c], next_id) /\ DOMAIN call[c] = CallFields
    BY <1>1, <2>1, OpenCall, Zenon DEF ServicesInv, RecordOK
  <2>3. /\ reply.errors = Error_(400, items \ valid)
                          \cup Error_(404, {r \in valid : Matching(r.path) = {}})
                          \cup Error_(403, forbidden)
        /\ reply.results = [path \in shown |->
                              proto_entry_from_entry_and_fields(c, path, ResultFields(c, valid, path))]
    BY <2>2, ReplyParts, Zenon
  <2> HIDE DEF reply
  <2>4. \A i \in DOMAIN Items(c) : Items(c)[i].path \in Globs
    BY <2>1, <2>2, RequestGlobs DEF Items, RecordOK
  <2>5. ASSUME NEW glob \in Globs, Regular(glob), ~BadPattern(glob)
        PROVE  MatchedBy[glob] = DescribedBy[glob] /\ MatchedBy[glob] \subseteq Paths
    BY <2>5 DEF GlobsAsDocumented, MatchedBy
  <2> DEFINE unmatched == {r \in valid : Matching(r.path) = {}}
             malformed == items \ valid
  <2>6. /\ (\E e \in reply.errors : e.code = 403) <=> forbidden # {}
        /\ \A p : [path |-> p, code |-> 404] \in reply.errors <=> \E r \in unmatched : r.path = p
    <3>1. reply.errors = Error_(400, malformed) \cup Error_(404, unmatched) \cup Error_(403, forbidden)
      BY <2>3
    <3> HIDE DEF items, valid, forbidden, unmatched, malformed
    <3>2. \A e \in reply.errors :
             \/ e.code = 400
             \/ e.code = 404 /\ \E r \in unmatched : r.path = e.path
             \/ e.code = 403 /\ \E r \in forbidden : r.path = e.path
      BY <3>1
    <3>3. /\ \A r \in unmatched : [path |-> r.path, code |-> 404] \in reply.errors
          /\ \A r \in forbidden : [path |-> r.path, code |-> 403] \in reply.errors
      <4>1. \A r \in unmatched : [path |-> r.path, code |-> 404] \in Error_(404, unmatched)
        BY Zenon
      <4>2. \A r \in forbidden : [path |-> r.path, code |-> 403] \in Error_(403, forbidden)
        BY Zenon
      <4> HIDE DEF Error_
      <4> QED
        BY <3>1, <4>1, <4>2
    <3>4. \A p, n : [path |-> p, code |-> n].code = n /\ [path |-> p, code |-> n].path = p
      OBVIOUS
    <3>5. (\E e \in reply.errors : e.code = 403) <=> forbidden # {}
      <4>1. ASSUME NEW e \in reply.errors, e.code = 403 PROVE forbidden # {}
        BY <3>2, <4>1
      <4>2. ASSUME NEW r \in forbidden PROVE \E e \in reply.errors : e.code = 403
        <5> DEFINE e == [path |-> r.path, code |-> 403]
        <5>1. e \in reply.errors
          BY <3>3
        <5>2. e.code = 403
          OBVIOUS
        <5> HIDE DEF e
        <5> QED
          BY <5>1, <5>2
      <4> QED
        BY <4>1, <4>2
    <3>6. ASSUME NEW p
          PROVE  [path |-> p, code |-> 404] \in reply.errors <=> \E r \in unmatched : r.path = p
      BY <3>2, <3>3, <3>4
    <3> QED
      BY <3>5, <3>6
  <2>7. ASSUME NEW p PROVE [path |-> p, code |-> 404] \in reply.errors
                             <=> \E r \in valid : r.path = p /\ Matching(p) = {}
    BY <2>6
  <2>8. ASSUME NEW i \in DOMAIN Items(c), Regular(Items(c)[i].path), ~BadPattern(Items(c)[i].path)
        PROVE  LET r == Items(c)[i]
               IN  r \in valid /\ \A path \in Paths : Asks(r, path) <=> path \in Matching(r.path)
    BY <2>4, <2>5, <2>8, Zenon DEF Matching
  <2>9. ASSUME NEW i \in DOMAIN Items(c) PROVE Request(c, reply, i)
    <3> DEFINE r == Items(c)[i]
               fields == combine_view_and_fields(r.view, r.fields)
    <3> SUFFICES ASSUME Regular(r.path), ~BadPattern(r.path)
                 PROVE  /\ (\A path \in Paths : ~Asks(r, path))
                              <=> [path |-> r.path, code |-> 404] \in reply.errors
                        /\ \A path \in Paths : Asks(r, path) /\ "Value" \in fields =>
                              \/ \E e \in reply.errors : e.code = 403
                              \/ /\ path \in DOMAIN reply.results
                                 /\ reply.results[path].value = ValDatapoint(EntryAt(path).datapoint)
      OBVIOUS
    <3>1. r \in valid /\ r.path \in Globs
      BY <2>4, <2>8
    <3>2. \A path \in Paths : Asks(r, path) <=> path \in Matching(r.path)
      BY <2>8
    <3>3. Matching(r.path) \subseteq Paths
      BY <2>5, <3>1 DEF Matching
    <3> HIDE DEF valid, Asks, fields, r, forbidden, shown
    <3>4. (\A path \in Paths : ~Asks(r, path)) <=> [path |-> r.path, code |-> 404] \in reply.errors
      BY <2>7, <3>1, <3>2, <3>3
    <3>5. ASSUME NEW path \in Paths, Asks(r, path), "Value" \in fields, forbidden = {}
          PROVE  /\ path \in DOMAIN reply.results
                 /\ reply.results[path].value = ValDatapoint(EntryAt(path).datapoint)
      <4>1. path \in MatchedBy[r.path] /\ path \in Registered /\ path \in Matching(r.path)
        BY <3>2, <3>5 DEF Matching
      <4>2. ~OpError(c, r)
        BY <3>1, <3>5 DEF forbidden
      <4>3. Readable(c, path)
        BY <3>5, <4>1, <4>2 DEF OpError, ReadableFields, fields
      <4>4. "Value" \in ResultFields(c, valid, path)
        BY <3>1, <3>5, <4>1, <4>3, FieldsShown, Zenon DEF fields
      <4>5. path \in shown
        BY <3>5, <4>1, <4>4 DEF shown
      <4>6. reply.results[path] = proto_entry_from_entry_and_fields(c, path, ResultFields(c, valid, path))
        BY <2>3, <4>5
      <4> QED
        BY <2>3, <4>3, <4>4, <4>5, <4>6, ReplyValue, Zenon
    <3> QED
      BY <2>6, <3>4, <3>5
  <2>10. ASSUME NEW path \in DOMAIN reply.results PROVE Result(c, reply, path)
    <3>1. path \in shown
      BY <2>3, <2>10, Zenon
    <3>2. PICK v \in valid : path \in MatchedBy[v.path]
      BY <3>1, ShownIsMatched, ZenonT(30)
    <3>3. v.path \in Patterns(c) /\ v.path \in Globs /\ ~BadPattern(v.path)
      BY <2>4 DEF Patterns
    <3>4. Regular(v.path) => path \in DescribedBy[v.path]
      BY <2>5, <3>2, <3>3
    <3>5. reply.results[path] = proto_entry_from_entry_and_fields(c, path, ResultFields(c, valid, path))
      BY <2>3, <3>1, Zenon
    <3>6. reply.results[path].value # None => Readable(c, path)
      BY <3>5, ReplyValue, Zenon
    <3> QED
      BY <3>3, <3>4, <3>6, Zenon
  <2>11. ASSUME forbidden # {} PROVE reply.results = EmptyMap
    <3>1. shown = {}
      BY <2>11
    <3> HIDE DEF shown, valid
    <3> QED
      BY <2>3, <3>1 DEF EmptyMap
  <2> HIDE DEF forbidden, Request, Result
  <2> QED
    BY <2>6, <2>9, <2>10, <2>11 DEF reply
<1>2. ASSUME ServicesInv, [ServicesNext]_grpcVars
      PROVE  [\A c \in Clients : Ends(c, "get") => Answers(c, call'[c])]_grpcVars
  <2> SUFFICES ASSUME ServicesNext, NEW c \in Clients, Ends(c, "get") PROVE Answers(c, call'[c])
    BY <1>2
  <2>1. call'[c] = GetReply(c) /\ Open(c, "get")
    BY <1>2, GetEnds DEF Ends
  <2> HIDE DEF Answers
  <2> QED
    BY <1>1, <1>2, <2>1, Zenon
<1> QED
  BY <1>2, ServicesInvariant, PTL DEF ServicesSpec, GetAnswersAsDocumented

------------------------------------------------------------------------------
(* What a token permits *)

\* One turn of the loop over the scopes.
Turn(matcher, action, scope) ==
    IF scope.action = action THEN Extend(matcher, scope.path) ELSE matcher

\* g[i] is what the first i scopes make.
Matchers(g, action, scopes, n) ==
    g = [i \in 0..n |-> IF i = 0 THEN Nothing ELSE Turn(g[i - 1], action, scopes[i])]

\* The recursion of BuildMatcher has a solution.
LEMMA MatchersExist ==
    ASSUME NEW action, NEW scopes, NEW m \in Nat
    PROVE  \E g : Matchers(g, action, scopes, m)
<1> DEFINE S == {n \in 0..m : \E g : Matchers(g, action, scopes, n)}
<1>1. 0 \in S
  <2> DEFINE g == [i \in 0..0 |-> Nothing]
  <2>1. Matchers(g, action, scopes, 0)
    BY DEF Matchers
  <2> QED
    BY <2>1
<1>2. ASSUME NEW n \in 1..m, n - 1 \in S PROVE n \in S
  <2>1. PICK g : Matchers(g, action, scopes, n - 1)
    BY <1>2
  <2> DEFINE h == [i \in 0..n |-> IF i = n THEN Turn(g[n - 1], action, scopes[n]) ELSE g[i]]
  <2>2. \A i \in 0..(n - 1) : h[i] = g[i]
    OBVIOUS
  <2>3. ASSUME NEW i \in 0..n
        PROVE  h[i] = IF i = 0 THEN Nothing ELSE Turn(h[i - 1], action, scopes[i])
    <3>1. CASE i = n
      BY <2>2, <3>1
    <3>2. CASE i # n
      <4>1. i \in 0..(n - 1) /\ h[i] = g[i] /\ (i # 0 => h[i - 1] = g[i - 1])
        BY <2>2, <3>2
      <4>2. g[i] = IF i = 0 THEN Nothing ELSE Turn(g[i - 1], action, scopes[i])
        BY <2>1, <4>1, Zenon DEF Matchers
      <4> QED
        BY <4>1, <4>2
    <3> QED
      BY <3>1, <3>2
  <2>4. Matchers(h, action, scopes, n)
    <3>1. h = [i \in 0..n |-> h[i]]
      OBVIOUS
    <3> HIDE DEF h
    <3> QED
      BY <2>3, <3>1, Zenon DEF Matchers
  <2> QED
    BY <2>4
<1> HIDE DEF S
<1>3. m \in S
  BY <1>1, <1>2, UpTo_
<1> QED
  BY <1>3 DEF S

\* Extending a matcher by a path, or by all paths, adds what that matches.
LEMMA ExtendMatches ==
    ASSUME NEW matcher, DOMAIN matcher = {"everything", "globs"}, matcher.everything \in BOOLEAN,
           NEW path
    PROVE  /\ DOMAIN Extend(matcher, path) = {"everything", "globs"}
           /\ Extend(matcher, path).everything \in BOOLEAN
           /\ \A p : MatcherIsMatch(Extend(matcher, path), p)
                        <=> MatcherIsMatch(matcher, p) \/ path = None \/ is_match(path[1], p)
<1>1. CASE matcher.everything \/ path = None
  BY <1>1, Zenon DEF Extend, Everything, MatcherIsMatch
<1>2. CASE ~matcher.everything /\ path # None
  <2> DEFINE e == [matcher EXCEPT !.globs = @ \cup {path[1]}]
  <2>1. Extend(matcher, path) = e
    BY <1>2 DEF Extend
  <2>2. /\ DOMAIN e = {"everything", "globs"} /\ e.everything = matcher.everything
        /\ e.globs = matcher.globs \cup {path[1]}
    OBVIOUS
  <2> HIDE DEF e
  <2> QED
    BY <1>2, <2>1, <2>2 DEF MatcherIsMatch
<1> QED
  BY <1>1, <1>2

\* A matcher matches what some scope of its action matches.
LEMMA MatcherMatches ==
    ASSUME NEW action, NEW scopes, IsList(scopes), NEW p
    PROVE  MatcherIsMatch(BuildMatcher(action, scopes), p)
              <=> \E i \in DOMAIN scopes :
                     scopes[i].action = action /\ (scopes[i].path # None => is_match(scopes[i].path[1], p))
<1> DEFINE n == Len(scopes)
           g == CHOOSE h : Matchers(h, action, scopes, n)
           Hit(i) == scopes[i].action = action /\ (scopes[i].path # None => is_match(scopes[i].path[1], p))
<1>1. n \in Nat /\ DOMAIN scopes = 1..n
  BY DEF IsList
<1>2. Matchers(g, action, scopes, n)
  BY <1>1, MatchersExist
<1>3. BuildMatcher(action, scopes) = g[n]
  BY Zenon DEF BuildMatcher, Matchers, Turn
<1> HIDE DEF g, n
<1>4. \A i \in 0..n : g[i] = IF i = 0 THEN Nothing ELSE Turn(g[i - 1], action, scopes[i])
  BY <1>2, Zenon DEF Matchers
<1> DEFINE Right(i) == /\ DOMAIN g[i] = {"everything", "globs"} /\ g[i].everything \in BOOLEAN
                       /\ MatcherIsMatch(g[i], p) <=> \E k \in 1..i : Hit(k)
           S == {i \in 0..n : Right(i)}
<1> HIDE DEF Hit
<1>5. 0 \in S
  <2>1. 0 \in 0..n /\ g[0] = Nothing
    BY <1>1, <1>4
  <2>2. DOMAIN Nothing = {"everything", "globs"} /\ Nothing.everything = FALSE /\ Nothing.globs = {}
    BY DEF Nothing
  <2>3. ~MatcherIsMatch(g[0], p)
    BY <2>1, <2>2 DEF MatcherIsMatch
  <2>4. ~\E k \in 1..0 : Hit(k)
    OBVIOUS
  <2> QED
    BY <2>1, <2>2, <2>3, <2>4, Zenon
<1>6. ASSUME NEW i \in 1..n, i - 1 \in S PROVE i \in S
  <2>1. g[i] = Turn(g[i - 1], action, scopes[i]) /\ i \in 0..n /\ Right(i - 1)
    BY <1>1, <1>4, <1>6
  <2>2. (\E k \in 1..i : Hit(k)) <=> (\E k \in 1..(i - 1) : Hit(k)) \/ Hit(i)
    <3>1. \A k \in 1..i : k \in 1..(i - 1) \/ k = i
      OBVIOUS
    <3>2. \A k \in 1..(i - 1) : k \in 1..i
      OBVIOUS
    <3> QED
      BY <3>1, <3>2
  <2>3. CASE scopes[i].action = action
    <3>1. g[i] = Extend(g[i - 1], scopes[i].path)
      BY <2>1, <2>3 DEF Turn
    <3>2. /\ DOMAIN g[i] = {"everything", "globs"} /\ g[i].everything \in BOOLEAN
          /\ MatcherIsMatch(g[i], p)
                <=> MatcherIsMatch(g[i - 1], p) \/ scopes[i].path = None \/ is_match(scopes[i].path[1], p)
      <4> DEFINE m == g[i - 1]
      <4>1. DOMAIN m = {"everything", "globs"} /\ m.everything \in BOOLEAN
        BY <2>1
      <4> HIDE DEF m
      <4>2. /\ DOMAIN Extend(m, scopes[i].path) = {"everything", "globs"}
            /\ Extend(m, scopes[i].path).everything \in BOOLEAN
            /\ \A q : MatcherIsMatch(Extend(m, scopes[i].path), q)
                         <=> MatcherIsMatch(m, q) \/ scopes[i].path = None \/ is_match(scopes[i].path[1], q)
        BY <4>1, ExtendMatches, Zenon
      <4> QED
        BY <3>1, <4>2, Zenon DEF m
    <3>3. Hit(i) <=> scopes[i].path = None \/ is_match(scopes[i].path[1], p)
      BY <2>3 DEF Hit
    <3> QED
      BY <2>1, <2>2, <3>2, <3>3, Zenon
  <2>4. CASE scopes[i].action # action
    <3>1. g[i] = g[i - 1] /\ ~Hit(i)
      BY <2>1, <2>4 DEF Turn, Hit
    <3> QED
      BY <2>1, <2>2, <3>1, Zenon
  <2> QED
    BY <2>3, <2>4
<1>7. n \in S
  <2> HIDE DEF S
  <2> QED
    BY <1>1, <1>5, <1>6, UpTo_
<1> QED
  BY <1>1, <1>3, <1>7 DEF Hit

\* The way of authorization stays what it was at the start.
LEMMA AuthorizationKept ==
    ASSUME [ServicesNext]_grpcVars
    PROVE  authorization' = authorization
  BY ClientStep DEF ServicesNext, Call, Shutdown, grpcVars

\* Only a new call counts as a call.
LEMMA CallCounts ==
    ASSUME ServicesNext, calls_made' # calls_made
    PROVE  \E c \in Clients : Call(c)
  BY ClientStep, Zenon DEF ServicesNext, Shutdown

\* The paths an action is granted are those its scopes describe.
LEMMA ScopesDecide ==
    ASSUME ScopesAsDocumented, NEW i \in DOMAIN Requests,
           Requests[i].header.kind = "Bearer", parse_whitespace_separated(Requests[i].header.token.scope),
           NEW action, NEW path \in Paths
    PROVE  MatcherIsMatch(BuildMatcher(action, Requests[i].header.token.scope), path)
              <=> ScopesGrant(Requests[i].header.token.scope, action, path)
<1> DEFINE scope == Requests[i].header.token.scope
<1>1. IsList(scope)
  BY RequestsAssumption, Zenon
<1>2. \A k \in DOMAIN scope : scope[k].path # None =>
         (is_match(scope[k].path[1], path) <=> Documented(scope[k].path[1], path))
  BY DEF ScopesAsDocumented
<1> HIDE DEF scope
<1>3. MatcherIsMatch(BuildMatcher(action, scope), path)
         <=> \E k \in DOMAIN scope :
                scope[k].action = action /\ (scope[k].path # None => is_match(scope[k].path[1], path))
  BY <1>1, MatcherMatches
<1> QED
  BY <1>2, <1>3, Zenon DEF ScopesGrant, scope

\* The permissions of a request that is handled are what the scopes of its
\* token describe, where their patterns match what the documentation says.
THEOREM TokensDoGrant == ScopesAsDocumented => (ServicesSpec => TokensGrantTheirScopes)
<1> SUFFICES ASSUME ScopesAsDocumented PROVE ServicesSpec => TokensGrantTheirScopes
  OBVIOUS
<1> DEFINE Grants(c) ==
       LET header == Requests[call'[c].request].header
           perm == Perm(c)'
           scope == header.token.scope
       IN  call'[c].status # "Unauthenticated" =>
              /\ header.kind = "Bearer"
              /\ \A path \in Paths :
                    /\ path \in perm.read <=> ScopesGrant(scope, "read", path)
                    /\ path \in perm.actuate <=> ScopesGrant(scope, "actuate", path)
                    /\ path \in perm.provide <=> ScopesGrant(scope, "provide", path)
                    /\ path \in perm.create <=> ScopesGrant(scope, "create", path)
              /\ header.token.age = "Leeway" => perm.expired
           Mode == authorization \in AuthorizationModes
<1>1. GrpcInit => Mode
  BY DEF GrpcInit
<1>2. Mode /\ [ServicesNext]_grpcVars => Mode'
  BY AuthorizationKept, Zenon
<1>3. ASSUME ServicesInv, Mode, [ServicesNext]_grpcVars
      PROVE  [\A c \in Clients : calls_made' # calls_made /\ call'[c] # call[c]
                                   /\ authorization = "Enabled" => Grants(c)]_grpcVars
  <2> SUFFICES ASSUME ServicesNext, NEW c \in Clients, calls_made' # calls_made, call'[c] # call[c],
                      authorization = "Enabled", call'[c].status # "Unauthenticated"
               PROVE  LET header == Requests[call'[c].request].header
                          perm == Perm(c)'
                          scope == header.token.scope
                      IN  /\ header.kind = "Bearer"
                          /\ \A path \in Paths :
                                /\ path \in perm.read <=> ScopesGrant(scope, "read", path)
                                /\ path \in perm.actuate <=> ScopesGrant(scope, "actuate", path)
                                /\ path \in perm.provide <=> ScopesGrant(scope, "provide", path)
                                /\ path \in perm.create <=> ScopesGrant(scope, "create", path)
                          /\ header.token.age = "Leeway" => perm.expired
    BY <1>3, Zenon
  <2>1. PICK d \in Clients : Call(d)
    BY CallCounts, Zenon
  <2>2. d = c
    BY <1>3, <2>1, StepOfClient, Zenon DEF ServicesInv, CallsOK
  <2>3. PICK i \in DOMAIN Requests : call' = [call EXCEPT ![c] = Incoming(i)]
    BY <2>1, <2>2, Zenon DEF Call
  <2>4. call'[c] = Incoming(i) /\ authorization' = authorization
    BY <1>3, <2>3, AuthorizationKept DEF ServicesInv, CallsOK
  <2> DEFINE header == Requests[i].header
             perm == Perm(c)'
             token == header.token
             permissions == PermissionsOf(token, Paths)
  <2>5. /\ call'[c].request = i /\ call'[c].expired = FALSE
        /\ Intercepted[authorization][i] = None => call'[c].status = "Unauthenticated"
    BY <2>4 DEF Incoming
  <2>6. Intercepted[authorization][i] = Interceptor("Enabled", header, Paths)
    BY <1>3 DEF Intercepted
  <2>7. Interceptor("Enabled", header, Paths) # None
    BY <2>5, <2>6, Zenon
  <2>8. /\ header.kind = "Bearer" /\ parse_whitespace_separated(token.scope)
        /\ Interceptor("Enabled", header, Paths) = Some(permissions)
    BY <2>7 DEF Interceptor
  <2>9. Perm(c)' = [permissions EXCEPT !.expired = @ \/ FALSE]
    <3>1. Some(permissions)[1] = permissions
      BY Zenon DEF Some
    <3> HIDE DEF permissions
    <3> QED
      BY <2>4, <2>5, <2>6, <2>8, <3>1, Zenon DEF Perm
  <2> DEFINE Matched(action) == {p \in Paths : MatcherIsMatch(BuildMatcher(action, token.scope), p)}
  <2>10. permissions = [read |-> Matched("read"), actuate |-> Matched("actuate"),
                        provide |-> Matched("provide"), create |-> Matched("create"),
                        expired |-> token.age # "Valid"]
    BY Zenon DEF PermissionsOf
  <2>11. \A action : \A path \in Paths : path \in Matched(action) <=> ScopesGrant(token.scope, action, path)
    BY <2>8, ScopesDecide
  <2>a. perm = [permissions EXCEPT !.expired = @ \/ FALSE]
    BY <2>9
  <2> HIDE DEF Matched, permissions, perm
  <2>12. /\ perm.read = Matched("read") /\ perm.actuate = Matched("actuate")
         /\ perm.provide = Matched("provide") /\ perm.create = Matched("create")
         /\ token.age = "Leeway" => perm.expired
    BY <2>a, <2>10, ZenonT(30)
  <2> QED
    BY <2>5, <2>8, <2>11, <2>12, Zenon DEF perm
<1> QED
  BY <1>1, <1>2, <1>3, ServicesInvariant, PTL DEF ServicesSpec, TokensGrantTheirScopes

------------------------------------------------------------------------------
(* What the files say *)

PathsIn(a, i) == {n.path : n \in NodesOf(FileLists[a][i])}

NodeIn(a, i, path) == (CHOOSE n \in NodesOf(FileLists[a][i]) : n.path = path).node

FirstIn(a, path) ==
    CHOOSE i \in DOMAIN FileLists[a] :
        /\ \E n \in NodesOf(FileLists[a][i]) : n.path = path
        /\ \A j \in 1..(i - 1) : \A n \in NodesOf(FileLists[a][j]) : n.path # path

LeafIn(a, path) == NodeIn(a, FirstIn(a, path), path)

\* e is what the i-th file says of its path.
AsWritten(e, a, i) ==
    LET node == NodeIn(a, i, e.path)
    IN  /\ e.path \in PathsIn(a, i)
        /\ e.data_type = node.datatype[1] /\ e.entry_type = node.type
        /\ IF node.allowed = None THEN e.allowed = None
           ELSE e.allowed[1].array /\ e.allowed[1].elem = Carrier(node.datatype[1].elem)

\* What is still to be loaded comes from the attributes, then from one file.
LoadOK(stg, a, k, load) ==
    /\ IsList(load)
    /\ stg = "attributes" => k = 0 /\ \A l \in DOMAIN load : \E i \in DOMAIN KuksaAttributes :
                                           load[l] = KuksaAttributes[i]
    /\ stg = "files" => k \in DOMAIN FileLists[a] /\ \A l \in DOMAIN load : AsWritten(load[l], a, k)

\* An attribute of the broker is registered, or still to be.
OwnOK(stg, ids, load) ==
    \A path \in OwnPaths :
        path \in DOMAIN ids \/ (stg = "attributes" /\ \E l \in DOMAIN load : load[l].path = path)

\* What is registered is what was written first.
TypesOK(a, ids, es) ==
    \A path \in DOMAIN ids :
        LET m == es[ids[path]].metadata
            leaf == LeafIn(a, path)
        IN  IF path \in OwnPaths THEN m.entry_type = "Attribute" /\ m.data_type.elem = "String"
            ELSE ~Refused(leaf) => m.data_type = leaf.datatype[1] /\ m.entry_type = leaf.type

\* What the first k files say is registered, or still to be and in none of the
\* files before.
PendingOK(a, k, ids, load) ==
    \A i \in 1..k : \A path \in PathsIn(a, i) \cap (ValidPaths \ OwnPaths) :
        ~Refused(LeafIn(a, path)) =>
            \/ path \in DOMAIN ids
            \/ /\ \E l \in DOMAIN load : load[l].path = path
               /\ \A j \in 1..(k - 1) : path \notin PathsIn(a, j)

Loading == stage \in {"attributes", "files"}

\* The loader, up to the moment at which the broker serves; until then there
\* are no calls.
StartupInv ==
    /\ argument \in DOMAIN FileLists
    /\ Loading =>
          /\ \A c \in Clients : call[c] = NoCall
          /\ files_read \in Nat /\ files_read <= Len(Files)
          /\ LoadOK(stage, argument, files_read, loading)
          /\ OwnOK(stage, path_to_id, loading)
          /\ TypesOK(argument, path_to_id, entries)
          /\ PendingOK(argument, files_read, path_to_id, loading)

\* The broker's own attributes.
LEMMA AttributeFacts ==
    /\ IsList(KuksaAttributes)
    /\ \A i \in DOMAIN KuksaAttributes :
          LET e == KuksaAttributes[i]
          IN  /\ e.path \in OwnPaths /\ e.path \in ValidPaths /\ e.path \in Paths
              /\ e.allowed = None /\ e.entry_type = "Attribute" /\ e.data_type.elem = "String"
    /\ \A path \in OwnPaths : \E i \in DOMAIN KuksaAttributes : KuksaAttributes[i].path = path
<1>1. IsList(KuksaAttributes)
  <2>1. PICK x, y, z : KuksaAttributes = << x, y, z >>
    BY Zenon DEF KuksaAttributes
  <2> QED
    BY <2>1 DEF IsList
<1>2. \A i \in DOMAIN KuksaAttributes :
         LET e == KuksaAttributes[i]
         IN  e.allowed = None /\ e.entry_type = "Attribute" /\ e.data_type.elem = "String"
  BY DEF KuksaAttributes
<1>3. \A i \in DOMAIN KuksaAttributes : KuksaAttributes[i].path \in OwnPaths
  BY DEF OwnPaths
<1>4. \A path \in OwnPaths : \E i \in DOMAIN KuksaAttributes : KuksaAttributes[i].path = path
  BY DEF OwnPaths
<1> QED
  BY <1>1, <1>2, <1>3, <1>4, OwnPathsAssumption, PathsAssumption

\* What `add` answers to `main`.
LEMMA RootAdds ==
    ASSUME NEW path, NEW m
    PROVE  /\ AddResult(Root, path, m) = "Ok" => path \in ValidPaths /\ path \notin DOMAIN path_to_id
           /\ path \in ValidPaths /\ path \in DOMAIN path_to_id => AddResult(Root, path, m) = "Exists"
           /\ (/\ path \in ValidPaths /\ path \notin DOMAIN path_to_id
               /\ validate_allowed_type(m.data_type, m.allowed) = "Ok") => AddResult(Root, path, m) = "Ok"
<1>1. path \in ValidPaths => can_create(Root, path) = "Ok"
  BY PathsAssumption DEF can_create, Granted, Root, ALLOW_ALL
<1>2. Denial("Ok") = "Ok"
  BY Zenon DEF Denial
<1> QED
  BY <1>1, <1>2 DEF AddResult, AndThen

\* What a leaf becomes.
LEMMA LeafWritten ==
    ASSUME NEW node, LeafEntry(node).ok, node.datatype # None => node.datatype[1] \in DataType
    PROVE  LET e == LeafEntry(node).value
           IN  /\ e.data_type = node.datatype[1] /\ e.entry_type = node.type
               /\ IF node.allowed = None THEN e.allowed = None
                  ELSE e.allowed[1].array /\ e.allowed[1].elem = Carrier(node.datatype[1].elem)
<1> DEFINE data_type == node.datatype[1]
           allowed == try_from_json_array(node.allowed, data_type)
           change == determine_change_type(node.changetype, node.type)
<1>1. /\ allowed.ok /\ node.datatype # None
      /\ \E default : LeafEntry(node).value =
            [data_type |-> data_type, entry_type |-> node.type, change_type |-> change,
             allowed |-> allowed.value, default |-> default]
  <2> DEFINE d == IF node.type = "Attribute" THEN node.default ELSE None
             parsed == << try_from_json_value(node.min, data_type), try_from_json_value(node.max, data_type),
                          allowed, try_from_json_value(d, data_type) >>
  <2>1. LeafEntry(node) =
           IF node.datatype = None \/ \E i \in DOMAIN parsed : ~parsed[i].ok THEN Error
           ELSE Ok([data_type |-> data_type, entry_type |-> node.type, change_type |-> change,
                    allowed |-> parsed[3].value, default |-> parsed[4].value])
    BY Zenon DEF LeafEntry
  <2>2. 3 \in DOMAIN parsed /\ parsed[3] = allowed
    OBVIOUS
  <2> HIDE DEF parsed, allowed, data_type, change
  <2>3. ~Error.ok
    BY Zenon DEF Error
  <2>4. node.datatype # None /\ ~\E i \in DOMAIN parsed : ~parsed[i].ok
    BY <2>1, <2>3, Zenon
  <2>5. LeafEntry(node).value = [data_type |-> data_type, entry_type |-> node.type, change_type |-> change,
                                 allowed |-> parsed[3].value, default |-> parsed[4].value]
    BY <2>1, <2>3 DEF Ok
  <2> QED
    BY <2>2, <2>4, <2>5, Zenon
<1>2. node.allowed = None => allowed.value = None
  BY DEF try_from_json_array, try_from_json_value, Ok
<1>3. node.allowed # None =>
         allowed.value[1].array /\ allowed.value[1].elem = Carrier(data_type.elem)
  <2> SUFFICES ASSUME node.allowed # None
               PROVE  allowed.value[1].array /\ allowed.value[1].elem = Carrier(data_type.elem)
    OBVIOUS
  <2> DEFINE dt == [data_type EXCEPT !.array = TRUE]
  <2>1. allowed = try_from_json_value(node.allowed, dt)
    BY DEF try_from_json_array
  <2>2. dt.array = TRUE /\ dt.elem = data_type.elem
    BY <1>1 DEF DataType
  <2> HIDE DEF dt, allowed, data_type
  <2>3. PICK s : allowed = Ok(Some(Array(Carrier(dt.elem), s))) \/ allowed = Error
    BY <2>1, <2>2, ZenonT(30) DEF try_from_json_value
  <2>4. allowed.value = Some(Array(Carrier(dt.elem), s))
    BY <1>1, <2>3 DEF Ok, Error
  <2> QED
    BY <2>2, <2>4 DEF Some, Array
<1> HIDE DEF allowed, data_type, change
<1> QED
  BY <1>1, <1>2, <1>3 DEF data_type

\* A function on 1..n is a list.
LEMMA ListOf ==
    ASSUME NEW n \in Nat, NEW f, f = [k \in 1..n |-> f[k]]
    PROVE  IsList(f)
<1> DEFINE R == {f[k] : k \in DOMAIN f}
<1>1. f \in [1..n -> R]
  OBVIOUS
<1> HIDE DEF R
<1>2. f \in Seq(R)
  BY <1>1
<1> QED
  BY <1>2 DEF IsList, R

\* The entries of a file that can be read are listed as they are written, all
\* of them.
LEMMA FileEntries ==
    ASSUME NEW a \in DOMAIN FileLists, NEW i \in DOMAIN FileLists[a], flatten_vss_tree(FileLists[a][i]).ok
    PROVE  LET list == InOrder(flatten_vss_tree(FileLists[a][i]).value)
           IN  /\ IsList(list)
               /\ \A l \in DOMAIN list : AsWritten(list[l], a, i)
               /\ \A path \in PathsIn(a, i) : \E l \in DOMAIN list : list[l].path = path
<1> DEFINE nodes == NodesOf(FileLists[a][i])
           parsed == flatten_vss_tree(FileLists[a][i])
           paths == PathsIn(a, i)
           v == parsed.value
           Chosen(p) == CHOOSE n \in nodes : n.path = p
           m == Cardinality(paths)
           order == CHOOSE o \in [1..m -> paths] : {o[k] : k \in DOMAIN o} = paths
           list == InOrder(v)
<1>1. /\ \A n \in nodes : add_entry(n).ok
      /\ v = [p \in paths |-> add_entry(Chosen(p)).value]
  <2>1. parsed = IF \E n \in nodes : ~add_entry(n).ok THEN Error
                 ELSE Ok([p \in paths |-> add_entry(Chosen(p)).value])
    BY Zenon DEF flatten_vss_tree, PathsIn
  <2> HIDE DEF nodes, parsed, paths, Chosen
  <2>2. parsed.ok
    BY DEF parsed
  <2> QED
    BY <2>1, <2>2 DEF Ok, Error
<1>2. IsFiniteSet(paths) /\ \A n \in nodes : n.node.datatype # None => n.node.datatype[1] \in DataType
  BY FilesAssumption DEF PathsIn
<1>3. \A p \in paths : Chosen(p) \in nodes /\ Chosen(p).path = p
  BY DEF PathsIn
<1> HIDE DEF nodes, parsed, Chosen, v
<1>4. m \in Nat /\ order \in [1..m -> paths] /\ {order[k] : k \in DOMAIN order} = paths
  <2> HIDE DEF paths
  <2>1. m \in Nat /\ ExistsBijection(1..m, paths)
    BY <1>2, FS_CardinalityType
  <2> HIDE DEF m
  <2>2. PICK b \in [1..m -> paths] : \A p \in paths : \E k \in 1..m : b[k] = p
    BY <2>1 DEF ExistsBijection, Bijection, Surjection
  <2>3. {b[k] : k \in DOMAIN b} = paths
    BY <2>2
  <2>4. \E o \in [1..m -> paths] : {o[k] : k \in DOMAIN o} = paths
    BY <2>3, Zenon
  <2> QED
    BY <2>1, <2>4, Zenon
<1>5. list = [k \in DOMAIN order |->
                [path |-> order[k], default |-> v[order[k]].default,
                 allowed |-> v[order[k]].allowed, data_type |-> v[order[k]].data_type,
                 entry_type |-> v[order[k]].entry_type, change_type |-> v[order[k]].change_type]]
  <2>1. DOMAIN v = paths
    BY <1>1
  <2> QED
    BY <2>1, Zenon DEF InOrder
<1> HIDE DEF m, order, list
<1>6. IsList(list) /\ DOMAIN list = 1..m
  <2>1. DOMAIN order = 1..m
    BY <1>4, Zenon
  <2>2. DOMAIN list = 1..m /\ list = [k \in DOMAIN list |-> list[k]]
    BY <1>5, <2>1, Zenon
  <2> QED
    BY <1>4, <2>2, ListOf
<1>7. ASSUME NEW l \in DOMAIN list PROVE AsWritten(list[l], a, i)
  <2> DEFINE p == order[l]
             n == Chosen(p)
  <2>1. p \in paths /\ n \in nodes /\ n.path = p
    BY <1>3, <1>4, <1>6, <1>7, Zenon
  <2>2. add_entry(n).ok /\ v[p] = add_entry(n).value
    BY <1>1, <2>1
  <2>3. ~Error.ok
    BY DEF Error
  <2>4. LeafEntry(n.node).ok /\ v[p] = LeafEntry(n.node).value
    BY <2>2, <2>3, Zenon DEF add_entry
  <2>5. /\ v[p].data_type = n.node.datatype[1] /\ v[p].entry_type = n.node.type
        /\ IF n.node.allowed = None THEN v[p].allowed = None
           ELSE v[p].allowed[1].array /\ v[p].allowed[1].elem = Carrier(n.node.datatype[1].elem)
    <3> HIDE DEF p, n
    <3> QED
      BY <1>2, <2>1, <2>4, LeafWritten, Zenon
  <2>6. /\ list[l].path = p /\ list[l].data_type = v[p].data_type
        /\ list[l].entry_type = v[p].entry_type /\ list[l].allowed = v[p].allowed
    BY <1>4, <1>5, <1>6, <1>7
  <2>7. NodeIn(a, i, p) = n.node
    BY Zenon DEF NodeIn, Chosen, nodes
  <2> HIDE DEF p, n
  <2> QED
    BY <2>1, <2>5, <2>6, <2>7, Zenon DEF AsWritten
<1>8. ASSUME NEW path \in paths PROVE \E l \in DOMAIN list : list[l].path = path
  <2>1. PICK k \in DOMAIN order : order[k] = path
    BY <1>4, <1>8
  <2> QED
    BY <1>5, <2>1
<1> QED
  BY <1>6, <1>7, <1>8, Zenon DEF list, v, parsed

\* The files are numbered from 1.
LEMMA FileNumbers ==
    ASSUME NEW a \in DOMAIN FileLists
    PROVE  Len(FileLists[a]) \in Nat /\ DOMAIN FileLists[a] = 1..Len(FileLists[a])
<1> DEFINE s == FileLists[a]
<1>1. IsList(s)
  BY FilesAssumption
<1> HIDE DEF s
<1>2. Len(s) \in Nat /\ DOMAIN s = 1..Len(s)
  BY <1>1 DEF IsList
<1> QED
  BY <1>2 DEF s

\* The first file that names a path.
LEMMA FirstFile ==
    ASSUME NEW a \in DOMAIN FileLists, NEW path, NEW i \in DOMAIN FileLists[a], path \in PathsIn(a, i),
           \A j \in 1..(i - 1) : path \notin PathsIn(a, j)
    PROVE  FirstIn(a, path) = i
<1> DEFINE P(k) == /\ \E n \in NodesOf(FileLists[a][k]) : n.path = path
                   /\ \A j \in 1..(k - 1) : \A n \in NodesOf(FileLists[a][j]) : n.path # path
<1>1. DOMAIN FileLists[a] \subseteq Nat \ {0} /\ i \in Nat
  BY FileNumbers
<1>2. P(i)
  BY DEF PathsIn
<1>3. ASSUME NEW k \in DOMAIN FileLists[a], P(k) PROVE k = i
  <2>1. ~(k < i)
    BY <1>1, <1>2, <1>3
  <2>2. ~(i < k)
    BY <1>1, <1>2, <1>3
  <2> QED
    BY <1>1, <2>1, <2>2
<1>4. FirstIn(a, path) = CHOOSE k \in DOMAIN FileLists[a] : P(k)
  BY DEF FirstIn
<1> HIDE DEF P
<1> QED
  BY <1>2, <1>3, <1>4

\* What a list is without its first element.
LEMMA ListTail ==
    ASSUME NEW s, IsList(s), s # << >>
    PROVE  /\ 1 \in DOMAIN s /\ Head(s) = s[1] /\ IsList(Tail(s))
           /\ \A l \in DOMAIN Tail(s) : \E k \in DOMAIN s : Tail(s)[l] = s[k]
           /\ \A k \in DOMAIN s : s[k] = Head(s) \/ \E l \in DOMAIN Tail(s) : Tail(s)[l] = s[k]
<1>1. Len(s) \in Nat /\ Len(s) > 0 /\ DOMAIN s = 1..Len(s) /\ Head(s) = s[1]
  BY DEF IsList
<1>2. DOMAIN Tail(s) = 1..(Len(s) - 1) /\ \A l \in 1..(Len(s) - 1) : Tail(s)[l] = s[l + 1]
  BY <1>1 DEF IsList
<1>3. IsList(Tail(s))
  <2> DEFINE t == Tail(s)
             n == Len(s) - 1
  <2>1. n \in Nat /\ t \in Seq({s[i] : i \in DOMAIN s}) /\ DOMAIN t = 1..n
    BY <1>1, <1>2 DEF IsList
  <2> HIDE DEF t, n
  <2>2. t = [l \in 1..n |-> t[l]]
    BY <2>1
  <2>3. IsList(t)
    BY <2>1, <2>2, ListOf
  <2> QED
    BY <2>3 DEF t
<1>4. ASSUME NEW k \in DOMAIN s PROVE s[k] = Head(s) \/ \E l \in DOMAIN Tail(s) : Tail(s)[l] = s[k]
  <2>1. CASE k = 1
    BY <1>1, <2>1
  <2>2. CASE k # 1
    <3>1. k - 1 \in DOMAIN Tail(s) /\ Tail(s)[k - 1] = s[k]
      BY <1>1, <1>2, <2>2
    <3> QED
      BY <3>1
  <2> QED
    BY <2>1, <2>2
<1>5. ASSUME NEW l \in DOMAIN Tail(s) PROVE \E k \in DOMAIN s : Tail(s)[l] = s[k]
  <2>1. l + 1 \in DOMAIN s /\ Tail(s)[l] = s[l + 1]
    BY <1>1, <1>2, <1>5
  <2> QED
    BY <2>1
<1> QED
  BY <1>1, <1>3, <1>4, <1>5

------------------------------------------------------------------------------
(* The loader's steps *)

\* What a file says is taken, unless it is refused.
LEMMA Taken ==
    ASSUME NEW a, NEW k, NEW e, AsWritten(e, a, k), ~Refused(NodeIn(a, k, e.path))
    PROVE  validate_allowed_type(e.data_type, e.allowed) = "Ok"
<1> DEFINE node == NodeIn(a, k, e.path)
<1>1. /\ e.data_type = node.datatype[1]
      /\ IF node.allowed = None THEN e.allowed = None
         ELSE e.allowed[1].array /\ e.allowed[1].elem = Carrier(node.datatype[1].elem)
  BY DEF AsWritten
<1>2. node.allowed = None \/ node.datatype[1].elem \notin NarrowTypes
  BY DEF Refused
<1> HIDE DEF node
<1>3. ASSUME NEW elem, elem \notin NarrowTypes PROVE Carrier(elem) = elem
  BY <1>3, Zenon DEF Carrier, NarrowTypes
<1>4. CASE node.allowed = None
  BY <1>1, <1>4, Zenon DEF validate_allowed_type
<1>5. CASE node.allowed # None
  BY <1>1, <1>2, <1>3, <1>5, Zenon DEF validate_allowed_type
<1> QED
  BY <1>4, <1>5, Zenon

\* The entry that is loaded next is registered, was registered before, or is refused.
LEMMA HeadLoaded ==
    ASSUME StartupInv, LoadEntry
    PROVE  LET e == Head(loading)
           IN  /\ 1 \in DOMAIN loading /\ e = loading[1]
               /\ \/ /\ e.path \in ValidPaths /\ e.path \notin DOMAIN path_to_id
                     /\ path_to_id' = Insert(path_to_id, e.path, next_id)
                     /\ entries' = Insert(entries, next_id,
                          NewEntry(next_id, e.path, [data_type |-> e.data_type, entry_type |-> e.entry_type,
                                                     change_type |-> e.change_type, allowed |-> e.allowed]))
                  \/ /\ UNCHANGED << path_to_id, entries >>
                     /\ \/ e.path \in DOMAIN path_to_id
                        \/ e.path \notin ValidPaths
                        \/ validate_allowed_type(e.data_type, e.allowed) # "Ok"
<1> DEFINE e == Head(loading)
           m == [data_type |-> e.data_type, entry_type |-> e.entry_type,
                 change_type |-> e.change_type, allowed |-> e.allowed]
<1>1. 1 \in DOMAIN loading /\ e = loading[1]
  BY ListTail, ZenonT(30) DEF StartupInv, Loading, LoadOK, LoadEntry
<1>2. add(Root, e.path, m)
  BY Zenon DEF LoadEntry, AddEntry
<1>3. m.data_type = e.data_type /\ m.allowed = e.allowed
  BY ZenonT(30)
<1> HIDE DEF e, m
<1>4. CASE AddResult(Root, e.path, m) = "Ok"
  BY <1>1, <1>2, <1>4, RootAdds, Zenon DEF add, e, m
<1>5. CASE AddResult(Root, e.path, m) # "Ok"
  <2>1. UNCHANGED << path_to_id, entries >>
    BY <1>2, <1>5, Zenon DEF add, dbVars
  <2>2. \/ e.path \in DOMAIN path_to_id
        \/ e.path \notin ValidPaths
        \/ validate_allowed_type(e.data_type, e.allowed) # "Ok"
    BY <1>3, <1>5, RootAdds, Zenon
  <2> QED
    BY <1>1, <2>1, <2>2, Zenon DEF e
<1> QED
  BY <1>4, <1>5, ZenonT(30)

\* The loop over the entries keeps what it has loaded, and forgets none.
LEMMA LoadEntryKeeps ==
    ASSUME ServicesInv, StartupInv, LoadEntry, call' = call, DbGrows
    PROVE  StartupInv'
<1> DEFINE e == Head(loading)
           a == argument
           k == files_read
<1>1. /\ stage \in {"attributes", "files"} /\ IsList(loading) /\ loading # << >> /\ loading' = Tail(loading)
      /\ a \in DOMAIN FileLists /\ a' = a /\ k' = k /\ stage' = stage /\ k \in Nat
      /\ LoadOK(stage, a, k, loading) /\ OwnOK(stage, path_to_id, loading)
      /\ TypesOK(a, path_to_id, entries) /\ PendingOK(a, k, path_to_id, loading)
  BY Zenon DEF StartupInv, Loading, LoadOK, LoadEntry
<1>2. /\ 1 \in DOMAIN loading /\ e = loading[1] /\ IsList(loading')
      /\ \A l \in DOMAIN loading' : \E i \in DOMAIN loading : loading'[l] = loading[i]
      /\ \A i \in DOMAIN loading : loading[i] = e \/ \E l \in DOMAIN loading' : loading'[l] = loading[i]
  BY <1>1, ListTail
<1>3. \/ /\ e.path \in ValidPaths /\ e.path \notin DOMAIN path_to_id
         /\ path_to_id' = Insert(path_to_id, e.path, next_id)
         /\ entries' = Insert(entries, next_id,
              NewEntry(next_id, e.path, [data_type |-> e.data_type, entry_type |-> e.entry_type,
                                         change_type |-> e.change_type, allowed |-> e.allowed]))
      \/ /\ UNCHANGED << path_to_id, entries >>
         /\ \/ e.path \in DOMAIN path_to_id
            \/ e.path \notin ValidPaths
            \/ validate_allowed_type(e.data_type, e.allowed) # "Ok"
  BY HeadLoaded, ZenonT(30)
<1>4. DOMAIN path_to_id \subseteq DOMAIN path_to_id'
  BY DEF DbGrows, RegistrationKept
<1> HIDE DEF e
<1>5. e.path \in ValidPaths /\ validate_allowed_type(e.data_type, e.allowed) = "Ok" => e.path \in DOMAIN path_to_id'
  BY <1>3, <1>4, Zenon DEF Insert
<1>6. LoadOK(stage, a, k, loading')
  BY <1>1, <1>2 DEF LoadOK
<1>7. stage = "attributes" => e.path \in OwnPaths /\ e.path \in DOMAIN path_to_id'
                              /\ e.entry_type = "Attribute" /\ e.data_type.elem = "String"
  <2> SUFFICES ASSUME stage = "attributes"
               PROVE  e.path \in OwnPaths /\ e.path \in DOMAIN path_to_id'
                      /\ e.entry_type = "Attribute" /\ e.data_type.elem = "String"
    BY Zenon
  <2>1. PICK i \in DOMAIN KuksaAttributes : e = KuksaAttributes[i]
    BY <1>1, <1>2, Zenon DEF LoadOK
  <2>2. e.path \in OwnPaths /\ e.path \in ValidPaths /\ e.allowed = None
        /\ e.entry_type = "Attribute" /\ e.data_type.elem = "String"
    BY <2>1, AttributeFacts, Zenon
  <2> QED
    BY <1>5, <2>2, Zenon DEF validate_allowed_type
<1>8. OwnOK(stage, path_to_id', loading')
  <2> SUFFICES ASSUME NEW path \in OwnPaths, path \notin DOMAIN path_to_id'
               PROVE  stage = "attributes" /\ \E l \in DOMAIN loading' : loading'[l].path = path
    BY DEF OwnOK
  <2>1. stage = "attributes" /\ \E l \in DOMAIN loading : loading[l].path = path
    BY <1>1, <1>4, Zenon DEF OwnOK
  <2> QED
    BY <1>2, <1>7, <2>1, Zenon
<1>9. stage = "files" => AsWritten(e, a, k) /\ k \in DOMAIN FileLists[a]
  BY <1>1, <1>2, Zenon DEF LoadOK
<1>10. ASSUME \A j \in 1..(k - 1) : e.path \notin PathsIn(a, j), stage = "files"
       PROVE  LeafIn(a, e.path) = NodeIn(a, k, e.path)
  <2>1. e.path \in PathsIn(a, k)
    BY <1>9, <1>10, Zenon DEF AsWritten
  <2>2. FirstIn(a, e.path) = k
    BY <1>1, <1>9, <1>10, <2>1, FirstFile, Zenon
  <2> QED
    BY <2>2, Zenon DEF LeafIn
<1>11. PendingOK(a, k, path_to_id', loading')
  <2> SUFFICES ASSUME NEW i \in 1..k, NEW path \in PathsIn(a, i) \cap (ValidPaths \ OwnPaths),
                      ~Refused(LeafIn(a, path)), path \notin DOMAIN path_to_id'
               PROVE  /\ \E l \in DOMAIN loading' : loading'[l].path = path
                      /\ \A j \in 1..(k - 1) : path \notin PathsIn(a, j)
    BY Zenon DEF PendingOK
  <2>1. /\ \E l \in DOMAIN loading : loading[l].path = path
        /\ \A j \in 1..(k - 1) : path \notin PathsIn(a, j)
    BY <1>1, <1>4, ZenonT(30) DEF PendingOK
  <2>2. stage = "files"
    <3>1. stage \in {"attributes", "files"} /\ (stage = "attributes" => k = 0)
      BY <1>1, Zenon DEF LoadOK
    <3>2. k # 0
      OBVIOUS
    <3> QED
      BY <3>1, <3>2, Zenon
  <2>3. path # e.path
    <3> SUFFICES ASSUME path = e.path PROVE FALSE
      BY Zenon
    <3>1. ~Refused(NodeIn(a, k, e.path))
      BY <1>10, <2>1, <2>2, Zenon
    <3> QED
      BY <1>5, <1>9, <2>2, <3>1, Taken, Zenon
  <2> QED
    BY <1>2, <2>1, <2>3, Zenon
<1>12. TypesOK(a, path_to_id', entries')
  <2> SUFFICES ASSUME NEW path \in DOMAIN path_to_id'
               PROVE  LET m == entries'[path_to_id'[path]].metadata
                          leaf == LeafIn(a, path)
                      IN  IF path \in OwnPaths THEN m.entry_type = "Attribute" /\ m.data_type.elem = "String"
                          ELSE ~Refused(leaf) => m.data_type = leaf.datatype[1] /\ m.entry_type = leaf.type
    BY DEF TypesOK
  <2>1. CASE path \in DOMAIN path_to_id
    <3> DEFINE m == entries[path_to_id[path]].metadata
               n == entries'[path_to_id'[path]].metadata
    <3>1. n.entry_type = m.entry_type /\ n.data_type = m.data_type
      BY <2>1, Zenon DEF DbGrows, RegistrationKept, FixedMetadata, ServicesInv, StoreInv, PathsAndIdsAgree
    <3> HIDE DEF n
    <3>2. IF path \in OwnPaths THEN m.entry_type = "Attribute" /\ m.data_type.elem = "String"
          ELSE ~Refused(LeafIn(a, path)) =>
                  m.data_type = LeafIn(a, path).datatype[1] /\ m.entry_type = LeafIn(a, path).type
      BY <1>1, <2>1, ZenonT(30) DEF TypesOK
    <3> HIDE DEF m
    <3> QED
      BY <3>1, <3>2, Zenon DEF n
  <2>2. CASE path \notin DOMAIN path_to_id
    <3> DEFINE n == entries'[path_to_id'[path]].metadata
    <3>1. /\ path = e.path /\ path \in ValidPaths
          /\ n.entry_type = e.entry_type /\ n.data_type = e.data_type
      BY <1>3, <2>2 DEF Insert, NewEntry
    <3> HIDE DEF n
    <3>2. CASE stage = "attributes"
      BY <1>7, <3>1, <3>2, Zenon DEF n
    <3>3. CASE stage = "files"
      <4>1. path \notin OwnPaths
        BY <1>1, <2>2, <3>3, Zenon DEF OwnOK
      <4>2. ASSUME ~Refused(LeafIn(a, path))
            PROVE  n.data_type = LeafIn(a, path).datatype[1] /\ n.entry_type = LeafIn(a, path).type
        <5>1. path \in PathsIn(a, k) /\ k \in 1..k
          <6>1. path \in PathsIn(a, k) /\ k \in DOMAIN FileLists[a] /\ a \in DOMAIN FileLists
            BY <1>1, <1>9, <3>1, <3>3, Zenon DEF AsWritten
          <6>2. k \in 1..k
            BY <6>1, FileNumbers
          <6> QED
            BY <6>1, <6>2, Zenon
        <5>2. \A j \in 1..(k - 1) : path \notin PathsIn(a, j)
          BY <1>1, <2>2, <3>1, <4>1, <4>2, <5>1, ZenonT(30) DEF PendingOK
        <5> QED
          BY <1>9, <1>10, <3>1, <3>3, <5>2, Zenon DEF AsWritten
      <4> QED
        BY <4>1, <4>2, Zenon DEF n
    <3> QED
      BY <1>1, <3>2, <3>3, ZenonT(30)
  <2> QED
    BY <2>1, <2>2, ZenonT(30)
<1>13. Files' = Files
  BY <1>1 DEF Files
<1> QED
  BY <1>1, <1>6, <1>8, <1>11, <1>12, <1>13, Zenon DEF StartupInv, Loading

\* A default is stored in an entry that keeps its types.
LEMMA SetDefaultKeeps ==
    ASSUME ServicesInv, StartupInv, SetDefault, call' = call, DbGrows
    PROVE  StartupInv'
<1>1. UNCHANGED << stage, files_read, loading, argument, path_to_id >>
  BY Zenon DEF SetDefault, update_entry
<1>2. ASSUME TypesOK(argument, path_to_id, entries) PROVE TypesOK(argument, path_to_id, entries')
  <2>1. ASSUME NEW path \in DOMAIN path_to_id
        PROVE  /\ entries'[path_to_id[path]].metadata.entry_type = entries[path_to_id[path]].metadata.entry_type
               /\ entries'[path_to_id[path]].metadata.data_type = entries[path_to_id[path]].metadata.data_type
    BY DEF DbGrows, RegistrationKept, FixedMetadata, ServicesInv, StoreInv, PathsAndIdsAgree
  <2> QED
    BY <1>2, <2>1, Zenon DEF TypesOK
<1> QED
  BY <1>1, <1>2 DEF StartupInv, Loading, Files

\* The next file is read when the one before is loaded.
LEMMA ReadFileKeeps ==
    ASSUME StartupInv, read_metadata_file, call' = call
    PROVE  StartupInv'
<1> DEFINE a == argument
           k == files_read + 1
           parsed == flatten_vss_tree(FileLists[a][k])
<1>1. /\ stage \in {"attributes", "files"} /\ loading = << >> /\ files_read < Len(Files)
      /\ a \in DOMAIN FileLists /\ a' = a /\ files_read \in Nat /\ files_read' = k
      /\ OwnOK(stage, path_to_id, loading) /\ TypesOK(a, path_to_id, entries)
      /\ PendingOK(a, files_read, path_to_id, loading)
      /\ UNCHANGED << path_to_id, entries >> /\ \A c \in Clients : call'[c] = NoCall
  BY DEF StartupInv, Loading, read_metadata_file, dbVars
<1>2. IF parsed.ok THEN stage' = "files" /\ loading' = InOrder(parsed.value) ELSE stage' = "failed"
  BY Zenon DEF read_metadata_file, Files
<1>3. k \in DOMAIN FileLists[a] /\ k \in Nat /\ k <= Len(Files') /\ Files' = Files
  BY <1>1, FileNumbers DEF Files
<1>4. CASE ~parsed.ok
  BY <1>1, <1>2, <1>4, Zenon DEF StartupInv, Loading
<1>5. CASE parsed.ok
  <2>1. /\ IsList(loading')
        /\ \A l \in DOMAIN loading' : AsWritten(loading'[l], a, k)
        /\ \A path \in PathsIn(a, k) : \E l \in DOMAIN loading' : loading'[l].path = path
    <3>1. a \in DOMAIN FileLists /\ k \in DOMAIN FileLists[a] /\ loading' = InOrder(parsed.value)
      BY <1>1, <1>2, <1>3, <1>5, Zenon
    <3> QED
      BY <1>5, <3>1, FileEntries, Zenon
  <2>2. LoadOK("files", a, k, loading')
    BY <1>3, <2>1 DEF LoadOK
  <2>3. OwnOK("files", path_to_id, loading')
    <3>1. loading = << >> /\ OwnOK(stage, path_to_id, loading)
      BY <1>1, Zenon
    <3> QED
      BY <3>1 DEF OwnOK
  <2>4. PendingOK(a, k, path_to_id, loading')
    <3> SUFFICES ASSUME NEW i \in 1..k, NEW path \in PathsIn(a, i) \cap (ValidPaths \ OwnPaths),
                        ~Refused(LeafIn(a, path)), path \notin DOMAIN path_to_id
                 PROVE  /\ \E l \in DOMAIN loading' : loading'[l].path = path
                        /\ \A j \in 1..(k - 1) : path \notin PathsIn(a, j)
      BY DEF PendingOK
    <3>1. \A j \in 1..(k - 1) : path \notin PathsIn(a, j)
      BY <1>1 DEF PendingOK
    <3>2. i = k
      BY <1>1, <3>1
    <3> QED
      BY <2>1, <3>1, <3>2
  <2> QED
    BY <1>1, <1>2, <1>3, <1>5, <2>2, <2>3, <2>4, ZenonT(30) DEF StartupInv, Loading
<1> QED
  BY <1>4, <1>5, Zenon

\* Every step keeps the loader's invariant.
LEMMA StartupStep ==
    ASSUME ServicesInv, StartupInv, [ServicesNext]_grpcVars
    PROVE  StartupInv'
<1>1. CASE StartupNext /\ call' = call
  <2>1. DbGrows
    BY <1>1, StartupKeeps
  <2>2. CASE LoadEntry
    BY <1>1, <2>1, <2>2, LoadEntryKeeps
  <2>3. CASE SetDefault
    BY <1>1, <2>1, <2>3, SetDefaultKeeps, Zenon
  <2>4. CASE read_metadata_file
    BY <1>1, <2>4, ReadFileKeeps, Zenon
  <2>5. CASE Serve
    BY <2>5, Zenon DEF Serve, StartupInv, Loading
  <2> QED
    BY <1>1, <2>2, <2>3, <2>4, <2>5, Zenon DEF StartupNext
<1>2. ASSUME NEW c \in Clients, Call(c) \/ Expire(c) \/ ValNext(c) \/ SdvNext(c) PROVE StartupInv'
  <2>1. UNCHANGED startupVars /\ ~Loading
    <3>1. CASE Call(c)
      BY <3>1, Zenon DEF Call, Loading
    <3>2. CASE Expire(c) \/ ValNext(c) \/ SdvNext(c)
      BY <3>2, ClientStep DEF StartupInv, NoCall
    <3> QED
      BY <1>2, <3>1, <3>2
  <2> QED
    BY <2>1 DEF StartupInv, Loading, startupVars
<1>3. CASE UNCHANGED << dbVars, startupVars, call >>
  BY <1>3 DEF dbVars, startupVars, StartupInv, Loading, Files
<1> QED
  BY <1>1, <1>2, <1>3 DEF ServicesNext, Shutdown, grpcVars

\* The loader's invariant holds at the start.
LEMMA StartupInitially == GrpcInit => StartupInv
<1> SUFFICES ASSUME GrpcInit PROVE StartupInv
  OBVIOUS
<1>1. /\ stage = "attributes" /\ argument \in DOMAIN FileLists /\ files_read = 0 /\ loading = KuksaAttributes
      /\ DOMAIN path_to_id = {} /\ \A c \in Clients : call[c] = NoCall
  BY DEF GrpcInit, StartupInit, DbInit, EmptyMap
<1>2. LoadOK(stage, argument, files_read, loading) /\ OwnOK(stage, path_to_id, loading)
  BY <1>1, AttributeFacts, Zenon DEF LoadOK, OwnOK
<1>3. TypesOK(argument, path_to_id, entries) /\ PendingOK(argument, files_read, path_to_id, loading)
  BY <1>1 DEF TypesOK, PendingOK
<1>4. files_read \in Nat /\ files_read <= Len(Files)
  BY <1>1, FileNumbers DEF Files
<1> QED
  BY <1>1, <1>2, <1>3, <1>4 DEF StartupInv

\* A broker that serves has what its files say: every leaf with a valid name
\* that is not refused is registered as the first file that names it says, and
\* the attributes of the broker itself are what they were (`main`,
\* `read_metadata_file`, `add_entry`).
THEOREM FilesDoLoad == ServicesSpec => LoadedAsWritten
<1> DEFINE Loads ==
             stage' = "serving" /\ stage # "serving" =>
               /\ \A i \in DOMAIN KuksaAttributes :
                     /\ KuksaAttributes[i].path \in DOMAIN path_to_id
                     /\ LET m == entries[path_to_id[KuksaAttributes[i].path]].metadata
                        IN  m.entry_type = "Attribute" /\ m.data_type.elem = "String"
               /\ \A path \in (UNION {{n.path : n \in LeavesOf(i)} : i \in DOMAIN Files})
                              \cap (ValidPaths \ OwnPaths) :
                     LET leaf == LeafOf(path)
                         m == entries[path_to_id[path]].metadata
                     IN  /\ Refused(leaf) \/ path \in DOMAIN path_to_id
                         /\ ~Refused(leaf) =>
                               m.data_type = leaf.datatype[1] /\ m.entry_type = leaf.type
<1>1. ASSUME StartupInv, [ServicesNext]_grpcVars PROVE [Loads]_<< dbVars, startupVars >>
  <2> SUFFICES ASSUME stage' = "serving", stage # "serving" PROVE Loads
    BY Zenon DEF startupVars
  <2>1. Serve
    <3>1. ~(UNCHANGED stage)
      OBVIOUS
    <3>2. ~Shutdown /\ ~UNCHANGED grpcVars
      BY <3>1 DEF Shutdown, grpcVars, startupVars
    <3>3. ASSUME NEW c \in Clients, Call(c) \/ Expire(c) \/ ValNext(c) \/ SdvNext(c) PROVE UNCHANGED stage
      BY <3>3, ClientStep DEF Call, startupVars
    <3>4. StartupNext
      BY <1>1, <3>1, <3>2, <3>3, Zenon DEF ServicesNext
    <3> QED
      BY <3>4 DEF StartupNext, LoadEntry, SetDefault, read_metadata_file
  <2>2. /\ Loading /\ loading = << >> /\ files_read = Len(Files) /\ argument \in DOMAIN FileLists
        /\ OwnOK(stage, path_to_id, loading) /\ TypesOK(argument, path_to_id, entries)
        /\ PendingOK(argument, files_read, path_to_id, loading)
    BY <1>1, <2>1, Zenon DEF Serve, StartupInv, Loading
  <2>3. ASSUME NEW path \in OwnPaths
        PROVE  /\ path \in DOMAIN path_to_id
               /\ LET m == entries[path_to_id[path]].metadata
                  IN  m.entry_type = "Attribute" /\ m.data_type.elem = "String"
    <3>1. loading = << >> /\ OwnOK(stage, path_to_id, loading) /\ TypesOK(argument, path_to_id, entries)
      BY <2>2, Zenon
    <3>2. path \in DOMAIN path_to_id
      BY <3>1 DEF OwnOK
    <3> QED
      BY <3>1, <3>2, Zenon DEF TypesOK
  <2>4. ASSUME NEW path \in (UNION {{n.path : n \in LeavesOf(i)} : i \in DOMAIN Files}) \cap (ValidPaths \ OwnPaths)
        PROVE  LET leaf == LeafOf(path)
                   m == entries[path_to_id[path]].metadata
               IN  /\ Refused(leaf) \/ path \in DOMAIN path_to_id
                   /\ ~Refused(leaf) => m.data_type = leaf.datatype[1] /\ m.entry_type = leaf.type
    <3>1. LeafOf(path) = LeafIn(argument, path)
      BY Zenon DEF LeafOf, LeavesOf, First, Files, LeafIn, NodeIn, FirstIn
    <3>2. PICK i \in DOMAIN Files : path \in {n.path : n \in LeavesOf(i)}
      BY <2>4, Zenon
    <3>3. i \in 1..files_read /\ path \in PathsIn(argument, i)
      BY <2>2, <3>2, FileNumbers, Zenon DEF PathsIn, LeavesOf, Files
    <3>4. ~Refused(LeafIn(argument, path)) => path \in DOMAIN path_to_id
      BY <2>2, <2>4, <3>3 DEF PendingOK
    <3>5. path \in DOMAIN path_to_id /\ ~Refused(LeafIn(argument, path)) =>
             /\ entries[path_to_id[path]].metadata.data_type = LeafIn(argument, path).datatype[1]
             /\ entries[path_to_id[path]].metadata.entry_type = LeafIn(argument, path).type
      BY <2>2, <2>4, ZenonT(30) DEF TypesOK
    <3> QED
      BY <3>1, <3>4, <3>5
  <2> QED
    BY <2>3, <2>4, ZenonT(30) DEF OwnPaths
<1>2. ServicesInv /\ StartupInv /\ [ServicesNext]_grpcVars => StartupInv'
  BY StartupStep
<1>3. LoadedAsWritten <=> [][Loads]_<< dbVars, startupVars >>
  BY PTL DEF LoadedAsWritten
<1> HIDE DEF Loads
<1> QED
  BY <1>1, <1>2, <1>3, StartupInitially, ServicesInvariant, PTL DEF ServicesSpec

==============================================================================
