------------------------------ MODULE Database ------------------------------
(***************************************************************************)
(* The database of the databroker (broker.rs, `Database` with its          *)
(* DatabaseReadAccess and DatabaseWriteAccess): entries under numeric ids, *)
(* and the index from paths to ids.  Clients look an id up in one call and *)
(* use it in a later one, so what they rely on is that a registration is   *)
(* permanent.                                                              *)
(*                                                                         *)
(* As a specification of its own it has a single client at a time, which   *)
(* is what the write lock makes of many; Broker adds the lock.             *)
(***************************************************************************)
EXTENDS Entry, Permissions, FiniteSets

CONSTANTS
    Paths,              \* the names clients use
    ValidPaths,         \* the ones glob::is_valid_path accepts
    MaxId,              \* bound on next_id (the code's AtomicI32 holds 2^31 - 1)
    PermissionInputs,   \* permissions of the clients
    MetadataInputs,     \* [data_type, entry_type, change_type, allowed]
    UpdateInputs        \* EntryUpdates

ASSUME PathsAssumption == ValidPaths \subseteq Paths
ASSUME MaxIdAssumption == MaxId \in Nat
ASSUME PermissionsAssumption == PermissionInputs \subseteq PermissionSet(Paths)

VARIABLES next_id, path_to_id, entries

dbVars == << next_id, path_to_id, entries >>

Ids == 0..(MaxId - 1)

\* metadata_set: path, entry_type, data_type or description is given.
EntryUpdate ==
    [metadata_set: BOOLEAN, datapoint: Option(DataValue),
     actuator_target: Option(Option(DataValue)),
     allowed: Option(Option(DataValue))]

\* What a registration says of an entry.
MetadataInput ==
    [data_type: DataType, entry_type: EntryType, change_type: ChangeType,
     allowed: Option(DataValue)]

ASSUME InputsAssumption ==
    /\ MetadataInputs \subseteq MetadataInput
    /\ UpdateInputs \subseteq EntryUpdate

NoUpdate ==
    [metadata_set |-> FALSE, datapoint |-> None, actuator_target |-> None, allowed |-> None]

------------------------------------------------------------------------------
(* DatabaseReadAccess *)

get_entry_by_id(perm, id) ==
    IF id \notin DOMAIN entries THEN "NotFound"
    ELSE can_read(perm, entries[id].metadata.path)

get_entry_by_path(perm, path) ==
    IF path \notin DOMAIN path_to_id THEN "NotFound"
    ELSE get_entry_by_id(perm, path_to_id[path])

------------------------------------------------------------------------------
(* DatabaseWriteAccess *)

Denial(result) ==
    CASE result = "Denied" -> "PermissionDenied"
      [] result = "Expired" -> "PermissionExpired"
      [] OTHER -> "Ok"

\* DatabaseWriteAccess::update on an entry that exists.
UpdateOf(entry, perm, update) ==
    LET path == entry.metadata.path
    IN  AndThen(IF update.metadata_set THEN "PermissionDenied" ELSE "Ok",
        AndThen(IF update.datapoint = None THEN "Ok"
                ELSE Denial(can_write_datapoint(perm, path)),
        AndThen(IF update.actuator_target = None THEN "Ok"
                ELSE Denial(can_write_actuator_target(perm, path)),
                validate(entry, diff(entry, update)))))

UpdateResult(perm, id, update) ==
    IF id \notin DOMAIN entries THEN "NotFound"
    ELSE UpdateOf(entries[id], perm, update)

\* The write itself; UpdateResult says whether it happens.
update_entry(perm, id, update) ==
    /\ entries' = IF UpdateResult(perm, id, update) = "Ok"
                  THEN [entries EXCEPT ![id] = apply(@, diff(@, update))]
                  ELSE entries
    /\ UNCHANGED << next_id, path_to_id >>

\* The fields an update reports as changed.
UpdateChanges(perm, id, update) ==
    IF UpdateResult(perm, id, update) = "Ok"
    THEN changed_fields(diff(entries[id], update))
    ELSE {}

\* Mutant: names are not looked at before they are registered.
AddUnchecked(perm, path, metadata) ==
    AndThen(Denial(can_create(perm, path)),
            IF path \in DOMAIN path_to_id THEN "Exists" ELSE "Ok")

\* Mutant: a second registration of a path replaces the first.
AddAgain(perm, path, metadata) ==
    AndThen(IF path \in ValidPaths THEN "Ok" ELSE "ValidationError",
            Denial(can_create(perm, path)))

AddResult(perm, path, metadata) ==
    AndThen(IF path \in ValidPaths THEN "Ok" ELSE "ValidationError",
    AndThen(Denial(can_create(perm, path)),
            IF path \in DOMAIN path_to_id THEN "Exists"
            ELSE IF validate_allowed_type(metadata.data_type, metadata.allowed) = "Ok"
                 THEN "Ok" ELSE "ValidationError"))

\* Mutant: temp_id is never replaced.
NewEntryTempId(id, path, metadata) ==
    [datapoint |-> NotAvailable, actuator_target |-> None,
     metadata |-> [id |-> 0, path |-> path,
                   data_type |-> metadata.data_type, entry_type |-> metadata.entry_type,
                   change_type |-> metadata.change_type, allowed |-> metadata.allowed]]

NewEntry(id, path, metadata) ==
    [datapoint |-> NotAvailable, actuator_target |-> None,
     metadata |-> [id |-> id, path |-> path,
                   data_type |-> metadata.data_type, entry_type |-> metadata.entry_type,
                   change_type |-> metadata.change_type, allowed |-> metadata.allowed]]

\* f with x mapped to y (HashMap::insert).
Insert(f, x, y) == [z \in DOMAIN f \cup {x} |-> IF z = x THEN y ELSE f[z]]

add(perm, path, metadata) ==
    IF AddResult(perm, path, metadata) = "Ok"
    THEN /\ next_id < MaxId
         /\ next_id' = next_id + 1
         /\ path_to_id' = Insert(path_to_id, path, next_id)
         /\ entries' = Insert(entries, next_id, NewEntry(next_id, path, metadata))
    ELSE UNCHANGED dbVars

------------------------------------------------------------------------------
(* The database on its own *)

EmptyMap == [x \in {} |-> x]

DbInit ==
    /\ next_id = 0
    /\ path_to_id = EmptyMap
    /\ entries = EmptyMap

Add ==
    \E perm \in PermissionInputs, path \in Paths, metadata \in MetadataInputs :
        add(perm, path, metadata)

Update ==
    \E perm \in PermissionInputs, id \in Ids, update \in UpdateInputs :
        update_entry(perm, id, update)

DbNext == Add \/ Update

DbSpec == DbInit /\ [][DbNext]_dbVars

------------------------------------------------------------------------------
(* Properties *)

Metadata ==
    [id: Nat, path: Paths, data_type: DataType, entry_type: EntryType,
     change_type: ChangeType, allowed: Option(DataValue)]

EntrySet ==
    [datapoint: DataValue, actuator_target: Option(DataValue), metadata: Metadata]

\* Ids are counted up from 0; the maps of `Database` go from names that
\* `add` found valid to ids, and from ids to entries.
DbTypeOK ==
    /\ next_id \in Nat
    /\ DOMAIN path_to_id \subseteq ValidPaths
    /\ \A path \in DOMAIN path_to_id : path_to_id[path] \in Nat
    /\ \A id \in DOMAIN entries : entries[id] \in EntrySet

\* The index and the entries are two views of one bijection: every path leads
\* to the entry that bears it, every entry is found under its path, under its
\* own id, and no id is in use that `add` has yet to hand out.
PathsAndIdsAgree ==
    /\ \A path \in DOMAIN path_to_id :
          /\ path_to_id[path] \in DOMAIN entries
          /\ entries[path_to_id[path]].metadata.path = path
    /\ \A id \in DOMAIN entries :
          /\ entries[id].metadata.id = id
          /\ entries[id].metadata.path \in DOMAIN path_to_id
          /\ path_to_id[entries[id].metadata.path] = id
          /\ id < next_id

Fits(data_type, value) == validate_value(data_type, value) = "Ok"

EntryFits(e) ==
    /\ Fits(e.metadata.data_type, e.datapoint)
    /\ e.actuator_target # None => Fits(e.metadata.data_type, e.actuator_target[1])

\* Whatever updates clients send, what is stored fits the data type the entry
\* was registered with: an Int8 entry holds an Int32 within -128..127, never
\* anything that a reader of the type could not convert.
StoredValuesFit == \A id \in DOMAIN entries : EntryFits(entries[id])

FixedMetadata == {"id", "path", "data_type", "entry_type", "change_type"}

RegistrationKept ==
    /\ \A path \in DOMAIN path_to_id :
          path \in DOMAIN path_to_id' /\ path_to_id'[path] = path_to_id[path]
    /\ \A id \in DOMAIN entries :
          /\ id \in DOMAIN entries'
          /\ \A k \in FixedMetadata : entries'[id].metadata[k] = entries[id].metadata[k]

\* An id that a client has looked up stays valid: no step removes an entry,
\* moves it to another id or path, or changes its types (`update` rejects
\* those fields, a second `add` of a path returns the first one's id).
RegistrationIsPermanent == [][RegistrationKept]_dbVars

==============================================================================
