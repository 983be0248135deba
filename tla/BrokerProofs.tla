---------------------------- MODULE BrokerProofs ----------------------------
(***************************************************************************)
(* Theorems about Database, for any paths, entries and updates, and about  *)
(* Broker, for any number of tasks, entries, subscriptions and calls, with *)
(* expiring tokens and calls that are cut short.                           *)
(*                                                                         *)
(* The argument: a writer that notifies holds the database's lock as a     *)
(* reader, so nobody writes, so the last commit in the log is its own and  *)
(* is what the database holds.  Every message is composed from it.         *)
(*                                                                         *)
(* Then what goes into a channel: the broker implements Feed, and a        *)
(* subscription gets no value any more once its token has expired.  What   *)
(* goes into a channel is composed from the last commit of the log, by a   *)
(* task that keeps the database from changing meanwhile (BrokerInv); every *)
(* other step leaves channels and log alone, takes from a channel, or      *)
(* commits.  Only Compose prepares a message, it asks for permission again *)
(* for every entry, and every check looks at expiry first.                 *)
(*                                                                         *)
(* Last BrokerTypeOK, with the bound on the channels that is part of it.   *)
(***************************************************************************)
EXTENDS BrokerFeed, WellFoundedInduction, TLAPS

------------------------------------------------------------------------------
(* The entry *)

\* An Option is empty or holds one element of its type.
LEMMA OptionFacts ==
    ASSUME NEW S
    PROVE  /\ None \in Option(S)
           /\ \A s \in Option(S) : s # None => s[1] \in S
  BY DEF Option, None

\* What `diff` leaves of an update is an update.
LEMMA DiffType ==
    ASSUME NEW entry, NEW update \in EntryUpdate
    PROVE  diff(entry, update) \in EntryUpdate
  BY OptionFacts DEF diff, EntryUpdate

\* `apply` keeps the shape of the entry.
LEMMA ApplyType ==
    ASSUME NEW entry \in EntrySet, NEW u \in EntryUpdate
    PROVE  apply(entry, u) \in EntrySet
<1>1. u.datapoint # None => u.datapoint[1] \in DataValue
  BY OptionFacts DEF EntryUpdate
<1>2. u.actuator_target # None => u.actuator_target[1] \in Option(DataValue)
  BY OptionFacts DEF EntryUpdate
<1>3. u.allowed # None => u.allowed[1] \in Option(DataValue)
  BY OptionFacts DEF EntryUpdate
<1> QED
  BY Zenon, <1>1, <1>2, <1>3 DEF apply, EntrySet, Metadata

\* `apply` leaves everything of the metadata but `allowed` alone.
LEMMA ApplyMetadata ==
    ASSUME NEW entry \in EntrySet, NEW u \in EntryUpdate
    PROVE  LET m == apply(entry, u).metadata
           IN  /\ m.id = entry.metadata.id
               /\ m.path = entry.metadata.path
               /\ m.data_type = entry.metadata.data_type
               /\ m.entry_type = entry.metadata.entry_type
               /\ m.change_type = entry.metadata.change_type
  BY DEF apply, EntrySet, Metadata

\* An update that passed `validate` leaves values of the entry's type.
LEMMA ApplyFits ==
    ASSUME NEW entry \in EntrySet, NEW u \in EntryUpdate,
           EntryFits(entry), validate(entry, u) = "Ok"
    PROVE  EntryFits(apply(entry, u))
<1> DEFINE e == apply(entry, u)
<1>1. e.metadata.data_type = entry.metadata.data_type
  BY ApplyMetadata
<1>2. \A x, y : AndThen(x, y) = "Ok" => x = "Ok" /\ y = "Ok"
  BY DEF AndThen
<1>3. /\ u.datapoint # None => Fits(entry.metadata.data_type, u.datapoint[1])
      /\ u.actuator_target \notin {None, Some(None)}
           => Fits(entry.metadata.data_type, u.actuator_target[1][1])
  <2> HIDE DEF AndThen
  <2>1. /\ u.datapoint # None => ValidateOne(entry.metadata, u.datapoint[1]) = "Ok"
        /\ u.actuator_target \notin {None, Some(None)}
             => ValidateOne(entry.metadata, u.actuator_target[1][1]) = "Ok"
    BY <1>2 DEF validate
  <2> QED
    BY <2>1, <1>2 DEF ValidateOne, Fits
<1>4. /\ e.datapoint = IF u.datapoint = None THEN entry.datapoint ELSE u.datapoint[1]
      /\ e.actuator_target = IF u.actuator_target = None THEN entry.actuator_target
                             ELSE u.actuator_target[1]
  BY DEF apply, EntrySet
<1>5. u.actuator_target # None /\ u.actuator_target[1] # None
        => u.actuator_target \notin {None, Some(None)}
  BY DEF Some, None
<1> QED
  BY <1>1, <1>3, <1>4, <1>5 DEF EntryFits

------------------------------------------------------------------------------
(* The database *)

\* The inductive invariant: values fit only because types do, and the index
\* stays a bijection only because next_id is above every id in use.
DbInv == DbTypeOK /\ PathsAndIdsAgree /\ StoredValuesFit

\* `update` keeps the invariant, whoever calls it and with whatever update.
LEMMA UpdateKeepsDbInv ==
    ASSUME DbInv, NEW perm, NEW id, NEW update \in EntryUpdate,
           update_entry(perm, id, update)
    PROVE  DbInv'
<1>1. CASE UpdateResult(perm, id, update) # "Ok"
  <2>1. UNCHANGED dbVars
    BY <1>1 DEF update_entry, dbVars
  <2> QED
    BY <2>1 DEF DbInv, DbTypeOK, PathsAndIdsAgree, StoredValuesFit, dbVars
<1>2. CASE UpdateResult(perm, id, update) = "Ok"
  <2> DEFINE u == diff(entries[id], update)
             e == apply(entries[id], u)
  <2>1. id \in DOMAIN entries /\ entries[id] \in EntrySet /\ EntryFits(entries[id])
    BY <1>2 DEF UpdateResult, DbInv, DbTypeOK, StoredValuesFit
  <2>2. validate(entries[id], u) = "Ok"
    <3>1. \A x, y : AndThen(x, y) = "Ok" => y = "Ok"
      BY DEF AndThen
    <3> QED
      BY <1>2, <2>1, <3>1 DEF UpdateResult, UpdateOf
  <2>3. u \in EntryUpdate
    BY DiffType
  <2> HIDE DEF u
  <2>4. e \in EntrySet /\ EntryFits(e)
    BY <2>1, <2>2, <2>3, ApplyType, ApplyFits
  <2>5. e.metadata.id = entries[id].metadata.id /\ e.metadata.path = entries[id].metadata.path
    BY <2>1, <2>3, ApplyMetadata
  <2>6. /\ entries' = [entries EXCEPT ![id] = e]
        /\ UNCHANGED << next_id, path_to_id >>
    BY <1>2 DEF update_entry, u
  <2> HIDE DEF e
  <2>7. /\ DOMAIN entries' = DOMAIN entries
        /\ \A i \in DOMAIN entries :
              /\ entries'[i] = IF i = id THEN e ELSE entries[i]
              /\ entries'[i].metadata.id = entries[i].metadata.id
              /\ entries'[i].metadata.path = entries[i].metadata.path
    BY <2>1, <2>5, <2>6
  <2>8. DbTypeOK'
    BY <2>4, <2>6, <2>7 DEF DbInv, DbTypeOK
  <2>9. PathsAndIdsAgree'
    BY <2>6, <2>7 DEF DbInv, PathsAndIdsAgree
  <2>10. StoredValuesFit'
    BY <2>4, <2>7 DEF DbInv, StoredValuesFit
  <2> QED
    BY <2>8, <2>9, <2>10 DEF DbInv
<1> QED
  BY <1>1, <1>2

\* `add` keeps the invariant.
LEMMA AddKeepsDbInv ==
    ASSUME DbInv, NEW perm, NEW path, NEW metadata \in MetadataInput,
           add(perm, path, metadata)
    PROVE  DbInv'
<1>1. CASE AddResult(perm, path, metadata) # "Ok"
  <2>1. UNCHANGED dbVars
    BY <1>1 DEF add
  <2> QED
    BY <2>1 DEF DbInv, DbTypeOK, PathsAndIdsAgree, StoredValuesFit, dbVars
<1>2. CASE AddResult(perm, path, metadata) = "Ok"
  <2> DEFINE e == NewEntry(next_id, path, metadata)
  <2>1. path \in ValidPaths /\ path \in Paths /\ path \notin DOMAIN path_to_id
    BY <1>2, PathsAssumption DEF AddResult, AndThen
  <2>2. next_id \in Nat /\ next_id \notin DOMAIN entries
    BY DEF DbInv, DbTypeOK, PathsAndIdsAgree
  <2>3. NotAvailable \in DataValue
    BY DEF DataValue
  <2>4. e \in EntrySet /\ e.metadata.id = next_id /\ e.metadata.path = path
    BY <2>1, <2>2, <2>3, OptionFacts DEF NewEntry, EntrySet, Metadata, MetadataInput
  <2>5. EntryFits(e)
    BY DEF NewEntry, EntryFits, Fits, validate_value
  <2> HIDE DEF e
  <2>6. /\ next_id' = next_id + 1
        /\ path_to_id' = Insert(path_to_id, path, next_id)
        /\ entries' = Insert(entries, next_id, e)
    BY <1>2 DEF add, e
  <2>7. /\ DOMAIN path_to_id' = DOMAIN path_to_id \cup {path}
        /\ \A p \in DOMAIN path_to_id' :
              path_to_id'[p] = IF p = path THEN next_id ELSE path_to_id[p]
        /\ DOMAIN entries' = DOMAIN entries \cup {next_id}
        /\ \A i \in DOMAIN entries' : entries'[i] = IF i = next_id THEN e ELSE entries[i]
    BY <2>6 DEF Insert
  <2>8. DbTypeOK'
    BY <2>1, <2>2, <2>4, <2>6, <2>7 DEF DbInv, DbTypeOK
  <2>9. PathsAndIdsAgree'
    <3>1. \A i \in DOMAIN entries : i \in Nat /\ i < next_id
      BY DEF DbInv, DbTypeOK, PathsAndIdsAgree, EntrySet, Metadata
    <3> QED
      BY <2>1, <2>2, <2>4, <2>6, <2>7, <3>1 DEF DbInv, PathsAndIdsAgree
  <2>10. StoredValuesFit'
    BY <2>5, <2>7 DEF DbInv, StoredValuesFit
  <2> QED
    BY <2>8, <2>9, <2>10 DEF DbInv
<1> QED
  BY <1>1, <1>2

\* Every step keeps the invariant, and no step forgets a registration.
LEMMA DbStep ==
    ASSUME DbInv, [DbNext]_dbVars
    PROVE  DbInv'
<1>1. CASE Add
  BY <1>1, AddKeepsDbInv, InputsAssumption DEF Add
<1>2. CASE Update
  BY <1>2, UpdateKeepsDbInv, InputsAssumption DEF Update
<1>3. CASE UNCHANGED dbVars
  BY <1>3 DEF DbInv, DbTypeOK, PathsAndIdsAgree, StoredValuesFit, dbVars
<1> QED
  BY <1>1, <1>2, <1>3 DEF DbNext

\* The empty database is well formed.
LEMMA DbInitially == DbInit => DbInv
  BY DEF DbInit, DbInv, DbTypeOK, PathsAndIdsAgree, StoredValuesFit, EmptyMap

\* The database is well typed, its index and its entries agree, and its values
\* fit their types, in every state of every run of `add` and `update`.
THEOREM DbInvariant == DbSpec => []DbInv
<1>1. DbInv /\ [DbNext]_dbVars => DbInv'
  BY DbStep
<1> QED
  BY DbInitially, <1>1, PTL DEF DbSpec

\* DbTypeOK for all constants: only valid names are ever registered, and
\* `add` and `update` leave entries of the code's types.
THEOREM DbTypeCorrect == DbSpec => []DbTypeOK
<1>1. DbInv => DbTypeOK
  BY DEF DbInv
<1> QED
  BY DbInvariant, <1>1, PTL

\* PathsAndIdsAgree for all constants: path_to_id and entries stay one bijection.
THEOREM IndexAgrees == DbSpec => []PathsAndIdsAgree
<1>1. DbInv => PathsAndIdsAgree
  BY DEF DbInv
<1> QED
  BY DbInvariant, <1>1, PTL

\* StoredValuesFit for all constants: no sequence of updates stores a value that
\* `validate_value` would refuse.
THEOREM ValuesFit == DbSpec => []StoredValuesFit
<1>1. DbInv => StoredValuesFit
  BY DEF DbInv
<1> QED
  BY DbInvariant, <1>1, PTL

\* An `update` forgets no registration.
LEMMA UpdateIsPermanent ==
    ASSUME DbInv, NEW perm, NEW id, NEW update \in EntryUpdate,
           update_entry(perm, id, update)
    PROVE  RegistrationKept
<1>1. CASE UpdateResult(perm, id, update) # "Ok"
  BY <1>1 DEF update_entry, RegistrationKept
<1>2. CASE UpdateResult(perm, id, update) = "Ok"
  <2> DEFINE u == diff(entries[id], update)
             e == apply(entries[id], u)
  <2>1. id \in DOMAIN entries /\ entries[id] \in EntrySet
    BY <1>2 DEF UpdateResult, DbInv, DbTypeOK
  <2>2. u \in EntryUpdate
    BY DiffType
  <2> HIDE DEF u
  <2>3. \A k \in FixedMetadata : e.metadata[k] = entries[id].metadata[k]
    BY <2>1, <2>2, ApplyMetadata DEF FixedMetadata
  <2>4. entries' = [entries EXCEPT ![id] = e] /\ UNCHANGED path_to_id
    BY <1>2 DEF update_entry, u
  <2> HIDE DEF e
  <2> QED
    BY <2>1, <2>3, <2>4 DEF RegistrationKept
<1> QED
  BY <1>1, <1>2

\* An `add` forgets no registration.
LEMMA AddIsPermanent ==
    ASSUME DbInv, NEW perm, NEW path, NEW metadata, add(perm, path, metadata)
    PROVE  RegistrationKept
<1>1. CASE AddResult(perm, path, metadata) # "Ok"
  BY <1>1 DEF add, RegistrationKept, dbVars
<1>2. CASE AddResult(perm, path, metadata) = "Ok"
  <2>1. path \notin DOMAIN path_to_id
    BY <1>2 DEF AddResult, AndThen
  <2>2. next_id \notin DOMAIN entries
    BY DEF DbInv, DbTypeOK, PathsAndIdsAgree
  <2> QED
    BY <1>2, <2>1, <2>2 DEF add, Insert, RegistrationKept
<1> QED
  BY <1>1, <1>2

\* RegistrationIsPermanent for all constants: an id or a path that was looked up
\* stays what it was.
THEOREM PermanentRegistration == DbSpec => RegistrationIsPermanent
<1>1. DbInv /\ [DbNext]_dbVars => [RegistrationKept]_dbVars
  BY AddIsPermanent, UpdateIsPermanent, InputsAssumption DEF DbNext, Add, Update
<1> QED
  BY DbInvariant, <1>1, PTL DEF DbSpec, RegistrationIsPermanent

------------------------------------------------------------------------------
(* Sequences of anything *)

Elems(x) == {x[i] : i \in DOMAIN x}
IsSeq(x) == x \in Seq(Elems(x))

\* A sequence over some set is a sequence.
LEMMA SeqIsSeq ==
    ASSUME NEW S, NEW x \in Seq(S)
    PROVE  IsSeq(x)
  BY DEF IsSeq, Elems

\* The empty sequence is one.
LEMMA EmptyIsSeq == IsSeq(<< >>)
  BY DEF IsSeq, Elems

\* What Append leaves alone and what it adds.
LEMMA AppendFacts ==
    ASSUME NEW x, NEW e, IsSeq(x)
    PROVE  /\ IsSeq(Append(x, e))
           /\ Len(x) \in Nat /\ DOMAIN x = 1..Len(x)
           /\ Len(Append(x, e)) = Len(x) + 1
           /\ DOMAIN Append(x, e) = 1..(Len(x) + 1)
           /\ Append(x, e)[Len(x) + 1] = e
           /\ \A i \in 1..Len(x) : Append(x, e)[i] = x[i]
  BY DEF IsSeq, Elems

\* Tail moves every element down by one.
LEMMA TailFacts ==
    ASSUME NEW x, IsSeq(x), x # << >>
    PROVE  /\ IsSeq(Tail(x))
           /\ \A i \in DOMAIN Tail(x) :
                 i \in Nat /\ i + 1 \in DOMAIN x /\ Tail(x)[i] = x[i + 1]
<1> DEFINE S == Elems(x)
<1>1. x \in Seq(S)
  BY DEF IsSeq
<1> HIDE DEF S
<1>2. Tail(x) \in Seq(S)
  BY <1>1
<1>3. \A i \in DOMAIN Tail(x) : i \in Nat /\ i + 1 \in DOMAIN x /\ Tail(x)[i] = x[i + 1]
  BY <1>1
<1> QED
  BY Zenon, <1>2, <1>3, SeqIsSeq

------------------------------------------------------------------------------
(* The inductive invariant *)

Shape ==
    /\ DOMAIN pc = Tasks
    /\ DOMAIN dbLock = {"writer", "readers", "queue"}
    /\ DOMAIN call = Writers
    /\ \A w \in Writers :
          /\ DOMAIN call[w] = {"todo", "changed", "rejected", "commit", "recipients",
                               "outbox", "failed"}
          /\ call[w].todo \in Seq(Nat \X EntryUpdate)
    /\ DOMAIN registration = Registrars
    /\ \A r \in Registrars :
          pc[r] = "db_write" => registration[r] \in Paths \X MetadataInput
    /\ DOMAIN stream = Streams
    /\ \A s \in Streams :
          /\ DOMAIN stream[s] = {"chan", "closed", "known", "since"}
          /\ IsSeq(stream[s].chan)
    /\ IsSeq(log)
    /\ log # << >>

\* Who writes holds the lock as the writer, who notifies as a reader.
LocksHeld ==
    /\ \A t, u \in dbLock.writer : t = u
    /\ dbLock.writer # {} => dbLock.readers = {}
    /\ \A w \in Writers : pc[w] = "update" => w \in dbLock.writer
    /\ \A t \in dbLock.writer : t \in Writers /\ pc[t] = "update"
    /\ \A w \in Writers : Notifying(w) => w \in dbLock.readers

\* What the database holds is the last commit, unless someone is writing, and a
\* writer that notifies made that commit.
LastCommit ==
    /\ dbLock.writer = {} => entries = log[Len(log)]
    /\ \A w \in Writers : Notifying(w) => call[w].commit = Len(log)

\* Messages in the channels report commits of the log.
ChannelsLogged ==
    \A s \in Streams : \A i \in DOMAIN stream[s].chan :
        /\ stream[s].chan[i].commit \in 1..Len(log)
        /\ Faithful(log, s, stream[s].chan[i])

\* A message about to be sent reports the last commit.
OutboxLogged ==
    \A w \in Writers :
        pc[w] = "send" => /\ call[w].outbox[1].commit = Len(log)
                          /\ Faithful(log, Head(call[w].recipients), call[w].outbox[1])

ChannelsSorted ==
    \A s \in Streams : \A i, j \in DOMAIN stream[s].chan :
        i < j => stream[s].chan[i].commit <= stream[s].chan[j].commit

BrokerInv ==
    /\ Shape /\ DbInv /\ LocksHeld /\ LastCommit
    /\ OutboxLogged /\ ChannelsLogged /\ ChannelsSorted

------------------------------------------------------------------------------
(* Messages *)

\* A message composed from the entries of commit c reports commit c.
Reports(message, c, s) ==
    message # None => message[1].commit = c /\ Faithful(log, s, message[1])

\* The response of a query is made of the entries it is executed on.
LEMMA ExecuteReports ==
    ASSUME DbInv, NEW q \in Queriers, NEW c, entries = log[c]
    PROVE  Reports(Execute(q, c), c, q)
<1> DEFINE selected == {id \in DOMAIN entries : entries[id].metadata.path \in request[q].select}
           body == [k \in selected \X {"Datapoint"} |->
                       Some(QueryValue(q, entries[k[1]].metadata.path))]
<1>1. Execute(q, c) \in {None, Some(Message(c, body))}
  BY Zenon DEF Execute
<1>2. ASSUME NEW k \in selected \X {"Datapoint"}
      PROVE  \/ body[k] = Value(log[c][k[1]], k[2])
             \/ body[k] = Some(NotAvailable)
  <2> DEFINE path == entries[k[1]].metadata.path
  <2>1. k[1] \in DOMAIN entries /\ k[2] = "Datapoint" /\ body[k] = Some(QueryValue(q, path))
    BY Zenon
  <2>2. path_to_id[path] = k[1]
    BY <2>1 DEF DbInv, PathsAndIdsAgree
  <2>3. QueryValue(q, path) \in {entries[k[1]].datapoint, NotAvailable}
    BY <2>2 DEF QueryValue
  <2> QED
    BY <2>1, <2>3, Zenon DEF Value
<1>3. DOMAIN body = selected \X {"Datapoint"}
  OBVIOUS
<1> HIDE DEF body, selected
<1>4. Faithful(log, q, Message(c, body))
  BY <1>2, <1>3, Zenon DEF Faithful, Message
<1> QED
  BY <1>1, <1>4 DEF Reports, Some, Message

\* So is the first message of a subscription.
LEMMA InitialReports ==
    ASSUME NEW s, NEW c, entries = log[c]
    PROVE  Reports(InitialMessage(s, c), c, s)
  BY DEF Reports, InitialMessage, Faithful, Message, Some

\* So is the message about a change.
LEMMA ChangeReports ==
    ASSUME NEW s, NEW changed, NEW c, entries = log[c]
    PROVE  Reports(ChangeMessage(s, changed, c), c, s)
  BY Zenon DEF Reports, ChangeMessage, Faithful, Message, Some

\* What a writer composes for a recipient reports the entries it composes it from.
LEMMA MessageReports ==
    ASSUME DbInv, NEW s, NEW changed, NEW c, entries = log[c]
    PROVE  Reports(MessageFor(s, changed, c), c, s)
<1>1. CASE s \in Queriers
  BY <1>1, ExecuteReports DEF MessageFor, QueryMessage, Reports
<1>2. CASE s \notin Queriers
  BY <1>2, ChangeReports DEF MessageFor
<1> QED
  BY <1>1, <1>2

\* A longer log says the same of the commits it already had.
LEMMA FaithfulStays ==
    ASSUME IsSeq(log), NEW s, NEW m, m.commit \in 1..Len(log), NEW e,
           Faithful(log, s, m)
    PROVE  Faithful(Append(log, e), s, m)
  BY AppendFacts DEF Faithful

------------------------------------------------------------------------------
(* What most steps leave alone *)

\* The kinds of task are disjoint.
LEMMA Disjoint ==
    /\ Housekeeper # Terminator
    /\ \A w \in Writers : w \notin Streams /\ w \notin Registrars
    /\ \A t \in Clients : t # Housekeeper /\ t # Terminator
    /\ \A s \in Subscribers : s \notin Queriers
    /\ \A r \in Registrars : r \notin Streams
  BY TasksAssumption DEF Clients, Streams

\* No writer enters or leaves a phase that the invariant speaks of.
SamePhase ==
    \A w \in Writers :
        /\ pc'[w] = "update" <=> pc[w] = "update"
        /\ pc'[w] = "send" <=> pc[w] = "send"
        /\ Notifying(w)' <=> Notifying(w)

\* Nobody takes or gives up the database's lock, but for its queue.
SameHolders ==
    dbLock'.writer = dbLock.writer /\ dbLock'.readers = dbLock.readers

\* The database's invariant depends on the database only.
LEMMA DbInvStays == DbInv /\ UNCHANGED dbVars => DbInv'
  BY DEF DbInv, DbTypeOK, PathsAndIdsAgree, StoredValuesFit, dbVars

\* A step that leaves the database, its holders and the calls alone.
LEMMA QuietLocks ==
    ASSUME BrokerInv, UNCHANGED << dbVars, log, call >>, SamePhase, SameHolders
    PROVE  DbInv' /\ LocksHeld' /\ LastCommit' /\ OutboxLogged'
<1>1. DbInv'
  BY DbInvStays DEF BrokerInv
<1>2. LocksHeld'
  BY DEF BrokerInv, LocksHeld, SamePhase, SameHolders
<1>3. LastCommit'
  BY DEF BrokerInv, LastCommit, SamePhase, SameHolders, dbVars
<1>4. OutboxLogged'
  BY DEF BrokerInv, OutboxLogged, SamePhase
<1> QED
  BY <1>1, <1>2, <1>3, <1>4

\* A step that leaves the streams and the log alone.
LEMMA QuietStreams ==
    ASSUME BrokerInv, UNCHANGED << log, stream >>
    PROVE  ChannelsLogged' /\ ChannelsSorted'
  BY DEF BrokerInv, ChannelsLogged, ChannelsSorted

------------------------------------------------------------------------------
(* update_entries *)

\* A call begins: it joins the queue of the database's lock.
LEMMA UpdateEntriesStep ==
    ASSUME BrokerInv, NEW w \in Writers, UpdateEntries(w)
    PROVE  BrokerInv'
<1>1. PICK batch \in BatchInputs : call' = [call EXCEPT ![w] = [NoCall EXCEPT !.todo = batch]]
  BY Zenon DEF UpdateEntries
<1>2. batch \in Seq(Nat \X EntryUpdate)
  BY BrokerInputsAssumption
<1>3. Shape'
  BY <1>1, <1>2, Disjoint DEF BrokerInv, Shape, UpdateEntries, Goto, Enqueue, NoCall, Tasks, Clients
<1>4. SamePhase /\ SameHolders /\ ~Notifying(w)' /\ pc'[w] # "send"
  BY DEF BrokerInv, Shape, UpdateEntries, Goto, Enqueue, SamePhase, SameHolders, Notifying, Tasks, Clients
<1>5. DbInv'
  BY DbInvStays DEF BrokerInv, UpdateEntries
<1>6. LocksHeld'
  BY <1>4 DEF BrokerInv, LocksHeld, SamePhase, SameHolders
<1>7. \A v \in Writers : v # w => call'[v] = call[v]
  BY <1>1 DEF BrokerInv, Shape
<1>8. LastCommit' /\ OutboxLogged'
  BY <1>4, <1>7 DEF BrokerInv, UpdateEntries, LastCommit, OutboxLogged, SamePhase, SameHolders, dbVars
<1>9. ChannelsLogged' /\ ChannelsSorted'
  BY QuietStreams DEF UpdateEntries
<1> QED
  BY <1>3, <1>5, <1>6, <1>8, <1>9 DEF BrokerInv

\* The writer takes the lock when nobody holds it, so nobody notifies.
LEMMA BeginUpdateStep ==
    ASSUME BrokerInv, NEW w \in Writers, BeginUpdate(w)
    PROVE  BrokerInv'
<1>1. Shape'
  BY Disjoint DEF BrokerInv, Shape, BeginUpdate, Goto, AcquireWrite, Tasks, Clients
<1>2. /\ dbLock.writer = {} /\ dbLock.readers = {}
      /\ dbLock'.writer = {w} /\ dbLock'.readers = {}
  BY DEF BrokerInv, Shape, BeginUpdate, AcquireWrite, Acquirable
<1>3. /\ pc'[w] = "update"
      /\ \A v \in Writers : v # w => pc'[v] = pc[v]
  BY DEF BrokerInv, Shape, BeginUpdate, Goto, Tasks, Clients
<1>4. \A v \in Writers : ~Notifying(v)' /\ pc'[v] # "send"
  BY <1>2, <1>3 DEF BrokerInv, LocksHeld, Notifying
<1>5. DbInv'
  BY DbInvStays DEF BrokerInv, BeginUpdate
<1>6. LocksHeld'
  BY <1>2, <1>3, <1>4 DEF BrokerInv, LocksHeld
<1>7. LastCommit' /\ OutboxLogged'
  BY <1>2, <1>4 DEF LastCommit, OutboxLogged
<1>8. ChannelsLogged' /\ ChannelsSorted'
  BY QuietStreams DEF BeginUpdate
<1> QED
  BY <1>1, <1>5, <1>6, <1>7, <1>8 DEF BrokerInv

\* While a writer writes nobody notifies, so the log may lag behind.
LEMMA UpdateNextStep ==
    ASSUME BrokerInv, NEW w \in Writers, UpdateNext(w)
    PROVE  BrokerInv'
<1> DEFINE id == Head(call[w].todo)[1]
           update == Head(call[w].todo)[2]
<1>0. call[w].todo \in Seq(Nat \X EntryUpdate) /\ call[w].todo # << >>
  BY Zenon DEF BrokerInv, Shape, UpdateNext
<1>1. update \in EntryUpdate /\ Tail(call[w].todo) \in Seq(Nat \X EntryUpdate)
  BY <1>0
<1>2. DbInv'
  <2>1. update_entry(Permission(w), id, update)
    BY Zenon DEF UpdateNext
  <2> QED
    BY <1>1, <2>1, UpdateKeepsDbInv DEF BrokerInv
<1>3. /\ DOMAIN call' = Writers
      /\ call'[w].todo = Tail(call[w].todo)
      /\ DOMAIN call'[w] = DOMAIN call[w]
      /\ \A v \in Writers : v # w => call'[v] = call[v]
  BY Zenon DEF BrokerInv, Shape, UpdateNext
<1>4. Shape'
  <2>1. UNCHANGED << lockVars, pc, registration, stream, log >>
    BY Zenon DEF UpdateNext
  <2> QED
    BY Zenon, <1>1, <1>3, <2>1 DEF BrokerInv, Shape, lockVars
<1>5. w \in dbLock.writer /\ dbLock.readers = {}
  BY Zenon DEF BrokerInv, LocksHeld, UpdateNext
<1>6. LocksHeld'
  BY Zenon DEF BrokerInv, LocksHeld, UpdateNext, lockVars, Notifying
<1>7. LastCommit' /\ OutboxLogged'
  <2>1. \A v \in Writers : ~Notifying(v)
    BY <1>5 DEF BrokerInv, LocksHeld
  <2>2. \A v \in Writers : ~Notifying(v)' /\ pc'[v] # "send"
    BY Zenon, <2>1 DEF UpdateNext, Notifying
  <2>3. dbLock'.writer # {}
    BY Zenon, <1>5 DEF UpdateNext, lockVars
  <2> QED
    BY <2>2, <2>3 DEF LastCommit, OutboxLogged
<1>8. ChannelsLogged' /\ ChannelsSorted'
  BY Zenon, QuietStreams DEF UpdateNext
<1> QED
  BY <1>2, <1>4, <1>6, <1>7, <1>8 DEF BrokerInv

\* A new commit: nobody else notifies, so the log's last commit is the writer's.
LEMMA DowngradeLockStep ==
    ASSUME BrokerInv, NEW w \in Writers, DowngradeLock(w)
    PROVE  BrokerInv'
<1>1. /\ log' = Append(log, entries)
      /\ IsSeq(log') /\ log' # << >>
      /\ Len(log) \in Nat /\ Len(log') = Len(log) + 1
      /\ log'[Len(log')] = entries
  <2>1. IsSeq(log) /\ log' = Append(log, entries)
    BY DEF DowngradeLock, BrokerInv, Shape
  <2>2. DOMAIN log' # DOMAIN << >>
    BY <2>1, AppendFacts
  <2> QED
    BY <2>1, <2>2, AppendFacts
<1>2. dbLock.writer = {w} /\ dbLock.readers = {}
  BY DEF BrokerInv, LocksHeld, DowngradeLock
<1>3. dbLock'.writer = {} /\ dbLock'.readers = {w}
  BY <1>2 DEF BrokerInv, Shape, DowngradeLock, Downgrade
<1>4. /\ pc'[w] = "downgraded"
      /\ \A v \in Writers : v # w => pc'[v] = pc[v]
  BY DEF BrokerInv, Shape, DowngradeLock, Goto, Tasks, Clients
<1>5. \A v \in Writers : v # w => ~Notifying(v) /\ pc[v] # "update"
  BY <1>2 DEF BrokerInv, LocksHeld
<1>6. /\ DOMAIN call' = Writers
      /\ call'[w].commit = Len(log')
      /\ call'[w].todo = call[w].todo
      /\ DOMAIN call'[w] = DOMAIN call[w]
      /\ \A v \in Writers : v # w => call'[v] = call[v]
  BY <1>1 DEF BrokerInv, Shape, DowngradeLock
<1>7. Shape'
  BY <1>1, <1>6, Disjoint DEF BrokerInv, Shape, DowngradeLock, Downgrade, Goto, Tasks, Clients
<1>8. DbInv'
  BY DbInvStays DEF BrokerInv, DowngradeLock
<1>9. LocksHeld'
  BY <1>3, <1>4, <1>5 DEF LocksHeld, Notifying
<1>10. LastCommit'
  BY <1>1, <1>4, <1>5, <1>6 DEF LastCommit, Notifying, DowngradeLock, dbVars
<1>11. OutboxLogged'
  BY <1>4, <1>5, Zenon DEF OutboxLogged, Notifying
<1>12. ChannelsLogged' /\ ChannelsSorted'
  <2>1. UNCHANGED stream
    BY DEF DowngradeLock
  <2>2. \A s \in Streams : \A i \in DOMAIN stream[s].chan :
           Faithful(log', s, stream[s].chan[i])
    BY <1>1, FaithfulStays DEF BrokerInv, Shape, ChannelsLogged
  <2> QED
    BY <1>1, <2>1, <2>2 DEF BrokerInv, ChannelsLogged, ChannelsSorted
<1> QED
  BY <1>7, <1>8, <1>9, <1>10, <1>11, <1>12 DEF BrokerInv

\* Steps that wait for the subscriptions, or clean them up.
LEMMA WaitingSteps ==
    ASSUME BrokerInv, NEW w \in Writers,
           RequestSubsRead(w) \/ RequestCleanup(w) \/ Cleanup(w)
    PROVE  BrokerInv'
<1>1. Shape'
  BY Disjoint, Zenon DEF BrokerInv, Shape, RequestSubsRead, RequestCleanup, Cleanup, Goto, Tasks, Clients
<1>2. SamePhase /\ SameHolders
  BY DEF BrokerInv, Shape, RequestSubsRead, RequestCleanup, Cleanup, Goto, SamePhase,
         SameHolders, Notifying, Tasks, Clients
<1>3. UNCHANGED << dbVars, log, call, stream >>
  BY DEF RequestSubsRead, RequestCleanup, Cleanup
<1> QED
  BY <1>1, <1>2, <1>3, QuietLocks, QuietStreams, Zenon DEF BrokerInv

\* The recipients are copied; the commit stays.
LEMMA BeginNotifyStep ==
    ASSUME BrokerInv, NEW w \in Writers, BeginNotify(w)
    PROVE  BrokerInv'
<1>1. /\ DOMAIN call' = Writers
      /\ call'[w].commit = call[w].commit
      /\ call'[w].todo = call[w].todo
      /\ DOMAIN call'[w] = DOMAIN call[w]
      /\ \A v \in Writers : v # w => call'[v] = call[v]
  BY DEF BrokerInv, Shape, BeginNotify
<1>2. /\ pc[w] = "subs_read" /\ pc'[w] = "notify"
      /\ \A v \in Writers : v # w => pc'[v] = pc[v]
      /\ SamePhase
  BY DEF BrokerInv, Shape, BeginNotify, Goto, SamePhase, Notifying, Tasks, Clients
<1>3. Shape'
  BY <1>1, Disjoint DEF BrokerInv, Shape, BeginNotify, Goto, Tasks, Clients
<1>4. DbInv'
  BY DbInvStays DEF BrokerInv, BeginNotify
<1>5. LocksHeld'
  BY <1>2 DEF BrokerInv, LocksHeld, SamePhase, BeginNotify
<1>6. LastCommit' /\ OutboxLogged'
  BY <1>1, <1>2 DEF BrokerInv, LastCommit, OutboxLogged, SamePhase, BeginNotify, dbVars
<1>7. ChannelsLogged' /\ ChannelsSorted'
  BY QuietStreams DEF BeginNotify
<1> QED
  BY <1>3, <1>4, <1>5, <1>6, <1>7 DEF BrokerInv

\* The argument in one lemma: a writer that notifies finds its own commit.
LEMMA NotifiersSeeTheirCommit ==
    ASSUME BrokerInv, NEW w \in Writers, Notifying(w)
    PROVE  call[w].commit = Len(log) /\ entries = log[call[w].commit]
  BY DEF BrokerInv, LocksHeld, LastCommit

\* A message is composed from the writer's own commit.
LEMMA ComposeStep ==
    ASSUME BrokerInv, NEW w \in Writers, Compose(w)
    PROVE  BrokerInv'
<1> DEFINE s == Head(call[w].recipients)
           message == MessageFor(s, call[w].changed, call[w].commit)
<1>1. pc[w] = "notify" /\ Notifying(w)
  BY DEF Compose, Notifying
<1>2. Reports(message, Len(log), s)
  BY <1>1, NotifiersSeeTheirCommit, MessageReports DEF BrokerInv
<1>3. /\ DOMAIN call' = Writers
      /\ call'[w].commit = call[w].commit
      /\ call'[w].todo = call[w].todo
      /\ DOMAIN call'[w] = DOMAIN call[w]
      /\ \A v \in Writers : v # w => call'[v] = call[v]
  BY DEF BrokerInv, Shape, Compose
<1>4. \/ message = None /\ pc' = pc
      \/ /\ message # None
         /\ pc' = [pc EXCEPT ![w] = "send"]
         /\ call'[w].outbox = message
         /\ call'[w].recipients = call[w].recipients
  BY DEF BrokerInv, Shape, Compose, Goto
<1>5. UNCHANGED << dbVars, dbLock, registration, stream, log >>
  BY DEF Compose, lockVars
<1> HIDE DEF message
<1>6. /\ \A v \in Writers : v # w => pc'[v] = pc[v]
      /\ pc'[w] \in {"notify", "send"}
      /\ pc'[w] = "send" => message # None
      /\ \A v \in Writers : Notifying(v)' <=> Notifying(v)
  BY <1>1, <1>4 DEF BrokerInv, Shape, Notifying, Tasks, Clients
<1>7. Shape'
  BY Zenon, <1>3, <1>4, <1>5, Disjoint DEF BrokerInv, Shape, Tasks, Clients
<1>8. DbInv'
  BY <1>5, DbInvStays DEF BrokerInv
<1>9. LocksHeld'
  BY <1>1, <1>5, <1>6 DEF BrokerInv, LocksHeld
<1>10. LastCommit'
  BY <1>3, <1>5, <1>6, Zenon DEF BrokerInv, LastCommit, dbVars
<1>11. OutboxLogged'
  <2>1. pc'[w] = "send" => /\ call'[w].outbox[1].commit = Len(log)
                           /\ Faithful(log, Head(call'[w].recipients), call'[w].outbox[1])
    BY <1>1, <1>2, <1>4, <1>6 DEF Reports
  <2> QED
    BY <1>3, <1>5, <1>6, <2>1, Zenon DEF BrokerInv, OutboxLogged
<1>12. ChannelsLogged' /\ ChannelsSorted'
  BY <1>5, QuietStreams, Zenon
<1> QED
  BY <1>7, <1>8, <1>9, <1>10, <1>11, <1>12 DEF BrokerInv

\* A message that reports the last commit keeps channels faithful and sorted.
LEMMA DeliverKeepsChannels ==
    ASSUME BrokerInv, NEW s, NEW m, m.commit = Len(log), Faithful(log, s, m),
           Deliver(s, m), UNCHANGED log
    PROVE  /\ ChannelsLogged' /\ ChannelsSorted'
           /\ DOMAIN stream' = Streams
           /\ \A x \in Streams : /\ DOMAIN stream'[x] = DOMAIN stream[x]
                                 /\ IsSeq(stream'[x].chan)
<1>1. Len(log) \in Nat /\ Len(log) \in 1..Len(log)
  <2>1. log \in Seq(Elems(log)) /\ log # << >>
    BY DEF BrokerInv, Shape, IsSeq
  <2> QED
    BY <2>1
<1>2. /\ DOMAIN stream' = Streams
      /\ \A x \in Streams : DOMAIN stream'[x] = DOMAIN stream[x]
      /\ \A x \in Streams : x # s => stream'[x] = stream[x]
      /\ s \in Streams => stream'[s].chan = Append(stream[s].chan, m)
  BY Zenon DEF BrokerInv, Shape, Deliver
<1>3. ASSUME NEW x \in Streams
      PROVE  /\ IsSeq(stream'[x].chan)
             /\ \A i \in DOMAIN stream'[x].chan :
                   /\ stream'[x].chan[i].commit \in 1..Len(log)
                   /\ Faithful(log, x, stream'[x].chan[i])
             /\ \A i, j \in DOMAIN stream'[x].chan :
                   i < j => stream'[x].chan[i].commit <= stream'[x].chan[j].commit
  <2> DEFINE c == stream[x].chan
             n == Len(c)
  <2>1. /\ IsSeq(c)
        /\ \A i \in DOMAIN c : c[i].commit \in 1..Len(log) /\ Faithful(log, x, c[i])
        /\ \A i, j \in DOMAIN c : i < j => c[i].commit <= c[j].commit
    BY ZenonT(30) DEF BrokerInv, Shape, ChannelsLogged, ChannelsSorted
  <2> HIDE DEF c
  <2>2. CASE x # s
    BY <1>2, <2>1, <2>2, Zenon DEF c
  <2>3. CASE x = s
    <3>1. stream'[x].chan = Append(c, m)
      BY <1>2, <2>3 DEF c
    <3>2. /\ IsSeq(Append(c, m))
          /\ n \in Nat /\ DOMAIN c = 1..n /\ DOMAIN Append(c, m) = 1..(n + 1)
          /\ Append(c, m)[n + 1] = m
          /\ \A i \in 1..n : Append(c, m)[i] = c[i]
      BY <2>1, AppendFacts
    <3> DEFINE d == Append(c, m)
    <3> HIDE DEF d, n
    <3>3. \A i \in DOMAIN d : d[i].commit \in 1..Len(log) /\ Faithful(log, x, d[i])
      BY <1>1, <2>1, <2>3, <3>2 DEF d
    <3>4. \A i, j \in DOMAIN d : i < j => d[i].commit <= d[j].commit
      <4> SUFFICES ASSUME NEW i \in 1..(n + 1), NEW j \in 1..(n + 1), i < j
                   PROVE  d[i].commit <= d[j].commit
        BY <3>2 DEF d
      <4>1. i \in 1..n /\ d[i] = c[i] /\ c[i].commit \in 1..Len(log)
        BY <2>1, <3>2 DEF d
      <4>2. CASE j = n + 1
        BY <1>1, <3>2, <4>1, <4>2 DEF d
      <4>3. CASE j \in 1..n
        BY <2>1, <3>2, <4>1, <4>3 DEF d
      <4> QED
        BY <3>2, <4>2, <4>3
    <3> QED
      BY <3>1, <3>2, <3>3, <3>4, Zenon DEF d
  <2> QED
    BY <2>2, <2>3
<1> QED
  BY <1>2, <1>3 DEF ChannelsLogged, ChannelsSorted

\* The message goes into its channel behind older ones, or nowhere.
LEMMA SendStep ==
    ASSUME BrokerInv, NEW w \in Writers, Send(w)
    PROVE  BrokerInv'
<1>1. /\ DOMAIN call' = Writers
      /\ call'[w].commit = call[w].commit
      /\ call'[w].todo = call[w].todo
      /\ DOMAIN call'[w] = DOMAIN call[w]
      /\ \A v \in Writers : v # w => call'[v] = call[v]
  BY DEF BrokerInv, Shape, Send
<1>2. /\ pc[w] = "send" /\ pc'[w] = "notify"
      /\ \A v \in Writers : v # w => pc'[v] = pc[v]
      /\ \A v \in Writers : Notifying(v)' <=> Notifying(v)
  BY Zenon DEF BrokerInv, Shape, Send, Goto, Notifying, Tasks, Clients
<1>3. UNCHANGED << dbVars, dbLock, registration, log >>
  BY Zenon DEF Send, lockVars
<1>4. /\ ChannelsLogged' /\ ChannelsSorted'
      /\ DOMAIN stream' = Streams
      /\ \A x \in Streams : DOMAIN stream'[x] = DOMAIN stream[x] /\ IsSeq(stream'[x].chan)
  <2>1. CASE UNCHANGED stream
    BY <1>3, <2>1, QuietStreams DEF BrokerInv, Shape
  <2>2. CASE Deliver(Head(call[w].recipients), call[w].outbox[1])
    <3>1. /\ call[w].outbox[1].commit = Len(log)
          /\ Faithful(log, Head(call[w].recipients), call[w].outbox[1])
      BY <1>2, Zenon DEF BrokerInv, OutboxLogged
    <3> QED
      BY <1>3, <2>2, <3>1, DeliverKeepsChannels, ZenonT(30)
  <2> QED
    BY <2>1, <2>2, Zenon DEF Send
<1>5. Shape'
  <2>1. DOMAIN pc' = Tasks /\ \A r \in Registrars : pc'[r] = pc[r]
    BY Disjoint DEF BrokerInv, Shape, Send, Goto, Tasks, Clients
  <2> QED
    BY ZenonT(30), <1>1, <1>3, <1>4, <2>1 DEF BrokerInv, Shape
<1>6. DbInv'
  BY <1>3, DbInvStays, Zenon DEF BrokerInv
<1>7. LocksHeld'
  BY <1>2, <1>3, Zenon DEF BrokerInv, LocksHeld
<1>8. LastCommit' /\ OutboxLogged'
  BY <1>1, <1>2, <1>3, Zenon DEF BrokerInv, LastCommit, OutboxLogged, dbVars
<1> QED
  BY <1>4, <1>5, <1>6, <1>7, <1>8, Zenon DEF BrokerInv

\* A writer that lets go of the database, at the end of its call or cut short.
LEMMA WriterLetsGo ==
    ASSUME BrokerInv, NEW w \in Writers, pc[w] # "update", NEW label,
           label \in {"idle", "cleanup_wanted"}, Goto(w, label),
           call' = [call EXCEPT ![w] = NoCall],
           DOMAIN dbLock' = DOMAIN dbLock,
           dbLock'.writer = dbLock.writer \ {w},
           dbLock'.readers = dbLock.readers \ {w},
           UNCHANGED << dbVars, registration, stream, log >>
    PROVE  BrokerInv'
<1>1. /\ DOMAIN call' = Writers
      /\ DOMAIN call'[w] = DOMAIN call[w]
      /\ call'[w].todo = << >>
      /\ \A v \in Writers : v # w => call'[v] = call[v]
  BY Zenon DEF BrokerInv, Shape, NoCall
<1>2. /\ DOMAIN pc' = Tasks
      /\ pc'[w] = label /\ ~Notifying(w)' /\ pc'[w] # "send" /\ pc'[w] # "update"
      /\ \A v \in Writers : v # w => pc'[v] = pc[v] /\ (Notifying(v)' <=> Notifying(v))
      /\ \A r \in Registrars : pc'[r] = pc[r]
  BY Disjoint DEF BrokerInv, Shape, Goto, Notifying, Tasks, Clients
<1>3. dbLock'.writer = dbLock.writer
  <2>1. w \notin dbLock.writer
    BY DEF BrokerInv, LocksHeld
  <2> QED
    BY <2>1, Zenon
<1>4. << >> \in Seq(Nat \X EntryUpdate)
  OBVIOUS
<1>5. Shape'
  BY Zenon, <1>1, <1>2, <1>4 DEF BrokerInv, Shape
<1>6. DbInv'
  BY DbInvStays DEF BrokerInv
<1>7. LocksHeld'
  BY <1>2, <1>3 DEF BrokerInv, LocksHeld
<1>8. LastCommit'
  BY <1>1, <1>2, <1>3 DEF BrokerInv, LastCommit, dbVars
<1>9. OutboxLogged'
  BY <1>1, <1>2, ZenonT(30) DEF BrokerInv, OutboxLogged
<1>10. ChannelsLogged' /\ ChannelsSorted'
  BY QuietStreams
<1> QED
  BY <1>5, <1>6, <1>7, <1>8, <1>9, <1>10 DEF BrokerInv

\* The call is over and both guards are dropped.
LEMMA EndNotifyStep ==
    ASSUME BrokerInv, NEW w \in Writers, EndNotify(w)
    PROVE  BrokerInv'
<1>1. /\ DOMAIN dbLock' = DOMAIN dbLock
      /\ dbLock'.writer = dbLock.writer \ {w}
      /\ dbLock'.readers = dbLock.readers \ {w}
  BY DEF BrokerInv, Shape, EndNotify, Release
<1>2. PICK label \in {"idle", "cleanup_wanted"} : Goto(w, label)
  BY DEF EndNotify
<1> QED
  BY Zenon, <1>1, <1>2, WriterLetsGo DEF EndNotify

------------------------------------------------------------------------------
(* subscribe, subscribe_query and the other tasks *)

\* Readers may come and go, but for writers that notify, and only if nobody writes.
HoldersKept ==
    /\ DOMAIN dbLock' = DOMAIN dbLock
    /\ dbLock'.writer = dbLock.writer
    /\ dbLock.writer # {} => dbLock'.readers \subseteq dbLock.readers
    /\ \A w \in Writers : w \in dbLock.readers => w \in dbLock'.readers

RegistrationsKept ==
    /\ DOMAIN registration' = Registrars
    /\ \A r \in Registrars :
          pc'[r] = "db_write" => registration'[r] \in Paths \X MetadataInput

StreamsKept ==
    /\ DOMAIN stream' = Streams
    /\ \A s \in Streams : DOMAIN stream'[s] = DOMAIN stream[s] /\ IsSeq(stream'[s].chan)
    /\ ChannelsLogged' /\ ChannelsSorted'

\* A step of a task that is no writer and does not touch the database.
LEMMA OtherSteps ==
    ASSUME BrokerInv, NEW t, t \notin Writers, NEW label, Goto(t, label) \/ UNCHANGED pc,
           UNCHANGED << dbVars, log, call >>,
           HoldersKept, RegistrationsKept, StreamsKept
    PROVE  BrokerInv'
<1>1. Shape'
  BY DEF BrokerInv, Shape, Goto, HoldersKept, RegistrationsKept, StreamsKept
<1>2. \A w \in Writers : pc'[w] = pc[w] /\ (Notifying(w)' <=> Notifying(w))
  BY DEF BrokerInv, Shape, Goto, Notifying, Tasks, Clients
<1>3. DbInv'
  BY DbInvStays DEF BrokerInv
<1>4. LocksHeld'
  BY <1>2, Zenon DEF BrokerInv, LocksHeld, HoldersKept
<1>5. LastCommit' /\ OutboxLogged'
  BY <1>2 DEF BrokerInv, LastCommit, OutboxLogged, HoldersKept, dbVars
<1> QED
  BY <1>1, <1>3, <1>4, <1>5, Zenon DEF BrokerInv, StreamsKept

\* A step that begins no registration.
LEMMA SameRegistrations ==
    ASSUME BrokerInv, NEW t, NEW label, Goto(t, label) \/ UNCHANGED pc,
           label = "db_write" => t \notin Registrars, UNCHANGED registration
    PROVE  RegistrationsKept
  BY DEF BrokerInv, Shape, Goto, RegistrationsKept, Tasks, Clients

\* A step that leaves streams and log alone keeps the streams.
LEMMA SameStreams ==
    ASSUME BrokerInv, UNCHANGED << log, stream >>
    PROVE  StreamsKept
  BY QuietStreams, Zenon DEF BrokerInv, Shape, StreamsKept

\* The streams differ at most in what the invariant does not speak of.
LEMMA SameChannels ==
    ASSUME BrokerInv, UNCHANGED log, DOMAIN stream' = Streams,
           \A s \in Streams : DOMAIN stream'[s] = DOMAIN stream[s] /\ stream'[s].chan = stream[s].chan
    PROVE  StreamsKept
  BY DEF BrokerInv, Shape, StreamsKept, ChannelsLogged, ChannelsSorted

\* A client reads the first message of its channel, or drops the channel.
LEMMA FewerMessages ==
    ASSUME BrokerInv, UNCHANGED log, NEW s \in Streams, DOMAIN stream' = Streams,
           DOMAIN stream'[s] = DOMAIN stream[s],
           \A x \in Streams : x # s => stream'[x] = stream[x],
           \/ stream'[s].chan = << >>
           \/ stream[s].chan # << >> /\ stream'[s].chan = Tail(stream[s].chan)
    PROVE  StreamsKept
<1>1. CASE stream'[s].chan = << >>
  <2>1. IsSeq(stream'[s].chan) /\ DOMAIN stream'[s].chan = {}
    BY <1>1, EmptyIsSeq
  <2>2. ChannelsLogged'
    BY <2>1 DEF BrokerInv, ChannelsLogged
  <2>3. ChannelsSorted'
    BY <2>1 DEF BrokerInv, ChannelsSorted
  <2> QED
    BY <2>1, <2>2, <2>3 DEF BrokerInv, Shape, StreamsKept
<1>2. CASE stream[s].chan # << >> /\ stream'[s].chan = Tail(stream[s].chan)
  <2>1. /\ IsSeq(stream'[s].chan)
        /\ \A i \in DOMAIN stream'[s].chan :
              i \in Nat /\ i + 1 \in DOMAIN stream[s].chan
                        /\ stream'[s].chan[i] = stream[s].chan[i + 1]
    BY <1>2, TailFacts DEF BrokerInv, Shape
  <2>2. ChannelsLogged'
    BY <2>1 DEF BrokerInv, ChannelsLogged
  <2>3. ChannelsSorted'
    <3>1. \A i, j \in DOMAIN stream'[s].chan : i < j => i + 1 < j + 1
      BY <2>1
    <3> QED
      BY <2>1, <3>1 DEF BrokerInv, ChannelsSorted
  <2> QED
    BY <2>1, <2>2, <2>3 DEF BrokerInv, Shape, StreamsKept
<1> QED
  BY <1>1, <1>2, Zenon

\* Steps of subscribers, queriers, the housekeeper and the terminator that touch
\* nothing but queues, subscriptions and requests.
LEMMA WaitingOthers ==
    ASSUME BrokerInv, NEW t, t \notin Writers, t \notin Registrars,
           \/ Subscribe(t) \/ SubscribeQuery(t) \/ RequestSubsWrite(t)
           \/ RequestCleanup(t) \/ Cleanup(t)
           \/ t = Terminator /\ (RequestShutdown \/ Shutdown)
    PROVE  BrokerInv'
<1>1. PICK label : Goto(t, label)
  BY ZenonT(30) DEF Subscribe, SubscribeQuery, RequestSubsWrite, RequestCleanup, Cleanup,
         RequestShutdown, Shutdown
<1>2. UNCHANGED << dbVars, log, call, registration, stream >>
  BY Zenon DEF Subscribe, SubscribeQuery, RequestSubsWrite, RequestCleanup, Cleanup,
         RequestShutdown, Shutdown
<1>3. HoldersKept
  <2>1. \/ UNCHANGED dbLock
        \/ dbLock' = Enqueue(dbLock, t, "read")
    BY Zenon DEF Subscribe, SubscribeQuery, RequestSubsWrite, RequestCleanup, Cleanup,
           RequestShutdown, Shutdown
  <2> QED
    BY ZenonT(30), <2>1 DEF BrokerInv, Shape, Enqueue, HoldersKept
<1> QED
  BY <1>1, <1>2, <1>3, SameRegistrations, SameStreams, OtherSteps

\* Nobody writes when the first message is composed: it reports the last commit.
LEMMA InitialNotificationStep ==
    ASSUME BrokerInv, NEW s \in Subscribers, InitialNotification(s)
    PROVE  BrokerInv'
<1>1. s \notin Writers /\ s \notin Registrars
  BY Disjoint DEF Streams
<1>2. entries = log[Len(log)]
  BY Zenon DEF InitialNotification, Acquirable, BrokerInv, LastCommit
<1>3. HoldersKept
  BY DEF InitialNotification, BrokerInv, Shape, Pass, HoldersKept
<1>4. StreamsKept
  <2>1. InitialMessage(s, Len(log)) # None
    BY DEF InitialMessage, Some, None
  <2>2. /\ InitialMessage(s, Len(log))[1].commit = Len(log)
        /\ Faithful(log, s, InitialMessage(s, Len(log))[1])
    BY <1>2, <2>1, InitialReports DEF Reports
  <2> QED
    BY <2>2, DeliverKeepsChannels, ZenonT(30) DEF InitialNotification, StreamsKept
<1> QED
  BY <1>1, <1>3, <1>4, SameRegistrations, OtherSteps DEF InitialNotification

\* Nobody writes when a query is first executed: its response reports the last commit.
LEMMA CompileQueryStep ==
    ASSUME BrokerInv, NEW q \in Queriers, CompileQuery(q)
    PROVE  BrokerInv'
<1>1. q \notin Writers /\ q \notin Registrars
  BY Disjoint DEF Streams
<1>2. dbLock.writer = {} /\ entries = log[Len(log)]
  BY Zenon DEF CompileQuery, Acquirable, BrokerInv, LastCommit
<1>3. HoldersKept
  <2>1. dbLock' = Pass(dbLock) \/ dbLock' = AcquireRead(dbLock, q)
    BY Zenon DEF CompileQuery
  <2> QED
    BY ZenonT(30), <1>2, <2>1 DEF BrokerInv, Shape, Pass, AcquireRead, HoldersKept
<1>4. StreamsKept
  <2> DEFINE message == Execute(q, Len(log))
  <2>1. Reports(message, Len(log), q)
    BY <1>2, ExecuteReports DEF BrokerInv
  <2>2. UNCHANGED log /\ (UNCHANGED stream \/ (message # None /\ Deliver(q, message[1])))
    BY Zenon DEF CompileQuery
  <2> HIDE DEF message
  <2> QED
    BY <2>1, <2>2, SameStreams, DeliverKeepsChannels DEF StreamsKept, Reports
<1>5. PICK label : Goto(q, label)
  <2>1. Goto(q, "notified") \/ Goto(q, "refused")
    BY Zenon DEF CompileQuery
  <2> QED
    BY Zenon, <2>1
<1> QED
  BY Zenon, <1>1, <1>3, <1>4, <1>5, SameRegistrations, OtherSteps DEF CompileQuery

\* A subscription is added; a querier gives its read lock back.
LEMMA AddSubscriptionSteps ==
    ASSUME BrokerInv, NEW s \in Streams, AddChangeSubscription(s) \/ AddQuerySubscription(s)
    PROVE  BrokerInv'
<1>1. s \notin Writers /\ s \notin Registrars
  BY Disjoint
<1>2. HoldersKept
  <2>1. dbLock' = dbLock \/ dbLock' = Release(dbLock, s)
    BY DEF AddChangeSubscription, AddQuerySubscription
  <2>2. s \notin dbLock.writer
    BY <1>1 DEF BrokerInv, LocksHeld
  <2>3. CASE dbLock' = dbLock
    BY <2>3 DEF HoldersKept
  <2>4. CASE dbLock' = Release(dbLock, s)
    <3>1. /\ DOMAIN dbLock' = DOMAIN dbLock
          /\ dbLock'.writer = dbLock.writer \ {s}
          /\ dbLock'.readers = dbLock.readers \ {s}
      BY <2>4 DEF BrokerInv, Shape, Release
    <3> QED
      BY <1>1, <2>2, <3>1 DEF HoldersKept
  <2> QED
    BY <2>1, <2>3, <2>4
<1>3. StreamsKept
  <2>1. UNCHANGED log /\ stream' = [stream EXCEPT ![s].since = Len(log)]
    BY DEF AddChangeSubscription, AddQuerySubscription
  <2> QED
    BY <2>1, SameChannels DEF BrokerInv, Shape
<1> QED
  BY <1>1, <1>2, <1>3, SameRegistrations, OtherSteps
     DEF AddChangeSubscription, AddQuerySubscription

\* What a client does with its stream.
LEMMA ClientSteps ==
    ASSUME BrokerInv, NEW s \in Streams, Receive(s) \/ Leave(s) \/ EndOfStream(s)
    PROVE  BrokerInv'
<1>1. s \notin Writers /\ s \notin Registrars
  BY Disjoint
<1>2. UNCHANGED << dbVars, dbLock, log, call, registration >>
  BY DEF Receive, Leave, EndOfStream, clientUnchanged, lockVars
<1>3. HoldersKept
  BY <1>2 DEF HoldersKept
<1>4. StreamsKept
  <2>1. CASE Receive(s)
    <3>1. /\ DOMAIN stream' = Streams /\ DOMAIN stream'[s] = DOMAIN stream[s]
          /\ \A x \in Streams : x # s => stream'[x] = stream[x]
          /\ stream[s].chan # << >> /\ stream'[s].chan = Tail(stream[s].chan)
      BY <2>1 DEF Receive, BrokerInv, Shape
    <3> QED
      BY <1>2, <3>1, FewerMessages
  <2>2. CASE Leave(s)
    <3>1. /\ DOMAIN stream' = Streams /\ DOMAIN stream'[s] = DOMAIN stream[s]
          /\ \A x \in Streams : x # s => stream'[x] = stream[x]
          /\ stream'[s].chan = << >>
      BY <2>2, Zenon DEF Leave, BrokerInv, Shape
    <3> QED
      BY <1>2, <3>1, FewerMessages
  <2>3. CASE EndOfStream(s)
    BY <1>2, <2>3, SameStreams DEF EndOfStream
  <2> QED
    BY <2>1, <2>2, <2>3
<1>5. PICK label : Goto(s, label) \/ UNCHANGED pc
  BY DEF Receive, Leave, EndOfStream
<1> QED
  BY <1>1, <1>2, <1>3, <1>4, <1>5, SameRegistrations, OtherSteps

------------------------------------------------------------------------------
(* add_entry, expiry and dropped futures *)

\* A registrar joins the queue of the database's lock.
LEMMA RequestAddStep ==
    ASSUME BrokerInv, NEW r \in Registrars, RequestAdd(r)
    PROVE  BrokerInv'
<1>1. r \notin Writers
  BY Disjoint
<1>2. RegistrationsKept
  <2>1. PICK path \in Paths, metadata \in MetadataInputs :
           registration' = [registration EXCEPT ![r] = << path, metadata >>]
    BY Zenon DEF RequestAdd
  <2>2. metadata \in MetadataInput
    BY InputsAssumption
  <2>3. registration'[r] \in Paths \X MetadataInput
    BY <2>1, <2>2 DEF BrokerInv, Shape
  <2>4. /\ DOMAIN registration' = Registrars
        /\ \A x \in Registrars : x # r => registration'[x] = registration[x] /\ pc'[x] = pc[x]
    BY Zenon, <2>1 DEF BrokerInv, Shape, RequestAdd, Goto, Tasks, Clients
  <2> QED
    BY <2>3, <2>4 DEF BrokerInv, Shape, RegistrationsKept
<1>3. HoldersKept
  BY DEF RequestAdd, BrokerInv, Shape, Enqueue, HoldersKept
<1>4. StreamsKept
  BY SameStreams DEF RequestAdd
<1> QED
  BY <1>1, <1>2, <1>3, <1>4, OtherSteps DEF RequestAdd

\* A registration is a commit of its own, made when nobody notifies.
LEMMA AddEntryStep ==
    ASSUME BrokerInv, NEW r \in Registrars, AddEntry(r)
    PROVE  BrokerInv'
<1>1. /\ log' = Append(log, entries')
      /\ IsSeq(log') /\ log' # << >>
      /\ Len(log) \in Nat /\ Len(log') = Len(log) + 1
      /\ log'[Len(log')] = entries'
  <2>1. IsSeq(log) /\ log' = Append(log, entries')
    BY Zenon DEF AddEntry, BrokerInv, Shape
  <2>2. DOMAIN log' # DOMAIN << >>
    BY <2>1, AppendFacts
  <2> QED
    BY <2>1, <2>2, AppendFacts
<1>2. dbLock.writer = {} /\ dbLock.readers = {}
  BY DEF AddEntry, Acquirable
<1>3. dbLock'.writer = {} /\ dbLock'.readers = {} /\ DOMAIN dbLock' = DOMAIN dbLock
  BY <1>2 DEF AddEntry, Pass, BrokerInv, Shape
<1>4. \A w \in Writers : ~Notifying(w) /\ pc[w] # "update" /\ pc[w] # "send"
  BY <1>2 DEF BrokerInv, LocksHeld, Notifying
<1>5. \A w \in Writers : pc'[w] = pc[w] /\ ~Notifying(w)'
  BY <1>4, Disjoint, ZenonT(30) DEF BrokerInv, Shape, AddEntry, Goto, Notifying, Tasks, Clients
<1>6. DbInv'
  <2>1. registration[r] \in Paths \X MetadataInput
    BY DEF AddEntry, BrokerInv, Shape
  <2>2. registration[r][1] \in Paths /\ registration[r][2] \in MetadataInput
    BY <2>1, Zenon
  <2>3. add(Permission(r), registration[r][1], registration[r][2])
    BY DEF AddEntry
  <2> QED
    BY <2>2, <2>3, AddKeepsDbInv DEF BrokerInv
<1>7. Shape'
  BY <1>1, <1>3, Zenon DEF BrokerInv, Shape, AddEntry, Goto, Tasks, Clients
<1>8. LocksHeld'
  BY ZenonT(30), <1>3, <1>4, <1>5 DEF LocksHeld
<1>9. LastCommit' /\ OutboxLogged'
  BY <1>1, <1>4, <1>5, ZenonT(30) DEF LastCommit, OutboxLogged
<1>10. ChannelsLogged' /\ ChannelsSorted'
  <2>1. UNCHANGED stream
    BY Zenon DEF AddEntry
  <2>2. \A s \in Streams : \A i \in DOMAIN stream[s].chan :
           Faithful(log', s, stream[s].chan[i])
    BY <1>1, FaithfulStays, Zenon DEF BrokerInv, Shape, ChannelsLogged
  <2> QED
    BY <1>1, <2>1, <2>2 DEF BrokerInv, ChannelsLogged, ChannelsSorted
<1> QED
  BY <1>6, <1>7, <1>8, <1>9, <1>10 DEF BrokerInv

\* Nothing in the invariant depends on who has expired.
LEMMA UnseenSteps ==
    ASSUME BrokerInv,
           UNCHANGED << dbVars, dbLock, pc, call, registration, stream, log >>
    PROVE  BrokerInv'
<1>1. Shape'
  BY DEF BrokerInv, Shape
<1>2. SamePhase /\ SameHolders
  BY DEF SamePhase, SameHolders, Notifying
<1> QED
  BY <1>1, <1>2, QuietLocks, QuietStreams, Zenon DEF BrokerInv

\* A dropped future leaves the lock's holders.
LEMMA AbandonFacts ==
    ASSUME BrokerInv, NEW t, dbLock' = Abandon(dbLock, t)
    PROVE  /\ DOMAIN dbLock' = DOMAIN dbLock
           /\ dbLock'.writer = dbLock.writer \ {t}
           /\ dbLock'.readers = dbLock.readers \ {t}
<1> DEFINE queue == Without(Release(dbLock, t).queue, [task: {t}, mode: {"read", "write"}])
<1>1. dbLock' = [Release(dbLock, t) EXCEPT !.queue = queue]
  BY DEF Abandon
<1> HIDE DEF queue
<1> QED
  BY <1>1 DEF BrokerInv, Shape, Release

\* A call that is cut short takes nothing back and sends nothing more.
LEMMA CancelStep ==
    ASSUME BrokerInv, NEW t \in Clients, Cancel(t)
    PROVE  BrokerInv'
<1>1. /\ DOMAIN dbLock' = DOMAIN dbLock
      /\ dbLock'.writer = dbLock.writer \ {t}
      /\ dbLock'.readers = dbLock.readers \ {t}
  BY AbandonFacts DEF Cancel
<1>2. CASE t \in Writers
  BY <1>1, <1>2, WriterLetsGo DEF Cancel
<1>3. CASE t \notin Writers
  <2>1. t \notin dbLock.writer
    BY <1>3 DEF BrokerInv, LocksHeld
  <2>2. HoldersKept
    BY <1>1, <1>3, <2>1 DEF HoldersKept
  <2>3. StreamsKept
    <3>1. CASE t \in Streams
      BY <1>3, <3>1, FewerMessages DEF Cancel, BrokerInv, Shape
    <3>2. CASE t \notin Streams
      BY <1>3, <3>2, SameStreams DEF Cancel
    <3> QED
      BY <3>1, <3>2
  <2>4. RegistrationsKept
    BY <1>3, SameRegistrations DEF Cancel
  <2> QED
    BY <1>3, <2>2, <2>3, <2>4, OtherSteps, Zenon DEF Cancel
<1> QED
  BY <1>2, <1>3

------------------------------------------------------------------------------
(* Theorems *)

\* An entry that is loaded at startup is well typed and fits its type, with its
\* default or without.
LEMMA LoadFacts ==
    ASSUME NEW id \in Nat, NEW path \in Paths, NEW metadata \in MetadataInput,
           NEW default \in Option(DataValue)
    PROVE  /\ Load(id, path, metadata, default) \in EntrySet
           /\ EntryFits(Load(id, path, metadata, default))
           /\ Load(id, path, metadata, default).metadata.id = id
           /\ Load(id, path, metadata, default).metadata.path = path
<1> DEFINE entry == NewEntry(id, path, metadata)
           given == [NoUpdate EXCEPT !.datapoint = default]
           update == diff(entry, given)
<1>1. NotAvailable \in DataValue
  BY Zenon DEF DataValue
<1>2. entry \in EntrySet /\ entry.metadata.id = id /\ entry.metadata.path = path
  BY <1>1, OptionFacts DEF NewEntry, EntrySet, Metadata, MetadataInput
<1>3. EntryFits(entry)
  BY Zenon DEF NewEntry, EntryFits, Fits, validate_value
<1>4. given \in EntryUpdate
  BY Zenon, OptionFacts DEF NoUpdate, EntryUpdate
<1> HIDE DEF entry, given
<1>5. update \in EntryUpdate
  BY <1>4, DiffType
<1> HIDE DEF update
<1>6. Load(id, path, metadata, default)
        = IF validate(entry, update) = "Ok" THEN apply(entry, update) ELSE entry
  BY DEF Load, entry, given, update
<1>7. apply(entry, update) \in EntrySet
  BY <1>2, <1>5, ApplyType, Zenon
<1>8. apply(entry, update).metadata.id = id /\ apply(entry, update).metadata.path = path
  BY <1>2, <1>5, ApplyMetadata, Zenon
<1>9. validate(entry, update) = "Ok" => EntryFits(apply(entry, update))
  BY <1>2, <1>3, <1>5, ApplyFits
<1> QED
  BY <1>2, <1>3, <1>6, <1>7, <1>8, <1>9, Zenon

\* read_metadata_file registers each path once, so the index is right from the start.
LEMMA PreloadedDbInv == BrokerInit => DbInv
<1> SUFFICES ASSUME BrokerInit PROVE DbInv
  BY Zenon
<1> DEFINE n == Len(Preloaded)
           At(path) == CHOOSE i \in DOMAIN Preloaded : Preloaded[i][1] = path
<1>1. /\ n \in Nat /\ DOMAIN Preloaded = 1..n
      /\ \A i \in 1..n : /\ Preloaded[i][1] \in ValidPaths /\ Preloaded[i][2] \in MetadataInput
                          /\ Preloaded[i][3] \in Option(DataValue)
  BY BrokerInputsAssumption
<1>2. \A i \in 1..n : At(Preloaded[i][1]) = i
  <2> SUFFICES ASSUME NEW i \in 1..n PROVE At(Preloaded[i][1]) = i
    OBVIOUS
  <2>1. \E j \in DOMAIN Preloaded : Preloaded[j][1] = Preloaded[i][1]
    BY <1>1
  <2>2. /\ At(Preloaded[i][1]) \in DOMAIN Preloaded
        /\ Preloaded[At(Preloaded[i][1])][1] = Preloaded[i][1]
    BY <2>1
  <2> HIDE DEF At
  <2> QED
    BY <1>1, <2>2, BrokerInputsAssumption
<1>3. /\ next_id = n
      /\ DOMAIN path_to_id = {Preloaded[i][1] : i \in 1..n}
      /\ \A path \in DOMAIN path_to_id : path_to_id[path] = At(path) - 1
      /\ DOMAIN entries = 0..(n - 1)
      /\ \A id \in DOMAIN entries :
            entries[id] = Load(id, Preloaded[id + 1][1], Preloaded[id + 1][2], Preloaded[id + 1][3])
  BY <1>1, ZenonT(30) DEF BrokerInit
<1> HIDE DEF At, n
<1>4. \A i \in 1..n : path_to_id[Preloaded[i][1]] = i - 1
  BY <1>2, <1>3
<1>5. ASSUME NEW id \in DOMAIN entries
      PROVE  /\ id \in Nat /\ id + 1 \in 1..n /\ id < n
             /\ entries[id] \in EntrySet /\ EntryFits(entries[id])
             /\ entries[id].metadata.id = id
             /\ entries[id].metadata.path = Preloaded[id + 1][1]
  <2> DEFINE path == Preloaded[id + 1][1]
             metadata == Preloaded[id + 1][2]
             default == Preloaded[id + 1][3]
  <2>1. id \in Nat /\ id + 1 \in 1..n /\ id < n
    BY <1>1, <1>3
  <2>2. /\ path \in Paths /\ metadata \in MetadataInput /\ default \in Option(DataValue)
        /\ entries[id] = Load(id, path, metadata, default)
    BY <1>1, <1>3, <2>1, PathsAssumption, Zenon
  <2> HIDE DEF path, metadata, default
  <2>3. /\ entries[id] \in EntrySet /\ EntryFits(entries[id])
        /\ entries[id].metadata.id = id /\ entries[id].metadata.path = path
    BY <2>1, <2>2, LoadFacts
  <2> QED
    BY <2>1, <2>3 DEF path
<1>6. DbTypeOK
  <2>1. \A i \in 1..n : i - 1 \in Nat
    BY <1>1
  <2>2. \A path \in DOMAIN path_to_id : path_to_id[path] \in Nat /\ path \in ValidPaths
    BY <1>1, <1>3, <1>4, <2>1
  <2> QED
    BY <1>1, <1>3, <1>5, <2>2 DEF DbTypeOK
<1>7. PathsAndIdsAgree
  <2>1. ASSUME NEW p \in DOMAIN path_to_id
        PROVE  path_to_id[p] \in DOMAIN entries /\ entries[path_to_id[p]].metadata.path = p
    <3>1. PICK i \in 1..n : p = Preloaded[i][1]
      BY <1>3
    <3>2. path_to_id[p] = i - 1 /\ i - 1 \in 0..(n - 1) /\ (i - 1) + 1 = i
      BY <1>1, <1>4, <3>1
    <3> QED
      BY <1>3, <1>5, <3>1, <3>2, Zenon
  <2>2. ASSUME NEW id \in DOMAIN entries
        PROVE  /\ entries[id].metadata.id = id
               /\ entries[id].metadata.path \in DOMAIN path_to_id
               /\ path_to_id[entries[id].metadata.path] = id
               /\ id < next_id
    <3>1. /\ id \in Nat /\ id + 1 \in 1..n /\ id < n
          /\ entries[id].metadata.id = id
          /\ entries[id].metadata.path = Preloaded[id + 1][1]
      BY <1>5
    <3>2. path_to_id[Preloaded[id + 1][1]] = id
      <4>1. path_to_id[Preloaded[id + 1][1]] = (id + 1) - 1
        BY <1>4, <3>1
      <4> QED
        BY <3>1, <4>1
    <3> QED
      BY <1>3, <3>1, <3>2
  <2> QED
    BY <2>1, <2>2, Zenon DEF PathsAndIdsAgree
<1>8. StoredValuesFit
  BY <1>5 DEF StoredValuesFit
<1> QED
  BY <1>6, <1>7, <1>8 DEF DbInv

\* The invariant holds at startup.
LEMMA BrokerInitially == BrokerInit => BrokerInv
<1> SUFFICES ASSUME BrokerInit PROVE BrokerInv
  OBVIOUS
<1>1. IsSeq(log) /\ log # << >> /\ entries = log[Len(log)]
  <2>1. log = << entries >>
    BY DEF BrokerInit
  <2>2. log \in Seq({entries}) /\ log # << >> /\ Len(log) = 1 /\ log[1] = entries
    BY <2>1
  <2> QED
    BY <2>2, SeqIsSeq, Zenon
<1>2. << >> \in Seq(Nat \X EntryUpdate)
  OBVIOUS
<1>3. Shape
  BY Zenon, <1>1, <1>2, EmptyIsSeq DEF BrokerInit, Shape, Unlocked, NoCall, Tasks, Clients
<1>4. LocksHeld /\ LastCommit /\ OutboxLogged
  BY Zenon, <1>1 DEF BrokerInit, LocksHeld, LastCommit, OutboxLogged, Unlocked, Notifying, Tasks, Clients
<1>5. ChannelsLogged /\ ChannelsSorted
  <2>1. \A s \in Streams : stream[s].chan = << >>
    BY Zenon DEF BrokerInit
  <2>2. \A s \in Streams : DOMAIN stream[s].chan = {}
    BY <2>1
  <2> QED
    BY Zenon, <2>2 DEF ChannelsLogged, ChannelsSorted
<1> QED
  BY <1>3, <1>4, <1>5, PreloadedDbInv DEF BrokerInv

\* Every step of every task keeps the invariant.
LEMMA BrokerStep == BrokerInv /\ [BrokerNext]_vars => BrokerInv'
<1> SUFFICES ASSUME BrokerInv, [BrokerNext]_vars PROVE BrokerInv'
  OBVIOUS
<1>1. ASSUME NEW w \in Writers, UpdateEntries(w) \/ WriterStep(w) PROVE BrokerInv'
  BY <1>1, UpdateEntriesStep, BeginUpdateStep, UpdateNextStep, DowngradeLockStep, WaitingSteps,
     BeginNotifyStep, ComposeStep, SendStep, EndNotifyStep DEF WriterStep
<1>2. ASSUME NEW s \in Subscribers, Subscribe(s) \/ SubscriberStep(s) PROVE BrokerInv'
  <2>1. s \in Streams /\ s \notin Writers /\ s \notin Registrars
    BY Disjoint DEF Streams
  <2> QED
    BY <1>2, <2>1, WaitingOthers, InitialNotificationStep, AddSubscriptionSteps DEF SubscriberStep
<1>3. ASSUME NEW q \in Queriers, SubscribeQuery(q) \/ QuerierStep(q) PROVE BrokerInv'
  <2>1. q \in Streams /\ q \notin Writers /\ q \notin Registrars
    BY Disjoint DEF Streams
  <2> QED
    BY <1>3, <2>1, WaitingOthers, CompileQueryStep, AddSubscriptionSteps DEF QuerierStep
<1>4. ASSUME NEW r \in Registrars, RequestAdd(r) \/ AddEntry(r) PROVE BrokerInv'
  BY <1>4, RequestAddStep, AddEntryStep
<1>5. CASE HousekeeperStep \/ RequestShutdown \/ Shutdown
  <2>1. /\ Housekeeper \notin Writers /\ Housekeeper \notin Registrars
        /\ Terminator \notin Writers /\ Terminator \notin Registrars
    BY TasksAssumption DEF Clients
  <2> QED
    BY <1>5, <2>1, WaitingOthers DEF HousekeeperStep
<1>6. ASSUME NEW s \in Streams, Read(s) \/ Leave(s) PROVE BrokerInv'
  BY <1>6, ClientSteps DEF Read
<1>7. ASSUME NEW t \in Clients, Expire(t) \/ Cancel(t) PROVE BrokerInv'
  BY <1>7, UnseenSteps, CancelStep DEF Expire, lockVars
<1>8. CASE UNCHANGED vars
  BY <1>8, UnseenSteps DEF vars, lockVars
<1> QED
  BY <1>1, <1>2, <1>3, <1>4, <1>5, <1>6, <1>7, <1>8, Zenon DEF BrokerNext

\* The inductive invariant holds in every state of every run of the broker.
THEOREM BrokerInvariant == BrokerSpec => []BrokerInv
  BY BrokerInitially, BrokerStep, PTL DEF BrokerSpec

\* update_entries notifies of its own commit and of no other, because it
\* downgrades its lock and does not release it: whatever other tasks do, and
\* whichever of them are cut short.
THEOREM OwnCommit == BrokerSpec => []NotifiesOwnCommit
<1>1. BrokerInv => NotifiesOwnCommit
  BY ZenonT(30), NotifiersSeeTheirCommit
     DEF BrokerInv, NotifiesOwnCommit, ChannelsLogged, OutboxLogged
<1> QED
  BY BrokerInvariant, <1>1, PTL

\* No subscriber is sent an older state of the database after a newer one.
THEOREM CommitOrder == BrokerSpec => []InCommitOrder
<1>1. BrokerInv => InCommitOrder
  <2> SUFFICES ASSUME BrokerInv PROVE InCommitOrder
    OBVIOUS
  <2>1. ASSUME NEW s \in Streams, NEW w \in Writers, NEW i \in DOMAIN stream[s].chan,
               pc[w] = "send"
        PROVE  stream[s].chan[i].commit <= call[w].outbox[1].commit
    <3>1. stream[s].chan[i].commit \in 1..Len(log) /\ call[w].outbox[1].commit = Len(log)
      BY Zenon, <2>1 DEF BrokerInv, ChannelsLogged, OutboxLogged
    <3> QED
      BY <3>1
  <2> QED
    BY <2>1 DEF BrokerInv, ChannelsSorted, InCommitOrder
<1> QED
  BY BrokerInvariant, <1>1, PTL

\* With tasks that register entries concurrently, each under the write lock, two
\* entries never share a path or an id.
THEOREM BrokerIndexAgrees == BrokerSpec => []PathsAndIdsAgree
<1>1. BrokerInv => PathsAndIdsAgree
  BY DEF BrokerInv, DbInv
<1> QED
  BY BrokerInvariant, <1>1, PTL

------------------------------------------------------------------------------
(* The refinement *)

\* A step that touches neither the log nor a channel is none that a reader sees.
LEMMA QuietFeed ==
    ASSUME UNCHANGED << log, stream >>
    PROVE  UNCHANGED F!feedVars
  BY DEF F!feedVars, Channels

\* A new state in the log is a commit.
LEMMA CommitFeed ==
    ASSUME BrokerInv, NEW db, log' = Append(log, db), UNCHANGED stream
    PROVE  F!FeedNext
<1>1. IsSeq(log)
  BY ZenonT(30) DEF BrokerInv, Shape
<1>2. log' = Append(log, log'[Len(log')])
  BY <1>1, AppendFacts
<1> QED
  BY <1>2 DEF F!FeedNext, F!Commit, Channels

\* A message that reports the last commit, delivered, is published.
LEMMA DeliverFeed ==
    ASSUME BrokerInv, NEW s \in Streams, NEW m, Deliver(s, m), UNCHANGED log,
           m.commit = Len(log), Faithful(log, s, m)
    PROVE  F!FeedNext
<1> DEFINE before == stream[s].chan
           after == Append(before, m)
<1>1. /\ DOMAIN stream = Streams /\ IsSeq(before)
      /\ \A r \in Streams : DOMAIN stream[r] = {"chan", "closed", "known", "since"}
  BY DEF BrokerInv, Shape
<1>2. \A r \in Streams : stream'[r].chan = IF r = s THEN after ELSE stream[r].chan
  BY <1>1, Zenon DEF Deliver
<1>3. Len(after) > 0 /\ after[Len(after)] = m
  BY <1>1, AppendFacts
<1> HIDE DEF after
<1>4. Channels' = [Channels EXCEPT ![s] = after]
  BY <1>2, Zenon DEF Channels
<1>5. Channels'[s] = after /\ Channels[s] = before
  BY <1>4 DEF Channels
<1>6. F!Current(s, m)
  BY DEF F!Current, Faithful
<1>7. Channels' = [Channels EXCEPT ![s] = Append(Channels[s], m)]
  BY <1>4, <1>5 DEF after
<1>8. F!Publish(s)
  BY <1>3, <1>5, <1>6, <1>7, ZenonT(30) DEF F!Publish
<1> QED
  BY <1>8, Zenon DEF F!FeedNext

\* Who is no reader has no channel.
LEMMA DeliverNowhere ==
    ASSUME BrokerInv, NEW s, s \notin Streams, NEW m, Deliver(s, m), UNCHANGED log
    PROVE  UNCHANGED F!feedVars
<1>1. \A r \in Streams : stream'[r] = stream[r]
  BY DEF Deliver, BrokerInv, Shape
<1> QED
  BY <1>1 DEF F!feedVars, Channels

\* What a writer sends is what it composed from its own, the last, commit.
LEMMA SendFeed ==
    ASSUME BrokerInv, NEW w \in Writers, Send(w)
    PROVE  F!FeedNext \/ UNCHANGED F!feedVars
<1> DEFINE s == Head(call[w].recipients)
           m == call[w].outbox[1]
<1>1. m.commit = Len(log) /\ Faithful(log, s, m)
  BY Zenon DEF Send, BrokerInv, OutboxLogged
<1>2. UNCHANGED log /\ (UNCHANGED stream \/ Deliver(s, m))
  BY DEF Send
<1> HIDE DEF s, m
<1>3. CASE UNCHANGED stream
  BY <1>2, <1>3, QuietFeed
<1>4. CASE Deliver(s, m)
  BY <1>1, <1>2, <1>4, DeliverFeed, DeliverNowhere, ZenonT(30)
<1> QED
  BY <1>2, <1>3, <1>4, Zenon

\* The first message of a subscription: nobody writes meanwhile.
LEMMA InitialFeed ==
    ASSUME BrokerInv, NEW s \in Subscribers, InitialNotification(s)
    PROVE  F!FeedNext
<1> DEFINE m == InitialMessage(s, Len(log))
<1>1. entries = log[Len(log)]
  BY Zenon DEF InitialNotification, Acquirable, BrokerInv, LastCommit
<1>2. m # None
  BY Zenon DEF InitialMessage, Some, None
<1>3. m[1].commit = Len(log) /\ Faithful(log, s, m[1])
  BY <1>1, <1>2, InitialReports DEF Reports
<1>4. Deliver(s, m[1]) /\ UNCHANGED log /\ s \in Streams
  BY DEF InitialNotification, Streams
<1> HIDE DEF m
<1> QED
  BY <1>3, <1>4, DeliverFeed, Zenon

\* The first response of a query, if there is one: it holds the read lock.
LEMMA CompileFeed ==
    ASSUME BrokerInv, NEW q \in Queriers, CompileQuery(q)
    PROVE  F!FeedNext \/ UNCHANGED F!feedVars
<1> DEFINE m == Execute(q, Len(log))
<1>1. entries = log[Len(log)]
  BY Zenon DEF CompileQuery, Acquirable, BrokerInv, LastCommit
<1>2. Reports(m, Len(log), q)
  BY <1>1, ExecuteReports DEF BrokerInv
<1>3. UNCHANGED log /\ (UNCHANGED stream \/ (m # None /\ Deliver(q, m[1])))
  BY Zenon DEF CompileQuery
<1>4. q \in Streams
  BY DEF Streams
<1> HIDE DEF m
<1> QED
  BY <1>2, <1>3, <1>4, QuietFeed, DeliverFeed DEF Reports

\* A client reads, leaves, or finds the end of its stream.
LEMMA ClientFeed ==
    ASSUME BrokerInv, NEW s \in Streams, Read(s) \/ Leave(s)
    PROVE  F!FeedNext \/ UNCHANGED F!feedVars
<1>1. UNCHANGED log
  BY DEF Read, Receive, EndOfStream, Leave, clientUnchanged
<1>2. /\ DOMAIN stream = Streams
      /\ \A r \in Streams : DOMAIN stream[r] = {"chan", "closed", "known", "since"}
  BY Zenon DEF BrokerInv, Shape
<1>3. CASE Receive(s)
  <2>1. \A r \in Streams :
           stream'[r].chan = IF r = s THEN Tail(stream[s].chan) ELSE stream[r].chan
    BY <1>2, <1>3 DEF Receive
  <2>2. Channels' = [Channels EXCEPT ![s] = Tail(@)] /\ Channels[s] # << >>
    BY <1>3, <2>1, Zenon DEF Channels, Receive
  <2> QED
    BY <1>1, <2>2, Zenon DEF F!FeedNext, F!Take
<1>4. CASE Leave(s)
  <2>1. \A r \in Streams : stream'[r].chan = IF r = s THEN << >> ELSE stream[r].chan
    BY <1>2, <1>4 DEF Leave
  <2>2. Channels' = [Channels EXCEPT ![s] = << >>]
    BY <2>1, Zenon DEF Channels
  <2> QED
    BY <1>1, <2>2, Zenon DEF F!FeedNext, F!Drop
<1>5. CASE EndOfStream(s)
  BY <1>1, <1>5, QuietFeed DEF EndOfStream
<1> QED
  BY <1>3, <1>4, <1>5 DEF Read

\* A call that is cut short drops the channel of its client, if it had one.
LEMMA CancelFeed ==
    ASSUME BrokerInv, NEW t \in Clients, Cancel(t)
    PROVE  F!FeedNext \/ UNCHANGED F!feedVars
<1>1. UNCHANGED log
  BY DEF Cancel
<1>2. CASE t \in Streams
  <2>1. t \notin Writers
    BY <1>2, Disjoint
  <2>2. stream' = [stream EXCEPT ![t].closed = TRUE, ![t].chan = << >>]
    BY <1>2, <2>1, Zenon DEF Cancel
  <2>3. \A r \in Streams : stream'[r].chan = IF r = t THEN << >> ELSE stream[r].chan
    BY <1>2, <2>2 DEF BrokerInv, Shape
  <2>4. Channels' = [Channels EXCEPT ![t] = << >>]
    BY <2>3, Zenon DEF Channels
  <2> QED
    BY <1>1, <1>2, <2>4, Zenon DEF F!FeedNext, F!Drop
<1>3. CASE t \notin Streams
  BY <1>1, <1>3, QuietFeed DEF Cancel
<1> QED
  BY <1>2, <1>3

\* A registered subscription has the channel it had.
LEMMA AddedFeed ==
    ASSUME BrokerInv, NEW s \in Streams, AddChangeSubscription(s) \/ AddQuerySubscription(s)
    PROVE  UNCHANGED F!feedVars
<1>1. UNCHANGED log /\ stream' = [stream EXCEPT ![s].since = Len(log)]
  BY DEF AddChangeSubscription, AddQuerySubscription
<1>2. \A r \in Streams : stream'[r].chan = stream[r].chan
  BY <1>1 DEF BrokerInv, Shape
<1> QED
  BY <1>1, <1>2 DEF F!feedVars, Channels

\* What a writer does.
LEMMA WriterFeed ==
    ASSUME BrokerInv, NEW w \in Writers, UpdateEntries(w) \/ WriterStep(w)
    PROVE  F!FeedNext \/ UNCHANGED F!feedVars
<1>1. CASE DowngradeLock(w)
  BY <1>1, CommitFeed DEF DowngradeLock
<1>2. CASE Send(w)
  BY <1>2, SendFeed
<1>3. CASE UpdateNext(w)
  BY Zenon, <1>3, QuietFeed DEF UpdateNext
<1>4. CASE UpdateEntries(w) \/ BeginUpdate(w) \/ RequestSubsRead(w) \/ BeginNotify(w)
  BY <1>4, QuietFeed DEF UpdateEntries, BeginUpdate, RequestSubsRead, BeginNotify
<1>5. CASE Compose(w) \/ EndNotify(w) \/ RequestCleanup(w) \/ Cleanup(w)
  BY <1>5, QuietFeed DEF Compose, EndNotify, RequestCleanup, Cleanup
<1> QED
  BY <1>1, <1>2, <1>3, <1>4, <1>5 DEF WriterStep

\* Every step of the broker is a step of Feed, or one that Feed does not see.
LEMMA FeedStep == BrokerInv /\ [BrokerNext]_vars => [F!FeedNext]_(F!feedVars)
<1> SUFFICES ASSUME BrokerInv, [BrokerNext]_vars
             PROVE  F!FeedNext \/ UNCHANGED F!feedVars
  OBVIOUS
<1>1. ASSUME NEW w \in Writers, UpdateEntries(w) \/ WriterStep(w)
      PROVE  F!FeedNext \/ UNCHANGED F!feedVars
  BY <1>1, WriterFeed
<1>2. ASSUME NEW s \in Subscribers, Subscribe(s) \/ SubscriberStep(s)
      PROVE  F!FeedNext \/ UNCHANGED F!feedVars
  <2>1. CASE Subscribe(s) \/ RequestSubsWrite(s)
    BY <2>1, QuietFeed DEF Subscribe, RequestSubsWrite
  <2> QED
    BY <1>2, <2>1, InitialFeed, AddedFeed, Zenon DEF SubscriberStep, Streams
<1>3. ASSUME NEW q \in Queriers, SubscribeQuery(q) \/ QuerierStep(q)
      PROVE  F!FeedNext \/ UNCHANGED F!feedVars
  <2>1. CASE SubscribeQuery(q) \/ RequestSubsWrite(q)
    BY <2>1, QuietFeed DEF SubscribeQuery, RequestSubsWrite
  <2> QED
    BY <1>3, <2>1, CompileFeed, AddedFeed DEF QuerierStep, Streams
<1>4. ASSUME NEW r \in Registrars, RequestAdd(r) \/ AddEntry(r)
      PROVE  F!FeedNext \/ UNCHANGED F!feedVars
  BY <1>4, QuietFeed, CommitFeed, Zenon DEF RequestAdd, AddEntry
<1>5. CASE HousekeeperStep \/ RequestShutdown \/ Shutdown
  BY <1>5, QuietFeed DEF HousekeeperStep, RequestCleanup, Cleanup, RequestShutdown, Shutdown
<1>6. ASSUME NEW s \in Streams, Read(s) \/ Leave(s)
      PROVE  F!FeedNext \/ UNCHANGED F!feedVars
  BY <1>6, ClientFeed
<1>7. ASSUME NEW t \in Clients, Expire(t) \/ Cancel(t)
      PROVE  F!FeedNext \/ UNCHANGED F!feedVars
  BY <1>7, QuietFeed, CancelFeed DEF Expire
<1>8. CASE UNCHANGED vars
  BY <1>8, QuietFeed DEF vars
<1> QED
  BY <1>1, <1>2, <1>3, <1>4, <1>5, <1>6, <1>7, <1>8 DEF BrokerNext

\* The broker implements Feed: what a subscriber gets is always a view of the
\* latest state of the database, of one state, although the broker composes it,
\* waits for room in the channel, and may be interrupted there.
THEOREM BrokerImplementsFeed == BrokerSpec => ImplementsFeed
<1>1. BrokerInit => F!FeedInit
  <2> SUFFICES ASSUME BrokerInit PROVE F!FeedInit
    OBVIOUS
  <2>1. Len(log) = 1
    BY Zenon DEF BrokerInit
  <2>2. Channels = [s \in Streams |-> << >>]
    BY Zenon DEF BrokerInit, Channels
  <2> QED
    BY <2>1, <2>2 DEF F!FeedInit
<1> QED
  BY <1>1, FeedStep, BrokerInvariant, PTL DEF BrokerSpec, ImplementsFeed, F!FeedSpec

------------------------------------------------------------------------------
(* Tokens that expire *)

\* Only clients have tokens that expire.
ClientsExpire == expired \subseteq Clients

\* Nothing can be read with a token that has expired.
LEMMA NothingReadable ==
    ASSUME NEW s \in Clients, s \in expired
    PROVE  /\ \A id : get_entry_by_id(Permission(s), id) # "Ok"
           /\ \A path : QueryValue(s, path) = NotAvailable
<1>1. PermissionOf[s] \in PermissionSet(Paths)
  BY PermissionOfAssumption
<1>2. Permission(s).expired
  BY <1>1, Zenon DEF Permission, PermissionSet
<1>3. \A id : get_entry_by_id(Permission(s), id) # "Ok"
  BY <1>2, Zenon DEF get_entry_by_id, can_read, Granted
<1>4. \A path : QueryValue(s, path) = NotAvailable
  BY <1>3 DEF QueryValue, get_entry_by_path
<1> QED
  BY <1>3, <1>4

\* A message composed for it has no value in it.
LEMMA NoValueComposed ==
    ASSUME NEW s \in Clients, s \in expired, NEW changed, NEW commit,
           MessageFor(s, changed, commit) # None
    PROVE  SentNoValue(s, MessageFor(s, changed, commit)[1])
<1>1. /\ \A id : get_entry_by_id(Permission(s), id) # "Ok"
      /\ \A path : QueryValue(s, path) = NotAvailable
  BY NothingReadable
<1>2. ChangeMessage(s, changed, commit) = None
  <2> DEFINE keys == {k \in ((DOMAIN request[s]) \cap (DOMAIN changed)) \X Field :
                         /\ k[2] \in request[s][k[1]] \cap changed[k[1]]
                         /\ get_entry_by_id(Permission(s), k[1]) = "Ok"}
  <2>1. keys = {}
    BY <1>1, Zenon
  <2> QED
    BY <2>1, Zenon DEF ChangeMessage
<1>3. s \in Queriers /\ MessageFor(s, changed, commit) = Execute(s, commit)
  BY <1>2, Zenon DEF MessageFor, QueryMessage
<1> DEFINE selected == {id \in DOMAIN entries : entries[id].metadata.path \in request[s].select}
           body == [k \in selected \X {"Datapoint"} |->
                       Some(QueryValue(s, entries[k[1]].metadata.path))]
<1>4. Execute(s, commit) = Some(Message(commit, body))
  BY <1>3, ZenonT(30) DEF Execute
<1>5. \A k \in DOMAIN body : body[k] = Some(NotAvailable)
  BY <1>1, Zenon
<1> HIDE DEF body
<1>6. Execute(s, commit)[1].body = body
  BY <1>4 DEF Some, Message
<1> QED
  BY <1>3, <1>5, <1>6, Zenon DEF SentNoValue

\* A writer that goes from "notify" to "send" has composed what it sends.
LEMMA OnlyCompose ==
    ASSUME Shape, NEW w \in Writers, pc[w] = "notify", pc'[w] = "send", BrokerNext
    PROVE  Compose(w)
<1>1. ASSUME NEW t, NEW label, Goto(t, label), label # "send" PROVE FALSE
  BY <1>1, Zenon DEF Goto, Shape, Tasks, Clients
<1>2. pc' # pc
  BY Zenon
<1>3. ASSUME NEW u \in Writers, UpdateEntries(u) \/ WriterStep(u) PROVE Compose(w)
  <2>1. CASE Compose(u)
    <3>1. u = w
      BY <1>2, <2>1 DEF Compose, Goto, Shape, Tasks, Clients
    <3> QED
      BY <2>1, <3>1
  <2>2. CASE UpdateEntries(u) \/ BeginUpdate(u) \/ DowngradeLock(u) \/ RequestSubsRead(u)
    BY <1>1, <2>2, Zenon DEF UpdateEntries, BeginUpdate, DowngradeLock, RequestSubsRead
  <2>3. CASE UpdateNext(u)
    BY <1>2, <2>3, Zenon DEF UpdateNext
  <2>4. CASE BeginNotify(u) \/ Send(u)
    BY <1>1, <2>4, ZenonT(30) DEF BeginNotify, Send
  <2>5. CASE EndNotify(u)
    BY <1>1, <2>5, Zenon DEF EndNotify
  <2>6. CASE RequestCleanup(u) \/ Cleanup(u)
    BY <1>1, <2>6, ZenonT(30) DEF RequestCleanup, Cleanup
  <2> QED
    BY <1>3, <2>1, <2>2, <2>3, <2>4, <2>5, <2>6, ZenonT(30) DEF WriterStep
<1>4. ASSUME NEW s \in Streams, \/ Subscribe(s) \/ SubscriberStep(s)
                                \/ SubscribeQuery(s) \/ QuerierStep(s)
                                \/ Read(s) \/ Leave(s)
      PROVE  FALSE
  <2>1. ~Subscribe(s) /\ ~SubscriberStep(s)
    BY <1>1, Zenon
    DEF Subscribe, SubscriberStep, InitialNotification, RequestSubsWrite, AddChangeSubscription
  <2>2. ~SubscribeQuery(s) /\ ~QuerierStep(s)
    BY <1>1, Zenon
    DEF SubscribeQuery, QuerierStep, CompileQuery, RequestSubsWrite, AddQuerySubscription
  <2>3. ~Read(s) /\ ~Leave(s)
    BY <1>1, <1>2, Zenon DEF Read, Receive, EndOfStream, Leave
  <2> QED
    BY <1>4, <2>1, <2>2, <2>3
<1>5. ASSUME NEW r \in Registrars PROVE ~RequestAdd(r) /\ ~AddEntry(r)
  BY <1>1, Zenon DEF RequestAdd, AddEntry
<1>6. ~HousekeeperStep /\ ~RequestShutdown /\ ~Shutdown
  BY <1>1, Zenon DEF HousekeeperStep, RequestCleanup, Cleanup, RequestShutdown, Shutdown
<1>7. ASSUME NEW t \in Clients PROVE ~Expire(t) /\ ~Cancel(t)
  BY <1>1, <1>2, Zenon DEF Expire, Cancel
<1> QED
  BY <1>3, <1>4, <1>5, <1>6, <1>7, Zenon DEF BrokerNext, Streams

\* Only Expire lets a token expire, and only that of a client.
LEMMA ClientsExpireStep == ClientsExpire /\ [BrokerNext]_vars => ClientsExpire'
<1> SUFFICES ASSUME ClientsExpire, [BrokerNext]_vars PROVE ClientsExpire'
  OBVIOUS
<1>1. ASSUME UNCHANGED expired PROVE ClientsExpire'
  BY <1>1 DEF ClientsExpire
<1>2. ASSUME NEW w \in Writers, UpdateEntries(w) \/ WriterStep(w) PROVE UNCHANGED expired
  BY <1>2, Zenon DEF UpdateEntries, WriterStep, BeginUpdate, UpdateNext, DowngradeLock,
     RequestSubsRead, BeginNotify, Compose, Send, EndNotify, RequestCleanup, Cleanup
<1>3. ASSUME NEW s, \/ Subscribe(s) \/ SubscriberStep(s) \/ SubscribeQuery(s) \/ QuerierStep(s)
                    \/ Read(s) \/ Leave(s)
      PROVE  UNCHANGED expired
  BY <1>3, Zenon DEF Subscribe, SubscriberStep, InitialNotification, RequestSubsWrite,
     AddChangeSubscription, SubscribeQuery, QuerierStep, CompileQuery, AddQuerySubscription,
     Read, Receive, EndOfStream, Leave, clientUnchanged
<1>4. ASSUME NEW r, RequestAdd(r) \/ AddEntry(r) PROVE UNCHANGED expired
  BY <1>4, Zenon DEF RequestAdd, AddEntry
<1>5. CASE HousekeeperStep \/ RequestShutdown \/ Shutdown \/ UNCHANGED vars
  BY <1>1, <1>5, Zenon
  DEF HousekeeperStep, RequestCleanup, Cleanup, RequestShutdown, Shutdown, vars
<1>6. ASSUME NEW t \in Clients, Expire(t) \/ Cancel(t) PROVE ClientsExpire'
  BY <1>6 DEF Expire, Cancel, ClientsExpire
<1> QED
  BY <1>1, <1>2, <1>3, <1>4, <1>5, <1>6, Zenon DEF BrokerNext

\* Of what is composed after a token expired, nothing goes to its change subscription
\* and no value to its query.
THEOREM NoValueOnceExpired == BrokerSpec => NoValueAfterExpiry
<1>1. BrokerInit => ClientsExpire
  BY DEF BrokerInit, ClientsExpire
<1>2. ASSUME BrokerInv, ClientsExpire, BrokerNext, NEW w \in Writers,
             pc[w] = "notify", pc'[w] = "send", Head(call[w].recipients) \in expired
      PROVE  SentNoValue(Head(call[w].recipients), call'[w].outbox[1])
  <2> DEFINE s == Head(call[w].recipients)
             message == MessageFor(s, call[w].changed, call[w].commit)
  <2>1. Compose(w)
    BY <1>2, OnlyCompose DEF BrokerInv
  <2>2. message # None /\ call' = [call EXCEPT ![w].outbox = message]
    BY <1>2, <2>1, Zenon DEF Compose
  <2>3. call'[w].outbox = message
    BY <1>2, <2>2 DEF BrokerInv, Shape
  <2>4. s \in Clients
    BY <1>2 DEF ClientsExpire
  <2> QED
    BY <1>2, <2>2, <2>3, <2>4, NoValueComposed, Zenon
<1>3. BrokerInv /\ ClientsExpire /\ [BrokerNext]_vars =>
          [\A w \in Writers :
              LET s == Head(call[w].recipients)
              IN  pc[w] = "notify" /\ pc'[w] = "send" /\ s \in expired
                      => SentNoValue(s, call'[w].outbox[1])]_vars
  BY <1>2, Zenon
<1> QED
  BY <1>1, <1>3, ClientsExpireStep, BrokerInvariant, PTL DEF BrokerSpec, NoValueAfterExpiry

------------------------------------------------------------------------------
(* Induction, on sets of numbers *)

\* A set of natural numbers has a least element.
LEMMA Least ==
    ASSUME NEW T, T \subseteq Nat, T # {}
    PROVE  \E x \in T : \A y \in T : x <= y
<1> DEFINE R == OpToRel(<, Nat)
<1>1. IsWellFoundedOn(R, Nat)
  BY NatLessThanWellFounded, Zenon
<1>2. \A x, y \in Nat : << x, y >> \in R <=> x < y
  BY DEF OpToRel
<1> HIDE DEF R
<1>3. PICK x \in T : \A y \in T : ~ (<< y, x >> \in R)
  BY <1>1, WFMin, Zenon
<1>4. \A y \in T : x <= y
  <2> TAKE y \in T
  <2>1. x \in Nat /\ y \in Nat
    OBVIOUS
  <2>2. ~ (y < x)
    BY <1>2, <1>3, <2>1, Zenon
  <2> QED
    BY <2>1, <2>2
<1> QED
  BY <1>4

\* A set that has 0 and the successor of each of its numbers has them all.
LEMMA Induction ==
    ASSUME NEW S, 0 \in S, \A n \in Nat : n \in S => n + 1 \in S
    PROVE  \A n \in Nat : n \in S
<1> SUFFICES ASSUME NEW n \in Nat, n \notin S PROVE FALSE
  OBVIOUS
<1> DEFINE T == {k \in Nat : k \notin S}
<1>1. T # {} /\ T \subseteq Nat
  OBVIOUS
<1>2. PICK x \in T : \A y \in T : x <= y
  BY <1>1, Least, Zenon
<1>3. x # 0 /\ x - 1 \in Nat /\ x - 1 \in S
  BY <1>2
<1> QED
  BY <1>3

\* What `Without` computes from the first n elements of s.
KeptOf(g, s, gone, n) ==
    g = [i \in 0..n |->
            IF i = 0 THEN << >>
            ELSE IF s[i] \in gone THEN g[i - 1] ELSE Append(g[i - 1], s[i])]

\* The recursion of `Without` has a solution.
LEMMA KeptExists ==
    ASSUME NEW s, NEW gone
    PROVE  \A n \in Nat : \E g : KeptOf(g, s, gone, n)
<1> DEFINE S == {n \in Nat : \E g : KeptOf(g, s, gone, n)}
<1>1. 0 \in S
  <2>1. KeptOf([i \in 0..0 |-> << >>], s, gone, 0)
    BY DEF KeptOf
  <2> QED
    BY <2>1
<1>2. ASSUME NEW n \in Nat, n \in S PROVE n + 1 \in S
  <2>1. PICK g : KeptOf(g, s, gone, n)
    BY <1>2
  <2> DEFINE Next(x) == IF s[n + 1] \in gone THEN x ELSE Append(x, s[n + 1])
             h == [i \in 0..(n + 1) |-> IF i = n + 1 THEN Next(g[n]) ELSE g[i]]
  <2>2. \A i \in 0..n : g[i] = IF i = 0 THEN << >>
                               ELSE IF s[i] \in gone THEN g[i - 1] ELSE Append(g[i - 1], s[i])
    BY <2>1, ZenonT(30) DEF KeptOf
  <2>3. \A i \in 0..n : h[i] = g[i]
    OBVIOUS
  <2>4. h[n + 1] = Next(h[n])
    BY <2>3
  <2>5. \A i \in 0..(n + 1) : h[i] = IF i = 0 THEN << >>
                               ELSE IF s[i] \in gone THEN h[i - 1] ELSE Append(h[i - 1], s[i])
    <3> TAKE i \in 0..(n + 1)
    <3>1. CASE i = n + 1
      BY <2>4, <3>1
    <3>2. CASE i # n + 1
      <4>1. i \in 0..n /\ (i # 0 => i - 1 \in 0..n)
        BY <3>2
      <4> QED
        BY <2>2, <2>3, <4>1
    <3> QED
      BY <3>1, <3>2, ZenonT(30)
  <2>6. h = [i \in 0..(n + 1) |-> h[i]]
    OBVIOUS
  <2> HIDE DEF h, Next
  <2>7. KeptOf(h, s, gone, n + 1)
    BY <2>5, <2>6, Zenon DEF KeptOf
  <2> QED
    BY <2>7
<1> HIDE DEF S
<1>3. \A n \in Nat : n \in S
  BY <1>1, <1>2, Induction
<1> QED
  BY <1>3 DEF S

\* `Without` keeps elements of the sequence, and none that is gone.
LEMMA WithoutFacts ==
    ASSUME NEW s, IsSeq(s), NEW gone
    PROVE  Without(s, gone) \in Seq(Elems(s) \ gone)
<1> DEFINE kept == CHOOSE g : KeptOf(g, s, gone, Len(s))
           T == Elems(s) \ gone
           S == {n \in Nat : n <= Len(s) => kept[n] \in Seq(T)}
<1>1. Len(s) \in Nat /\ \A i \in 1..Len(s) : s[i] \in Elems(s)
  BY DEF IsSeq, Elems
<1>2. KeptOf(kept, s, gone, Len(s))
  BY <1>1, KeptExists
<1>3. \A i \in 0..Len(s) : kept[i] = IF i = 0 THEN << >>
                           ELSE IF s[i] \in gone THEN kept[i - 1] ELSE Append(kept[i - 1], s[i])
  BY <1>2, Zenon DEF KeptOf
<1>4. Without(s, gone) = kept[Len(s)]
  BY DEF Without, KeptOf
<1> HIDE DEF kept, T
<1>5. 0 \in S
  <2>1. 0 \in 0..Len(s)
    BY <1>1
  <2>2. kept[0] = << >>
    BY <1>3, <2>1
  <2>3. << >> \in Seq(T)
    OBVIOUS
  <2> QED
    BY <2>2, <2>3, Zenon
<1>6. ASSUME NEW n \in Nat, n \in S PROVE n + 1 \in S
  <2> SUFFICES ASSUME n + 1 <= Len(s) PROVE kept[n + 1] \in Seq(T)
    OBVIOUS
  <2>1. kept[n] \in Seq(T) /\ n + 1 \in 1..Len(s)
    BY <1>1, <1>6
  <2>2. s[n + 1] \notin gone => s[n + 1] \in T
    BY <1>1, <2>1 DEF T
  <2>3. kept[n + 1] = IF s[n + 1] \in gone THEN kept[n] ELSE Append(kept[n], s[n + 1])
    BY <1>1, <1>3, <2>1
  <2> QED
    BY <2>1, <2>2, <2>3
<1> HIDE DEF S
<1>7. \A n \in Nat : n \in S
  BY <1>5, <1>6, Induction
<1>8. kept[Len(s)] \in Seq(T)
  BY <1>1, <1>7 DEF S
<1> QED
  BY <1>4, <1>8 DEF T

------------------------------------------------------------------------------
(* The locks *)

\* What a step may do to a lock.
LockMove(lock, new) ==
    \/ new = lock
    \/ \E t \in Tasks :
          \/ new \in {Enqueue(lock, t, "read"), Enqueue(lock, t, "write")}
          \/ lock.queue # << >> /\ new \in {AcquireRead(lock, t), AcquireWrite(lock, t), Pass(lock)}
          \/ new \in {Release(lock, t), Downgrade(lock, t), Abandon(lock, t)}

\* Whatever a task does to a lock, it stays a lock.
LEMMA LockMoveType ==
    ASSUME NEW lock \in LockState(Tasks), NEW new, LockMove(lock, new)
    PROVE  new \in LockState(Tasks)
<1> DEFINE Q == [task: Tasks, mode: {"read", "write"}]
<1>1. /\ lock.queue \in Seq(Q) /\ lock.writer \in SUBSET Tasks /\ lock.readers \in SUBSET Tasks
      /\ lock = [writer |-> lock.writer, readers |-> lock.readers, queue |-> lock.queue]
  BY Zenon DEF LockState
<1>2. \A w, r \in SUBSET Tasks : \A q \in Seq(Q) :
         [writer |-> w, readers |-> r, queue |-> q] \in LockState(Tasks)
  BY DEF LockState
<1>3. ASSUME NEW t \in Tasks, NEW mode \in {"read", "write"}, new = Enqueue(lock, t, mode)
      PROVE  new \in LockState(Tasks)
  <2>1. [task |-> t, mode |-> mode] \in Q
    OBVIOUS
  <2> HIDE DEF Q
  <2>2. Append(lock.queue, [task |-> t, mode |-> mode]) \in Seq(Q)
    BY <1>1, <2>1
  <2>3. new = [writer |-> lock.writer, readers |-> lock.readers,
               queue |-> Append(lock.queue, [task |-> t, mode |-> mode])]
    BY <1>1, <1>3, ZenonT(30) DEF Enqueue
  <2> QED
    BY <1>1, <1>2, <2>2, <2>3, Zenon
<1>4. ASSUME NEW t \in Tasks, lock.queue # << >>,
             new \in {AcquireRead(lock, t), AcquireWrite(lock, t), Pass(lock)}
      PROVE  new \in LockState(Tasks)
  <2> HIDE DEF Q
  <2>1. Tail(lock.queue) \in Seq(Q)
    BY <1>1, <1>4
  <2>2. PICK w \in SUBSET Tasks, r \in SUBSET Tasks :
           new = [writer |-> w, readers |-> r, queue |-> Tail(lock.queue)]
    <3>1. CASE new = AcquireRead(lock, t)
      BY <1>1, <3>1, Zenon DEF AcquireRead
    <3>2. CASE new = AcquireWrite(lock, t)
      BY <1>1, <3>2, Zenon DEF AcquireWrite
    <3>3. CASE new = Pass(lock)
      BY <1>1, <3>3, Zenon DEF Pass
    <3> QED
      BY <1>4, <3>1, <3>2, <3>3, Zenon
  <2> QED
    BY <1>2, <2>1, <2>2, Zenon
<1>5. ASSUME NEW t \in Tasks, NEW x, x \in {Release(lock, t), Downgrade(lock, t)}
      PROVE  x \in LockState(Tasks)
  <2> HIDE DEF Q
  <2>1. PICK w \in SUBSET Tasks, r \in SUBSET Tasks :
           x = [writer |-> w, readers |-> r, queue |-> lock.queue]
    <3>1. CASE x = Release(lock, t)
      BY <1>1, <3>1, Zenon DEF Release
    <3>2. CASE x = Downgrade(lock, t)
      BY <1>1, <3>2, Zenon DEF Downgrade
    <3> QED
      BY <1>5, <3>1, <3>2
  <2> QED
    BY <1>1, <1>2, <2>1, Zenon
<1>6. ASSUME NEW t \in Tasks, new = Abandon(lock, t)
      PROVE  new \in LockState(Tasks)
  <2>1. PICK x : x = Release(lock, t)
    OBVIOUS
  <2>2. x \in LockState(Tasks)
    BY <1>5, <2>1
  <2> DEFINE left == Without(x.queue, [task: {t}, mode: {"read", "write"}])
  <2>3. x.queue \in Seq(Q)
    BY <2>2 DEF LockState
  <2> HIDE DEF Q
  <2>4. IsSeq(x.queue) /\ Elems(x.queue) \subseteq Q
    BY <2>3, SeqIsSeq DEF Elems
  <2>5. left \in Seq(Elems(x.queue) \ [task: {t}, mode: {"read", "write"}])
    BY <2>4, WithoutFacts, ZenonT(30)
  <2> HIDE DEF left
  <2>6. left \in Seq(Q)
    BY <2>4, <2>5
  <2>7. new = [x EXCEPT !.queue = left]
    BY <1>6, <2>1 DEF Abandon, left
  <2> QED
    BY <2>2, <2>6, <2>7 DEF LockState, Q
<1> QED
  BY <1>3, <1>4, <1>5, <1>6, ZenonT(30) DEF LockMove

\* A step moves each lock as a lock can be moved.
LEMMA LockMoves == BrokerNext => LockMove(dbLock, dbLock') /\ LockMove(subsLock, subsLock')
<1> SUFFICES ASSUME BrokerNext PROVE LockMove(dbLock, dbLock') /\ LockMove(subsLock, subsLock')
  OBVIOUS
<1>1. /\ \A w \in Writers : w \in Tasks
      /\ \A s \in Streams : s \in Tasks
      /\ \A r \in Registrars : r \in Tasks
      /\ Housekeeper \in Tasks /\ Terminator \in Tasks
      /\ \A t \in Clients : t \in Tasks
  BY DEF Tasks, Clients
<1>2. ASSUME NEW lock PROVE LockMove(lock, lock)
  BY DEF LockMove
<1>3. ASSUME NEW w \in Writers, UpdateEntries(w) \/ WriterStep(w)
      PROVE  LockMove(dbLock, dbLock') /\ LockMove(subsLock, subsLock')
  <2>1. CASE UpdateEntries(w)
    BY <1>1, <2>1, Zenon DEF LockMove, UpdateEntries
  <2>2. CASE BeginUpdate(w)
    BY <1>1, <2>2, Zenon DEF LockMove, BeginUpdate, Acquirable
  <2>3. CASE UpdateNext(w) \/ Compose(w) \/ Send(w)
    BY <1>1, <2>3, Zenon DEF LockMove, UpdateNext, Compose, Send, lockVars
  <2>4. CASE DowngradeLock(w) \/ RequestSubsRead(w)
    BY <1>1, <2>4, Zenon DEF LockMove, DowngradeLock, RequestSubsRead
  <2>5. CASE BeginNotify(w)
    BY <1>1, <2>5, Zenon DEF LockMove, BeginNotify, Acquirable
  <2>6. CASE EndNotify(w)
    BY <1>1, <2>6, Zenon DEF LockMove, EndNotify
  <2>7. CASE RequestCleanup(w) \/ Cleanup(w)
    BY <1>1, <2>7, Zenon DEF LockMove, RequestCleanup, Cleanup, Acquirable
  <2> QED
    BY <1>3, <2>1, <2>2, <2>3, <2>4, <2>5, <2>6, <2>7, Zenon DEF WriterStep
<1>4. ASSUME NEW s \in Streams, \/ Subscribe(s) \/ SubscriberStep(s)
                                \/ SubscribeQuery(s) \/ QuerierStep(s)
                                \/ Read(s) \/ Leave(s)
      PROVE  LockMove(dbLock, dbLock') /\ LockMove(subsLock, subsLock')
  <2>1. CASE Subscribe(s) \/ SubscribeQuery(s) \/ RequestSubsWrite(s)
    BY <1>1, <2>1, Zenon DEF LockMove, Subscribe, SubscribeQuery, RequestSubsWrite
  <2>2. CASE InitialNotification(s)
    BY <1>1, <2>2, Zenon DEF LockMove, InitialNotification, Acquirable
  <2>3. CASE AddChangeSubscription(s)
    BY <1>1, <2>3, Zenon DEF LockMove, AddChangeSubscription, Acquirable
  <2>4. CASE CompileQuery(s)
    BY <1>1, <2>4, Zenon DEF LockMove, CompileQuery, Acquirable
  <2>5. CASE AddQuerySubscription(s)
    BY <1>1, <2>5, Zenon DEF LockMove, AddQuerySubscription, Acquirable
  <2>6. CASE Read(s) \/ Leave(s)
    BY <1>2, <2>6, Zenon DEF Read, Receive, EndOfStream, Leave, clientUnchanged, lockVars
  <2> QED
    BY <1>4, <2>1, <2>2, <2>3, <2>4, <2>5, <2>6, Zenon DEF SubscriberStep, QuerierStep
<1>5. ASSUME NEW r \in Registrars, RequestAdd(r) \/ AddEntry(r)
      PROVE  LockMove(dbLock, dbLock') /\ LockMove(subsLock, subsLock')
  BY <1>1, <1>5, Zenon DEF LockMove, RequestAdd, AddEntry, Acquirable
<1>6. CASE HousekeeperStep \/ RequestShutdown \/ Shutdown
  BY <1>1, <1>6, Zenon DEF LockMove, HousekeeperStep, RequestCleanup, Cleanup,
     RequestShutdown, Shutdown, Acquirable
<1>7. ASSUME NEW t \in Clients, Expire(t) \/ Cancel(t)
      PROVE  LockMove(dbLock, dbLock') /\ LockMove(subsLock, subsLock')
  <2>1. CASE Expire(t)
    BY <1>2, <2>1, Zenon DEF Expire, lockVars
  <2>2. CASE Cancel(t)
    <3>1. dbLock' = Abandon(dbLock, t) /\ subsLock' = Abandon(subsLock, t)
      BY <2>2, Zenon DEF Cancel
    <3> QED
      BY <1>1, <3>1, Zenon DEF LockMove
  <2> QED
    BY <1>7, <2>1, <2>2
<1> QED
  BY <1>3, <1>4, <1>5, <1>6, <1>7, Zenon DEF BrokerNext, Streams

------------------------------------------------------------------------------
(* The inductive invariant *)

\* Where a client is before it has a channel, and once it is registered.
Before == {"idle", "db_read"}
After == {"subscribed", "gone", "ended"}

Joined == {s \in Streams : pc[s] \in After}

Typed ==
    /\ dbLock \in LockState(Tasks)
    /\ subsLock \in LockState(Tasks)
    /\ pc \in [Tasks -> Labels]
    /\ expired \subseteq Expiring

\* Who is in a list of subscriptions, or in a writer's copy of it, is registered,
\* so its channel is not the new and empty one that InitialNotification counts on.
Lists ==
    /\ query_subscriptions \in Seq(Queriers \cap Joined)
    /\ change_subscriptions \in Seq(Subscribers \cap Joined)
    /\ \A w \in Writers :
          /\ call[w].commit \in Nat
          /\ call[w].recipients \in Seq(Joined)
          /\ pc[w] = "send" => call[w].recipients # << >>

ChannelsBounded ==
    \A s \in Streams :
        /\ Len(stream[s].chan) <= Capacity
        /\ pc[s] \in Before => stream[s].chan = << >>

TypeInv == Typed /\ Lists /\ ChannelsBounded

------------------------------------------------------------------------------
(* Where tasks go *)

\* A client that is registered stays so, and none goes back to the start.
PcMove ==
    \/ pc' = pc
    \/ \E t \in Tasks, label \in Labels :
          /\ Goto(t, label)
          /\ t \in Streams /\ pc[t] \in After => label \in After
          /\ t \in Streams /\ label \in Before => pc[t] \in Before

\* Every step is such a move.
LEMMA PcMoves == BrokerNext => PcMove
<1> SUFFICES ASSUME BrokerNext PROVE PcMove
  OBVIOUS
<1>1. /\ \A w \in Writers : w \in Tasks /\ w \notin Streams
      /\ \A s \in Streams : s \in Tasks
      /\ \A r \in Registrars : r \in Tasks /\ r \notin Streams
      /\ Housekeeper \in Tasks /\ Terminator \in Tasks
      /\ Housekeeper \notin Streams /\ Terminator \notin Streams
      /\ \A t \in Clients : t \in Tasks
  BY Disjoint, TasksAssumption DEF Tasks, Clients
<1>2. ASSUME NEW t \in Tasks, t \notin Streams, NEW label \in Labels, Goto(t, label)
      PROVE  PcMove
  BY <1>2, Zenon DEF PcMove
<1>3. ASSUME NEW s \in Streams, NEW label \in Labels, Goto(s, label),
             pc[s] \notin After, label \notin Before
      PROVE  PcMove
  BY <1>1, <1>3, Zenon DEF PcMove
<1>4. ASSUME NEW w \in Writers, UpdateEntries(w) \/ WriterStep(w)
      PROVE  PcMove
  <2>1. \/ UNCHANGED pc
        \/ \E label \in {"db_write", "update", "downgraded", "subs_read", "notify", "send",
                         "cleanup_wanted", "cleanup", "idle"} : Goto(w, label)
    BY <1>4, Zenon DEF UpdateEntries, WriterStep, BeginUpdate, UpdateNext, DowngradeLock,
       RequestSubsRead, BeginNotify, Compose, Send, EndNotify, RequestCleanup, Cleanup
  <2>2. CASE UNCHANGED pc
    BY <2>2 DEF PcMove
  <2>3. ASSUME NEW label \in {"db_write", "update", "downgraded", "subs_read", "notify", "send",
                         "cleanup_wanted", "cleanup", "idle"}, Goto(w, label)
        PROVE  PcMove
    <3>1. label \in Labels
      BY DEF Labels
    <3> QED
      BY <1>1, <1>2, <2>3, <3>1, Zenon
  <2> QED
    BY <2>1, <2>2, <2>3, Zenon
<1>5. ASSUME NEW s \in Streams, \/ Subscribe(s) \/ SubscriberStep(s)
                                \/ SubscribeQuery(s) \/ QuerierStep(s)
                                \/ Read(s) \/ Leave(s)
      PROVE  PcMove
  <2>1. \/ UNCHANGED pc
        \/ pc[s] = "idle" /\ (Goto(s, "refused") \/ Goto(s, "db_read"))
        \/ pc[s] = "db_read" /\ (Goto(s, "refused") \/ Goto(s, "notified"))
        \/ pc[s] = "notified" /\ Goto(s, "subs_write")
        \/ pc[s] = "subs_write" /\ Goto(s, "subscribed")
        \/ Goto(s, "gone") \/ Goto(s, "ended")
    BY <1>5, Zenon DEF Subscribe, SubscriberStep, InitialNotification, RequestSubsWrite,
       AddChangeSubscription, SubscribeQuery, QuerierStep, CompileQuery, AddQuerySubscription,
       Read, Receive, EndOfStream, Leave
  <2>2. \/ pc' = pc
        \/ \E label \in Labels :
              /\ Goto(s, label)
              /\ pc[s] \in After => label \in After
              /\ label \in Before => pc[s] \in Before
    BY <2>1 DEF Labels, After, Before
  <2> QED
    BY <1>1, <2>2, Zenon DEF PcMove
<1>6. ASSUME NEW r \in Registrars, RequestAdd(r) \/ AddEntry(r)
      PROVE  PcMove
  <2>1. Goto(r, "db_write") \/ Goto(r, "done")
    BY <1>6, Zenon DEF RequestAdd, AddEntry
  <2>2. "db_write" \in Labels /\ "done" \in Labels
    BY DEF Labels
  <2> QED
    BY <1>1, <1>2, <2>1, <2>2, Zenon
<1>7. CASE HousekeeperStep \/ RequestShutdown \/ Shutdown
  <2>1. \/ Goto(Housekeeper, "cleanup") \/ Goto(Housekeeper, "idle")
        \/ Goto(Terminator, "subs_write") \/ Goto(Terminator, "done")
    BY <1>7, Zenon DEF HousekeeperStep, RequestCleanup, Cleanup, RequestShutdown, Shutdown
  <2>2. "cleanup" \in Labels /\ "idle" \in Labels /\ "subs_write" \in Labels /\ "done" \in Labels
    BY DEF Labels
  <2> QED
    BY <1>1, <1>2, <2>1, <2>2, Zenon
<1>8. ASSUME NEW t \in Clients, Expire(t) \/ Cancel(t)
      PROVE  PcMove
  <2>1. CASE Expire(t)
    BY <2>1 DEF Expire, PcMove
  <2>2. CASE Cancel(t) /\ t \in Writers
    <3>1. Goto(t, "idle") /\ "idle" \in Labels
      BY <2>2, Zenon DEF Cancel, Labels
    <3> QED
      BY <1>1, <1>2, <2>2, <3>1, Zenon
  <2>3. CASE Cancel(t) /\ t \notin Writers
    <3>1. Goto(t, "gone") /\ "gone" \in Labels /\ "gone" \in After /\ "gone" \notin Before
      BY <2>3 DEF Cancel, Labels, After, Before
    <3> QED
      BY <1>1, <3>1, Zenon DEF PcMove
  <2> QED
    BY <1>8, <2>1, <2>2, <2>3, Zenon
<1> QED
  BY <1>4, <1>5, <1>6, <1>7, <1>8, ZenonT(30) DEF BrokerNext, Streams

\* After such a move tasks are at labels, and who was registered still is.
LEMMA PcMoveFacts ==
    ASSUME pc \in [Tasks -> Labels], PcMove
    PROVE  /\ pc' \in [Tasks -> Labels]
           /\ Joined \subseteq Joined'
           /\ \A s \in Streams : pc'[s] \in Before => pc[s] \in Before
<1>1. \A s \in Streams : s \in Tasks
  BY DEF Tasks, Clients
<1>2. CASE pc' = pc
  BY <1>2 DEF Joined
<1>3. ASSUME NEW t \in Tasks, NEW label \in Labels, Goto(t, label),
             t \in Streams /\ pc[t] \in After => label \in After,
             t \in Streams /\ label \in Before => pc[t] \in Before
      PROVE  /\ pc' \in [Tasks -> Labels]
             /\ Joined \subseteq Joined'
             /\ \A s \in Streams : pc'[s] \in Before => pc[s] \in Before
  <2>1. pc' \in [Tasks -> Labels] /\ \A x \in Tasks : pc'[x] = IF x = t THEN label ELSE pc[x]
    BY <1>3 DEF Goto
  <2> QED
    BY <1>1, <1>3, <2>1 DEF Joined
<1> QED
  BY <1>2, <1>3 DEF PcMove

------------------------------------------------------------------------------
(* The lists of subscriptions, and the calls *)

\* Seq is monotone.
LEMMA SeqMonotone ==
    ASSUME NEW S, NEW T, S \subseteq T, NEW x \in Seq(S)
    PROVE  x \in Seq(T)
  OBVIOUS

\* A list of subscriptions grows by a client that is registered with this step,
\* loses those that are closed, or is cleared.
ListMove(list, new, S) ==
    \/ new = list
    \/ new = << >>
    \/ new = Retained(list)
    \/ \E s \in S : Goto(s, "subscribed") /\ new = Append(list, s)

\* Every step moves both lists so.
LEMMA ListMoves ==
    BrokerNext => /\ ListMove(query_subscriptions, query_subscriptions', Queriers)
                  /\ ListMove(change_subscriptions, change_subscriptions', Subscribers)
<1> DEFINE Goal == /\ ListMove(query_subscriptions, query_subscriptions', Queriers)
                   /\ ListMove(change_subscriptions, change_subscriptions', Subscribers)
<1> SUFFICES ASSUME BrokerNext PROVE Goal
  OBVIOUS
<1>1. ASSUME UNCHANGED subsVars PROVE Goal
  BY <1>1, Zenon DEF ListMove, subsVars
<1>2. ASSUME NEW t, Cleanup(t) PROVE Goal
  BY <1>2, Zenon DEF ListMove, Cleanup
<1>3. ASSUME NEW s \in Subscribers, AddChangeSubscription(s) PROVE Goal
  BY <1>3, Zenon DEF ListMove, AddChangeSubscription
<1>4. ASSUME NEW q \in Queriers, AddQuerySubscription(q) PROVE Goal
  BY <1>4, Zenon DEF ListMove, AddQuerySubscription
<1>5. CASE Shutdown
  BY <1>5, Zenon DEF ListMove, Shutdown
<1> HIDE DEF Goal
<1>6. ASSUME NEW w \in Writers, UpdateEntries(w) \/ WriterStep(w) PROVE Goal
  BY <1>1, <1>2, <1>6, Zenon DEF UpdateEntries, WriterStep, BeginUpdate, UpdateNext, DowngradeLock,
     RequestSubsRead, BeginNotify, Compose, Send, EndNotify, RequestCleanup
<1>7. ASSUME NEW s \in Subscribers, Subscribe(s) \/ SubscriberStep(s) PROVE Goal
  BY <1>1, <1>3, <1>7, Zenon DEF Subscribe, SubscriberStep, InitialNotification, RequestSubsWrite
<1>8. ASSUME NEW q \in Queriers, SubscribeQuery(q) \/ QuerierStep(q) PROVE Goal
  BY <1>1, <1>4, <1>8, Zenon DEF SubscribeQuery, QuerierStep, CompileQuery, RequestSubsWrite
<1>9. ASSUME NEW s, Read(s) \/ Leave(s) PROVE Goal
  BY <1>1, <1>9, Zenon DEF Read, Receive, EndOfStream, Leave, clientUnchanged
<1>10. ASSUME NEW r, RequestAdd(r) \/ AddEntry(r) PROVE Goal
  BY <1>1, <1>10, Zenon DEF RequestAdd, AddEntry
<1>11. CASE HousekeeperStep \/ RequestShutdown
  BY <1>1, <1>2, <1>11, Zenon DEF HousekeeperStep, RequestCleanup, RequestShutdown
<1>12. ASSUME NEW t, Expire(t) \/ Cancel(t) PROVE Goal
  BY <1>1, <1>12, Zenon DEF Expire, Cancel
<1> QED
  BY <1>5, <1>6, <1>7, <1>8, <1>9, <1>10, <1>11, <1>12, Zenon DEF BrokerNext

\* A list moved so holds registered clients only.
LEMMA ListMoveType ==
    ASSUME DOMAIN pc = Tasks, Joined \subseteq Joined', NEW S, S \subseteq Streams,
           NEW list \in Seq(S \cap Joined), NEW new, ListMove(list, new, S)
    PROVE  new \in Seq(S \cap Joined')
<1>1. S \cap Joined \subseteq S \cap Joined'
  OBVIOUS
<1>2. list \in Seq(S \cap Joined')
  BY <1>1, SeqMonotone
<1>3. CASE new = Retained(list)
  <2> DEFINE gone == {s \in Streams : stream[s].closed}
  <2>1. IsSeq(list) /\ Elems(list) \subseteq S \cap Joined'
    BY <1>2, SeqIsSeq DEF Elems
  <2>2. new \in Seq(Elems(list) \ gone)
    BY <1>3, <2>1, WithoutFacts DEF Retained
  <2>3. Elems(list) \ gone \subseteq S \cap Joined'
    BY <2>1
  <2> HIDE DEF gone
  <2> QED
    BY <2>2, <2>3, SeqMonotone, Zenon
<1>4. ASSUME NEW s \in S, Goto(s, "subscribed"), new = Append(list, s)
      PROVE  new \in Seq(S \cap Joined')
  <2>1. s \in Tasks
    BY DEF Tasks, Clients
  <2>2. pc'[s] = "subscribed"
    BY <1>4, <2>1, Zenon DEF Goto
  <2>3. s \in S \cap Joined'
    BY <2>2 DEF Joined, After
  <2> QED
    BY <1>2, <1>4, <2>3
<1>5. << >> \in Seq(S \cap Joined')
  OBVIOUS
<1> QED
  BY <1>2, <1>3, <1>4, <1>5, Zenon DEF ListMove

\* What a step may do to the call of w.
CallMove(w) ==
    /\ call'[w].commit \in {call[w].commit, Len(log) + 1, 0}
    /\ \/ /\ call'[w].recipients = call[w].recipients
          /\ pc'[w] = "send" => pc[w] = "send" \/ call[w].recipients # << >>
       \/ /\ pc'[w] # "send"
          /\ \/ call'[w].recipients = << >>
             \/ call[w].recipients # << >> /\ call'[w].recipients = Tail(call[w].recipients)
             \/ call'[w].recipients = query_subscriptions \o change_subscriptions

\* A step of one writer.
LEMMA WriterMoves ==
    ASSUME Shape, TypeInv, NEW w \in Writers, UpdateEntries(w) \/ WriterStep(w)
    PROVE  CallMove(w) /\ \A v \in Writers : v # w => call'[v] = call[v] /\ pc'[v] = pc[v]
<1>1. w \in Tasks /\ DOMAIN pc = Tasks /\ \A v \in Writers : v \in Tasks
  BY Zenon DEF Tasks, Clients, Shape
<1>2. /\ DOMAIN call = Writers
      /\ DOMAIN call[w] = {"todo", "changed", "rejected", "commit", "recipients", "outbox", "failed"}
  BY DEF Shape
<1>3. ASSUME NEW label, Goto(w, label)
      PROVE  pc'[w] = label /\ \A v \in Writers : v # w => pc'[v] = pc[v]
  BY <1>1, <1>3, Zenon DEF Goto
<1>4. CASE UpdateEntries(w)
  <2>1. PICK batch : call' = [call EXCEPT ![w] = [NoCall EXCEPT !.todo = batch]]
    BY <1>4, Zenon DEF UpdateEntries
  <2>2. /\ call'[w].commit = 0 /\ call'[w].recipients = << >>
        /\ \A v \in Writers : v # w => call'[v] = call[v]
    BY <1>2, <2>1 DEF NoCall
  <2>3. Goto(w, "db_write")
    BY <1>4, ZenonT(30) DEF UpdateEntries
  <2> QED
    BY <1>3, <2>2, <2>3 DEF CallMove
<1>5. CASE BeginUpdate(w) \/ RequestSubsRead(w) \/ RequestCleanup(w) \/ Cleanup(w)
  <2>1. UNCHANGED call
    BY <1>5, Zenon DEF BeginUpdate, RequestSubsRead, RequestCleanup, Cleanup
  <2>2. Goto(w, "update") \/ Goto(w, "subs_read") \/ Goto(w, "cleanup") \/ Goto(w, "idle")
    BY <1>5, ZenonT(30) DEF BeginUpdate, RequestSubsRead, RequestCleanup, Cleanup
  <2>3. pc'[w] # "send" /\ \A v \in Writers : v # w => pc'[v] = pc[v]
    BY <1>3, <2>2
  <2> QED
    BY <2>1, <2>3, Zenon DEF CallMove
<1>6. CASE UpdateNext(w)
  <2>1. /\ call'[w].commit = call[w].commit /\ call'[w].recipients = call[w].recipients
        /\ \A v \in Writers : v # w => call'[v] = call[v]
    BY <1>2, <1>6, Zenon DEF UpdateNext
  <2>2. UNCHANGED pc
    BY <1>6, ZenonT(30) DEF UpdateNext
  <2> QED
    BY <2>1, <2>2 DEF CallMove
<1>7. CASE DowngradeLock(w)
  <2>1. /\ call'[w].commit = Len(log) + 1 /\ call'[w].recipients = call[w].recipients
        /\ \A v \in Writers : v # w => call'[v] = call[v]
    BY <1>2, <1>7 DEF DowngradeLock
  <2>2. Goto(w, "downgraded")
    BY <1>7, Zenon DEF DowngradeLock
  <2>3. pc'[w] # "send" /\ \A v \in Writers : v # w => pc'[v] = pc[v]
    BY <1>3, <2>2
  <2> QED
    BY <2>1, <2>3 DEF CallMove
<1>8. CASE BeginNotify(w)
  <2>1. /\ call'[w].commit = call[w].commit
        /\ call'[w].recipients = query_subscriptions \o change_subscriptions
        /\ \A v \in Writers : v # w => call'[v] = call[v]
    BY <1>2, <1>8 DEF BeginNotify
  <2>2. Goto(w, "notify")
    BY <1>8, Zenon DEF BeginNotify
  <2>3. pc'[w] # "send" /\ \A v \in Writers : v # w => pc'[v] = pc[v]
    BY <1>3, <2>2
  <2> QED
    BY <2>1, <2>3 DEF CallMove
<1>9. CASE Compose(w)
  <2> DEFINE message == MessageFor(Head(call[w].recipients), call[w].changed, call[w].commit)
  <2>1. pc[w] = "notify" /\ call[w].recipients # << >>
    BY <1>9 DEF Compose
  <2>2. \/ call' = [call EXCEPT ![w].recipients = Tail(@)] /\ UNCHANGED pc
        \/ call' = [call EXCEPT ![w].outbox = message] /\ Goto(w, "send")
    BY <1>9, Zenon DEF Compose
  <2> HIDE DEF message
  <2>3. CASE call' = [call EXCEPT ![w].recipients = Tail(@)] /\ UNCHANGED pc
    <3>1. /\ call'[w].commit = call[w].commit /\ call'[w].recipients = Tail(call[w].recipients)
          /\ \A v \in Writers : v # w => call'[v] = call[v]
      BY <1>2, <2>3
    <3> QED
      BY <2>1, <2>3, <3>1 DEF CallMove
  <2>4. CASE call' = [call EXCEPT ![w].outbox = message] /\ Goto(w, "send")
    <3>1. /\ call'[w].commit = call[w].commit /\ call'[w].recipients = call[w].recipients
          /\ \A v \in Writers : v # w => call'[v] = call[v]
      BY <1>2, <2>4, Zenon
    <3> QED
      BY <1>3, <2>1, <2>4, <3>1 DEF CallMove
  <2> QED
    BY <2>2, <2>3, <2>4
<1>10. CASE Send(w)
  <2>1. call[w].recipients # << >>
    BY <1>10 DEF Send, TypeInv, Lists
  <2>2. /\ call'[w].commit = call[w].commit /\ call'[w].recipients = Tail(call[w].recipients)
        /\ \A v \in Writers : v # w => call'[v] = call[v]
    <3>1. \/ call' = [call EXCEPT ![w].recipients = Tail(@), ![w].outbox = None]
          \/ call' = [call EXCEPT ![w].recipients = Tail(@), ![w].outbox = None, ![w].failed = TRUE]
      BY <1>10, Zenon DEF Send
    <3>2. CASE call' = [call EXCEPT ![w].recipients = Tail(@), ![w].outbox = None]
      BY <1>2, <3>2, Zenon
    <3>3. CASE call' = [call EXCEPT ![w].recipients = Tail(@), ![w].outbox = None, ![w].failed = TRUE]
      BY <1>2, <3>3, Zenon
    <3> QED
      BY <3>1, <3>2, <3>3, Zenon
  <2>3. Goto(w, "notify")
    BY <1>10, ZenonT(30) DEF Send
  <2> QED
    BY <1>3, <2>1, <2>2, <2>3 DEF CallMove
<1>11. CASE EndNotify(w)
  <2>1. /\ call'[w].commit = 0 /\ call'[w].recipients = << >>
        /\ \A v \in Writers : v # w => call'[v] = call[v]
    BY <1>2, <1>11, ZenonT(30) DEF EndNotify, NoCall
  <2>2. Goto(w, "idle") \/ Goto(w, "cleanup_wanted")
    BY <1>11, ZenonT(30) DEF EndNotify
  <2>3. pc'[w] # "send" /\ \A v \in Writers : v # w => pc'[v] = pc[v]
    BY <1>3, <2>2
  <2> QED
    BY <2>1, <2>3, ZenonT(30) DEF CallMove
<1> QED
  BY <1>4, <1>5, <1>6, <1>7, <1>8, <1>9, <1>10, <1>11, ZenonT(30) DEF WriterStep

\* A step of anyone: the writers' calls are typed.
LEMMA CallMoves ==
    ASSUME Shape, TypeInv, BrokerNext, NEW w \in Writers
    PROVE  CallMove(w)
<1>1. ASSUME call'[w] = call[w], pc'[w] = pc[w] PROVE CallMove(w)
  BY <1>1 DEF CallMove
<1>2. ASSUME NEW v \in Writers, UpdateEntries(v) \/ WriterStep(v) PROVE CallMove(w)
  BY <1>1, <1>2, WriterMoves, ZenonT(30)
<1>3. ASSUME NEW t, t # w, NEW label, UNCHANGED call, UNCHANGED pc \/ Goto(t, label)
      PROVE  CallMove(w)
  <2>1. pc'[w] = pc[w]
    BY <1>3 DEF Goto, Shape, Tasks, Clients
  <2> QED
    BY <1>1, <1>3, <2>1, Zenon
<1>4. ASSUME NEW s \in Streams, \/ Subscribe(s) \/ SubscriberStep(s)
                                \/ SubscribeQuery(s) \/ QuerierStep(s)
                                \/ Read(s) \/ Leave(s)
      PROVE  CallMove(w)
  <2>1. s # w
    BY Disjoint
  <2>2. UNCHANGED call /\ (UNCHANGED pc \/ \E label : Goto(s, label))
    BY <1>4, Zenon DEF Subscribe, SubscriberStep, InitialNotification, RequestSubsWrite,
       AddChangeSubscription, SubscribeQuery, QuerierStep, CompileQuery, AddQuerySubscription,
       Read, Receive, EndOfStream, Leave, clientUnchanged
  <2> QED
    BY <1>3, <2>1, <2>2, Zenon
<1>5. ASSUME NEW r \in Registrars, RequestAdd(r) \/ AddEntry(r) PROVE CallMove(w)
  <2>1. r # w /\ UNCHANGED call /\ \E label : Goto(r, label)
    BY <1>5, Disjoint, Zenon DEF RequestAdd, AddEntry
  <2> QED
    BY <1>3, <2>1, Zenon
<1>6. CASE HousekeeperStep \/ RequestShutdown \/ Shutdown
  <2>1. Housekeeper # w /\ Terminator # w
    BY TasksAssumption DEF Clients
  <2>2. UNCHANGED call /\ \E label : Goto(Housekeeper, label) \/ Goto(Terminator, label)
    BY <1>6, Zenon DEF HousekeeperStep, RequestCleanup, Cleanup, RequestShutdown, Shutdown
  <2> QED
    BY <1>3, <2>1, <2>2, Zenon
<1>7. ASSUME NEW t \in Clients, Expire(t) \/ Cancel(t) PROVE CallMove(w)
  <2>1. CASE Expire(t)
    BY <1>1, <2>1 DEF Expire
  <2>2. CASE Cancel(t) /\ t \in Writers
    <3>1. call' = [call EXCEPT ![t] = NoCall] /\ Goto(t, "idle")
      BY <2>2, ZenonT(30) DEF Cancel
    <3>2. CASE t = w
      <4>1. call'[w].commit = 0 /\ call'[w].recipients = << >> /\ pc'[w] = "idle"
        BY <3>1, <3>2, Zenon DEF Shape, NoCall, Goto, Tasks, Clients
      <4> QED
        BY <4>1 DEF CallMove
    <3>3. CASE t # w
      <4>1. call'[w] = call[w] /\ pc'[w] = pc[w]
        BY <3>1, <3>3 DEF Shape, Goto, Tasks, Clients
      <4> QED
        BY <1>1, <4>1, Zenon
    <3> QED
      BY <3>2, <3>3
  <2>3. CASE Cancel(t) /\ t \notin Writers
    <3>1. UNCHANGED call /\ Goto(t, "gone") /\ t # w
      BY <2>3, Zenon DEF Cancel
    <3> QED
      BY <1>3, <3>1, Zenon
  <2> QED
    BY <1>7, <2>1, <2>2, <2>3, Zenon
<1> QED
  BY <1>2, <1>4, <1>5, <1>6, <1>7, ZenonT(30) DEF BrokerNext, Streams

\* So the lists and the calls keep their types.
LEMMA ListsStep ==
    ASSUME BrokerInv, TypeInv, BrokerNext
    PROVE  Lists'
<1>1. Joined \subseteq Joined' /\ DOMAIN pc = Tasks
  BY PcMoves, PcMoveFacts DEF TypeInv, Typed
<1>2. Queriers \subseteq Streams /\ Subscribers \subseteq Streams
  BY DEF Streams
<1>3. /\ query_subscriptions \in Seq(Queriers \cap Joined)
      /\ change_subscriptions \in Seq(Subscribers \cap Joined)
  BY DEF TypeInv, Lists
<1>4. query_subscriptions' \in Seq(Queriers \cap Joined')
  BY <1>1, <1>2, <1>3, ListMoves, ListMoveType, Zenon
<1>5. change_subscriptions' \in Seq(Subscribers \cap Joined')
  BY <1>1, <1>2, <1>3, ListMoves, ListMoveType, ZenonT(30)
<1>6. ASSUME NEW w \in Writers
      PROVE  /\ call'[w].commit \in Nat
             /\ call'[w].recipients \in Seq(Joined')
             /\ pc'[w] = "send" => call'[w].recipients # << >>
  <2>1. CallMove(w)
    BY CallMoves, Zenon DEF BrokerInv
  <2>2. /\ call[w].commit \in Nat /\ call[w].recipients \in Seq(Joined)
        /\ pc[w] = "send" => call[w].recipients # << >>
    BY Zenon DEF TypeInv, Lists
  <2>3. Len(log) \in Nat
    BY AppendFacts, Zenon DEF BrokerInv, Shape
  <2>4. call'[w].commit \in Nat
    BY <2>1, <2>2, <2>3 DEF CallMove
  <2>5. query_subscriptions \in Seq(Joined) /\ change_subscriptions \in Seq(Joined)
    <3>1. Queriers \cap Joined \subseteq Joined /\ Subscribers \cap Joined \subseteq Joined
      OBVIOUS
    <3> QED
      BY <1>3, <3>1, SeqMonotone
  <2>6. /\ query_subscriptions \o change_subscriptions \in Seq(Joined)
        /\ << >> \in Seq(Joined)
        /\ call[w].recipients # << >> => Tail(call[w].recipients) \in Seq(Joined)
    BY <2>2, <2>5
  <2>7. call'[w].recipients \in Seq(Joined)
    BY <2>1, <2>2, <2>6, Zenon DEF CallMove
  <2>8. call'[w].recipients \in Seq(Joined')
    BY <1>1, <2>7, SeqMonotone
  <2>9. pc'[w] = "send" => call'[w].recipients # << >>
    BY <2>1, <2>2, Zenon DEF CallMove
  <2> QED
    BY <2>4, <2>8, <2>9
<1> QED
  BY <1>4, <1>5, <1>6, Zenon DEF Lists

------------------------------------------------------------------------------
(* The channels *)

\* What a step may do to the channel of s: nothing is added to a full one.
ChanMove(s) ==
    \/ stream'[s].chan = stream[s].chan
    \/ stream'[s].chan = << >>
    \/ stream[s].chan # << >> /\ stream'[s].chan = Tail(stream[s].chan)
    \/ /\ Len(stream[s].chan) < Capacity
       /\ pc'[s] \notin Before
       /\ \E m : stream'[s].chan = Append(stream[s].chan, m)

\* A message is delivered to one channel.
LEMMA DeliverMoves ==
    ASSUME Shape, NEW x \in Streams, NEW m, Deliver(x, m), NEW s \in Streams,
           Len(stream[x].chan) < Capacity, pc'[x] \notin Before
    PROVE  ChanMove(s)
<1>1. /\ stream'[x].chan = Append(stream[x].chan, m)
      /\ s # x => stream'[s] = stream[s]
  BY DEF Deliver, Shape
<1> QED
  BY <1>1, Zenon DEF ChanMove

\* Every step moves every channel so.
LEMMA ChanMoves ==
    ASSUME BrokerInv, TypeInv, BrokerNext, NEW s \in Streams
    PROVE  ChanMove(s)
<1>1. ASSUME UNCHANGED stream PROVE ChanMove(s)
  BY <1>1, ZenonT(30) DEF ChanMove
<1>2. Shape /\ DOMAIN pc = Tasks /\ \A x \in Streams : x \in Tasks
  BY Zenon DEF BrokerInv, Shape, Tasks, Clients
<1>3. ASSUME NEW w \in Writers, UpdateEntries(w) \/ WriterStep(w) PROVE ChanMove(s)
  <2>1. CASE Send(w)
    <3> DEFINE x == Head(call[w].recipients)
    <3>1. call[w].recipients # << >> /\ call[w].recipients \in Seq(Joined)
      BY <2>1 DEF Send, TypeInv, Lists
    <3>2. x \in Joined
      BY <3>1
    <3>3. x \in Streams /\ pc[x] \notin Before /\ x # w
      BY <3>2, Disjoint DEF Joined, Before, After
    <3>4. pc'[x] \notin Before
      BY <1>2, <2>1, <3>3, Zenon DEF Send, Goto
    <3>5. UNCHANGED stream \/ (Len(stream[x].chan) < Capacity /\ Deliver(x, call[w].outbox[1]))
      BY <2>1, Zenon DEF Send
    <3> HIDE DEF x
    <3> QED
      BY <1>1, <1>2, <3>3, <3>4, <3>5, DeliverMoves, ZenonT(30)
  <2>2. CASE ~Send(w)
    <3>1. UNCHANGED stream
      BY <1>3, <2>2, Zenon DEF UpdateEntries, WriterStep, BeginUpdate, UpdateNext, DowngradeLock,
         RequestSubsRead, BeginNotify, Compose, EndNotify, RequestCleanup, Cleanup
    <3> QED
      BY <1>1, <3>1
  <2> QED
    BY <2>1, <2>2
<1>4. ASSUME NEW x \in Streams, InitialNotification(x) \/ CompileQuery(x) PROVE ChanMove(s)
  <2>1. Len(stream[x].chan) < Capacity
    <3>1. stream[x].chan = << >>
      BY <1>4, Zenon DEF InitialNotification, CompileQuery, TypeInv, ChannelsBounded, Before
    <3> QED
      BY <3>1, CapacityAssumption
  <2>2. UNCHANGED stream \/ (Goto(x, "notified") /\ \E m : Deliver(x, m))
    BY <1>4, Zenon DEF InitialNotification, CompileQuery
  <2>3. Goto(x, "notified") => pc'[x] \notin Before
    BY <1>2 DEF Goto, Before
  <2> QED
    BY <1>1, <1>2, <2>1, <2>2, <2>3, DeliverMoves, ZenonT(30)
<1>5. ASSUME NEW x \in Streams, AddChangeSubscription(x) \/ AddQuerySubscription(x)
      PROVE  ChanMove(s)
  <2>1. stream' = [stream EXCEPT ![x].since = Len(log)]
    BY <1>5, Zenon DEF AddChangeSubscription, AddQuerySubscription
  <2>2. stream'[s].chan = stream[s].chan
    BY <1>2, <2>1 DEF Shape
  <2> QED
    BY <2>2, Zenon DEF ChanMove
<1>6. ASSUME NEW x \in Streams, Read(x) \/ Leave(x) PROVE ChanMove(s)
  <2>1. \/ UNCHANGED stream
        \/ stream[x].chan # << >> /\ stream' = [stream EXCEPT ![x].chan = Tail(@)]
        \/ stream' = [stream EXCEPT ![x].chan = << >>, ![x].closed = TRUE]
    BY <1>6, Zenon DEF Read, Receive, EndOfStream, Leave
  <2>2. \/ stream'[s].chan = stream[s].chan
        \/ stream'[s].chan = << >>
        \/ stream[s].chan # << >> /\ stream'[s].chan = Tail(stream[s].chan)
    <3>1. CASE stream[x].chan # << >> /\ stream' = [stream EXCEPT ![x].chan = Tail(@)]
      BY <1>2, <3>1, Zenon DEF Shape
    <3>2. CASE stream' = [stream EXCEPT ![x].chan = << >>, ![x].closed = TRUE]
      BY <1>2, <3>2, Zenon DEF Shape
    <3> QED
      BY <2>1, <3>1, <3>2
  <2> QED
    BY <2>2, Zenon DEF ChanMove
<1>7. ASSUME NEW x \in Streams, Subscribe(x) \/ SubscribeQuery(x) \/ RequestSubsWrite(x)
      PROVE  ChanMove(s)
  BY <1>1, <1>7, Zenon DEF Subscribe, SubscribeQuery, RequestSubsWrite
<1>8. ASSUME NEW r, RequestAdd(r) \/ AddEntry(r) PROVE ChanMove(s)
  BY <1>1, <1>8, Zenon DEF RequestAdd, AddEntry
<1>9. CASE HousekeeperStep \/ RequestShutdown \/ Shutdown
  BY <1>1, <1>9, Zenon DEF HousekeeperStep, RequestCleanup, Cleanup, RequestShutdown, Shutdown
<1>10. ASSUME NEW t \in Clients, Expire(t) \/ Cancel(t) PROVE ChanMove(s)
  <2>1. \/ UNCHANGED stream
        \/ stream' = [stream EXCEPT ![t].closed = TRUE, ![t].chan = << >>]
    BY <1>10, Zenon DEF Expire, Cancel
  <2>2. stream'[s].chan = stream[s].chan \/ stream'[s].chan = << >>
    BY <1>2, <2>1 DEF Shape
  <2> QED
    BY <2>2, Zenon DEF ChanMove
<1> QED
  BY <1>3, <1>4, <1>5, <1>6, <1>7, <1>8, <1>9, <1>10, Zenon
  DEF BrokerNext, SubscriberStep, QuerierStep, Streams

\* So no channel outgrows its capacity.
LEMMA ChannelsStep ==
    ASSUME BrokerInv, TypeInv, BrokerNext
    PROVE  ChannelsBounded'
<1> SUFFICES ASSUME NEW s \in Streams
             PROVE  /\ Len(stream'[s].chan) <= Capacity
                    /\ pc'[s] \in Before => stream'[s].chan = << >>
  BY ZenonT(30) DEF ChannelsBounded
<1> DEFINE c == stream[s].chan
<1>1. IsSeq(c) /\ Len(c) <= Capacity /\ (pc[s] \in Before => c = << >>)
  BY DEF BrokerInv, Shape, TypeInv, ChannelsBounded
<1>2. pc'[s] \in Before => pc[s] \in Before
  BY PcMoves, PcMoveFacts DEF TypeInv, Typed
<1>3. Capacity \in Nat /\ c \in Seq(Elems(c))
  BY <1>1, CapacityAssumption DEF IsSeq
<1>4. ChanMove(s)
  BY ChanMoves
<1> DEFINE d == stream'[s].chan
<1>5. \/ d = c
      \/ d = << >>
      \/ c # << >> /\ d = Tail(c)
      \/ Len(c) < Capacity /\ pc'[s] \notin Before /\ \E m : d = Append(c, m)
  BY <1>4, Zenon DEF ChanMove
<1> HIDE DEF c, d
<1>6. CASE d = c
  BY <1>1, <1>2, <1>6 DEF d
<1>7. CASE d = << >>
  BY <1>3, <1>7 DEF d
<1>8. CASE c # << >> /\ d = Tail(c)
  <2>1. Len(d) <= Capacity
    BY <1>1, <1>3, <1>8
  <2> QED
    BY <1>1, <1>2, <1>8, <2>1, Zenon DEF d
<1>9. ASSUME Len(c) < Capacity, pc'[s] \notin Before, NEW m, d = Append(c, m)
      PROVE  Len(d) <= Capacity
  BY <1>1, <1>3, <1>9, AppendFacts
<1> QED
  BY <1>5, <1>6, <1>7, <1>8, <1>9, Zenon DEF d

------------------------------------------------------------------------------
(* Theorems *)

\* Only clients' tokens that can expire do.
LEMMA ExpiredStep == expired \subseteq Expiring /\ BrokerNext => expired' \subseteq Expiring
<1> SUFFICES ASSUME expired \subseteq Expiring, BrokerNext PROVE expired' \subseteq Expiring
  OBVIOUS
<1>1. ASSUME NEW w \in Writers, UpdateEntries(w) \/ WriterStep(w) PROVE UNCHANGED expired
  BY <1>1, Zenon DEF UpdateEntries, WriterStep, BeginUpdate, UpdateNext, DowngradeLock,
     RequestSubsRead, BeginNotify, Compose, Send, EndNotify, RequestCleanup, Cleanup
<1>2. ASSUME NEW s, \/ Subscribe(s) \/ SubscriberStep(s) \/ SubscribeQuery(s) \/ QuerierStep(s)
                    \/ Read(s) \/ Leave(s)
      PROVE  UNCHANGED expired
  BY <1>2, Zenon DEF Subscribe, SubscriberStep, InitialNotification, RequestSubsWrite,
     AddChangeSubscription, SubscribeQuery, QuerierStep, CompileQuery, AddQuerySubscription,
     Read, Receive, EndOfStream, Leave, clientUnchanged
<1>3. ASSUME NEW r, RequestAdd(r) \/ AddEntry(r) PROVE UNCHANGED expired
  BY <1>3, Zenon DEF RequestAdd, AddEntry
<1>4. ASSUME HousekeeperStep \/ RequestShutdown \/ Shutdown PROVE UNCHANGED expired
  BY <1>4, Zenon DEF HousekeeperStep, RequestCleanup, Cleanup, RequestShutdown, Shutdown
<1>5. ASSUME NEW t \in Clients, Expire(t) \/ Cancel(t) PROVE expired' \subseteq Expiring
  BY <1>5 DEF Expire, Cancel
<1> QED
  BY <1>1, <1>2, <1>3, <1>4, <1>5, Zenon DEF BrokerNext

\* The invariant holds at startup.
LEMMA TypeInitially == BrokerInit => TypeInv
<1> SUFFICES ASSUME BrokerInit PROVE TypeInv
  OBVIOUS
<1>1. Unlocked \in LockState(Tasks)
  BY DEF Unlocked, LockState
<1>2. Typed
  BY <1>1, ZenonT(30) DEF BrokerInit, Typed, Labels
<1>3. \A w \in Writers : /\ call[w].commit = 0 /\ call[w].recipients = << >>
                         /\ pc[w] = "idle"
  BY ZenonT(30) DEF BrokerInit, NoCall, Tasks, Clients
<1>4. query_subscriptions = << >> /\ change_subscriptions = << >>
  BY Zenon DEF BrokerInit
<1>5. Lists
  <2>1. /\ << >> \in Seq(Queriers \cap Joined) /\ << >> \in Seq(Subscribers \cap Joined)
        /\ << >> \in Seq(Joined) /\ 0 \in Nat
    OBVIOUS
  <2>2. \A w \in Writers : pc[w] # "send"
    BY <1>3, Zenon
  <2> QED
    BY <1>3, <1>4, <2>1, <2>2, Zenon DEF Lists
<1>6. \A s \in Streams : stream[s].chan = << >>
  BY Zenon DEF BrokerInit
<1>7. ChannelsBounded
  BY <1>6, CapacityAssumption DEF ChannelsBounded
<1> QED
  BY <1>2, <1>5, <1>7, Zenon DEF TypeInv

\* Every step keeps it.
LEMMA TypeStep == BrokerInv /\ TypeInv /\ [BrokerNext]_vars => TypeInv'
<1> SUFFICES ASSUME BrokerInv, TypeInv, [BrokerNext]_vars PROVE TypeInv'
  OBVIOUS
<1>1. CASE BrokerNext
  <2>1. Typed'
    BY <1>1, LockMoves, LockMoveType, PcMoves, PcMoveFacts, ExpiredStep, Zenon DEF TypeInv, Typed
  <2> QED
    BY <1>1, <2>1, ListsStep, ChannelsStep, Zenon DEF TypeInv
<1>2. CASE UNCHANGED vars
  BY <1>2, Zenon DEF TypeInv, Typed, Lists, ChannelsBounded, Joined, vars, lockVars, subsVars
<1> QED
  BY <1>1, <1>2

\* The invariant holds in every state of every run of the broker.
THEOREM TypeInvariant == BrokerSpec => []TypeInv
  BY TypeInitially, TypeStep, BrokerInvariant, PTL DEF BrokerSpec

\* BrokerTypeOK for all constants: the two locks, the lists and the calls keep
\* their types, and a channel never holds more than its capacity.
THEOREM BrokerTypeCorrect == BrokerSpec => []BrokerTypeOK
<1>1. BrokerInv /\ TypeInv => BrokerTypeOK
  <2> SUFFICES ASSUME BrokerInv, TypeInv PROVE BrokerTypeOK
    OBVIOUS
  <2>1. /\ Queriers \cap Joined \subseteq Queriers /\ Subscribers \cap Joined \subseteq Subscribers
        /\ Joined \subseteq Streams
    BY DEF Joined
  <2>2. /\ query_subscriptions \in Seq(Queriers) /\ change_subscriptions \in Seq(Subscribers)
        /\ \A w \in Writers : call[w].recipients \in Seq(Streams)
    BY <2>1, SeqMonotone DEF TypeInv, Lists
  <2> QED
    BY <2>2, Zenon DEF BrokerInv, Shape, DbInv, TypeInv, Typed, Lists, ChannelsBounded, BrokerTypeOK
<1> QED
  BY <1>1, BrokerInvariant, TypeInvariant, PTL

==============================================================================
