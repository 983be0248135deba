---------------------------- MODULE ServicesProofs ----------------------------
(***************************************************************************)
(* Theorems about Services, for any files, clients and requests: what the  *)
(* two interfaces of the databroker do to one database.                    *)
(***************************************************************************)
EXTENDS Services, WellFoundedInduction, TLAPS

------------------------------------------------------------------------------
(* The inductive invariant *)

EntryShape(e) ==
    /\ DOMAIN e = {"datapoint", "actuator_target", "metadata"}
    /\ DOMAIN e.metadata = {"id", "path", "data_type", "entry_type", "change_type", "allowed"}

UpdateShape(u) == DOMAIN u = {"metadata_set", "datapoint", "actuator_target", "allowed"}

\* The database: what Database promises, with the shapes it needs to go on.
StoreInv ==
    /\ next_id \in Nat
    /\ \A id \in DOMAIN entries : id \in Nat /\ EntryShape(entries[id])
    /\ PathsAndIdsAgree
    /\ StoredValuesFit

\* The records of calls are looked at as values: r is the record, ids the index
\* of the paths, n the next id.
CallFields ==
    {"op", "request", "next", "expired", "status", "updates", "errors", "results", "provider", "known"}

RecordOK(r, n) ==
    /\ DOMAIN r = CallFields
    /\ r.request \in DOMAIN Requests /\ r.op = Requests[r.request].op
    /\ r.next \in Nat \ {0}
    /\ r.known \in Nat /\ r.known <= n

ItemsOf(r) == Requests[r.request].items
KnownTo(r, ids) == {path \in DOMAIN ids : ids[path] < r.known}

\* A registration has handed out ids that are in the index.
RegisterOK(r, ids) ==
    r.op = "register_datapoints" =>
        \A name \in DOMAIN r.results : name \in DOMAIN ids /\ ids[name] = r.results[name]

\* The patterns a subscription will look up, or has looked up.
ToLookUp(r) ==
    {i \in DOMAIN ItemsOf(r) :
        /\ ~BadPattern(ItemsOf(r)[i].path)
        /\ \A j \in (i + 1)..Len(ItemsOf(r)) : ItemsOf(r)[j].path # ItemsOf(r)[i].path}

\* A subscription has all that each pattern it has looked up matched at its arrival.
SubscribeOK(r, ids) ==
    r.op = "subscribe" =>
        /\ r.updates \in Seq([item: Nat])
        /\ \A k \in DOMAIN r.updates :
              LET item == ItemsOf(r)[r.updates[k].item]
              IN  \A path \in MatchedBy[item.path] \cap KnownTo(r, ids) :
                     path \in DOMAIN r.results /\ FromValFields(item.fields) \subseteq r.results[path]
        /\ r.status = "Ok" =>
              \A i \in ToLookUp(r) : \E k \in DOMAIN r.updates : r.updates[k].item = i

EntryOf(r, i) == ItemsOf(r)[i].entry[1]
SetUpdate(r, i) == from_proto_entry_and_fields(EntryOf(r, i), ItemsOf(r)[i].fields)

\* u is what the lookup has made of an item.
FromItem(r, ids, u) ==
    LET i == u.item
    IN  /\ i \in Nat /\ i \in DOMAIN ItemsOf(r) /\ i < r.next
        /\ EntryOf(r, i).path \in DOMAIN ids
        /\ u.id = ids[EntryOf(r, i).path]
        /\ u.update = SetUpdate(r, i)

\* The i-th item has its update, if it was to be found all along.
Covered(r, ids, i) ==
    EntryOf(r, i).path \in KnownTo(r, ids) => \E k \in DOMAIN r.updates : r.updates[k].item = i

\* The updates of a set come from its items, in their order, and no item of a
\* path that was registered when the call came in is left out.
SetOK(r, ids) ==
    r.op = "set" =>
        /\ IsList(r.updates)
        /\ \A k \in DOMAIN r.updates : FromItem(r, ids, r.updates[k])
        /\ \A k, l \in DOMAIN r.updates : k < l => r.updates[k].item < r.updates[l].item
        /\ \A i \in 1..(r.next - 1) : Covered(r, ids, i)

\* What is handed to update_entries is a list of updates.
UpdateList(updates) == IsList(updates) /\ \A k \in DOMAIN updates : UpdateShape(updates[k].update)

SetDatapointsOK(r) == r.op = "set_datapoints" => UpdateList(r.updates)

StreamOK(r) ==
    r.op = "stream_datapoints" =>
        /\ DOMAIN r.provider = {"state", "sent", "messages"}
        /\ r.provider.messages \in Seq(StreamMessages)

CallOK(r, ids, n) ==
    r # NoCall =>
        /\ RecordOK(r, n) /\ RegisterOK(r, ids) /\ SubscribeOK(r, ids) /\ SetOK(r, ids)
        /\ SetDatapointsOK(r) /\ StreamOK(r)

CallsOK ==
    /\ DOMAIN call = Clients
    /\ \A c \in Clients : CallOK(call[c], path_to_id, next_id)

ServicesInv == StoreInv /\ CallsOK

------------------------------------------------------------------------------
(* Induction, on sets of numbers *)

\* A set that has 0 and the successor of each of its numbers below n has them all.
LEMMA UpTo_ ==
    ASSUME NEW n \in Nat, NEW S, 0 \in S,
           \A i \in 1..n : i - 1 \in S => i \in S
    PROVE  \A i \in 0..n : i \in S
<1> SUFFICES ASSUME NEW k \in 0..n, k \notin S PROVE FALSE
  OBVIOUS
<1> DEFINE R == OpToRel(<, Nat)
           T == {i \in 0..n : i \notin S}
<1>1. IsWellFoundedOn(R, Nat)
  BY NatLessThanWellFounded, Zenon
<1>2. \A x, y \in Nat : << x, y >> \in R <=> x < y
  BY DEF OpToRel
<1>3. T \subseteq Nat /\ T # {}
  OBVIOUS
<1> HIDE DEF R, T
<1>4. PICK x \in T : \A y \in T : ~ (<< y, x >> \in R)
  BY <1>1, <1>3, WFMin, Zenon
<1>5. x \in 0..n /\ x \notin S /\ \A y \in T : ~ (y < x)
  BY <1>2, <1>3, <1>4, Zenon DEF T
<1>6. x \in 1..n /\ x - 1 \in 0..n /\ x - 1 < x
  BY <1>5
<1>7. x - 1 \in S
  BY <1>5, <1>6 DEF T
<1> QED
  BY <1>5, <1>6, <1>7

\* A set of numbers up to n that is not empty has a greatest element.
LEMMA Greatest ==
    ASSUME NEW n \in Nat, NEW T, T \subseteq 1..n, T # {}
    PROVE  \E x \in T : \A y \in T : y <= x
<1> DEFINE S == {i \in 0..n : (\E x \in T : x <= i) => \E x \in T : \A y \in T : y <= i => y <= x}
<1>1. 0 \in S
  OBVIOUS
<1>2. ASSUME NEW i \in 1..n, i - 1 \in S PROVE i \in S
  <2>1. CASE i \in T
    BY <2>1
  <2>2. CASE i \notin T
    <3>1. \A y \in T : y <= i <=> y <= i - 1
      BY <2>2
    <3> QED
      BY <1>2, <3>1
  <2> QED
    BY <2>1, <2>2
<1> HIDE DEF S
<1>3. n \in S
  BY <1>1, <1>2, UpTo_
<1>4. \A y \in T : y <= n
  OBVIOUS
<1>5. (\E x \in T : x <= n) => \E x \in T : \A y \in T : y <= n => y <= x
  BY <1>3 DEF S
<1> QED
  BY <1>4, <1>5, Zenon

------------------------------------------------------------------------------
(* update_entries *)

\* g[i] is what the first i updates leave.
Fold(g, es, perm, updates, n) ==
    g = [i \in 0..n |-> IF i = 0 THEN [entries |-> es, errors |-> {}]
                        ELSE UpdateOne(g[i - 1], perm, updates[i])]

\* The recursion of UpdateEntries has a solution.
LEMMA FoldExists ==
    ASSUME NEW es, NEW perm, NEW updates, NEW m \in Nat
    PROVE  \E g : Fold(g, es, perm, updates, m)
<1> DEFINE S == {n \in 0..m : \E g : Fold(g, es, perm, updates, n)}
<1>1. 0 \in S
  <2> DEFINE g == [i \in 0..0 |-> [entries |-> es, errors |-> {}]]
  <2>1. Fold(g, es, perm, updates, 0)
    BY DEF Fold
  <2> QED
    BY <2>1
<1>2. ASSUME NEW n \in 1..m, n - 1 \in S PROVE n \in S
  <2>1. PICK g : Fold(g, es, perm, updates, n - 1)
    BY <1>2
  <2> DEFINE h == [i \in 0..n |-> IF i = n THEN UpdateOne(g[n - 1], perm, updates[n]) ELSE g[i]]
  <2>2. \A i \in 0..(n - 1) : h[i] = g[i]
    OBVIOUS
  <2>3. ASSUME NEW i \in 0..n
        PROVE  h[i] = IF i = 0 THEN [entries |-> es, errors |-> {}]
                      ELSE UpdateOne(h[i - 1], perm, updates[i])
    <3>1. CASE i = n
      BY <2>2, <3>1
    <3>2. CASE i # n
      <4>1. i \in 0..(n - 1) /\ h[i] = g[i] /\ (i # 0 => h[i - 1] = g[i - 1])
        BY <2>2, <3>2
      <4>2. g[i] = IF i = 0 THEN [entries |-> es, errors |-> {}]
                   ELSE UpdateOne(g[i - 1], perm, updates[i])
        BY <2>1, <4>1, Zenon DEF Fold
      <4> QED
        BY <4>1, <4>2
    <3> QED
      BY <3>1, <3>2
  <2>4. Fold(h, es, perm, updates, n)
    <3>1. h = [i \in 0..n |-> h[i]]
      OBVIOUS
    <3> HIDE DEF h
    <3> QED
      BY <2>3, <3>1, Zenon DEF Fold
  <2> QED
    BY <2>4
<1> HIDE DEF S
<1>3. m \in S
  BY <1>1, <1>2, UpTo_
<1> QED
  BY <1>3 DEF S

\* UpdateEntries makes the updates one by one.
LEMMA UpdateEntriesFold ==
    ASSUME NEW es, NEW perm, NEW updates, IsList(updates)
    PROVE  \E g : /\ UpdateEntries(es, perm, updates) = g[Len(updates)]
                  /\ g[0] = [entries |-> es, errors |-> {}]
                  /\ \A i \in 1..Len(updates) : g[i] = UpdateOne(g[i - 1], perm, updates[i])
<1> DEFINE n == Len(updates)
           g == CHOOSE h : Fold(h, es, perm, updates, n)
<1>1. n \in Nat
  BY DEF IsList
<1>2. Fold(g, es, perm, updates, n)
  BY <1>1, FoldExists
<1>3. UpdateEntries(es, perm, updates) = g[n]
  BY Zenon DEF UpdateEntries, Fold
<1> HIDE DEF g
<1>4. \A i \in 0..n : g[i] = IF i = 0 THEN [entries |-> es, errors |-> {}]
                             ELSE UpdateOne(g[i - 1], perm, updates[i])
  BY <1>2, Zenon DEF Fold
<1>5. g[0] = [entries |-> es, errors |-> {}]
  <2>1. 0 \in 0..n
    BY <1>1
  <2> QED
    BY <1>4, <2>1, Zenon
<1>6. \A i \in 1..n : g[i] = UpdateOne(g[i - 1], perm, updates[i])
  BY <1>1, <1>4
<1> QED
  BY <1>3, <1>5, <1>6

\* The values an update can change.
Values == {"datapoint", "actuator_target"}

\* `diff` takes nothing from an update but a value that the entry has already.
LEMMA DiffFacts ==
    ASSUME NEW entry, NEW u, UpdateShape(u)
    PROVE  LET d == diff(entry, u)
           IN  /\ UpdateShape(d)
               /\ d.actuator_target = u.actuator_target
               /\ \/ d.datapoint = u.datapoint
                  \/ d.datapoint = None /\ u.datapoint = Some(entry.datapoint)
<1> DEFINE same == u.datapoint = Some(entry.datapoint) /\ entry.metadata.change_type # "Continuous"
<1>1. CASE same
  <2>1. diff(entry, u) = [u EXCEPT !.datapoint = None]
    BY <1>1 DEF diff
  <2> QED
    BY <1>1, <2>1 DEF UpdateShape
<1>2. CASE ~same
  <2>1. diff(entry, u) = u
    BY <1>2 DEF diff
  <2> QED
    BY <2>1
<1> QED
  BY <1>1, <1>2

\* `apply` writes the values of the update and leaves the rest alone.
LEMMA ApplyFacts ==
    ASSUME NEW entry, NEW u, EntryShape(entry)
    PROVE  LET e == apply(entry, u)
           IN  /\ EntryShape(e)
               /\ \A k \in FixedMetadata : e.metadata[k] = entry.metadata[k]
               /\ \A f \in Values : e[f] = IF u[f] = None THEN entry[f] ELSE u[f][1]
  BY DEF apply, EntryShape, FixedMetadata, Values

\* An update that passed `validate` leaves values of the entry's type.
LEMMA ValidFits ==
    ASSUME NEW entry, NEW u, EntryShape(entry), EntryFits(entry), validate(entry, u) = "Ok"
    PROVE  EntryFits(apply(entry, u))
<1> DEFINE e == apply(entry, u)
<1>1. /\ e.metadata.data_type = entry.metadata.data_type
      /\ e.datapoint = IF u.datapoint = None THEN entry.datapoint ELSE u.datapoint[1]
      /\ e.actuator_target = IF u.actuator_target = None THEN entry.actuator_target
                             ELSE u.actuator_target[1]
  BY ApplyFacts DEF FixedMetadata, Values
<1>2. \A x, y : AndThen(x, y) = "Ok" => x = "Ok" /\ y = "Ok"
  BY DEF AndThen
<1>3. /\ u.datapoint # None => ValidateOne(entry.metadata, u.datapoint[1]) = "Ok"
      /\ u.actuator_target \notin {None, Some(None)}
           => ValidateOne(entry.metadata, u.actuator_target[1][1]) = "Ok"
  BY <1>2 DEF validate
<1>4. /\ u.datapoint # None => Fits(entry.metadata.data_type, u.datapoint[1])
      /\ u.actuator_target \notin {None, Some(None)}
           => Fits(entry.metadata.data_type, u.actuator_target[1][1])
  BY <1>2, <1>3 DEF ValidateOne, Fits
<1>5. u.actuator_target # None /\ u.actuator_target[1] # None
        => u.actuator_target \notin {None, Some(None)}
  BY DEF Some, None
<1> HIDE DEF e
<1>6. EntryFits(e)
  BY <1>1, <1>4, <1>5 DEF EntryFits
<1> QED
  BY <1>6 DEF e

\* es and fs are the entries before and after some updates.
Sound(es) == \A id \in DOMAIN es : EntryShape(es[id]) /\ EntryFits(es[id])

Kept(es, fs) ==
    /\ DOMAIN fs = DOMAIN es
    /\ Sound(fs)
    /\ \A id \in DOMAIN es : \A k \in FixedMetadata : fs[id].metadata[k] = es[id].metadata[k]

\* One update that `update` accepts.
LEMMA AcceptedUpdate ==
    ASSUME NEW entry, NEW perm, NEW u, UpdateShape(u), EntryShape(entry), EntryFits(entry),
           UpdateOf(entry, perm, u) = "Ok"
    PROVE  LET e == apply(entry, diff(entry, u))
           IN  /\ EntryShape(e) /\ EntryFits(e)
               /\ \A k \in FixedMetadata : e.metadata[k] = entry.metadata[k]
               /\ \A f \in Values : e[f] = IF u[f] = None THEN entry[f] ELSE u[f][1]
<1> DEFINE d == diff(entry, u)
           e == apply(entry, d)
<1>1. /\ d.actuator_target = u.actuator_target
      /\ \/ d.datapoint = u.datapoint
         \/ d.datapoint = None /\ u.datapoint = Some(entry.datapoint)
  BY DiffFacts
<1>2. validate(entry, d) = "Ok"
  <2>1. \A x, y : AndThen(x, y) = "Ok" => y = "Ok"
    BY DEF AndThen
  <2> QED
    BY <2>1 DEF UpdateOf
<1> HIDE DEF d
<1>3. EntryFits(e)
  BY <1>2, ValidFits
<1>4. /\ EntryShape(e)
      /\ \A k \in FixedMetadata : e.metadata[k] = entry.metadata[k]
      /\ \A f \in Values : e[f] = IF d[f] = None THEN entry[f] ELSE d[f][1]
  BY ApplyFacts
<1> HIDE DEF e
<1>5. \A f \in Values : e[f] = IF u[f] = None THEN entry[f] ELSE u[f][1]
  BY <1>1, <1>4 DEF Values, Some, None
<1> QED
  BY <1>3, <1>4, <1>5 DEF e, d

\* What one of the updates does: it keeps the entries in order and writes its
\* values, or it adds an error under its id.
LEMMA UpdateOneFacts ==
    ASSUME NEW done, NEW perm, NEW u,
           DOMAIN done = {"entries", "errors"}, Sound(done.entries), UpdateShape(u.update)
    PROVE  LET next == UpdateOne(done, perm, u)
           IN  /\ DOMAIN next = {"entries", "errors"}
               /\ Kept(done.entries, next.entries)
               /\ done.errors \subseteq next.errors
               /\ \A id \in DOMAIN done.entries, f \in Values :
                     /\ u.id # id \/ u.update[f] = None
                          => next.entries[id][f] = done.entries[id][f]
                     /\ u.id = id /\ u.update[f] # None
                          => \/ next.entries[id][f] = u.update[f][1]
                             \/ \E e \in next.errors : e.id = id
<1> DEFINE next == UpdateOne(done, perm, u)
           result == IF u.id \notin DOMAIN done.entries THEN "NotFound"
                     ELSE UpdateOf(done.entries[u.id], perm, u.update)
<1>1. CASE result = "Ok"
  <2> DEFINE e == apply(done.entries[u.id], diff(done.entries[u.id], u.update))
  <2>1. u.id \in DOMAIN done.entries
    BY <1>1
  <2>2. /\ EntryShape(e) /\ EntryFits(e)
        /\ \A k \in FixedMetadata : e.metadata[k] = done.entries[u.id].metadata[k]
        /\ \A f \in Values : e[f] = IF u.update[f] = None THEN done.entries[u.id][f] ELSE u.update[f][1]
    BY <1>1, <2>1, AcceptedUpdate DEF Sound
  <2>3. next = [done EXCEPT !.entries[u.id] = e]
    BY <1>1 DEF UpdateOne
  <2> HIDE DEF e, next, result
  <2>4. /\ DOMAIN next = {"entries", "errors"}
        /\ next.errors = done.errors
        /\ next.entries = [done.entries EXCEPT ![u.id] = e]
    BY <2>3
  <2>5. Kept(done.entries, next.entries)
    BY <2>1, <2>2, <2>4, Zenon DEF Kept, Sound
  <2> QED
    BY <2>1, <2>2, <2>4, <2>5 DEF next
<1>2. CASE result # "Ok"
  <2>1. next = [done EXCEPT !.errors = @ \cup {[id |-> u.id, error |-> result]}]
    BY <1>2 DEF UpdateOne
  <2> HIDE DEF next, result
  <2>2. /\ DOMAIN next = {"entries", "errors"}
        /\ next.errors = done.errors \cup {[id |-> u.id, error |-> result]}
        /\ next.entries = done.entries
    BY <2>1
  <2>3. Kept(done.entries, next.entries)
    BY <2>2 DEF Kept
  <2>4. \E e \in next.errors : e.id = u.id
    <3> DEFINE e == [id |-> u.id, error |-> result]
    <3>1. e.id = u.id
      OBVIOUS
    <3> HIDE DEF e
    <3>2. e \in next.errors
      BY <2>2 DEF e
    <3> QED
      BY <3>1, <3>2
  <2> QED
    BY <2>2, <2>3, <2>4 DEF next
<1> QED
  BY <1>1, <1>2

\* What all the updates do together: the entries stay in order, a value that no
\* update gives stays, and where there is no error the last update counts.
LEMMA UpdateEntriesFacts ==
    ASSUME NEW es, NEW perm, NEW updates, UpdateList(updates), Sound(es)
    PROVE  LET final == UpdateEntries(es, perm, updates)
           IN  /\ Kept(es, final.entries)
               /\ \A id \in DOMAIN es, f \in Values :
                     /\ (\A k \in DOMAIN updates : updates[k].id = id => updates[k].update[f] = None)
                          => final.entries[id][f] = es[id][f]
                     /\ \A k \in DOMAIN updates :
                           (/\ updates[k].id = id /\ updates[k].update[f] # None
                            /\ \A l \in DOMAIN updates :
                                  k < l /\ updates[l].id = id => updates[l].update[f] = None
                            /\ \A e \in final.errors : e.id # id)
                           => final.entries[id][f] = updates[k].update[f][1]
<1> DEFINE n == Len(updates)
           final == UpdateEntries(es, perm, updates)
<1>1. n \in Nat /\ DOMAIN updates = 1..n
  BY DEF UpdateList, IsList
<1>2. PICK g : /\ final = g[n]
               /\ g[0] = [entries |-> es, errors |-> {}]
               /\ \A i \in 1..n : g[i] = UpdateOne(g[i - 1], perm, updates[i])
  <2>1. IsList(updates)
    BY Zenon DEF UpdateList
  <2> QED
    BY <2>1, UpdateEntriesFold
<1> HIDE DEF n, final
<1> DEFINE S == {i \in 0..n : DOMAIN g[i] = {"entries", "errors"} /\ Kept(es, g[i].entries)}
<1>3. \A i \in 0..n : i \in S
  <2>1. 0 \in S
    BY <1>1, <1>2 DEF Kept
  <2>2. ASSUME NEW i \in 1..n, i - 1 \in S PROVE i \in S
    <3>1. /\ DOMAIN g[i - 1] = {"entries", "errors"}
          /\ Kept(es, g[i - 1].entries) /\ UpdateShape(updates[i].update)
      BY <1>1, <2>2, Zenon DEF UpdateList
    <3>2. DOMAIN g[i] = {"entries", "errors"} /\ Kept(g[i - 1].entries, g[i].entries)
      BY <1>2, <3>1, UpdateOneFacts DEF Kept
    <3>3. Kept(es, g[i].entries)
      BY <3>1, <3>2, Zenon DEF Kept
    <3> QED
      BY <1>1, <3>2, <3>3
  <2> HIDE DEF S
  <2> QED
    BY <1>1, <2>1, <2>2, UpTo_, ZenonT(30)
<1>4. ASSUME NEW i \in 1..n
      PROVE  /\ g[i - 1].errors \subseteq g[i].errors
             /\ \A id \in DOMAIN es, f \in Values :
                   /\ updates[i].id # id \/ updates[i].update[f] = None
                        => g[i].entries[id][f] = g[i - 1].entries[id][f]
                   /\ updates[i].id = id /\ updates[i].update[f] # None
                        => \/ g[i].entries[id][f] = updates[i].update[f][1]
                           \/ \E e \in g[i].errors : e.id = id
  <2>1. i - 1 \in S /\ UpdateShape(updates[i].update) /\ g[i] = UpdateOne(g[i - 1], perm, updates[i])
    BY <1>1, <1>2, <1>3 DEF UpdateList
  <2>2. /\ DOMAIN g[i - 1] = {"entries", "errors"} /\ Sound(g[i - 1].entries)
        /\ DOMAIN g[i - 1].entries = DOMAIN es
    BY <2>1 DEF Kept
  <2> DEFINE done == g[i - 1]
             u == updates[i]
  <2> HIDE DEF S, done, u
  <2>3. /\ done.errors \subseteq g[i].errors
        /\ \A id \in DOMAIN done.entries, f \in Values :
              /\ u.id # id \/ u.update[f] = None => g[i].entries[id][f] = done.entries[id][f]
              /\ u.id = id /\ u.update[f] # None
                   => \/ g[i].entries[id][f] = u.update[f][1]
                      \/ \E e \in g[i].errors : e.id = id
    <3>1. g[i] = UpdateOne(done, perm, u) /\ UpdateShape(u.update)
      BY <2>1 DEF done, u
    <3>2. DOMAIN done = {"entries", "errors"} /\ Sound(done.entries)
      BY <2>2 DEF done
    <3> QED
      BY <3>1, <3>2, UpdateOneFacts
  <2> QED
    BY <2>2, <2>3 DEF done, u
<1>5. Kept(es, final.entries)
  BY <1>1, <1>2, <1>3
<1>6. ASSUME NEW id \in DOMAIN es, NEW f \in Values,
             \A k \in DOMAIN updates : updates[k].id = id => updates[k].update[f] = None
      PROVE  final.entries[id][f] = es[id][f]
  <2> DEFINE Q == {i \in 0..n : g[i].entries[id][f] = es[id][f]}
  <2>1. 0 \in Q
    BY <1>1, <1>2
  <2>2. ASSUME NEW i \in 1..n, i - 1 \in Q PROVE i \in Q
    BY <1>1, <1>4, <1>6, <2>2
  <2> HIDE DEF Q
  <2>3. \A i \in 0..n : i \in Q
    BY <1>1, <2>1, <2>2, UpTo_, Zenon
  <2>4. n \in Q
    BY <1>1, <2>3
  <2> QED
    BY <1>2, <2>4 DEF Q
<1>7. ASSUME NEW id \in DOMAIN es, NEW f \in Values, NEW k \in DOMAIN updates,
             updates[k].id = id, updates[k].update[f] # None,
             \A l \in DOMAIN updates : k < l /\ updates[l].id = id => updates[l].update[f] = None,
             \A e \in final.errors : e.id # id
      PROVE  final.entries[id][f] = updates[k].update[f][1]
  <2> DEFINE Q == {i \in 0..n : \/ i < k
                                \/ g[i].entries[id][f] = updates[k].update[f][1]
                                \/ \E e \in g[i].errors : e.id = id}
  <2>1. 0 \in Q
    BY <1>1
  <2>2. ASSUME NEW i \in 1..n, i - 1 \in Q PROVE i \in Q
    <3>1. CASE i < k
      BY <1>1, <3>1
    <3>2. CASE i = k
      BY <1>1, <1>4, <1>7, <3>2
    <3>3. CASE i > k
      <4>1. updates[i].id # id \/ updates[i].update[f] = None
        BY <1>1, <1>7, <3>3
      <4>2. g[i].entries[id][f] = g[i - 1].entries[id][f] /\ g[i - 1].errors \subseteq g[i].errors
        BY <1>4, <4>1
      <4> QED
        BY <1>1, <2>2, <3>3, <4>2
    <3> QED
      BY <1>1, <3>1, <3>2, <3>3
  <2> HIDE DEF Q
  <2>3. \A i \in 0..n : i \in Q
    BY <1>1, <2>1, <2>2, UpTo_, Zenon
  <2>4. n \in Q
    BY <1>1, <2>3
  <2> QED
    BY <1>1, <1>2, <1>7, <2>4 DEF Q
<1> QED
  BY <1>5, <1>6, <1>7 DEF final

------------------------------------------------------------------------------
(* The database under the services *)

\* How the index grows: old paths keep their ids, new ones get new ids.
Grows(ids, n, ids2, n2) ==
    /\ n2 \in Nat /\ n <= n2
    /\ \A path \in DOMAIN ids : path \in DOMAIN ids2 /\ ids2[path] = ids[path]
    /\ \A path \in DOMAIN ids2 : path \notin DOMAIN ids => ids2[path] \in Nat /\ ids2[path] >= n

DbGrows == RegistrationKept /\ Grows(path_to_id, next_id, path_to_id', next_id')

\* What leaves the entries in order keeps the invariant.
LEMMA StoreKept ==
    ASSUME StoreInv, Kept(entries, entries'), UNCHANGED << next_id, path_to_id >>
    PROVE  StoreInv' /\ DbGrows
<1>1. \A id \in DOMAIN entries :
         /\ entries'[id].metadata.id = entries[id].metadata.id
         /\ entries'[id].metadata.path = entries[id].metadata.path
  BY DEF Kept, FixedMetadata
<1>2. PathsAndIdsAgree'
  BY <1>1 DEF StoreInv, PathsAndIdsAgree, Kept
<1>3. StoredValuesFit' /\ \A id \in DOMAIN entries' : id \in Nat /\ EntryShape(entries'[id])
  BY DEF StoreInv, StoredValuesFit, Kept, Sound
<1>4. RegistrationKept
  BY DEF RegistrationKept, Kept
<1>5. Grows(path_to_id, next_id, path_to_id', next_id')
  BY DEF Grows, StoreInv
<1> QED
  BY <1>2, <1>3, <1>4, <1>5 DEF StoreInv, DbGrows

\* The invariant says that the entries are sound.
LEMMA StoreSound == StoreInv => Sound(entries)
  BY DEF StoreInv, StoredValuesFit, Sound

\* Nothing happens to the database.
LEMMA StoreUnchanged ==
    ASSUME StoreInv, UNCHANGED dbVars
    PROVE  StoreInv' /\ DbGrows
  BY StoreKept, StoreSound DEF Kept, dbVars

\* update_entries keeps the invariant.
LEMMA StoreUpdated ==
    ASSUME StoreInv, NEW perm, NEW updates, UpdateList(updates), update_entries(perm, updates)
    PROVE  StoreInv' /\ DbGrows
  BY StoreSound, StoreKept, UpdateEntriesFacts DEF update_entries

\* So does a single update.
LEMMA StoreUpdatedOnce ==
    ASSUME StoreInv, NEW perm, NEW id, NEW u, UpdateShape(u), update_entry(perm, id, u)
    PROVE  StoreInv' /\ DbGrows
<1>1. CASE UpdateResult(perm, id, u) # "Ok"
  BY <1>1, StoreUnchanged DEF update_entry, dbVars
<1>2. CASE UpdateResult(perm, id, u) = "Ok"
  <2> DEFINE e == apply(entries[id], diff(entries[id], u))
  <2>1. id \in DOMAIN entries /\ UpdateOf(entries[id], perm, u) = "Ok"
    BY <1>2 DEF UpdateResult
  <2>2. /\ EntryShape(e) /\ EntryFits(e)
        /\ \A k \in FixedMetadata : e.metadata[k] = entries[id].metadata[k]
    BY <2>1, StoreSound, AcceptedUpdate DEF Sound
  <2>3. entries' = [entries EXCEPT ![id] = e] /\ UNCHANGED << next_id, path_to_id >>
    BY <1>2 DEF update_entry
  <2> HIDE DEF e
  <2>4. Kept(entries, entries')
    BY <2>1, <2>2, <2>3, StoreSound DEF Kept, Sound
  <2> QED
    BY <2>3, <2>4, StoreKept
<1> QED
  BY <1>1, <1>2

\* `add` keeps the invariant; a path it accepts is in the index afterwards.
LEMMA StoreAdded ==
    ASSUME StoreInv, NEW perm, NEW path, NEW metadata, add(perm, path, metadata)
    PROVE  /\ StoreInv' /\ DbGrows
           /\ AddResult(perm, path, metadata) \in {"Ok", "Exists"}
                => path \in DOMAIN path_to_id' /\ path_to_id'[path] = AddedId(path)
<1>1. CASE AddResult(perm, path, metadata) # "Ok"
  <2>1. UNCHANGED dbVars
    BY <1>1 DEF add
  <2>2. AddResult(perm, path, metadata) = "Exists" => path \in DOMAIN path_to_id
    <3>1. \A x : Denial(x) # "Exists"
      BY DEF Denial
    <3> QED
      BY <3>1 DEF AddResult, AndThen
  <2> QED
    BY <1>1, <2>1, <2>2, StoreUnchanged DEF AddedId, Registered, dbVars
<1>2. CASE AddResult(perm, path, metadata) = "Ok"
  <2> DEFINE e == NewEntry(next_id, path, metadata)
  <2>1. path \notin DOMAIN path_to_id
    BY <1>2 DEF AddResult, AndThen
  <2>2. next_id \in Nat /\ next_id \notin DOMAIN entries
    BY DEF StoreInv, PathsAndIdsAgree
  <2>3. EntryShape(e) /\ e.metadata.id = next_id /\ e.metadata.path = path
    BY Zenon DEF NewEntry, EntryShape
  <2>4. EntryFits(e)
    BY DEF NewEntry, EntryFits, Fits, validate_value
  <2>5. /\ next_id' = next_id + 1
        /\ path_to_id' = Insert(path_to_id, path, next_id)
        /\ entries' = Insert(entries, next_id, e)
    BY <1>2 DEF add
  <2> HIDE DEF e
  <2>6. /\ DOMAIN path_to_id' = DOMAIN path_to_id \cup {path}
        /\ \A p \in DOMAIN path_to_id' :
              path_to_id'[p] = IF p = path THEN next_id ELSE path_to_id[p]
        /\ DOMAIN entries' = DOMAIN entries \cup {next_id}
        /\ \A i \in DOMAIN entries' : entries'[i] = IF i = next_id THEN e ELSE entries[i]
    BY <2>5, Zenon DEF Insert
  <2>7. PathsAndIdsAgree'
    BY <2>1, <2>2, <2>3, <2>5, <2>6 DEF StoreInv, PathsAndIdsAgree
  <2>8. StoredValuesFit' /\ \A i \in DOMAIN entries' : i \in Nat /\ EntryShape(entries'[i])
    BY <2>2, <2>3, <2>4, <2>6 DEF StoreInv, StoredValuesFit
  <2>9. RegistrationKept
    BY <2>1, <2>2, <2>6 DEF RegistrationKept
  <2>10. Grows(path_to_id, next_id, path_to_id', next_id')
    BY <2>1, <2>2, <2>5, <2>6 DEF Grows
  <2> QED
    BY <2>1, <2>2, <2>5, <2>6, <2>7, <2>8, <2>9, <2>10 DEF StoreInv, DbGrows, AddedId, Registered
<1> QED
  BY <1>1, <1>2

\* What a call has found out stays true while the index grows.
LEMMA CallOKGrows ==
    ASSUME NEW r, NEW ids, NEW n \in Nat, NEW ids2, NEW n2, Grows(ids, n, ids2, n2), CallOK(r, ids, n)
    PROVE  CallOK(r, ids2, n2)
<1> SUFFICES ASSUME r # NoCall PROVE CallOK(r, ids2, n2)
  BY DEF CallOK
<1>1. RecordOK(r, n2)
  BY DEF CallOK, RecordOK, Grows
<1>2. KnownTo(r, ids2) = KnownTo(r, ids)
  BY DEF KnownTo, Grows, CallOK, RecordOK
<1>3. RegisterOK(r, ids2)
  BY DEF RegisterOK, Grows, CallOK
<1>4. SubscribeOK(r, ids2)
  BY <1>2, ZenonT(30) DEF SubscribeOK, CallOK
<1>5. SetOK(r, ids2)
  BY <1>2, Zenon DEF SetOK, FromItem, Covered, CallOK, Grows
<1> QED
  BY <1>1, <1>3, <1>4, <1>5 DEF CallOK

------------------------------------------------------------------------------
(* Calls *)

\* A call that is open has the record of a request.
LEMMA OpenCall ==
    ASSUME CallsOK, NEW c \in Clients, call[c].status = "Open"
    PROVE  /\ call[c] # NoCall /\ CallOK(call[c], path_to_id, next_id)
           /\ RecordOK(call[c], next_id)
           /\ ItemsOf(call[c]) = Items(c) /\ KnownTo(call[c], path_to_id) = Known(c)
           /\ IsList(Items(c))
<1>1. call[c] # NoCall
  BY DEF NoCall
<1>2. CallOK(call[c], path_to_id, next_id)
  BY Zenon DEF CallsOK
<1>3. RecordOK(call[c], next_id)
  BY <1>1, <1>2 DEF CallOK
<1> QED
  BY <1>1, <1>2, <1>3, RequestsAssumption, Zenon DEF RecordOK, ItemsOf, Items, KnownTo, Known, Registered

\* A step of the handler of c that makes r of its record.
LEMMA HandlerStep ==
    ASSUME CallsOK, StoreInv, StoreInv', DbGrows, NEW c \in Clients, NEW r,
           call' = [call EXCEPT ![c] = r],
           CallOK(r, path_to_id, next_id) \/ CallOK(r, path_to_id', next_id')
    PROVE  ServicesInv'
<1>1. next_id \in Nat /\ Grows(path_to_id, next_id, path_to_id', next_id')
  BY DEF StoreInv, DbGrows
<1>2. CallOK(r, path_to_id', next_id')
  BY <1>1, CallOKGrows
<1>3. DOMAIN call' = Clients /\ \A d \in Clients : call'[d] = IF d = c THEN r ELSE call[d]
  BY DEF CallsOK
<1>4. ASSUME NEW d \in Clients PROVE CallOK(call'[d], path_to_id', next_id')
  <2>1. CASE d = c
    BY <1>2, <1>3, <2>1, Zenon
  <2>2. CASE d # c
    BY <1>1, <1>3, <2>2, CallOKGrows, Zenon DEF CallsOK
  <2> QED
    BY <2>1, <2>2
<1> QED
  BY <1>3, <1>4 DEF ServicesInv, CallsOK

\* Nothing happens to the calls.
LEMMA CallsUnchanged ==
    ASSUME CallsOK, StoreInv, StoreInv', DbGrows, call' = call
    PROVE  ServicesInv'
<1>1. next_id \in Nat /\ Grows(path_to_id, next_id, path_to_id', next_id')
  BY DEF StoreInv, DbGrows
<1> QED
  BY <1>1, CallOKGrows DEF CallsOK, ServicesInv

\* The handlers whose local variables the invariant says something of.
Looped == {"register_datapoints", "subscribe", "set", "set_datapoints", "stream_datapoints"}

\* Other handlers only have to keep the record in shape.
LEMMA PlainCall ==
    ASSUME NEW r, NEW s, NEW ids, NEW n, RecordOK(r, n), r.op \notin Looped,
           DOMAIN s = CallFields, s.op = r.op, s.request = r.request, s.known = r.known,
           s.next \in Nat \ {0}
    PROVE  CallOK(s, ids, n)
  BY Zenon DEF CallOK, RecordOK, RegisterOK, SubscribeOK, SetOK, SetDatapointsOK, StreamOK, Looped

\* A step that leaves the local variables alone, and does not end a subscribe.
LEMMA SameWork ==
    ASSUME NEW r, NEW s, NEW ids, NEW n, RecordOK(r, n), CallOK(r, ids, n), r # NoCall,
           DOMAIN s = CallFields, s.op = r.op, s.request = r.request, s.known = r.known,
           s.next = r.next, s.updates = r.updates, s.results = r.results, s.provider = r.provider,
           r.op = "subscribe" => s.status # "Ok"
    PROVE  CallOK(s, ids, n)
<1>1. RecordOK(s, n)
  BY DEF RecordOK
<1>2. RegisterOK(s, ids) /\ SetDatapointsOK(s) /\ StreamOK(s)
  BY DEF CallOK, RegisterOK, SetDatapointsOK, StreamOK
<1>3. /\ ItemsOf(s) = ItemsOf(r) /\ KnownTo(s, ids) = KnownTo(r, ids)
      /\ \A i : EntryOf(s, i) = EntryOf(r, i) /\ SetUpdate(s, i) = SetUpdate(r, i)
  BY DEF ItemsOf, KnownTo, EntryOf, SetUpdate
<1>4. SubscribeOK(s, ids)
  BY <1>3, ZenonT(30) DEF CallOK, SubscribeOK
<1>5. SetOK(s, ids)
  <2>1. \A u : FromItem(r, ids, u) => FromItem(s, ids, u)
    BY <1>3, Zenon DEF FromItem
  <2>2. \A i : Covered(r, ids, i) => Covered(s, ids, i)
    BY <1>3, Zenon DEF Covered
  <2>3. SetOK(r, ids)
    BY Zenon DEF CallOK
  <2> QED
    BY <2>1, <2>2, <2>3, Zenon DEF SetOK
<1> QED
  BY <1>1, <1>2, <1>4, <1>5 DEF CallOK

\* The record of a call that comes in.
LEMMA IncomingOK ==
    ASSUME StoreInv, NEW i \in DOMAIN Requests
    PROVE  CallOK(Incoming(i), path_to_id, next_id)
<1> DEFINE r == Incoming(i)
<1>1. /\ DOMAIN r = CallFields /\ r.request = i /\ r.op = Requests[i].op /\ r.next = 1
      /\ r.known = next_id /\ r.updates = << >> /\ r.results = EmptyMap
      /\ DOMAIN r.provider = {"state", "sent", "messages"} /\ r.provider.messages = << >>
  BY Zenon DEF Incoming, CallFields
<1>2. r.status # "Ok"
  BY DEF Incoming
<1> HIDE DEF r
<1>3. RecordOK(r, next_id)
  BY <1>1 DEF RecordOK, StoreInv
<1>4. DOMAIN r.results = {}
  BY <1>1 DEF EmptyMap
<1>5. RegisterOK(r, path_to_id) /\ StreamOK(r)
  BY <1>1, <1>4 DEF RegisterOK, StreamOK
<1>6. SubscribeOK(r, path_to_id)
  BY <1>1, <1>2 DEF SubscribeOK
<1>7. SetOK(r, path_to_id) /\ SetDatapointsOK(r)
  BY <1>1 DEF SetOK, SetDatapointsOK, UpdateList, IsList
<1> QED
  BY <1>3, <1>5, <1>6, <1>7 DEF CallOK, r

------------------------------------------------------------------------------
(* Handlers that read *)

\* A step after which the record is in shape, of a handler without a loop.
LEMMA PlainStep ==
    ASSUME ServicesInv, NEW c \in Clients, call[c].status = "Open", call[c].op \notin Looped,
           StoreInv', DbGrows, NEW s, call' = [call EXCEPT ![c] = s],
           DOMAIN s = CallFields, s.op = call[c].op, s.request = call[c].request,
           s.known = call[c].known, s.next \in Nat \ {0}
    PROVE  ServicesInv'
<1>1. RecordOK(call[c], next_id)
  BY OpenCall DEF ServicesInv
<1>2. CallOK(s, path_to_id, next_id)
  BY <1>1, PlainCall
<1> QED
  BY <1>2, HandlerStep, Zenon DEF ServicesInv

\* A step that leaves the local variables of a handler alone.
LEMMA SameStep ==
    ASSUME ServicesInv, NEW c \in Clients, call[c].status = "Open",
           StoreInv', DbGrows, NEW s, call' = [call EXCEPT ![c] = s],
           DOMAIN s = CallFields, s.op = call[c].op, s.request = call[c].request,
           s.known = call[c].known, s.next = call[c].next, s.updates = call[c].updates,
           s.results = call[c].results, s.provider = call[c].provider,
           call[c].op = "subscribe" => s.status # "Ok"
    PROVE  ServicesInv'
<1>1. call[c] # NoCall /\ RecordOK(call[c], next_id) /\ CallOK(call[c], path_to_id, next_id)
  BY OpenCall DEF ServicesInv
<1>2. CallOK(s, path_to_id, next_id)
  BY <1>1, SameWork
<1> QED
  BY <1>2, HandlerStep, Zenon DEF ServicesInv

\* A status other than "Ok" ends a call, whatever it was doing.
LEMMA EndStep ==
    ASSUME ServicesInv, NEW c \in Clients, call[c].status = "Open",
           StoreInv', DbGrows, NEW status, call' = [call EXCEPT ![c] = [call[c] EXCEPT !.status = status]],
           call[c].op = "subscribe" => status # "Ok"
    PROVE  ServicesInv'
<1> DEFINE s == [call[c] EXCEPT !.status = status]
<1>1. DOMAIN call[c] = CallFields
  BY OpenCall DEF ServicesInv, RecordOK
<1>2. /\ DOMAIN s = CallFields /\ s.op = call[c].op /\ s.request = call[c].request
      /\ s.known = call[c].known /\ s.next = call[c].next /\ s.updates = call[c].updates
      /\ s.results = call[c].results /\ s.provider = call[c].provider /\ s.status = status
  BY <1>1 DEF CallFields
<1> HIDE DEF s
<1>3. call' = [call EXCEPT ![c] = s]
  BY DEF s
<1> QED
  BY <1>2, <1>3, SameStep, Zenon

\* The invariant is kept when a call comes in, and when a token expires.
LEMMA CallStep ==
    ASSUME ServicesInv, NEW c \in Clients, Call(c)
    PROVE  ServicesInv' /\ DbGrows
<1>1. StoreInv' /\ DbGrows
  BY StoreUnchanged DEF Call, ServicesInv
<1>2. PICK i \in DOMAIN Requests : call' = [call EXCEPT ![c] = Incoming(i)]
  BY Zenon DEF Call
<1>3. CallOK(Incoming(i), path_to_id, next_id)
  BY IncomingOK DEF ServicesInv
<1> QED
  BY <1>1, <1>2, <1>3, HandlerStep, Zenon DEF ServicesInv

\* A token that expires keeps the invariant.
LEMMA ExpireStep ==
    ASSUME ServicesInv, NEW c \in Clients, Expire(c)
    PROVE  ServicesInv' /\ DbGrows
<1> DEFINE s == [call[c] EXCEPT !.expired = TRUE]
<1>1. StoreInv' /\ DbGrows
  BY StoreUnchanged DEF Expire, ServicesInv
<1>2. call[c].status = "Open" /\ call' = [call EXCEPT ![c] = s]
  BY DEF Expire, Goes
<1>3. DOMAIN call[c] = CallFields
  BY <1>2, OpenCall DEF ServicesInv, RecordOK
<1>4. /\ DOMAIN s = CallFields /\ s.op = call[c].op /\ s.request = call[c].request
      /\ s.known = call[c].known /\ s.next = call[c].next /\ s.updates = call[c].updates
      /\ s.results = call[c].results /\ s.provider = call[c].provider /\ s.status = "Open"
  BY <1>2, <1>3 DEF CallFields
<1> HIDE DEF s
<1> QED
  BY <1>1, <1>2, <1>4, SameStep, Zenon

\* The handlers of one step.
LEMMA GetStep ==
    ASSUME ServicesInv, NEW c \in Clients, get(c)
    PROVE  ServicesInv' /\ DbGrows
<1>1. StoreInv' /\ DbGrows
  BY StoreUnchanged DEF get, ServicesInv
<1>2. call[c].status = "Open" /\ call[c].op = "get"
  BY DEF get, Open
<1>3. DOMAIN call[c] = CallFields /\ call[c].next \in Nat \ {0}
  BY <1>2, OpenCall DEF ServicesInv, RecordOK
<1>4. CASE call' = [call EXCEPT ![c] = [call[c] EXCEPT !.status = "InvalidArgument"]]
  BY <1>1, <1>2, <1>4, EndStep, Zenon
<1>5. CASE call' = [call EXCEPT ![c] = GetReply(c)]
  <2>1. /\ DOMAIN GetReply(c) = CallFields /\ GetReply(c).op = call[c].op
        /\ GetReply(c).request = call[c].request /\ GetReply(c).known = call[c].known
        /\ GetReply(c).next = call[c].next
    BY <1>3 DEF GetReply, CallFields
  <2> QED
    BY <1>1, <1>2, <1>3, <1>5, <2>1, PlainStep, Zenon DEF Looped
<1> QED
  BY <1>4, <1>5, Zenon DEF get, Goes

\* get_server_info keeps the invariant.
LEMMA ServerInfoStep ==
    ASSUME ServicesInv, NEW c \in Clients, get_server_info(c)
    PROVE  ServicesInv' /\ DbGrows
<1>1. StoreInv' /\ DbGrows
  BY StoreUnchanged DEF get_server_info, ServicesInv
<1>2. /\ call[c].status = "Open" /\ call[c].op = "get_server_info"
      /\ call' = [call EXCEPT ![c] = [call[c] EXCEPT !.status = "Ok"]]
  BY DEF get_server_info, Open, Goes
<1> QED
  BY <1>1, <1>2, EndStep, Zenon

\* One name of get_datapoints.
LEMMA GetDatapointsStep ==
    ASSUME ServicesInv, NEW c \in Clients, get_datapoints(c)
    PROVE  ServicesInv' /\ DbGrows
<1>1. StoreInv' /\ DbGrows
  BY StoreUnchanged, Zenon DEF get_datapoints, ServicesInv
<1>2. call[c].status = "Open" /\ call[c].op = "get_datapoints"
  BY Zenon DEF get_datapoints, Open
<1>3. \E results, status :
         call' = [call EXCEPT ![c] = [call[c] EXCEPT !.results = results, !.next = @ + 1,
                                                     !.status = status]]
  BY ZenonT(30) DEF get_datapoints, Goes
<1>4. PICK results, status :
         call' = [call EXCEPT ![c] = [call[c] EXCEPT !.results = results, !.next = @ + 1,
                                                     !.status = status]]
  BY <1>3, ZenonT(30)
<1> DEFINE s == [call[c] EXCEPT !.results = results, !.next = @ + 1, !.status = status]
<1>5. DOMAIN call[c] = CallFields /\ call[c].next \in Nat \ {0}
  BY <1>2, OpenCall DEF ServicesInv, RecordOK
<1>6. /\ DOMAIN s = CallFields /\ s.op = call[c].op /\ s.request = call[c].request
      /\ s.known = call[c].known /\ s.next \in Nat \ {0}
  BY <1>5 DEF CallFields
<1> HIDE DEF s
<1>7. call' = [call EXCEPT ![c] = s]
  BY <1>4 DEF s
<1> QED
  BY <1>1, <1>2, <1>6, <1>7, PlainStep, Zenon DEF Looped

\* get_metadata keeps the invariant.
LEMMA GetMetadataStep ==
    ASSUME ServicesInv, NEW c \in Clients, get_metadata(c)
    PROVE  ServicesInv' /\ DbGrows
<1>1. StoreInv' /\ DbGrows
  BY StoreUnchanged DEF get_metadata, ServicesInv
<1>2. /\ call[c].status = "Open" /\ call[c].op = "get_metadata"
      /\ \E results : call' = [call EXCEPT ![c] = [call[c] EXCEPT !.status = "Ok", !.results = results]]
  BY Zenon DEF get_metadata, Open, Goes
<1>3. PICK results : call' = [call EXCEPT ![c] = [call[c] EXCEPT !.status = "Ok", !.results = results]]
  BY <1>2, Zenon
<1> DEFINE s == [call[c] EXCEPT !.status = "Ok", !.results = results]
<1>4. DOMAIN call[c] = CallFields /\ call[c].next \in Nat \ {0}
  BY <1>2, OpenCall DEF ServicesInv, RecordOK
<1>5. /\ DOMAIN s = CallFields /\ s.op = call[c].op /\ s.request = call[c].request
      /\ s.known = call[c].known /\ s.next \in Nat \ {0}
  BY <1>4 DEF CallFields
<1> HIDE DEF s
<1>6. call' = [call EXCEPT ![c] = s]
  BY <1>3 DEF s
<1> QED
  BY <1>1, <1>2, <1>5, <1>6, PlainStep, ZenonT(30) DEF Looped

\* The updates that a message of a provider makes.
LEMMA DatapointUpdateList ==
    ASSUME NEW items, IsList(items)
    PROVE  UpdateList(DatapointUpdates(items))
<1> DEFINE updates == DatapointUpdates(items)
<1>1. items \in Seq({items[i] : i \in DOMAIN items}) /\ DOMAIN items = 1..Len(items) /\ Len(items) \in Nat
  BY DEF IsList
<1>2. DOMAIN updates = 1..Len(items)
  BY <1>1 DEF DatapointUpdates
<1>3. \A k \in DOMAIN updates : UpdateShape(updates[k].update)
  BY DEF DatapointUpdates, UpdateShape, NoUpdate
<1>4. updates = [k \in 1..Len(items) |-> updates[k]]
  BY <1>1 DEF DatapointUpdates
<1> HIDE DEF updates
<1>5. IsList(updates)
  BY <1>1, <1>2, <1>4 DEF IsList
<1> QED
  BY <1>3, <1>5 DEF UpdateList, updates

\* update_datapoints writes and answers in one step.
LEMMA UpdateDatapointsStep ==
    ASSUME ServicesInv, NEW c \in Clients, update_datapoints(c)
    PROVE  ServicesInv' /\ DbGrows
<1>1. call[c].status = "Open" /\ call[c].op = "update_datapoints"
  BY DEF update_datapoints, Open
<1>2. UpdateList(DatapointUpdates(Items(c)))
  BY <1>1, OpenCall, DatapointUpdateList DEF ServicesInv
<1>3. StoreInv' /\ DbGrows
  BY <1>2, StoreUpdated DEF update_datapoints, ServicesInv
<1> DEFINE s == [call[c] EXCEPT !.status = "Ok", !.errors = UpdateErrors(Perm(c), Items(c))]
<1>4. call' = [call EXCEPT ![c] = s]
  BY Zenon DEF update_datapoints, Goes
<1>5. DOMAIN call[c] = CallFields /\ call[c].next \in Nat \ {0}
  BY <1>1, OpenCall DEF ServicesInv, RecordOK
<1>6. /\ DOMAIN s = CallFields /\ s.op = call[c].op /\ s.request = call[c].request
      /\ s.known = call[c].known /\ s.next \in Nat \ {0}
  BY <1>5 DEF CallFields
<1> HIDE DEF s
<1> QED
  BY <1>1, <1>3, <1>4, <1>6, PlainStep, Zenon DEF Looped

------------------------------------------------------------------------------
(* Handlers with a loop *)

\* What Append does to a list.
LEMMA AppendFacts ==
    ASSUME NEW S, NEW s \in Seq(S), NEW x \in S
    PROVE  /\ Append(s, x) \in Seq(S)
           /\ DOMAIN s = 1..Len(s) /\ Len(s) \in Nat
           /\ DOMAIN Append(s, x) = 1..(Len(s) + 1)
           /\ Append(s, x)[Len(s) + 1] = x
           /\ \A k \in 1..Len(s) : Append(s, x)[k] = s[k]
  OBVIOUS

\* One turn of register_datapoints: the id in the reply is the one in the index.
LEMMA RegisterKeeps ==
    ASSUME ServicesInv, NEW c \in Clients, RegisterStep(c)
    PROVE  ServicesInv' /\ DbGrows
<1> DEFINE item == Item(c)
           metadata == [data_type |-> item.data_type[1], change_type |-> item.change_type[1],
                        entry_type |-> "Sensor", allowed |-> None]
           result == AddResult(Perm(c), item.name, metadata)
<1>1. call[c].status = "Open" /\ call[c].op = "register_datapoints"
  BY Zenon DEF RegisterStep, Open
<1>2. /\ RecordOK(call[c], next_id) /\ RegisterOK(call[c], path_to_id)
  BY <1>1, OpenCall, Zenon DEF ServicesInv, CallOK
<1>3. CASE item.data_type = None \/ item.change_type = None
  <2>1. /\ call' = [call EXCEPT ![c] = [call[c] EXCEPT !.status = "InvalidArgument"]]
        /\ UNCHANGED dbVars
    BY <1>3 DEF RegisterStep, Goes
  <2>2. StoreInv' /\ DbGrows
    BY <2>1, StoreUnchanged DEF ServicesInv
  <2> QED
    BY <1>1, <2>1, <2>2, EndStep, Zenon
<1>4. CASE ~(item.data_type = None \/ item.change_type = None)
  <2>1. /\ add(Perm(c), item.name, metadata)
        /\ Goes(c, IF result \in {"Ok", "Exists"}
                   THEN [call[c] EXCEPT !.results = Insert(@, item.name, AddedId(item.name)),
                                        !.next = @ + 1]
                   ELSE [call[c] EXCEPT !.status = RegistrationStatus(result)])
    BY <1>4 DEF RegisterStep
  <2> HIDE DEF item, metadata
  <2>2. /\ StoreInv' /\ DbGrows
        /\ result \in {"Ok", "Exists"}
             => item.name \in DOMAIN path_to_id' /\ path_to_id'[item.name] = AddedId(item.name)
    BY <2>1, StoreAdded DEF ServicesInv
  <2> HIDE DEF result
  <2>3. CASE result \in {"Ok", "Exists"}
    <3> DEFINE s == [call[c] EXCEPT !.results = Insert(@, item.name, AddedId(item.name)), !.next = @ + 1]
    <3>1. call' = [call EXCEPT ![c] = s]
      BY <2>1, <2>3 DEF Goes
    <3>2. /\ DOMAIN s = CallFields /\ s.op = call[c].op /\ s.request = call[c].request
          /\ s.known = call[c].known /\ s.next = call[c].next + 1
          /\ s.results = Insert(call[c].results, item.name, AddedId(item.name))
      BY <1>2, Zenon DEF RecordOK, CallFields
    <3> HIDE DEF s
    <3>3. RecordOK(s, next_id')
      <4>1. next_id \in Nat /\ next_id' \in Nat /\ next_id <= next_id'
        BY <2>2, Zenon DEF DbGrows, Grows, StoreInv, ServicesInv
      <4> QED
        BY <1>2, <3>2, <4>1 DEF RecordOK
    <3>4. RegisterOK(s, path_to_id')
      BY <1>1, <1>2, <2>2, <2>3, <3>2, ZenonT(30) DEF RegisterOK, Insert, DbGrows, Grows
    <3>5. CallOK(s, path_to_id', next_id')
      BY <1>1, <3>2, <3>3, <3>4, Zenon DEF CallOK, SubscribeOK, SetOK, SetDatapointsOK, StreamOK
    <3> QED
      BY <2>2, <3>1, <3>5, HandlerStep, ZenonT(30) DEF ServicesInv
  <2>4. CASE result \notin {"Ok", "Exists"}
    <3>1. call' = [call EXCEPT ![c] = [call[c] EXCEPT !.status = RegistrationStatus(result)]]
      BY <2>1, <2>4 DEF Goes
    <3> QED
      BY <1>1, <2>2, <3>1, EndStep, Zenon
  <2> QED
    BY <2>3, <2>4
<1> QED
  BY <1>3, <1>4

\* The reply of register_datapoints.
LEMMA RegisterReplyKeeps ==
    ASSUME ServicesInv, NEW c \in Clients, RegisterReply(c)
    PROVE  ServicesInv' /\ DbGrows
<1>1. StoreInv' /\ DbGrows
  BY StoreUnchanged DEF RegisterReply, ServicesInv
<1>2. /\ call[c].status = "Open" /\ call[c].op = "register_datapoints"
      /\ call' = [call EXCEPT ![c] = [call[c] EXCEPT !.status = "Ok"]]
  BY DEF RegisterReply, Open, Goes
<1> QED
  BY <1>1, <1>2, EndStep, Zenon

\* A pattern that a subscribe has looked up is covered from then on.
LEMMA SubscribeLookupKeeps ==
    ASSUME ServicesInv, NEW c \in Clients, SubscribeLookup(c)
    PROVE  ServicesInv' /\ DbGrows
<1>1. StoreInv' /\ DbGrows
  BY StoreUnchanged DEF SubscribeLookup, ServicesInv
<1>2. call[c].status = "Open" /\ call[c].op = "subscribe"
  BY DEF SubscribeLookup, Open
<1>3. /\ RecordOK(call[c], next_id) /\ SubscribeOK(call[c], path_to_id)
      /\ ItemsOf(call[c]) = Items(c) /\ IsList(Items(c))
  BY <1>2, OpenCall, Zenon DEF ServicesInv, CallOK
<1>4. PICK i \in SubscribePending(c) :
         LET item == Items(c)[i]
             found == Matching(item.path)
         IN  Goes(c, IF found = {} THEN [call[c] EXCEPT !.status = "NotFound"]
                     ELSE IF \E path \in found : ~Readable(c, path)
                     THEN [call[c] EXCEPT !.status = "PermissionDenied"]
                     ELSE [call[c] EXCEPT
                              !.updates = Append(@, [item |-> i]),
                              !.results = Merge(@, found, FromValFields(item.fields))])
  BY Zenon DEF SubscribeLookup
<1> DEFINE item == Items(c)[i]
           found == Matching(item.path)
           fields == FromValFields(item.fields)
           s == [call[c] EXCEPT !.updates = Append(@, [item |-> i]), !.results = Merge(@, found, fields)]
<1>5. CASE call' = [call EXCEPT ![c] = [call[c] EXCEPT !.status = "NotFound"]]
  BY <1>1, <1>2, <1>5, EndStep, Zenon
<1>6. CASE call' = [call EXCEPT ![c] = [call[c] EXCEPT !.status = "PermissionDenied"]]
  BY <1>1, <1>2, <1>6, EndStep, Zenon
<1>7. CASE call' = [call EXCEPT ![c] = s]
  <2>1. /\ DOMAIN s = CallFields /\ s.op = call[c].op /\ s.request = call[c].request
        /\ s.known = call[c].known /\ s.next = call[c].next /\ s.status = "Open"
        /\ s.updates = Append(call[c].updates, [item |-> i])
        /\ s.results = Merge(call[c].results, found, fields)
    BY <1>2, <1>3 DEF RecordOK, CallFields
  <2> HIDE DEF s
  <2>2. RecordOK(s, next_id)
    BY <1>3, <2>1, Zenon DEF RecordOK
  <2>3. i \in Nat
    BY <1>3 DEF SubscribePending, IsList
  <2> DEFINE old == call[c].updates
  <2>4. /\ s.updates \in Seq([item: Nat])
        /\ \A k \in DOMAIN s.updates :
              \/ s.updates[k].item = i
              \/ k \in DOMAIN old /\ s.updates[k] = old[k]
    <3>1. old \in Seq([item: Nat]) /\ [item |-> i] \in [item: Nat]
      BY <1>2, <1>3, <2>3, ZenonT(30) DEF SubscribeOK
    <3> HIDE DEF old
    <3>2. s.updates = Append(old, [item |-> i])
      BY <2>1 DEF old
    <3>3. /\ s.updates \in Seq([item: Nat])
          /\ DOMAIN old = 1..Len(old) /\ Len(old) \in Nat
          /\ DOMAIN s.updates = 1..(Len(old) + 1)
          /\ s.updates[Len(old) + 1] = [item |-> i]
          /\ \A k \in 1..Len(old) : s.updates[k] = old[k]
      BY <3>1, <3>2, AppendFacts
    <3>4. ASSUME NEW k \in DOMAIN s.updates, k # Len(old) + 1
          PROVE  k \in DOMAIN old /\ s.updates[k] = old[k]
      BY <3>3, <3>4
    <3>5. s.updates[Len(old) + 1].item = i
      BY <3>3
    <3> QED
      BY <3>3, <3>4, <3>5, Zenon
  <2>5. ItemsOf(s) = Items(c) /\ KnownTo(s, path_to_id) = KnownTo(call[c], path_to_id)
    BY <1>3, <2>1, ZenonT(30) DEF ItemsOf, KnownTo
  <2>6. /\ \A path \in DOMAIN call[c].results :
              path \in DOMAIN s.results /\ call[c].results[path] \subseteq s.results[path]
        /\ \A path \in found : path \in DOMAIN s.results /\ fields \subseteq s.results[path]
    BY <2>1, ZenonT(30) DEF Merge
  <2>7. ASSUME NEW k \in DOMAIN s.updates,
               NEW path \in MatchedBy[ItemsOf(s)[s.updates[k].item].path] \cap KnownTo(s, path_to_id)
        PROVE  /\ path \in DOMAIN s.results
               /\ FromValFields(ItemsOf(s)[s.updates[k].item].fields) \subseteq s.results[path]
    <3>1. CASE s.updates[k].item = i
      <4>1. path \in MatchedBy[item.path] /\ path \in DOMAIN path_to_id
        BY <2>5, <3>1, Zenon DEF KnownTo
      <4>2. path \in found
        BY <4>1 DEF Matching, Registered
      <4> QED
        BY <2>5, <2>6, <3>1, <4>2, Zenon
    <3>2. CASE s.updates[k].item # i
      <4>1. k \in DOMAIN old /\ s.updates[k] = old[k]
        BY <2>4, <3>2
      <4>2. /\ path \in DOMAIN call[c].results
            /\ FromValFields(ItemsOf(s)[s.updates[k].item].fields) \subseteq call[c].results[path]
        BY <1>2, <1>3, <2>5, <2>7, <4>1, ZenonT(30) DEF SubscribeOK
      <4> QED
        BY <2>6, <4>2, ZenonT(30)
    <3> QED
      BY <3>1, <3>2, Zenon
  <2>8. SubscribeOK(s, path_to_id)
    BY <2>1, <2>4, <2>7, ZenonT(30) DEF SubscribeOK
  <2>9. CallOK(s, path_to_id, next_id)
    BY <1>2, <2>1, <2>2, <2>8, Zenon DEF CallOK, RegisterOK, SetOK, SetDatapointsOK, StreamOK
  <2> QED
    BY <1>1, <1>7, <2>9, HandlerStep, ZenonT(30) DEF ServicesInv
<1> QED
  BY <1>1, <1>4, <1>5, <1>6, <1>7, ZenonT(30) DEF Goes

\* A subscribe that is created has looked everything up.
LEMMA SubscribeCreateKeeps ==
    ASSUME ServicesInv, NEW c \in Clients, SubscribeCreate(c)
    PROVE  ServicesInv' /\ DbGrows
<1>1. StoreInv' /\ DbGrows
  BY StoreUnchanged DEF SubscribeCreate, ServicesInv
<1>2. call[c].status = "Open" /\ call[c].op = "subscribe" /\ SubscribePending(c) = {}
  BY DEF SubscribeCreate, Open
<1>3. /\ RecordOK(call[c], next_id) /\ SubscribeOK(call[c], path_to_id)
      /\ ItemsOf(call[c]) = Items(c)
  BY <1>2, OpenCall, Zenon DEF ServicesInv, CallOK
<1> DEFINE status == IF call[c].results = EmptyMap THEN "InvalidArgument" ELSE "Ok"
           s == [call[c] EXCEPT !.status = status]
<1>4. call' = [call EXCEPT ![c] = s]
  BY DEF SubscribeCreate, Goes
<1>5. /\ DOMAIN s = CallFields /\ s.op = call[c].op /\ s.request = call[c].request
      /\ s.known = call[c].known /\ s.next = call[c].next /\ s.updates = call[c].updates
      /\ s.results = call[c].results
  BY <1>3, Zenon DEF RecordOK, CallFields
<1> HIDE DEF s, status
<1>6. RecordOK(s, next_id)
  BY <1>3, <1>5, Zenon DEF RecordOK
<1>7. ItemsOf(s) = Items(c) /\ KnownTo(s, path_to_id) = KnownTo(call[c], path_to_id)
  BY <1>3, <1>5, Zenon DEF ItemsOf, KnownTo
<1>8. ASSUME NEW i \in ToLookUp(s) PROVE \E k \in DOMAIN s.updates : s.updates[k].item = i
  BY <1>2, <1>5, <1>7 DEF ToLookUp, SubscribePending
<1>9. SubscribeOK(s, path_to_id)
  BY <1>2, <1>3, <1>5, <1>7, <1>8, ZenonT(30) DEF SubscribeOK
<1>10. CallOK(s, path_to_id, next_id)
  BY <1>2, <1>5, <1>6, <1>9, Zenon DEF CallOK, RegisterOK, SetOK, SetDatapointsOK, StreamOK
<1> QED
  BY <1>1, <1>4, <1>10, HandlerStep, Zenon DEF ServicesInv

\* What the translation of an item is.
LEMMA SetUpdateFacts ==
    ASSUME NEW entry, NEW fields
    PROVE  LET u == from_proto_entry_and_fields(entry, fields)
           IN  /\ UpdateShape(u)
               /\ u.datapoint = IF "Value" \in fields /\ entry.value # None
                                THEN Some(FromValDatapoint(entry.value[1])) ELSE None
               /\ u.actuator_target =
                     IF "ActuatorTarget" \notin fields THEN None
                     ELSE IF entry.actuator_target = None THEN Some(None)
                     ELSE Some(Some(FromValDatapoint(entry.actuator_target[1])))
  BY DEF from_proto_entry_and_fields, NoUpdate, UpdateShape

\* What Append does to a list of unknown elements.
LEMMA ListAppend ==
    ASSUME NEW s, IsList(s), NEW x
    PROVE  /\ IsList(Append(s, x)) /\ Len(s) \in Nat
           /\ DOMAIN s = 1..Len(s) /\ DOMAIN Append(s, x) = 1..(Len(s) + 1)
           /\ Append(s, x)[Len(s) + 1] = x
           /\ \A k \in 1..Len(s) : Append(s, x)[k] = s[k]
<1> DEFINE S == {s[i] : i \in DOMAIN s} \cup {x}
           t == Append(s, x)
<1>1. s \in Seq({s[i] : i \in DOMAIN s})
  BY DEF IsList
<1>2. s \in Seq(S) /\ x \in S
  BY <1>1
<1> HIDE DEF S
<1>3. /\ t \in Seq(S) /\ Len(s) \in Nat
      /\ DOMAIN s = 1..Len(s) /\ DOMAIN t = 1..(Len(s) + 1)
      /\ t[Len(s) + 1] = x
      /\ \A k \in 1..Len(s) : t[k] = s[k]
  BY <1>2, AppendFacts
<1> HIDE DEF t
<1>4. IsList(t)
  BY <1>3 DEF IsList
<1> QED
  BY <1>3, <1>4 DEF t

\* The next turn of a set sees the same request.
SameRequest(r, s) == s.op = r.op /\ s.request = r.request /\ s.known = r.known /\ s.next = r.next + 1

\* What was handled stays handled in the next turn.
LEMMA NextTurn ==
    ASSUME NEW r, NEW s, NEW ids, NEW n, SameRequest(r, s), RecordOK(r, n)
    PROVE  /\ \A i : EntryOf(s, i) = EntryOf(r, i) /\ SetUpdate(s, i) = SetUpdate(r, i)
           /\ ItemsOf(s) = ItemsOf(r) /\ KnownTo(s, ids) = KnownTo(r, ids)
           /\ \A u : FromItem(r, ids, u) => FromItem(s, ids, u)
<1>1. /\ \A i : EntryOf(s, i) = EntryOf(r, i) /\ SetUpdate(s, i) = SetUpdate(r, i)
      /\ ItemsOf(s) = ItemsOf(r) /\ KnownTo(s, ids) = KnownTo(r, ids)
  BY Zenon DEF SameRequest, ItemsOf, KnownTo, EntryOf, SetUpdate
<1>2. s.next = r.next + 1 /\ r.next \in Nat
  BY DEF SameRequest, RecordOK
<1> QED
  BY <1>1, <1>2 DEF FromItem

\* One turn of set over an item whose path is not registered.
LEMMA SetSkips ==
    ASSUME NEW r, NEW s, NEW ids, NEW n, SameRequest(r, s), RecordOK(r, n), SetOK(r, ids), r.op = "set",
           s.updates = r.updates, EntryOf(r, r.next).path \notin DOMAIN ids
    PROVE  SetOK(s, ids)
<1>1. s.next = r.next + 1 /\ r.next \in Nat
  BY Zenon DEF SameRequest, RecordOK
<1>2. /\ IsList(r.updates)
      /\ \A k \in DOMAIN r.updates : FromItem(r, ids, r.updates[k])
      /\ \A k, l \in DOMAIN r.updates : k < l => r.updates[k].item < r.updates[l].item
      /\ \A i \in 1..(r.next - 1) : Covered(r, ids, i)
  BY Zenon DEF SetOK
<1>3. ASSUME NEW i \in 1..(s.next - 1) PROVE Covered(s, ids, i)
  <2>1. EntryOf(s, i) = EntryOf(r, i) /\ KnownTo(s, ids) = KnownTo(r, ids)
    BY NextTurn, ZenonT(30)
  <2>2. CASE i = r.next
    BY <2>1, <2>2, Zenon DEF Covered, KnownTo
  <2>3. CASE i # r.next
    <3>1. i \in 1..(r.next - 1)
      BY <1>1, <2>3
    <3> QED
      BY <1>2, <2>1, <3>1, Zenon DEF Covered
  <2> QED
    BY <2>2, <2>3
<1>4. \A k \in DOMAIN s.updates : FromItem(s, ids, s.updates[k])
  BY <1>2, NextTurn, ZenonT(30)
<1> QED
  BY <1>2, <1>3, <1>4, ZenonT(30) DEF SetOK

\* One turn of set over an item whose path is found.
LEMMA SetFinds ==
    ASSUME NEW r, NEW s, NEW ids, NEW n, SameRequest(r, s), RecordOK(r, n), SetOK(r, ids), r.op = "set",
           NEW x, s.updates = Append(r.updates, x), x.item = r.next, FromItem(s, ids, x)
    PROVE  SetOK(s, ids)
<1>1. s.next = r.next + 1 /\ r.next \in Nat
  BY DEF SameRequest, RecordOK
<1>2. /\ IsList(r.updates)
      /\ \A k \in DOMAIN r.updates : FromItem(r, ids, r.updates[k])
      /\ \A k, l \in DOMAIN r.updates : k < l => r.updates[k].item < r.updates[l].item
      /\ \A i \in 1..(r.next - 1) : Covered(r, ids, i)
  BY ZenonT(30) DEF SetOK
<1> DEFINE m == Len(r.updates)
<1>3. /\ IsList(s.updates) /\ m \in Nat /\ DOMAIN r.updates = 1..m /\ DOMAIN s.updates = 1..(m + 1)
      /\ s.updates[m + 1] = x /\ \A k \in 1..m : s.updates[k] = r.updates[k]
  <2>1. IsList(r.updates)
    BY <1>2
  <2> QED
    BY <2>1, ListAppend
<1> HIDE DEF m
<1>4. ASSUME NEW k \in DOMAIN s.updates, k # m + 1
      PROVE  k \in DOMAIN r.updates /\ s.updates[k] = r.updates[k]
  BY <1>3, <1>4
<1>5. ASSUME NEW k \in DOMAIN s.updates PROVE FromItem(s, ids, s.updates[k])
  <2>1. CASE k = m + 1
    BY <1>3, <2>1
  <2>2. CASE k # m + 1
    BY <1>2, <1>4, <2>2, NextTurn, ZenonT(30)
  <2> QED
    BY <2>1, <2>2, Zenon
<1>6. ASSUME NEW k \in DOMAIN s.updates, NEW l \in DOMAIN s.updates, k < l
      PROVE  s.updates[k].item < s.updates[l].item
  <2>1. k # m + 1
    BY <1>3, <1>6
  <2>2. k \in DOMAIN r.updates /\ s.updates[k] = r.updates[k]
    BY <1>4, <2>1
  <2>3. CASE l = m + 1
    BY <1>2, <1>3, <2>2, <2>3, ZenonT(30) DEF FromItem
  <2>4. CASE l # m + 1
    BY <1>2, <1>4, <1>6, <2>2, <2>4, ZenonT(30)
  <2> QED
    BY <2>3, <2>4, ZenonT(30)
<1>7. ASSUME NEW i \in 1..(s.next - 1) PROVE Covered(s, ids, i)
  <2>1. EntryOf(s, i) = EntryOf(r, i) /\ KnownTo(s, ids) = KnownTo(r, ids)
    BY NextTurn, ZenonT(30)
  <2>2. CASE i = r.next
    <3>1. m + 1 \in DOMAIN s.updates
      BY <1>3
    <3> QED
      BY <1>3, <2>2, <3>1, Zenon DEF Covered
  <2>3. CASE i # r.next
    <3>1. i \in 1..(r.next - 1)
      BY <1>1, <2>3
    <3>2. 1..m \subseteq 1..(m + 1)
      BY <1>3
    <3>3. \A k \in DOMAIN r.updates : k \in DOMAIN s.updates /\ s.updates[k] = r.updates[k]
      BY <1>3, <3>2, Zenon
    <3> QED
      BY <1>2, <2>1, <3>1, <3>3, Zenon DEF Covered
  <2> QED
    BY <2>2, <2>3
<1> QED
  BY <1>3, <1>5, <1>6, <1>7, ZenonT(30) DEF SetOK

\* One turn of set over its items.
LEMMA SetLookupKeeps ==
    ASSUME ServicesInv, NEW c \in Clients, SetLookup(c)
    PROVE  ServicesInv' /\ DbGrows
<1> DEFINE entry == Item(c).entry[1]
           invalid == [call[c] EXCEPT !.status = "InvalidArgument"]
           skip == [call[c] EXCEPT !.next = @ + 1]
           skipped == [skip EXCEPT !.errors = @ \cup {SetError(entry.path, "NotFound")}]
           found == [skip EXCEPT !.updates = Append(@,
                        [id |-> path_to_id[entry.path],
                         update |-> from_proto_entry_and_fields(entry, Item(c).fields),
                         item |-> call[c].next])]
<1>1. StoreInv' /\ DbGrows
  BY StoreUnchanged DEF SetLookup, ServicesInv
<1>2. Open(c, "set") /\ ~Handled(c) /\ call[c].status = "Open" /\ call[c].op = "set"
  BY DEF SetLookup, Open
<1>3. /\ DOMAIN call[c] = CallFields /\ ItemsOf(call[c]) = Items(c) /\ IsList(Items(c))
      /\ RecordOK(call[c], next_id) /\ SetOK(call[c], path_to_id)
  BY <1>2, OpenCall, ZenonT(30) DEF ServicesInv, RecordOK, CallOK
<1>4. entry = EntryOf(call[c], call[c].next)
  BY <1>3, Zenon DEF EntryOf, Item
<1>5. CASE call' = [call EXCEPT ![c] = invalid]
  BY <1>1, <1>2, <1>5, EndStep, Zenon
<1>6. CASE entry.path \notin Registered /\ call' = [call EXCEPT ![c] = skipped]
  <2>1. /\ DOMAIN skipped = CallFields /\ skipped.op = call[c].op /\ skipped.request = call[c].request
        /\ skipped.known = call[c].known /\ skipped.next = call[c].next + 1
        /\ skipped.updates = call[c].updates
    BY <1>3 DEF CallFields
  <2> HIDE DEF skipped, entry
  <2>2. SetOK(skipped, path_to_id) /\ RecordOK(skipped, next_id)
    <3>1. SameRequest(call[c], skipped)
      BY <2>1, Zenon DEF SameRequest
    <3>2. RecordOK(skipped, next_id)
      BY <1>3, <2>1 DEF RecordOK
    <3> QED
      BY <1>2, <1>3, <1>4, <1>6, <2>1, <3>1, <3>2, SetSkips, ZenonT(30) DEF Registered
  <2>3. CallOK(skipped, path_to_id, next_id)
    BY <1>2, <2>1, <2>2, Zenon DEF CallOK, RegisterOK, SubscribeOK, SetDatapointsOK, StreamOK
  <2> QED
    BY <1>1, <1>6, <2>3, HandlerStep, ZenonT(30) DEF ServicesInv
<1>7. CASE entry.path \in Registered /\ call' = [call EXCEPT ![c] = found]
  <2>1. /\ DOMAIN found = CallFields /\ found.op = call[c].op /\ found.request = call[c].request
        /\ found.known = call[c].known /\ found.next = call[c].next + 1
        /\ found.updates = Append(call[c].updates,
                              [id |-> path_to_id[entry.path],
                               update |-> from_proto_entry_and_fields(entry, Item(c).fields),
                               item |-> call[c].next])
    BY <1>3 DEF CallFields
  <2>2. from_proto_entry_and_fields(entry, Item(c).fields) = SetUpdate(call[c], call[c].next)
    BY <1>3, <1>4, Zenon DEF SetUpdate, Item
  <2> HIDE DEF found, entry
  <2>3. SameRequest(call[c], found) /\ RecordOK(found, next_id)
    BY <1>3, <2>1 DEF SameRequest, RecordOK
  <2> DEFINE x == [id |-> path_to_id[entry.path], update |-> SetUpdate(call[c], call[c].next),
                   item |-> call[c].next]
  <2>4. x.id = path_to_id[entry.path] /\ x.update = SetUpdate(call[c], call[c].next) /\ x.item = call[c].next
    OBVIOUS
  <2>5. found.updates = Append(call[c].updates, x)
    BY <2>1, <2>2, ZenonT(30)
  <2> HIDE DEF x
  <2>6. call[c].next \in Nat /\ call[c].next \in DOMAIN ItemsOf(call[c])
    BY <1>2, <1>3 DEF RecordOK, Handled, IsList
  <2>7. FromItem(found, path_to_id, x)
    <3>1. /\ \A i : EntryOf(found, i) = EntryOf(call[c], i) /\ SetUpdate(found, i) = SetUpdate(call[c], i)
          /\ ItemsOf(found) = ItemsOf(call[c])
      BY <1>3, <2>3, NextTurn, Zenon
    <3>2. found.next = call[c].next + 1
      BY <2>1
    <3> QED
      BY <1>4, <1>7, <2>4, <2>6, <3>1, <3>2 DEF FromItem, Registered
  <2>8. SetOK(found, path_to_id)
    BY <1>2, <1>3, <2>3, <2>4, <2>5, <2>7, SetFinds, ZenonT(30)
  <2>9. CallOK(found, path_to_id, next_id)
    BY <1>2, <2>1, <2>3, <2>8, Zenon DEF CallOK, RegisterOK, SubscribeOK, SetDatapointsOK, StreamOK
  <2> QED
    BY <1>1, <1>7, <2>9, HandlerStep, ZenonT(30) DEF ServicesInv
<1> HIDE DEF invalid, skipped, found
<1>8. \/ call' = [call EXCEPT ![c] = invalid]
      \/ entry.path \notin Registered /\ call' = [call EXCEPT ![c] = skipped]
      \/ entry.path \in Registered /\ call' = [call EXCEPT ![c] = found]
  BY ZenonT(30) DEF SetLookup, Goes, invalid, skipped, found
<1> QED
  BY <1>5, <1>6, <1>7, <1>8, Zenon

\* The updates of a set are updates.
LEMMA SetUpdateList ==
    ASSUME ServicesInv, NEW c \in Clients, Open(c, "set")
    PROVE  UpdateList(call[c].updates)
<1>1. SetOK(call[c], path_to_id) /\ call[c].op = "set"
  BY OpenCall, ZenonT(30) DEF ServicesInv, CallOK, Open
<1>2. /\ IsList(call[c].updates)
      /\ \A k \in DOMAIN call[c].updates : FromItem(call[c], path_to_id, call[c].updates[k])
  BY <1>1, ZenonT(30) DEF SetOK
<1>3. \A i : UpdateShape(SetUpdate(call[c], i))
  BY SetUpdateFacts, ZenonT(30) DEF SetUpdate
<1> QED
  BY <1>2, <1>3, ZenonT(30) DEF UpdateList, FromItem

\* The commit of a set.
LEMMA SetCommitKeeps ==
    ASSUME ServicesInv, NEW c \in Clients, SetCommit(c)
    PROVE  ServicesInv' /\ DbGrows
<1>1. Open(c, "set") /\ call[c].status = "Open" /\ call[c].op = "set"
  BY DEF SetCommit, Open
<1>2. StoreInv' /\ DbGrows
  BY <1>1, SetUpdateList, StoreUpdated DEF SetCommit, ServicesInv
<1> DEFINE s == [call[c] EXCEPT !.status = "Ok", !.errors = @ \cup SetErrors(c)]
<1>3. call' = [call EXCEPT ![c] = s]
  BY DEF SetCommit, Goes
<1>4. DOMAIN call[c] = CallFields
  BY <1>1, OpenCall, Zenon DEF ServicesInv, RecordOK
<1>5. /\ DOMAIN s = CallFields /\ s.op = call[c].op /\ s.request = call[c].request
      /\ s.known = call[c].known /\ s.next = call[c].next /\ s.updates = call[c].updates
      /\ s.results = call[c].results /\ s.provider = call[c].provider
  BY <1>4 DEF CallFields
<1> HIDE DEF s
<1> QED
  BY <1>1, <1>2, <1>3, <1>5, SameStep, ZenonT(30)

\* One turn of set_datapoints over its items.
LEMMA SetDatapointsLookupKeeps ==
    ASSUME ServicesInv, NEW c \in Clients, SetDatapointsLookup(c)
    PROVE  ServicesInv' /\ DbGrows
<1> DEFINE r == call[c]
           skip == [r EXCEPT !.next = @ + 1]
           x == [id |-> path_to_id[Item(c).path],
                 update |-> [NoUpdate EXCEPT !.actuator_target = Some(Some(FromSdvDatapoint(Item(c).value)))]]
           Refuse(error) == [skip EXCEPT !.errors = @ \cup {[path |-> Item(c).path, error |-> error]}]
           found == [skip EXCEPT !.updates = Append(@, x),
                                 !.results = Insert(@, path_to_id[Item(c).path], Item(c).path)]
<1>1. StoreInv' /\ DbGrows
  BY StoreUnchanged DEF SetDatapointsLookup, ServicesInv
<1>2. r.status = "Open" /\ r.op = "set_datapoints"
  BY DEF SetDatapointsLookup, Open
<1>3. RecordOK(r, next_id) /\ UpdateList(r.updates) /\ DOMAIN r = CallFields
  BY <1>2, OpenCall, Zenon DEF ServicesInv, CallOK, SetDatapointsOK, RecordOK
<1>4. UpdateShape(x.update)
  BY DEF UpdateShape, NoUpdate
<1>5. ASSUME NEW s, DOMAIN s = CallFields, s.op = r.op, s.request = r.request, s.known = r.known,
             s.next = r.next + 1, UpdateList(s.updates), call' = [call EXCEPT ![c] = s]
      PROVE  ServicesInv'
  <2>1. RecordOK(s, next_id)
    BY <1>3, <1>5 DEF RecordOK
  <2>2. CallOK(s, path_to_id, next_id)
    BY <1>2, <1>5, <2>1, ZenonT(30) DEF CallOK, RegisterOK, SubscribeOK, SetOK, SetDatapointsOK, StreamOK
  <2> QED
    BY <1>1, <1>5, <2>2, HandlerStep, ZenonT(30) DEF ServicesInv
<1>6. ASSUME NEW error, call' = [call EXCEPT ![c] = Refuse(error)] PROVE ServicesInv'
  <2> DEFINE s == Refuse(error)
  <2>1. /\ DOMAIN s = CallFields /\ s.op = r.op /\ s.request = r.request /\ s.known = r.known
        /\ s.next = r.next + 1 /\ s.updates = r.updates
    BY <1>3 DEF CallFields
  <2>2. call' = [call EXCEPT ![c] = s]
    BY <1>6
  <2> HIDE DEF s, r
  <2> QED
    BY <1>3, <1>5, <2>1, <2>2, Zenon
<1> HIDE DEF x
<1>7. CASE call' = [call EXCEPT ![c] = found]
  <2>1. /\ DOMAIN found = CallFields /\ found.op = r.op /\ found.request = r.request
        /\ found.known = r.known /\ found.next = r.next + 1 /\ found.updates = Append(r.updates, x)
    BY <1>3 DEF CallFields
  <2> HIDE DEF found, r
  <2>2. UpdateList(found.updates)
    <3> DEFINE m == Len(r.updates)
    <3>1. /\ IsList(found.updates) /\ m \in Nat /\ DOMAIN r.updates = 1..m
          /\ DOMAIN found.updates = 1..(m + 1)
          /\ found.updates[m + 1] = x /\ \A k \in 1..m : found.updates[k] = r.updates[k]
      BY <1>3, <2>1, ListAppend DEF UpdateList
    <3> HIDE DEF m
    <3>2. ASSUME NEW k \in DOMAIN found.updates PROVE UpdateShape(found.updates[k].update)
      <4>1. CASE k = m + 1
        BY <1>4, <3>1, <4>1, Zenon
      <4>2. CASE k # m + 1
        <5>1. k \in DOMAIN r.updates /\ found.updates[k] = r.updates[k]
          BY <3>1, <4>2
        <5> QED
          BY <1>3, <5>1 DEF UpdateList
      <4> QED
        BY <4>1, <4>2, Zenon
    <3> QED
      BY <3>1, <3>2, Zenon DEF UpdateList
  <2> QED
    BY <1>1, <1>5, <1>7, <2>1, <2>2, ZenonT(30)
<1>8. \/ call' = [call EXCEPT ![c] = Refuse("UnknownDatapoint")]
      \/ call' = [call EXCEPT ![c] = Refuse("AccessDenied")]
      \/ call' = [call EXCEPT ![c] = found]
  BY Zenon DEF SetDatapointsLookup, Goes, x
<1> QED
  BY <1>1, <1>6, <1>7, <1>8, Zenon

\* The commit of set_datapoints.
LEMMA SetDatapointsCommitKeeps ==
    ASSUME ServicesInv, NEW c \in Clients, SetDatapointsCommit(c)
    PROVE  ServicesInv' /\ DbGrows
<1>1. call[c].status = "Open" /\ call[c].op = "set_datapoints"
  BY DEF SetDatapointsCommit, Open
<1>2. DOMAIN call[c] = CallFields /\ UpdateList(call[c].updates)
  BY <1>1, OpenCall, Zenon DEF ServicesInv, RecordOK, CallOK, SetDatapointsOK
<1>3. StoreInv' /\ DbGrows
  BY <1>2, StoreUpdated DEF SetDatapointsCommit, ServicesInv
<1>4. \E errors : call' = [call EXCEPT ![c] = [call[c] EXCEPT !.status = "Ok", !.errors = errors]]
  BY ZenonT(30) DEF SetDatapointsCommit, Goes
<1>5. PICK errors : call' = [call EXCEPT ![c] = [call[c] EXCEPT !.status = "Ok", !.errors = errors]]
  BY <1>4, Zenon
<1> DEFINE s == [call[c] EXCEPT !.status = "Ok", !.errors = errors]
<1>6. /\ DOMAIN s = CallFields /\ s.op = call[c].op /\ s.request = call[c].request
      /\ s.known = call[c].known /\ s.next = call[c].next /\ s.updates = call[c].updates
      /\ s.results = call[c].results /\ s.provider = call[c].provider
  BY <1>2 DEF CallFields
<1> HIDE DEF s
<1>7. call' = [call EXCEPT ![c] = s]
  BY <1>5 DEF s
<1> QED
  BY <1>1, <1>3, <1>6, <1>7, SameStep, Zenon

------------------------------------------------------------------------------
(* stream_datapoints *)

\* A step of a stream, by its provider or its task.
LEMMA StreamStep ==
    ASSUME ServicesInv, NEW c \in Clients, Streaming(c), StoreInv', DbGrows,
           NEW s, call' = [call EXCEPT ![c] = s],
           DOMAIN s = CallFields, s.op = call[c].op, s.request = call[c].request,
           s.known = call[c].known, s.next = call[c].next,
           DOMAIN s.provider = {"state", "sent", "messages"},
           s.provider.messages \in Seq(StreamMessages)
    PROVE  ServicesInv'
<1>1. call[c].status = "Open" /\ call[c].op = "stream_datapoints"
  BY DEF Streaming, Open
<1>2. RecordOK(s, next_id)
  BY <1>1, OpenCall, ZenonT(30) DEF ServicesInv, RecordOK
<1>3. CallOK(s, path_to_id, next_id)
  BY <1>1, <1>2, ZenonT(30) DEF CallOK, RegisterOK, SubscribeOK, SetOK, SetDatapointsOK, StreamOK
<1> QED
  BY <1>3, HandlerStep, ZenonT(30) DEF ServicesInv

\* The record of a stream.
LEMMA StreamRecord ==
    ASSUME ServicesInv, NEW c \in Clients, Streaming(c)
    PROVE  /\ DOMAIN call[c] = CallFields
           /\ DOMAIN call[c].provider = {"state", "sent", "messages"}
           /\ call[c].provider.messages \in Seq(StreamMessages)
  BY OpenCall, Zenon DEF ServicesInv, Streaming, Open, RecordOK, CallOK, StreamOK

\* What the provider does: it sends, finishes, hangs up, or reads errors.
LEMMA ProviderKeeps ==
    ASSUME ServicesInv, NEW c \in Clients,
           ProviderSend(c) \/ ProviderFinish(c) \/ ProviderHangUp(c) \/ ProviderReceive(c)
    PROVE  ServicesInv' /\ DbGrows
<1>1. Streaming(c) /\ UNCHANGED dbVars
  BY Zenon DEF ProviderSend, ProviderFinish, ProviderHangUp, ProviderReceive
<1>2. StoreInv' /\ DbGrows
  BY <1>1, StoreUnchanged, Zenon DEF ServicesInv
<1>3. /\ DOMAIN call[c] = CallFields
      /\ DOMAIN call[c].provider = {"state", "sent", "messages"}
      /\ call[c].provider.messages \in Seq(StreamMessages)
  BY <1>1, StreamRecord
<1>4. CASE ProviderSend(c)
  <2>1. PICK m \in StreamMessages :
           call' = [call EXCEPT ![c] = [call[c] EXCEPT !.provider.messages = Append(@, m), !.provider.sent = @ + 1]]
    BY <1>4, Zenon DEF ProviderSend, Goes
  <2> DEFINE s == [call[c] EXCEPT !.provider.messages = Append(@, m), !.provider.sent = @ + 1]
  <2>2. /\ DOMAIN s = CallFields /\ s.op = call[c].op /\ s.request = call[c].request
        /\ s.known = call[c].known /\ s.next = call[c].next
        /\ DOMAIN s.provider = {"state", "sent", "messages"}
        /\ s.provider.messages = Append(call[c].provider.messages, m)
    BY <1>3, Zenon DEF CallFields
  <2> HIDE DEF s
  <2>3. s.provider.messages \in Seq(StreamMessages)
    <3> DEFINE q == call[c].provider.messages
    <3>1. q \in Seq(StreamMessages)
      BY <1>3
    <3> HIDE DEF q
    <3>2. Append(q, m) \in Seq(StreamMessages)
      BY <3>1
    <3> QED
      BY <2>2, <3>2, Zenon DEF q
  <2>4. call' = [call EXCEPT ![c] = s]
    BY <2>1 DEF s
  <2> QED
    BY <1>1, <1>2, <2>2, <2>3, <2>4, StreamStep, ZenonT(30)
<1>5. CASE ProviderFinish(c)
  <2> DEFINE s == [call[c] EXCEPT !.provider.state = "Finished"]
  <2>1. /\ DOMAIN s = CallFields /\ s.op = call[c].op /\ s.request = call[c].request
        /\ s.known = call[c].known /\ s.next = call[c].next
        /\ DOMAIN s.provider = {"state", "sent", "messages"}
        /\ s.provider.messages = call[c].provider.messages
    BY <1>3 DEF CallFields
  <2>2. call' = [call EXCEPT ![c] = s]
    BY <1>5 DEF ProviderFinish, Goes
  <2> HIDE DEF s
  <2> QED
    BY <1>1, <1>2, <1>3, <2>1, <2>2, StreamStep, ZenonT(30)
<1>6. CASE ProviderHangUp(c)
  <2>1. PICK kept \in {call[c].provider.messages, << >>} :
           call' = [call EXCEPT ![c] = [call[c] EXCEPT !.provider.state = "Gone",
                                                       !.provider.messages = kept, !.updates = << >>]]
    BY <1>6, Zenon DEF ProviderHangUp, Goes
  <2> DEFINE s == [call[c] EXCEPT !.provider.state = "Gone", !.provider.messages = kept, !.updates = << >>]
  <2>2. /\ DOMAIN s = CallFields /\ s.op = call[c].op /\ s.request = call[c].request
        /\ s.known = call[c].known /\ s.next = call[c].next
        /\ DOMAIN s.provider = {"state", "sent", "messages"}
        /\ s.provider.messages = kept
    BY <1>3, Zenon DEF CallFields
  <2>3. kept \in Seq(StreamMessages)
    <3>1. << >> \in Seq(StreamMessages)
      OBVIOUS
    <3> QED
      BY <1>3, <3>1, Zenon
  <2> HIDE DEF s
  <2>4. call' = [call EXCEPT ![c] = s]
    BY <2>1 DEF s
  <2> QED
    BY <1>1, <1>2, <2>2, <2>3, <2>4, StreamStep, ZenonT(30)
<1>7. CASE ProviderReceive(c)
  <2> DEFINE s == [call[c] EXCEPT !.updates = Tail(@)]
  <2>1. /\ DOMAIN s = CallFields /\ s.op = call[c].op /\ s.request = call[c].request
        /\ s.known = call[c].known /\ s.next = call[c].next
        /\ s.provider = call[c].provider
    BY <1>3 DEF CallFields
  <2>2. call' = [call EXCEPT ![c] = s]
    BY <1>7 DEF ProviderReceive, Goes
  <2> HIDE DEF s
  <2> QED
    BY <1>1, <1>2, <1>3, <2>1, <2>2, StreamStep, Zenon
<1> QED
  BY <1>2, <1>4, <1>5, <1>6, <1>7, Zenon

\* What the task of a stream does.
LEMMA StreamTaskKeeps ==
    ASSUME ServicesInv, NEW c \in Clients, StreamTask(c)
    PROVE  ServicesInv' /\ DbGrows
<1>1. Streaming(c)
  BY DEF StreamTask, StreamMessage, StreamErrors, StreamEnd, Idle
<1>2. /\ DOMAIN call[c] = CallFields
      /\ DOMAIN call[c].provider = {"state", "sent", "messages"}
      /\ call[c].provider.messages \in Seq(StreamMessages)
  BY <1>1, StreamRecord
<1>3. CASE StreamMessage(c)
  <2> DEFINE m == Head(call[c].provider.messages)
             s == [call[c] EXCEPT !.provider.messages = Tail(@), !.errors = UpdateErrors(Perm(c), m)]
  <2>1. m \in StreamMessages /\ Tail(call[c].provider.messages) \in Seq(StreamMessages)
    BY <1>2, <1>3 DEF StreamMessage
  <2>2. UpdateList(DatapointUpdates(m))
    BY <2>1, MessagesAssumption, DatapointUpdateList
  <2>3. update_entries(Perm(c), DatapointUpdates(m)) /\ call' = [call EXCEPT ![c] = s]
    BY <1>3 DEF StreamMessage, Goes
  <2>4. /\ DOMAIN s = CallFields /\ s.op = call[c].op /\ s.request = call[c].request
        /\ s.known = call[c].known /\ s.next = call[c].next
        /\ DOMAIN s.provider = {"state", "sent", "messages"}
        /\ s.provider.messages = Tail(call[c].provider.messages)
    BY <1>2, Zenon DEF CallFields
  <2> HIDE DEF s, m
  <2>5. StoreInv' /\ DbGrows
    BY <2>2, <2>3, StoreUpdated DEF ServicesInv
  <2> QED
    BY <1>1, <2>1, <2>3, <2>4, <2>5, StreamStep, Zenon
<1>4. CASE StreamErrors(c)
  <2> DEFINE updates == IF call[c].provider.state = "Gone" THEN call[c].updates
                        ELSE Append(call[c].updates, call[c].errors)
             s == [call[c] EXCEPT !.errors = {}, !.updates = updates]
  <2>1. call' = [call EXCEPT ![c] = s] /\ UNCHANGED dbVars
    BY <1>4 DEF StreamErrors, Goes
  <2>2. /\ DOMAIN s = CallFields /\ s.op = call[c].op /\ s.request = call[c].request
        /\ s.known = call[c].known /\ s.next = call[c].next /\ s.provider = call[c].provider
    BY <1>2 DEF CallFields
  <2> HIDE DEF s
  <2>3. StoreInv' /\ DbGrows
    BY <2>1, StoreUnchanged DEF ServicesInv
  <2> QED
    BY <1>1, <1>2, <2>1, <2>2, <2>3, StreamStep, Zenon
<1>5. CASE StreamEnd(c)
  <2>1. call' = [call EXCEPT ![c] = [call[c] EXCEPT !.status = "Ok"]] /\ UNCHANGED dbVars
    BY <1>5 DEF StreamEnd, Goes
  <2>2. StoreInv' /\ DbGrows
    BY <2>1, StoreUnchanged DEF ServicesInv
  <2> QED
    BY <1>1, <2>1, <2>2, EndStep, Zenon DEF Streaming, Open
<1> QED
  BY <1>3, <1>4, <1>5 DEF StreamTask

------------------------------------------------------------------------------
(* The whole *)

\* What `main` does before it serves.
LEMMA StartupKeeps ==
    ASSUME ServicesInv, StartupNext, call' = call
    PROVE  ServicesInv' /\ DbGrows
<1>1. StoreInv' /\ DbGrows
  <2>1. CASE LoadEntry
    BY <2>1, StoreAdded, Zenon DEF LoadEntry, AddEntry, ServicesInv
  <2>2. CASE SetDefault
    <3> DEFINE u == [NoUpdate EXCEPT !.datapoint = Some(defaults[1].value)]
    <3>1. update_entry(Root, path_to_id[defaults[1].path], u)
      BY <2>2 DEF SetDefault
    <3>2. UpdateShape(u)
      BY DEF NoUpdate, UpdateShape
    <3> HIDE DEF u
    <3> QED
      BY <3>1, <3>2, StoreUpdatedOnce DEF ServicesInv
  <2>3. CASE read_metadata_file \/ Serve
    BY <2>3, StoreUnchanged DEF read_metadata_file, Serve, ServicesInv
  <2> QED
    BY <2>1, <2>2, <2>3, Zenon DEF StartupNext
<1> QED
  BY <1>1, CallsUnchanged DEF ServicesInv

\* The invariant holds at the start.
LEMMA ServicesInitially == GrpcInit => ServicesInv
<1> SUFFICES ASSUME GrpcInit PROVE ServicesInv
  OBVIOUS
<1>1. StoreInv
  BY DEF GrpcInit, StartupInit, DbInit, StoreInv, PathsAndIdsAgree, StoredValuesFit, EmptyMap
<1>2. CallsOK
  BY DEF GrpcInit, CallsOK, CallOK
<1> QED
  BY <1>1, <1>2 DEF ServicesInv

\* Every step keeps the invariant, and the database only grows.
LEMMA ServicesStep ==
    ASSUME ServicesInv, [ServicesNext]_grpcVars
    PROVE  ServicesInv' /\ DbGrows
<1>1. CASE StartupNext /\ call' = call
  BY <1>1, StartupKeeps, Zenon
<1>2. ASSUME NEW c \in Clients, Call(c) \/ Expire(c) \/ ValNext(c) \/ SdvNext(c)
      PROVE  ServicesInv' /\ DbGrows
  BY <1>2, CallStep, ExpireStep, GetStep, SetLookupKeeps, SetCommitKeeps, SubscribeLookupKeeps,
     SubscribeCreateKeeps, ServerInfoStep, GetDatapointsStep, SetDatapointsLookupKeeps,
     SetDatapointsCommitKeeps, GetMetadataStep, UpdateDatapointsStep, RegisterKeeps,
     RegisterReplyKeeps, ProviderKeeps, StreamTaskKeeps, Zenon DEF ValNext, SdvNext
<1>3. CASE call' = call /\ UNCHANGED dbVars
  BY <1>3, StoreUnchanged, CallsUnchanged DEF ServicesInv
<1> QED
  BY <1>1, <1>2, <1>3 DEF ServicesNext, Shutdown, grpcVars

\* The inductive invariant holds throughout.
THEOREM ServicesInvariant == ServicesSpec => []ServicesInv
<1>1. ServicesInv /\ [ServicesNext]_grpcVars => ServicesInv'
  BY ServicesStep
<1> QED
  BY <1>1, ServicesInitially, PTL DEF ServicesSpec

\* Paths and ids agree whatever the calls of both interfaces do.
THEOREM ServicesPathsAndIdsAgree == ServicesSpec => []PathsAndIdsAgree
<1>1. ServicesInv => PathsAndIdsAgree
  BY DEF ServicesInv, StoreInv
<1> QED
  BY <1>1, ServicesInvariant, PTL

\* A stored value fits the type and the allowed values of its entry, whichever
\* call wrote it, in whatever batch.
THEOREM ServicesStoredValuesFit == ServicesSpec => []StoredValuesFit
<1>1. ServicesInv => StoredValuesFit
  BY DEF ServicesInv, StoreInv
<1> QED
  BY <1>1, ServicesInvariant, PTL

\* No call removes an entry or changes what it was registered as.
THEOREM ServicesRegistrationIsPermanent == ServicesSpec => RegistrationIsPermanent
<1>1. ServicesInv /\ [ServicesNext]_grpcVars => [RegistrationKept]_dbVars
  BY ServicesStep DEF DbGrows
<1> QED
  BY <1>1, ServicesInvariant, PTL DEF ServicesSpec, RegistrationIsPermanent

\* Providers agree on ids: what register_datapoints hands out leads to the
\* entry of that name from then on.
THEOREM ProvidersDoAgree == ServicesSpec => []ProvidersAgree
<1>1. ServicesInv => ProvidersAgree
  <2> SUFFICES ASSUME ServicesInv, NEW c \in Clients,
                      call[c].op = "register_datapoints", call[c].status # "Unauthenticated",
                      NEW name \in DOMAIN call[c].results
               PROVE  /\ name \in Registered /\ path_to_id[name] = call[c].results[name]
                      /\ EntryAt(name).metadata.path = name
    BY DEF ProvidersAgree
  <2>1. call[c] # NoCall
    BY DEF NoCall
  <2>2. name \in DOMAIN path_to_id /\ path_to_id[name] = call[c].results[name]
    BY <2>1, Zenon DEF ServicesInv, CallsOK, CallOK, RegisterOK
  <2>3. entries[path_to_id[name]].metadata.path = name
    BY <2>2 DEF ServicesInv, StoreInv, PathsAndIdsAgree
  <2> QED
    BY <2>2, <2>3 DEF Registered, EntryAt
<1> QED
  BY <1>1, ServicesInvariant, PTL

\* An established subscription has all that its patterns match of what was
\* registered when it came in: the wildcards as `is_match` reads them.
MatchesAreSubscribed ==
    \A c \in Clients : call[c].op = "subscribe" /\ call[c].status = "Ok" =>
        \A i \in ToLookUp(call[c]) : \A path \in MatchedBy[Items(c)[i].path] \cap Known(c) :
            /\ path \in DOMAIN call[c].results
            /\ FromValFields(Items(c)[i].fields) \subseteq call[c].results[path]

\* `subscribe` subscribes to every path that a pattern of the request matches
\* and that the handler found registered, with the fields that were asked for.
THEOREM MatchesDoGetSubscribed == ServicesSpec => []MatchesAreSubscribed
<1>1. ServicesInv => MatchesAreSubscribed
  <2> SUFFICES ASSUME ServicesInv, NEW c \in Clients,
                      call[c].op = "subscribe", call[c].status = "Ok",
                      NEW i \in ToLookUp(call[c]), NEW path \in MatchedBy[Items(c)[i].path] \cap Known(c)
               PROVE  /\ path \in DOMAIN call[c].results
                      /\ FromValFields(Items(c)[i].fields) \subseteq call[c].results[path]
    BY DEF MatchesAreSubscribed
  <2>1. call[c] # NoCall
    BY DEF NoCall
  <2>2. SubscribeOK(call[c], path_to_id)
    BY <2>1, ZenonT(30) DEF ServicesInv, CallsOK, CallOK
  <2>3. PICK k \in DOMAIN call[c].updates : call[c].updates[k].item = i
    BY <2>2, ZenonT(30) DEF SubscribeOK
  <2>4. path \in KnownTo(call[c], path_to_id) /\ ItemsOf(call[c]) = Items(c)
    BY Zenon DEF Known, KnownTo, Registered, Items, ItemsOf
  <2> QED
    BY <2>2, <2>3, <2>4, ZenonT(30) DEF SubscribeOK
<1> QED
  BY <1>1, ServicesInvariant, PTL

\* The patterns of a get or a subscribe are among the patterns of the requests.
LEMMA RequestGlobs ==
    ASSUME NEW r \in DOMAIN Requests, Requests[r].op \in {"get", "subscribe"},
           NEW i \in DOMAIN Requests[r].items
    PROVE  Requests[r].items[i].path \in Globs
<1> DEFINE G(q) == {Requests[q].items[j].path : j \in DOMAIN Requests[q].items}
           R == {q \in DOMAIN Requests : Requests[q].op \in {"get", "subscribe"}}
<1>1. Requests[r].items[i].path \in G(r) /\ r \in R
  BY Zenon
<1> HIDE DEF G, R
<1>2. Requests[r].items[i].path \in UNION {G(q) : q \in R}
  BY <1>1
<1> QED
  BY <1>2, Zenon DEF Globs, G, R

\* A subscription covers what it asks for, by the documentation of wildcards,
\* where the patterns of the requests match what it says.
THEOREM SubscriptionsCover == GlobsAsDocumented => (ServicesSpec => []SubscriptionsAreComplete)
<1> SUFFICES ASSUME GlobsAsDocumented PROVE ServicesSpec => []SubscriptionsAreComplete
  OBVIOUS
<1>1. ServicesInv /\ MatchesAreSubscribed => SubscriptionsAreComplete
  <2> SUFFICES ASSUME ServicesInv, MatchesAreSubscribed, NEW c \in Clients,
                      call[c].op = "subscribe", call[c].status = "Ok",
                      NEW i \in DOMAIN Items(c), NEW path \in Known(c),
                      Regular(Items(c)[i].path), ~BadPattern(Items(c)[i].path),
                      path \in DescribedBy[Items(c)[i].path],
                      \A j \in (i + 1)..Len(Items(c)) : Items(c)[j].path # Items(c)[i].path
               PROVE  /\ path \in DOMAIN call[c].results
                      /\ FromValFields(Items(c)[i].fields) \subseteq call[c].results[path]
    BY ZenonT(30) DEF SubscriptionsAreComplete
  <2>1. call[c] # NoCall
    BY DEF NoCall
  <2>2. call[c].request \in DOMAIN Requests /\ Requests[call[c].request].op = "subscribe"
    BY <2>1, ZenonT(30) DEF ServicesInv, CallsOK, CallOK, RecordOK
  <2>3. Items(c)[i].path \in Globs
    BY <2>2, RequestGlobs, ZenonT(30) DEF Items
  <2>4. path \in MatchedBy[Items(c)[i].path]
    BY <2>3, ZenonT(30) DEF GlobsAsDocumented
  <2>5. i \in ToLookUp(call[c])
    BY Zenon DEF ToLookUp, ItemsOf, Items
  <2> QED
    BY <2>4, <2>5, ZenonT(30) DEF MatchesAreSubscribed
<1> QED
  BY <1>1, ServicesInvariant, MatchesDoGetSubscribed, PTL

==============================================================================
