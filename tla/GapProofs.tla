------------------------------ MODULE GapProofs ------------------------------
(***************************************************************************)
(* A change subscription misses at most what changed before it was         *)
(* registered, for any number of tasks, entries, subscriptions and calls.  *)
(*                                                                         *)
(* The argument: what a registered subscription does not know yet, and     *)
(* could, is on its way.  A writer takes down every field it makes         *)
(* different from the last commit, keeps the list until it has come to     *)
(* every subscription, and composes its messages from the state that the   *)
(* list is about.                                                          *)
(***************************************************************************)
EXTENDS BrokerProofs

------------------------------------------------------------------------------
(* The inductive invariant *)

\* The ids that a subscription names are registered.
RequestsKnown ==
    /\ DOMAIN request = Streams
    /\ \A s \in Subscribers : DOMAIN request[s] \subseteq DOMAIN entries

\* What a call has yet to update, it has not updated.
UpdatesOnce ==
    \A w \in Writers :
        /\ \A i, j \in DOMAIN call[w].todo : call[w].todo[i][1] = call[w].todo[j][1] => i = j
        /\ \A i \in DOMAIN call[w].todo : call[w].todo[i][1] \notin DOMAIN call[w].changed

HasChanged(w, id, field) == id \in DOMAIN call[w].changed /\ field \in call[w].changed[id]

\* A writer has taken down what it made different from the last commit.
ChangesRecorded ==
    \A w \in Writers : pc[w] = "update" =>
        \A id \in DOMAIN entries, field \in Field :
            \/ Value(entries[id], field) = Value(log[Len(log)][id], field)
            \/ HasChanged(w, id, field)

SinceLogged == \A s \in Elems(change_subscriptions) : stream[s].since \in 1..Len(log)

\* The writer w has yet to come to s.
Ahead(w, s) ==
    \/ pc[w] \in {"update", "downgraded", "subs_read"}
    \/ pc[w] = "notify" /\ s \in Elems(call[w].recipients)
    \/ pc[w] = "send" /\ s \in Elems(Tail(call[w].recipients))

\* The writer w is going to tell s of k, or about to.
Underway(w, s, k) ==
    \/ HasChanged(w, k[1], k[2]) /\ Ahead(w, s)
    \/ /\ pc[w] = "send" /\ Head(call[w].recipients) = s
       /\ k \in DOMAIN call[w].outbox[1].body
       /\ call[w].outbox[1].body[k] = Value(entries[k[1]], k[2])

\* What a subscription should know and does not is old, or underway.
Told ==
    \A s \in Elems(change_subscriptions) : Live(s) =>
        \A k \in Readable(s) :
            Knows(s, k) \/ MissedBefore(s, k) \/ \E w \in Writers : Underway(w, s, k)

GapInv == RequestsKnown /\ UpdatesOnce /\ ChangesRecorded /\ SinceLogged /\ Told

------------------------------------------------------------------------------
(* Elements of sequences *)

\* What is in a sequence made of others.
LEMMA ElemsFacts ==
    ASSUME NEW x, IsSeq(x)
    PROVE  /\ \A e : Elems(Append(x, e)) = Elems(x) \cup {e}
           /\ x # << >> => Elems(x) = {Head(x)} \cup Elems(Tail(x))
<1>1. x \in Seq(Elems(x))
  BY DEF IsSeq
<1>2. ASSUME NEW e PROVE Elems(Append(x, e)) = Elems(x) \cup {e}
  BY AppendFacts DEF Elems
<1>3. ASSUME x # << >> PROVE Elems(x) = {Head(x)} \cup Elems(Tail(x))
  <2>1. /\ Head(x) = x[1] /\ 1 \in DOMAIN x
        /\ \A i \in DOMAIN x : i # 1 => i - 1 \in DOMAIN Tail(x) /\ Tail(x)[i - 1] = x[i]
    BY <1>1, <1>3
  <2>2. \A i \in DOMAIN Tail(x) : i + 1 \in DOMAIN x /\ Tail(x)[i] = x[i + 1]
    BY <1>3, TailFacts
  <2>3. ASSUME NEW e \in Elems(x) PROVE e \in {Head(x)} \cup Elems(Tail(x))
    BY <2>1 DEF Elems
  <2>4. ASSUME NEW e \in {Head(x)} \cup Elems(Tail(x)) PROVE e \in Elems(x)
    BY <2>1, <2>2 DEF Elems
  <2> QED
    BY <2>3, <2>4
<1> QED
  BY <1>2, <1>3

\* A concatenation has what its second part has.
LEMMA ConcatElems ==
    ASSUME NEW x, IsSeq(x), NEW y, IsSeq(y)
    PROVE  /\ Elems(x) \subseteq Elems(x \o y)
           /\ Elems(y) \subseteq Elems(x \o y)
<1> DEFINE S == Elems(x) \cup Elems(y)
<1>1. x \in Seq(S) /\ y \in Seq(S)
  BY SeqMonotone DEF IsSeq
<1> HIDE DEF S
<1>2. /\ \A i \in DOMAIN x : i \in DOMAIN (x \o y) /\ (x \o y)[i] = x[i]
      /\ \A i \in DOMAIN y : /\ Len(x) + i \in DOMAIN (x \o y)
                             /\ (x \o y)[Len(x) + i] = y[i]
  BY <1>1
<1> QED
  BY <1>2 DEF Elems

\* Cleaning up adds nothing.
LEMMA RetainedElems ==
    ASSUME NEW list, IsSeq(list)
    PROVE  Elems(Retained(list)) \subseteq Elems(list)
<1> DEFINE gone == {s \in Streams : stream[s].closed}
<1>1. Retained(list) \in Seq(Elems(list) \ gone)
  BY WithoutFacts DEF Retained
<1> HIDE DEF gone
<1> QED
  BY <1>1 DEF Elems

------------------------------------------------------------------------------
(* What most steps leave alone *)

\* The step shows s no more than it saw, unless s is not live.
SameView(s) ==
    Live(s)' => /\ Live(s)
                /\ Readable(s)' \subseteq Readable(s)
                /\ stream'[s].known = stream[s].known
                /\ stream'[s].since = stream[s].since

\* What s sees depends on its request, its token and its stream.
LEMMA ViewKept ==
    ASSUME NEW s, UNCHANGED << entries, expired >>, request'[s] = request[s],
           stream'[s].known = stream[s].known, stream'[s].since = stream[s].since,
           stream[s].closed => stream'[s].closed
    PROVE  SameView(s)
<1>1. Permission(s)' = Permission(s)
  BY DEF Permission
<1>2. Live(s)' => Live(s)
  BY <1>1 DEF Live
<1>3. Readable(s)' = Readable(s)
  BY <1>1, Zenon DEF Readable, get_entry_by_id
<1> QED
  BY <1>2, <1>3 DEF SameView

\* A step that leaves the entries alone and forgets nothing that is underway.
LEMMA ToldKept ==
    ASSUME GapInv, UNCHANGED entries, \A n \in 1..Len(log) : log'[n] = log[n],
           \A s \in Elems(change_subscriptions') :
              s \in Elems(change_subscriptions) /\ SameView(s),
           \A w \in Writers : \A s \in Elems(change_subscriptions') : \A k \in Readable(s) :
              Live(s) /\ Underway(w, s, k) => Underway(w, s, k)'
    PROVE  Told'
<1> SUFFICES ASSUME NEW s \in Elems(change_subscriptions'), Live(s)', NEW k \in Readable(s)'
             PROVE  Knows(s, k)' \/ MissedBefore(s, k)' \/ \E w \in Writers : Underway(w, s, k)'
  BY Zenon DEF Told
<1>1. /\ s \in Elems(change_subscriptions) /\ Live(s) /\ k \in Readable(s)
      /\ stream'[s].known = stream[s].known /\ stream'[s].since = stream[s].since
  BY DEF SameView
<1>2. Knows(s, k) => Knows(s, k)'
  BY <1>1, Zenon DEF Knows
<1>3. log'[stream[s].since] = log[stream[s].since]
  BY <1>1 DEF GapInv, SinceLogged
<1>4. MissedBefore(s, k) => MissedBefore(s, k)'
  BY <1>1, <1>3, Zenon DEF MissedBefore
<1>5. Knows(s, k) \/ MissedBefore(s, k) \/ \E w \in Writers : Underway(w, s, k)
  BY <1>1, Zenon DEF GapInv, Told
<1> QED
  BY <1>1, <1>2, <1>4, <1>5, Zenon

\* A step that touches no writer, no entry and no commit.
LEMMA QuietGap ==
    ASSUME GapInv, UNCHANGED << entries, log, call >>, \A w \in Writers : pc'[w] = pc[w],
           DOMAIN request' = Streams,
           \A s \in Subscribers : DOMAIN request'[s] \subseteq DOMAIN entries,
           \A s \in Elems(change_subscriptions') :
              s \in Elems(change_subscriptions) /\ SameView(s),
           \A s \in Elems(change_subscriptions) : stream'[s].since = stream[s].since
    PROVE  GapInv'
<1>1. RequestsKnown'
  BY DEF RequestsKnown
<1>2. UpdatesOnce'
  BY DEF GapInv, UpdatesOnce
<1>3. ChangesRecorded'
  BY Zenon DEF GapInv, ChangesRecorded, HasChanged
<1>4. SinceLogged'
  BY DEF GapInv, SinceLogged
<1>5. Told'
  <2>1. ASSUME NEW w \in Writers, NEW s, NEW k, Underway(w, s, k) PROVE Underway(w, s, k)'
    BY <2>1, Zenon DEF Underway, HasChanged, Ahead
  <2> QED
    BY <2>1, ToldKept
<1> QED
  BY <1>1, <1>2, <1>3, <1>4, <1>5 DEF GapInv

\* A step that leaves the streams alone shows nobody more.
LEMMA SameViews ==
    ASSUME UNCHANGED << entries, expired, request, stream >>, NEW s
    PROVE  SameView(s)
  BY ViewKept

------------------------------------------------------------------------------
(* Tasks that are no writers *)

\* Steps that touch queues and lists, and no list grows.
LEMMA WaitingGap ==
    ASSUME BrokerInv, TypeInv, GapInv, NEW t, t \notin Writers,
           \/ RequestSubsWrite(t) \/ RequestCleanup(t) \/ Cleanup(t) \/ RequestAdd(t)
           \/ t = Terminator /\ (RequestShutdown \/ Shutdown)
    PROVE  GapInv'
<1>1. PICK label : Goto(t, label)
  BY Zenon DEF RequestSubsWrite, RequestCleanup, Cleanup, RequestAdd, RequestShutdown, Shutdown
<1>2. UNCHANGED << dbVars, log, call, expired, request, stream >>
  BY Zenon DEF RequestSubsWrite, RequestCleanup, Cleanup, RequestAdd, RequestShutdown, Shutdown
<1>3. \A w \in Writers : pc'[w] = pc[w]
  BY <1>1 DEF BrokerInv, Shape, Goto, Tasks, Clients
<1>4. Elems(change_subscriptions') \subseteq Elems(change_subscriptions)
  <2>1. \/ change_subscriptions' = change_subscriptions
        \/ change_subscriptions' = << >>
        \/ change_subscriptions' = Retained(change_subscriptions)
    BY Zenon DEF RequestSubsWrite, RequestCleanup, Cleanup, RequestAdd, RequestShutdown, Shutdown,
       subsVars
  <2>2. IsSeq(change_subscriptions)
    BY SeqIsSeq, Zenon DEF TypeInv, Lists
  <2>3. Elems(<< >>) = {}
    BY DEF Elems
  <2> QED
    BY <2>1, <2>2, <2>3, RetainedElems
<1> QED
  BY <1>2, <1>3, <1>4, SameViews, QuietGap DEF dbVars, GapInv, RequestsKnown

\* Who is in the list of change subscriptions.
LEMMA ChangeSubscribers ==
    ASSUME TypeInv
    PROVE  /\ IsSeq(change_subscriptions) /\ IsSeq(query_subscriptions)
           /\ \A s \in Elems(change_subscriptions) :
                 s \in Subscribers /\ s \in Streams /\ pc[s] \in After
<1>1. /\ change_subscriptions \in Seq(Subscribers \cap Joined)
      /\ query_subscriptions \in Seq(Queriers \cap Joined)
  BY DEF TypeInv, Lists
<1>2. Elems(change_subscriptions) \subseteq Subscribers \cap Joined
  BY <1>1 DEF Elems
<1> QED
  BY <1>1, <1>2, SeqIsSeq DEF Joined

\* A step of one client x, that is not in the list or whose view stays.
LEMMA OneStream ==
    ASSUME BrokerInv, TypeInv, GapInv, NEW x, x \notin Writers,
           NEW label, Goto(x, label) \/ UNCHANGED pc,
           UNCHANGED << entries, log, call, expired, change_subscriptions >>,
           DOMAIN request' = Streams,
           x \in Subscribers => DOMAIN request'[x] \subseteq DOMAIN entries,
           \A s \in Streams : s # x => stream'[s] = stream[s] /\ request'[s] = request[s],
           x \in Elems(change_subscriptions) =>
              /\ request'[x] = request[x]
              /\ stream'[x].known = stream[x].known /\ stream'[x].since = stream[x].since
              /\ stream[x].closed => stream'[x].closed
    PROVE  GapInv'
<1>1. \A w \in Writers : pc'[w] = pc[w]
  BY DEF BrokerInv, Shape, Goto, Tasks, Clients
<1>2. \A s \in Elems(change_subscriptions) : s \in Streams
  BY ChangeSubscribers
<1>3. ASSUME NEW s \in Elems(change_subscriptions)
      PROVE  SameView(s) /\ stream'[s].since = stream[s].since
  <2>1. CASE s = x
    BY <2>1, ViewKept
  <2>2. CASE s # x
    BY <1>2, <2>2, ViewKept
  <2> QED
    BY <2>1, <2>2
<1>4. \A s \in Subscribers : DOMAIN request'[s] \subseteq DOMAIN entries
  <2>1. \A s \in Subscribers : s \in Streams
    BY DEF Streams
  <2> QED
    BY <2>1 DEF GapInv, RequestsKnown
<1> QED
  BY <1>1, <1>3, <1>4, QuietGap, Zenon

\* subscribe and subscribe_query, up to the registration of a query.
LEMMA SubscribingGap ==
    ASSUME BrokerInv, TypeInv, GapInv, NEW x \in Streams,
           \/ x \in Subscribers /\ (Subscribe(x) \/ InitialNotification(x))
           \/ x \in Queriers /\ (SubscribeQuery(x) \/ CompileQuery(x) \/ AddQuerySubscription(x))
    PROVE  GapInv'
<1>1. x \notin Writers /\ DOMAIN stream = Streams /\ DOMAIN request = Streams
  BY Disjoint DEF BrokerInv, Shape, GapInv, RequestsKnown
<1>2. UNCHANGED << entries, log, call, expired, change_subscriptions >>
  BY Zenon DEF Subscribe, InitialNotification, SubscribeQuery, CompileQuery, AddQuerySubscription,
     dbVars, subsVars
<1>3. PICK label : Goto(x, label)
  BY Zenon DEF Subscribe, InitialNotification, SubscribeQuery, CompileQuery, AddQuerySubscription
<1>4. x \notin Elems(change_subscriptions)
  <2>1. CASE x \in Queriers
    BY <2>1, ChangeSubscribers, Disjoint
  <2>2. CASE Subscribe(x) \/ InitialNotification(x)
    <3>1. pc[x] = "idle" \/ pc[x] = "db_read"
      BY <2>2, Zenon DEF Subscribe, InitialNotification
    <3> QED
      BY <3>1, ChangeSubscribers DEF After
  <2> QED
    BY <2>1, <2>2
<1>5. \/ UNCHANGED request
      \/ \E r : request' = [request EXCEPT ![x] = r]
              /\ (x \in Subscribers => DOMAIN r \subseteq DOMAIN entries)
  <2>1. CASE Subscribe(x)
    BY <2>1, Zenon DEF Subscribe
  <2>2. CASE x \in Queriers /\ SubscribeQuery(x)
    <3>1. x \notin Subscribers
      BY <2>2, Disjoint
    <3> QED
      BY <2>2, <3>1, Zenon DEF SubscribeQuery
  <2>3. CASE InitialNotification(x) \/ CompileQuery(x) \/ AddQuerySubscription(x)
    BY <2>3, Zenon DEF InitialNotification, CompileQuery, AddQuerySubscription
  <2> QED
    BY <2>1, <2>2, <2>3, Zenon
<1>6. /\ DOMAIN request' = Streams
      /\ x \in Subscribers => DOMAIN request'[x] \subseteq DOMAIN entries
      /\ \A s \in Streams : s # x => request'[s] = request[s]
  <2>1. CASE UNCHANGED request
    BY <1>1, <2>1 DEF GapInv, RequestsKnown
  <2>2. ASSUME NEW r, request' = [request EXCEPT ![x] = r],
               x \in Subscribers => DOMAIN r \subseteq DOMAIN entries
        PROVE  /\ DOMAIN request' = Streams
               /\ x \in Subscribers => DOMAIN request'[x] \subseteq DOMAIN entries
               /\ \A s \in Streams : s # x => request'[s] = request[s]
    <3>1. DOMAIN request' = Streams /\ request'[x] = r /\ \A s \in Streams : s # x => request'[s] = request[s]
      BY <1>1, <2>2
    <3> QED
      BY <2>2, <3>1
  <2> QED
    BY <1>5, <2>1, <2>2
<1>7. \A s \in Streams : s # x => stream'[s] = stream[s]
  <2>1. \/ UNCHANGED stream
        \/ \E m : Deliver(x, m)
        \/ stream' = [stream EXCEPT ![x].since = Len(log)]
    BY Zenon DEF Subscribe, InitialNotification, SubscribeQuery, CompileQuery, AddQuerySubscription
  <2> QED
    BY <1>1, <2>1, Zenon DEF Deliver
<1> QED
  BY <1>1, <1>2, <1>3, <1>4, <1>6, <1>7, OneStream, Zenon

\* What a client does with its stream, and a dropped future of one that does not write.
LEMMA ClientGap ==
    ASSUME BrokerInv, TypeInv, GapInv, NEW x \in Clients,
           \/ x \in Streams /\ (Read(x) \/ Leave(x))
           \/ x \notin Writers /\ Cancel(x)
    PROVE  GapInv'
<1>1. /\ x \notin Writers /\ DOMAIN stream = Streams /\ DOMAIN request = Streams
      /\ \A s \in Streams : DOMAIN stream[s] = {"chan", "closed", "known", "since"}
  BY Disjoint DEF BrokerInv, Shape, GapInv, RequestsKnown
<1>2. UNCHANGED << entries, log, call, expired, change_subscriptions, request >>
  BY <1>1, Zenon DEF Read, Receive, EndOfStream, Leave, Cancel, clientUnchanged, dbVars, subsVars
<1>3. UNCHANGED pc \/ \E label : Goto(x, label)
  BY <1>1, Zenon DEF Read, Receive, EndOfStream, Leave, Cancel
<1>4. \/ UNCHANGED stream
      \/ stream' = [stream EXCEPT ![x].chan = Tail(@)]
      \/ stream' = [stream EXCEPT ![x].chan = << >>, ![x].closed = TRUE]
      \/ stream' = [stream EXCEPT ![x].closed = TRUE, ![x].chan = << >>]
  BY <1>1, Zenon DEF Read, Receive, EndOfStream, Leave, Cancel
<1>5. /\ \A s \in Streams : s # x => stream'[s] = stream[s]
      /\ x \in Streams => /\ stream'[x].known = stream[x].known
                          /\ stream'[x].since = stream[x].since
                          /\ stream[x].closed => stream'[x].closed
  <2>1. CASE UNCHANGED stream
    BY <2>1
  <2>2. CASE stream' = [stream EXCEPT ![x].chan = Tail(@)]
    BY <1>1, <2>2, Zenon
  <2>3. CASE stream' = [stream EXCEPT ![x].chan = << >>, ![x].closed = TRUE]
    BY <1>1, <2>3, Zenon
  <2>4. CASE stream' = [stream EXCEPT ![x].closed = TRUE, ![x].chan = << >>]
    BY <1>1, <2>4, Zenon
  <2> QED
    BY <1>4, <2>1, <2>2, <2>3, <2>4, Zenon
<1>6. x \in Elems(change_subscriptions) => x \in Streams
  BY ChangeSubscribers
<1>7. x \in Subscribers => DOMAIN request'[x] \subseteq DOMAIN entries
  BY <1>2 DEF GapInv, RequestsKnown
<1> QED
  BY <1>1, <1>2, <1>3, <1>5, <1>6, <1>7, OneStream, Zenon

\* A token that expires ends a view and changes no other.
LEMMA ExpireGap ==
    ASSUME TypeInv, GapInv, NEW t \in Clients, Expire(t)
    PROVE  GapInv'
<1>1. UNCHANGED << entries, log, call, pc, change_subscriptions, request, stream >>
  BY DEF Expire, dbVars, subsVars
<1>2. ASSUME NEW s \in Elems(change_subscriptions) PROVE SameView(s)
  <2>1. s \in Clients /\ PermissionOf[s] \in PermissionSet(Paths)
    BY ChangeSubscribers, PermissionOfAssumption DEF Clients
  <2>2. CASE s = t
    <3>1. s \in expired'
      BY <2>2 DEF Expire
    <3>2. Permission(s)'.expired
      BY <2>1, <3>1, Zenon DEF Permission, PermissionSet
    <3> QED
      BY <3>2 DEF SameView, Live
  <2>3. CASE s # t
    <3>1. s \in expired' <=> s \in expired
      BY <2>3 DEF Expire
    <3>2. Permission(s)' = Permission(s)
      BY <3>1 DEF Permission
    <3>3. Live(s)' => Live(s)
      BY <1>1, <3>2 DEF Live
    <3>4. Readable(s)' = Readable(s)
      BY <1>1, <3>2, Zenon DEF Readable, get_entry_by_id
    <3> QED
      BY <1>1, <3>3, <3>4 DEF SameView
  <2> QED
    BY <2>2, <2>3
<1> QED
  BY <1>1, <1>2, QuietGap DEF GapInv, RequestsKnown

\* The subscription is registered: what it does not know changed before, or is in
\* the list of the one writer that may be writing.
LEMMA AddChangeSubscriptionGap ==
    ASSUME BrokerInv, TypeInv, GapInv, NEW x \in Subscribers, AddChangeSubscription(x)
    PROVE  GapInv'
<1>1. x \in Streams /\ x \notin Writers /\ x \in Tasks
  BY Disjoint DEF Streams, Tasks, Clients
<1>2. /\ UNCHANGED << entries, log, call, expired, request >>
      /\ change_subscriptions' = Append(change_subscriptions, x)
      /\ stream' = [stream EXCEPT ![x].since = Len(log)]
      /\ Goto(x, "subscribed") /\ pc[x] = "subs_write"
  BY DEF AddChangeSubscription, dbVars
<1>3. /\ \A s \in Streams : s # x => stream'[s] = stream[s]
      /\ stream'[x].since = Len(log)
      /\ \A w \in Writers : pc'[w] = pc[w]
  BY <1>1, <1>2 DEF BrokerInv, Shape, Goto, Tasks, Clients
<1>4. Elems(change_subscriptions') = Elems(change_subscriptions) \cup {x}
  BY <1>2, ChangeSubscribers, ElemsFacts
<1>5. x \notin Elems(change_subscriptions) /\ \A s \in Elems(change_subscriptions) : s \in Streams
  BY <1>2, ChangeSubscribers DEF After
<1>7. RequestsKnown' /\ UpdatesOnce'
  BY <1>2 DEF GapInv, RequestsKnown, UpdatesOnce
<1>8. ChangesRecorded'
  BY <1>2, <1>3, Zenon DEF GapInv, ChangesRecorded, HasChanged
<1>9. SinceLogged'
  <2>1. Len(log) \in 1..Len(log)
    <3>1. log \in Seq(Elems(log)) /\ log # << >>
      BY DEF BrokerInv, Shape, IsSeq
    <3> QED
      BY <3>1
  <2> QED
    BY <1>2, <1>3, <1>4, <1>5, <2>1 DEF GapInv, SinceLogged
<1>10. ASSUME NEW w, NEW s, NEW k, w \in Writers, Underway(w, s, k) PROVE Underway(w, s, k)'
  BY <1>2, <1>3, <1>10, Zenon DEF Underway, HasChanged, Ahead
<1>11. ASSUME NEW s \in Elems(change_subscriptions'), Live(s)', NEW k \in Readable(s)'
       PROVE  Knows(s, k)' \/ MissedBefore(s, k)' \/ \E w \in Writers : Underway(w, s, k)'
  <2>1. CASE s # x
    <3>1. s \in Elems(change_subscriptions) /\ stream'[s] = stream[s]
      BY <1>3, <1>4, <1>5, <2>1
    <3>2. SameView(s)
      BY <1>2, <3>1, ViewKept, Zenon
    <3>3. Live(s) /\ k \in Readable(s)
      BY <1>11, <3>2 DEF SameView
    <3>4. Knows(s, k) \/ MissedBefore(s, k) \/ \E w \in Writers : Underway(w, s, k)
      BY <3>1, <3>3, Zenon DEF GapInv, Told
    <3> QED
      BY <1>2, <1>10, <3>1, <3>4, Zenon DEF Knows, MissedBefore
  <2>2. CASE s = x
    <3>1. k[1] \in DOMAIN entries /\ k[2] \in Field
      BY <1>2, <1>11 DEF Readable, get_entry_by_id
    <3>2. CASE dbLock.writer = {}
      <4>1. entries = log[Len(log)]
        BY <3>2 DEF BrokerInv, LastCommit
      <4> QED
        BY <1>2, <1>3, <2>2, <4>1, Zenon DEF MissedBefore
    <3>3. CASE dbLock.writer # {}
      <4>1. PICK w \in Writers : pc[w] = "update"
        BY <3>3 DEF BrokerInv, LocksHeld
      <4>2. \/ Value(entries[k[1]], k[2]) = Value(log[Len(log)][k[1]], k[2])
            \/ HasChanged(w, k[1], k[2])
        BY <3>1, <4>1, Zenon DEF GapInv, ChangesRecorded
      <4>3. CASE Value(entries[k[1]], k[2]) = Value(log[Len(log)][k[1]], k[2])
        BY <1>2, <1>3, <2>2, <4>3, Zenon DEF MissedBefore
      <4>4. CASE HasChanged(w, k[1], k[2])
        <5>1. Underway(w, s, k)
          BY <4>1, <4>4, Zenon DEF Underway, Ahead
        <5> QED
          BY <1>10, <5>1
      <4> QED
        BY <4>2, <4>3, <4>4
    <3> QED
      BY <3>2, <3>3
  <2> QED
    BY <2>1, <2>2
<1>12. Told'
  BY <1>11, Zenon DEF Told
<1> QED
  BY <1>7, <1>8, <1>9, <1>12 DEF GapInv

\* `add` leaves the entries alone that are there.
LEMMA AddKeepsEntries ==
    ASSUME DbInv, NEW perm, NEW path, NEW metadata, add(perm, path, metadata)
    PROVE  \A id \in DOMAIN entries : id \in DOMAIN entries' /\ entries'[id] = entries[id]
<1>1. CASE UNCHANGED dbVars
  BY <1>1 DEF dbVars
<1>2. CASE entries' = Insert(entries, next_id, NewEntry(next_id, path, metadata))
  <2>1. next_id \notin DOMAIN entries
    BY DEF DbInv, DbTypeOK, PathsAndIdsAgree
  <2> QED
    BY <1>2, <2>1, Zenon DEF Insert
<1> QED
  BY <1>1, <1>2, Zenon DEF add

\* Nobody writes or notifies when an entry is added.
LEMMA AddEntryGap ==
    ASSUME BrokerInv, TypeInv, GapInv, NEW r \in Registrars, AddEntry(r)
    PROVE  GapInv'
<1>1. /\ log' = Append(log, entries') /\ Goto(r, "done")
      /\ UNCHANGED << call, expired, request, stream, change_subscriptions >>
  BY Zenon DEF AddEntry, subsVars
<1>2. \A id \in DOMAIN entries : id \in DOMAIN entries' /\ entries'[id] = entries[id]
  BY AddKeepsEntries, Zenon DEF AddEntry, BrokerInv
<1>3. \A w \in Writers : ~Notifying(w) /\ pc[w] # "update"
  <2>1. dbLock.writer = {} /\ dbLock.readers = {}
    BY DEF AddEntry, Acquirable
  <2> QED
    BY <2>1 DEF BrokerInv, LocksHeld
<1>4. \A w \in Writers : pc'[w] = pc[w]
  BY <1>1, Disjoint DEF BrokerInv, Shape, Goto, Tasks, Clients
<1>5. /\ Len(log) \in Nat /\ Len(log') = Len(log) + 1
      /\ \A n \in 1..Len(log) : log'[n] = log[n]
  BY <1>1, AppendFacts DEF BrokerInv, Shape
<1>6. RequestsKnown'
  BY <1>1, <1>2 DEF GapInv, RequestsKnown
<1>7. UpdatesOnce'
  BY <1>1 DEF GapInv, UpdatesOnce
<1>8. ChangesRecorded'
  BY <1>3, <1>4, Zenon DEF ChangesRecorded
<1>9. SinceLogged'
  BY <1>1, <1>5 DEF GapInv, SinceLogged
<1>10. ASSUME NEW s \in Elems(change_subscriptions), Live(s)', NEW k \in Readable(s)'
       PROVE  Knows(s, k)' \/ MissedBefore(s, k)'
  <2>1. Permission(s)' = Permission(s)
    BY <1>1 DEF Permission
  <2>2. Live(s)
    BY <1>1, <1>10, <2>1 DEF Live
  <2>3. s \in Subscribers
    BY ChangeSubscribers
  <2>4. /\ k \in (DOMAIN request[s]) \X Field /\ k[2] \in request[s][k[1]]
        /\ get_entry_by_id(Permission(s), k[1])' = "Ok"
    BY <1>1, <1>10, Zenon DEF Readable
  <2>5. k[1] \in DOMAIN entries
    BY <2>3, <2>4 DEF GapInv, RequestsKnown
  <2>6. entries'[k[1]] = entries[k[1]] /\ k[1] \in DOMAIN entries'
    BY <1>2, <2>5
  <2>7. get_entry_by_id(Permission(s), k[1]) = "Ok"
    BY <2>1, <2>4, <2>5, <2>6, Zenon DEF get_entry_by_id
  <2>8. k \in Readable(s)
    BY <2>4, <2>7, Zenon DEF Readable
  <2>9. \A w \in Writers : ~Underway(w, s, k)
    BY <1>3 DEF Underway, Ahead, Notifying
  <2>10. Knows(s, k) \/ MissedBefore(s, k)
    BY <2>2, <2>8, <2>9, Zenon DEF GapInv, Told
  <2>11. log'[stream[s].since] = log[stream[s].since]
    BY <1>5 DEF GapInv, SinceLogged
  <2> QED
    BY <1>1, <2>6, <2>10, <2>11, Zenon DEF Knows, MissedBefore
<1>11. Told'
  BY <1>1, <1>10, Zenon DEF Told
<1> QED
  BY <1>6, <1>7, <1>8, <1>9, <1>11 DEF GapInv

------------------------------------------------------------------------------
(* update_entries *)

\* `apply` changes the fields it reports and no others.
LEMMA ApplyValues ==
    ASSUME NEW entry \in EntrySet, NEW u \in EntryUpdate, NEW field \in Field,
           field \notin changed_fields(u)
    PROVE  Value(apply(entry, u), field) = Value(entry, field)
<1>1. /\ apply(entry, u).datapoint = IF u.datapoint = None THEN entry.datapoint ELSE u.datapoint[1]
      /\ apply(entry, u).actuator_target = IF u.actuator_target = None THEN entry.actuator_target
                                           ELSE u.actuator_target[1]
  BY DEF apply, EntrySet
<1>2. /\ field = "Datapoint" => u.datapoint = None
      /\ field = "ActuatorTarget" => u.actuator_target = None
      /\ field = "Datapoint" \/ field = "ActuatorTarget"
  BY DEF changed_fields, Field
<1> QED
  BY <1>1, <1>2 DEF Value

\* So `update` changes the values of the fields it reports, of one entry.
LEMMA UpdateValues ==
    ASSUME DbInv, NEW perm, NEW id, NEW update \in EntryUpdate, update_entry(perm, id, update)
    PROVE  /\ DOMAIN entries' = DOMAIN entries
           /\ \A i \in DOMAIN entries : entries'[i].metadata.path = entries[i].metadata.path
           /\ \A i \in DOMAIN entries, field \in Field :
                 \/ Value(entries'[i], field) = Value(entries[i], field)
                 \/ i = id /\ field \in UpdateChanges(perm, id, update)
<1>1. CASE UpdateResult(perm, id, update) # "Ok"
  BY <1>1 DEF update_entry
<1>2. CASE UpdateResult(perm, id, update) = "Ok"
  <2> DEFINE u == diff(entries[id], update)
             e == apply(entries[id], u)
  <2>1. id \in DOMAIN entries /\ entries[id] \in EntrySet
    BY <1>2 DEF UpdateResult, DbInv, DbTypeOK
  <2>2. u \in EntryUpdate
    BY DiffType
  <2>3. UpdateChanges(perm, id, update) = changed_fields(u)
    BY <1>2 DEF UpdateChanges
  <2> HIDE DEF u
  <2>4. e.metadata.path = entries[id].metadata.path
    BY <2>1, <2>2, ApplyMetadata
  <2>5. \A field \in Field : Value(e, field) = Value(entries[id], field) \/ field \in changed_fields(u)
    BY <2>1, <2>2, ApplyValues
  <2>6. entries' = [entries EXCEPT ![id] = e]
    BY <1>2 DEF update_entry, u
  <2> HIDE DEF e
  <2>7. DOMAIN entries' = DOMAIN entries /\ \A i \in DOMAIN entries : entries'[i] = IF i = id THEN e ELSE entries[i]
    BY <2>1, <2>6
  <2> QED
    BY <2>3, <2>4, <2>5, <2>7, Zenon
<1> QED
  BY <1>1, <1>2

\* The other writers, and what they have underway.
LEMMA OthersUnderway ==
    ASSUME NEW w, NEW v \in Writers, v # w, call'[v] = call[v], pc'[v] = pc[v],
           NEW s, NEW k, UNCHANGED entries, Underway(v, s, k)
    PROVE  Underway(v, s, k)'
  BY Zenon DEF Underway, HasChanged, Ahead

\* A step of a writer that leaves entries, streams and requests alone, in parts.
LEMMA WriterGap ==
    ASSUME BrokerInv, TypeInv, GapInv, NEW w \in Writers,
           \A v \in Writers : v # w => call'[v] = call[v] /\ pc'[v] = pc[v],
           UNCHANGED << entries, log, expired, request, stream >>,
           Elems(change_subscriptions') \subseteq Elems(change_subscriptions),
           \A i, j \in DOMAIN call'[w].todo : call'[w].todo[i][1] = call'[w].todo[j][1] => i = j,
           \A i \in DOMAIN call'[w].todo : call'[w].todo[i][1] \notin DOMAIN call'[w].changed,
           pc'[w] = "update" => entries = log[Len(log)],
           \A s \in Elems(change_subscriptions) : \A k \in Readable(s) :
              Live(s) /\ Underway(w, s, k) => Underway(w, s, k)'
    PROVE  GapInv'
<1>1. RequestsKnown'
  BY Zenon DEF GapInv, RequestsKnown
<1>2. UpdatesOnce'
  BY DEF GapInv, UpdatesOnce
<1>3. ChangesRecorded'
  <2> SUFFICES ASSUME NEW v \in Writers, pc'[v] = "update", NEW id \in DOMAIN entries', NEW field \in Field
               PROVE  \/ Value(entries'[id], field) = Value(log'[Len(log')][id], field)
                      \/ HasChanged(v, id, field)'
    BY Zenon DEF ChangesRecorded
  <2>1. CASE v = w
    BY <2>1
  <2>2. CASE v # w
    <3>1. call'[v] = call[v] /\ pc[v] = "update"
      BY <2>2
    <3> QED
      BY <3>1, Zenon DEF GapInv, ChangesRecorded, HasChanged
  <2> QED
    BY <2>1, <2>2
<1>4. SinceLogged'
  BY Zenon DEF GapInv, SinceLogged
<1>5. Told'
  <2>1. ASSUME NEW v \in Writers, NEW s \in Elems(change_subscriptions'), NEW k \in Readable(s),
               Live(s), Underway(v, s, k)
        PROVE  Underway(v, s, k)'
    <3>1. CASE v = w
      BY <2>1, <3>1, Zenon
    <3>2. CASE v # w
      BY <2>1, <3>2, OthersUnderway
    <3> QED
      BY <3>1, <3>2, Zenon
  <2>2. \A s \in Elems(change_subscriptions') : s \in Elems(change_subscriptions) /\ SameView(s)
    BY SameViews
  <2> QED
    BY <2>1, <2>2, ToldKept, Zenon
<1> QED
  BY <1>1, <1>2, <1>3, <1>4, <1>5, Zenon DEF GapInv

\* The fields of a call that a step leaves alone.
LEMMA CallShape ==
    ASSUME BrokerInv, NEW w \in Writers
    PROVE  /\ DOMAIN call = Writers
           /\ DOMAIN call[w] = {"todo", "changed", "rejected", "commit", "recipients", "outbox", "failed"}
           /\ w \in Tasks /\ DOMAIN pc = Tasks
  BY Zenon DEF BrokerInv, Shape, Tasks, Clients

\* A call begins with a batch that names no entry twice, and with no changes.
LEMMA UpdateEntriesGap ==
    ASSUME CompleteUpdates, BrokerInv, TypeInv, GapInv, NEW w \in Writers, UpdateEntries(w)
    PROVE  GapInv'
<1>1. PICK batch \in BatchInputs : call' = [call EXCEPT ![w] = [NoCall EXCEPT !.todo = batch]]
  BY Zenon DEF UpdateEntries
<1>2. call'[w].todo = batch /\ DOMAIN call'[w].changed = {}
  BY <1>1, CallShape DEF NoCall, EmptyMap
<1>3. \A v \in Writers : v # w => call'[v] = call[v] /\ pc'[v] = pc[v]
  BY WriterMoves, Zenon DEF BrokerInv
<1>4. pc[w] = "idle" /\ pc'[w] = "db_write"
  BY CallShape DEF UpdateEntries, Goto
<1>5. UNCHANGED << entries, log, expired, request, stream, change_subscriptions >>
  BY Zenon DEF UpdateEntries, dbVars, subsVars
<1>6. \A s, k : ~Underway(w, s, k)
  BY <1>4, Zenon DEF Underway, Ahead
<1> QED
  BY <1>2, <1>3, <1>4, <1>5, <1>6, WriterGap DEF CompleteUpdates

\* Steps in which a writer waits, takes the lock or cleans up.
LEMMA WaitingWriterGap ==
    ASSUME BrokerInv, TypeInv, GapInv, NEW w \in Writers,
           BeginUpdate(w) \/ RequestSubsRead(w) \/ RequestCleanup(w) \/ Cleanup(w)
    PROVE  GapInv'
<1>1. \A v \in Writers : v # w => call'[v] = call[v] /\ pc'[v] = pc[v]
  BY WriterMoves, Zenon DEF BrokerInv, WriterStep
<1>2. UNCHANGED << entries, log, expired, request, stream, call >>
  BY Zenon DEF BeginUpdate, RequestSubsRead, RequestCleanup, Cleanup, dbVars
<1>3. Elems(change_subscriptions') \subseteq Elems(change_subscriptions)
  <2>1. \/ change_subscriptions' = change_subscriptions
        \/ change_subscriptions' = Retained(change_subscriptions)
    BY Zenon DEF BeginUpdate, RequestSubsRead, RequestCleanup, Cleanup, subsVars
  <2> QED
    BY <2>1, ChangeSubscribers, RetainedElems
<1>4. \/ pc[w] = "db_write" /\ pc'[w] = "update" /\ dbLock.writer = {}
      \/ pc[w] = "downgraded" /\ pc'[w] = "subs_read"
      \/ pc[w] = "cleanup_wanted" /\ pc'[w] = "cleanup"
      \/ pc[w] = "cleanup" /\ pc'[w] = "idle"
  <2>1. \/ pc[w] = "db_write" /\ Goto(w, "update") /\ dbLock.writer = {}
        \/ pc[w] = "downgraded" /\ Goto(w, "subs_read")
        \/ pc[w] = "cleanup_wanted" /\ Goto(w, "cleanup")
        \/ pc[w] = "cleanup" /\ Goto(w, "idle")
    BY Disjoint, Zenon DEF BeginUpdate, RequestSubsRead, RequestCleanup, Cleanup, Acquirable, Clients
  <2> QED
    BY <2>1, CallShape DEF Goto
<1>5. pc'[w] = "update" => entries = log[Len(log)]
  BY <1>4 DEF BrokerInv, LastCommit
<1>6. ASSUME NEW s, NEW k, Underway(w, s, k) PROVE Underway(w, s, k)'
  BY <1>2, <1>4, <1>6, ZenonT(30) DEF Underway, HasChanged, Ahead
<1>7. /\ \A i, j \in DOMAIN call'[w].todo : call'[w].todo[i][1] = call'[w].todo[j][1] => i = j
      /\ \A i \in DOMAIN call'[w].todo : call'[w].todo[i][1] \notin DOMAIN call'[w].changed
  BY <1>2, Zenon DEF GapInv, UpdatesOnce
<1> QED
  BY <1>1, <1>2, <1>3, <1>5, <1>6, <1>7, WriterGap, Zenon

\* The recipients are all that are registered.
LEMMA BeginNotifyGap ==
    ASSUME BrokerInv, TypeInv, GapInv, NEW w \in Writers, BeginNotify(w)
    PROVE  GapInv'
<1>1. \A v \in Writers : v # w => call'[v] = call[v] /\ pc'[v] = pc[v]
  BY WriterMoves, Zenon DEF BrokerInv, WriterStep
<1>2. UNCHANGED << entries, log, expired, request, stream, change_subscriptions >>
  BY Zenon DEF BeginNotify, dbVars, subsVars
<1>3. /\ call'[w].todo = call[w].todo /\ call'[w].changed = call[w].changed
      /\ call'[w].recipients = query_subscriptions \o change_subscriptions
  BY CallShape DEF BeginNotify
<1>4. pc[w] = "subs_read" /\ pc'[w] = "notify"
  BY CallShape DEF BeginNotify, Goto
<1>5. Elems(change_subscriptions) \subseteq Elems(call'[w].recipients)
  BY <1>3, ChangeSubscribers, ConcatElems, Zenon
<1>6. ASSUME NEW s \in Elems(change_subscriptions), NEW k, Underway(w, s, k)
      PROVE  Underway(w, s, k)'
  <2>1. HasChanged(w, k[1], k[2])
    BY <1>4, <1>6 DEF Underway
  <2>2. HasChanged(w, k[1], k[2])'
    BY <1>3, <2>1 DEF HasChanged
  <2>3. Ahead(w, s)'
    BY <1>4, <1>5, Zenon DEF Ahead
  <2> QED
    BY <2>2, <2>3 DEF Underway
<1>7. /\ \A i, j \in DOMAIN call'[w].todo : call'[w].todo[i][1] = call'[w].todo[j][1] => i = j
      /\ \A i \in DOMAIN call'[w].todo : call'[w].todo[i][1] \notin DOMAIN call'[w].changed
  BY <1>3 DEF GapInv, UpdatesOnce
<1> QED
  BY <1>1, <1>2, <1>4, <1>6, <1>7, WriterGap, ZenonT(30)

\* A message about a change says what the field is now.
LEMMA ChangeMessageHas ==
    ASSUME NEW s, NEW changed, NEW c, NEW k \in Readable(s),
           k[1] \in DOMAIN changed, k[2] \in changed[k[1]]
    PROVE  LET message == ChangeMessage(s, changed, c)
           IN  /\ message # None
               /\ k \in DOMAIN message[1].body
               /\ message[1].body[k] = Value(entries[k[1]], k[2])
<1> DEFINE keys == {x \in ((DOMAIN request[s]) \cap (DOMAIN changed)) \X Field :
                       /\ x[2] \in request[s][x[1]] \cap changed[x[1]]
                       /\ get_entry_by_id(Permission(s), x[1]) = "Ok"}
           body == [x \in keys |-> Value(entries[x[1]], x[2])]
<1>1. /\ k \in (DOMAIN request[s]) \X Field /\ k[2] \in request[s][k[1]]
      /\ get_entry_by_id(Permission(s), k[1]) = "Ok"
  BY DEF Readable
<1>2. k \in keys
  BY <1>1
<1>3. ChangeMessage(s, changed, c) = Some(Message(c, body))
  BY <1>2, ZenonT(30) DEF ChangeMessage
<1>4. DOMAIN body = keys /\ body[k] = Value(entries[k[1]], k[2])
  BY <1>2, Zenon
<1> HIDE DEF body, keys
<1> QED
  BY <1>2, <1>3, <1>4 DEF Some, Message, None

\* What is composed for a subscription has the changes it may see.
LEMMA ComposeGap ==
    ASSUME BrokerInv, TypeInv, GapInv, NEW w \in Writers, Compose(w)
    PROVE  GapInv'
<1> DEFINE x == Head(call[w].recipients)
           message == MessageFor(x, call[w].changed, call[w].commit)
<1>1. \A v \in Writers : v # w => call'[v] = call[v] /\ pc'[v] = pc[v]
  BY WriterMoves, Zenon DEF BrokerInv, WriterStep
<1>2. UNCHANGED << entries, log, expired, request, stream, change_subscriptions >>
  BY Zenon DEF Compose, dbVars, subsVars
<1>3. pc[w] = "notify" /\ call[w].recipients # << >>
  BY Zenon DEF Compose
<1>4. \/ message = None /\ call' = [call EXCEPT ![w].recipients = Tail(@)] /\ UNCHANGED pc
      \/ message # None /\ call' = [call EXCEPT ![w].outbox = message] /\ Goto(w, "send")
  BY Zenon DEF Compose
<1>5. ASSUME NEW s \in Elems(change_subscriptions), s = x, NEW k \in Readable(s),
             HasChanged(w, k[1], k[2])
      PROVE  /\ message # None
             /\ k \in DOMAIN message[1].body
             /\ message[1].body[k] = Value(entries[k[1]], k[2])
  <2>1. s \notin Queriers
    BY ChangeSubscribers, Disjoint
  <2>2. message = ChangeMessage(s, call[w].changed, call[w].commit)
    BY <1>5, <2>1, Zenon DEF MessageFor
  <2>3. PICK changed, c : changed = call[w].changed /\ c = call[w].commit
    BY Zenon
  <2>4. k[1] \in DOMAIN changed /\ k[2] \in changed[k[1]]
    BY <1>5, <2>3, ZenonT(30) DEF HasChanged
  <2>5. /\ ChangeMessage(s, changed, c) # None
        /\ k \in DOMAIN ChangeMessage(s, changed, c)[1].body
        /\ ChangeMessage(s, changed, c)[1].body[k] = Value(entries[k[1]], k[2])
    BY <2>4, ChangeMessageHas
  <2> HIDE DEF message
  <2> QED
    BY <2>2, <2>3, <2>5, Zenon
<1>6. Elems(call[w].recipients) = {x} \cup Elems(Tail(call[w].recipients))
  <2>1. IsSeq(call[w].recipients)
    BY SeqIsSeq, Zenon DEF TypeInv, Lists
  <2> QED
    BY <1>3, <2>1, ElemsFacts
<1> HIDE DEF message, x
<1>7. /\ call'[w].todo = call[w].todo /\ call'[w].changed = call[w].changed
      /\ \/ message = None /\ pc'[w] = "notify" /\ call'[w].recipients = Tail(call[w].recipients)
         \/ /\ message # None /\ pc'[w] = "send"
            /\ call'[w].recipients = call[w].recipients /\ call'[w].outbox = message
  <2>1. CASE message = None /\ call' = [call EXCEPT ![w].recipients = Tail(@)] /\ UNCHANGED pc
    BY <1>3, <2>1, CallShape, Zenon
  <2>2. CASE message # None /\ call' = [call EXCEPT ![w].outbox = message] /\ Goto(w, "send")
    BY <2>2, CallShape, Zenon DEF Goto
  <2> QED
    BY <1>4, <2>1, <2>2
<1>8. ASSUME NEW s \in Elems(change_subscriptions), NEW k \in Readable(s), Underway(w, s, k)
      PROVE  Underway(w, s, k)'
  <2>1. HasChanged(w, k[1], k[2]) /\ s \in Elems(call[w].recipients)
    BY <1>3, <1>8, Zenon DEF Underway, Ahead
  <2>2. HasChanged(w, k[1], k[2])'
    BY <1>7, <2>1 DEF HasChanged
  <2>3. CASE s = x
    <3>1. /\ message # None
          /\ k \in DOMAIN message[1].body
          /\ message[1].body[k] = Value(entries[k[1]], k[2])
      BY <1>5, <2>1, <2>3, Zenon
    <3>2. /\ pc'[w] = "send" /\ Head(call'[w].recipients) = s
          /\ call'[w].outbox = message /\ entries' = entries
      BY <1>2, <1>7, <2>3, <3>1 DEF x
    <3> QED
      BY <3>1, <3>2, ZenonT(30) DEF Underway
  <2>4. CASE s # x
    <3>1. s \in Elems(Tail(call[w].recipients))
      BY <1>6, <2>1, <2>4
    <3>2. Ahead(w, s)'
      BY <1>7, <3>1, ZenonT(30) DEF Ahead
    <3> QED
      BY <2>2, <3>2, Zenon DEF Underway
  <2> QED
    BY <2>3, <2>4, Zenon
<1>9. /\ \A i, j \in DOMAIN call'[w].todo : call'[w].todo[i][1] = call'[w].todo[j][1] => i = j
      /\ \A i \in DOMAIN call'[w].todo : call'[w].todo[i][1] \notin DOMAIN call'[w].changed
  BY <1>7 DEF GapInv, UpdatesOnce
<1>10. pc'[w] # "update"
  BY <1>7, Zenon
<1> QED
  BY <1>1, <1>2, <1>8, <1>9, <1>10, WriterGap, Zenon

\* A call that is over has come to every subscription.
LEMMA EndNotifyGap ==
    ASSUME BrokerInv, TypeInv, GapInv, NEW w \in Writers, EndNotify(w)
    PROVE  GapInv'
<1>1. \A v \in Writers : v # w => call'[v] = call[v] /\ pc'[v] = pc[v]
  BY WriterMoves, Zenon DEF BrokerInv, WriterStep
<1>2. UNCHANGED << entries, log, expired, request, stream, change_subscriptions >>
  BY Zenon DEF EndNotify, dbVars, subsVars
<1>3. pc[w] = "notify" /\ call[w].recipients = << >> /\ pc'[w] # "update"
  BY CallShape, Zenon DEF EndNotify, Goto
<1>4. call'[w].todo = << >>
  BY CallShape, Zenon DEF EndNotify, NoCall
<1>5. \A s, k : ~Underway(w, s, k)
  <2>1. Elems(<< >>) = {}
    BY DEF Elems
  <2> QED
    BY <1>3, <2>1 DEF Underway, Ahead
<1>6. DOMAIN call'[w].todo = {}
  BY <1>4
<1> QED
  BY <1>1, <1>2, <1>3, <1>5, <1>6, WriterGap, Zenon

\* Nobody else writes or notifies while w updates.
LEMMA AloneInUpdate ==
    ASSUME BrokerInv, NEW w \in Writers, pc[w] = "update", NEW v \in Writers, v # w
    PROVE  /\ ~Notifying(v) /\ pc[v] # "update"
           /\ \A s, k : ~Underway(v, s, k)
<1>1. ~Notifying(v) /\ pc[v] # "update"
  BY DEF BrokerInv, LocksHeld
<1> QED
  BY <1>1 DEF Notifying, Underway, Ahead

\* A commit is appended to the log; what changed is to be told.
LEMMA DowngradeLockGap ==
    ASSUME BrokerInv, TypeInv, GapInv, NEW w \in Writers, DowngradeLock(w)
    PROVE  GapInv'
<1>1. \A v \in Writers : v # w => call'[v] = call[v] /\ pc'[v] = pc[v]
  BY WriterMoves, Zenon DEF BrokerInv, WriterStep
<1>2. /\ UNCHANGED << entries, expired, request, stream, change_subscriptions >>
      /\ log' = Append(log, entries)
  BY Zenon DEF DowngradeLock, dbVars, subsVars
<1>3. call'[w].todo = call[w].todo /\ call'[w].changed = call[w].changed
  BY CallShape DEF DowngradeLock
<1>4. pc[w] = "update" /\ pc'[w] = "downgraded"
  BY CallShape DEF DowngradeLock, Goto
<1>5. /\ Len(log) \in Nat /\ Len(log') = Len(log) + 1
      /\ \A n \in 1..Len(log) : log'[n] = log[n]
  BY <1>2, AppendFacts DEF BrokerInv, Shape
<1>6. RequestsKnown'
  BY <1>2, Zenon DEF GapInv, RequestsKnown
<1>7. UpdatesOnce'
  BY <1>1, <1>3 DEF GapInv, UpdatesOnce
<1>8. ChangesRecorded'
  BY <1>1, <1>4, AloneInUpdate, Zenon DEF ChangesRecorded
<1>9. SinceLogged'
  BY <1>2, <1>5 DEF GapInv, SinceLogged
<1>10. Told'
  <2>1. ASSUME NEW v \in Writers, NEW s, NEW k, Underway(v, s, k)
        PROVE  Underway(v, s, k)'
    <3>1. v = w
      BY <1>4, <2>1, AloneInUpdate, Zenon
    <3>2. HasChanged(w, k[1], k[2])
      BY <1>4, <2>1, <3>1, Zenon DEF Underway
    <3>3. HasChanged(w, k[1], k[2])' /\ Ahead(w, s)'
      BY <1>3, <1>4, <3>2 DEF HasChanged, Ahead
    <3> QED
      BY <3>1, <3>3 DEF Underway
  <2>2. ASSUME NEW s \in Elems(change_subscriptions')
        PROVE  s \in Elems(change_subscriptions) /\ SameView(s)
    BY <1>2, SameViews
  <2> QED
    BY <1>2, <1>5, <2>1, <2>2, ToldKept, Zenon
<1> QED
  BY <1>6, <1>7, <1>8, <1>9, <1>10 DEF GapInv

\* A list of pairs, its first pair and the others.
LEMMA FirstPair ==
    ASSUME NEW S, NEW T, NEW x \in Seq(S \X T), x # << >>
    PROVE  /\ Head(x) = x[1] /\ 1 \in DOMAIN x /\ Head(x)[2] \in T
           /\ \A i \in DOMAIN Tail(x) :
                 i \in Nat /\ i + 1 # 1 /\ i + 1 \in DOMAIN x /\ Tail(x)[i] = x[i + 1]
<1>1. Head(x) = x[1] /\ 1 \in DOMAIN x /\ x[1] \in S \X T
  OBVIOUS
<1>2. \A i \in DOMAIN Tail(x) :
         i \in Nat /\ i + 1 # 1 /\ i + 1 \in DOMAIN x /\ Tail(x)[i] = x[i + 1]
  OBVIOUS
<1> QED
  BY <1>1, <1>2

\* What w has taken down stays, and what this round changes is added.
LEMMA UpdateNextChanges ==
    ASSUME BrokerInv, TypeInv, GapInv, NEW w \in Writers, UpdateNext(w)
    PROVE  /\ \A id, field : HasChanged(w, id, field) => HasChanged(w, id, field)'
           /\ DOMAIN entries' = DOMAIN entries
           /\ \A id \in DOMAIN entries : entries'[id].metadata.path = entries[id].metadata.path
           /\ \A id \in DOMAIN entries, field \in Field :
                 \/ Value(entries'[id], field) = Value(entries[id], field)
                 \/ HasChanged(w, id, field)'
           /\ \A i, j \in DOMAIN call'[w].todo : call'[w].todo[i][1] = call'[w].todo[j][1] => i = j
           /\ \A i \in DOMAIN call'[w].todo : call'[w].todo[i][1] \notin DOMAIN call'[w].changed
<1> DEFINE id == Head(call[w].todo)[1]
           update == Head(call[w].todo)[2]
           fields == UpdateChanges(Permission(w), id, update)
           todo == call[w].todo
           changed == call[w].changed
<1>1. /\ todo # << >> /\ update_entry(Permission(w), id, update)
      /\ call' = [call EXCEPT
                  ![w].todo = Tail(@),
                  ![w].changed = IF fields = {} THEN @ ELSE Insert(@, id, fields),
                  ![w].rejected = @ \/ UpdateResult(Permission(w), id, update) # "Ok"]
  BY ZenonT(30) DEF UpdateNext
<1>2. todo \in Seq(Nat \X EntryUpdate)
  BY Zenon DEF BrokerInv, Shape
<1>3. id = todo[1][1] /\ 1 \in DOMAIN todo /\ update \in EntryUpdate
  <2>1. todo # << >>
    BY <1>1, Zenon
  <2> HIDE DEF todo
  <2>2. Head(todo) = todo[1] /\ 1 \in DOMAIN todo /\ Head(todo)[2] \in EntryUpdate
    BY <1>2, <2>1, FirstPair
  <2> QED
    BY <2>2 DEF todo
<1>4. \A i \in DOMAIN Tail(todo) :
         i \in Nat /\ i + 1 # 1 /\ i + 1 \in DOMAIN todo /\ Tail(todo)[i] = todo[i + 1]
  <2>1. todo # << >>
    BY <1>1, Zenon
  <2> HIDE DEF todo
  <2> QED
    BY <1>2, <2>1, FirstPair
<1>5. id \notin DOMAIN changed
  BY <1>3 DEF GapInv, UpdatesOnce
<1>6. /\ DOMAIN entries' = DOMAIN entries
      /\ \A i \in DOMAIN entries : entries'[i].metadata.path = entries[i].metadata.path
      /\ \A i \in DOMAIN entries, field \in Field :
            \/ Value(entries'[i], field) = Value(entries[i], field)
            \/ i = id /\ field \in fields
  BY <1>1, <1>3, UpdateValues, Zenon DEF BrokerInv
<1> HIDE DEF fields, id, update
<1>7. /\ call'[w].todo = Tail(todo)
      /\ call'[w].changed = IF fields = {} THEN changed ELSE Insert(changed, id, fields)
  BY <1>1, CallShape, ZenonT(30)
<1>8. /\ \A i \in DOMAIN changed : i \in DOMAIN call'[w].changed /\ call'[w].changed[i] = changed[i]
      /\ fields # {} => id \in DOMAIN call'[w].changed /\ call'[w].changed[id] = fields
      /\ \A i \in DOMAIN call'[w].changed : i \in DOMAIN changed \/ i = id
  <2>1. CASE fields = {}
    BY <1>7, <2>1
  <2>2. CASE fields # {}
    <3>1. call'[w].changed = Insert(changed, id, fields)
      BY <1>7, <2>2, Zenon
    <3> QED
      BY <1>5, <3>1, Zenon DEF Insert
  <2> QED
    BY <2>1, <2>2, Zenon
<1>9. ASSUME NEW i, NEW field, HasChanged(w, i, field) PROVE HasChanged(w, i, field)'
  BY <1>8, <1>9, Zenon DEF HasChanged
<1>10. ASSUME NEW i \in DOMAIN entries, NEW field \in Field
       PROVE  Value(entries'[i], field) = Value(entries[i], field) \/ HasChanged(w, i, field)'
  BY <1>6, <1>8, Zenon DEF HasChanged
<1>11. ASSUME NEW i \in DOMAIN call'[w].todo, NEW j \in DOMAIN call'[w].todo,
              call'[w].todo[i][1] = call'[w].todo[j][1]
       PROVE  i = j
  <2>1. /\ i \in Nat /\ i + 1 \in DOMAIN todo /\ call'[w].todo[i] = todo[i + 1]
        /\ j \in Nat /\ j + 1 \in DOMAIN todo /\ call'[w].todo[j] = todo[j + 1]
    BY <1>4, <1>7, Zenon
  <2>2. i + 1 = j + 1
    BY <1>11, <2>1, Zenon DEF GapInv, UpdatesOnce
  <2> QED
    BY <2>1, <2>2
<1>12. ASSUME NEW i \in DOMAIN call'[w].todo
       PROVE  call'[w].todo[i][1] \notin DOMAIN call'[w].changed
  <2>1. i \in Nat /\ i + 1 \in DOMAIN todo /\ call'[w].todo[i] = todo[i + 1]
    BY <1>4, <1>7, Zenon
  <2>2. todo[i + 1][1] \notin DOMAIN changed
    BY <2>1, Zenon DEF GapInv, UpdatesOnce
  <2>3. i + 1 # 1
    BY <1>4, <1>7, Zenon
  <2>4. todo[i + 1][1] # id
    BY <1>3, <2>1, <2>3, Zenon DEF GapInv, UpdatesOnce
  <2> QED
    BY <1>8, <2>1, <2>2, <2>4, Zenon
<1> QED
  BY <1>6, <1>9, <1>10, <1>11, <1>12, ZenonT(30)

\* What a writer makes different it has in its list.
LEMMA UpdateNextGap ==
    ASSUME BrokerInv, TypeInv, GapInv, NEW w \in Writers, UpdateNext(w)
    PROVE  GapInv'
<1>1. \A v \in Writers : v # w => call'[v] = call[v] /\ pc'[v] = pc[v]
  BY WriterMoves, Zenon DEF BrokerInv, WriterStep
<1>2. UNCHANGED << pc, log, expired, request, stream, change_subscriptions >>
  BY Zenon DEF UpdateNext, subsVars
<1>3. pc[w] = "update"
  BY ZenonT(30) DEF UpdateNext
<1>4. RequestsKnown'
  BY <1>2, UpdateNextChanges, Zenon DEF GapInv, RequestsKnown
<1>5. UpdatesOnce'
  <2>1. ASSUME NEW v \in Writers, v # w
        PROVE  /\ \A i, j \in DOMAIN call'[v].todo : call'[v].todo[i][1] = call'[v].todo[j][1] => i = j
               /\ \A i \in DOMAIN call'[v].todo : call'[v].todo[i][1] \notin DOMAIN call'[v].changed
    BY <1>1, <2>1 DEF GapInv, UpdatesOnce
  <2> QED
    BY <2>1, UpdateNextChanges, ZenonT(30) DEF UpdatesOnce
<1>6. ChangesRecorded'
  <2> SUFFICES ASSUME NEW v \in Writers, pc'[v] = "update", NEW id \in DOMAIN entries', NEW field \in Field
               PROVE  \/ Value(entries'[id], field) = Value(log'[Len(log')][id], field)
                      \/ HasChanged(v, id, field)'
    BY Zenon DEF ChangesRecorded
  <2>1. v = w
    BY <1>2, <1>3, AloneInUpdate, Zenon
  <2>2. id \in DOMAIN entries
    BY UpdateNextChanges, Zenon
  <2>3. \/ Value(entries[id], field) = Value(log[Len(log)][id], field)
        \/ HasChanged(w, id, field)
    BY <1>3, <2>2, ZenonT(30) DEF GapInv, ChangesRecorded
  <2>4. \/ Value(entries'[id], field) = Value(entries[id], field)
        \/ HasChanged(w, id, field)'
    BY <2>2, UpdateNextChanges, Zenon
  <2>5. HasChanged(w, id, field) => HasChanged(w, id, field)'
    BY UpdateNextChanges
  <2> QED
    BY <1>2, <2>1, <2>3, <2>4, <2>5, Zenon
<1>7. SinceLogged'
  BY <1>2, Zenon DEF GapInv, SinceLogged
<1>8. Told'
  <2> SUFFICES ASSUME NEW s \in Elems(change_subscriptions'), Live(s)', NEW k \in Readable(s)'
               PROVE  Knows(s, k)' \/ MissedBefore(s, k)' \/ \E v \in Writers : Underway(v, s, k)'
    BY Zenon DEF Told
  <2>1. s \in Elems(change_subscriptions) /\ s \in Subscribers
    BY <1>2, ChangeSubscribers
  <2>2. Permission(s)' = Permission(s)
    BY <1>2 DEF Permission
  <2>3. Live(s)
    BY <1>2, <2>2, Zenon DEF Live
  <2>4. k \in (DOMAIN request[s]) \X Field /\ k[1] \in DOMAIN entries /\ k[2] \in Field
    BY <1>2, <2>1, Zenon DEF Readable, GapInv, RequestsKnown
  <2>5. get_entry_by_id(Permission(s), k[1])' = get_entry_by_id(Permission(s), k[1])
    BY <2>2, <2>4, UpdateNextChanges, ZenonT(30) DEF get_entry_by_id
  <2>6. k \in Readable(s)
    BY <1>2, <2>4, <2>5 DEF Readable
  <2>7. Knows(s, k) \/ MissedBefore(s, k) \/ \E v \in Writers : Underway(v, s, k)
    BY <2>1, <2>3, <2>6, ZenonT(30) DEF GapInv, Told
  <2>8. ASSUME HasChanged(w, k[1], k[2])' PROVE Underway(w, s, k)'
    BY <1>2, <1>3, <2>8 DEF Underway, Ahead
  <2>9. CASE Value(entries'[k[1]], k[2]) = Value(entries[k[1]], k[2])
    <3>1. Knows(s, k) => Knows(s, k)'
      BY <1>2, <2>9, Zenon DEF Knows
    <3>2. MissedBefore(s, k) => MissedBefore(s, k)'
      BY <1>2, <2>9, ZenonT(30) DEF MissedBefore
    <3>3. ASSUME NEW v \in Writers, Underway(v, s, k) PROVE Underway(w, s, k)'
      <4>1. v = w
        BY <1>3, <3>3, AloneInUpdate, Zenon
      <4>2. HasChanged(w, k[1], k[2])
        BY <1>3, <3>3, <4>1, ZenonT(30) DEF Underway
      <4> QED
        BY <2>8, <4>2, UpdateNextChanges, ZenonT(30)
    <3> QED
      BY <2>7, <3>1, <3>2, <3>3, Zenon
  <2>10. CASE Value(entries'[k[1]], k[2]) # Value(entries[k[1]], k[2])
    <3>1. HasChanged(w, k[1], k[2])'
      BY <2>4, <2>10, UpdateNextChanges, ZenonT(30)
    <3> QED
      BY <2>8, <3>1, Zenon
  <2> QED
    BY <2>9, <2>10
<1> QED
  BY <1>4, <1>5, <1>6, <1>7, <1>8 DEF GapInv

\* What a step of `send` does: only the stream of the first recipient, if that.
LEMMA SendMoves ==
    ASSUME BrokerInv, TypeInv, NEW w \in Writers, Send(w)
    PROVE  LET x == Head(call[w].recipients)
           IN  /\ pc[w] = "send" /\ pc'[w] = "notify"
               /\ call'[w].todo = call[w].todo /\ call'[w].changed = call[w].changed
               /\ call'[w].recipients = Tail(call[w].recipients)
               /\ UNCHANGED << entries, log, expired, request, subsVars >>
               /\ \A s \in Streams : s # x => stream'[s] = stream[s]
               /\ x \in Streams /\ ~stream[x].closed =>
                     /\ stream'[x].known = Merge(stream[x].known, call[w].outbox[1].body)
                     /\ stream'[x].since = stream[x].since /\ ~stream'[x].closed
               /\ x \in Streams /\ stream[x].closed => stream'[x] = stream[x]
<1> DEFINE x == Head(call[w].recipients)
<1>1. pc[w] = "send" /\ Goto(w, "notify") /\ UNCHANGED << dbVars, subsVars, log, expired, request >>
  BY Zenon DEF Send
<1>2. \/ /\ stream[x].closed
         /\ call' = [call EXCEPT ![w].recipients = Tail(@), ![w].outbox = None, ![w].failed = TRUE]
         /\ UNCHANGED stream
      \/ /\ ~stream[x].closed
         /\ Deliver(x, call[w].outbox[1])
         /\ call' = [call EXCEPT ![w].recipients = Tail(@), ![w].outbox = None]
  BY Zenon DEF Send
<1>3. /\ pc'[w] = "notify" /\ entries' = entries
  BY <1>1, CallShape, Zenon DEF Goto, dbVars
<1>4. DOMAIN stream = Streams /\ \A s \in Streams : DOMAIN stream[s] = {"chan", "closed", "known", "since"}
  BY Zenon DEF BrokerInv, Shape
<1> HIDE DEF x
<1>5. /\ call'[w].todo = call[w].todo /\ call'[w].changed = call[w].changed
      /\ call'[w].recipients = Tail(call[w].recipients)
  <2>1. CASE call' = [call EXCEPT ![w].recipients = Tail(@), ![w].outbox = None, ![w].failed = TRUE]
    BY <2>1, CallShape, Zenon
  <2>2. CASE call' = [call EXCEPT ![w].recipients = Tail(@), ![w].outbox = None]
    BY <2>2, CallShape, Zenon
  <2> QED
    BY <1>2, <2>1, <2>2, Zenon
<1>6. /\ \A s \in Streams : s # x => stream'[s] = stream[s]
      /\ x \in Streams /\ ~stream[x].closed =>
            /\ stream'[x].known = Merge(stream[x].known, call[w].outbox[1].body)
            /\ stream'[x].since = stream[x].since /\ ~stream'[x].closed
      /\ x \in Streams /\ stream[x].closed => stream'[x] = stream[x]
  <2>1. CASE stream[x].closed /\ UNCHANGED stream
    BY <2>1
  <2>2. CASE ~stream[x].closed /\ Deliver(x, call[w].outbox[1])
    BY <1>4, <2>2, Zenon DEF Deliver
  <2> QED
    BY <1>2, <2>1, <2>2, Zenon
<1> QED
  BY <1>1, <1>3, <1>5, <1>6, Zenon DEF x

\* What is delivered is current; what is not in the message stays as it was.
LEMMA SendGap ==
    ASSUME BrokerInv, TypeInv, GapInv, NEW w \in Writers, Send(w)
    PROVE  GapInv'
<1> DEFINE x == Head(call[w].recipients)
           m == call[w].outbox[1]
<1>1. \A v \in Writers : v # w => call'[v] = call[v] /\ pc'[v] = pc[v]
  BY WriterMoves, Zenon DEF BrokerInv, WriterStep
<1>2. /\ pc[w] = "send" /\ pc'[w] = "notify"
      /\ call'[w].todo = call[w].todo /\ call'[w].changed = call[w].changed
      /\ call'[w].recipients = Tail(call[w].recipients)
      /\ UNCHANGED << entries, log, expired, request, change_subscriptions >>
      /\ \A s \in Streams : s # x => stream'[s] = stream[s]
      /\ x \in Streams /\ ~stream[x].closed =>
            /\ stream'[x].known = Merge(stream[x].known, m.body)
            /\ stream'[x].since = stream[x].since /\ ~stream'[x].closed
      /\ x \in Streams /\ stream[x].closed => stream'[x] = stream[x]
  BY SendMoves, ZenonT(30) DEF subsVars
<1>3. m.commit = Len(log) /\ Faithful(log, x, m) /\ entries = log[Len(log)]
  <2>1. dbLock.writer = {}
    BY <1>2, Zenon DEF BrokerInv, LocksHeld, Notifying
  <2> QED
    BY <1>2, <2>1, ZenonT(30) DEF BrokerInv, LastCommit, OutboxLogged
<1> HIDE DEF x, m
<1>4. RequestsKnown'
  BY <1>2, Zenon DEF GapInv, RequestsKnown
<1>5. UpdatesOnce'
  BY <1>1, <1>2 DEF GapInv, UpdatesOnce
<1>6. ChangesRecorded'
  <2> SUFFICES ASSUME NEW v \in Writers, pc'[v] = "update", NEW id \in DOMAIN entries', NEW field \in Field
               PROVE  \/ Value(entries'[id], field) = Value(log'[Len(log')][id], field)
                      \/ HasChanged(v, id, field)'
    BY Zenon DEF ChangesRecorded
  <2> QED
    BY <1>2, <1>3, ZenonT(30)
<1>7. ASSUME NEW s \in Elems(change_subscriptions) PROVE stream'[s].since = stream[s].since
  BY <1>2, ChangeSubscribers, Zenon
<1>8. SinceLogged'
  BY <1>2, <1>7 DEF GapInv, SinceLogged
<1>9. Told'
  <2> SUFFICES ASSUME NEW s \in Elems(change_subscriptions'), Live(s)', NEW k \in Readable(s)'
               PROVE  Knows(s, k)' \/ MissedBefore(s, k)' \/ \E v \in Writers : Underway(v, s, k)'
    BY Zenon DEF Told
  <2>1. s \in Elems(change_subscriptions) /\ s \in Streams /\ s \notin Queriers
    BY <1>2, ChangeSubscribers, Disjoint, Zenon
  <2>2. Permission(s)' = Permission(s)
    BY <1>2, Zenon DEF Permission
  <2>3. Live(s)
    BY <1>2, <2>1, <2>2 DEF Live
  <2>4. k \in Readable(s)
    BY <1>2, <2>2, Zenon DEF Readable, get_entry_by_id
  <2>5. Knows(s, k) \/ MissedBefore(s, k) \/ \E v \in Writers : Underway(v, s, k)
    BY <2>1, <2>3, <2>4, Zenon DEF GapInv, Told
  <2>6. MissedBefore(s, k) => MissedBefore(s, k)'
    BY <1>2, <1>7, <2>1, Zenon DEF MissedBefore
  <2>7. ASSUME NEW v \in Writers, v # w, Underway(v, s, k) PROVE Underway(v, s, k)'
    <3>1. call'[v] = call[v] /\ pc'[v] = pc[v] /\ UNCHANGED entries
      BY <1>1, <1>2, <2>7, Zenon
    <3> QED
      BY <2>7, <3>1, ZenonT(30) DEF Underway, HasChanged, Ahead
  <2>8. ASSUME HasChanged(w, k[1], k[2]), Ahead(w, s) PROVE Underway(w, s, k)'
    <3>1. s \in Elems(Tail(call[w].recipients))
      BY <1>2, <2>8, ZenonT(30) DEF Ahead
    <3>2. HasChanged(w, k[1], k[2])' /\ Ahead(w, s)'
      BY <1>2, <2>8, <3>1 DEF HasChanged, Ahead
    <3> QED
      BY <3>2, Zenon DEF Underway
  <2>9. CASE s # x
    <3>1. stream'[s] = stream[s]
      BY <1>2, <2>1, <2>9
    <3>2. Knows(s, k) => Knows(s, k)'
      BY <1>2, <3>1, Zenon DEF Knows
    <3>3. Underway(w, s, k) => HasChanged(w, k[1], k[2]) /\ Ahead(w, s)
      BY <2>9, Zenon DEF Underway, x
    <3> QED
      BY <2>5, <2>6, <2>7, <2>8, <3>2, <3>3, Zenon
  <2>10. CASE s = x
    <3>1. stream'[s].known = Merge(stream[s].known, m.body)
      BY <1>2, <2>1, <2>3, <2>10, Zenon DEF Live
    <3>2. CASE k \in DOMAIN m.body
      <4>1. m.body[k] = Value(entries[k[1]], k[2])
        BY <1>3, <2>1, <2>10, <3>2 DEF Faithful
      <4>2. k \in DOMAIN stream'[s].known /\ stream'[s].known[k] = m.body[k]
        BY <3>1, <3>2, Zenon DEF Merge
      <4> QED
        BY <1>2, <4>1, <4>2, ZenonT(30) DEF Knows
    <3>3. CASE k \notin DOMAIN m.body
      <4>1. k \in DOMAIN stream[s].known =>
               k \in DOMAIN stream'[s].known /\ stream'[s].known[k] = stream[s].known[k]
        BY <3>1, <3>3, Zenon DEF Merge
      <4>2. Knows(s, k) => Knows(s, k)'
        BY <1>2, <4>1, Zenon DEF Knows
      <4>3. Underway(w, s, k) => HasChanged(w, k[1], k[2]) /\ Ahead(w, s)
        BY <3>3, Zenon DEF Underway, m
      <4> QED
        BY <2>5, <2>6, <2>7, <2>8, <4>2, <4>3, Zenon
    <3> QED
      BY <3>2, <3>3, Zenon
  <2> QED
    BY <2>9, <2>10, Zenon
<1> QED
  BY <1>4, <1>5, <1>6, <1>8, <1>9 DEF GapInv

------------------------------------------------------------------------------
(* The theorem *)

\* Nothing is subscribed to, and nothing is being updated, at first.
LEMMA GapInitially == BrokerInit => GapInv
<1> SUFFICES ASSUME BrokerInit PROVE GapInv
  OBVIOUS
<1>1. /\ change_subscriptions = << >> /\ request = [s \in Streams |-> EmptyMap]
      /\ pc = [t \in Tasks |-> "idle"] /\ call = [w \in Writers |-> NoCall]
  BY Zenon DEF BrokerInit
<1>2. Elems(change_subscriptions) = {}
  BY <1>1 DEF Elems
<1>3. RequestsKnown
  <2>1. DOMAIN request = Streams /\ \A s \in Streams : request[s] = EmptyMap
    BY <1>1
  <2>2. DOMAIN EmptyMap = {}
    BY DEF EmptyMap
  <2> QED
    BY <2>1, <2>2 DEF RequestsKnown, Streams
<1>4. UpdatesOnce
  <2>1. \A w \in Writers : call[w].todo = << >>
    BY <1>1 DEF NoCall
  <2>2. DOMAIN << >> = {}
    OBVIOUS
  <2> QED
    BY <2>1, <2>2 DEF UpdatesOnce
<1>5. ChangesRecorded
  <2>1. \A w \in Writers : pc[w] = "idle"
    BY <1>1 DEF Tasks, Clients
  <2> QED
    BY <2>1 DEF ChangesRecorded
<1> QED
  BY <1>2, <1>3, <1>4, <1>5 DEF GapInv, SinceLogged, Told

\* Every step keeps the invariant, if no batch names an entry twice and no call
\* of update_entries is cut short.
LEMMA GapStep ==
    ASSUME CompleteUpdates, BrokerInv, TypeInv, GapInv, [BrokerNext]_vars
    PROVE  GapInv'
<1>1. ASSUME NEW w \in Writers, UpdateEntries(w) \/ WriterStep(w) PROVE GapInv'
  BY <1>1, UpdateEntriesGap, WaitingWriterGap, UpdateNextGap, DowngradeLockGap, BeginNotifyGap,
     ComposeGap, SendGap, EndNotifyGap, Zenon DEF WriterStep
<1>2. ASSUME NEW s \in Subscribers, Subscribe(s) \/ SubscriberStep(s) PROVE GapInv'
  <2>1. s \in Streams /\ s \notin Writers
    BY Disjoint DEF Streams
  <2> QED
    BY <1>2, <2>1, SubscribingGap, WaitingGap, AddChangeSubscriptionGap, Zenon DEF SubscriberStep
<1>3. ASSUME NEW q \in Queriers, SubscribeQuery(q) \/ QuerierStep(q) PROVE GapInv'
  <2>1. q \in Streams /\ q \notin Writers
    BY Disjoint DEF Streams
  <2> QED
    BY <1>3, <2>1, SubscribingGap, WaitingGap, Zenon DEF QuerierStep
<1>4. ASSUME NEW r \in Registrars, RequestAdd(r) \/ AddEntry(r) PROVE GapInv'
  <2>1. r \notin Writers
    BY Disjoint
  <2> QED
    BY <1>4, <2>1, WaitingGap, AddEntryGap, Zenon
<1>5. CASE HousekeeperStep \/ RequestShutdown \/ Shutdown
  <2>1. Housekeeper \notin Writers /\ Terminator \notin Writers
    BY Disjoint DEF Clients
  <2> QED
    BY <1>5, <2>1, WaitingGap, Zenon DEF HousekeeperStep
<1>6. ASSUME NEW s \in Streams, Read(s) \/ Leave(s) PROVE GapInv'
  <2>1. s \in Clients
    BY DEF Clients
  <2> QED
    BY <1>6, <2>1, ClientGap, Zenon
<1>7. ASSUME NEW t \in Clients, Expire(t) \/ Cancel(t) PROVE GapInv'
  <2>1. Cancel(t) => t \notin Writers
    BY Zenon DEF Cancel, CompleteUpdates
  <2> QED
    BY <1>7, <2>1, ExpireGap, ClientGap, Zenon
<1>8. CASE UNCHANGED vars
  <2>1. UNCHANGED << entries, log, call, pc, expired, request, stream, change_subscriptions >>
    BY <1>8 DEF vars, dbVars, subsVars
  <2> QED
    BY <2>1, SameViews, QuietGap, Zenon DEF GapInv, RequestsKnown
<1> QED
  BY <1>1, <1>2, <1>3, <1>4, <1>5, <1>6, <1>7, <1>8, Zenon DEF BrokerNext

\* Once nobody writes or notifies, nothing is underway.
LEMMA GapInvSuffices ==
    ASSUME CompleteUpdates => GapInv
    PROVE  OnlyTheGapIsMissed
<1> SUFFICES ASSUME CompleteUpdates, Settled, NEW i \in DOMAIN change_subscriptions,
                    Live(change_subscriptions[i]), NEW k \in Readable(change_subscriptions[i])
             PROVE  Knows(change_subscriptions[i], k) \/ MissedBefore(change_subscriptions[i], k)
  BY Zenon DEF OnlyTheGapIsMissed
<1> DEFINE s == change_subscriptions[i]
<1>1. s \in Elems(change_subscriptions)
  BY DEF Elems
<1> HIDE DEF s
<1>2. Knows(s, k) \/ MissedBefore(s, k) \/ \E w \in Writers : Underway(w, s, k)
  BY <1>1, ZenonT(30) DEF GapInv, Told, s
<1>3. \A w \in Writers : ~Underway(w, s, k)
  BY DEF Settled, Notifying, Underway, Ahead
<1> QED
  BY <1>2, <1>3 DEF s

\* A change subscription misses at most what changed before it was registered:
\* once the notifications of update_entries are through, a live subscription has
\* been sent the current value of every field it may see, or that field has the
\* value it had when the subscription was added.  For any number of writers,
\* subscribers and entries, if no batch names an entry twice and no call of
\* update_entries is cut short.
THEOREM OnlyGapMissed == BrokerSpec => []OnlyTheGapIsMissed
<1> DEFINE Inv == CompleteUpdates => GapInv
<1>1. BrokerInit => Inv
  BY GapInitially
<1>2. BrokerInv /\ TypeInv /\ Inv /\ [BrokerNext]_vars => Inv'
  <2>1. CompleteUpdates' => CompleteUpdates
    BY Zenon DEF CompleteUpdates
  <2> QED
    BY <2>1, GapStep, Zenon
<1>3. Inv => OnlyTheGapIsMissed
  BY GapInvSuffices
<1> HIDE DEF Inv
<1> QED
  BY <1>1, <1>2, <1>3, BrokerInvariant, TypeInvariant, PTL DEF BrokerSpec

==============================================================================
