----------------------------- MODULE VissStepProofs -----------------------------
(***************************************************************************)
(* The inductive invariant of Viss, for any number of connections,         *)
(* requests, subscriptions and updates, and the steps that put nothing     *)
(* into the channel of a connection.                                       *)
(***************************************************************************)
EXTENDS VissProperties, TLAPS

------------------------------------------------------------------------------
(* The inductive invariant *)

\* The values of an event: the provider writes integers.
IntegerText == [is: {"integer"}, n: Nat]
Shown == {VissNone} \cup [is: {"Scalar"}, texts: {t \in Seq(IntegerText) : Len(t) = 1}]

SentMessage == [request: Nat, subscription: Nat, status: Nat, value: Shown]

EventMessage(s) ==
    [request: {Event}, subscription: {s}, error: {"Ok", "InternalServerError"}, value: Shown,
     metadata: {EmptyMap}]

ConnShape(c) ==
    /\ DOMAIN c = {"open", "handling", "handled", "sent", "read", "parked"}
    /\ c.open \in BOOLEAN /\ c.handled \in Nat /\ c.read \in Nat
    /\ c.sent \in Seq(SentMessage) /\ c.parked \in Seq(Nat)
    /\ c.handling # None =>
          /\ c.open /\ c.handled > 0 /\ c.handling = << c.handling[1] >>
          /\ DOMAIN c.handling[1] = {"request", "step", "response"}
          /\ c.handling[1].response.request = c.handled
          /\ c.handling[1].response.subscription \in Nat

SubShape(s) ==
    /\ DOMAIN subs[s] = {"conn", "request", "entry", "expired", "state", "channel", "hand"}
    /\ subs[s].conn \in Connections
    /\ subs[s].state \in {"new", "active", "aborted", "ended"}
    /\ subs[s].channel \in Seq(EventMessage(s))
    /\ subs[s].hand \in Option(EventMessage(s))

\* The database: only the provider writes datapoints, and it counts.
ValuesMade ==
    /\ updates_made \in Nat
    /\ \A id \in DOMAIN entries :
          /\ DOMAIN entries[id] = {"datapoint", "actuator_target", "metadata"}
          /\ "data_type" \in DOMAIN entries[id].metadata /\ entries[id].metadata.data_type \in DataType
          /\ \/ entries[id].datapoint = NotAvailable
             \/ \E k \in 1..updates_made : entries[id].datapoint = Scalar("Int32", k)

\* As many senders are parked as there are messages beyond the buffer.
ParkedBeyond(c) ==
    LET beyond == Queued(c) - Buffer
    IN  c.read <= Len(c.sent) /\ Len(c.parked) = IF beyond > 0 THEN beyond ELSE 0

\* Messages are about subscriptions that there are, or about none.
SubsKnown(w) ==
    /\ \A i \in DOMAIN conns[w].sent :
          /\ conns[w].sent[i].request = Event => conns[w].sent[i].subscription \in DOMAIN subs
          /\ conns[w].sent[i].status = 0 => conns[w].sent[i].subscription \in {0} \cup DOMAIN subs
    /\ conns[w].handling # None =>
          LET h == conns[w].handling[1]
              s == h.response.subscription
          IN  /\ h.response.error = "Ok" => s \in {0} \cup DOMAIN subs
              /\ h.step = "add" => s \in DOMAIN subs /\ subs[s].conn = w /\ subs[s].state = "new"

\* ResponsesInOrder, of one connection.
Answered(w) ==
    conns[w].open =>
        LET sent == conns[w].sent
        IN  /\ {sent[i].request : i \in Responses(w)} = 1..(conns[w].handled - Len(conns[w].handling))
            /\ \A i, j \in Responses(w) : i < j => sent[i].request < sent[j].request

\* The value of an entry as a number, 0 if there is none.
Now(id) ==
    IF id \in DOMAIN entries /\ entries[id].datapoint # NotAvailable THEN entries[id].datapoint.v[1] ELSE 0

\* m follows a message with the value v: it is not older, and no error.
Follows(m, v) == v <= Latest(m) /\ m.error = "Ok"

\* From the channel of the subscription through the task's hand to the channel
\* of the connection, values do not decrease, and the entry has the latest.
EventChain(s) ==
    LET w == subs[s].conn
        sent == conns[w].sent
        now == Now(subs[s].entry)
        hand == subs[s].hand
        channel == subs[s].channel
    IN  /\ \A i, j \in Events(w, s) : i < j =>
              Latest(sent[i]) <= Latest(sent[j]) /\ sent[j].status = 0
        /\ \A i \in Events(w, s) :
              /\ Latest(sent[i]) <= now
              /\ \A h \in DOMAIN hand : Follows(hand[h], Latest(sent[i]))
              /\ \A c \in DOMAIN channel : Follows(channel[c], Latest(sent[i]))
        /\ \A h \in DOMAIN hand :
              /\ Latest(hand[h]) <= now
              /\ \A c \in DOMAIN channel : Follows(channel[c], Latest(hand[h]))
        /\ \A c \in DOMAIN channel :
              /\ Latest(channel[c]) <= now
              /\ \A d \in DOMAIN channel : c < d => Follows(channel[d], Latest(channel[c]))

\* A confirmation about s is to be sent.
Pending(w, s) ==
    /\ conns[w].handling # None
    /\ conns[w].handling[1].response.subscription = s /\ conns[w].handling[1].response.error = "Ok"

\* There is one confirmation of a subscription as long as it is active.
Confirmed(s) ==
    LET w == subs[s].conn
        st == subs[s].state
    IN  /\ st = "new" => Pending(w, s) /\ conns[w].handling[1].step = "add" /\ subs[s].hand = None
        /\ st = "ended" => subs[s].hand = None
        /\ st \in {"new", "active"} /\ Pending(w, s) => Confirmations(w, s) = {}
        /\ st \in {"new", "active"} \/ Pending(w, s) =>
              \A h, i \in Confirmations(w, s) : h = i
        /\ \A h, i \in Confirmations(w, s) : h < i =>
              /\ \A j, k \in Events(w, s) : i < j /\ i < k => j = k
              /\ subs[s].hand # None => \A j \in Events(w, s) : j < i

ConnInv(w) == ConnShape(conns[w]) /\ ParkedBeyond(conns[w]) /\ SubsKnown(w) /\ Answered(w)

SubInv(s) == SubShape(s) /\ EventChain(s) /\ Confirmed(s)

IsSeq(x) == x \in Seq({x[i] : i \in DOMAIN x})

VissInv ==
    /\ DOMAIN conns = Connections /\ IsSeq(subs) /\ ValuesMade
    /\ DOMAIN writer = {"phase", "left"} /\ writer.left \subseteq DOMAIN subs
    /\ \A w \in Connections : ConnInv(w)
    /\ \A s \in DOMAIN subs : SubInv(s)

------------------------------------------------------------------------------
(* Operators *)

\* Sequences of anything.
LEMMA SeqFacts ==
    ASSUME NEW x, IsSeq(x)
    PROVE  Len(x) \in Nat /\ DOMAIN x = 1..Len(x)
  BY DEF IsSeq

\* What is in Seq(S), for whatever S, is a sequence.
LEMMA SeqIsSeq == ASSUME NEW S, NEW x \in Seq(S) PROVE IsSeq(x)
  BY DEF IsSeq

\* An element more: what was there stays at its index.
LEMMA AppendFacts ==
    ASSUME NEW x, NEW e, IsSeq(x)
    PROVE  /\ IsSeq(Append(x, e)) /\ DOMAIN Append(x, e) = 1..(Len(x) + 1)
           /\ Append(x, e)[Len(x) + 1] = e
           /\ \A i \in DOMAIN x : Append(x, e)[i] = x[i]
  BY DEF IsSeq

\* An element of a sequence.
LEMMA SeqElement == ASSUME NEW S, NEW x \in Seq(S), NEW i \in DOMAIN x PROVE x[i] \in S
  OBVIOUS

\* An element more of the same kind.
LEMMA AppendInSeq == ASSUME NEW S, NEW x \in Seq(S), NEW e \in S PROVE Append(x, e) \in Seq(S)
  OBVIOUS

\* A function with the domain of a sequence is one.
LEMMA FunIsSeq ==
    ASSUME NEW x, IsSeq(x), NEW y, y = [i \in DOMAIN x |-> y[i]]
    PROVE  IsSeq(y)
<1>1. PICK n \in Nat : n = Len(x) /\ DOMAIN x = 1..n
  BY SeqFacts
<1>2. PICK S : S = {y[i] : i \in DOMAIN y}
  BY Zenon
<1>3. y = [i \in 1..n |-> y[i]] /\ \A i \in 1..n : y[i] \in S
  BY <1>1, <1>2
<1>4. y \in Seq(S)
  BY <1>3
<1> QED
  BY <1>2, <1>4 DEF IsSeq

\* The statuses: 0 is for no error, and only for it.
LEMMA Errors ==
    /\ ErrorNumber("Ok") = 0 /\ ErrorNumber("InternalServerError") = 500
    /\ ErrorNumber("NotFoundInvalidSubscriptionId") = 404
    /\ \A e : ErrorNumber(e) \in Nat /\ (ErrorNumber(e) = 0 => e = "Ok")
<1>1. ErrorNumber("Ok") = 0 /\ ErrorNumber("InternalServerError") = 500
      /\ ErrorNumber("NotFoundInvalidSubscriptionId") = 404
  BY DEF ErrorNumber
<1>2. ASSUME NEW e, e # "Ok" PROVE ErrorNumber(e) \in {400, 401, 403, 404, 500}
  BY <1>2 DEF ErrorNumber
<1>3. ASSUME NEW e PROVE ErrorNumber(e) \in Nat /\ (ErrorNumber(e) = 0 => e = "Ok")
  <2>1. CASE e = "Ok"
    BY <1>1, <2>1
  <2>2. CASE e # "Ok"
    BY <1>2, <2>2
  <2> QED
    BY <2>1, <2>2
<1> QED
  BY <1>1, <1>3

\* The number of a value is a number.
LEMMA LatestType == ASSUME NEW m, m.value \in Shown PROVE Latest(m) \in Nat
<1>1. CASE m.value = VissNone
  BY <1>1 DEF Latest
<1>2. CASE m.value # VissNone
  <2>1. PICK t \in Seq(IntegerText) : t = m.value.texts /\ Len(t) = 1
    BY <1>2 DEF Shown
  <2>2. t[1] \in IntegerText
    BY <2>1
  <2>3. t[1].n \in Nat
    BY <2>2 DEF IntegerText
  <2> QED
    BY <1>2, <2>1, <2>3 DEF Latest
<1> QED
  BY <1>1, <1>2

\* What Sent keeps of an event.
LEMMA SentEvent ==
    ASSUME NEW s \in Nat, NEW m \in EventMessage(s)
    PROVE  /\ Sent(m) \in SentMessage /\ Sent(m).request = Event /\ Sent(m).subscription = s
           /\ Latest(Sent(m)) = Latest(m) /\ (m.error = "Ok" => Sent(m).status = 0)
<1>1. m.request = Event /\ m.subscription = s /\ m.value \in Shown
  BY DEF EventMessage
<1>2. ErrorNumber(m.error) \in Nat /\ (m.error = "Ok" => ErrorNumber(m.error) = 0)
  BY Errors
<1>3. PICK n, v : n = ErrorNumber(m.error) /\ v = m.value
  BY Zenon
<1>4. Sent(m) = [request |-> Event, subscription |-> s, status |-> n, value |-> v]
  BY <1>1, <1>3 DEF Sent
<1>5. /\ Sent(m).request = Event /\ Sent(m).subscription = s /\ Sent(m).status = n
      /\ Sent(m).value = v
  BY <1>4
<1>6. [request |-> Event, subscription |-> s, status |-> n, value |-> v] \in SentMessage
  BY <1>1, <1>2, <1>3 DEF SentMessage, Event
<1>7. Latest(Sent(m)) = Latest(m)
  BY <1>3, <1>5 DEF Latest
<1> QED
  BY <1>2, <1>3, <1>4, <1>5, <1>6, <1>7

\* The values of entries.
LEMMA Datapoints ==
    ASSUME ValuesMade, NEW id \in DOMAIN entries, entries[id].datapoint # NotAvailable
    PROVE  \E k \in Nat : entries[id].datapoint = Scalar("Int32", k) /\ Now(id) = k
<1>1. PICK k \in 1..updates_made : entries[id].datapoint = Scalar("Int32", k)
  BY DEF ValuesMade
<1>2. k \in Nat
  BY DEF ValuesMade
<1>3. Scalar("Int32", k).v[1] = k
  BY DEF Scalar
<1> QED
  BY <1>1, <1>2, <1>3 DEF Now

\* The value of an entry, as a number, is one.
LEMMA NowType == ASSUME ValuesMade, NEW id PROVE Now(id) \in Nat
<1>1. CASE id \in DOMAIN entries /\ entries[id].datapoint # NotAvailable
  BY <1>1, Datapoints
<1>2. CASE ~ (id \in DOMAIN entries /\ entries[id].datapoint # NotAvailable)
  BY <1>2 DEF Now
<1> QED
  BY <1>1, <1>2

\* A message with the value of an entry.
LEMMA ValueShown ==
    ASSUME ValuesMade, NEW id \in DOMAIN entries
    PROVE  LET value == FromDataValue(entries[id].datapoint)
           IN  value \in Shown /\ \A m : m.value = value => Latest(m) = Now(id)
<1>1. CASE entries[id].datapoint = NotAvailable
  <2>1. FromDataValue(entries[id].datapoint) = VissNone
    BY <1>1, Zenon DEF FromDataValue
  <2>2. Now(id) = 0
    BY <1>1 DEF Now
  <2> QED
    BY <2>1, <2>2 DEF Shown, Latest
<1>2. CASE entries[id].datapoint # NotAvailable
  <2>1. PICK k \in Nat : entries[id].datapoint = Scalar("Int32", k) /\ Now(id) = k
    BY <1>2, Datapoints
  <2>2. PICK dp : dp = entries[id].datapoint
    BY Zenon
  <2>3. dp.elem = "Int32" /\ dp.array = FALSE /\ dp.v = << k >> /\ dp # NotAvailable
    BY <1>2, <2>1, <2>2 DEF Scalar
  <2>4. to_string("Int32", k) = Text("integer", k)
    BY DEF to_string
  <2>5. FromDataValue(dp) = VissScalar([i \in DOMAIN dp.v |-> to_string(dp.elem, dp.v[i])][1])
    BY <2>3 DEF FromDataValue
  <2>6. FromDataValue(dp) = VissScalar(Text("integer", k))
    BY <2>3, <2>4, <2>5
  <2>7. VissScalar(Text("integer", k)) \in Shown
    <3>1. Text("integer", k) \in IntegerText
      BY DEF Text, IntegerText
    <3> QED
      BY <3>1 DEF VissScalar, Shown
  <2>8. /\ VissScalar(Text("integer", k)) # VissNone
        /\ VissScalar(Text("integer", k)).texts[1].n = k
    BY DEF VissScalar, VissNone, Text
  <2> QED
    BY <2>1, <2>2, <2>6, <2>7, <2>8 DEF Latest
<1> QED
  BY <1>1, <1>2

\* The event of an entry has its value, or is an error.
LEMMA EventFacts ==
    ASSUME ValuesMade, NEW s, NEW sub
    PROVE  /\ EventOf(s, sub) \in EventMessage(s)
           /\ Latest(EventOf(s, sub)) <= Now(sub.entry)
           /\ EventOf(s, sub).error = "Ok" => Latest(EventOf(s, sub)) = Now(sub.entry)
<1>1. PICK e : e = sub.entry
  BY Zenon
<1>2. PICK m : m = EventOf(s, sub)
  BY Zenon
<1>3. Now(e) \in Nat
  BY NowType
<1>4. CASE m = Message(Event, s, "InternalServerError", VissNone)
  <2>1. m.value = VissNone /\ m.error = "InternalServerError" /\ m \in EventMessage(s)
    BY <1>4 DEF Message, EventMessage, Shown
  <2> QED
    BY <1>1, <1>2, <1>3, <2>1 DEF Latest
<1>5. CASE e \in DOMAIN entries /\ m = Message(Event, s, "Ok", FromDataValue(entries[e].datapoint))
  <2>1. PICK v \in Shown : v = FromDataValue(entries[e].datapoint) /\ \A n : n.value = v => Latest(n) = Now(e)
    BY <1>5, ValueShown
  <2>2. m.value = v /\ m \in EventMessage(s)
    BY <1>5, <2>1 DEF Message, EventMessage
  <2>3. Latest(m) = Now(e)
    BY <2>1, <2>2, Zenon
  <2> QED
    BY <1>1, <1>2, <1>3, <2>2, <2>3
<1>6. get_entry_by_id([Resolved[sub.request].perm EXCEPT !.expired = @ \/ sub.expired], e) = "Ok"
        => e \in DOMAIN entries
  BY DEF get_entry_by_id
<1> QED
  BY <1>1, <1>2, <1>4, <1>5, <1>6, Zenon DEF EventOf

------------------------------------------------------------------------------
(* Steps that do not move s's messages, and do not confirm anything of s *)

\* What is still in the channel of w is what it was.
SentKept(w) ==
    \A i \in DOMAIN conns'[w].sent : i \in DOMAIN conns[w].sent /\ conns'[w].sent[i] = conns[w].sent[i]

\* s keeps what it has, or loses it.
HoldsLess(s) ==
    /\ subs'[s].conn = subs[s].conn /\ subs'[s].entry = subs[s].entry
    /\ subs'[s].hand \in {subs[s].hand, None} /\ subs'[s].channel \in {subs[s].channel, << >>}

\* What was sent before and after is of the same kind.
LEMMA EventsKept ==
    ASSUME NEW w, NEW s, SentKept(w)
    PROVE  /\ \A i \in Events(w, s)' : i \in Events(w, s) /\ conns'[w].sent[i] = conns[w].sent[i]
           /\ Events(w, s)' \subseteq Events(w, s)
           /\ Confirmations(w, s)' \subseteq Confirmations(w, s)
  BY DEF SentKept, Events, Confirmations, Responses

\* A subscription that loses messages keeps the rest in order.
LEMMA ChainKept ==
    ASSUME NEW s, EventChain(s), HoldsLess(s), NEW w, w = subs[s].conn,
           \A i \in Events(w, s)' : i \in Events(w, s) /\ conns'[w].sent[i] = conns[w].sent[i],
           Now(subs[s].entry)' = Now(subs[s].entry)
    PROVE  EventChain(s)'
<1>1. PICK now, hand, channel : now = Now(subs[s].entry) /\ hand = subs[s].hand /\ channel = subs[s].channel
  BY Zenon
<1>2. PICK sent : sent = conns[w].sent
  BY Zenon
<1>3. PICK hand2, channel2, sent2 : hand2 = subs'[s].hand /\ channel2 = subs'[s].channel /\ sent2 = conns'[w].sent
  BY Zenon
<1>4. subs'[s].conn = w /\ (hand2 = hand \/ hand2 = << >>) /\ (channel2 = channel \/ channel2 = << >>)
  BY <1>1, <1>3 DEF HoldsLess, None
<1>5. PICK E, E2 : E = Events(w, s) /\ E2 = Events(w, s)'
  BY Zenon
<1>6. \A i \in E2 : i \in E /\ sent2[i] = sent[i]
  BY <1>2, <1>3, <1>5
<1>7. (\A h \in DOMAIN hand2 : h \in DOMAIN hand /\ hand2[h] = hand[h])
      /\ (\A c \in DOMAIN channel2 : c \in DOMAIN channel /\ channel2[c] = channel[c])
  BY <1>4
<1>8. /\ \A i, j \in E : i < j => Latest(sent[i]) <= Latest(sent[j]) /\ sent[j].status = 0
      /\ \A i \in E :
            /\ Latest(sent[i]) <= now
            /\ \A h \in DOMAIN hand : Follows(hand[h], Latest(sent[i]))
            /\ \A c \in DOMAIN channel : Follows(channel[c], Latest(sent[i]))
      /\ \A h \in DOMAIN hand :
            /\ Latest(hand[h]) <= now
            /\ \A c \in DOMAIN channel : Follows(channel[c], Latest(hand[h]))
      /\ \A c \in DOMAIN channel :
            /\ Latest(channel[c]) <= now
            /\ \A d \in DOMAIN channel : c < d => Follows(channel[d], Latest(channel[c]))
  BY <1>1, <1>2, <1>5, Zenon DEF EventChain
<1>9. /\ \A i, j \in E2 : i < j => Latest(sent2[i]) <= Latest(sent2[j]) /\ sent2[j].status = 0
      /\ \A i \in E2 :
            /\ Latest(sent2[i]) <= now
            /\ \A h \in DOMAIN hand2 : Follows(hand2[h], Latest(sent2[i]))
            /\ \A c \in DOMAIN channel2 : Follows(channel2[c], Latest(sent2[i]))
      /\ \A h \in DOMAIN hand2 :
            /\ Latest(hand2[h]) <= now
            /\ \A c \in DOMAIN channel2 : Follows(channel2[c], Latest(hand2[h]))
      /\ \A c \in DOMAIN channel2 :
            /\ Latest(channel2[c]) <= now
            /\ \A d \in DOMAIN channel2 : c < d => Follows(channel2[d], Latest(channel2[c]))
  BY <1>6, <1>7, <1>8
<1> QED
  BY <1>1, <1>3, <1>4, <1>5, <1>9, Zenon DEF EventChain, HoldsLess

\* The same, if nothing was sent.
LEMMA ChainLeft ==
    ASSUME NEW s, EventChain(s), HoldsLess(s), NEW w, w = subs[s].conn, SentKept(w),
           Now(subs[s].entry)' = Now(subs[s].entry)
    PROVE  EventChain(s)'
<1>1. \A i \in Events(w, s)' : i \in Events(w, s) /\ conns'[w].sent[i] = conns[w].sent[i]
  BY EventsKept, Zenon
<1> QED
  BY <1>1, ChainKept

\* s is as it was, or was aborted, and nothing about it is confirmed.
LEMMA ConfirmedKept ==
    ASSUME NEW s, Confirmed(s), NEW w, w = subs[s].conn, w = subs'[s].conn,
           subs'[s].hand \in {subs[s].hand, None},
           Events(w, s)' \subseteq Events(w, s), Confirmations(w, s)' \subseteq Confirmations(w, s),
           subs'[s].state # subs[s].state => subs'[s].state \in {"aborted", "ended"},
           subs'[s].state = "new" => conns'[w].handling = conns[w].handling,
           subs'[s].state = "ended" => subs'[s].hand = None,
           Pending(w, s)' => Pending(w, s)
    PROVE  Confirmed(s)'
<1>1. PICK E, E2, C, C2 : /\ E = Events(w, s) /\ E2 = Events(w, s)'
                          /\ C = Confirmations(w, s) /\ C2 = Confirmations(w, s)'
  BY Zenon
<1>2. E2 \subseteq E /\ C2 \subseteq C
  BY <1>1
<1>3. subs'[s].conn = w /\ (subs'[s].hand # None => subs[s].hand # None)
  OBVIOUS
<1>4. /\ subs[s].state = "new" =>
            Pending(w, s) /\ conns[w].handling[1].step = "add" /\ subs[s].hand = None
      /\ subs[s].state \in {"new", "active"} /\ Pending(w, s) => C = {}
      /\ subs[s].state \in {"new", "active"} \/ Pending(w, s) => \A h, i \in C : h = i
      /\ \A h, i \in C : h < i =>
            /\ \A j, k \in E : i < j /\ i < k => j = k
            /\ subs[s].hand # None => \A j \in E : j < i
  BY <1>1 DEF Confirmed
<1>5. subs'[s].state \in {"new", "active"} => subs[s].state = subs'[s].state
  BY Zenon
<1>6. subs'[s].state = "new" => Pending(w, s)' /\ conns'[w].handling[1].step = "add" /\ subs'[s].hand = None
  BY <1>3, <1>4, <1>5, Zenon DEF Pending
<1>7. /\ subs'[s].state \in {"new", "active"} /\ Pending(w, s)' => C2 = {}
      /\ subs'[s].state \in {"new", "active"} \/ Pending(w, s)' => \A h, i \in C2 : h = i
  BY <1>2, <1>4, <1>5
<1>8. \A h, i \in C2 : h < i =>
            /\ \A j, k \in E2 : i < j /\ i < k => j = k
            /\ subs'[s].hand # None => \A j \in E2 : j < i
  BY <1>2, <1>3, <1>4
<1> QED
  BY <1>1, <1>3, <1>6, <1>7, <1>8, Zenon DEF Confirmed

\* A connection that is left alone, as far as its subscriptions go on.
LEMMA ConnKept ==
    ASSUME NEW w, ConnInv(w), conns'[w] = conns[w],
           \A s \in DOMAIN subs :
              /\ s \in DOMAIN subs' /\ subs'[s].conn = subs[s].conn
              /\ subs[s].conn = w /\ subs[s].state = "new" => subs'[s].state = "new"
    PROVE  ConnInv(w)'
<1>1. ConnShape(conns[w])' /\ ParkedBeyond(conns[w])' /\ Answered(w)'
  BY DEF ConnInv, ConnShape, ParkedBeyond, Answered, Responses, Queued
<1>2. SubsKnown(w)'
  BY Zenon DEF ConnInv, SubsKnown
<1> QED
  BY <1>1, <1>2 DEF ConnInv

\* A subscription that is left alone: nothing of it is sent or confirmed.
LEMMA SubLeft ==
    ASSUME NEW s, SubInv(s), subs'[s] = subs[s], NEW w, w = subs[s].conn,
           \A i \in Events(w, s)' : i \in Events(w, s) /\ conns'[w].sent[i] = conns[w].sent[i],
           Confirmations(w, s)' \subseteq Confirmations(w, s),
           \A id : Now(id)' = Now(id),
           subs[s].state = "new" => conns'[w].handling = conns[w].handling,
           Pending(w, s)' => Pending(w, s)
    PROVE  SubInv(s)'
<1>1. SubShape(s)'
  BY DEF SubInv, SubShape
<1>2. HoldsLess(s) /\ EventChain(s) /\ Confirmed(s)
  BY DEF HoldsLess, SubInv
<1>3. Now(subs[s].entry)' = Now(subs[s].entry)
  <2>1. PICK e : e = subs[s].entry /\ e = subs'[s].entry
    BY Zenon
  <2> QED
    BY <2>1
<1>4. EventChain(s)'
  BY <1>2, <1>3, ChainKept
<1>5. subs[s].state = "ended" => subs[s].hand = None
  BY <1>2 DEF Confirmed
<1>6. Events(w, s)' \subseteq Events(w, s)
  OBVIOUS
<1>7. Confirmed(s)'
  BY <1>2, <1>5, <1>6, ConfirmedKept
<1> QED
  BY <1>1, <1>4, <1>7 DEF SubInv

\* The same, if nothing was sent.
LEMMA SubUntouched ==
    ASSUME NEW s, SubInv(s), subs'[s] = subs[s], NEW w, w = subs[s].conn, SentKept(w),
           \A id : Now(id)' = Now(id),
           subs[s].state = "new" => conns'[w].handling = conns[w].handling,
           Pending(w, s)' => Pending(w, s)
    PROVE  SubInv(s)'
<1>1. /\ \A i \in Events(w, s)' : i \in Events(w, s) /\ conns'[w].sent[i] = conns[w].sent[i]
      /\ Confirmations(w, s)' \subseteq Confirmations(w, s)
  BY EventsKept, Zenon
<1> QED
  BY <1>1, SubLeft

\* The same, together with its connection.
LEMMA SubKept ==
    ASSUME NEW s, SubInv(s), subs'[s] = subs[s], NEW w, w = subs[s].conn, conns'[w] = conns[w],
           \A id : Now(id)' = Now(id)
    PROVE  SubInv(s)'
<1>1. SentKept(w)
  BY DEF SentKept
<1>2. Pending(w, s)' => Pending(w, s)
  BY DEF Pending
<1> QED
  BY <1>1, <1>2, SubUntouched

\* What the messages of a subscription are.
LEMMA MessageTypes ==
    ASSUME VissInv, NEW s \in DOMAIN subs, NEW w, w = subs[s].conn
    PROVE  /\ w \in Connections /\ conns[w].sent \in Seq(SentMessage)
           /\ \A i \in DOMAIN conns[w].sent : Latest(conns[w].sent[i]) \in Nat
           /\ subs[s].hand \in Option(EventMessage(s)) /\ subs[s].channel \in Seq(EventMessage(s))
           /\ \A h \in DOMAIN subs[s].hand : subs[s].hand[h] \in EventMessage(s) /\ Latest(subs[s].hand[h]) \in Nat
           /\ \A c \in DOMAIN subs[s].channel :
                 subs[s].channel[c] \in EventMessage(s) /\ Latest(subs[s].channel[c]) \in Nat
<1>1. w \in Connections /\ conns[w].sent \in Seq(SentMessage)
  BY DEF VissInv, SubInv, SubShape, ConnInv, ConnShape
<1>2. \A m \in SentMessage : Latest(m) \in Nat
  BY LatestType DEF SentMessage
<1>3. \A m \in EventMessage(s) : Latest(m) \in Nat
  BY LatestType DEF EventMessage
<1>4. subs[s].hand \in Option(EventMessage(s)) /\ subs[s].channel \in Seq(EventMessage(s))
  BY DEF VissInv, SubInv, SubShape
<1>5. subs[s].hand \in Seq(EventMessage(s))
  BY <1>4 DEF Option
<1>6. /\ \A i \in DOMAIN conns[w].sent : conns[w].sent[i] \in SentMessage
      /\ \A h \in DOMAIN subs[s].hand : subs[s].hand[h] \in EventMessage(s)
      /\ \A c \in DOMAIN subs[s].channel : subs[s].channel[c] \in EventMessage(s)
  BY <1>1, <1>4, <1>5
<1> QED
  BY <1>1, <1>2, <1>3, <1>4, <1>6

\* A step at one subscription that leaves the connections and the values alone.
LEMMA OneSub ==
    ASSUME VissInv, UNCHANGED << conns, entries, updates_made >>, NEW s \in DOMAIN subs,
           NEW new, subs' = [subs EXCEPT ![s] = new],
           SubInv(s)', new.conn = subs[s].conn, subs[s].state = "new" => new.state = "new",
           DOMAIN writer' = {"phase", "left"}, writer'.left \subseteq DOMAIN subs
    PROVE  VissInv'
<1>1. IsSeq(subs) /\ subs' = [t \in DOMAIN subs |-> subs'[t]]
  BY Zenon DEF VissInv
<1>2. /\ IsSeq(subs') /\ DOMAIN subs' = DOMAIN subs /\ subs'[s] = new
      /\ \A t \in DOMAIN subs : t # s => subs'[t] = subs[t]
  BY <1>1, FunIsSeq
<1>3. ValuesMade' /\ \A id : Now(id)' = Now(id)
  BY DEF VissInv, ValuesMade, Now
<1>4. \A w \in Connections : ConnInv(w)'
  BY <1>2, ConnKept DEF VissInv
<1>5. \A t \in DOMAIN subs : SubInv(t)'
  BY <1>2, <1>3, SubKept DEF VissInv
<1> QED
  BY <1>2, <1>3, <1>4, <1>5 DEF VissInv

------------------------------------------------------------------------------
(* The provider *)

\* An update of an entry sets its datapoint or leaves it, and keeps the rest in place.
LEMMA ApplyDatapoint ==
    ASSUME NEW entry, DOMAIN entry = {"datapoint", "actuator_target", "metadata"},
           "data_type" \in DOMAIN entry.metadata,
           NEW update, DOMAIN update = {"metadata_set", "datapoint", "actuator_target", "allowed"}
    PROVE  LET new == apply(entry, diff(entry, update))
           IN  /\ DOMAIN new = {"datapoint", "actuator_target", "metadata"}
               /\ "data_type" \in DOMAIN new.metadata /\ new.metadata.data_type = entry.metadata.data_type
               /\ new.datapoint = entry.datapoint \/ (update.datapoint # None /\ new.datapoint = update.datapoint[1])
<1>1. PICK kept : kept = diff(entry, update)
  BY Zenon
<1>2. kept.datapoint = None \/ kept.datapoint = update.datapoint
  BY <1>1 DEF diff
<1>3. PICK new : new = apply(entry, kept)
  BY Zenon
<1>4. /\ DOMAIN new = {"datapoint", "actuator_target", "metadata"}
      /\ new.datapoint = IF kept.datapoint = None THEN entry.datapoint ELSE kept.datapoint[1]
      /\ DOMAIN new.metadata = DOMAIN entry.metadata
      /\ new.metadata.data_type = entry.metadata.data_type
  BY <1>3 DEF apply
<1> QED
  BY <1>1, <1>2, <1>3, <1>4

\* What an update does to the values.
LEMMA UpdateEntryValues ==
    ASSUME ValuesMade, NEW perm, NEW id, NEW update, update_entry(perm, id, update),
           DOMAIN update = {"metadata_set", "datapoint", "actuator_target", "allowed"}
    PROVE  /\ DOMAIN entries' = DOMAIN entries
           /\ \A x \in DOMAIN entries :
                 /\ DOMAIN entries'[x] = {"datapoint", "actuator_target", "metadata"}
                 /\ "data_type" \in DOMAIN entries'[x].metadata
                 /\ entries'[x].metadata.data_type = entries[x].metadata.data_type
                 /\ \/ entries'[x].datapoint = entries[x].datapoint
                    \/ update.datapoint # None /\ entries'[x].datapoint = update.datapoint[1]
<1>1. CASE UpdateResult(perm, id, update) # "Ok"
  BY <1>1 DEF update_entry, ValuesMade
<1>2. CASE UpdateResult(perm, id, update) = "Ok"
  <2>1. id \in DOMAIN entries
    BY <1>2 DEF UpdateResult
  <2>2. PICK new : new = apply(entries[id], diff(entries[id], update))
    BY Zenon
  <2>3. entries' = [entries EXCEPT ![id] = new]
    BY <1>2, <2>2, Zenon DEF update_entry
  <2>4. /\ DOMAIN new = {"datapoint", "actuator_target", "metadata"}
        /\ "data_type" \in DOMAIN new.metadata
        /\ new.metadata.data_type = entries[id].metadata.data_type
        /\ \/ new.datapoint = entries[id].datapoint
           \/ update.datapoint # None /\ new.datapoint = update.datapoint[1]
    BY <2>1, <2>2, ApplyDatapoint DEF ValuesMade
  <2> QED
    BY <2>1, <2>3, <2>4 DEF ValuesMade
<1> QED
  BY <1>1, <1>2

\* A set leaves the datapoints alone.
LEMMA SetValues ==
    ASSUME ValuesMade, UNCHANGED updates_made,
           \/ UNCHANGED entries
           \/ \E perm, id, update :
                 /\ update_entry(perm, id, update) /\ update.datapoint = None
                 /\ DOMAIN update = {"metadata_set", "datapoint", "actuator_target", "allowed"}
    PROVE  ValuesMade' /\ \A id : Now(id)' = Now(id)
<1>1. /\ DOMAIN entries' = DOMAIN entries
      /\ \A x \in DOMAIN entries :
            /\ DOMAIN entries'[x] = {"datapoint", "actuator_target", "metadata"}
            /\ "data_type" \in DOMAIN entries'[x].metadata
            /\ entries'[x].metadata.data_type = entries[x].metadata.data_type
            /\ entries'[x].datapoint = entries[x].datapoint
  <2>1. CASE UNCHANGED entries
    BY <2>1 DEF ValuesMade
  <2>2. CASE ~UNCHANGED entries
    BY <2>2, UpdateEntryValues
  <2> QED
    BY <2>1, <2>2
<1> QED
  BY <1>1 DEF ValuesMade, Now

\* A commit gives the entry a value that is higher than any before, or leaves it.
LEMMA CommitValues ==
    ASSUME ValuesMade, Commit
    PROVE  ValuesMade' /\ \A id : Now(id) <= Now(id)' /\ Now(id)' \in Nat
<1> DEFINE update == [NoUpdate EXCEPT !.datapoint = Some(Scalar("Int32", updates_made + 1))]
<1>1. updates_made \in Nat /\ updates_made' = updates_made + 1
  BY DEF ValuesMade, Commit
<1>2. /\ DOMAIN update = {"metadata_set", "datapoint", "actuator_target", "allowed"}
      /\ update.datapoint # None /\ update.datapoint[1] = Scalar("Int32", updates_made + 1)
  BY DEF NoUpdate, Some, None
<1>3. update_entry(ALLOW_ALL(Paths), Provided, update)
  BY Zenon DEF Commit
<1> HIDE DEF update
<1>4. PICK v : v = Scalar("Int32", updates_made + 1)
  BY Zenon
<1>5. /\ DOMAIN entries' = DOMAIN entries
      /\ \A x \in DOMAIN entries :
            /\ DOMAIN entries'[x] = {"datapoint", "actuator_target", "metadata"}
            /\ "data_type" \in DOMAIN entries'[x].metadata
            /\ entries'[x].metadata.data_type = entries[x].metadata.data_type
            /\ entries'[x].datapoint = entries[x].datapoint \/ entries'[x].datapoint = v
  BY <1>2, <1>3, <1>4, UpdateEntryValues
<1>6. ValuesMade'
  <2> SUFFICES ASSUME NEW x \in DOMAIN entries
               PROVE  \/ entries'[x].datapoint = NotAvailable
                      \/ \E k \in 1..updates_made' : entries'[x].datapoint = Scalar("Int32", k)
    BY <1>1, <1>5 DEF ValuesMade
  <2>1. CASE entries'[x].datapoint = v
    <3>1. updates_made + 1 \in 1..updates_made'
      BY <1>1
    <3> QED
      BY <1>4, <2>1, <3>1
  <2>2. CASE entries'[x].datapoint = entries[x].datapoint
    <3>1. \A k \in 1..updates_made : k \in 1..updates_made'
      BY <1>1
    <3> QED
      BY <2>2, <3>1 DEF ValuesMade
  <2> QED
    BY <1>5, <2>1, <2>2
<1>7. v.v[1] = updates_made + 1 /\ v # NotAvailable
  BY <1>4 DEF Scalar, NotAvailable
<1>8. ASSUME NEW id PROVE Now(id) <= Now(id)' /\ Now(id)' \in Nat
  <2>1. Now(id) \in Nat
    BY NowType
  <2>2. CASE id \in DOMAIN entries /\ entries'[id].datapoint = v
    <3>1. Now(id)' = updates_made + 1
      BY <1>5, <1>7, <2>2 DEF Now
    <3>2. Now(id) <= updates_made
      <4>1. CASE entries[id].datapoint = NotAvailable
        BY <1>1, <4>1 DEF Now
      <4>2. CASE entries[id].datapoint # NotAvailable
        <5>1. PICK k \in 1..updates_made : entries[id].datapoint = Scalar("Int32", k)
          BY <2>2, <4>2 DEF ValuesMade
        <5>2. Scalar("Int32", k).v[1] = k
          BY DEF Scalar
        <5>3. Now(id) = k
          BY <2>2, <4>2, <5>1, <5>2 DEF Now
        <5> QED
          BY <1>1, <5>3
      <4> QED
        BY <4>1, <4>2
    <3> QED
      BY <1>1, <2>1, <3>1, <3>2
  <2>3. CASE id \notin DOMAIN entries \/ entries'[id].datapoint = entries[id].datapoint
    BY <1>5, <2>1, <2>3 DEF Now
  <2> QED
    BY <1>5, <2>2, <2>3
<1> QED
  BY <1>6, <1>8

\* A value of the entry that is not below the one before keeps the chain.
LEMMA ChainRaised ==
    ASSUME VissInv, NEW s \in DOMAIN subs, UNCHANGED << conns, subs >>,
           Now(subs[s].entry) <= Now(subs[s].entry)', Now(subs[s].entry)' \in Nat
    PROVE  EventChain(s)'
<1>1. PICK now, now2, w : now = Now(subs[s].entry) /\ now2 = Now(subs[s].entry)' /\ w = subs[s].conn
  BY Zenon
<1>2. now \in Nat /\ now2 \in Nat /\ now <= now2
  BY <1>1, NowType DEF VissInv
<1>3. EventChain(s) /\ Events(w, s)' = Events(w, s) /\ Events(w, s) \subseteq DOMAIN conns[w].sent
  BY DEF VissInv, SubInv, Events
<1>4. /\ \A i \in DOMAIN conns[w].sent : Latest(conns[w].sent[i]) \in Nat
      /\ \A h \in DOMAIN subs[s].hand : Latest(subs[s].hand[h]) \in Nat
      /\ \A c \in DOMAIN subs[s].channel : Latest(subs[s].channel[c]) \in Nat
  BY <1>1, MessageTypes, ZenonT(30)
<1>5. \A i \in Events(w, s) : Latest(conns[w].sent[i]) <= now2
  BY <1>1, <1>2, <1>3, <1>4 DEF EventChain
<1>6. \A h \in DOMAIN subs[s].hand : Latest(subs[s].hand[h]) <= now2
  BY <1>1, <1>2, <1>3, <1>4 DEF EventChain
<1>7. \A c \in DOMAIN subs[s].channel : Latest(subs[s].channel[c]) <= now2
  BY <1>1, <1>2, <1>3, <1>4 DEF EventChain
<1> QED
  BY <1>1, <1>3, <1>5, <1>6, <1>7 DEF EventChain

\* The provider commits a value: the entry is ahead of what was sent.
LEMMA CommitInv == ASSUME VissInv, Commit PROVE VissInv'
<1>1. ValuesMade' /\ \A id : Now(id) <= Now(id)' /\ Now(id)' \in Nat
  BY CommitValues DEF VissInv
<1>2. UNCHANGED << conns, subs >> /\ DOMAIN writer' = {"phase", "left"} /\ writer'.left = writer.left
  BY DEF Commit, VissInv
<1>3. \A w \in Connections : ConnInv(w)'
  BY <1>2, ConnKept DEF VissInv
<1>4. ASSUME NEW s \in DOMAIN subs PROVE SubInv(s)'
  <2>1. EventChain(s)'
    BY <1>1, <1>2, ChainRaised
  <2>2. SubShape(s)'
    BY <1>2 DEF VissInv, SubInv, SubShape
  <2>3. Confirmed(s) /\ (subs[s].state = "ended" => subs[s].hand = None)
    BY DEF VissInv, SubInv, Confirmed
  <2>4. \A w : SentKept(w) /\ (Pending(w, s)' => Pending(w, s))
    BY <1>2 DEF SentKept, Pending
  <2>5. Confirmed(s)'
    BY <1>2, <2>3, <2>4, ConfirmedKept, EventsKept
  <2> QED
    BY <2>1, <2>2, <2>5 DEF SubInv
<1> QED
  BY <1>1, <1>2, <1>3, <1>4 DEF VissInv

\* The provider finds the subscriptions to notify.
LEMMA NotifyStartInv == ASSUME VissInv, NotifyStart PROVE VissInv'
<1>1. UNCHANGED << conns, subs, entries, updates_made >>
  BY DEF NotifyStart, dbVars
<1>2. DOMAIN writer' = {"phase", "left"} /\ writer'.left \subseteq DOMAIN subs
  BY DEF NotifyStart, Phase
<1>3. ValuesMade' /\ \A id : Now(id)' = Now(id)
  BY <1>1 DEF VissInv, ValuesMade, Now
<1>4. \A w \in Connections : ConnInv(w)'
  BY <1>1, ConnKept DEF VissInv
<1>5. \A t \in DOMAIN subs : SubInv(t)'
  BY <1>1, <1>3, SubKept DEF VissInv
<1> QED
  BY <1>1, <1>2, <1>3, <1>4, <1>5 DEF VissInv

------------------------------------------------------------------------------
(* The background tasks *)

\* A task takes the first event of its channel into its hand.
LEMMA TaskTakeInv == ASSUME VissInv, NEW s \in DOMAIN subs, TaskTake(s) PROVE VissInv'
<1>1. PICK w, old, m, rest : w = subs[s].conn /\ old = subs[s] /\ m = Head(old.channel) /\ rest = Tail(old.channel)
  BY Zenon
<1>2. PICK new : new = [old EXCEPT !.hand = << m >>, !.channel = rest]
  BY Zenon
<1>3. /\ SubShape(s) /\ old.state = "active" /\ old.hand = None /\ old.channel \in Seq(EventMessage(s))
      /\ old.channel # << >>
  BY <1>1 DEF TaskTake, VissInv, SubInv, SubShape
<1>4. UNCHANGED << conns, entries, updates_made, writer >> /\ subs' = [subs EXCEPT ![s] = new]
  BY <1>1, <1>2, <1>3, Zenon DEF TaskTake, dbVars, Some, SubShape
<1>5. /\ DOMAIN new = DOMAIN old /\ new.conn = w /\ new.entry = old.entry /\ new.state = "active"
      /\ new.hand = << m >> /\ new.channel = rest /\ subs'[s] = new
  BY <1>1, <1>2, <1>3, <1>4 DEF SubShape
<1>6. /\ m \in EventMessage(s) /\ rest \in Seq(EventMessage(s)) /\ 1 \in DOMAIN old.channel /\ m = old.channel[1]
      /\ \A i \in DOMAIN rest : i \in Nat /\ i > 0 /\ i + 1 \in DOMAIN old.channel /\ rest[i] = old.channel[i + 1]
  BY <1>1, <1>3
<1>7. SubShape(s)'
  <2>1. << m >> \in Option(EventMessage(s))
    BY <1>6 DEF Option
  <2> QED
    BY <1>1, <1>3, <1>5, <1>6, <2>1, Zenon DEF SubShape
<1>8. PICK E : E = Events(w, s) /\ E = Events(w, s)'
  BY <1>4, Zenon DEF Events
<1>9. EventChain(s)'
  <2>1. PICK now : now = Now(old.entry) /\ now = Now(old.entry)'
    BY <1>4 DEF Now
  <2>2. PICK sent, channel : sent = conns[w].sent /\ channel = old.channel
    BY Zenon
  <2>3. /\ \A i, j \in E : i < j => Latest(sent[i]) <= Latest(sent[j]) /\ sent[j].status = 0
        /\ \A i \in E :
              Latest(sent[i]) <= now /\ \A c \in DOMAIN channel : Follows(channel[c], Latest(sent[i]))
        /\ \A c \in DOMAIN channel :
              /\ Latest(channel[c]) <= now
              /\ \A d \in DOMAIN channel : c < d => Follows(channel[d], Latest(channel[c]))
    BY <1>1, <1>8, <2>1, <2>2, Zenon DEF EventChain, VissInv, SubInv
  <2>4. \A i \in DOMAIN rest : 1 < i + 1 /\ \A j \in DOMAIN rest : i < j => i + 1 < j + 1
    BY <1>6
  <2>5. /\ \A i \in E :
              /\ Latest(sent[i]) <= now /\ Follows(m, Latest(sent[i]))
              /\ \A c \in DOMAIN rest : Follows(rest[c], Latest(sent[i]))
        /\ Latest(m) <= now /\ \A c \in DOMAIN rest : Follows(rest[c], Latest(m))
        /\ \A c \in DOMAIN rest :
              /\ Latest(rest[c]) <= now
              /\ \A d \in DOMAIN rest : c < d => Follows(rest[d], Latest(rest[c]))
    BY <1>6, <2>2, <2>3, <2>4
  <2>6. \A h \in DOMAIN << m >> : << m >>[h] = m
    OBVIOUS
  <2>7. PICK hand : hand = << m >> /\ \A h \in DOMAIN hand : hand[h] = m
    BY <2>6, Zenon
  <2>8. conns'[w].sent = sent
    BY <1>4, <2>2, Zenon
  <2> QED
    BY <1>5, <1>8, <2>1, <2>3, <2>5, <2>7, <2>8, ZenonT(30) DEF EventChain
<1>10. Confirmed(s)'
  <2>1. PICK C : C = Confirmations(w, s) /\ C = Confirmations(w, s)' /\ C \subseteq DOMAIN conns[w].sent
    BY <1>4, Zenon DEF Confirmations, Responses
  <2>2. Pending(w, s)' <=> Pending(w, s)
    BY <1>4 DEF Pending
  <2>3. (Pending(w, s) => C = {}) /\ \A h, i \in C : h = i
    BY <1>1, <1>3, <2>1, Zenon DEF Confirmed, VissInv, SubInv
  <2>4. conns[w].sent \in Seq(SentMessage)
    BY <1>1, MessageTypes
  <2>5. \A i \in DOMAIN conns[w].sent : i \in Nat
    BY <2>4
  <2>6. \A i \in C : ~(i < i)
    BY <2>1, <2>5
  <2> QED
    BY <1>5, <2>1, <2>2, <2>3, <2>6 DEF Confirmed
<1> QED
  BY <1>1, <1>3, <1>4, <1>5, <1>7, <1>9, <1>10, OneSub, Zenon DEF SubInv, VissInv

\* A task ends with nothing in its hand, or the token of its subscription expires.
LEMMA TaskEndInv ==
    ASSUME VissInv, NEW s \in DOMAIN subs, TaskEnd(s) \/ ExpireSubscriber(s) PROVE VissInv'
<1>1. PICK w, old : w = subs[s].conn /\ old = subs[s]
  BY Zenon
<1>2. PICK new : \/ TaskEnd(s) /\ new = [old EXCEPT !.state = "ended", !.channel = << >>]
                 \/ ExpireSubscriber(s) /\ new = [old EXCEPT !.expired = TRUE]
  BY Zenon
<1>3. SubShape(s)
  BY DEF VissInv, SubInv
<1>4. UNCHANGED << conns, entries, updates_made, writer >> /\ subs' = [subs EXCEPT ![s] = new]
  BY <1>1, <1>2, <1>3, Zenon DEF TaskEnd, ExpireSubscriber, dbVars, SubShape
<1>5. /\ DOMAIN new = DOMAIN old /\ new.conn = w /\ new.entry = old.entry
      /\ new.hand = old.hand /\ new.channel \in {old.channel, << >>} /\ subs'[s] = new
      /\ new.state # old.state => new.state = "ended"
      /\ old.state # "new" /\ (new.state = "ended" => new.hand = None)
  BY <1>1, <1>2, <1>3, <1>4 DEF SubShape, TaskEnd, ExpireSubscriber
<1>6. SubShape(s)'
  <2>1. new.channel \in Seq(EventMessage(s)) /\ new.state \in {"new", "active", "aborted", "ended"}
    <3>1. old.channel \in Seq(EventMessage(s)) /\ old.state \in {"new", "active", "aborted", "ended"}
      BY <1>1, <1>3 DEF SubShape
    <3>2. new.channel = old.channel \/ new.channel = << >>
      BY <1>5
    <3>3. new.state = old.state \/ new.state = "ended"
      BY <1>5
    <3>4. << >> \in Seq(EventMessage(s))
      OBVIOUS
    <3> QED
      BY <3>1, <3>2, <3>3, <3>4, Zenon
  <2> QED
    BY <1>1, <1>3, <1>5, <2>1 DEF SubShape
<1>7. HoldsLess(s) /\ SentKept(w) /\ Now(old.entry)' = Now(old.entry)
  BY <1>1, <1>4, <1>5 DEF HoldsLess, SentKept, Now
<1>8. EventChain(s) /\ Confirmed(s)
  BY DEF SubInv, VissInv
<1>9. EventChain(s)'
  <2>1. \A i \in Events(w, s)' : i \in Events(w, s) /\ conns'[w].sent[i] = conns[w].sent[i]
    BY <1>7, EventsKept
  <2>2. Now(subs[s].entry)' = Now(subs[s].entry)
    BY <1>1, <1>4, <1>5 DEF Now
  <2> QED
    BY <1>1, <1>7, <1>8, <2>1, <2>2, ChainKept, Zenon
<1>10. Pending(w, s)' => Pending(w, s)
  BY <1>4 DEF Pending
<1>11. Confirmed(s)'
  BY <1>1, <1>4, <1>5, <1>7, <1>10, <1>8, ConfirmedKept, EventsKept
<1> QED
  BY <1>1, <1>4, <1>5, <1>6, <1>9, <1>11, OneSub, Zenon DEF SubInv, VissInv

\* The provider puts an event with the value of now into a channel.
LEMMA NotifyInv == ASSUME VissInv, NEW s, Notify(s) PROVE VissInv'
<1>1. PICK event : event = EventOf(s, subs[s])
  BY Zenon
<1>2. /\ s \in DOMAIN subs /\ UNCHANGED << conns, entries, updates_made >>
      /\ DOMAIN writer' = {"phase", "left"} /\ writer'.left \subseteq DOMAIN subs
  BY Zenon DEF Notify, Phase, VissInv, dbVars
<1>3. ValuesMade' /\ \A id : Now(id)' = Now(id)
  BY <1>2 DEF VissInv, ValuesMade, Now
<1>4. CASE UNCHANGED subs
  <2>1. \A w \in Connections : ConnInv(w)'
    BY <1>2, <1>4, ConnKept DEF VissInv
  <2>2. \A t \in DOMAIN subs : SubInv(t)'
    BY <1>2, <1>3, <1>4, SubKept DEF VissInv
  <2> QED
    BY <1>2, <1>3, <1>4, <2>1, <2>2 DEF VissInv
<1>5. CASE event.error = "Ok" /\ subs' = [subs EXCEPT ![s].channel = Append(@, event)]
  <2>1. PICK w, old, channel : w = subs[s].conn /\ old = subs[s] /\ channel = Append(old.channel, event)
    BY Zenon
  <2>2. PICK new : new = [old EXCEPT !.channel = channel]
    BY Zenon
  <2>3. PICK e, now : e = old.entry /\ now = Now(e) /\ now = Now(e)'
    BY <1>3
  <2>4. event \in EventMessage(s) /\ Latest(event) = now /\ now \in Nat
    BY <1>1, <1>5, <2>1, <2>3, EventFacts, NowType, Zenon DEF VissInv
  <2>5. SubShape(s) /\ old.channel \in Seq(EventMessage(s))
    BY <1>2, <2>1 DEF VissInv, SubInv, SubShape
  <2>6. subs' = [subs EXCEPT ![s] = new]
    BY <1>2, <1>5, <2>1, <2>2
  <2>7. /\ DOMAIN new = DOMAIN old /\ new.conn = w /\ new.entry = e /\ new.state = old.state
        /\ new.hand = old.hand /\ new.channel = channel /\ subs'[s] = new
    BY <1>2, <2>1, <2>2, <2>3, <2>5, <2>6 DEF SubShape
  <2>8. PICK n \in Nat : /\ n = Len(old.channel) /\ DOMAIN old.channel = 1..n /\ DOMAIN channel = 1..(n + 1)
                         /\ channel[n + 1] = event /\ channel \in Seq(EventMessage(s))
                         /\ \A i \in 1..n : channel[i] = old.channel[i]
    BY <2>1, <2>4, <2>5
  <2>9. SubShape(s)'
    BY <2>1, <2>5, <2>7, <2>8, Zenon DEF SubShape
  <2>10. PICK E, sent, hand : /\ E = Events(w, s) /\ E = Events(w, s)' /\ hand = old.hand
                              /\ sent = conns[w].sent /\ sent = conns'[w].sent
    BY <1>2, Zenon DEF Events
  <2>11. EventChain(s)'
    <3>1. /\ \A i, j \in E : i < j => Latest(sent[i]) <= Latest(sent[j]) /\ sent[j].status = 0
          /\ \A i \in E :
                /\ Latest(sent[i]) <= now
                /\ \A h \in DOMAIN hand : Follows(hand[h], Latest(sent[i]))
                /\ \A c \in 1..n : Follows(old.channel[c], Latest(sent[i]))
          /\ \A h \in DOMAIN hand :
                /\ Latest(hand[h]) <= now
                /\ \A c \in 1..n : Follows(old.channel[c], Latest(hand[h]))
          /\ \A c \in 1..n :
                /\ Latest(old.channel[c]) <= now
                /\ \A d \in 1..n : c < d => Follows(old.channel[d], Latest(old.channel[c]))
      BY <1>2, <2>1, <2>3, <2>8, <2>10, ZenonT(30) DEF EventChain, VissInv, SubInv
    <3>2. \A v : v <= now => Follows(event, v)
      BY <1>5, <2>4 DEF Follows
    <3>3. \A c \in 1..(n + 1) : (c \in 1..n /\ channel[c] = old.channel[c]) \/ (c = n + 1 /\ channel[c] = event)
      BY <2>8
    <3>4. \A c, d \in 1..(n + 1) : c < d => c \in 1..n
      BY <2>8
    <3>5. /\ \A i \in E : \A c \in 1..(n + 1) : Follows(channel[c], Latest(sent[i]))
          /\ \A h \in DOMAIN hand : \A c \in 1..(n + 1) : Follows(channel[c], Latest(hand[h]))
      BY <3>1, <3>2, <3>3, Zenon
    <3>6. \A c \in 1..(n + 1) : Latest(channel[c]) <= now
      BY <2>4, <3>1, <3>3
    <3>7. \A c, d \in 1..(n + 1) : c < d => Follows(channel[d], Latest(channel[c]))
      <4> SUFFICES ASSUME NEW c \in 1..(n + 1), NEW d \in 1..(n + 1), c < d
                   PROVE  Follows(channel[d], Latest(channel[c]))
        OBVIOUS
      <4>1. c \in 1..n /\ channel[c] = old.channel[c]
        BY <2>8, <3>4
      <4>2. CASE d \in 1..n
        <5>1. channel[d] = old.channel[d]
          BY <2>8, <4>2
        <5> QED
          BY <3>1, <4>1, <4>2, <5>1, Zenon
      <4>3. CASE d = n + 1
        BY <2>8, <3>2, <3>6, <4>3, ZenonT(30)
      <4> QED
        BY <3>3, <4>2, <4>3
    <3> QED
      BY <2>3, <2>7, <2>8, <2>10, <3>1, <3>5, <3>6, <3>7, Zenon DEF EventChain
  <2>12. Confirmed(s)'
    <3>1. SentKept(w) /\ (Pending(w, s)' => Pending(w, s))
      BY <1>2, Zenon DEF SentKept, Pending
    <3>2. Confirmed(s) /\ (old.state = "ended" => old.hand = None)
      BY <1>2, <2>1, ZenonT(30) DEF VissInv, SubInv, Confirmed
    <3> QED
      BY <1>2, <2>1, <2>7, <3>1, <3>2, ConfirmedKept, EventsKept, Zenon
  <2> QED
    BY <1>2, <2>1, <2>6, <2>7, <2>9, <2>11, <2>12, OneSub, Zenon DEF SubInv
<1> QED
  BY <1>1, <1>4, <1>5 DEF Notify

------------------------------------------------------------------------------
(* The read task *)

\* The steps that handle a request, or forward a message, change one connection.
LEMMA OneConn ==
    ASSUME VissInv, NEW w \in Connections, NEW new, conns' = [conns EXCEPT ![w] = new],
           IsSeq(subs'), DOMAIN subs \subseteq DOMAIN subs', UNCHANGED writer,
           ValuesMade', \A id : Now(id)' = Now(id), ConnInv(w)',
           \A s \in DOMAIN subs : subs[s].conn # w => subs'[s] = subs[s],
           \A s \in DOMAIN subs : subs'[s].conn = subs[s].conn,
           \A s \in DOMAIN subs : subs[s].conn = w => SubInv(s)',
           \A s \in DOMAIN subs' : s \notin DOMAIN subs => SubInv(s)'
    PROVE  VissInv'
<1>1. DOMAIN conns' = Connections /\ \A v \in Connections : v # w => conns'[v] = conns[v]
  BY DEF VissInv
<1>2. ASSUME NEW v \in Connections, v # w PROVE ConnInv(v)'
  <2>1. \A s \in DOMAIN subs :
              /\ s \in DOMAIN subs' /\ subs'[s].conn = subs[s].conn
              /\ subs[s].conn = v /\ subs[s].state = "new" => subs'[s].state = "new"
    BY <1>2
  <2>2. ConnInv(v) /\ conns'[v] = conns[v]
    BY <1>1, <1>2 DEF VissInv
  <2> QED
    BY <2>1, <2>2, ConnKept, Zenon
<1>3. ASSUME NEW s \in DOMAIN subs, subs[s].conn # w PROVE SubInv(s)'
  <2>1. PICK v : v = subs[s].conn
    BY ZenonT(30)
  <2>2. v \in Connections /\ SubInv(s)
    BY <2>1, ZenonT(30) DEF VissInv, SubInv, SubShape
  <2>3. conns'[v] = conns[v] /\ subs'[s] = subs[s]
    BY <1>1, <1>3, <2>1, <2>2
  <2> QED
    BY <2>1, <2>2, <2>3, SubKept
<1>4. \A v \in Connections : ConnInv(v)'
  BY <1>2
<1>5. \A s \in DOMAIN subs' : SubInv(s)'
  BY <1>3
<1>6. DOMAIN writer' = {"phase", "left"} /\ writer'.left \subseteq DOMAIN subs'
  BY DEF VissInv
<1> QED
  BY <1>1, <1>4, <1>5, <1>6, ZenonT(30) DEF VissInv

\* Request i is read: what is kept, and what the connection is then.
LEMMA ReadFacts ==
    ASSUME VissInv, NEW w \in Connections, conns[w].open, conns[w].handling = None,
           NEW h, DOMAIN h = {"request", "step", "response"}, h.response.request = Number(w),
           h.response.subscription \in Nat,
           conns' = [conns EXCEPT ![w].handling = Some(h), ![w].handled = @ + 1]
    PROVE  /\ \E new : conns' = [conns EXCEPT ![w] = new]
           /\ conns'[w].sent = conns[w].sent /\ conns'[w].handling = << h >>
           /\ ConnShape(conns[w])' /\ ParkedBeyond(conns[w])' /\ Answered(w)'
<1>1. PICK c : c = conns[w]
  BY Zenon
<1>2. ConnShape(c) /\ ParkedBeyond(c) /\ Answered(w) /\ DOMAIN conns = Connections
  BY <1>1 DEF VissInv, ConnInv
<1>3. PICK new : new = [c EXCEPT !.handling = << h >>, !.handled = @ + 1]
  BY Zenon
<1>4. conns' = [conns EXCEPT ![w] = new]
  BY <1>1, <1>2, <1>3, Zenon DEF Some
<1>5. /\ DOMAIN new = DOMAIN c /\ new.handling = << h >> /\ new.handled = c.handled + 1
      /\ new.open = c.open /\ new.sent = c.sent /\ new.read = c.read /\ new.parked = c.parked
      /\ conns'[w] = new
  BY <1>2, <1>3, <1>4, Zenon DEF ConnShape
<1>6. ConnShape(conns[w])'
  <2>1. c.handled \in Nat /\ c.open /\ h.response.request = new.handled /\ new.handling[1] = h
    BY <1>1, <1>2, <1>5 DEF ConnShape, Number
  <2>2. new.handling = << new.handling[1] >> /\ new.handled \in Nat /\ new.handled > 0
    BY <1>5, <2>1
  <2>3. /\ DOMAIN c = {"open", "handling", "handled", "sent", "read", "parked"} /\ c.open \in BOOLEAN
        /\ c.read \in Nat /\ c.sent \in Seq(SentMessage) /\ c.parked \in Seq(Nat)
    BY <1>2, Zenon DEF ConnShape
  <2>4. ConnShape(new)
    BY <1>5, <2>1, <2>2, <2>3 DEF ConnShape
  <2> QED
    BY <1>5, <2>4, Zenon DEF ConnShape
<1>7. ParkedBeyond(conns[w])'
  BY <1>2, <1>5, Zenon DEF ParkedBeyond, Queued
<1>8. Answered(w)'
  <2>1. Responses(w)' = Responses(w)
    BY <1>1, <1>5 DEF Responses
  <2>2. new.handled - Len(new.handling) = c.handled - Len(c.handling)
    BY <1>1, <1>2, <1>5 DEF ConnShape, None
  <2>3. /\ {c.sent[i].request : i \in Responses(w)} = 1..(c.handled - Len(c.handling))
        /\ \A i, j \in Responses(w) : i < j => c.sent[i].request < c.sent[j].request
    BY <1>1, <1>2, Zenon DEF Answered
  <2>4. PICK R, n : R = Responses(w) /\ R = Responses(w)' /\ n = c.handled - Len(c.handling)
                    /\ n = new.handled - Len(new.handling)
    BY <2>1, <2>2, Zenon
  <2>5. {conns'[w].sent[i].request : i \in Responses(w)'} = {c.sent[i].request : i \in Responses(w)}
    BY <1>5, <2>1, ZenonT(30)
  <2> QED
    BY <1>5, <2>3, <2>4, <2>5, Zenon DEF Answered
<1> QED
  BY <1>1, <1>4, <1>5, <1>6, <1>7, <1>8, Zenon

\* A subscription that a request is not about.
LEMMA NotAsked ==
    ASSUME VissInv, NEW s \in DOMAIN subs, subs'[s] = subs[s], NEW w, w = subs[s].conn,
           conns[w].handling = None, conns'[w].sent = conns[w].sent, \A id : Now(id)' = Now(id),
           ~Pending(w, s)'
    PROVE  SubInv(s)'
<1>1. SentKept(w)
  BY DEF SentKept
<1>2. subs[s].state # "new"
  BY ZenonT(30) DEF VissInv, SubInv, Confirmed, Pending
<1> QED
  BY <1>1, <1>2, SubUntouched DEF VissInv

\* Requests that are answered at once, and are about no subscription.
LEMMA AnswerInv ==
    ASSUME VissInv, NEW w \in Connections, conns[w].open, conns[w].handling = None,
           NEW i, NEW response, Answer(w, i, response), response.request = Number(w),
           response.subscription \in Nat, response.subscription = 0 \/ response.error # "Ok",
           UNCHANGED << subs, writer >>, ValuesMade', \A id : Now(id)' = Now(id)
    PROVE  VissInv'
<1>1. PICK h : h = [request |-> i, step |-> "respond", response |-> response]
  BY Zenon
<1>2. DOMAIN h = {"request", "step", "response"} /\ h.response = response /\ h.step = "respond"
  BY <1>1
<1>3. /\ \E new : conns' = [conns EXCEPT ![w] = new]
      /\ conns'[w].sent = conns[w].sent /\ conns'[w].handling = << h >>
      /\ ConnShape(conns[w])' /\ ParkedBeyond(conns[w])' /\ Answered(w)'
  <2>1. conns' = [conns EXCEPT ![w].handling = Some(h), ![w].handled = @ + 1]
    BY <1>1, Zenon DEF Answer
  <2>2. h.response.request = Number(w) /\ h.response.subscription \in Nat
    BY <1>2, Zenon
  <2> QED
    BY <1>2, <2>1, <2>2, ReadFacts, Zenon
<1>4. SubsKnown(w)'
  <2>1. SubsKnown(w)
    BY Zenon DEF VissInv, ConnInv
  <2>2. << h >>[1] = h
    OBVIOUS
  <2>3. SubsKnown(w) /\ conns'[w].handling[1] = h
    BY <1>3, <2>1, <2>2, Zenon
  <2> QED
    BY <1>2, <1>3, <2>3, Zenon DEF SubsKnown
<1>5. IsSeq(subs) /\ DOMAIN subs = 1..Len(subs)
  BY SeqFacts DEF VissInv
<1>6. IsSeq(subs) /\ \A s \in DOMAIN subs : s # 0
  BY <1>5
<1>7. ASSUME NEW s \in DOMAIN subs, subs[s].conn = w PROVE SubInv(s)'
  <2>1. ~Pending(w, s)'
    <3>1. conns'[w].handling[1] = h
      BY <1>3
    <3> QED
      BY <1>2, <1>6, <3>1 DEF Pending
  <2> QED
    BY <1>3, <1>7, <2>1, NotAsked
<1> QED
  BY <1>3, <1>4, <1>6, <1>7, OneConn, Zenon DEF ConnInv

\* The requests that only give an answer, or set a target.
LEMMA ReadInv ==
    ASSUME VissInv, NEW w \in Connections, NEW i \in DOMAIN Requests,
           get(w, i) \/ GetMetadata(w, i) \/ set(w, i) \/ Malformed(w, i)
    PROVE  VissInv'
<1>1. conns[w].open /\ conns[w].handling = None /\ UNCHANGED << subs, writer, updates_made >>
  BY DEF get, GetMetadata, set, Malformed, Reads
<1>2. ValuesMade' /\ \A id : Now(id)' = Now(id)
  <2>1. CASE UNCHANGED entries
    BY <1>1, <2>1, SetValues, Zenon DEF VissInv
  <2>2. CASE set(w, i) /\ ~UNCHANGED entries
    <3>1. PICK update : update = SetOutcome(i).update
      BY ZenonT(30)
    <3>2. /\ SetOutcome(i).error = "Ok"
          /\ update_entry(Resolved[i].perm, path_to_id[Requests[i].path], update)
      BY <2>2, <3>1, Zenon DEF set, dbVars
    <3>3. update.datapoint = None /\ DOMAIN update = {"metadata_set", "datapoint", "actuator_target", "allowed"}
      BY <3>1 DEF SetOutcome, NoUpdate
    <3> QED
      BY <1>1, <3>2, <3>3, SetValues DEF VissInv
  <2> QED
    BY <2>1, <2>2 DEF get, GetMetadata, Malformed, dbVars
<1>3. PICK response : /\ Answer(w, i, response) /\ response.request = Number(w)
                      /\ response.subscription = 0
  <2>1. \A error, value : Message(Number(w), 0, error, value).request = Number(w)
                          /\ Message(Number(w), 0, error, value).subscription = 0
    BY DEF Message
  <2>2. \A m : LET r == [Message(Number(w), 0, "Ok", VissNone) EXCEPT !.metadata = m]
               IN  r.request = Number(w) /\ r.subscription = 0
    BY DEF Message
  <2>3. CASE GetMetadata(w, i)
    BY <2>2, <2>3, Zenon DEF GetMetadata
  <2>4. CASE get(w, i)
    <3>1. PICK error, value : Answer(w, i, Message(Number(w), 0, error, value))
      BY <2>4, Zenon DEF get
    <3> QED
      BY <2>1, <3>1, Zenon
  <2>5. CASE set(w, i)
    BY <2>1, <2>5, Zenon DEF set
  <2>6. CASE Malformed(w, i)
    BY <2>1, <2>6, Zenon DEF Malformed
  <2> QED
    BY <2>3, <2>4, <2>5, <2>6
<1> QED
  BY <1>1, <1>2, <1>3, AnswerInv

\* A subscription is made: its first event is in its channel, and its
\* confirmation is to be sent.
LEMMA SubscribeInitialInv ==
    ASSUME VissInv, NEW w \in Connections, NEW i \in DOMAIN Requests, SubscribeInitial(w, i)
    PROVE  VissInv'
<1>1. conns[w].open /\ conns[w].handling = None /\ UNCHANGED << entries, writer, updates_made >>
  BY DEF SubscribeInitial, Reads, dbVars
<1>2. ValuesMade' /\ \A id : Now(id)' = Now(id)
  BY <1>1, SetValues DEF VissInv
<1>3. IsSeq(subs) /\ Len(subs) \in Nat /\ DOMAIN subs = 1..Len(subs)
  BY SeqFacts DEF VissInv
<1>4. PICK s \in Nat : s = Len(subs) + 1
  BY <1>3
<1>5. CASE UNCHANGED subs /\ \E error : Answer(w, i, Message(Number(w), 0, error, VissNone))
  <2>1. PICK error : Answer(w, i, Message(Number(w), 0, error, VissNone))
    BY <1>5
  <2>2. PICK m : m = Message(Number(w), 0, error, VissNone)
    BY Zenon
  <2>3. m.request = Number(w) /\ m.subscription = 0
    BY <2>2 DEF Message
  <2> QED
    BY <1>1, <1>2, <1>5, <2>1, <2>2, <2>3, AnswerInv
<1>6. ASSUME NEW sub, sub.conn = w, sub.state = "new", sub.channel = << >>, sub.hand = None,
             DOMAIN sub = {"conn", "request", "entry", "expired", "state", "channel", "hand"},
             subs' = Append(subs, [sub EXCEPT !.channel = << EventOf(s, sub) >>]),
             conns' = [conns EXCEPT
                          ![w].handling = Some([request |-> i, step |-> "add", response |->
                                                  Message(Number(w), s, "Ok", VissNone)]),
                          ![w].handled = @ + 1]
      PROVE  VissInv'
  <2>1. PICK h, event : /\ h = [request |-> i, step |-> "add", response |-> Message(Number(w), s, "Ok", VissNone)]
                        /\ event = EventOf(s, sub)
    BY Zenon
  <2>2. /\ DOMAIN h = {"request", "step", "response"} /\ h.step = "add" /\ h.response.request = Number(w)
        /\ h.response.subscription = s /\ h.response.error = "Ok"
    BY <2>1 DEF Message
  <2>3. /\ \E new : conns' = [conns EXCEPT ![w] = new]
        /\ conns'[w].sent = conns[w].sent /\ conns'[w].handling = << h >>
        /\ ConnShape(conns[w])' /\ ParkedBeyond(conns[w])' /\ Answered(w)'
    <3>1. conns' = [conns EXCEPT ![w].handling = Some(h), ![w].handled = @ + 1]
      BY <1>6, <2>1, Zenon
    <3>2. h.response.subscription \in Nat
      BY <2>2
    <3> QED
      BY <1>1, <2>2, <3>1, <3>2, ReadFacts, Zenon
  <2>4. PICK made : made = [sub EXCEPT !.channel = << event >>]
    BY Zenon
  <2>5. /\ DOMAIN made = DOMAIN sub /\ made.conn = w /\ made.state = "new" /\ made.hand = None
        /\ made.channel = << event >> /\ made.entry = sub.entry
    BY <1>6, <2>4
  <2>6. /\ IsSeq(subs') /\ DOMAIN subs' = 1..s /\ subs'[s] = made
        /\ \A t \in DOMAIN subs : subs'[t] = subs[t]
    BY <1>3, <1>4, <1>6, <2>1, <2>4, AppendFacts
  <2>7. s \notin DOMAIN subs /\ s # 0 /\ DOMAIN subs' = DOMAIN subs \cup {s}
    BY <1>3, <1>4, <2>6
  <2>8. conns'[w].handling[1] = h /\ conns'[w].handling # None
    <3>1. << h >>[1] = h /\ << h >> # None
      BY DEF None
    <3> QED
      BY <2>3, <3>1, Zenon
  <2>9. conns'[w].sent = conns[w].sent
    BY <2>3
  <2>10. SubsKnown(w)
    BY Zenon DEF VissInv, ConnInv
  <2>11. SubsKnown(w)'
    <3>1. s \in DOMAIN subs' /\ subs'[s].conn = w /\ subs'[s].state = "new"
      BY <2>5, <2>6, <2>7, Zenon
    <3>2. \A j \in DOMAIN conns[w].sent :
             /\ conns[w].sent[j].request = Event => conns[w].sent[j].subscription \in DOMAIN subs'
             /\ conns[w].sent[j].status = 0 => conns[w].sent[j].subscription \in {0} \cup DOMAIN subs'
      BY <2>7, <2>10, ZenonT(30) DEF SubsKnown
    <3> QED
      BY <2>2, <2>8, <2>9, <3>1, <3>2, Zenon DEF SubsKnown
  <2>12. ASSUME NEW t \in DOMAIN subs, subs[t].conn = w PROVE SubInv(t)'
    <3>1. ~Pending(w, t)'
      BY <2>2, <2>7, <2>8 DEF Pending
    <3> QED
      BY <1>1, <1>2, <2>3, <2>6, <2>12, <3>1, NotAsked, ZenonT(30)
  <2>13. SubInv(s)'
    <3>1. event \in EventMessage(s) /\ Latest(event) <= Now(sub.entry)
      BY <2>1, EventFacts DEF VissInv
    <3>2. << event >> \in Seq(EventMessage(s)) /\ None \in Option(EventMessage(s))
      BY <3>1 DEF Option, None
    <3>3. SubShape(s)'
      BY <2>5, <2>6, <3>2, <1>6, Zenon DEF SubShape
    <3>4. Events(w, s)' = {} /\ Confirmations(w, s)' = {}
      BY <2>9, <2>7, <2>10, Zenon DEF Events, Confirmations, Responses, SubsKnown
    <3>5. PICK e, now : e = sub.entry /\ now = Now(e) /\ now = Now(e)' /\ Latest(event) <= now
      BY <1>2, <3>1
    <3>6. /\ DOMAIN << >> = {} /\ \A c \in DOMAIN << event >> : << event >>[c] = event
          /\ \A c, d \in DOMAIN << event >> : ~(c < d)
      OBVIOUS
    <3>7. PICK channel, hand : /\ channel = << event >> /\ hand = None /\ DOMAIN hand = {}
                               /\ \A c \in DOMAIN channel : channel[c] = event
                               /\ \A c, d \in DOMAIN channel : ~(c < d)
      BY <3>6, Zenon DEF None
    <3>8. EventChain(s)'
      BY <2>5, <2>6, <3>4, <3>5, <3>7, Zenon DEF EventChain
    <3>9. Pending(w, s)'
      BY <2>2, <2>8, Zenon DEF Pending
    <3>10. Confirmed(s)'
      BY <2>2, <2>5, <2>6, <2>8, <3>4, <3>9, Zenon DEF Confirmed
    <3> QED
      BY <3>3, <3>8, <3>10, Zenon DEF SubInv
  <2>14. PICK new : conns' = [conns EXCEPT ![w] = new]
    BY <2>3, Zenon
  <2>15. /\ \A t \in DOMAIN subs : subs'[t].conn = subs[t].conn /\ subs'[t] = subs[t]
         /\ \A t \in DOMAIN subs : subs[t].conn = w => SubInv(t)'
         /\ \A t \in DOMAIN subs' : t \notin DOMAIN subs => SubInv(t)'
    BY <2>6, <2>7, <2>12, <2>13
  <2>16. ConnInv(w)'
    BY <2>3, <2>11 DEF ConnInv
  <2> QED
    BY <1>1, <1>2, <2>6, <2>7, <2>14, <2>15, <2>16, OneConn, Zenon
<1>7. CASE ~UNCHANGED subs
  <2>1. PICK sub : sub = [conn |-> w, request |-> i, entry |-> path_to_id[Requests[i].path],
                          expired |-> FALSE, state |-> "new", channel |-> << >>, hand |-> None]
    BY Zenon
  <2>2. /\ sub.conn = w /\ sub.state = "new" /\ sub.channel = << >> /\ sub.hand = None
        /\ DOMAIN sub = {"conn", "request", "entry", "expired", "state", "channel", "hand"}
    BY <2>1
  <2>3. /\ subs' = Append(subs, [sub EXCEPT !.channel = << EventOf(s, sub) >>])
        /\ conns' = [conns EXCEPT
                          ![w].handling = Some([request |-> i, step |-> "add", response |->
                                                  Message(Number(w), s, "Ok", VissNone)]),
                          ![w].handled = @ + 1]
    BY <1>4, <1>7, <2>1, Zenon DEF SubscribeInitial
  <2> QED
    BY <1>6, <2>2, <2>3, Zenon
<1>8. CASE UNCHANGED subs
  <2>1. \A e : Append(subs, e) # subs
    <3>1. \A e : s \in DOMAIN Append(subs, e) /\ s \notin DOMAIN subs
      BY <1>3, <1>4, AppendFacts
    <3> QED
      BY <3>1, Zenon
  <2> QED
    BY <1>5, <1>8, <2>1, Zenon DEF SubscribeInitial
<1> QED
  BY <1>7, <1>8

\* The handle goes into the map: the subscription is active.
LEMMA SubscribeAddInv ==
    ASSUME VissInv, NEW w \in Connections, SubscribeAdd(w)
    PROVE  VissInv'
<1>1. PICK c, h, s : c = conns[w] /\ h = c.handling[1] /\ s = h.response.subscription
  BY Zenon
<1>2. ConnShape(c) /\ ParkedBeyond(c) /\ SubsKnown(w) /\ Answered(w) /\ DOMAIN conns = Connections
  BY <1>1 DEF VissInv, ConnInv
<1>3. /\ c.handling # None /\ h.step = "add" /\ UNCHANGED << entries, writer, updates_made >>
      /\ subs' = [subs EXCEPT ![s].state = "active"]
      /\ conns' = [conns EXCEPT ![w].handling[1].step = "respond"]
  BY <1>1 DEF SubscribeAdd, dbVars
<1>4. /\ c.handling = << h >> /\ DOMAIN h = {"request", "step", "response"} /\ c.open /\ c.handled > 0
      /\ h.response.request = c.handled /\ s \in Nat
  BY <1>1, <1>2, <1>3 DEF ConnShape
<1>5. PICK h2 : h2 = [h EXCEPT !.step = "respond"]
  BY Zenon
<1>6. PICK new : new = [c EXCEPT !.handling = << h2 >>]
  BY Zenon
<1>7. conns' = [conns EXCEPT ![w] = new]
  <2>1. [c.handling EXCEPT ![1].step = "respond"] = << h2 >>
    BY <1>4, <1>5
  <2>2. [c EXCEPT !.handling[1].step = "respond"] = new
    BY <1>2, <1>6, <2>1, Zenon DEF ConnShape
  <2> QED
    BY <1>1, <1>2, <1>3, <2>2, Zenon
<1>8. /\ DOMAIN new = DOMAIN c /\ new.handling = << h2 >> /\ new.handling[1] = h2 /\ new.handled = c.handled
      /\ new.open = c.open /\ new.sent = c.sent /\ new.read = c.read /\ new.parked = c.parked
      /\ conns'[w] = new
  BY <1>2, <1>6, <1>7 DEF ConnShape
<1>9. DOMAIN h2 = DOMAIN h /\ h2.step = "respond" /\ h2.response = h.response
  BY <1>4, <1>5, Zenon
<1>10. s \in DOMAIN subs /\ subs[s].conn = w /\ subs[s].state = "new" /\ SubInv(s)
  BY <1>1, <1>2, <1>3, Zenon DEF SubsKnown, VissInv
<1>11. PICK old, made : old = subs[s] /\ made = [old EXCEPT !.state = "active"]
  BY Zenon
<1>12. SubShape(s) /\ subs' = [subs EXCEPT ![s] = made]
  BY <1>3, <1>10, <1>11 DEF SubInv
<1>13. /\ DOMAIN made = DOMAIN old /\ made.state = "active" /\ made.conn = w /\ made.entry = old.entry
       /\ made.hand = old.hand /\ made.channel = old.channel /\ subs'[s] = made
       /\ DOMAIN subs' = DOMAIN subs /\ \A t \in DOMAIN subs : t # s => subs'[t] = subs[t]
  BY <1>10, <1>11, <1>12 DEF SubShape
<1>14. IsSeq(subs')
  <2>1. IsSeq(subs) /\ subs' = [t \in DOMAIN subs |-> subs'[t]]
    BY <1>12, Zenon DEF VissInv
  <2> QED
    BY <2>1, FunIsSeq
<1>15. ValuesMade' /\ \A id : Now(id)' = Now(id)
  BY <1>3, SetValues DEF VissInv
<1>16. ConnInv(w)'
  <2>1. ConnShape(conns[w])'
    <3>1. new.handling = << new.handling[1] >> /\ new.handling[1] = h2
      BY <1>8
    <3>2. ConnShape(new)
      <4>1. /\ DOMAIN c = {"open", "handling", "handled", "sent", "read", "parked"} /\ c.open \in BOOLEAN
            /\ c.handled \in Nat /\ c.read \in Nat /\ c.sent \in Seq(SentMessage) /\ c.parked \in Seq(Nat)
        BY <1>2, Zenon DEF ConnShape
      <4>2. h2.response.request = c.handled /\ h2.response.subscription \in Nat
        BY <1>1, <1>4, <1>9, Zenon
      <4> QED
        BY <1>4, <1>8, <1>9, <3>1, <4>1, <4>2 DEF ConnShape
    <3> QED
      BY <1>8, <3>2, Zenon DEF ConnShape
  <2>2. ParkedBeyond(conns[w])'
    BY <1>2, <1>8, Zenon DEF ParkedBeyond, Queued
  <2>3. SubsKnown(w)'
    <3>1. \A j \in DOMAIN c.sent :
             /\ c.sent[j].request = Event => c.sent[j].subscription \in DOMAIN subs
             /\ c.sent[j].status = 0 => c.sent[j].subscription \in {0} \cup DOMAIN subs
      BY <1>1, <1>2, Zenon DEF SubsKnown
    <3> QED
      <4>1. /\ conns'[w].sent = c.sent /\ DOMAIN subs' = DOMAIN subs /\ conns'[w].handling[1].step = "respond"
            /\ conns'[w].handling[1].response.subscription \in DOMAIN subs
        BY <1>1, <1>8, <1>9, <1>10, <1>13, ZenonT(30)
      <4> QED
        BY <3>1, <4>1, Zenon DEF SubsKnown
  <2>4. Answered(w)'
    <3>1. Responses(w)' = Responses(w)
      BY <1>1, <1>8 DEF Responses
    <3>2. new.handled - Len(new.handling) = c.handled - Len(c.handling)
      BY <1>4, <1>8
    <3>3. /\ {c.sent[i].request : i \in Responses(w)} = 1..(c.handled - Len(c.handling))
          /\ \A i, j \in Responses(w) : i < j => c.sent[i].request < c.sent[j].request
      BY <1>1, <1>2, <1>4, Zenon DEF Answered
    <3>4. {conns'[w].sent[i].request : i \in Responses(w)'} = {c.sent[i].request : i \in Responses(w)}
      BY <1>8, <3>1, Zenon
    <3> QED
      BY <1>8, <3>1, <3>2, <3>3, <3>4, ZenonT(30) DEF Answered
  <2> QED
    BY <2>1, <2>2, <2>3, <2>4 DEF ConnInv
<1>17. SentKept(w) /\ \A t : Pending(w, t)' <=> Pending(w, t)
  <2>1. << h2 >> # None
    BY DEF None
  <2> QED
    BY <1>1, <1>3, <1>8, <1>9, <2>1, ZenonT(30) DEF SentKept, Pending
<1>18. ASSUME NEW t \in DOMAIN subs, t # s, subs[t].conn = w PROVE SubInv(t)'
  <2>1. SubInv(t) /\ subs'[t] = subs[t]
    BY <1>13, <1>18, Zenon DEF VissInv
  <2>2. subs[t].state # "new"
    BY <1>1, <1>18, <2>1, Zenon DEF SubInv, Confirmed, Pending
  <2> QED
    BY <1>15, <1>17, <1>18, <2>1, <2>2, SubUntouched, ZenonT(30)
<1>19. SubInv(s)'
  <2>1. SubShape(s)'
    BY <1>10, <1>11, <1>12, <1>13 DEF SubShape
  <2>2. HoldsLess(s)
    BY <1>11, <1>13, <1>10 DEF HoldsLess
  <2>3. Now(subs[s].entry)' = Now(subs[s].entry)
    <3>1. PICK e : e = subs[s].entry /\ e = subs'[s].entry
      BY <1>11, <1>13, ZenonT(30)
    <3> QED
      BY <1>15, <3>1
  <2>4. EventChain(s)'
    BY <1>10, <1>17, <2>2, <2>3, ChainLeft, Zenon DEF SubInv
  <2>5. PICK C : C = Confirmations(w, s)' /\ C = {} /\ old.hand = None /\ Pending(w, s)
    BY <1>10, <1>11, <1>17, EventsKept, Zenon DEF SubInv, Confirmed
  <2>6. Confirmed(s)'
    BY <1>13, <2>5, Zenon DEF Confirmed
  <2> QED
    BY <2>1, <2>4, <2>6 DEF SubInv
<1>20. /\ \A t \in DOMAIN subs : subs[t].conn # w => subs'[t] = subs[t]
       /\ \A t \in DOMAIN subs : subs'[t].conn = subs[t].conn
       /\ \A t \in DOMAIN subs : subs[t].conn = w => SubInv(t)'
  BY <1>10, <1>11, <1>13, <1>18, <1>19, ZenonT(30)
<1> QED
  BY <1>3, <1>7, <1>13, <1>14, <1>15, <1>16, <1>20, OneConn, ZenonT(30)

\* An unsubscribe of a subscription that is active aborts it.
LEMMA UnsubscribeInv ==
    ASSUME VissInv, NEW w \in Connections, NEW i \in DOMAIN Requests, unsubscribe(w, i)
    PROVE  VissInv'
<1>1. conns[w].open /\ conns[w].handling = None /\ UNCHANGED << entries, writer, updates_made >>
  BY Zenon DEF unsubscribe, Reads, dbVars
<1>2. ValuesMade' /\ \A id : Now(id)' = Now(id)
  BY <1>1, SetValues DEF VissInv
<1>3. PICK s \in Nat : s = Requests[i].subscription
  BY VissAssumption
<1>4. CASE UNCHANGED subs /\ Answer(w, i, Message(Number(w), s, "NotFoundInvalidSubscriptionId", VissNone))
  <2>1. PICK m : m = Message(Number(w), s, "NotFoundInvalidSubscriptionId", VissNone)
    BY Zenon
  <2>2. m.request = Number(w) /\ m.subscription = s /\ m.error # "Ok"
    BY <2>1 DEF Message
  <2> QED
    BY <1>1, <1>2, <1>4, <2>1, <2>2, AnswerInv
<1>5. CASE /\ s \in DOMAIN subs /\ subs[s].conn = w /\ subs[s].state = "active" /\ Abort({s})
           /\ Answer(w, i, Message(Number(w), s, "Ok", VissNone))
  <2>1. PICK h : h = [request |-> i, step |-> "respond", response |-> Message(Number(w), s, "Ok", VissNone)]
    BY Zenon
  <2>2. /\ DOMAIN h = {"request", "step", "response"} /\ h.step = "respond" /\ h.response.request = Number(w)
        /\ h.response.subscription = s /\ h.response.error = "Ok"
    BY <2>1 DEF Message
  <2>3. /\ \E new : conns' = [conns EXCEPT ![w] = new]
        /\ conns'[w].sent = conns[w].sent /\ conns'[w].handling = << h >>
        /\ ConnShape(conns[w])' /\ ParkedBeyond(conns[w])' /\ Answered(w)'
    <3>1. conns' = [conns EXCEPT ![w].handling = Some(h), ![w].handled = @ + 1]
      BY <1>5, <2>1, Zenon DEF Answer
    <3>2. h.response.subscription \in Nat
      BY <2>2
    <3> QED
      BY <1>1, <2>2, <3>1, <3>2, ReadFacts, Zenon
  <2>4. conns'[w].handling[1] = h /\ conns'[w].handling # None
    <3>1. << h >>[1] = h /\ << h >> # None
      BY DEF None
    <3> QED
      BY <2>3, <3>1, Zenon
  <2>5. conns'[w].sent = conns[w].sent
    BY <2>3
  <2>6. PICK old, made : old = subs[s] /\ made = [old EXCEPT !.state = "aborted"]
    BY ZenonT(30)
  <2>7. SubInv(s) /\ SubShape(s) /\ EventChain(s) /\ Confirmed(s)
    BY <1>5, Zenon DEF VissInv, SubInv
  <2>8. /\ DOMAIN made = DOMAIN old /\ made.state = "aborted" /\ made.conn = w /\ made.entry = old.entry
        /\ made.hand = old.hand /\ made.channel = old.channel
    BY <1>5, <2>6, <2>7 DEF SubShape
  <2>9. /\ DOMAIN subs' = DOMAIN subs /\ subs'[s] = made /\ subs' = [t \in DOMAIN subs |-> subs'[t]]
        /\ \A t \in DOMAIN subs : t # s => subs'[t] = subs[t]
    BY <1>5, <2>6, <2>7 DEF Abort, SubShape
  <2>10. IsSeq(subs')
    BY <2>9, FunIsSeq, Zenon DEF VissInv
  <2>11. SubsKnown(w)'
    <3>1. \A j \in DOMAIN conns[w].sent :
             /\ conns[w].sent[j].request = Event => conns[w].sent[j].subscription \in DOMAIN subs
             /\ conns[w].sent[j].status = 0 => conns[w].sent[j].subscription \in {0} \cup DOMAIN subs
      BY Zenon DEF SubsKnown, VissInv, ConnInv
    <3> QED
      BY <1>5, <2>2, <2>4, <2>5, <2>9, <3>1 DEF SubsKnown
  <2>12. ASSUME NEW t \in DOMAIN subs, t # s, subs[t].conn = w PROVE SubInv(t)'
    <3>1. ~Pending(w, t)'
      BY <2>2, <2>4, <2>12 DEF Pending
    <3> QED
      BY <1>1, <1>2, <2>5, <2>9, <2>12, <3>1, NotAsked, Zenon
  <2>13. SubInv(s)'
    <3>1. SubShape(s)'
      BY <1>5, <2>6, <2>7, <2>8, <2>9 DEF SubShape
    <3>2. HoldsLess(s) /\ SentKept(w)
      BY <1>5, <2>6, <2>8, <2>9, <2>5 DEF HoldsLess, SentKept
    <3>3. Now(subs[s].entry)' = Now(subs[s].entry)
      <4>1. PICK e : e = subs[s].entry /\ e = subs'[s].entry
        BY <2>6, <2>8, <2>9, ZenonT(30)
      <4> QED
        BY <1>2, <4>1
    <3>4. EventChain(s)'
      BY <1>5, <2>7, <3>2, <3>3, ChainLeft
    <3>5. PICK C : C = Confirmations(w, s)' /\ C \subseteq Confirmations(w, s) /\ C \subseteq DOMAIN conns[w].sent
      <4>1. Confirmations(w, s)' \subseteq Confirmations(w, s)
        BY <3>2, EventsKept
      <4>2. Confirmations(w, s) \subseteq DOMAIN conns[w].sent
        BY Zenon DEF Confirmations, Responses
      <4> QED
        BY <4>1, <4>2
    <3>6. \A j, k \in C : j = k
      BY <1>5, <2>7, <3>5, Zenon DEF Confirmed
    <3>7. \A j \in DOMAIN conns[w].sent : ~(j < j)
      <4>1. conns[w].sent \in Seq(SentMessage)
        BY Zenon DEF VissInv, ConnInv, ConnShape
      <4> QED
        BY <4>1
    <3>8. \A j, k \in C : ~(j < k)
      BY <3>5, <3>6, <3>7, Zenon
    <3>9. Confirmed(s)'
      BY <2>8, <2>9, <3>5, <3>6, <3>8 DEF Confirmed
    <3> QED
      BY <3>1, <3>4, <3>9 DEF SubInv
  <2>14. PICK new : conns' = [conns EXCEPT ![w] = new]
    BY <2>3, Zenon
  <2>15. /\ \A t \in DOMAIN subs : subs'[t].conn = subs[t].conn
         /\ \A t \in DOMAIN subs : subs[t].conn # w => subs'[t] = subs[t]
         /\ \A t \in DOMAIN subs : subs[t].conn = w => SubInv(t)'
    BY <1>5, <2>6, <2>8, <2>9, <2>12, <2>13, Zenon
  <2>16. ConnInv(w)'
    BY <2>3, <2>11 DEF ConnInv
  <2> QED
    BY <1>1, <1>2, <2>9, <2>10, <2>14, <2>15, <2>16, OneConn, Zenon
<1> QED
  BY <1>3, <1>4, <1>5, Zenon DEF unsubscribe

==============================================================================
