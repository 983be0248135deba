------------------------------ MODULE VissProofs ------------------------------
(***************************************************************************)
(* What a VISSv2 client sees of the channel that responses and events      *)
(* share, for any number of connections, requests, subscriptions and       *)
(* updates.  VissStepProofs has the invariant.                             *)
(***************************************************************************)
EXTENDS VissStepProofs

------------------------------------------------------------------------------
(* The channel of a connection *)

\* What a message changes that is put into a channel.
LEMMA PushFacts ==
    ASSUME NEW c, ConnShape(c), ParkedBeyond(c), NEW sender \in Nat, NEW m, Sent(m) \in SentMessage,
           NEW d, d = Push(c, sender, m)
    PROVE  /\ DOMAIN d = DOMAIN c /\ d.open = c.open /\ d.handling = c.handling /\ d.handled = c.handled
           /\ d.read = c.read /\ d.sent = Append(c.sent, Sent(m)) /\ d.parked \in Seq(Nat)
           /\ ParkedBeyond(d)
<1>1. PICK x, parked : x = Sent(m) /\ parked = IF Queued(c) + 1 > Buffer THEN Append(c.parked, sender) ELSE c.parked
  BY Zenon
<1>2. /\ DOMAIN c = {"open", "handling", "handled", "sent", "read", "parked"} /\ c.read \in Nat
      /\ c.sent \in Seq(SentMessage) /\ c.parked \in Seq(Nat)
  BY DEF ConnShape
<1>3. d = [c EXCEPT !.sent = Append(c.sent, x), !.parked = parked]
  BY <1>1 DEF Push
<1>4. /\ DOMAIN d = DOMAIN c /\ d.open = c.open /\ d.handling = c.handling /\ d.handled = c.handled
      /\ d.read = c.read /\ d.sent = Append(c.sent, x) /\ d.parked = parked
  BY <1>2, <1>3
<1>5. parked \in Seq(Nat)
  BY <1>1, <1>2
<1>6. PICK n, k, p \in Nat : n = Len(c.sent) /\ k = c.read /\ p = Len(c.parked)
  BY <1>2
<1>7. k <= n /\ p = IF n - k - Buffer > 0 THEN n - k - Buffer ELSE 0
  BY <1>6 DEF ParkedBeyond, Queued
<1>8. Len(d.sent) = n + 1 /\ d.read = k /\ Len(d.parked) = IF n - k + 1 > Buffer THEN p + 1 ELSE p
  BY <1>1, <1>2, <1>4, <1>6 DEF Queued
<1>9. ParkedBeyond(d)
  BY <1>7, <1>8, VissAssumption DEF ParkedBeyond, Queued
<1> QED
  BY <1>1, <1>4, <1>5, <1>9

\* x was put into the channel of w, as the n-th message.
Pushed(w, x, n) ==
    /\ n \in Nat /\ conns'[w].sent[n] = x /\ DOMAIN conns'[w].sent = DOMAIN conns[w].sent \cup {n}
    /\ \A i \in DOMAIN conns[w].sent : i \in Nat /\ i < n /\ conns'[w].sent[i] = conns[w].sent[i]

\* Which messages of the channel there are then.
LEMMA PushIndex ==
    ASSUME NEW w, NEW x, conns[w].sent \in Seq(SentMessage), conns'[w].sent = Append(conns[w].sent, x),
           NEW n, n = Len(conns[w].sent) + 1
    PROVE  Pushed(w, x, n)
<1>1. PICK sent, sent2 : sent = conns[w].sent /\ sent2 = conns'[w].sent
  BY Zenon
<1>2. n \in Nat /\ DOMAIN sent = 1..(n - 1) /\ sent2[n] = x /\ DOMAIN sent2 = 1..n
      /\ \A i \in DOMAIN sent : sent2[i] = sent[i]
  BY <1>1
<1>3. DOMAIN sent2 = DOMAIN sent \cup {n} /\ \A i \in DOMAIN sent : i \in Nat /\ i < n
  BY <1>2
<1> QED
  BY <1>1, <1>2, <1>3 DEF Pushed

\* Which of them are responses, events and confirmations, if x is the n-th.
Kinds(w, x, n, s) ==
    /\ x.request # Event => Responses(w)' = Responses(w) \cup {n} /\ Events(w, s)' = Events(w, s)
    /\ x.request = Event =>
          Responses(w)' = Responses(w) /\ Confirmations(w, s)' = Confirmations(w, s)
    /\ x.request = Event /\ x.subscription = s => Events(w, s)' = Events(w, s) \cup {n}
    /\ x.subscription # s => Events(w, s)' = Events(w, s)
    /\ x.request # Event /\ x.subscription = s /\ x.status = 0 =>
          Confirmations(w, s)' = Confirmations(w, s) \cup {n}
    /\ ~(x.subscription = s /\ x.status = 0) => Confirmations(w, s)' = Confirmations(w, s)

\* Of which kinds the message is that was added.
LEMMA PushKinds ==
    ASSUME NEW w, NEW x, conns[w].sent \in Seq(SentMessage), conns'[w].sent = Append(conns[w].sent, x),
           NEW n, n = Len(conns[w].sent) + 1, NEW s
    PROVE  Kinds(w, x, n, s)
<1>1. PICK sent, sent2 : sent = conns[w].sent /\ sent2 = conns'[w].sent
  BY Zenon
<1>2. /\ sent2[n] = x /\ DOMAIN sent2 = DOMAIN sent \cup {n} /\ n \notin DOMAIN sent
      /\ \A i \in DOMAIN sent : sent2[i] = sent[i]
  BY <1>1
<1>3. \A i : i \in DOMAIN sent2 <=> i \in DOMAIN sent \/ i = n
  BY <1>2
<1>4. /\ x.request # Event => Responses(w)' = Responses(w) \cup {n}
      /\ x.request = Event => Responses(w)' = Responses(w)
  BY <1>1, <1>2, <1>3 DEF Responses
<1>5. /\ x.request = Event /\ x.subscription = s => Events(w, s)' = Events(w, s) \cup {n}
      /\ ~(x.request = Event /\ x.subscription = s) => Events(w, s)' = Events(w, s)
  BY <1>1, <1>2, <1>3 DEF Events
<1>6. /\ \A i \in Responses(w) : i \in DOMAIN sent /\ i # n
      /\ \A i \in DOMAIN sent : sent2[i] = sent[i]
      /\ sent2[n] = x
  BY <1>1, <1>2 DEF Responses
<1>7. /\ x.request = Event => Confirmations(w, s)' = Confirmations(w, s)
      /\ ~(x.subscription = s /\ x.status = 0) => Confirmations(w, s)' = Confirmations(w, s)
      /\ x.request # Event /\ x.subscription = s /\ x.status = 0 =>
            Confirmations(w, s)' = Confirmations(w, s) \cup {n}
  BY <1>1, <1>4, <1>6 DEF Confirmations
<1> QED
  BY <1>4, <1>5, <1>7 DEF Kinds

\* The response of the request that was handled is sent.
LEMMA RespondInv ==
    ASSUME VissInv, NEW w \in Connections, Respond(w)
    PROVE  VissInv'
<1>1. PICK c, h, m : c = conns[w] /\ h = c.handling[1] /\ m = h.response
  BY Zenon
<1>2. ConnShape(c) /\ ParkedBeyond(c) /\ SubsKnown(w) /\ Answered(w) /\ DOMAIN conns = Connections
  BY <1>1 DEF VissInv, ConnInv
<1>3. PICK free : free = [c EXCEPT !.handling = None]
  BY Zenon
<1>4. PICK new : new = Push(free, Response, m)
  BY Zenon
<1>5. /\ c.handling # None /\ h.step = "respond" /\ UNCHANGED << entries, subs, writer, updates_made >>
      /\ conns' = [conns EXCEPT ![w] = new]
  BY <1>1, <1>3, <1>4, Zenon DEF Respond, dbVars
<1>6. /\ c.handling = << h >> /\ c.open /\ c.handled > 0 /\ c.handled \in Nat /\ m.request = c.handled
      /\ m.subscription \in Nat /\ c.sent \in Seq(SentMessage)
  BY <1>1, <1>2, <1>5 DEF ConnShape
<1>7. /\ DOMAIN free = DOMAIN c /\ free.open = c.open /\ free.handling = None /\ free.handled = c.handled
      /\ free.sent = c.sent /\ free.read = c.read /\ free.parked = c.parked
  BY <1>2, <1>3 DEF ConnShape
<1>8. ConnShape(free) /\ ParkedBeyond(free)
  BY <1>2, <1>7 DEF ConnShape, ParkedBeyond, Queued
<1>9. PICK x : x = Sent(m)
  BY Zenon
<1>10. /\ x \in SentMessage /\ x.request = c.handled /\ x.request # Event /\ x.subscription = m.subscription
       /\ x.status = 0 => m.error = "Ok"
  <2>1. PICK e : e = ErrorNumber(m.error)
    BY Zenon
  <2>2. e \in Nat /\ (e = 0 => m.error = "Ok")
    BY <2>1, Errors
  <2>3. x = [request |-> m.request, subscription |-> m.subscription, status |-> e, value |-> VissNone]
    BY <1>6, <1>9, <2>1 DEF Sent, Event
  <2>4. x.request = m.request /\ x.subscription = m.subscription /\ x.status = e /\ x.value = VissNone
    BY <2>3
  <2>5. x \in SentMessage
    BY <1>6, <2>2, <2>3 DEF SentMessage, Shown
  <2> QED
    BY <1>6, <2>2, <2>4, <2>5 DEF Event
<1>11. /\ DOMAIN new = DOMAIN c /\ new.open /\ new.handling = None /\ new.handled = c.handled
       /\ new.read = c.read /\ new.sent = Append(c.sent, x) /\ new.parked \in Seq(Nat)
       /\ ParkedBeyond(new)
  <2>1. Response \in Nat
    BY DEF Response
  <2> QED
    <3>1. Sent(m) \in SentMessage
      BY <1>9, <1>10
    <3>2. PICK z \in Nat : z = Response
      BY <2>1
    <3>3. new = Push(free, z, m)
      BY <1>4, <3>2
    <3>4. /\ DOMAIN new = DOMAIN free /\ new.open = free.open /\ new.handling = free.handling
          /\ new.handled = free.handled /\ new.read = free.read /\ new.sent = Append(free.sent, Sent(m))
      BY <1>8, <3>1, <3>3, PushFacts
    <3>5. new.parked \in Seq(Nat)
      BY <1>8, <3>1, <3>3, PushFacts
    <3>6. ParkedBeyond(new)
      BY <1>8, <3>1, <3>3, PushFacts
    <3> QED
      BY <1>6, <1>7, <1>9, <3>4, <3>5, <3>6
<1>12. conns'[w] = new
  BY <1>2, <1>5
<1>13. PICK n \in Nat : n = Len(c.sent) + 1
  BY <1>6
<1>14. /\ n \in Nat /\ conns'[w].sent[n] = x /\ DOMAIN conns'[w].sent = DOMAIN c.sent \cup {n}
       /\ \A i \in DOMAIN c.sent : i \in Nat /\ i < n /\ conns'[w].sent[i] = c.sent[i]
       /\ Responses(w)' = Responses(w) \cup {n}
       /\ \A s : Events(w, s)' = Events(w, s)
       /\ \A s : x.subscription = s /\ x.status = 0 => Confirmations(w, s)' = Confirmations(w, s) \cup {n}
       /\ \A s : ~(x.subscription = s /\ x.status = 0) => Confirmations(w, s)' = Confirmations(w, s)
  <2>1. conns[w].sent \in Seq(SentMessage) /\ conns'[w].sent = Append(conns[w].sent, x)
    BY <1>1, <1>6, <1>11, <1>12
  <2>2. n = Len(conns[w].sent) + 1
    BY <1>1, <1>13
  <2>3. Pushed(w, x, n)
    BY <2>1, <2>2, PushIndex, Zenon
  <2>4. conns'[w].sent[n] = x /\ DOMAIN conns'[w].sent = DOMAIN conns[w].sent \cup {n}
    BY <2>3 DEF Pushed
  <2>5. \A i \in DOMAIN conns[w].sent : i \in Nat /\ i < n /\ conns'[w].sent[i] = conns[w].sent[i]
    BY <2>3 DEF Pushed
  <2>6. \A s : /\ Responses(w)' = Responses(w) \cup {n} /\ Events(w, s)' = Events(w, s)
               /\ x.subscription = s /\ x.status = 0 => Confirmations(w, s)' = Confirmations(w, s) \cup {n}
               /\ ~(x.subscription = s /\ x.status = 0) => Confirmations(w, s)' = Confirmations(w, s)
    <3> TAKE s
    <3>1. Kinds(w, x, n, s)
      BY <2>1, <2>2, PushKinds, Zenon
    <3> QED
      BY <1>10, <3>1 DEF Kinds
  <2> QED
    BY <1>1, <2>4, <2>5, <2>6, Zenon
<1>15. ValuesMade' /\ \A id : Now(id)' = Now(id)
  BY <1>5, SetValues DEF VissInv
<1>16. ConnShape(conns[w])' /\ ParkedBeyond(conns[w])'
  <2>1. new.sent \in Seq(SentMessage)
    BY <1>6, <1>10, <1>11
  <2>2. ConnShape(new)
    BY <1>2, <1>6, <1>11, <2>1, Zenon DEF ConnShape
  <2> QED
    BY <1>11, <1>12, <2>2, Zenon DEF ConnShape, ParkedBeyond, Queued
<1>17. SubsKnown(w)'
  <2>1. x.status = 0 => x.subscription \in {0} \cup DOMAIN subs
    BY <1>1, <1>2, <1>5, <1>10, Zenon DEF SubsKnown
  <2>2. \A i \in DOMAIN c.sent :
             /\ c.sent[i].request = Event => c.sent[i].subscription \in DOMAIN subs
             /\ c.sent[i].status = 0 => c.sent[i].subscription \in {0} \cup DOMAIN subs
    BY <1>1, <1>2 DEF SubsKnown
  <2>3. conns'[w].handling = None
    BY <1>11, <1>12
  <2> QED
    BY <1>5, <1>10, <1>14, <2>1, <2>2, <2>3, ZenonT(30) DEF SubsKnown
<1>18. Answered(w)'
  <2>1. PICK R : R = Responses(w) /\ R \subseteq DOMAIN c.sent /\ Responses(w)' = R \cup {n}
    BY <1>1, <1>14, Zenon DEF Responses
  <2>2. /\ {c.sent[i].request : i \in R} = 1..(c.handled - 1)
        /\ \A i, j \in R : i < j => c.sent[i].request < c.sent[j].request
    BY <1>1, <1>2, <1>6, <2>1 DEF Answered
  <2>3. conns'[w].handled - Len(conns'[w].handling) = c.handled
    BY <1>6, <1>11, <1>12 DEF None
  <2>4. \A i \in R : i < n /\ i # n /\ i \in Nat /\ conns'[w].sent[i] = c.sent[i] /\ c.sent[i].request \in 1..(c.handled - 1)
    <3>1. \A i \in R : c.sent[i].request \in {c.sent[j].request : j \in R}
      OBVIOUS
    <3>2. \A i \in R : c.sent[i].request \in 1..(c.handled - 1)
      BY <2>2, <3>1, Zenon
    <3>3. \A i \in R : i < n /\ i \in Nat /\ conns'[w].sent[i] = c.sent[i]
      BY <1>14, <2>1, Zenon
    <3>4. \A i \in R : i # n
      BY <1>14, <3>3
    <3> QED
      BY <3>2, <3>3, <3>4
  <2>5. {conns'[w].sent[i].request : i \in R \cup {n}} = 1..c.handled
    <3>1. {conns'[w].sent[i].request : i \in R \cup {n}} = {c.sent[i].request : i \in R} \cup {x.request}
      BY <1>14, <2>4
    <3> QED
      <4>1. x.request = c.handled /\ c.handled \in Nat /\ c.handled > 0
        BY <1>6, <1>10
      <4>2. 1..(c.handled - 1) \cup {c.handled} = 1..c.handled
        BY <4>1
      <4> QED
        BY <2>2, <3>1, <4>1, <4>2, Zenon
  <2>6. \A i, j \in R \cup {n} : i < j => conns'[w].sent[i].request < conns'[w].sent[j].request
    <3> SUFFICES ASSUME NEW i \in R \cup {n}, NEW j \in R \cup {n}, i < j
                 PROVE  conns'[w].sent[i].request < conns'[w].sent[j].request
      OBVIOUS
    <3>1. i \in R
      BY <1>14, <2>4
    <3>2. CASE j \in R
      BY <2>2, <2>4, <3>1, <3>2
    <3>3. CASE j = n
      <4>1. conns'[w].sent[j].request = c.handled
        BY <1>10, <1>14, <3>3
      <4>2. conns'[w].sent[i].request \in 1..(c.handled - 1)
        BY <2>4, <3>1
      <4> QED
        BY <1>6, <4>1, <4>2
    <3> QED
      BY <3>2, <3>3
  <2> QED
    BY <2>1, <2>3, <2>5, <2>6, Zenon DEF Answered
<1>19. ASSUME NEW s \in DOMAIN subs, subs[s].conn = w PROVE SubInv(s)'
  <2>1. SubInv(s) /\ EventChain(s) /\ Confirmed(s) /\ subs'[s] = subs[s]
    BY <1>5 DEF VissInv, SubInv
  <2>2. subs[s].state # "new"
    BY <1>1, <1>5, <1>19, <2>1 DEF Confirmed
  <2>3. ~Pending(w, s)'
    BY <1>11, <1>12 DEF Pending
  <2>4. PICK E : E = Events(w, s) /\ Events(w, s)' = E /\ E \subseteq DOMAIN c.sent
    <3>1. Events(w, s)' = Events(w, s)
      BY <1>14
    <3>2. Events(w, s) \subseteq DOMAIN c.sent
      BY <1>1 DEF Events
    <3> QED
      BY <3>1, <3>2
  <2>5. \A i \in Events(w, s)' : i \in Events(w, s) /\ conns'[w].sent[i] = conns[w].sent[i]
    BY <1>1, <1>14, <2>4
  <2>6. CASE x.subscription = s /\ x.status = 0
    <3>1. Pending(w, s)
      BY <1>1, <1>5, <1>10, <2>6 DEF Pending
    <3>2. PICK C : C = Confirmations(w, s) /\ Confirmations(w, s)' = C \cup {n} /\ C \subseteq DOMAIN c.sent
      <4>1. Confirmations(w, s)' = Confirmations(w, s) \cup {n}
        BY <1>14, <2>6
      <4>2. Confirmations(w, s) \subseteq DOMAIN c.sent
        BY <1>1 DEF Confirmations, Responses
      <4> QED
        BY <4>1, <4>2
    <3>3. SubShape(s)'
      BY <1>5, <2>1 DEF SubInv, SubShape
    <3>4. HoldsLess(s) /\ Now(subs[s].entry)' = Now(subs[s].entry)
      BY <1>5, <1>15 DEF HoldsLess
    <3>5. EventChain(s)'
      BY <1>19, <2>1, <2>5, <3>4, ChainKept, Zenon
    <3>6. /\ subs[s].state = "active" => C = {}
          /\ \A i, j \in C : i = j
          /\ subs[s].state = "ended" => subs[s].hand = None
      BY <1>19, <2>1, <3>1, <3>2 DEF Confirmed
    <3>7. /\ \A i \in C : i < n /\ ~(i < i) /\ ~(n < i)
          /\ \A j \in E : j < n /\ ~(n < j)
          /\ ~(n < n)
      <4>1. n \in Nat /\ \A i \in DOMAIN c.sent : i \in Nat /\ i < n
        BY <1>14, Zenon
      <4>2. ~(n < n) /\ \A i \in DOMAIN c.sent : i < n /\ ~(i < i) /\ ~(n < i)
        BY <4>1
      <4> QED
        BY <2>4, <3>2, <4>2, Zenon
    <3>8. Confirmed(s)'
      <4>1. subs[s].state = "active" => \A i, j \in C \cup {n} : i = j
        BY <3>6
      <4>2. \A i, j \in C \cup {n} : i < j => j = n
        BY <3>6, <3>7
      <4>3. \A i, j \in C \cup {n} : i < j =>
              /\ \A k, l \in E : j < k /\ j < l => k = l
              /\ subs[s].hand # None => \A k \in E : k < j
        BY <3>7, <4>2
      <4>4. subs'[s].conn = w /\ subs'[s].state = subs[s].state /\ subs'[s].hand = subs[s].hand
        BY <1>5, <1>19
      <4>5. Confirmations(w, s)' = C \cup {n} /\ Events(w, s)' = E
        BY <2>4, <3>2, Zenon
      <4> QED
        BY <2>2, <2>3, <3>6, <4>1, <4>3, <4>4, <4>5, Zenon DEF Confirmed
    <3> QED
      BY <3>3, <3>5, <3>8 DEF SubInv
  <2>7. CASE ~(x.subscription = s /\ x.status = 0)
    <3>1. Confirmations(w, s)' = Confirmations(w, s)
      BY <1>14, <2>7
    <3> QED
      BY <1>15, <1>19, <2>1, <2>2, <2>3, <2>5, <3>1, SubLeft
  <2> QED
    BY <2>6, <2>7
<1>20. ConnInv(w)'
  BY <1>16, <1>17, <1>18 DEF ConnInv
<1>21. IsSeq(subs)
  BY DEF VissInv
<1> QED
  BY <1>5, <1>15, <1>19, <1>20, <1>21, OneConn, Zenon

\* The socket takes a message.
LEMMA ForwardInv ==
    ASSUME VissInv, NEW w \in Connections, Forward(w)
    PROVE  VissInv'
<1>1. PICK c : c = conns[w]
  BY Zenon
<1>2. ConnShape(c) /\ ParkedBeyond(c) /\ SubsKnown(w) /\ Answered(w) /\ DOMAIN conns = Connections
  BY <1>1 DEF VissInv, ConnInv
<1>3. PICK parked : parked = IF c.parked = << >> THEN c.parked ELSE Tail(c.parked)
  BY Zenon
<1>4. PICK new : new = [c EXCEPT !.read = @ + 1, !.parked = parked]
  BY Zenon
<1>5. /\ Queued(c) > 0 /\ UNCHANGED << entries, subs, writer, updates_made >>
      /\ conns' = [conns EXCEPT ![w] = new]
  BY <1>1, <1>2, <1>3, <1>4, Zenon DEF Forward, dbVars
<1>6. /\ DOMAIN new = DOMAIN c /\ new.open = c.open /\ new.handling = c.handling /\ new.handled = c.handled
      /\ new.sent = c.sent /\ new.read = c.read + 1 /\ new.parked = parked /\ conns'[w] = new
  BY <1>2, <1>4, <1>5 DEF ConnShape
<1>7. c.parked \in Seq(Nat) /\ c.read \in Nat /\ c.sent \in Seq(SentMessage)
  BY <1>2 DEF ConnShape
<1>8. parked \in Seq(Nat) /\ Len(parked) = IF Len(c.parked) = 0 THEN 0 ELSE Len(c.parked) - 1
  BY <1>3, <1>7
<1>9. ConnShape(conns[w])'
  <2>1. ConnShape(new)
    BY <1>2, <1>6, <1>7, <1>8 DEF ConnShape
  <2> QED
    BY <1>6, <2>1, Zenon DEF ConnShape
<1>10. ParkedBeyond(conns[w])'
  <2>1. PICK n, k, p \in Nat : n = Len(c.sent) /\ k = c.read /\ p = Len(c.parked)
    BY <1>7
  <2>2. k < n /\ k <= n /\ p = IF n - k - Buffer > 0 THEN n - k - Buffer ELSE 0
    BY <1>2, <1>5, <2>1 DEF ParkedBeyond, Queued
  <2>3. Len(new.sent) = n /\ new.read = k + 1 /\ Len(new.parked) = IF p = 0 THEN 0 ELSE p - 1
    BY <1>6, <1>8, <2>1
  <2>4. ParkedBeyond(new)
    BY <2>2, <2>3, VissAssumption DEF ParkedBeyond, Queued
  <2> QED
    BY <1>6, <2>4, Zenon DEF ParkedBeyond, Queued
<1>11. SubsKnown(w)'
  BY <1>1, <1>2, <1>5, <1>6, ZenonT(30) DEF SubsKnown
<1>12. Answered(w)'
  <2>1. Responses(w)' = Responses(w)
    BY <1>1, <1>6 DEF Responses
  <2>2. /\ conns'[w].sent = conns[w].sent /\ conns'[w].open = conns[w].open
        /\ conns'[w].handled = conns[w].handled /\ conns'[w].handling = conns[w].handling
    BY <1>1, <1>6
  <2> QED
    BY <1>2, <2>1, <2>2 DEF Answered
<1>13. ValuesMade' /\ \A id : Now(id)' = Now(id)
  BY <1>5, SetValues DEF VissInv
<1>14. SentKept(w) /\ \A s : Pending(w, s)' <=> Pending(w, s)
  BY <1>1, <1>6 DEF SentKept, Pending
<1>15. ASSUME NEW s \in DOMAIN subs, subs[s].conn = w PROVE SubInv(s)'
  <2>1. SubInv(s) /\ subs'[s] = subs[s] /\ conns'[w].handling = conns[w].handling
    BY <1>1, <1>5, <1>6, Zenon DEF VissInv
  <2> QED
    BY <1>13, <1>14, <1>15, <2>1, SubUntouched, Zenon
<1>16. ConnInv(w)' /\ IsSeq(subs)
  BY <1>9, <1>10, <1>11, <1>12 DEF ConnInv, VissInv
<1> QED
  BY <1>5, <1>13, <1>15, <1>16, OneConn, Zenon

\* A connection closes: what is queued is lost, and its subscriptions are aborted.
LEMMA CloseInv ==
    ASSUME VissInv, NEW w \in Connections, Close(w)
    PROVE  VissInv'
<1>1. PICK new : new = [Start EXCEPT !.open = FALSE]
  BY Zenon
<1>2. conns' = [conns EXCEPT ![w] = new] /\ UNCHANGED << entries, writer, updates_made >>
  BY <1>1, Zenon DEF Close, dbVars
<1>3. /\ DOMAIN new = {"open", "handling", "handled", "sent", "read", "parked"} /\ new.open = FALSE
      /\ new.handling = None /\ new.handled = 0 /\ new.sent = << >> /\ new.read = 0 /\ new.parked = << >>
  BY <1>1 DEF Start
<1>4. conns'[w] = new
  BY <1>2 DEF VissInv
<1>5. ConnInv(w)'
  <2>1. << >> \in Seq(SentMessage) /\ << >> \in Seq(Nat) /\ 0 \in Nat
    OBVIOUS
  <2>2. ConnShape(new)
    <3>1. new.open \in BOOLEAN
      BY <1>3, Zenon
    <3> QED
      BY <1>3, <2>1, <3>1, Zenon DEF ConnShape
  <2>3. ParkedBeyond(new)
    BY <1>3, VissAssumption DEF ParkedBeyond, Queued
  <2>4. ConnShape(conns[w])' /\ ParkedBeyond(conns[w])'
    BY <1>4, <2>2, <2>3, ZenonT(30) DEF ConnShape, ParkedBeyond, Queued
  <2>5. SubsKnown(w)' /\ Answered(w)'
    BY <1>3, <1>4 DEF SubsKnown, Answered
  <2> QED
    BY <2>4, <2>5 DEF ConnInv
<1>6. subs' = [s \in DOMAIN subs |->
                  IF subs[s].conn = w /\ subs[s].state \in {"new", "active"}
                  THEN [subs[s] EXCEPT !.state = IF @ = "new" THEN "ended" ELSE "aborted"]
                  ELSE subs[s]]
  BY DEF Close, Abort
<1>7. IsSeq(subs') /\ DOMAIN subs' = DOMAIN subs
  <2>1. IsSeq(subs) /\ subs' = [s \in DOMAIN subs |-> subs'[s]]
    BY <1>6 DEF VissInv
  <2> QED
    BY <2>1, FunIsSeq
<1>8. ValuesMade' /\ \A id : Now(id)' = Now(id)
  BY <1>2, SetValues DEF VissInv
<1>9. SentKept(w) /\ \A s : ~Pending(w, s)'
  BY <1>3, <1>4 DEF SentKept, Pending
<1>10. ASSUME NEW s \in DOMAIN subs PROVE SubShape(s) /\ EventChain(s) /\ Confirmed(s)
  BY DEF VissInv, SubInv
<1>11. ASSUME NEW s \in DOMAIN subs, subs[s].conn = w PROVE SubInv(s)' /\ subs'[s].conn = w
  <2>1. PICK old, made : old = subs[s] /\ made = subs'[s]
    BY Zenon
  <2>2. /\ DOMAIN old = {"conn", "request", "entry", "expired", "state", "channel", "hand"}
        /\ old.conn = w /\ old.state \in {"new", "active", "aborted", "ended"}
    BY <1>10, <1>11, <2>1 DEF SubShape
  <2>3. made = IF old.state \in {"new", "active"}
               THEN [old EXCEPT !.state = IF @ = "new" THEN "ended" ELSE "aborted"] ELSE old
    BY <1>6, <1>11, <2>1
  <2>4. /\ DOMAIN made = DOMAIN old /\ made.conn = w /\ made.entry = old.entry /\ made.hand = old.hand
        /\ made.channel = old.channel /\ made.state \in {"aborted", "ended"}
        /\ made.state = "ended" => old.state \in {"new", "ended"}
    BY <2>2, <2>3
  <2>5. made.state = "ended" => made.hand = None
    BY <1>10, <2>1, <2>4, Zenon DEF Confirmed
  <2>6. SubShape(s)'
    BY <1>10, <2>1, <2>4 DEF SubShape
  <2>7. HoldsLess(s)
    BY <2>1, <2>2, <2>4 DEF HoldsLess
  <2>8. Now(subs[s].entry)' = Now(subs[s].entry)
    <3>1. PICK e : e = subs[s].entry /\ e = subs'[s].entry
      BY <2>1, <2>4, Zenon
    <3> QED
      BY <1>8, <3>1
  <2>9. EventChain(s)'
    BY <1>9, <1>10, <1>11, <2>7, <2>8, ChainLeft, Zenon
  <2>10. Confirmed(s)'
    <3>1. /\ subs'[s].state \in {"aborted", "ended"} /\ subs'[s].conn = w /\ subs'[s].hand = subs[s].hand
          /\ subs'[s].state = "ended" => subs'[s].hand = None
      BY <2>1, <2>2, <2>4, <2>5
    <3> QED
      BY <1>9, <1>10, <1>11, <3>1, EventsKept, ConfirmedKept, Zenon
  <2> QED
    BY <2>1, <2>4, <2>6, <2>9, <2>10 DEF SubInv
<1>12. \A s \in DOMAIN subs : subs[s].conn # w => subs'[s] = subs[s]
  BY <1>6
<1>13. /\ \A s \in DOMAIN subs : subs'[s].conn = subs[s].conn
       /\ \A s \in DOMAIN subs : subs[s].conn = w => SubInv(s)'
  BY <1>11, <1>12
<1> QED
  BY <1>2, <1>5, <1>7, <1>8, <1>12, <1>13, OneConn, Zenon

\* The task gives up its event: into the channel of the connection, or not.
LEMMA TaskSendInv ==
    ASSUME VissInv, NEW s \in DOMAIN subs, TaskSend(s)
    PROVE  VissInv'
<1>1. PICK w, c, old, m : w = subs[s].conn /\ c = conns[w] /\ old = subs[s] /\ m = old.hand[1]
  BY Zenon
<1>2. PICK made : made = [old EXCEPT !.hand = None, !.state = IF c.open THEN @ ELSE "ended"]
  BY Zenon
<1>3. w \in Connections /\ SubInv(s) /\ SubShape(s) /\ EventChain(s) /\ Confirmed(s)
  BY <1>1 DEF VissInv, SubInv, SubShape
<1>4. /\ old.hand # None /\ UNCHANGED << entries, writer, updates_made >>
      /\ subs' = [subs EXCEPT ![s] = made]
  BY <1>1, <1>2, <1>3, Zenon DEF TaskSend, Sending, dbVars, SubShape
<1>5. conns' = conns \/ conns' = [conns EXCEPT ![w] = Push(c, s, m)]
  BY <1>1, Zenon DEF TaskSend
<1>6. /\ DOMAIN made = DOMAIN old /\ made.hand = None /\ made.state \in {old.state, "ended"} /\ made.conn = w
      /\ made.entry = old.entry /\ made.channel = old.channel /\ subs'[s] = made
      /\ DOMAIN subs' = DOMAIN subs /\ \A t \in DOMAIN subs : t # s => subs'[t] = subs[t]
  BY <1>1, <1>2, <1>3, <1>4 DEF SubShape
<1>7. IsSeq(subs')
  <2>1. IsSeq(subs) /\ subs' = [t \in DOMAIN subs |-> subs'[t]]
    BY <1>4, Zenon DEF VissInv
  <2> QED
    BY <2>1, FunIsSeq
<1>8. ValuesMade' /\ \A id : Now(id)' = Now(id)
  BY <1>4, SetValues DEF VissInv
<1>9. /\ ConnShape(c) /\ ParkedBeyond(c) /\ SubsKnown(w) /\ Answered(w) /\ DOMAIN conns = Connections
      /\ c.sent \in Seq(SentMessage)
  BY <1>1, <1>3, ZenonT(30) DEF VissInv, ConnInv, ConnShape
<1>10. SubShape(s)'
  <2>1. None \in Option(EventMessage(s))
    BY DEF None, Option
  <2> QED
    BY <1>1, <1>3, <1>6, <2>1 DEF SubShape
<1>11. HoldsLess(s) /\ old.state # "new"
  BY <1>1, <1>3, <1>4, <1>6 DEF HoldsLess, Confirmed
<1>12. Now(subs[s].entry)' = Now(subs[s].entry)
  <2>1. PICK e : e = subs[s].entry /\ e = subs'[s].entry
    BY <1>1, <1>6, Zenon
  <2> QED
    BY <1>8, <2>1
<1>13. CASE conns' = conns
  <2>1. SentKept(w) /\ (Pending(w, s)' => Pending(w, s))
    BY <1>13 DEF SentKept, Pending
  <2>2. EventChain(s)'
    BY <1>1, <1>3, <1>11, <1>12, <2>1, ChainLeft
  <2>3. Confirmed(s)'
    BY <1>1, <1>3, <1>6, <1>11, <2>1, EventsKept, ConfirmedKept, ZenonT(30)
  <2>4. SubInv(s)'
    BY <1>10, <2>2, <2>3 DEF SubInv
  <2> QED
    BY <1>1, <1>4, <1>6, <1>11, <1>13, <2>4, OneSub, ZenonT(30) DEF VissInv
<1>14. CASE conns' = [conns EXCEPT ![w] = Push(c, s, m)]
  <2>1. PICK n \in Nat : n = Len(c.sent) + 1
    BY <1>9
  <2>2. s \in Nat
    <3>1. Len(subs) \in Nat /\ DOMAIN subs = 1..Len(subs)
      BY SeqFacts DEF VissInv
    <3> QED
      BY <3>1
  <2>3. PICK z \in Nat : z = s
    BY <2>2
  <2>4. PICK x, new : x = Sent(m) /\ new = Push(c, s, m)
    BY Zenon
  <2>5. m \in EventMessage(s) /\ DOMAIN old.hand = {1}
    BY <1>1, <1>3, <1>4 DEF SubShape, Option, None
  <2>6. /\ x \in SentMessage /\ x.request = Event /\ x.subscription = s /\ Latest(x) = Latest(m)
        /\ m.error = "Ok" => x.status = 0
    BY <2>4, <2>5, <2>2, SentEvent
  <2>7. Sent(m) \in SentMessage /\ new = Push(c, z, m)
    BY <2>4, <2>6, <2>3
  <2>8. /\ DOMAIN new = DOMAIN c /\ new.open = c.open /\ new.handling = c.handling
        /\ new.handled = c.handled /\ new.read = c.read /\ new.sent = Append(c.sent, x)
    BY <1>9, <2>4, <2>7, PushFacts
  <2>9. new.parked \in Seq(Nat)
    BY <1>9, <2>7, PushFacts, Zenon
  <2>10. ParkedBeyond(new)
    BY <1>9, <2>7, PushFacts
  <2>11. conns'[w] = new
    BY <1>3, <1>9, <1>14, <2>4, Zenon
  <2>12. /\ conns[w].sent \in Seq(SentMessage) /\ conns'[w].sent = Append(conns[w].sent, x)
         /\ n = Len(conns[w].sent) + 1
    BY <1>1, <1>9, <2>1, <2>8, <2>11
  <2>13. Pushed(w, x, n)
    BY <2>12, PushIndex, Zenon
  <2>14. conns'[w].sent[n] = x /\ DOMAIN conns'[w].sent = DOMAIN conns[w].sent \cup {n}
    BY <2>13 DEF Pushed
  <2>15. \A i \in DOMAIN conns[w].sent : i \in Nat /\ i < n /\ conns'[w].sent[i] = conns[w].sent[i]
    BY <2>13 DEF Pushed
  <2>16. \A t : Kinds(w, x, n, t)
    BY <2>12, PushKinds, Zenon
  <2>17. Responses(w)' = Responses(w)
    BY <2>6, <2>16 DEF Kinds
  <2>18. \A t : Confirmations(w, t)' = Confirmations(w, t)
    BY <2>6, <2>16 DEF Kinds
  <2>19. \A t : t # s => Events(w, t)' = Events(w, t)
    BY <2>6, <2>16 DEF Kinds
  <2>20. Events(w, s)' = Events(w, s) \cup {n}
    BY <2>6, <2>16 DEF Kinds
  <2>21. ConnInv(w)'
    <3>1. new.sent \in Seq(SentMessage)
      BY <1>9, <2>6, <2>8, AppendInSeq, Zenon
    <3>2. ConnShape(new)
      BY <1>9, <2>8, <2>9, <3>1 DEF ConnShape
    <3>3. ConnShape(conns[w])' /\ ParkedBeyond(conns[w])'
      BY <2>10, <2>11, <3>2, ZenonT(30) DEF ConnShape, ParkedBeyond, Queued
    <3>4. SubsKnown(w)'
      <4>1. \A i \in DOMAIN c.sent :
               /\ c.sent[i].request = Event => c.sent[i].subscription \in DOMAIN subs
               /\ c.sent[i].status = 0 => c.sent[i].subscription \in {0} \cup DOMAIN subs
        BY <1>1, <1>9, ZenonT(30) DEF SubsKnown
      <4>2. \A i \in DOMAIN conns'[w].sent :
               /\ conns'[w].sent[i].request = Event => conns'[w].sent[i].subscription \in DOMAIN subs
               /\ conns'[w].sent[i].status = 0 => conns'[w].sent[i].subscription \in {0} \cup DOMAIN subs
        <5> SUFFICES ASSUME NEW i \in DOMAIN conns'[w].sent
                     PROVE  /\ conns'[w].sent[i].request = Event => conns'[w].sent[i].subscription \in DOMAIN subs
                            /\ conns'[w].sent[i].status = 0 =>
                                  conns'[w].sent[i].subscription \in {0} \cup DOMAIN subs
          OBVIOUS
        <5>1. CASE i = n
          BY <2>6, <2>14, <5>1, Zenon
        <5>2. CASE i \in DOMAIN c.sent
          BY <1>1, <2>15, <4>1, <5>2, Zenon
        <5> QED
          BY <1>1, <2>14, <5>1, <5>2, ZenonT(30)
      <4>3. conns'[w].handling = conns[w].handling
        BY <1>1, <2>8, <2>11, Zenon
      <4>4. conns[w].handling # None =>
              LET h == conns[w].handling[1]
                  t == h.response.subscription
              IN  /\ h.response.error = "Ok" => t \in {0} \cup DOMAIN subs
                  /\ h.step = "add" => t \in DOMAIN subs /\ subs[t].conn = w /\ subs[t].state = "new"
        BY <1>9, ZenonT(30) DEF SubsKnown
      <4>5. \A t \in DOMAIN subs : subs[t].state = "new" => subs'[t] = subs[t]
        BY <1>1, <1>6, <1>11
      <4> QED
        BY <1>6, <4>2, <4>3, <4>4, <4>5, ZenonT(30) DEF SubsKnown
    <3>5. Answered(w)'
      <4>1. \A i \in Responses(w) : conns'[w].sent[i] = conns[w].sent[i]
        BY <2>15 DEF Responses
      <4>2. {conns'[w].sent[i].request : i \in Responses(w)'} = {conns[w].sent[i].request : i \in Responses(w)}
        BY <2>17, <4>1, Zenon
      <4>3. /\ conns'[w].open = conns[w].open
            /\ conns'[w].handled - Len(conns'[w].handling) = conns[w].handled - Len(conns[w].handling)
        BY <1>1, <2>8, <2>11
      <4>4. conns[w].open =>
              /\ {conns[w].sent[i].request : i \in Responses(w)} = 1..(conns[w].handled - Len(conns[w].handling))
              /\ \A i, j \in Responses(w) : i < j => conns[w].sent[i].request < conns[w].sent[j].request
        BY <1>9, Zenon DEF Answered
      <4>5. conns[w].open =>
              \A i, j \in Responses(w) : i < j => conns'[w].sent[i].request < conns'[w].sent[j].request
        BY <4>1, <4>4, Zenon
      <4> QED
        BY <2>17, <4>2, <4>3, <4>4, <4>5, ZenonT(30) DEF Answered
    <3> QED
      BY <3>3, <3>4, <3>5, Zenon DEF ConnInv
  <2>22. \A t : Pending(w, t)' <=> Pending(w, t)
    BY <1>1, <2>8, <2>11, Zenon DEF Pending
  <2>23. ASSUME NEW t \in DOMAIN subs, t # s, subs[t].conn = w PROVE SubInv(t)'
    <3>1. SubInv(t) /\ subs'[t] = subs[t] /\ conns'[w].handling = conns[w].handling
      BY <1>1, <1>6, <2>8, <2>11, <2>23, Zenon DEF VissInv
    <3>2. \A i \in Events(w, t)' : i \in Events(w, t) /\ conns'[w].sent[i] = conns[w].sent[i]
      BY <2>15, <2>19, <2>23 DEF Events
    <3>3. Confirmations(w, t)' \subseteq Confirmations(w, t)
      BY <2>18
    <3> QED
      BY <1>8, <2>22, <2>23, <3>1, <3>2, <3>3, SubLeft
  <2>24. EventChain(s)'
    <3>1. PICK E, now, sent, sent2, channel :
             /\ E = Events(w, s) /\ now = Now(subs[s].entry) /\ sent = conns[w].sent /\ sent2 = conns'[w].sent
             /\ channel = old.channel
      BY Zenon
    <3>2. /\ \A i, j \in E : i < j => Latest(sent[i]) <= Latest(sent[j]) /\ sent[j].status = 0
          /\ \A i \in E :
                /\ Latest(sent[i]) <= now /\ Follows(m, Latest(sent[i]))
                /\ \A d \in DOMAIN channel : Follows(channel[d], Latest(sent[i]))
          /\ Latest(m) <= now /\ \A d \in DOMAIN channel : Follows(channel[d], Latest(m))
          /\ \A d \in DOMAIN channel :
                /\ Latest(channel[d]) <= now
                /\ \A e \in DOMAIN channel : d < e => Follows(channel[e], Latest(channel[d]))
      <4>1. 1 \in DOMAIN old.hand
        BY <2>5
      <4> QED
        BY <1>1, <1>3, <3>1, <4>1, Zenon DEF EventChain
    <3>3. /\ \A i \in E : i \in Nat /\ i < n /\ i # n /\ sent2[i] = sent[i]
          /\ sent2[n] = x /\ n \in Nat
      BY <2>14, <2>15, <3>1 DEF Events
    <3>4. \A i \in E : Latest(sent[i]) <= Latest(x) /\ x.status = 0
      BY <2>6, <3>2 DEF Follows
    <3>5. \A i, j \in E \cup {n} : i < j => Latest(sent2[i]) <= Latest(sent2[j]) /\ sent2[j].status = 0
      BY <3>2, <3>3, <3>4
    <3>6. \A i \in E \cup {n} :
              Latest(sent2[i]) <= now /\ \A d \in DOMAIN channel : Follows(channel[d], Latest(sent2[i]))
      BY <2>6, <3>2, <3>3, Zenon
    <3>7. /\ Events(w, s)' = E \cup {n} /\ subs'[s].conn = w /\ Now(subs[s].entry)' = now
          /\ subs'[s].channel = channel /\ subs'[s].hand = None /\ DOMAIN None = {}
      BY <1>6, <1>12, <2>20, <3>1 DEF None
    <3> QED
      BY <3>1, <3>2, <3>5, <3>6, <3>7, Zenon DEF EventChain
  <2>25. Confirmed(s)'
    <3>1. PICK C, E : C = Confirmations(w, s) /\ C = Confirmations(w, s)' /\ E = Events(w, s)
                      /\ Events(w, s)' = E \cup {n}
      BY <2>18, <2>20, Zenon
    <3>2. /\ old.state = "active" /\ Pending(w, s) => C = {}
          /\ old.state = "active" \/ Pending(w, s) => \A h, i \in C : h = i
          /\ \A h, i \in C : h < i => \A j \in E : j < i
      BY <1>1, <1>3, <1>4, <3>1, Zenon DEF Confirmed
    <3>3. (\A i \in E : i \in Nat) /\ (\A i \in C : i \in Nat) /\ n \in Nat
      BY <2>15, <3>1, Zenon DEF Events, Confirmations, Responses
    <3>4. \A h, i \in C : h < i => \A j, k \in E \cup {n} : i < j /\ i < k => j = k
      BY <3>2, <3>3
    <3>5. made.state \in {"active", "aborted", "ended"} /\ (made.state = "active" => old.state = "active")
      BY <1>1, <1>3, <1>6, <1>11, Zenon DEF SubShape
    <3> QED
      BY <1>6, <2>22, <3>1, <3>2, <3>4, <3>5, ZenonT(30) DEF Confirmed
  <2>26. SubInv(s)'
    BY <1>10, <2>24, <2>25, Zenon DEF SubInv
  <2>27. /\ \A t \in DOMAIN subs : subs'[t].conn = subs[t].conn
         /\ \A t \in DOMAIN subs : subs[t].conn # w => subs'[t] = subs[t]
         /\ \A t \in DOMAIN subs : subs[t].conn = w => SubInv(t)'
    BY <1>1, <1>6, <2>23, <2>26, Zenon
  <2> QED
    BY <1>3, <1>4, <1>6, <1>7, <1>8, <1>14, <2>21, <2>27, OneConn, Zenon
<1> QED
  BY <1>5, <1>13, <1>14

------------------------------------------------------------------------------
(* The invariant *)

\* No connection has sent anything and nobody has subscribed: the invariant holds.
LEMMA VissInvInit == ASSUME VissInit PROVE VissInv
<1>1. /\ conns = [w \in Connections |-> Start] /\ subs = << >>
      /\ writer = [phase |-> "idle", left |-> {}] /\ updates_made = 0
      /\ entries = [id \in 0..(Len(Leaves) - 1) |->
                       NewEntry(id, Leaves[id + 1].path, Leaves[id + 1].metadata)]
  BY Zenon DEF VissInit
<1>2. ValuesMade
  <2>1. ASSUME NEW id \in DOMAIN entries
        PROVE  /\ DOMAIN entries[id] = {"datapoint", "actuator_target", "metadata"}
               /\ "data_type" \in DOMAIN entries[id].metadata /\ entries[id].metadata.data_type \in DataType
               /\ entries[id].datapoint = NotAvailable
    <3>1. id + 1 \in DOMAIN Leaves
      <4>1. Len(Leaves) \in Nat /\ DOMAIN Leaves = 1..Len(Leaves)
        BY VissAssumption, SeqIsSeq, SeqFacts
      <4> QED
        BY <1>1, <4>1
    <3>2. PICK leaf \in [path: Paths, metadata: MetadataInput] : leaf = Leaves[id + 1]
      BY <3>1, VissAssumption, SeqElement, Zenon
    <3>3. leaf.metadata.data_type \in DataType
      BY <3>2 DEF MetadataInput
    <3>4. entries[id] = NewEntry(id, leaf.path, leaf.metadata)
      BY <1>1, <3>2
    <3>5. entries[id].metadata.data_type = leaf.metadata.data_type
      BY <3>4 DEF NewEntry
    <3> QED
      BY <3>3, <3>4, <3>5 DEF NewEntry
  <2> QED
    BY <1>1, <2>1 DEF ValuesMade
<1>3. /\ DOMAIN Start = {"open", "handling", "handled", "sent", "read", "parked"} /\ Start.open = TRUE
      /\ Start.handling = None /\ Start.handled = 0 /\ Start.sent = << >> /\ Start.read = 0
      /\ Start.parked = << >>
  BY DEF Start
<1>4. ASSUME NEW w \in Connections PROVE ConnInv(w)
  <2>1. conns[w] = Start
    BY <1>1
  <2>2. << >> \in Seq(SentMessage) /\ << >> \in Seq(Nat) /\ 0 \in Nat /\ DOMAIN << >> = {}
    OBVIOUS
  <2>3. Start.open \in BOOLEAN
    BY <1>3, Zenon
  <2>4. ConnShape(Start)
    BY <1>3, <2>2, <2>3, Zenon DEF ConnShape
  <2>5. ParkedBeyond(Start)
    BY <1>3, VissAssumption DEF ParkedBeyond, Queued
  <2>6. SubsKnown(w)
    BY <1>3, <2>1, <2>2, Zenon DEF SubsKnown
  <2>7. Responses(w) = {}
    BY <1>3, <2>1, <2>2 DEF Responses
  <2>8. Answered(w)
    BY <1>3, <2>1, <2>7 DEF Answered, None
  <2> QED
    BY <2>1, <2>4, <2>5, <2>6, <2>8 DEF ConnInv
<1>5. IsSeq(subs) /\ DOMAIN subs = {}
  <2>1. << >> \in Seq({}) /\ DOMAIN << >> = {}
    OBVIOUS
  <2> QED
    BY <1>1, <2>1, SeqIsSeq, Zenon
<1>6. DOMAIN writer = {"phase", "left"} /\ writer.left \subseteq DOMAIN subs
  BY <1>1
<1> QED
  BY <1>1, <1>2, <1>4, <1>5, <1>6 DEF VissInv

\* A step that changes nothing keeps the invariant.
LEMMA VissInvStutters == ASSUME VissInv, UNCHANGED vissVars PROVE VissInv'
<1>1. UNCHANGED << conns, subs, writer, updates_made, entries >>
  BY DEF vissVars, dbVars
<1>2. ValuesMade' /\ \A id : Now(id)' = Now(id)
  BY <1>1, SetValues DEF VissInv
<1>3. \A w \in Connections : ConnInv(w)'
  BY <1>1, ConnKept DEF VissInv
<1>4. \A s \in DOMAIN subs : SubInv(s)'
  BY <1>1, <1>2, SubKept DEF VissInv
<1> QED
  BY <1>1, <1>2, <1>3, <1>4 DEF VissInv

\* Every step keeps the invariant.
LEMMA VissInvNext == VissInv /\ [VissNext]_vissVars => VissInv'
<1> SUFFICES ASSUME VissInv, [VissNext]_vissVars PROVE VissInv'
  OBVIOUS
<1>1. ASSUME NEW w \in Connections, Connection(w) PROVE VissInv'
  BY <1>1, ReadInv, SubscribeInitialInv, UnsubscribeInv, SubscribeAddInv, RespondInv, ForwardInv, CloseInv,
     Zenon DEF Connection
<1>2. ASSUME NEW s, Task(s) PROVE VissInv'
  BY <1>2, TaskTakeInv, TaskSendInv, TaskEndInv, Zenon DEF Task
<1>3. ASSUME NEW s, ExpireSubscriber(s) PROVE VissInv'
  <2>1. s \in DOMAIN subs
    BY <1>3, Zenon DEF ExpireSubscriber
  <2> QED
    BY <1>3, <2>1, TaskEndInv, Zenon
<1>4. ASSUME NEW s, Notify(s) PROVE VissInv'
  BY <1>4, NotifyInv
<1> QED
  BY <1>1, <1>2, <1>3, <1>4, CommitInv, NotifyStartInv, VissInvStutters, Zenon DEF VissNext

\* The inductive invariant: the channel of every connection, and the way of
\* every event through its subscription into it.
THEOREM VissInvariant == VissSpec => []VissInv
<1>1. VissInit => VissInv
  BY VissInvInit
<1> QED
  BY <1>1, VissInvNext, PTL DEF VissSpec

\* Every request that was handled has its one response in the channel, in the
\* order of the requests, however many events are in the way.
THEOREM ResponsesStayInOrder == VissSpec => []ResponsesInOrder
<1>1. VissInv => ResponsesInOrder
  BY Zenon DEF VissInv, ConnInv, Answered, ResponsesInOrder
<1> QED
  BY <1>1, VissInvariant, PTL

\* A subscriber sees the values of its datapoint in the order in which they
\* were committed, and only the first event can be an error.
THEOREM EventsStayInOrder == VissSpec => []EventsInOrder
<1>1. VissInv => EventsInOrder
  BY Zenon DEF VissInv, SubInv, EventChain, EventsInOrder
<1> QED
  BY <1>1, VissInvariant, PTL

\* After the confirmation of an unsubscribe there is at most one more event.
THEOREM UnsubscribeEndsEvents == VissSpec => []UnsubscribeStops
<1>1. VissInv => UnsubscribeStops
  BY Zenon DEF VissInv, SubInv, Confirmed, UnsubscribeStops
<1> QED
  BY <1>1, VissInvariant, PTL

------------------------------------------------------------------------------
(* Dropped events *)

\* What a subscription has in hand, only its task gives up.
LEMMA HandKept ==
    ASSUME VissInv, VissNext, NEW s \in DOMAIN subs, ~TaskSend(s), subs[s].hand # None
    PROVE  subs'[s].hand # None
<1>1. SubShape(s) /\ IsSeq(subs)
  BY DEF VissInv, SubInv
<1>2. ASSUME NEW t, subs' = [subs EXCEPT ![t] = subs'[t]], t # s PROVE subs'[s].hand # None
  BY <1>2
<1>3. CASE UNCHANGED subs
  BY <1>3
<1>4. ASSUME NEW w, NEW i, SubscribeInitial(w, i) PROVE subs'[s].hand # None
  <2>1. UNCHANGED subs \/ \E sub : subs' = Append(subs, sub)
    BY <1>4, Zenon DEF SubscribeInitial
  <2> QED
    BY <1>1, <1>3, <2>1, AppendFacts
<1>5. ASSUME NEW w, SubscribeAdd(w) PROVE subs'[s].hand # None
  <2>1. PICK t : subs' = [subs EXCEPT ![t].state = "active"]
    BY <1>5, Zenon DEF SubscribeAdd
  <2> QED
    BY <1>1, <2>1 DEF SubShape
<1>6. ASSUME NEW ids, Abort(ids) PROVE subs'[s].hand # None
  BY <1>1, <1>6 DEF Abort, SubShape
<1>7. ASSUME NEW t \in DOMAIN subs, TaskTake(t) \/ TaskSend(t) \/ TaskEnd(t) \/ ExpireSubscriber(t) \/ Notify(t)
      PROVE  subs'[s].hand # None
  <2>1. CASE t # s
    <3>1. subs' = [subs EXCEPT ![t] = subs'[t]]
      <4>1. CASE TaskTake(t)
        BY <4>1, Zenon DEF TaskTake
      <4>2. CASE TaskSend(t)
        BY <4>2, Zenon DEF TaskSend
      <4>3. CASE TaskEnd(t) \/ ExpireSubscriber(t)
        BY <4>3 DEF TaskEnd, ExpireSubscriber
      <4>4. CASE Notify(t)
        <5>1. UNCHANGED subs \/ \E e : subs' = [subs EXCEPT ![t].channel = Append(@, e)]
          BY <4>4, Zenon DEF Notify
        <5> QED
          BY <1>1, <1>7, <5>1 DEF IsSeq
      <4> QED
        BY <1>7, <4>1, <4>2, <4>3, <4>4, Zenon
    <3> QED
      BY <1>2, <2>1, <3>1
  <2>2. CASE t = s
    <3>1. CASE TaskTake(t)
      BY <2>2, <3>1 DEF TaskTake
    <3>2. CASE TaskEnd(t) \/ ExpireSubscriber(t)
      BY <1>1, <2>2, <3>2 DEF TaskEnd, ExpireSubscriber, SubShape
    <3>3. CASE Notify(t)
      <4>1. UNCHANGED subs \/ \E e : subs' = [subs EXCEPT ![t].channel = Append(@, e)]
        BY <3>3, Zenon DEF Notify
      <4> QED
        BY <1>1, <2>2, <4>1 DEF SubShape
    <3> QED
      BY <1>7, <2>2, <3>1, <3>2, <3>3
  <2> QED
    BY <2>1, <2>2
<1>8. ASSUME NEW w, Connection(w) PROVE subs'[s].hand # None
  <2>1. CASE \E i : get(w, i) \/ GetMetadata(w, i) \/ set(w, i) \/ Malformed(w, i)
    <3>1. UNCHANGED subs
      BY <2>1, Zenon DEF get, GetMetadata, set, Malformed
    <3> QED
      BY <1>3, <3>1
  <2>2. CASE \E i : unsubscribe(w, i)
    <3>1. UNCHANGED subs \/ \E ids : Abort(ids)
      BY <2>2, Zenon DEF unsubscribe
    <3> QED
      BY <1>3, <1>6, <3>1
  <2>3. CASE Respond(w) \/ Forward(w)
    BY <1>3, <2>3, Zenon DEF Respond, Forward
  <2>4. CASE Close(w)
    BY <1>6, <2>4, Zenon DEF Close
  <2> QED
    BY <1>4, <1>5, <1>8, <2>1, <2>2, <2>3, <2>4, Zenon DEF Connection
<1>9. ASSUME NEW t, Task(t) \/ ExpireSubscriber(t) \/ Notify(t) PROVE subs'[s].hand # None
  <2>1. t \in DOMAIN subs
    BY <1>9 DEF Task, ExpireSubscriber, Notify, VissInv
  <2> QED
    BY <1>7, <1>9, <2>1, Zenon DEF Task
<1>10. CASE Commit \/ NotifyStart
  BY <1>3, <1>10, Zenon DEF Commit, NotifyStart
<1> QED
  BY <1>8, <1>9, <1>10, Zenon DEF VissNext

\* An event is dropped only if more than Buffer messages wait for the client.
THEOREM DropsNeedFullChannel == VissSpec => DropsOnlyWhenFull
<1>1. ASSUME VissInv, [VissNext]_vissVars, NEW s \in DOMAIN subs, NEW w, w = subs[s].conn,
             subs[s].hand # None, subs'[s].hand = None, conns[w].open, conns'[w].open,
             conns'[w].sent = conns[w].sent
      PROVE  Queued(conns[w]) > Buffer
  <2>1. TaskSend(s)
    <3>1. CASE UNCHANGED vissVars
      BY <1>1, <3>1 DEF vissVars
    <3>2. CASE VissNext
      BY <1>1, <3>2, HandKept
    <3> QED
      BY <1>1, <3>1, <3>2
  <2>2. PICK c, m : c = conns[w] /\ m = subs[s].hand[1]
    BY ZenonT(30)
  <2>3. /\ w \in Connections /\ ConnShape(c) /\ ParkedBeyond(c) /\ DOMAIN conns = Connections
        /\ c.sent \in Seq(SentMessage) /\ c.parked \in Seq(Nat) /\ c.read \in Nat
    BY <1>1, <2>2, Zenon DEF VissInv, ConnInv, SubInv, SubShape, ConnShape
  <2>4. IsParked(c, s)
    <3> SUFFICES ASSUME ~IsParked(c, s) PROVE FALSE
      OBVIOUS
    <3>1. conns' = [conns EXCEPT ![w] = Push(c, s, m)]
      BY <1>1, <2>1, <2>2, Zenon DEF TaskSend
    <3>2. PICK x : x = Sent(m)
      BY Zenon
    <3>3. conns'[w].sent = Append(c.sent, x)
      BY <2>3, <3>1, <3>2, Zenon DEF Push, ConnShape
    <3>4. IsSeq(c.sent) /\ Append(c.sent, x) = c.sent
      BY <1>1, <2>2, <2>3, <3>3, SeqIsSeq, Zenon
    <3>5. Len(c.sent) \in Nat /\ DOMAIN c.sent = 1..Len(c.sent) /\ DOMAIN c.sent = 1..(Len(c.sent) + 1)
      BY <3>4, AppendFacts, SeqFacts
    <3>6. Len(c.sent) + 1 \in DOMAIN c.sent
      BY <3>5
    <3> QED
      BY <3>5, <3>6
  <2>5. Len(c.parked) > 0
    BY <2>3, <2>4 DEF IsParked
  <2> QED
    BY <2>2, <2>3, <2>5, VissAssumption DEF ParkedBeyond, Queued
<1>2. VissInv /\ [VissNext]_vissVars =>
        [\A s \in DOMAIN subs :
            LET w == subs[s].conn
            IN  subs[s].hand # None /\ subs'[s].hand = None /\ conns[w].open /\ conns'[w].open
                    /\ conns'[w].sent = conns[w].sent
                => Queued(conns[w]) > Buffer]_vissVars
  BY <1>1, Zenon
<1> QED
  BY <1>2, VissInvariant, PTL DEF VissSpec, DropsOnlyWhenFull

------------------------------------------------------------------------------
(* Sets *)

\* A text that parses as a value of a type is the text of that value, or has
\* the same number.
LEMMA TextRoundTrip ==
    ASSUME NEW elem \in WideTypes, NEW text \in Texts, Parses(elem, text)
    PROVE  SameText(elem, to_string(elem, Parsed(elem, text)), text)
<1>1. text = Text(text.is, text.n) /\ text.n \in Int
  BY DEF Texts, Text
<1>2. CASE elem = "String"
  BY <1>2 DEF Parsed, to_string, SameText
<1>3. CASE elem = "Bool"
  BY <1>1, <1>3 DEF Parses, Parsed, to_string, SameText
<1>4. CASE elem \in {"Float", "Double"}
  <2>1. text.is \in {"integer", "decimal"}
    BY <1>4 DEF Parses
  <2>2. CASE text.is = "integer"
    <3>1. PICK n \in Int : n = text.n
      BY <1>1
    <3>2. (10 * n) % 10 = 0 /\ (10 * n) \div 10 = n
      BY <3>1
    <3>3. Parsed(elem, text) = 10 * n
      BY <1>4, <2>2, <3>1 DEF Parsed
    <3> QED
      BY <1>1, <1>4, <2>2, <3>1, <3>2, <3>3 DEF to_string, SameText
  <2>3. CASE text.is = "decimal"
    <3>1. PICK n \in Int : n = text.n
      BY <1>1
    <3>2. Parsed(elem, text) = n
      BY <1>4, <2>3, <3>1 DEF Parsed
    <3>3. CASE n % 10 = 0
      <4>1. PICK q \in Int : q = n \div 10 /\ 10 * q = n
        BY <3>1, <3>3
      <4>2. to_string(elem, n) = Text("integer", q)
        BY <1>4, <3>3, <4>1 DEF to_string
      <4>3. Text("integer", q).is = "integer" /\ Tenths(Text("integer", q)) = n
        BY <4>1 DEF Tenths, Text
      <4>4. Tenths(text) = n
        BY <2>3, <3>1 DEF Tenths
      <4> QED
        BY <1>4, <2>3, <3>2, <4>2, <4>3, <4>4 DEF SameText
    <3>4. CASE n % 10 # 0
      <4>1. to_string(elem, n) = Text("decimal", n)
        BY <1>4, <3>4 DEF to_string
      <4> QED
        BY <1>1, <2>3, <3>1, <3>2, <4>1 DEF SameText
    <3> QED
      BY <3>3, <3>4
  <2> QED
    BY <2>1, <2>2, <2>3
<1>5. CASE elem \in {"Int32", "Uint32", "Int64", "Uint64"}
  BY <1>1, <1>5 DEF Parses, Parsed, to_string, SameText
<1> QED
  BY <1>2, <1>3, <1>4, <1>5 DEF WideTypes

\* A value that a type accepts is read back as it was sent, or as the same numbers.
LEMMA ValueRoundTrip ==
    ASSUME NEW value \in VissValue, NEW type \in DataType, try_into_type(value, type) # None
    PROVE  ReadAsSent(type.elem, FromDataValue(try_into_type(value, type)[1]), value)
<1>1. PICK elem, texts : elem = Carrier(type.elem) /\ texts = value.texts
  BY Zenon
<1>2. elem \in WideTypes /\ type.array \in BOOLEAN
  BY <1>1 DEF DataType, WideTypes, NarrowTypes, Carrier
<1>3. PICK v : v = [i \in DOMAIN texts |-> Parsed(elem, texts[i])]
  BY Zenon
<1>4. PICK dv : dv = [elem |-> elem, array |-> type.array, v |-> v]
  BY Zenon
<1>5. /\ value.is = IF type.array THEN "Array" ELSE "Scalar"
      /\ \A i \in DOMAIN texts : Parses(elem, texts[i])
      /\ try_into_type(value, type) = << dv >>
  BY <1>1, <1>3, <1>4 DEF try_into_type, Some
<1>6. texts \in Seq(Texts) /\ (~type.array => Len(texts) = 1)
  BY <1>1, <1>2, <1>5 DEF VissValue, VissNone
<1>7. \A i \in DOMAIN texts : texts[i] \in Texts
  BY <1>6, SeqElement, Zenon
<1>8. dv # NotAvailable
  BY <1>2, <1>4 DEF NotAvailable, WideTypes
<1>9. PICK back : back = [i \in DOMAIN dv.v |-> to_string(dv.elem, dv.v[i])]
  BY Zenon
<1>10. /\ DOMAIN back = DOMAIN texts
       /\ \A i \in DOMAIN texts : SameText(type.elem, back[i], texts[i])
  <2>1. DOMAIN back = DOMAIN texts /\ \A i \in DOMAIN texts : back[i] = to_string(elem, Parsed(elem, texts[i]))
    BY <1>3, <1>4, <1>9
  <2>2. \A i \in DOMAIN texts : SameText(elem, back[i], texts[i])
    BY <1>2, <1>5, <1>7, <2>1, TextRoundTrip
  <2>3. elem \in {"Float", "Double"} => type.elem = elem
    BY <1>1 DEF Carrier
  <2> QED
    BY <2>1, <2>2, <2>3 DEF SameText
<1>11. FromDataValue(dv) = IF type.array THEN VissArray(back) ELSE VissScalar(back[1])
  BY <1>4, <1>8, <1>9 DEF FromDataValue
<1>12. CASE type.array
  <2>1. FromDataValue(dv).is = "Array" /\ FromDataValue(dv).texts = back
    BY <1>11, <1>12 DEF VissArray
  <2> QED
    BY <1>1, <1>5, <1>10, <1>12, <2>1 DEF ReadAsSent
<1>13. CASE ~type.array
  <2>1. FromDataValue(dv).is = "Scalar" /\ FromDataValue(dv).texts = << back[1] >>
    BY <1>11, <1>13 DEF VissScalar
  <2>2. DOMAIN texts = {1}
    BY <1>6, <1>13
  <2>3. DOMAIN << back[1] >> = {1} /\ << back[1] >>[1] = back[1]
    OBVIOUS
  <2>4. SameText(type.elem, back[1], texts[1])
    BY <1>10, <2>2
  <2> QED
    BY <1>1, <1>5, <1>13, <2>1, <2>2, <2>3, <2>4 DEF ReadAsSent
<1> QED
  BY <1>5, <1>12, <1>13

\* The results of an update: those that a set reports as an error, and Ok.
LEMMA UpdateResults ==
    ASSUME NEW perm, NEW id, NEW update
    PROVE  UpdateResult(perm, id, update) \in
              {"Ok", "NotFound", "WrongType", "OutOfBounds", "UnsupportedType", "PermissionDenied",
               "PermissionExpired"}
<1>1. \A metadata, value : ValidateOne(metadata, value) \in {"Ok", "WrongType", "OutOfBounds", "UnsupportedType"}
  BY DEF ValidateOne, validate_value, validate_allowed, AndThen
<1>2. \A type, allowed : validate_allowed_type(type, allowed) \in {"Ok", "WrongType"}
  BY DEF validate_allowed_type
<1>3. \A entry, u : validate(entry, u) \in {"Ok", "WrongType", "OutOfBounds", "UnsupportedType"}
  BY <1>1, <1>2 DEF validate, AndThen
<1>4. \A result : Denial(result) \in {"Ok", "PermissionDenied", "PermissionExpired"}
  BY DEF Denial
<1> QED
  BY <1>3, <1>4 DEF UpdateResult, UpdateOf, AndThen

\* A set that is answered without an error has made the value the target.
LEMMA SetIsMade ==
    ASSUME VissInv, NEW w, NEW i \in DOMAIN Requests, set(w, i), SetOutcome(i).error = "Ok"
    PROVE  /\ Authorization = "Enabled" => Requests[i].authorization # None
           /\ LET entry == entries'[path_to_id[Requests[i].path]]
              IN  ReadAsSent(entry.metadata.data_type.elem,
                             FromDataValue(entry.actuator_target[1]), Requests[i].value)
<1>1. PICK id, sent : id = path_to_id[Requests[i].path] /\ sent = Requests[i].value
  BY Zenon
<1>2. PICK type, perm : type = entries[id].metadata.data_type /\ perm = Resolved[i].perm
  BY Zenon
<1>3. PICK value : value = try_into_type(sent, type)
  BY Zenon
<1>4. PICK update : update = [NoUpdate EXCEPT !.actuator_target = Some(value)]
  BY ZenonT(30)
<1>5. /\ Resolved[i].error = "Ok" /\ value # None
      /\ SetOutcome(i).error = SetUpdateError(UpdateResult(perm, id, update))
      /\ SetOutcome(i).update = update
  BY <1>1, <1>2, <1>3, <1>4 DEF SetOutcome
<1>6. Authorization = "Enabled" => Requests[i].authorization # None
  <2>1. Resolved[i] = resolve_permissions(Requests[i].authorization, Paths)
    BY DEF Resolved
  <2> SUFFICES ASSUME Authorization = "Enabled", Requests[i].authorization = None PROVE FALSE
    BY Zenon
  <2>2. Resolved[i] = [error |-> "UnauthorizedTokenMissing"]
    BY <2>1 DEF resolve_permissions
  <2> QED
    BY <1>5, <2>2
<1>7. UpdateResult(perm, id, update) = "Ok"
  BY <1>5, UpdateResults DEF SetUpdateError
<1>8. update_entry(perm, id, update)
  BY <1>1, <1>2, <1>5, Zenon DEF set
<1>9. /\ id \in DOMAIN entries /\ type \in DataType /\ "data_type" \in DOMAIN entries[id].metadata
      /\ DOMAIN entries[id] = {"datapoint", "actuator_target", "metadata"}
  BY <1>2, <1>7 DEF UpdateResult, VissInv, ValuesMade
<1>10. PICK new : new = apply(entries[id], diff(entries[id], update))
  BY Zenon
<1>11. new.actuator_target = value /\ new.metadata.data_type = type
  <2>1. PICK d : d = diff(entries[id], update)
    BY Zenon
  <2>2. d.actuator_target = << value >>
    BY <1>4, <2>1 DEF diff, NoUpdate, Some
  <2>3. new.actuator_target = value
    BY <1>9, <1>10, <2>1, <2>2 DEF apply, None
  <2>4. \E allowed : new.metadata = [entries[id].metadata EXCEPT !.allowed = allowed]
    BY <1>9, <1>10, ZenonT(30) DEF apply
  <2> QED
    BY <1>2, <1>9, <2>3, <2>4
<1>12. entries'[id] = new
  BY <1>7, <1>8, <1>9, <1>10 DEF update_entry
<1>13. sent \in VissValue
  BY <1>1, VissAssumption
<1>14. ReadAsSent(type.elem, FromDataValue(value[1]), sent)
  BY <1>3, <1>5, <1>9, <1>13, ValueRoundTrip, Zenon
<1> QED
  BY <1>1, <1>6, <1>11, <1>12, <1>14

\* A connection takes up a request, or goes on with the one it has.
Takes(w) ==
    \/ \E i \in DOMAIN Requests : get(w, i) \/ GetMetadata(w, i) \/ set(w, i) \/ Malformed(w, i)
                                  \/ SubscribeInitial(w, i) \/ unsubscribe(w, i)
    \/ SubscribeAdd(w)

\* Nothing else gives a connection something to handle.
LEMMA HandlingTaken ==
    ASSUME VissInv, VissNext, NEW w \in Connections, conns'[w].handling # conns[w].handling,
           conns'[w].handling # None
    PROVE  Takes(w)
<1>1. DOMAIN conns = Connections /\ \A v \in Connections : ConnShape(conns[v])
  BY DEF VissInv, ConnInv
<1>2. \A v, new : conns' = [conns EXCEPT ![v] = new] => v = w /\ conns'[w] = new
  BY <1>1
<1>3. \A c, sender, m : ConnShape(c) => Push(c, sender, m).handling = c.handling
  BY DEF Push, ConnShape
<1>4. ASSUME NEW v \in Connections, Connection(v) PROVE Takes(w)
  <2>1. CASE Takes(v)
    <3>1. v = w
      <4>1. \E new : conns' = [conns EXCEPT ![v] = new]
        <5>1. ASSUME NEW i, NEW m, Answer(v, i, m) PROVE \E new : conns' = [conns EXCEPT ![v] = new]
          BY <5>1, Zenon DEF Answer
        <5>2. ASSUME NEW i, SubscribeInitial(v, i) PROVE \E new : conns' = [conns EXCEPT ![v] = new]
          <6>1. \/ \E m : Answer(v, i, m)
                \/ \E h : conns' = [conns EXCEPT ![v].handling = h, ![v].handled = @ + 1]
            BY <5>2, Zenon DEF SubscribeInitial
          <6> QED
            BY <5>1, <6>1, ZenonT(30)
        <5>3. ASSUME SubscribeAdd(v) PROVE \E new : conns' = [conns EXCEPT ![v] = new]
          BY <5>3, Zenon DEF SubscribeAdd
        <5>4. ASSUME NEW i, get(v, i) \/ GetMetadata(v, i) \/ set(v, i) \/ Malformed(v, i) \/ unsubscribe(v, i)
              PROVE  \E m : Answer(v, i, m)
          BY <5>4, Zenon DEF get, GetMetadata, set, Malformed, unsubscribe
        <5> QED
          BY <2>1, <5>1, <5>2, <5>3, <5>4, Zenon DEF Takes
      <4> QED
        BY <1>2, <4>1
    <3> QED
      BY <2>1, <3>1
  <2>2. CASE Respond(v)
    <3>1. PICK c, m : c = [conns[v] EXCEPT !.handling = None] /\ conns' = [conns EXCEPT ![v] = Push(c, Response, m)]
      BY <2>2, Zenon DEF Respond
    <3>2. c.handling = None /\ DOMAIN c = {"open", "handling", "handled", "sent", "read", "parked"}
      BY <1>1, <3>1 DEF ConnShape
    <3>3. Push(c, Response, m).handling = None
      BY <3>2 DEF Push
    <3> QED
      BY <1>2, <3>1, <3>3
  <2>3. CASE Forward(v)
    BY <1>1, <2>3 DEF Forward, ConnShape
  <2>4. CASE Close(v)
    <3>1. conns' = [conns EXCEPT ![v] = [Start EXCEPT !.open = FALSE]]
      BY <2>4 DEF Close
    <3> QED
      BY <1>2, <3>1 DEF Start
  <2> QED
    BY <1>4, <2>1, <2>2, <2>3, <2>4, Zenon DEF Connection, Takes
<1>5. ASSUME NEW s, Task(s) PROVE FALSE
  <2>1. CASE UNCHANGED conns
    BY <2>1
  <2>2. CASE ~UNCHANGED conns
    <3>1. PICK v, m : v = subs[s].conn /\ conns' = [conns EXCEPT ![v] = Push(conns[v], s, m)]
      BY <1>5, <2>2, Zenon DEF Task, TaskTake, TaskSend, TaskEnd
    <3> QED
      BY <1>1, <1>2, <1>3, <3>1
  <2> QED
    BY <2>1, <2>2
<1>6. CASE UNCHANGED conns
  BY <1>6
<1>7. (\E s : ExpireSubscriber(s) \/ Notify(s)) \/ Commit \/ NotifyStart => UNCHANGED conns
  BY Zenon DEF ExpireSubscriber, Notify, Commit, NotifyStart
<1> QED
  BY <1>4, <1>5, <1>6, <1>7, Zenon DEF VissNext

\* What is in the middle of its handling is a subscribe.
AddsSubscribe ==
    \A w \in Connections :
        conns[w].handling # None /\ conns[w].handling[1].step = "add" =>
            Requests[conns[w].handling[1].request].action = "subscribe"

\* What a connection has to handle after it took up a request.
LEMMA HandlingMade ==
    ASSUME VissInv, NEW w \in Connections, NEW i \in DOMAIN Requests, NEW m, Answer(w, i, m)
    PROVE  conns'[w].handling = << [request |-> i, step |-> "respond", response |-> m] >>
<1>1. DOMAIN conns = Connections /\ ConnShape(conns[w])
  BY DEF VissInv, ConnInv
<1>2. PICK h : h = << [request |-> i, step |-> "respond", response |-> m] >>
  BY Zenon
<1>3. conns' = [conns EXCEPT ![w].handling = h, ![w].handled = @ + 1]
  BY <1>2, Zenon DEF Answer, Some
<1> QED
  BY <1>1, <1>2, <1>3, Zenon DEF ConnShape

\* A subscribe is answered, or is to be added.
LEMMA SubscribeMade ==
    ASSUME VissInv, NEW w \in Connections, NEW i \in DOMAIN Requests, SubscribeInitial(w, i)
    PROVE  conns'[w].handling # None /\ conns'[w].handling[1].request = i /\ Requests[i].action = "subscribe"
<1>1. DOMAIN conns = Connections /\ ConnShape(conns[w]) /\ Requests[i].action = "subscribe"
  BY DEF VissInv, ConnInv, SubscribeInitial, Reads
<1>2. \/ \E m : Answer(w, i, m)
      \/ \E m : conns' = [conns EXCEPT ![w].handling = << [request |-> i, step |-> "add", response |-> m] >>,
                                       ![w].handled = @ + 1]
  BY Zenon DEF SubscribeInitial, Some
<1>3. CASE \E m : Answer(w, i, m)
  <2>1. PICK m : conns'[w].handling = << [request |-> i, step |-> "respond", response |-> m] >>
    BY <1>3, HandlingMade, Zenon
  <2> QED
    BY <1>1, <2>1 DEF None
<1>4. CASE ~\E m : Answer(w, i, m)
  <2>1. PICK m : conns' = [conns EXCEPT ![w].handling = << [request |-> i, step |-> "add", response |-> m] >>,
                                        ![w].handled = @ + 1]
    BY <1>2, <1>4, Zenon
  <2> QED
    BY <1>1, <2>1 DEF None, ConnShape
<1> QED
  BY <1>3, <1>4

\* Adding goes on with the same request.
LEMMA AddMade ==
    ASSUME VissInv, NEW w \in Connections, SubscribeAdd(w)
    PROVE  /\ conns[w].handling # None /\ conns[w].handling[1].step = "add" /\ conns'[w].handling # None
           /\ conns'[w].handling[1].request = conns[w].handling[1].request
           /\ conns'[w].handling[1].step = "respond"
<1>1. DOMAIN conns = Connections /\ ConnShape(conns[w])
  BY Zenon DEF VissInv, ConnInv
<1>2. conns[w].handling # None /\ conns[w].handling[1].step = "add"
  BY Zenon DEF SubscribeAdd
<1>3. PICK h : conns[w].handling = << h >> /\ DOMAIN h = {"request", "step", "response"}
  BY <1>1, <1>2, Zenon DEF ConnShape
<1>4. conns' = [conns EXCEPT ![w].handling[1].step = "respond"]
  BY DEF SubscribeAdd
<1>5. conns'[w].handling = [<< h >> EXCEPT ![1].step = "respond"]
  BY <1>1, <1>3, <1>4 DEF ConnShape
<1>6. conns'[w].handling = << [h EXCEPT !.step = "respond"] >>
  BY <1>5
<1> QED
  BY <1>2, <1>3, <1>6 DEF None

\* The requests that are answered at once.
LEMMA AnswerMade ==
    ASSUME VissInv, NEW w \in Connections, NEW i \in DOMAIN Requests,
           get(w, i) \/ GetMetadata(w, i) \/ set(w, i) \/ Malformed(w, i) \/ unsubscribe(w, i)
    PROVE  conns'[w].handling # None /\ conns'[w].handling[1].request = i /\ conns'[w].handling[1].step = "respond"
<1>1. \E m : Answer(w, i, m)
  BY Zenon DEF get, GetMetadata, set, Malformed, unsubscribe
<1>2. PICK m : conns'[w].handling = << [request |-> i, step |-> "respond", response |-> m] >>
  BY <1>1, HandlingMade, Zenon
<1>3. PICK h : h = [request |-> i, step |-> "respond", response |-> m]
  BY Zenon
<1>4. h.request = i /\ h.step = "respond"
  BY <1>3
<1>5. conns'[w].handling = << h >> /\ << h >> # None /\ << h >>[1] = h
  BY <1>2, <1>3 DEF None
<1> QED
  BY <1>4, <1>5

\* Only subscribe has two parts.
THEOREM OnlySubscribeAdds == VissSpec => []AddsSubscribe
<1>1. VissInit => AddsSubscribe
  <2>1. Start.handling = None
    BY DEF Start
  <2>2. VissInit => \A w \in Connections : conns[w] = Start
    BY DEF VissInit
  <2> QED
    BY <2>1, <2>2 DEF AddsSubscribe
<1>2. VissInv /\ AddsSubscribe /\ [VissNext]_vissVars => AddsSubscribe'
  <2> SUFFICES ASSUME VissInv, AddsSubscribe, [VissNext]_vissVars, NEW w \in Connections,
                      conns'[w].handling # None, conns'[w].handling[1].step = "add"
               PROVE  Requests[conns'[w].handling[1].request].action = "subscribe"
    BY Zenon DEF AddsSubscribe
  <2>1. CASE conns'[w].handling = conns[w].handling
    BY <2>1 DEF AddsSubscribe
  <2>2. CASE conns'[w].handling # conns[w].handling
    <3>1. VissNext
      BY <2>2 DEF vissVars
    <3>2. Takes(w)
      BY <2>2, <3>1, HandlingTaken
    <3>3. ~SubscribeAdd(w)
      <4> SUFFICES ASSUME SubscribeAdd(w) PROVE FALSE
        OBVIOUS
      <4>1. conns'[w].handling[1].step = "respond"
        BY AddMade
      <4> QED
        BY <4>1
    <3>4. PICK i \in DOMAIN Requests : get(w, i) \/ GetMetadata(w, i) \/ set(w, i) \/ Malformed(w, i)
                                       \/ SubscribeInitial(w, i) \/ unsubscribe(w, i)
      BY <3>2, <3>3, Zenon DEF Takes
    <3>5. CASE SubscribeInitial(w, i)
      BY <3>5, SubscribeMade
    <3>6. CASE ~SubscribeInitial(w, i)
      <4>1. conns'[w].handling[1].step = "respond"
        BY <3>4, <3>6, AnswerMade
      <4> QED
        BY <4>1, Zenon
    <3> QED
      BY <3>5, <3>6
  <2> QED
    BY <2>1, <2>2
<1> QED
  BY <1>1, <1>2, VissInvariant, PTL DEF VissSpec

\* A set that is confirmed has made the value that was sent the target, to be
\* read back as it was sent or, of a floating point type, as the same number; one that is refused, and any other request, has
\* changed nothing.
THEOREM SetsAlwaysTakeEffect == VissSpec => SetsTakeEffect
<1>1. ASSUME VissInv, AddsSubscribe, VissNext, NEW w \in Connections,
             conns'[w].handling # conns[w].handling, conns'[w].handling # None,
             NEW h, h = conns'[w].handling[1], NEW r, r = Requests[h.request]
      PROVE  IF r.action = "set" /\ h.response.error = "Ok"
             THEN /\ Authorization = "Enabled" => r.authorization # None
                  /\ LET entry == entries'[path_to_id[r.path]]
                     IN  ReadAsSent(entry.metadata.data_type.elem,
                                    FromDataValue(entry.actuator_target[1]), r.value)
             ELSE entries' = entries
  <2>1. Takes(w)
    BY <1>1, HandlingTaken, Zenon
  <2>2. CASE SubscribeAdd(w)
    <3>1. r.action = "subscribe"
      BY <1>1, <2>2, AddMade, Zenon DEF AddsSubscribe
    <3>2. entries' = entries
      BY <2>2, ZenonT(30) DEF SubscribeAdd, dbVars
    <3> QED
      BY <3>1, <3>2, ZenonT(30)
  <2>3. ASSUME NEW i \in DOMAIN Requests, SubscribeInitial(w, i)
        PROVE  r.action # "set" /\ entries' = entries
    BY <1>1, <2>3, SubscribeMade, Zenon DEF SubscribeInitial, dbVars
  <2>4. ASSUME NEW i \in DOMAIN Requests, get(w, i) \/ GetMetadata(w, i) \/ Malformed(w, i) \/ unsubscribe(w, i)
        PROVE  r.action # "set" /\ entries' = entries
    <3>1. r = Requests[i]
      BY <1>1, <2>4, AnswerMade
    <3>2. Requests[i].action # "set"
      BY <2>4 DEF get, GetMetadata, Malformed, unsubscribe, Reads
    <3>3. entries' = entries
      BY <2>4, ZenonT(30) DEF get, GetMetadata, Malformed, unsubscribe, dbVars
    <3> QED
      BY <3>1, <3>2, <3>3
  <2>5. ASSUME NEW i \in DOMAIN Requests, set(w, i)
        PROVE  IF r.action = "set" /\ h.response.error = "Ok"
               THEN /\ Authorization = "Enabled" => r.authorization # None
                    /\ LET entry == entries'[path_to_id[r.path]]
                       IN  ReadAsSent(entry.metadata.data_type.elem,
                                      FromDataValue(entry.actuator_target[1]), r.value)
               ELSE entries' = entries
    <3>1. PICK m : m = Message(Number(w), 0, SetOutcome(i).error, VissNone)
      BY Zenon
    <3>2. Answer(w, i, m)
      BY <2>5, <3>1, Zenon DEF set
    <3>3. conns'[w].handling = << [request |-> i, step |-> "respond", response |-> m] >>
      BY <1>1, <3>2, HandlingMade, Zenon
    <3>4. h.request = i /\ h.response = m
      BY <1>1, <3>3
    <3>5. r = Requests[i] /\ r.action = "set" /\ h.response.error = SetOutcome(i).error
      <4>1. m.error = SetOutcome(i).error
        BY <3>1, Zenon DEF Message
      <4>2. Requests[i].action = "set"
        BY <2>5, Zenon DEF set, Reads
      <4> QED
        BY <1>1, <3>4, <4>1, <4>2
    <3>6. CASE SetOutcome(i).error = "Ok"
      BY <1>1, <2>5, <3>5, <3>6, SetIsMade, ZenonT(30)
    <3>7. CASE SetOutcome(i).error # "Ok"
      <4>1. entries' = entries
        BY <2>5, <3>7, Zenon DEF set, dbVars
      <4> QED
        BY <3>5, <3>7, <4>1
    <3> QED
      BY <3>6, <3>7
  <2> QED
    BY <2>1, <2>2, <2>3, <2>4, <2>5, ZenonT(30) DEF Takes
<1>2. VissInv /\ AddsSubscribe /\ [VissNext]_vissVars =>
        [\A w \in Connections :
          conns'[w].handling # conns[w].handling /\ conns'[w].handling # None =>
             LET h == conns'[w].handling[1]
                 r == Requests[h.request]
             IN  IF r.action = "set" /\ h.response.error = "Ok"
                 THEN /\ Authorization = "Enabled" => r.authorization # None
                      /\ LET entry == entries'[path_to_id[r.path]]
                         IN  ReadAsSent(entry.metadata.data_type.elem,
                                        FromDataValue(entry.actuator_target[1]), r.value)
                 ELSE entries' = entries
      ]_vissVars
  BY <1>1, Zenon
<1> QED
  BY <1>2, VissInvariant, OnlySubscribeAdds, PTL DEF VissSpec, SetsTakeEffect

==============================================================================
