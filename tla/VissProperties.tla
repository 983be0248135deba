----------------------------- MODULE VissProperties -----------------------------
(***************************************************************************)
(* What a VISS client, a provider and the other clients rely on.           *)
(***************************************************************************)
EXTENDS Viss

\* What the channel of w was given: responses, and events of the subscription s.
Responses(w) == {i \in DOMAIN conns[w].sent : conns[w].sent[i].request # Event}
Events(w, s) ==
    {i \in DOMAIN conns[w].sent : conns[w].sent[i].request = Event /\ conns[w].sent[i].subscription = s}

\* As long as a connection is open, every request that was handled has its one
\* response in the channel, in the order of the requests, however many events
\* are in the way: the read task sends each with a clone of the sender that
\* cannot be parked.
ResponsesInOrder ==
    \A w \in Connections : conns[w].open =>
        LET sent == conns[w].sent
        IN  /\ {sent[i].request : i \in Responses(w)} = 1..(conns[w].handled - Len(conns[w].handling))
            /\ \A i, j \in Responses(w) : i < j => sent[i].request < sent[j].request

Latest(m) == IF m.value = VissNone THEN 0 ELSE m.value.texts[1].n

\* A subscriber sees the values of its datapoint in the order in which they
\* were committed, some of them perhaps twice or not at all.  Only the first
\* event can be an error.
EventsInOrder ==
    \A s \in DOMAIN subs :
        LET w == subs[s].conn
            sent == conns[w].sent
        IN  \A i, j \in Events(w, s) : i < j =>
                Latest(sent[i]) <= Latest(sent[j]) /\ sent[j].status = 0

\* The responses to a subscribe that gave s, and to its unsubscribe, if they succeeded.
Confirmations(w, s) ==
    {i \in Responses(w) : conns[w].sent[i].subscription = s /\ conns[w].sent[i].status = 0}

\* An unsubscribe that is confirmed stops the events: one that the background
\* task had in hand may follow the confirmation, a second one may not.
UnsubscribeStops ==
    \A s \in DOMAIN subs :
        LET w == subs[s].conn
        IN  \A h, i \in Confirmations(w, s) : h < i =>
                \A j, k \in Events(w, s) : i < j /\ i < k => j = k

\* An event is dropped only if more than Buffer messages wait for the client
\* already: the senders of responses that came and went do not keep the one of
\* a subscription parked.  A client that keeps up misses nothing.
DropsOnlyWhenFull ==
    [][\A s \in DOMAIN subs :
          LET w == subs[s].conn
          IN  subs[s].hand # None /\ subs'[s].hand = None /\ conns[w].open /\ conns'[w].open
                  /\ conns'[w].sent = conns[w].sent
              => Queued(conns[w]) > Buffer]_vissVars

TokenGrants(authorization, path) ==
    /\ authorization # None
    /\ authorization[1].sound /\ authorization[1].age = "Valid"
    /\ \E action \in Actions : ScopesGrant(authorization[1].scope, action, path)

MayRead == [i \in DOMAIN Requests |-> TokenGrants(Requests[i].authorization, Requests[i].path)]

\* A value is given only to those whose token grants it by its scopes, at the
\* time it is read: in the answer to a get, and in an event for as long as the
\* token of the subscribe request has not expired.
ValuesNeedPermission ==
    [][/\ \A w \in Connections :
             conns'[w].handling # conns[w].handling /\ conns'[w].handling # None =>
                LET h == conns'[w].handling[1]
                    r == Requests[h.request]
                IN  h.response.value # VissNone =>
                       /\ MayRead[h.request]
                       /\ h.response.value = FromDataValue(entries[path_to_id[r.path]].datapoint)
       /\ \A s \in DOMAIN subs' :
             LET before == IF s \in DOMAIN subs THEN Len(subs[s].channel) ELSE 0
             IN  \A i \in (before + 1)..Len(subs'[s].channel) :
                    subs'[s].channel[i].value # VissNone =>
                        MayRead[subs'[s].request] /\ ~subs'[s].expired
      ]_vissVars

Tenths(text) == IF text.is = "integer" THEN 10 * text.n ELSE text.n

\* Of a floating point type the number counts: "2.0" is read back as "2".
SameText(elem, read, sent) ==
    \/ read = sent
    \/ /\ elem \in {"Float", "Double"} /\ {read.is, sent.is} \subseteq {"integer", "decimal"}
       /\ Tenths(read) = Tenths(sent)

ReadAsSent(elem, read, sent) ==
    /\ read.is = sent.is /\ DOMAIN read.texts = DOMAIN sent.texts
    /\ \A i \in DOMAIN sent.texts : SameText(elem, read.texts[i], sent.texts[i])

\* A set that is confirmed has made the value that was sent the target, and
\* reading it back gives the text that was sent, or one of the same number; one
\* that is refused has changed nothing.  Nothing else touches a target.
SetsTakeEffect ==
    [][\A w \in Connections :
          conns'[w].handling # conns[w].handling /\ conns'[w].handling # None =>
             LET h == conns'[w].handling[1]
                 r == Requests[h.request]
             IN  IF r.action = "set" /\ h.response.error = "Ok"
                 THEN /\ Authorization = "Enabled" => r.authorization # None
                      /\ LET entry == entries'[path_to_id[r.path]]
                         IN  ReadAsSent(entry.metadata.data_type.elem,
                                        FromDataValue(entry.actuator_target[1]), r.value)
                 ELSE entries' = entries
      ]_vissVars

\* The static metadata of a path has every entry that begins with it, under
\* the last name of the path, whatever order the entries come in; the one
\* exception is an entry that was registered below another one.
MetadataIsComplete ==
    [][\A w \in Connections :
          conns'[w].handling # conns[w].handling /\ conns'[w].handling # None =>
             LET h == conns'[w].handling[1]
                 r == Requests[h.request]
                 found == {p \in DOMAIN path_to_id : StartsWith(p, r.path)}
                 shown == {p \in found : \A q \in found : ~StartsWith(p, q \o << "." >>)}
             IN  r.action = "get" /\ r.filter =>
                    DOMAIN h.response.metadata
                        = {Segments(SubSeq(p, StripPrefix(r.path) + 1, Len(p))) : p \in shown}
      ]_vissVars

\* A client that reads slowly, or not at all, does not hold up the provider:
\* an update that was committed is finished, although it waits for room in the
\* channel of every subscription.
UpdatesGoThrough == writer.phase # "idle" ~> writer.phase = "idle"

\* Once its connection is closed a subscription ends, also if its datapoint
\* never changes again.
ClosedConnectionsEnd ==
    \A s \in SubIds :
        (IF s \in DOMAIN subs THEN ~conns[subs[s].conn].open ELSE FALSE)
            ~> (s \in DOMAIN subs /\ subs[s].state = "ended")

==============================================================================
