------------------------------- MODULE Services -------------------------------
(***************************************************************************)
(* The databroker as its gRPC clients see it: it starts, reads its files   *)
(* and then serves, with calls of the two interfaces side by side on one   *)
(* database.                                                               *)
(***************************************************************************)
EXTENDS Val, Sdv

ServicesNext ==
    \/ StartupNext /\ UNCHANGED << authorization, call, calls_made, shutdown >>
    \/ \E c \in Clients : Call(c) \/ Expire(c) \/ ValNext(c) \/ SdvNext(c)
    \/ Shutdown

\* A spawned task goes on when it can; nothing is assumed of the clients.
ServicesSpec ==
    /\ GrpcInit /\ [][ServicesNext]_grpcVars
    /\ \A c \in Clients : WF_grpcVars(StreamTask(c))

------------------------------------------------------------------------------
(* Properties *)

\* The documentation's answer to which paths a pattern describes.
DescribedBy == [glob \in Globs |-> {path \in Paths : Documented(glob, path)}]

Ends(c, op) == Open(c, op) /\ call'[c].status = "Ok"

Patterns(c) == {Items(c)[i].path : i \in DOMAIN Items(c)}

\* By the documentation `**` stands for any number of branches; the code
\* keeps to that at the end of a pattern only (see README), so the reference
\* is used for patterns that have it nowhere else.
Regular(glob) == ~HasWithin(glob, << "*", "*", "." >>)

\* The patterns of the requests match what the documentation says they do.
GlobsAsDocumented ==
    \A glob \in Globs : Regular(glob) /\ ~BadPattern(glob) => MatchedBy[glob] = DescribedBy[glob]

\* A get answers as documented: each request whose pattern describes some
\* entry has the value of every such entry in the reply, unless one of them
\* may not be read, and then nobody's value is sent; a request that describes
\* none has a 404.  Nothing is sent that no request describes.
GetAnswersAsDocumented ==
    [][\A c \in Clients : Ends(c, "get") =>
          LET reply == call'[c]
              Asks(r, path) == path \in DescribedBy[r.path] \cap Registered
          IN  /\ \A i \in DOMAIN Items(c) :
                    LET r == Items(c)[i]
                        fields == combine_view_and_fields(r.view, r.fields)
                    IN  Regular(r.path) /\ ~BadPattern(r.path) =>
                        /\ (\A path \in Paths : ~Asks(r, path))
                              <=> [path |-> r.path, code |-> 404] \in reply.errors
                        /\ \A path \in Paths : Asks(r, path) /\ "Value" \in fields =>
                              \/ \E e \in reply.errors : e.code = 403
                              \/ /\ path \in DOMAIN reply.results
                                 /\ reply.results[path].value = ValDatapoint(EntryAt(path).datapoint)
              /\ \A path \in DOMAIN reply.results :
                    /\ \E p \in Patterns(c) : Regular(p) => path \in DescribedBy[p]
                    /\ reply.results[path].value # None => Readable(c, path)
              /\ (\E e \in reply.errors : e.code = 403) => reply.results = EmptyMap
      ]_grpcVars

\* What the items of a set ask of a path, the last one that names it counting.
Asked(c, path, field) ==
    LET naming == {i \in DOMAIN Items(c) :
                      LET e == Items(c)[i].entry[1]
                      IN  /\ e.path = path /\ field \in Items(c)[i].fields
                          /\ field = "Value" => e.value # None}
        last == CHOOSE i \in naming : \A j \in naming : j <= i
        entry == Items(c)[last].entry[1]
    IN  IF naming = {} THEN None
        ELSE IF field = "Value" THEN Some(Some(FromValDatapoint(entry.value[1])))
        ELSE IF entry.actuator_target = None THEN Some(None)
        ELSE Some(Some(FromValDatapoint(entry.actuator_target[1])))

\* A set that returns accounts for every value it was given: after its commit
\* a path that no error names has the value and the target asked for last, and
\* what is not asked for keeps its value.  Between the lookup of the paths and
\* the commit other calls may register paths and write to them.
SetsAreAccountedFor ==
    [][\A c \in Clients : Ends(c, "set") =>
          LET refused == {e.path : e \in call'[c].errors}
              Keeps(path, field, before, after) ==
                  Asked(c, path, field) = None => after = before
              Gets(path, field, after) ==
                  Asked(c, path, field) # None /\ path \notin refused => Asked(c, path, field)[1] = after
          IN  \A path \in Registered :
                 LET id == path_to_id[path]
                 IN  /\ Keeps(path, "Value", entries[id].datapoint, entries'[id].datapoint)
                     /\ Keeps(path, "ActuatorTarget",
                              entries[id].actuator_target, entries'[id].actuator_target)
                     /\ path \in Known(c) =>
                           /\ Gets(path, "Value", Some(entries'[id].datapoint))
                           /\ Gets(path, "ActuatorTarget", entries'[id].actuator_target)
      ]_grpcVars

\* Providers agree on ids: an id that a registration hands out leads to the
\* entry of that name from then on, whoever registered it first, and whether
\* the call is a retry of one that failed half-way or runs beside another.
ProvidersAgree ==
    \A c \in Clients : call[c].op = "register_datapoints" /\ call[c].status # "Unauthenticated" =>
        \A name \in DOMAIN call[c].results :
            /\ name \in Registered /\ path_to_id[name] = call[c].results[name]
            /\ EntryAt(name).metadata.path = name

\* A subscription covers what it asks for: all that was registered when it
\* came in and is described by one of its patterns, with the fields of every
\* pattern that describes it.
SubscriptionsAreComplete ==
    \A c \in Clients : call[c].op = "subscribe" /\ call[c].status = "Ok" =>
        \A i \in DOMAIN Items(c) : \A path \in Known(c) :
            LET item == Items(c)[i]
            IN  (/\ Regular(item.path) /\ ~BadPattern(item.path) /\ path \in DescribedBy[item.path]
                 /\ \A j \in (i + 1)..Len(Items(c)) : Items(c)[j].path # item.path)
                => /\ path \in DOMAIN call[c].results
                   /\ FromValFields(item.fields) \subseteq call[c].results[path]

Blocked(c) == call[c].errors # {} /\ Len(call[c].updates) = ErrorCapacity

\* After the shutdown trigger every provider stream ends, unless its task
\* waits to report errors to a provider that does not read them.
StreamsEndAtShutdown ==
    \A c \in Clients : shutdown /\ Streaming(c) ~> ~Streaming(c) \/ Blocked(c)

==============================================================================
