--------------------------------- MODULE Grpc ---------------------------------
(***************************************************************************)
(* What the gRPC services have in common (grpc/server.rs and the start of  *)
(* every handler).  A call passes the interceptor, which puts permissions  *)
(* into it; the handler then takes the database lock once or several       *)
(* times, and other calls run in between.  One action of Val or Sdv is one *)
(* stretch under the lock.  What is registered never changes, so lookups   *)
(* of an id and of its metadata that follow each other are one stretch.    *)
(***************************************************************************)
EXTENDS Startup, Token, Proto

CONSTANTS
    Clients,
    AuthorizationModes,     \* "Enabled", "Disabled"
    Requests,               \* the requests clients send: a sequence of [header, op, items]
    MaxCalls                \* bound on the calls made

\* The items of a message are a list, in the order in which they are handled;
\* so are the scopes of a token.
ASSUME RequestsAssumption ==
    \A i \in DOMAIN Requests :
        /\ IsList(Requests[i].items)
        /\ Requests[i].header.kind = "Bearer" => IsList(Requests[i].header.token.scope)

VARIABLES
    authorization,
    call,                   \* the last call of each client
    calls_made,
    shutdown                \* has the shutdown trigger been sent?

grpcVars == << dbVars, startupVars, authorization, call, calls_made, shutdown >>

NoCall == [op |-> "none", status |-> "Idle"]

Open(c, op) == call[c].op = op /\ call[c].status = "Open"

GrpcInit ==
    /\ StartupInit
    /\ authorization \in AuthorizationModes
    /\ call = [c \in Clients |-> NoCall]
    /\ calls_made = 0
    /\ shutdown = FALSE

NeedsItems == {"get", "subscribe", "get_datapoints"}

\* What the interceptor makes of each request.
Intercepted ==
    [mode \in AuthorizationModes |->
        [i \in DOMAIN Requests |-> Interceptor(mode, Requests[i].header, Paths)]]

\* The record of a call: the number of its request, the item that is handled
\* next, and the local variables of the handlers.  `known` bounds the ids that
\* were in use when the call came in; no handler looks at it.
Incoming(i) ==
    LET op == Requests[i].op
    IN  [op |-> op, request |-> i, next |-> 1, expired |-> FALSE,
         status |-> IF Intercepted[authorization][i] = None THEN "Unauthenticated"
                    ELSE IF op \in NeedsItems /\ Requests[i].items = << >> THEN "InvalidArgument"
                    ELSE "Open",
         updates |-> << >>, errors |-> {}, results |-> EmptyMap,
         provider |-> [state |-> "Sending", sent |-> 0, messages |-> << >>], known |-> next_id]

Call(c) ==
    /\ stage = "serving" /\ ~shutdown /\ calls_made < MaxCalls
    /\ call[c].status # "Open"
    /\ \E i \in DOMAIN Requests : call' = [call EXCEPT ![c] = Incoming(i)]
    /\ calls_made' = calls_made + 1
    /\ UNCHANGED << dbVars, startupVars, authorization, shutdown >>

Items(c) == Requests[call[c].request].items
Item(c) == Items(c)[call[c].next]
Handled(c) == call[c].next > Len(Items(c))

Perm(c) ==
    LET perm == Intercepted[authorization][call[c].request][1]
    IN  [perm EXCEPT !.expired = @ \/ call[c].expired]

\* A step of c's handler: its record becomes r, other calls go on.
Goes(c, r) ==
    /\ call' = [call EXCEPT ![c] = r]
    /\ UNCHANGED << startupVars, authorization, calls_made, shutdown >>

Registered == DOMAIN path_to_id
EntryAt(path) == entries[path_to_id[path]]
Known(c) == {path \in Registered : path_to_id[path] < call[c].known}

------------------------------------------------------------------------------
(* AuthorizedAccess::update_entries *)

\* The updates, one after the other under one lock: an error of one does not
\* keep the others from being made.
UpdateOne(done, perm, u) ==
    LET result == IF u.id \notin DOMAIN done.entries THEN "NotFound"
                  ELSE UpdateOf(done.entries[u.id], perm, u.update)
    IN  IF result = "Ok"
        THEN [done EXCEPT !.entries[u.id] = apply(@, diff(@, u.update))]
        ELSE [done EXCEPT !.errors = @ \cup {[id |-> u.id, error |-> result]}]

UpdateEntries(es, perm, updates) ==
    LET After[i \in 0..Len(updates)] ==     \* the first i updates
            IF i = 0 THEN [entries |-> es, errors |-> {}]
            ELSE UpdateOne(After[i - 1], perm, updates[i])
    IN  After[Len(updates)]

update_entries(perm, updates) ==
    /\ entries' = UpdateEntries(entries, perm, updates).entries
    /\ UNCHANGED << next_id, path_to_id >>

------------------------------------------------------------------------------
(* The server *)

\* A token may expire while a call that it was sent with is being handled.
Expire(c) ==
    /\ call[c].status = "Open" /\ authorization = "Enabled" /\ ~Perm(c).expired
    /\ Goes(c, [call[c] EXCEPT !.expired = TRUE])
    /\ UNCHANGED dbVars

\* `shutdown`: open calls are finished, no new ones are accepted.
Shutdown ==
    /\ stage = "serving" /\ ~shutdown
    /\ shutdown' = TRUE
    /\ UNCHANGED << dbVars, startupVars, authorization, call, calls_made >>

------------------------------------------------------------------------------
(* Properties *)

\* The patterns of scopes that parse match what the documentation says they do.
ScopesAsDocumented ==
    \A i \in DOMAIN Requests :
        LET header == Requests[i].header
            scope == header.token.scope
        IN  header.kind = "Bearer" /\ parse_whitespace_separated(scope) =>
                \A k \in DOMAIN scope : scope[k].path # None =>
                    \A path \in Paths : is_match(scope[k].path[1], path) <=> Documented(scope[k].path[1], path)

\* The permissions of a request are the union of what the scopes of its token
\* describe by doc/wildcard_matching.md, in whatever order they are written;
\* a request without a token that the server accepts is not handled at all.
TokensGrantTheirScopes ==
    [][\A c \in Clients : calls_made' # calls_made /\ call'[c] # call[c] /\ authorization = "Enabled" =>
          LET header == Requests[call'[c].request].header
              perm == Perm(c)'
              scope == header.token.scope
          IN  call'[c].status # "Unauthenticated" =>
                 /\ header.kind = "Bearer"
                 /\ \A path \in Paths :
                       /\ path \in perm.read <=> ScopesGrant(scope, "read", path)
                       /\ path \in perm.actuate <=> ScopesGrant(scope, "actuate", path)
                       /\ path \in perm.provide <=> ScopesGrant(scope, "provide", path)
                       /\ path \in perm.create <=> ScopesGrant(scope, "create", path)
                 /\ header.token.age = "Leeway" => perm.expired
      ]_grpcVars

==============================================================================
