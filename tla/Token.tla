-------------------------------- MODULE Token --------------------------------
(***************************************************************************)
(* From the header of a request to the permissions of its sender           *)
(* (grpc/server.rs, authorization/jwt/, permissions.rs).                   *)
(*                                                                         *)
(* A header is "Missing", "NotBearer", or "Bearer" with a token.  A token  *)
(* is `sound` when its signature, audience and claims are in order; its    *)
(* age is "Valid", "Expired", or "Leeway" in the minute in which           *)
(* jsonwebtoken still accepts a token past its `exp`.  A scope is an       *)
(* action and the letters after the colon, if there is a colon.            *)
(***************************************************************************)
EXTENDS Entry, Permissions, Glob, FiniteSets

Actions == {"read", "actuate", "provide", "create"}
Capitals == {"A", "B", "C", "D", "G", "K"}
Lower == {"a", "b", "c", "0", "1"}      \* [a-zA-Z0-1]: the digits 2 to 9 are not in it

ScopeSegment(s) ==
    \/ s = << "*" >>
    \/ s # << >> /\ s[1] \in Capitals /\ \A i \in 2..Len(s) : s[i] \in Capitals \cup Lower

SegmentsParse(segments) == \A i \in DOMAIN segments : ScopeSegment(segments[i])

ScopeParses(scope) ==
    /\ scope.action \in Actions
    /\ \A i \in DOMAIN scope.path : SegmentsParse(Segments(scope.path[i]))

\* All scopes or none: one that does not parse fails the token.
parse_whitespace_separated(scopes) == \A i \in DOMAIN scopes : ScopeParses(scopes[i])

------------------------------------------------------------------------------
(* PermissionBuilder, and the PathMatcher it builds *)

Nothing == [everything |-> FALSE, globs |-> {}]
Everything == [everything |-> TRUE, globs |-> {}]

\* Mutant: a path given after Everything replaces it.
ExtendWithLast(matcher, path) ==
    IF path = None THEN Everything
    ELSE [everything |-> FALSE, globs |-> matcher.globs \cup {path[1]}]

\* PathMatchBuilder::extend_with(Everything) and extend_with_glob.
Extend(matcher, path) ==
    IF matcher.everything \/ path = None THEN Everything
    ELSE [matcher EXCEPT !.globs = @ \cup {path[1]}]

MatcherIsMatch(matcher, path) ==
    matcher.everything \/ \E glob \in matcher.globs : is_match(glob, path)

\* The scopes of an action, one after the other.
BuildMatcher(action, scopes) ==
    LET UpTo[i \in 0..Len(scopes)] ==
            IF i = 0 THEN Nothing
            ELSE IF scopes[i].action = action THEN Extend(UpTo[i - 1], scopes[i].path)
            ELSE UpTo[i - 1]
    IN  UpTo[Len(scopes)]

\* TryFrom<Claims>: the paths of the system that each matcher matches.
PermissionsOf(token, paths) ==
    LET Matched(action) ==
            {p \in paths : MatcherIsMatch(BuildMatcher(action, token.scope), p)}
    IN  [read |-> Matched("read"), actuate |-> Matched("actuate"),
         provide |-> Matched("provide"), create |-> Matched("create"),
         expired |-> token.age # "Valid"]

decode(token) == token.sound /\ token.age # "Expired"

\* Interceptor::call: the permissions put into the request, or None for
\* Unauthenticated.
Interceptor(mode, header, paths) ==
    IF mode = "Disabled" THEN Some(ALLOW_ALL(paths))
    ELSE IF /\ header.kind = "Bearer"
            /\ decode(header.token)
            /\ parse_whitespace_separated(header.token.scope)
         THEN Some(PermissionsOf(header.token, paths))
         ELSE None

------------------------------------------------------------------------------
(* Reference: a scope grants its action on the paths its pattern describes *)

ScopesGrant(scopes, action, path) ==
    \E i \in DOMAIN scopes :
        /\ scopes[i].action = action
        /\ scopes[i].path # None => Documented(scopes[i].path[1], path)

==============================================================================
