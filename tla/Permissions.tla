----------------------------- MODULE Permissions -----------------------------
(***************************************************************************)
(* What a client may do (permissions.rs).  A PathMatcher is the set of the *)
(* paths it matches: Nothing is {}, Everything is the set of all paths, a  *)
(* RegexSet is what lies between.  Expiry is a flag: `expires_at` lies in  *)
(* the past or it does not.                                                *)
(***************************************************************************)

PermissionSet(Paths) ==
    [read: SUBSET Paths, actuate: SUBSET Paths, provide: SUBSET Paths,
     create: SUBSET Paths, expired: BOOLEAN]

ALLOW_ALL(Paths) ==
    [read |-> Paths, actuate |-> Paths, provide |-> Paths, create |-> Paths,
     expired |-> FALSE]

\* Expiry is looked at first, by every check.
Granted(perm, paths, path) ==
    IF perm.expired THEN "Expired"
    ELSE IF path \in paths THEN "Ok" ELSE "Denied"

\* Reading is included in every other permission.
can_read(perm, path) ==
    Granted(perm, perm.read \cup perm.actuate \cup perm.provide \cup perm.create, path)

can_write_actuator_target(perm, path) == Granted(perm, perm.actuate, path)

can_write_datapoint(perm, path) == Granted(perm, perm.provide, path)

can_create(perm, path) == Granted(perm, perm.create, path)

==============================================================================
