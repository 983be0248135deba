----------------------------- MODULE MCDatabase -----------------------------
(***************************************************************************)
(* Small instance of Database: two valid names and an invalid one, a       *)
(* client that may do everything, one that may only actuate and one whose  *)
(* token has expired; entries of a narrow type, of a type with `allowed`   *)
(* values, and registrations that must be refused.                         *)
(***************************************************************************)
EXTENDS Database

MCPaths == {"A", "B", "in valid"}
MCValidPaths == {"A", "B"}

MCPermissionInputs ==
    {ALLOW_ALL(Paths),
     [ALLOW_ALL(Paths) EXCEPT !.provide = {}, !.create = {}],
     [ALLOW_ALL(Paths) EXCEPT !.expired = TRUE]}

Meta(elem, array, entry_type, change_type, allowed) ==
    [data_type |-> [elem |-> elem, array |-> array], entry_type |-> entry_type,
     change_type |-> change_type, allowed |-> allowed]

OneTwo == Array("Int32", << 1, 2 >>)

MCMetadataInputs ==
    {Meta("Int8", FALSE, "Actuator", "Continuous", None),
     Meta("Int32", FALSE, "Sensor", "OnChange", Some(OneTwo)),
     Meta("Uint16", TRUE, "Attribute", "Static", None),
     \* refused: no `allowed` for narrow types, nor one of another type
     Meta("Int8", FALSE, "Actuator", "OnChange", Some(OneTwo)),
     Meta("Bool", FALSE, "Sensor", "OnChange", Some(OneTwo))}

MCValues ==
    {NotAvailable, Scalar("Int32", 1), Scalar("Int32", -128), Scalar("Int32", 128),
     Scalar("Bool", 1), Array("Uint32", << 0, 65535 >>), Array("Uint32", << 65536 >>)}

MCUpdateInputs ==
    {[NoUpdate EXCEPT !.datapoint = Some(v)] : v \in MCValues}
    \cup {[NoUpdate EXCEPT !.actuator_target = Some(Some(v))] : v \in MCValues}
    \cup {[NoUpdate EXCEPT !.actuator_target = Some(None)],
          [NoUpdate EXCEPT !.datapoint = Some(Scalar("Int32", 1)),
                           !.actuator_target = Some(Some(Scalar("Int32", 128)))],
          [NoUpdate EXCEPT !.allowed = Some(None)],
          [NoUpdate EXCEPT !.allowed = Some(Some(Array("Int32", << 128 >>)))],
          [NoUpdate EXCEPT !.metadata_set = TRUE]}

==============================================================================
