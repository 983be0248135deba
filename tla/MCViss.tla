-------------------------------- MODULE MCViss --------------------------------
(***************************************************************************)
(* Small instance of Viss: an actuator, two sensors, one of them below the *)
(* actuator, and an attribute; requests that succeed and that fail in each *)
(* of the ways there are.                                                  *)
(***************************************************************************)
EXTENDS VissProperties

AB == << "A", ".", "B" >>
ABC == << "A", ".", "B", ".", "C" >>
ABbD == << "A", ".", "B", "b", ".", "D" >>
ABbC == << "A", ".", "B", "b", ".", "C" >>
Unknown == << "A", ".", "G" >>

MCPaths == {AB, ABC, ABbD, ABbC, Unknown}

Leaf(path, type, elem, array) ==
    [path |-> path, metadata |-> [entry_type |-> type, change_type |-> "OnChange", allowed |-> None,
                                  data_type |-> [elem |-> elem, array |-> array]]]
MCLeaves ==
    << Leaf(ABbD, "Sensor", "Int32", FALSE), Leaf(AB, "Actuator", "Uint8", FALSE),
       Leaf(ABC, "Sensor", "Bool", FALSE), Leaf(ABbC, "Actuator", "Float", TRUE) >>

Scope(action, path) == [action |-> action, path |-> path]
Token_(scope) == Some([sound |-> TRUE, age |-> "Valid", scope |-> scope])
Driver == Token_(<< Scope("actuate", Some(AB)), Scope("read", Some(<< "A", ".", "B", "b", ".", "*" >>)) >>)
Guest == Token_(<< Scope("actuate", Some(ABbC)) >>)
Forged == Some([sound |-> FALSE, age |-> "Valid", scope |-> << Scope("read", None) >>])
Late == Some([sound |-> TRUE, age |-> "Leeway", scope |-> << Scope("read", None) >>])

Plain(action, path, authorization) ==
    [action |-> action, path |-> path, authorization |-> authorization, filter |-> FALSE,
     value |-> VissNone, subscription |-> 0]
MetadataOf(path) == [Plain("get", path, None) EXCEPT !.filter = TRUE]
Set(path, authorization, value) == [Plain("set", path, authorization) EXCEPT !.value = value]
Unsubscribe(s) == [Plain("unsubscribe", << >>, None) EXCEPT !.subscription = s]

Integer(n) == VissScalar(Text("integer", n))

Gets ==
    << Plain("get", ABbD, Driver), Plain("get", ABbD, None), Plain("get", ABbD, Late),
       Plain("get", ABbD, Guest), Plain("get", Unknown, Driver), MetadataOf(AB) >>
Sets ==
    << Set(AB, Driver, Integer(7)), Set(AB, Driver, Integer(256)), Set(AB, Guest, Integer(7)),
       Set(ABbC, Guest, VissArray(<< Text("integer", 1), Text("decimal", 15), Text("decimal", 20) >>)),
       Set(ABbC, Guest, VissArray(<< Text("word", 1) >>)), Set(ABbD, Driver, Integer(7)) >>
Subscriptions ==
    << Plain("subscribe", ABbD, Driver), Plain("subscribe", ABbD, Guest),
       Plain("subscribe", ABbD, Forged), Plain("subscribe", Unknown, Driver), Unsubscribe(1) >>

MCRequests == Gets \o Sets \o Subscriptions \o << Plain("malformed", << >>, None) >>

==============================================================================
