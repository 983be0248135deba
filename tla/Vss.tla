--------------------------------- MODULE Vss ---------------------------------
(***************************************************************************)
(* Reading a VSS file (vss.rs): the tree of branches and leaves becomes a  *)
(* map from paths to entries, or an error for the whole file.              *)
(*                                                                         *)
(* A node is a record with the members of the JSON object, each an Option. *)
(* A JSON value is [json, v]: an integer, fraction, string or boolean with *)
(* an integer that stands for it, or an array with its elements.           *)
(* Descriptions, comments and units are left out.                          *)
(***************************************************************************)
EXTENDS Entry, FiniteSets

Ok(value) == [ok |-> TRUE, value |-> value]
Error == [ok |-> FALSE, value |-> None]

\* serde_json::from_value for an element type.
Deserializes(elem, j) ==
    CASE elem = "String" -> j.json = "string"
      [] elem = "Bool" -> j.json = "boolean"
      [] elem \in {"Float", "Double"} -> j.json \in {"integer", "fraction"}
      [] elem \in {"Uint32", "Uint64"} -> j.json = "integer" /\ j.v >= 0
      [] OTHER -> j.json = "integer" /\ InRange(elem, j.v)

\* Narrow integers are checked against their own range and then widened.
try_from_json_value(value, data_type) ==
    IF value = None THEN Ok(None)
    ELSE LET j == value[1]
             elem == data_type.elem
         IN  IF data_type.array
             THEN IF j.json = "array" /\ \A i \in DOMAIN j.v : Deserializes(elem, j.v[i])
                  THEN Ok(Some(Array(Carrier(elem), [i \in DOMAIN j.v |-> j.v[i].v])))
                  ELSE Error
             ELSE IF Deserializes(elem, j) THEN Ok(Some(Scalar(Carrier(elem), j.v))) ELSE Error

\* `allowed` is an array of the entry's elements.
try_from_json_array(value, data_type) ==
    try_from_json_value(value, [data_type EXCEPT !.array = TRUE])

determine_change_type(change_type, entry_type) ==
    IF change_type # None THEN change_type[1]
    ELSE IF entry_type = "Attribute" THEN "Static" ELSE "Continuous"

\* What a leaf says; only attributes have a default.
LeafEntry(node) ==
    LET data_type == node.datatype[1]
        default == IF node.type = "Attribute" THEN node.default ELSE None
        parsed == << try_from_json_value(node.min, data_type),
                     try_from_json_value(node.max, data_type),
                     try_from_json_array(node.allowed, data_type),
                     try_from_json_value(default, data_type) >>
    IN  IF node.datatype = None \/ \E i \in DOMAIN parsed : ~parsed[i].ok THEN Error
        ELSE Ok([data_type |-> data_type, entry_type |-> node.type,
                 change_type |-> determine_change_type(node.changetype, node.type),
                 allowed |-> parsed[3].value, default |-> parsed[4].value])

HasChildren(n) == n.node.type = "Branch" /\ n.node.children # None

Children(n) ==
    {[path |-> n.path \o << "." >> \o name, node |-> n.node.children[1][name]]
        : name \in DOMAIN n.node.children[1]}

\* The nodes of a tree that are not branches with children, from level to level.
NodesOf(root) ==
    LET Level[k \in Nat] ==
            IF k = 0 THEN {[path |-> path, node |-> root[path]] : path \in DOMAIN root}
            ELSE UNION {Children(n) : n \in {m \in Level[k - 1] : HasChildren(m)}}
        From[k \in Nat] ==
            IF Level[k] = {} THEN {} ELSE {n \in Level[k] : ~HasChildren(n)} \cup From[k + 1]
    IN  From[0]

add_entry(n) == IF n.node.type = "Branch" THEN Error ELSE LeafEntry(n.node)

\* One error anywhere in the tree fails the file.
flatten_vss_tree(root) ==
    LET nodes == NodesOf(root)
    IN  IF \E n \in nodes : ~add_entry(n).ok THEN Error
        ELSE Ok([p \in {n.path : n \in nodes} |->
                    add_entry(CHOOSE n \in nodes : n.path = p).value])

==============================================================================
