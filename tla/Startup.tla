------------------------------- MODULE Startup -------------------------------
(***************************************************************************)
(* What `main` does before it serves (main.rs): it registers the broker's  *)
(* own attributes and the entries of the VSS files, with their defaults.   *)
(* A file that cannot be parsed ends the program; an entry or a default    *)
(* that the database refuses is only logged.                               *)
(***************************************************************************)
EXTENDS Database, Vss

CONSTANTS
    FileLists       \* the values of --vss-file that are tried: each a sequence of trees

IsList(s) == s \in Seq({s[i] : i \in DOMAIN s})

\* Files are read in the order in which they are given; none is infinite, and
\* serde takes nothing for a data type that is none.
ASSUME FilesAssumption ==
    \A a \in DOMAIN FileLists :
        /\ IsList(FileLists[a])
        /\ \A i \in DOMAIN FileLists[a] :
              /\ IsFiniteSet({n.path : n \in NodesOf(FileLists[a][i])})
              /\ \A n \in NodesOf(FileLists[a][i]) :
                    n.node.datatype # None => n.node.datatype[1] \in DataType

VARIABLES
    stage,          \* "attributes", "files", "serving" or "failed"
    argument,       \* the value of --vss-file, by its number
    files_read,     \* how many of the files were opened
    loading,        \* the entries of the current file still to be added
    defaults        \* the update that follows an add_entry

startupVars == << stage, argument, files_read, loading, defaults >>

Files == FileLists[argument]

Root == ALLOW_ALL(Paths)

KuksaAttributes ==
    LET Attribute(path, n) ==
            [path |-> path, default |-> Some(Scalar("String", n)), allowed |-> None,
             data_type |-> [elem |-> "String", array |-> FALSE],
             entry_type |-> "Attribute", change_type |-> "OnChange"]
    IN  << Attribute(<< "K", ".", "D", ".", "G" >>, 1),
           Attribute(<< "K", ".", "D", ".", "C" >>, 2),
           Attribute(<< "K", ".", "D", ".", "A" >>, 3) >>

OwnPaths == {KuksaAttributes[i].path : i \in DOMAIN KuksaAttributes}

\* The names of the attributes are names that `add` finds valid.
ASSUME OwnPathsAssumption == OwnPaths \subseteq ValidPaths

StartupInit ==
    /\ DbInit
    /\ stage = "attributes"
    /\ argument \in DOMAIN FileLists
    /\ files_read = 0
    /\ loading = KuksaAttributes
    /\ defaults = None

\* add_entry of the broker: a path that exists keeps its id, and Ok(id) is
\* the answer for it as well.
AddEntry(e) ==
    /\ add(Root, e.path, [data_type |-> e.data_type, entry_type |-> e.entry_type,
                          change_type |-> e.change_type, allowed |-> e.allowed])
    /\ defaults' = IF AddResult(Root, e.path, e) \in {"Ok", "Exists"} /\ e.default # None
                   THEN Some([path |-> e.path, value |-> e.default[1]]) ELSE None

\* One turn of the loop of read_metadata_file, or add_kuksa_attribute.
LoadEntry ==
    /\ stage \in {"attributes", "files"}
    /\ loading # << >> /\ defaults = None
    /\ AddEntry(Head(loading))
    /\ loading' = Tail(loading)
    /\ UNCHANGED << stage, files_read, argument >>

SetDefault ==
    /\ defaults # None
    /\ update_entry(Root, path_to_id[defaults[1].path],
                    [NoUpdate EXCEPT !.datapoint = Some(defaults[1].value)])
    /\ defaults' = None
    /\ UNCHANGED << stage, files_read, loading, argument >>

\* The entries of a file one by one; as their paths differ, the order that
\* the map gives them makes no difference to what is registered.
InOrder(entries_) ==
    LET paths == DOMAIN entries_
        order == CHOOSE o \in [1..Cardinality(paths) -> paths] : {o[i] : i \in DOMAIN o} = paths
    IN  [i \in DOMAIN order |->
            [path |-> order[i], default |-> entries_[order[i]].default,
             allowed |-> entries_[order[i]].allowed, data_type |-> entries_[order[i]].data_type,
             entry_type |-> entries_[order[i]].entry_type,
             change_type |-> entries_[order[i]].change_type]]

read_metadata_file ==
    /\ stage \in {"attributes", "files"}
    /\ loading = << >> /\ defaults = None /\ files_read < Len(Files)
    /\ LET parsed == flatten_vss_tree(Files[files_read + 1])
       IN  IF parsed.ok
           THEN stage' = "files" /\ loading' = InOrder(parsed.value)
           ELSE stage' = "failed" /\ loading' = << >>
    /\ files_read' = files_read + 1
    /\ UNCHANGED << dbVars, defaults, argument >>

Serve ==
    /\ stage \in {"attributes", "files"}
    /\ loading = << >> /\ defaults = None /\ files_read = Len(Files)
    /\ stage' = "serving"
    /\ UNCHANGED << dbVars, files_read, loading, defaults, argument >>

StartupNext == LoadEntry \/ SetDefault \/ read_metadata_file \/ Serve

------------------------------------------------------------------------------
(* Properties *)

\* The leaves of the files, one set of [path, node] per file.
LeavesOf(i) == NodesOf(Files[i])

First(path) ==
    CHOOSE i \in DOMAIN Files :
        /\ \E n \in LeavesOf(i) : n.path = path
        /\ \A j \in 1..(i - 1) : \A n \in LeavesOf(j) : n.path # path

LeafOf(path) == (CHOOSE n \in LeavesOf(First(path)) : n.path = path).node

\* `allowed` of a narrow type is an array of the wide one, which the database
\* does not take for that type.
Refused(node) == node.allowed # None /\ node.datatype[1].elem \in NarrowTypes

\* A broker that serves has what the files say: every leaf with a valid name
\* is registered with its type, and the first file that names a path decides
\* what it is.  The exception is a leaf of a narrow type with `allowed`
\* values, which `add_entry` refuses and `main` only logs.  The broker's own
\* attributes cannot be redefined by a file.
LoadedAsWritten ==
    [][stage' = "serving" /\ stage # "serving" =>
        /\ \A i \in DOMAIN KuksaAttributes :
              /\ KuksaAttributes[i].path \in DOMAIN path_to_id
              /\ LET m == entries[path_to_id[KuksaAttributes[i].path]].metadata
                 IN  m.entry_type = "Attribute" /\ m.data_type.elem = "String"
        /\ \A path \in (UNION {{n.path : n \in LeavesOf(i)} : i \in DOMAIN Files})
                       \cap (ValidPaths \ OwnPaths) :
              LET leaf == LeafOf(path)
                  m == entries[path_to_id[path]].metadata
              IN  /\ Refused(leaf) \/ path \in DOMAIN path_to_id
                  /\ ~Refused(leaf) =>
                        m.data_type = leaf.datatype[1] /\ m.entry_type = leaf.type
      ]_<< dbVars, startupVars >>

==============================================================================
