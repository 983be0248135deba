------------------------------ MODULE MCServices ------------------------------
(***************************************************************************)
(* Small instance of Services: a tree with an actuator, an attribute, a    *)
(* sensor below a branch whose name begins like the actuator's, and a leaf *)
(* that is refused; a second file that redefines some of it; providers     *)
(* that register A.G while consumers ask for it.                           *)
(***************************************************************************)
EXTENDS Services

AB == << "A", ".", "B" >>
AC == << "A", ".", "C" >>
ABbC == << "A", ".", "B", "b", ".", "C" >>
AD == << "A", ".", "D" >>
AG == << "A", ".", "G" >>
Malformed == << "A", " " >>

MCPaths == {AB, AC, ABbC, AD, AG, Malformed} \cup OwnPaths
MCValidPaths == {path \in MCPaths : is_valid_path(path)}

Node(type) ==
    [type |-> type, children |-> None, datatype |-> None, min |-> None, max |-> None,
     allowed |-> None, default |-> None, changetype |-> None]
Leaf(type, elem) == [Node(type) EXCEPT !.datatype = Some([elem |-> elem, array |-> FALSE])]
Branch(children) == [Node("Branch") EXCEPT !.children = Some(children)]

Integer(n) == [json |-> "integer", v |-> n]
OneOrTwo == Some([json |-> "array", v |-> << Integer(1), Integer(2) >>])

Tree ==
    [p \in {<< "A" >>} |-> Branch(
        [name \in {<< "B" >>, << "C" >>, << "B", "b" >>, << "D" >>} |->
            CASE name = << "B" >> -> [Leaf("Actuator", "Int32") EXCEPT !.allowed = OneOrTwo,
                                                                       !.changetype = Some("OnChange")]
              [] name = << "C" >> -> [Leaf("Attribute", "Uint8") EXCEPT !.default = Some(Integer(5)),
                                                                        !.max = Some(Integer(255))]
              [] name = << "B", "b" >> -> Branch([n \in {<< "C" >>} |-> Leaf("Sensor", "Bool")])
              [] name = << "D" >> -> [Leaf("Sensor", "Int8") EXCEPT !.allowed = OneOrTwo]])]

\* The second file: other types for A.B and for the broker's own attribute,
\* and a default that does not fit the type A.C already has.
Overlay ==
    [p \in {<< "A" >>, << "K", ".", "D", ".", "G" >>} |->
        IF p = << "A" >>
        THEN Branch([name \in {<< "B" >>, << "C" >>} |->
                IF name = << "B" >> THEN Leaf("Sensor", "Bool")
                ELSE [Leaf("Attribute", "Int32") EXCEPT !.default = Some(Integer(7))]])
        ELSE [Leaf("Attribute", "Int32") EXCEPT !.default = Some(Integer(7))]]

\* A default that does not fit its own type.
Broken == [p \in {AC} |-> [Leaf("Attribute", "Uint8") EXCEPT !.default = Some(Integer(256))]]
Childless == [p \in {<< "A" >>} |-> Node("Branch")]

MCFileLists == << << Tree, Overlay >>, << Tree, Broken >>, << Childless >> >>

Scope(action, path) == [action |-> action, path |-> path]
Token_(scope) == [kind |-> "Bearer", token |-> [sound |-> TRUE, age |-> "Valid", scope |-> scope]]

Driver == Token_(<< Scope("create", Some(<< "A", ".", "*" >>)), Scope("actuate", Some(<< "A" >>)),
                    Scope("provide", None), Scope("provide", Some(AC)), Scope("read", Some(<< "*" >>)) >>)
Guest == Token_(<< Scope("read", Some(AB)), Scope("actuate", Some(<< "*", ".", "C" >>)) >>)
Late == [Driver EXCEPT !.token.age = "Leeway"]
Strangers ==
    << [kind |-> "Missing"], [kind |-> "NotBearer"], [Driver EXCEPT !.token.sound = FALSE],
     [Driver EXCEPT !.token.age = "Expired"], Token_(<< Scope("read", None), Scope("fly", None) >>),
     Token_(<< Scope("read", Some(<< "A", "2" >>)) >>) >>

Request(header, op, items) == [header |-> header, op |-> op, items |-> items]

Get(path, view, fields) == [path |-> path, view |-> view, fields |-> fields]
Star == << "A", ".", "*" >>
Stars == << "A", ".", "*", "*" >>
BadStar == << "A", ".", " ", "*" >>

ValValue(elem, n) == Some([value |-> Some(ToOneOf(Scalar(elem, n)))])
SdvValue(elem, n) == [value |-> Some(ToOneOf(Scalar(elem, n)))]
Set(path, value, target, fields) ==
    [entry |-> Some([path |-> path, value |-> value, actuator_target |-> target]), fields |-> fields]
Both == {"Value", "ActuatorTarget"}

GetRequests ==
    << Request(Driver, "get", << Get(Star, "Unspecified", {}), Get(AG, "Fields", {"MetadataUnit"}) >>),
     Request(Guest, "get", << Get(AB, "All", {}), Get(BadStar, "All", {}) >>),
     Request(Guest, "get", << Get(Stars, "CurrentValue", {}), Get(AB, "Metadata", {}) >>),
     Request(Guest, "get", << Get(<< >>, "Metadata", {}), Get(AC, "TargetValue", {}) >>),
     Request(Driver, "get", << Get(AB, "Invalid", {}) >>),
     Request(Driver, "get", << >>), Request(Late, "get", << Get(AB, "CurrentValue", {}) >>) >>
    \o [i \in DOMAIN Strangers |-> Request(Strangers[i], "get", << Get(AB, "CurrentValue", {}) >>)]

SetRequests ==
    << Request(Driver, "set", << Set(AB, ValValue("Int32", 1), ValValue("Int32", 2), Both),
                               Set(AG, ValValue("Int32", 4), None, {"Value"}) >>),
     Request(Driver, "set", << Set(AB, None, ValValue("Int32", 1), Both), Set(AB, None, None, Both) >>),
     Request(Driver, "set", << Set(AB, ValValue("Int32", 2), None, {"Value"}),
                               Set(AC, ValValue("Uint32", 256), None, {"Value"}),
                               Set(ABbC, Some([value |-> None]), None, {"Value"}) >>),
     Request(Guest, "set", << Set(AB, ValValue("Int32", 1), None, {"Value"}),
                              Set(AC, None, ValValue("Uint32", 1), {"ActuatorTarget"}) >>),
     Request(Driver, "set", << Set(AB, ValValue("Bool", 1), None, {"Value"}),
                               [entry |-> None, fields |-> {}] >>) >>

OtherRequests ==
    << Request(Driver, "subscribe", << Get(Stars, "", {"Value"}), Get(AB, "", {"Value"}),
                                     Get(AB, "", {"ActuatorTarget", "Path"}) >>),
     Request(Driver, "subscribe", << Get(AG, "", {"Value"}), Get(BadStar, "", {"Value"}) >>),
     Request(Driver, "subscribe", << Get(BadStar, "", {"Value"}) >>),
     Request(Guest, "subscribe", << Get(Star, "", {"MetadataUnit"}) >>),
     Request(Driver, "get_server_info", << >>),
     Request(Driver, "get_datapoints", << AG, AB >>),
     Request(Guest, "get_datapoints", << AC, AG >>),
     Request(Driver, "set_datapoints", << [path |-> AB, value |-> SdvValue("Int32", 2)],
                                          [path |-> AC, value |-> SdvValue("Uint32", 2)],
                                          [path |-> AG, value |-> Failure("NotAvailable")] >>),
     Request(Driver, "set_datapoints", << [path |-> AB, value |-> SdvValue("Int32", 9)] >>),
     Request(Driver, "get_metadata", << >>),
     Request(Guest, "get_metadata", << AB, AG >>),
     Request(Driver, "update_datapoints", << [id |-> 3, value |-> SdvValue("Int32", 1)],
                                             [id |-> 4, value |-> SdvValue("Int32", 1)],
                                             [id |-> 6, value |-> SdvValue("Int32", 3)] >>) >>

Register(name, elem, change) ==
    [name |-> name, data_type |-> IF elem = "" THEN None ELSE Some([elem |-> elem, array |-> FALSE]),
     change_type |-> IF change = "" THEN None ELSE Some(change)]

RegisterRequests ==
    << Request(Driver, "register_datapoints", << Register(AG, "Int32", "OnChange"), Register(AB, "Bool", "Static") >>),
     Request(Driver, "register_datapoints", << Register(AG, "Bool", "Continuous"), Register(AD, "", "OnChange") >>),
     Request(Driver, "register_datapoints", << Register(AB, "Int32", ""), Register(AG, "Bool", "OnChange") >>),
     Request(Guest, "register_datapoints", << Register(AG, "Int32", "OnChange") >>),
     Request(Driver, "register_datapoints", << Register(AG, "Int32", "OnChange"), Register(Malformed, "Bool", "Static") >>) >>

MCRequests ==
    GetRequests \o SetRequests \o OtherRequests \o RegisterRequests
    \o << Request(Driver, "stream_datapoints", << >>) >>

\* What the theorems about patterns and scopes take for granted of the requests.
ASSUME PatternsAssumption == GlobsAsDocumented /\ ScopesAsDocumented

MCStreamMessages == {<< [id |-> 6, value |-> SdvValue("Int32", 6)] >>}

==============================================================================
