------------------------------- MODULE MCQuery -------------------------------
(***************************************************************************)
(* Six datapoints, one of each way a number is stored, and the conditions  *)
(* that compare them with one another and with literals.                   *)
(***************************************************************************)
EXTENDS Query

\* Four widths that keep their order; 8 steps in 1.0.
MCWidth == [bits \in {8, 16, 32, 64} |->
                CASE bits = 8 -> 2 [] bits = 16 -> 3 [] bits = 32 -> 4 [] bits = 64 -> 5]
MCEpsilon == [kind \in {"Float", "Double"} |-> IF kind = "Float" THEN 3 ELSE 2]

MCSchema ==
    [name \in {"i", "l", "u", "f", "d", "b"} |->
        [array |-> FALSE,
         elem |-> CASE name = "i" -> "Int8" [] name = "l" -> "Int64" [] name = "u" -> "Uint64"
                    [] name = "f" -> "Float" [] name = "d" -> "Double" [] name = "b" -> "Bool"]]

\* Negative and positive, inside and outside of 32 bits, near and equal.
MCSamples ==
    [name \in DOMAIN MCSchema |->
        CASE name = "i" -> {Scalar("Int32", -2), Scalar("Int32", 1)}
          [] name = "l" -> {Scalar("Int64", -1), Scalar("Int64", 9)}
          [] name = "u" -> {Scalar("Uint64", 1), Scalar("Uint64", 20)}
          [] name = "f" -> {NaN("Float"), Scalar("Float", 9)}
          [] name = "d" -> {Scalar("Double", 8), Scalar("Double", 10)}
          [] name = "b" -> {BoolValue(TRUE), BoolValue(FALSE)}]

Id(name) == [op |-> "Identifier", name |-> name]
Number(num, dot) == [op |-> "Number", num |-> num, dot |-> dot]
Binary(l, o, r) == [op |-> "BinaryOp", left |-> l, operator |-> o, right |-> r]
Not(e) == [op |-> "Not", expr |-> e]
Between(e, n, l, h) == [op |-> "Between", expr |-> e, negated |-> n, low |-> l, high |-> h]
True == [op |-> "Boolean", num |-> 1]

Numbers == {Number(8, FALSE), Number(20 * 8, FALSE), Number(11, TRUE)}
Comparisons == {"Gt", "Ge", "Lt", "Le", "Eq", "NotEq"}

Compared ==
    {Binary(Id(a), o, Id(b)) : a, b \in DOMAIN MCSchema, o \in Comparisons}
        \cup {Binary(Id(a), o, n) : a \in DOMAIN MCSchema, o \in Comparisons, n \in Numbers}
        \cup {Binary(m, o, n) : m, n \in Numbers, o \in {"Gt", "Le"}}

Combined ==
    {Binary(Binary(Id("u"), "Gt", Id("i")), o, Not(Id("b"))) : o \in {"And", "Or", "Plus"}}
        \cup {Binary(Id("b"), o, Binary(Id("f"), "Lt", Id("d"))) : o \in {"And", "Or"}}
        \cup {Binary(Id("b"), "And", Id("i")), Binary(Number(8, FALSE), "Lt", Id("d"))}
        \cup {Not(Id("i")), Not(Binary(Id("f"), "Ge", Id("l"))), Id("b"), Id("i"), Id("x"), True}
        \cup {Binary(Id("b"), "Eq", True), [op |-> "Wildcard"], Number(8, FALSE)}
        \cup {Between(Id("d"), n, Id("i"), Id("u")) : n \in BOOLEAN}
        \cup {[op |-> "Nested", expr |-> Binary(Id("d"), "Lt", Id("l"))]}

Where(e) == [projection |-> << [expr |-> Id("i"), alias |-> None] >>, selection |-> Some(e)]

MCStatements ==
    {Where(e) : e \in Compared \cup Combined}
        \cup {[selection |-> None,
               projection |-> << [expr |-> Binary(Id("i"), "Lt", Id("u")), alias |-> None],
                                 [expr |-> Id("b"), alias |-> << "renamed" >>],
                                 [expr |-> e, alias |-> None] >>]
               : e \in {Id("f"), [op |-> "Wildcard"], Number(8, FALSE)}}

\* The condition of the query documentation.
BetweenStatements == {Where(Between(Id("d"), FALSE, Number(8, FALSE), Number(16, FALSE)))}

================================================================================
