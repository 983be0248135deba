-------------------------------- MODULE Query --------------------------------
(***************************************************************************)
(* The databroker's query language (query/compiler.rs, query/executor.rs,  *)
(* query/expr.rs): a SELECT is compiled against the types of the           *)
(* datapoints it names, executed at once, and executed again whenever a    *)
(* datapoint of its input_spec changes.                                    *)
(*                                                                         *)
(* A statement is the sqlparser's tree.  Number(num, dot) is a number of   *)
(* num/Unit; dot says that it is written with a point, and so does not     *)
(* parse as an integer.  A Result is an Option, None standing for the      *)
(* error: every error of the compiler refuses the query, every error of    *)
(* the executor sends nothing.                                             *)
(***************************************************************************)
EXTENDS Values

CONSTANTS
    Schema,         \* the type of each datapoint, by name
    Samples,        \* the values each datapoint may take, by name
    Statements      \* the queries a client may subscribe to

VARIABLES
    statement,      \* the subscribed query, if any
    query,          \* its CompiledQuery
    datapoints,     \* the values in the database, by name
    answer          \* what the last execution gave

vars == << statement, query, datapoints, answer >>

BoolType == [elem |-> "Bool", array |-> FALSE]
BoolValue(b) == Scalar("Bool", IF b THEN 1 ELSE 0)
IsBool(value) == ~value.array /\ value.elem = "Bool"
IsTrue(value) == value = BoolValue(TRUE)

------------------------------------------------------------------------------
(* Expressions *)

Literal(elem, type_elem, n) ==
    [op |-> "ResolvedLiteral", value |-> Scalar(elem, n),
     data_type |-> [elem |-> type_elem, array |-> FALSE]]

\* Expr::get_type; an unresolved literal has none.
get_type(expr) ==
    CASE expr.op = "UnresolvedLiteral" -> None
      [] expr.op \in {"Datapoint", "ResolvedLiteral"} -> Some(expr.data_type)
      [] OTHER -> Some(BoolType)

\* raw.parse::<T>(): an integer has no point and fits its width.
parse(literal, elem) ==
    IF elem \in FloatKinds THEN Some(literal.num)
    ELSE IF literal.dot \/ literal.num \div Unit \notin RangeOf(elem) THEN None
    ELSE Some(literal.num \div Unit)

resolve_literal(literal, wanted_type) ==
    IF wanted_type.array \/ wanted_type.elem \in {"Bool", "String"} THEN None
    ELSE LET n == parse(literal, wanted_type.elem)
         IN  IF n = None THEN None
             ELSE Some(Literal(Carrier(wanted_type.elem), wanted_type.elem, n[1]))

\* Two literals are resolved together: both as i64, else as u64, else as f64.
ResolveTogether(left, right) ==
    LET Both(e) == parse(left, e) # None /\ parse(right, e) # None
        elem == IF Both("Int64") THEN "Int64" ELSE IF Both("Uint64") THEN "Uint64" ELSE "Double"
    IN  Some(<< Literal(elem, elem, parse(left, elem)[1]),
                Literal(elem, elem, parse(right, elem)[1]) >>)

\* The two sides of a binary operation with their literals resolved.
ResolveSides(left, right) ==
    LET lt == get_type(left)
        rt == get_type(right)
        l == IF rt = None THEN None ELSE resolve_literal(left, rt[1])
        r == IF lt = None THEN None ELSE resolve_literal(right, lt[1])
    IN  CASE lt = None /\ rt = None -> ResolveTogether(left, right)
          [] lt = None /\ rt # None -> IF l = None THEN None ELSE Some(<< l[1], right >>)
          [] lt # None /\ rt = None -> IF r = None THEN None ELSE Some(<< left, r[1] >>)
          [] OTHER -> Some(<< left, right >>)

\* AND and OR require Booleans; comparisons take any types; nothing else is
\* supported.
CompileBinary(left, operator, right) ==
    LET sides == ResolveSides(left, right)
        typed == /\ sides # None
                 /\ operator \in {"And", "Or"} =>
                        \A i \in 1..2 : get_type(sides[1][i]) = Some(BoolType)
    IN  IF ~typed \/ operator \notin {"And", "Or", "Eq", "NotEq", "Gt", "Ge", "Lt", "Le"}
        THEN None
        ELSE Some([op |-> "BinaryOperation", left |-> sides[1][1], operator |-> operator,
                   right |-> sides[1][2]])

\* A Result of the compiler: the expression and the names it added to input_spec.
Compiled(expr, names) == Some([expr |-> expr, input_spec |-> names])
Names(parts) == UNION {parts[i][1].input_spec : i \in DOMAIN parts}

\* Mutant: a datapoint that is only mentioned is not asked for.
IdentifierUnasked(name) ==
    IF name \notin DOMAIN Schema THEN None
    ELSE Compiled([op |-> "Datapoint", name |-> name, data_type |-> Schema[name]], {})

\* Identifier and CompoundIdentifier.
CompileIdentifier(name) ==
    IF name \notin DOMAIN Schema THEN None
    ELSE Compiled([op |-> "Datapoint", name |-> name, data_type |-> Schema[name]], {name})

\* BETWEEN and NOT take their operands as they are: literals stay unresolved.
CompileWith(e, parts) ==
    LET Part(i) == parts[i][1].expr
    IN  IF \E i \in DOMAIN parts : parts[i] = None THEN None
        ELSE CASE e.op = "Number" ->
                    Compiled([op |-> "UnresolvedLiteral", num |-> e.num, dot |-> e.dot], {})
               [] e.op \in {"String", "Boolean"} ->
                    LET elem == IF e.op = "String" THEN "String" ELSE "Bool"
                    IN  Compiled(Literal(elem, elem, e.num), {})
               [] e.op = "Identifier" -> CompileIdentifier(e.name)
               [] e.op = "Nested" -> parts[1]
               [] e.op = "BinaryOp" ->
                    LET binary == CompileBinary(Part(1), e.operator, Part(2))
                    IN  IF binary = None THEN None ELSE Compiled(binary[1], Names(parts))
               [] e.op = "Not" ->
                    Compiled([op |-> "UnaryOperation", expr |-> Part(1)], Names(parts))
               [] e.op = "Between" ->
                    Compiled([op |-> "Between", expr |-> Part(1), negated |-> e.negated,
                              low |-> Part(2), high |-> Part(3)], Names(parts))
               [] OTHER -> None

RECURSIVE compile_expr(_)
compile_expr(e) ==
    CompileWith(e, CASE e.op = "BinaryOp" -> << compile_expr(e.left), compile_expr(e.right) >>
                     [] e.op \in {"Not", "Nested"} -> << compile_expr(e.expr) >>
                     [] e.op = "Between" ->
                          << compile_expr(e.expr), compile_expr(e.low), compile_expr(e.high) >>
                     [] OTHER -> << >>)

\* The WHERE clause, if it has a type, is a Boolean; an unresolved literal has none.
IsCondition(expr) == get_type(expr) \in {None, Some(BoolType)}

CompiledQuery(sql, where, select) ==
    IF \/ \E i \in DOMAIN where : where[i] = None
       \/ \E i \in DOMAIN select : select[i] = None
       \/ \E i \in DOMAIN where : ~IsCondition(where[i][1].expr)
    THEN None
    ELSE Some([selection |-> [i \in DOMAIN where |-> where[i][1].expr],
               projection |-> [i \in DOMAIN select |->
                   [expr |-> select[i][1].expr, alias |-> sql.projection[i].alias]],
               input_spec |-> Names(where) \cup Names(select)])

compile(sql) ==
    CompiledQuery(sql,
        [i \in DOMAIN sql.selection |-> compile_expr(sql.selection[i])],
        [i \in DOMAIN sql.projection |-> compile_expr(sql.projection[i].expr)])

------------------------------------------------------------------------------
(* Execution *)

\* >= and <= ask for equality only when the strict comparison is false.
OrEquals(strict, left, right) ==
    IF strict = None THEN None
    ELSE IF strict[1] THEN strict ELSE equals(left, right)

Negation(result) == IF result = None THEN None ELSE Some(~result[1])

Operate(left, operator, right) ==
    CASE operator = "Or" -> IF IsBool(left) /\ IsBool(right)
                            THEN Some(IsTrue(left) \/ IsTrue(right)) ELSE None
      [] operator = "And" -> IF IsBool(left) /\ IsBool(right)
                             THEN Some(IsTrue(left) /\ IsTrue(right)) ELSE None
      [] operator = "Eq" -> equals(left, right)
      [] operator = "NotEq" -> Negation(equals(left, right))
      [] operator = "Gt" -> greater_than(left, right)
      [] operator = "Ge" -> OrEquals(greater_than(left, right), left, right)
      [] operator = "Lt" -> less_than(left, right)
      [] operator = "Le" -> OrEquals(less_than(left, right), left, right)

\* Both sides are evaluated before the operator is looked at.
execute_binary_operation(left, operator, right) ==
    LET result == IF left = None \/ right = None THEN None
                  ELSE Operate(left[1], operator, right[1])
    IN  IF result = None THEN None ELSE Some(BoolValue(result[1]))

execute_unary_operation(value) ==
    IF value = None \/ (value # None /\ ~IsBool(value[1])) THEN None
    ELSE Some(BoolValue(~IsTrue(value[1])))

\* The second comparison is made only if the first does not decide.
execute_between_operation(value, negated, low, high) ==
    LET low_cond == execute_binary_operation(value, "Ge", low)
        high_cond == execute_binary_operation(value, "Le", high)
    IN  IF low_cond = None THEN None
        ELSE IF IsTrue(low_cond[1]) = negated THEN Some(BoolValue(FALSE))
        ELSE IF high_cond = None THEN None
        ELSE Some(BoolValue(IsTrue(high_cond[1]) # negated))

RECURSIVE ExecuteExpr(_, _)
ExecuteExpr(expr, input) ==
    CASE expr.op = "Datapoint" -> Some(input[expr.name])
      [] expr.op = "ResolvedLiteral" -> Some(expr.value)
      [] expr.op = "UnresolvedLiteral" -> None
      [] expr.op = "BinaryOperation" ->
            execute_binary_operation(ExecuteExpr(expr.left, input), expr.operator,
                                     ExecuteExpr(expr.right, input))
      [] expr.op = "UnaryOperation" -> execute_unary_operation(ExecuteExpr(expr.expr, input))
      [] expr.op = "Between" ->
            execute_between_operation(ExecuteExpr(expr.expr, input), expr.negated,
                                      ExecuteExpr(expr.low, input),
                                      ExecuteExpr(expr.high, input))

\* The name of a field: its alias, its datapoint, or its position.
FieldName(item, index) ==
    IF item.alias # None THEN item.alias
    ELSE IF item.expr.op = "Datapoint" THEN << item.expr.name >> ELSE << "field", index >>

\* A failed condition or field gives no fields: "Failed"; a condition that is
\* false: "NotMet".
ExecutedQuery(q, conditions, values) ==
    LET Failed(rs) == \E i \in DOMAIN rs : rs[i] = None
    IN  IF \/ Failed(conditions)
           \/ \E i \in DOMAIN conditions : ~IsBool(conditions[i][1])
        THEN [status |-> "Failed", fields |-> << >>]
        ELSE IF \E i \in DOMAIN conditions : ~IsTrue(conditions[i][1])
        THEN [status |-> "NotMet", fields |-> << >>]
        ELSE IF Failed(values) THEN [status |-> "Failed", fields |-> << >>]
        ELSE [status |-> "Met",
              fields |-> [i \in DOMAIN values |-> << FieldName(q.projection[i], i),
                                                     values[i][1] >>]]

execute(q, input) ==
    ExecutedQuery(q,
        [i \in DOMAIN q.selection |-> ExecuteExpr(q.selection[i], input)],
        [i \in DOMAIN q.projection |-> ExecuteExpr(q.projection[i].expr, input)])

\* QuerySubscription::generate_input: the datapoints of input_spec.  lookup
\* answers NotAvailable for any other.
InputOf(q, values) ==
    [name \in DOMAIN values |-> IF name \in q.input_spec THEN values[name] ELSE NotAvailable]

------------------------------------------------------------------------------
(* The subscription *)

Init ==
    /\ statement = None
    /\ query = None
    /\ datapoints = [name \in DOMAIN Schema |-> NotAvailable]
    /\ answer = None

\* subscribe_query: compile, and send the initial execution.
SubscribeQuery(sql) ==
    /\ statement = None
    /\ statement' = Some(sql)
    /\ query' = compile(sql)
    /\ answer' = IF query' = None THEN None
                 ELSE Some(execute(query'[1], InputOf(query'[1], datapoints)))
    /\ UNCHANGED datapoints

\* QuerySubscription::notify: only a datapoint of input_spec is worth executing for.
Notify(name) ==
    answer' = IF query = None \/ (query # None /\ name \notin query[1].input_spec) THEN answer
              ELSE Some(execute(query[1], InputOf(query[1], datapoints')))

UpdateDatapoint(name, value) ==
    /\ datapoints' = [datapoints EXCEPT ![name] = value]
    /\ Notify(name)
    /\ UNCHANGED << statement, query >>

Next ==
    \/ \E sql \in Statements : SubscribeQuery(sql)
    \/ \E name \in DOMAIN Schema : \E value \in Samples[name] : UpdateDatapoint(name, value)

Spec == Init /\ [][Next]_vars

------------------------------------------------------------------------------
(* Reference: what a condition means *)

\* A number as steps, a Boolean or a string as itself; NaN is no number.
MeaningOf(e) ==
    LET value == datapoints[e.name]
    IN  CASE e.op = "Number" -> << "number", e.num >>
          [] e.op \in {"String", "Boolean"} -> << e.op, e.num >>
          [] e.op = "Identifier" /\ IsNaN(value) -> << "NaN", 0 >>
          [] e.op = "Identifier" /\ IsNumeric(value) /\ ~IsNaN(value) ->
                << "number", AsDouble(value) >>
          [] OTHER -> << "Boolean", value.v[1] >>

\* The answers a comparison may give.  Closer than the larger epsilon, two
\* different numbers may count as equal.
ComparisonAnswers(operator, x, y) ==
    LET near == x[2] # y[2] /\ x[2] - y[2] \in (-Epsilon["Float"] + 1)..(Epsilon["Float"] - 1)
    IN  IF "NaN" \in {x[1], y[1]} THEN {operator = "NotEq"}
        ELSE IF x[1] = "number" /\ near /\ operator \notin {"Gt", "Lt"} THEN BOOLEAN
        ELSE {CASE operator = "Gt" -> x[2] > y[2]
                [] operator = "Ge" -> x[2] >= y[2]
                [] operator = "Lt" -> x[2] < y[2]
                [] operator = "Le" -> x[2] <= y[2]
                [] operator = "Eq" -> x[2] = y[2]
                [] operator = "NotEq" -> x[2] # y[2]}

RECURSIVE Answers(_)
Answers(e) ==
    CASE e.op = "BinaryOp" ->
            IF e.operator = "And" THEN {a /\ b : a \in Answers(e.left), b \in Answers(e.right)}
            ELSE IF e.operator = "Or" THEN {a \/ b : a \in Answers(e.left), b \in Answers(e.right)}
            ELSE ComparisonAnswers(e.operator, MeaningOf(e.left), MeaningOf(e.right))
      [] e.op = "Not" -> {~a : a \in Answers(e.expr)}
      [] e.op = "Nested" -> Answers(e.expr)
      [] e.op = "Between" ->
            LET x == MeaningOf(e.expr)
            IN  {a /\ b : a \in ComparisonAnswers("Ge", x, MeaningOf(e.low)),
                          b \in ComparisonAnswers("Le", x, MeaningOf(e.high))}
      [] OTHER -> {MeaningOf(e)[2] = 1}

------------------------------------------------------------------------------
(* Properties *)

\* What the subscriber was last told is what the query gives on the whole
\* database now: a datapoint outside the input_spec that compile collects never
\* matters to execute, so that generate_input may ignore its changes.
AnswerIsCurrent ==
    query # None => answer = Some(execute(query[1], datapoints))

\* A condition that executes gives the answer of exact arithmetic, up to the
\* epsilon of floats, whatever the kinds and widths it mixes and however its
\* literals were resolved.  NOT BETWEEN is left out: execute_between_operation
\* asks for a value below the low and above the high bound at once.
AnswersAreRight ==
    (/\ query # None
     /\ query # None => answer[1].status # "Failed" /\ statement[1].selection # None) =>
        LET where == statement[1].selection[1]
        IN  (where.op = "Between" => ~where.negated) =>
                (answer[1].status = "Met") \in Answers(where)

\* "WHERE Vehicle.Datapoint2 BETWEEN 50 AND 150" (doc/QUERY.md:121) selects by the
\* value of the datapoint: it does not fail when the datapoint has a value.
DocumentedBetweenAnswers ==
    (/\ query # None
     /\ query # None => statement[1].selection # None) =>
        LET where == statement[1].selection[1]
        IN  (/\ where.op = "Between"
             /\ where.op = "Between" =>
                    /\ where.expr.op = "Identifier" /\ IsNumeric(datapoints[where.expr.name])
                    /\ {where.low.op, where.high.op} = {"Number"}) =>
                answer[1].status # "Failed"

================================================================================
