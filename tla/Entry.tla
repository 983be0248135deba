-------------------------------- MODULE Entry --------------------------------
(***************************************************************************)
(* One entry of the databroker (broker.rs, `impl Entry`): which values it  *)
(* accepts, what an update leaves of itself after `diff`, and what it      *)
(* changes.                                                                *)
(*                                                                         *)
(* Option<T> is a sequence of at most one element.  A DataValue carries    *)
(* its payload as a sequence of integers (one integer for a scalar): the   *)
(* code tells values apart by their kind and compares payloads of equal    *)
(* kinds only, so strings, booleans and floats are integers too.           *)
(* Timestamps, descriptions and units are left out.                        *)
(***************************************************************************)
EXTENDS Integers, Sequences

None == << >>
Some(x) == << x >>
Option(S) == {s \in Seq(S) : Len(s) <= 1}

WideTypes == {"Bool", "String", "Int32", "Int64", "Uint32", "Uint64", "Float", "Double"}
NarrowTypes == {"Int8", "Int16", "Uint8", "Uint16"}

\* types.rs, DataType: twelve element types, each as a scalar and as an array.
DataType == [elem: WideTypes \cup NarrowTypes, array: BOOLEAN]
EntryType == {"Sensor", "Attribute", "Actuator"}
ChangeType == {"Static", "OnChange", "Continuous"}
Field == {"Datapoint", "ActuatorTarget"}

NotAvailable == [elem |-> "NotAvailable", array |-> FALSE, v |-> << >>]
Scalar(elem, n) == [elem |-> elem, array |-> FALSE, v |-> << n >>]
Array(elem, s) == [elem |-> elem, array |-> TRUE, v |-> s]

\* types.rs, DataValue: there is no value kind for the narrow types.
DataValue ==
    {NotAvailable} \cup [elem: WideTypes, array: BOOLEAN, v: Seq(Int)]

Elements(value) == {value.v[i] : i \in DOMAIN value.v}

\* The `?` operator: the first error wins.
AndThen(first, second) == IF first = "Ok" THEN second ELSE first

------------------------------------------------------------------------------
(* Validation *)

\* The kind of value that carries a data type.
Carrier(elem) ==
    CASE elem \in {"Int8", "Int16"} -> "Int32"
      [] elem \in {"Uint8", "Uint16"} -> "Uint32"
      [] OTHER -> elem

\* i8::try_from and its relatives.
InRange(elem, n) ==
    CASE elem = "Int8" -> n \in -128..127
      [] elem = "Int16" -> n \in -32768..32767
      [] elem = "Uint8" -> n \in 0..255
      [] elem = "Uint16" -> n \in 0..65535
      [] OTHER -> TRUE

validate_value(data_type, value) ==
    IF value = NotAvailable THEN "Ok"
    ELSE IF value.array # data_type.array \/ value.elem # Carrier(data_type.elem)
         THEN "WrongType"
    ELSE IF \A n \in Elements(value) : InRange(data_type.elem, n)
         THEN "Ok" ELSE "OutOfBounds"

validate_allowed(allowed, value) ==
    IF allowed = None THEN "Ok"
    ELSE IF ~allowed[1].array \/ allowed[1].elem # value.elem
         THEN "UnsupportedType"
    ELSE IF Elements(value) \subseteq Elements(allowed[1])
         THEN "Ok" ELSE "OutOfBounds"

\* A narrow data type never equals the element type of an array value.
validate_allowed_type(data_type, allowed) ==
    IF allowed = None THEN "Ok"
    ELSE IF allowed[1].array /\ allowed[1].elem = data_type.elem
         THEN "Ok" ELSE "WrongType"

ValidateOne(metadata, value) ==
    AndThen(validate_value(metadata.data_type, value),
            validate_allowed(metadata.allowed, value))

\* Mutant: the target's type and range are left to whoever actuates it.
ValidateDatapointOnly(entry, update) ==
    IF update.datapoint = None THEN "Ok"
    ELSE ValidateOne(entry.metadata, update.datapoint[1])

\* The values in the update are validated against the `allowed` of before.
validate(entry, update) ==
    LET datapoint == IF update.datapoint = None THEN "Ok"
                     ELSE ValidateOne(entry.metadata, update.datapoint[1])
        target == IF update.actuator_target \in {None, Some(None)} THEN "Ok"
                  ELSE ValidateOne(entry.metadata, update.actuator_target[1][1])
        allowed == IF update.allowed \in {None, Some(None), Some(entry.metadata.allowed)}
                   THEN "Ok"
                   ELSE validate_allowed_type(entry.metadata.data_type, update.allowed[1])
    IN  AndThen(datapoint, AndThen(target, allowed))

------------------------------------------------------------------------------
(* Updating *)

\* An unchanged value is no update, unless the entry changes continuously.
diff(entry, update) ==
    IF /\ update.datapoint = Some(entry.datapoint)
       /\ entry.metadata.change_type # "Continuous"
    THEN [update EXCEPT !.datapoint = None]
    ELSE update

apply(entry, update) ==
    [entry EXCEPT
        !.datapoint = IF update.datapoint = None THEN @ ELSE update.datapoint[1],
        !.actuator_target =
            IF update.actuator_target = None THEN @ ELSE update.actuator_target[1],
        !.metadata.allowed = IF update.allowed = None THEN @ ELSE update.allowed[1]]

\* The fields `apply` reports; a change of `allowed` is not reported.
changed_fields(update) ==
    {f \in Field : \/ f = "Datapoint" /\ update.datapoint # None
                   \/ f = "ActuatorTarget" /\ update.actuator_target # None}

==============================================================================
