-------------------------------- MODULE Values --------------------------------
(***************************************************************************)
(* How the databroker compares values (types.rs, `impl DataValue`): one    *)
(* 6 x 6 table of numeric kinds for each of >, < and =.  The answer is a   *)
(* Result<bool, CastError>: Some of a Boolean, or None for the CastError.  *)
(*                                                                         *)
(* A float is a number of steps of 1/Unit, an integer a number of units;   *)
(* NaN is a float without a payload.                                       *)
(***************************************************************************)
EXTENDS Entry

CONSTANTS
    Width,      \* bits of the 8, 16, 32 and 64 bit integers
    Unit,       \* steps in 1.0
    Epsilon     \* steps in f32::EPSILON and f64::EPSILON, by kind

ASSUME WidthAssumption == Width \in [{8, 16, 32, 64} -> Nat \ {0}]
ASSUME EpsilonAssumption ==
    Unit \in Nat \ {0} /\ Epsilon \in [{"Float", "Double"} -> 1..Unit]

SignedKinds == {"Int32", "Int64"}
FloatKinds == {"Float", "Double"}
NumericKinds == SignedKinds \cup FloatKinds \cup {"Uint32", "Uint64"}

Bits(elem) ==
    CASE elem \in {"Int8", "Uint8"} -> Width[8]
      [] elem \in {"Int16", "Uint16"} -> Width[16]
      [] elem \in {"Int32", "Uint32"} -> Width[32]
      [] OTHER -> Width[64]

\* The integers of a type.
RangeOf(elem) ==
    IF elem \in SignedKinds \cup {"Int8", "Int16"}
    THEN -(2 ^ (Bits(elem) - 1))..(2 ^ (Bits(elem) - 1) - 1)
    ELSE 0..(2 ^ Bits(elem) - 1)

IsFloat(value) == ~value.array /\ value.elem \in FloatKinds
IsNumeric(value) == ~value.array /\ value.elem \in NumericKinds
NaN(elem) == [elem |-> elem, array |-> FALSE, v |-> << >>]
IsNaN(value) == IsFloat(value) /\ value.v = << >>

\* f64::from: 64 bits have to fit in 32 first (i32::try_from, u32::try_from).
CastsToDouble(value) ==
    value.elem \in {"Int64", "Uint64"} =>
        value.v[1] \in RangeOf(IF value.elem = "Int64" THEN "Int32" ELSE "Uint32")

AsDouble(value) == IF IsFloat(value) THEN value.v[1] ELSE value.v[1] * Unit

\* Mutant: the payload is reinterpreted instead of converted (`as u64`).
GreaterAsUnsigned(a, b) ==
    IF ~IsNumeric(a) \/ ~IsNumeric(b) THEN None
    ELSE IF IsFloat(a) \/ IsFloat(b)
         THEN IF ~CastsToDouble(a) \/ ~CastsToDouble(b) THEN None
              ELSE Some(~IsNaN(a) /\ ~IsNaN(b) /\ AsDouble(a) > AsDouble(b))
    ELSE IF "Uint64" \in {a.elem, b.elem}
         THEN Some(a.v[1] % 2 ^ Width[64] > b.v[1] % 2 ^ Width[64])
    ELSE Some(a.v[1] > b.v[1])

\* Signed against u64: the sign decides before the conversion to u64 is tried.
greater_than(a, b) ==
    IF ~IsNumeric(a) \/ ~IsNumeric(b) THEN None
    ELSE IF IsFloat(a) \/ IsFloat(b)
         THEN IF ~CastsToDouble(a) \/ ~CastsToDouble(b) THEN None
              ELSE Some(~IsNaN(a) /\ ~IsNaN(b) /\ AsDouble(a) > AsDouble(b))
    ELSE IF a.elem \in SignedKinds /\ b.elem = "Uint64" /\ a.v[1] < 0 THEN Some(FALSE)
    ELSE IF a.elem = "Uint64" /\ b.elem \in SignedKinds /\ b.v[1] < 0 THEN Some(TRUE)
    ELSE Some(a.v[1] > b.v[1])

less_than(a, b) ==
    IF ~IsNumeric(a) \/ ~IsNumeric(b) THEN None
    ELSE IF IsFloat(a) \/ IsFloat(b)
         THEN IF ~CastsToDouble(a) \/ ~CastsToDouble(b) THEN None
              ELSE Some(~IsNaN(a) /\ ~IsNaN(b) /\ AsDouble(a) < AsDouble(b))
    ELSE IF a.elem \in SignedKinds /\ b.elem = "Uint64" /\ a.v[1] < 0 THEN Some(TRUE)
    ELSE IF a.elem = "Uint64" /\ b.elem \in SignedKinds /\ b.v[1] < 0 THEN Some(FALSE)
    ELSE Some(a.v[1] < b.v[1])

\* f32::EPSILON between two floats, f64::EPSILON in every other case.
Tolerance(a, b) == Epsilon[IF a.elem = "Float" /\ b.elem = "Float" THEN "Float" ELSE "Double"]

Near(a, b) ==
    LET d == AsDouble(a) - AsDouble(b)
    IN  (IF d < 0 THEN -d ELSE d) < Tolerance(a, b)

equals(a, b) ==
    IF ~a.array /\ ~b.array /\ a.elem = b.elem /\ a.elem \in {"Bool", "String"}
    THEN Some(a.v = b.v)
    ELSE IF ~IsNumeric(a) \/ ~IsNumeric(b) THEN None
    ELSE IF IsFloat(a) \/ IsFloat(b)
         THEN IF ~CastsToDouble(a) \/ ~CastsToDouble(b) THEN None
              ELSE Some(~IsNaN(a) /\ ~IsNaN(b) /\ Near(a, b))
    ELSE IF a.elem \in SignedKinds /\ b.elem = "Uint64" /\ a.v[1] < 0 THEN Some(FALSE)
    ELSE IF a.elem = "Uint64" /\ b.elem \in SignedKinds /\ b.v[1] < 0 THEN Some(FALSE)
    ELSE Some(a.v[1] = b.v[1])

================================================================================
