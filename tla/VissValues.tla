------------------------------ MODULE VissValues ------------------------------
(***************************************************************************)
(* Values on the VISSv2 interface (viss/v2/conversions.rs, types.rs):      *)
(* there they are texts, or arrays of texts.                               *)
(*                                                                         *)
(* A text is an "integer" n, a "decimal" of n tenths, a "boolean" (n is 0  *)
(* or 1) or a "word".  A floating point value is counted in tenths; a      *)
(* string has its text for a payload.  The numbers are such that 64 bits   *)
(* hold an integer and a floating point type does not round; signs and     *)
(* zeros in front ("+1", "007") are left out.                              *)
(***************************************************************************)
EXTENDS Entry

VissNone == [is |-> "None", texts |-> << >>]
VissScalar(text) == [is |-> "Scalar", texts |-> << text >>]
VissArray(texts) == [is |-> "Array", texts |-> texts]

Text(is, n) == [is |-> is, n |-> n]

Texts == [is: {"integer", "decimal", "boolean", "word"}, n: Int]

VissValue ==
    {VissNone} \cup [is: {"Scalar"}, texts: {s \in Seq(Texts) : Len(s) = 1}]
               \cup [is: {"Array"}, texts: Seq(Texts)]

\* 2 * 10^9 and above stand for what an i32 or u32 does not hold.
Fits32(n) == n \in -1999999999..1999999999

\* str::parse::<T>()
Parses(elem, text) ==
    CASE elem = "String" -> TRUE
      [] elem = "Bool" -> text.is = "boolean"
      [] elem = "Int32" -> text.is = "integer" /\ Fits32(text.n)
      [] elem = "Uint32" -> text.is = "integer" /\ Fits32(text.n) /\ text.n >= 0
      [] elem = "Int64" -> text.is = "integer"
      [] elem = "Uint64" -> text.is = "integer" /\ text.n >= 0
      [] OTHER -> text.is \in {"integer", "decimal"}

Parsed(elem, text) ==
    CASE elem = "String" -> text
      [] elem \in {"Float", "Double"} -> IF text.is = "integer" THEN 10 * text.n ELSE text.n
      [] OTHER -> text.n

\* to_string(): a float without a fraction has no point.
to_string(elem, payload) ==
    CASE elem = "String" -> payload
      [] elem = "Bool" -> Text("boolean", payload)
      [] elem \in {"Float", "Double"} ->
            IF payload % 10 = 0 THEN Text("integer", payload \div 10) ELSE Text("decimal", payload)
      [] OTHER -> Text("integer", payload)

\* From<broker::DataValue> for Value
FromDataValue(value) ==
    LET texts == [i \in DOMAIN value.v |-> to_string(value.elem, value.v[i])]
    IN  IF value = NotAvailable THEN VissNone
        ELSE IF value.array THEN VissArray(texts) ELSE VissScalar(texts[1])

\* Mutant: a text is parsed by the width of the type, and what does not fit wraps.
TryIntoWrapped(value, data_type) ==
    LET elem == Carrier(data_type.elem)
        Wrap(n) == IF data_type.elem = "Uint8" THEN n % 256 ELSE n
    IN  IF \/ value.is # (IF data_type.array THEN "Array" ELSE "Scalar")
           \/ \E i \in DOMAIN value.texts : ~Parses(elem, value.texts[i])
        THEN None
        ELSE Some([elem |-> elem, array |-> data_type.array,
                   v |-> [i \in DOMAIN value.texts |-> Wrap(Parsed(elem, value.texts[i]))]])

\* None is a ParseError.
try_into_type(value, data_type) ==
    LET elem == Carrier(data_type.elem)
    IN  IF \/ value.is # (IF data_type.array THEN "Array" ELSE "Scalar")
           \/ \E i \in DOMAIN value.texts : ~Parses(elem, value.texts[i])
        THEN None
        ELSE Some([elem |-> elem, array |-> data_type.array,
                   v |-> [i \in DOMAIN value.texts |-> Parsed(elem, value.texts[i])]])

\* From<&broker::Metadata> for MetadataEntry: a leaf of the metadata tree.
MetadataEntry(metadata) ==
    [type |-> metadata.entry_type, datatype |-> metadata.data_type,
     allowed |-> IF metadata.allowed = None THEN None ELSE Some(FromDataValue(metadata.allowed[1]))]

\* ErrorSpec::from: the number a client sees, 0 if there is no error.
ErrorNumber(error) ==
    CASE error = "Ok" -> 0
      [] error = "BadRequest" -> 400
      [] error \in {"UnauthorizedTokenExpired", "UnauthorizedTokenInvalid",
                    "UnauthorizedTokenMissing", "UnauthorizedReadOnly"} -> 401
      [] error = "Forbidden" -> 403
      [] error \in {"NotFoundInvalidPath", "NotFoundInvalidSubscriptionId"} -> 404
      [] OTHER -> 500     \* InternalServerError

==============================================================================
