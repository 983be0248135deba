-------------------------------- MODULE Proto --------------------------------
(***************************************************************************)
(* Between the broker's values and the messages of its two gRPC interfaces *)
(* (grpc/kuksa_val_v1/conversions.rs, grpc/sdv_databroker_v1/conversions.rs).*)
(*                                                                         *)
(* The value of a message is a protobuf oneof: the case that is set, its   *)
(* element type, and the payload.  A Datapoint message may have no value   *)
(* at all.  Timestamps are left out.                                       *)
(***************************************************************************)
EXTENDS Entry

OneOf(case_, type, v) == [set |-> case_, type |-> type, v |-> v]

ToOneOf(value) ==
    IF value.array THEN OneOf("Array", value.elem, value.v) ELSE OneOf("Value", value.elem, value.v)

FromOneOf(m) == [elem |-> m.type, array |-> m.set = "Array", v |-> m.v]

------------------------------------------------------------------------------
(* kuksa.val.v1 *)

\* Option<proto::Datapoint>: there is no message for NotAvailable.
ValDatapoint(value) == IF value = NotAvailable THEN None ELSE Some([value |-> Some(ToOneOf(value))])

FromValDatapoint(m) == IF m.value = None THEN NotAvailable ELSE FromOneOf(m.value[1])

ValDataType(data_type) ==
    [elem |-> IF data_type.elem = "Bool" THEN "Boolean" ELSE data_type.elem, array |-> data_type.array]

ValField(field) == IF field = "Datapoint" THEN "Value" ELSE field

\* proto::Field to the fields one can subscribe to; the others are ignored.
FromValFields(fields) ==
    {f \in {"Datapoint", "ActuatorTarget", "MetadataUnit"} : ValField(f) \in fields}

------------------------------------------------------------------------------
(* sdv.databroker.v1 *)

Failure(reason) == [value |-> Some(OneOf("Failure", reason, << >>))]

SdvDatapoint(value) ==
    IF value = NotAvailable THEN Failure("NotAvailable") ELSE [value |-> Some(ToOneOf(value))]

FromSdvDatapoint(m) ==
    IF m.value = None \/ m.value[1].set = "Failure" THEN NotAvailable ELSE FromOneOf(m.value[1])

\* The change type is not passed on.
SdvMetadata(metadata) ==
    [id |-> metadata.id, name |-> metadata.path, data_type |-> metadata.data_type,
     entry_type |-> metadata.entry_type, change_type |-> "Continuous"]

DatapointError(error) ==
    CASE error = "NotFound" -> "UnknownDatapoint"
      [] error \in {"WrongType", "UnsupportedType"} -> "InvalidType"
      [] error = "OutOfBounds" -> "OutOfBounds"
      [] error \in {"PermissionDenied", "PermissionExpired"} -> "AccessDenied"

==============================================================================
