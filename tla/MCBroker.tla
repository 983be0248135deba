------------------------------ MODULE MCBroker ------------------------------
(***************************************************************************)
(* Small instances of Broker.  Two entries are registered at startup: A, a *)
(* continuous actuator, and B, which notifies changes only and is of a     *)
(* narrow type.  B has a default.                                          *)
(***************************************************************************)
EXTENDS BrokerFeed, TLC

MCPaths == {"A", "B", "C"}

Meta(elem, entry_type, change_type) ==
    [data_type |-> [elem |-> elem, array |-> FALSE], entry_type |-> entry_type,
     change_type |-> change_type, allowed |-> None]

A == 0
B == 1
C == 2      \* once it is registered

MCPreloaded ==
    << << "A", Meta("Int32", "Actuator", "Continuous"), None >>,
       << "B", Meta("Int8", "Sensor", "OnChange"), Some(Scalar("Int32", 0)) >> >>

MCMetadataInputs == {Meta("Int32", "Sensor", "OnChange")}

MCPermissionOf == [t \in Clients |-> ALLOW_ALL(Paths)]

Set(n) == [NoUpdate EXCEPT !.datapoint = Some(Scalar("Int32", n))]
Target(n) == [NoUpdate EXCEPT !.actuator_target = Some(Some(Scalar("Int32", n)))]

MCSubscribeInputs == {EmptyMap, (A :> Field) @@ (B :> {"Datapoint"})}
MCOneSubscription == {A :> Field}
MCSubscriptionToB == {B :> {"Datapoint"}}

MCBatchInputs == {<< << A, Set(1) >>, << B, Set(1) >> >>, << << B, Set(2) >>, << A, Target(2) >> >>}
MCOneBatch == {<< << A, Set(1) >> >>}
MCContinuousBatches == {<< << A, Set(1) >> >>, << << A, Set(2) >> >>}

\* C is not there before it is registered.
MCBatchesOnC == {<< << C, Set(1) >>, << B, Set(1) >> >>, << << C, Set(2) >> >>}

SelectAll == [select |-> {"A", "B"}, where |-> None]
SelectWhere == [select |-> {"A"}, where |-> Some([path |-> "B", values |-> {Scalar("Int32", 1)}])]
SelectC == [select |-> {"C"}, where |-> None]

MCOneQuery == {SelectAll}
MCQueryInputs == {SelectWhere, SelectC}
MCQueryOfC == {SelectC}

==============================================================================
