------------------------------ MODULE MCPlant ------------------------------
(* What the plant tells the platform and what becomes of it, for TLC:      *)
(* planning inputs, workbooks and inventory files, connectors, deviations, *)
(* the records of the plant and recovery cases.  The modules share no      *)
(* variable: a run follows one of them, "focus", so that it explores their *)
(* sum and not their product.                                              *)
EXTENDS SupplyPlan, ExchangeImport, InventoryFeed, ConnectorFeed, Deviations,
        PlantRecords, RecoveryCase, TLC
VARIABLE focus

\* No definition tells the strategies of a case, or two people, apart.
Symmetry == Permutations(Strategies) \cup Permutations(People)

\* Three days of demand, and one delivery the supplier reschedules.
NeedOfDays == <<3, 1>>
DeliveryUpdates == {[id |-> 1, day |-> 2]}

\* Workbooks that add rows, change rows of another one and depend on it.
SomeWorkbooks ==
  {"item" :> 1, ("item" :> 2) @@ ("order" :> 1), ("order" :> 2) @@ ("requirement" :> 1)}

Row(kind, key, material, says) ==
  [kind |-> kind, key |-> key, material |-> material, says |-> says]

\* Files with new rows, rows that change what an earlier one said, rows that
\* repeat a key and rows of a material that no other file declares.
SomeFiles ==
  {{Row("material", "m1", "a", 1), Row("stock", "s1", "a", 2)},
   {Row("stock", "s2", "a", 1), Row("order", "o1", "b", 1)},
   {Row("stock", "s3", "a", 3), Row("material", "m1", "a", 0)},
   {Row("stock", "s1", "a", 3), Row("order", "o1", "a", 2)},
   {Row("material", "m2", "b", 1), Row("material", "m1", "b", 1)},
   {Row("material", "m2", "b", 2), Row("stock", "s4", "b", 1), Row("stock", "s5", "a", 2)}}

\* One deviation of every detector that verifies in its own way.
KindOfKey == [k \in Keys |-> IF k = "k1" THEN "output" ELSE "machine"]

plantVars ==
  <<supplyVars, importVars, feedVars, connectorVars, deviationVars, recordVars, recoveryVars,
    focus>>

Init ==
  /\ SupplyInit /\ ImportInit /\ FeedInit /\ ConnectorInit
  /\ DeviationInit /\ RecordsInit /\ RecoveryInit
  /\ focus \in {"supply", "import", "feed", "stream", "edge", "deviation", "quality", "setup",
                "handover", "maintenance", "plant", "recovery"}

SupplyStep == SupplyNext /\ UNCHANGED <<importVars, feedVars, connectorVars, deviationVars, recordVars, recoveryVars>>
ImportStep == ImportNext /\ UNCHANGED <<supplyVars, feedVars, connectorVars, deviationVars, recordVars, recoveryVars>>
FeedStep == FeedNext /\ UNCHANGED <<supplyVars, importVars, connectorVars, deviationVars, recordVars, recoveryVars>>
DeviationStep == DeviationNext /\ UNCHANGED <<supplyVars, importVars, feedVars, connectorVars, recordVars, recoveryVars>>
RecoveryStep == RecoveryNext /\ UNCHANGED <<supplyVars, importVars, feedVars, connectorVars, deviationVars, recordVars>>

ConnectorStep ==
  /\ UNCHANGED <<supplyVars, importVars, feedVars, deviationVars, recordVars, recoveryVars>>
  /\ \/ focus = "stream" /\ StreamNext
     \/ focus = "edge" /\ EdgeNext

RecordStep ==
  /\ UNCHANGED <<supplyVars, importVars, feedVars, connectorVars, deviationVars, recoveryVars>>
  /\ \/ focus = "quality" /\ QualityNext
     \/ focus = "setup" /\ SetupNext
     \/ focus = "handover" /\ HandoverNext
     \/ focus = "maintenance" /\ MaintenanceNext
     \/ focus = "plant" /\ PlantNext

Next ==
  /\ \/ focus = "supply" /\ SupplyStep
     \/ focus = "import" /\ ImportStep
     \/ focus = "feed" /\ FeedStep
     \/ focus = "deviation" /\ DeviationStep
     \/ focus = "recovery" /\ RecoveryStep
     \/ ConnectorStep
     \/ RecordStep
  /\ UNCHANGED focus

Spec == Init /\ [][Next]_plantVars
=============================================================================
