------------------------- MODULE SensorNode_proofs -------------------------
(***************************************************************************)
(* The safety of SensorNode for any number of boards and any table size:   *)
(* the types, whatever the overlaps; the table and the ledger, until a     *)
(* call is overtaken by another.                                           *)
(***************************************************************************)
EXTENDS SensorNode, Arrays_proofs

\* A table that makes sense: one entry per module, of a board, with something
\* to average.
ProperAggTable(table) ==
  /\ table \in AggTables
  /\ table.size <= AGGREGATE_TABLE_SIZE
  /\ \A i, j \in Slots(table.size) :
       table.row[i].module_id = table.row[j].module_id => i = j
  /\ \A i \in Slots(table.size) : /\ table.row[i].module_id \in Nodes
                                  /\ table.row[i].steps > 0

USE NoneAssumption, AggregateTableAssumption, SensorNodeAssumption
-----------------------------------------------------------------------------
(* The operations on the table.                                            *)

\* The size counts slots of the array only.
LEMMA LiveSlots ==
  ASSUME NEW table \in AggTables, table.size <= AGGREGATE_TABLE_SIZE
  PROVE  /\ Live(table) = Slots(table.size)
         /\ Slots(table.size) \subseteq AggSlots
         /\ table.size \in Nat
BY DEF AggTables, Live, AggSlots, Slots

\* The lookup by module id finds an entry of the module, and only that.
LEMMA SensorLookup ==
  ASSUME NEW table \in AggTables, NEW module_id
  PROVE  LET found == get_sensor_index_by_id(table, module_id)
         IN  /\ ~ HasEntry(table, module_id) => found = NOT_FOUND
             /\ HasEntry(table, module_id) =>
                  /\ found \in Live(table)
                  /\ found \in AggSlots
                  /\ found # NOT_FOUND
                  /\ table.row[found].module_id = module_id
<1> DEFINE hits == {i \in Live(table) : table.row[i].module_id = module_id}
<1>1. AGGREGATE_TABLE_SIZE \in Nat /\ hits \in SUBSET Slots(AGGREGATE_TABLE_SIZE)
  BY DEF Live, AggSlots
<1>2. /\ hits = {} => LastOf(hits) = NOT_FOUND
      /\ hits # {} => LastOf(hits) \in hits /\ LastOf(hits) # NOT_FOUND
  BY <1>1, LastOfHits
<1> QED
  BY <1>2 DEF get_sensor_index_by_id, HasEntry, Live

\* The lookup by MAC, where several entries may carry the same MAC, finds a
\* slot that does or nothing.
LEMMA MacLookup ==
  ASSUME NEW table \in AggTables, NEW mac
  PROVE  LET found == get_sensor_index_by_mac(table, mac)
         IN  found # NOT_FOUND => /\ found \in Live(table)
                                  /\ found \in AggSlots
                                  /\ table.mac[found] = mac
<1> DEFINE hits == {i \in Live(table) : table.mac[i] = mac}
<1>1. AGGREGATE_TABLE_SIZE \in Nat /\ hits \in SUBSET Slots(AGGREGATE_TABLE_SIZE)
  BY DEF Live, AggSlots
<1>2. /\ hits = {} => LastOf(hits) = NOT_FOUND
      /\ hits # {} => LastOf(hits) \in hits
  BY <1>1, LastOfHits
<1> QED
  BY <1>2 DEF get_sensor_index_by_mac, Live

\* In a proper table StepsOf is the steps of the module's entry, if any.
LEMMA StepsOfEntry ==
  ASSUME NEW table, ProperAggTable(table), NEW n
  PROVE  /\ ~ HasEntry(table, n) => StepsOf(table, n) = 0
         /\ \A i \in Slots(table.size) :
              table.row[i].module_id = n => StepsOf(table, n) = table.row[i].steps
BY SensorLookup, LiveSlots DEF StepsOf, ProperAggTable, HasEntry

\* And so a natural number.
LEMMA StepsIsNat ==
  ASSUME NEW table, ProperAggTable(table), NEW n
  PROVE  StepsOf(table, n) \in Nat
<1>1. /\ \A i \in Slots(table.size) : i \in AggSlots
      /\ Live(table) = Slots(table.size)
  BY LiveSlots DEF ProperAggTable
<1>2. table.row \in [AggSlots -> Rows]
  BY DEF ProperAggTable, AggTables
<1>3. \A i \in Slots(table.size) : table.row[i].steps \in Nat
  BY <1>1, <1>2 DEF Rows
<1>4. CASE HasEntry(table, n)
  <2>1. PICK i \in Slots(table.size) : table.row[i].module_id = n
    BY <1>1, <1>4 DEF HasEntry
  <2> QED
    BY <1>3, <2>1, StepsOfEntry
<1>5. CASE ~ HasEntry(table, n)
  BY <1>5, StepsOfEntry
<1> QED
  BY <1>4, <1>5

\* What a table holds of a module depends on the rows it counts only.
LEMMA SameSteps ==
  ASSUME NEW table, NEW new, Live(new) = Live(table),
         \A i \in Live(table) : new.row[i].module_id = table.row[i].module_id
  PROVE  /\ \A n : get_sensor_index_by_id(new, n) = get_sensor_index_by_id(table, n)
         /\ \A n : HasEntry(new, n) <=> HasEntry(table, n)
<1>1. \A n : {i \in Live(new) : new.row[i].module_id = n}
               = {i \in Live(table) : table.row[i].module_id = n}
  OBVIOUS
<1> QED
  BY <1>1 DEF get_sensor_index_by_id, HasEntry

\* A reading more in an entry is a reading more of its module.
LEMMA AddReading ==
  ASSUME NEW table, ProperAggTable(table), NEW at \in Slots(table.size)
  PROVE  LET new == add_reading(table, at)
             n   == table.row[at].module_id
         IN  /\ ProperAggTable(new)
             /\ \A m : StepsOf(new, m) = StepsOf(table, m) + (IF m = n THEN 1 ELSE 0)
<1> DEFINE new == add_reading(table, at)
           n   == table.row[at].module_id
<1>1. /\ table \in AggTables /\ table.row \in [AggSlots -> Rows]
      /\ Live(table) = Slots(table.size) /\ Slots(table.size) \subseteq AggSlots
  BY LiveSlots DEF ProperAggTable, AggTables
<1>2. /\ new.row = [table.row EXCEPT ![at].steps = @ + 1]
      /\ new.size = table.size /\ new.mac = table.mac
      /\ new = [row |-> new.row, mac |-> new.mac, size |-> new.size]
  BY <1>1 DEF add_reading, AggTables
<1>3. table.row[at] \in Rows
  BY <1>1
<1>4. /\ new.row \in [AggSlots -> Rows]
      /\ new.row[at].steps = table.row[at].steps + 1
      /\ \A i \in AggSlots : new.row[i].module_id = table.row[i].module_id
      /\ \A i \in AggSlots \ {at} : new.row[i] = table.row[i]
  BY <1>1, <1>2, <1>3 DEF Rows
<1>5. new \in AggTables
  BY <1>1, <1>2, <1>4 DEF AggTables
<1> HIDE DEF new
<1>6. \A i \in Slots(table.size) : new.row[i].module_id = table.row[i].module_id
  BY <1>1, <1>4
<1>7. \A i \in Slots(table.size) : new.row[i].steps > 0
  BY <1>1, <1>3, <1>4 DEF ProperAggTable, Rows
<1>8. ProperAggTable(new)
  BY <1>2, <1>5, <1>6, <1>7 DEF ProperAggTable
<1>9. Slots(new.size) = Slots(table.size)
  BY <1>2
<1>10. \A m : StepsOf(new, m) = StepsOf(table, m) + (IF m = n THEN 1 ELSE 0)
  <2> TAKE m
  <2>1. Live(new) = Live(table)
    BY <1>2 DEF Live
  <2>2. get_sensor_index_by_id(new, m) = get_sensor_index_by_id(table, m)
    BY <1>1, <1>6, <2>1, SameSteps
  <2>3. CASE m = n
    <3>1. StepsOf(table, m) = table.row[at].steps
      BY <2>3, StepsOfEntry
    <3>2. StepsOf(new, m) = new.row[at].steps
      <4>1. at \in Slots(new.size) /\ new.row[at].module_id = m
        BY <1>6, <1>9, <2>3
      <4> QED
        BY <1>8, <4>1, StepsOfEntry
    <3> QED
      BY <1>4, <2>3, <3>1, <3>2
  <2>4. CASE m # n
    <3>1. StepsOf(new, m) = StepsOf(table, m)
      <4>1. CASE HasEntry(table, m)
        <5>1. PICK i \in Slots(table.size) : table.row[i].module_id = m
          BY <1>1, <4>1 DEF HasEntry
        <5>2. i # at /\ new.row[i] = table.row[i]
          BY <1>1, <1>4, <2>4, <5>1
        <5>3. i \in Slots(new.size) /\ new.row[i].module_id = m
          BY <1>9, <5>1, <5>2
        <5>4. StepsOf(new, m) = new.row[i].steps
          BY <1>8, <5>3, StepsOfEntry
        <5>5. StepsOf(table, m) = table.row[i].steps
          BY <5>1, StepsOfEntry
        <5> QED
          BY <5>2, <5>4, <5>5
      <4>2. CASE ~ HasEntry(table, m)
        BY <1>1, <1>6, <1>8, <2>1, <4>2, SameSteps, StepsOfEntry
      <4> QED
        BY <4>1, <4>2
    <3> QED
      BY <2>4, <3>1, StepsIsNat
  <2> QED
    BY <2>3, <2>4
<1> QED
  BY <1>8, <1>10 DEF new

\* An entry that is written behind the last and counted is one more reading.
LEMMA CountEntry ==
  ASSUME NEW table, ProperAggTable(table), NEW n \in Nodes,
         ~ HasEntry(table, n), table.size \in AggSlots,
         table.row[table.size] = [module_id |-> n, steps |-> 1]
  PROVE  LET new == store_size(table, table.size + 1)
         IN  /\ ProperAggTable(new)
             /\ \A m : StepsOf(new, m) = StepsOf(table, m) + (IF m = n THEN 1 ELSE 0)
<1> DEFINE new == store_size(table, table.size + 1)
<1>1. /\ table \in AggTables
      /\ Live(table) = Slots(table.size) /\ Slots(table.size) \subseteq AggSlots
      /\ table.size \in Nat /\ table.size < AGGREGATE_TABLE_SIZE
      /\ AGGREGATE_TABLE_SIZE \in Nat
  BY LiveSlots DEF ProperAggTable, AggSlots, Slots
<1>2. /\ new.row = table.row /\ new.mac = table.mac /\ new.size = table.size + 1
      /\ new \in AggTables
  BY <1>1 DEF store_size, AggTables
<1> HIDE DEF new
<1>3. Slots(new.size) = Slots(table.size) \cup {table.size}
  BY <1>1, <1>2 DEF Slots
<1>4. \A i \in Slots(table.size) : table.row[i].module_id # n
  BY <1>1 DEF HasEntry
<1>5. ProperAggTable(new)
  <2>1. \A i, j \in Slots(new.size) : new.row[i].module_id = new.row[j].module_id => i = j
    BY <1>2, <1>3, <1>4 DEF ProperAggTable
  <2>2. \A i \in Slots(new.size) : /\ new.row[i].module_id \in Nodes
                                   /\ new.row[i].steps > 0
    BY <1>2, <1>3 DEF ProperAggTable
  <2> QED
    BY <1>1, <1>2, <2>1, <2>2 DEF ProperAggTable
<1>6. ASSUME NEW m
      PROVE  StepsOf(new, m) = StepsOf(table, m) + (IF m = n THEN 1 ELSE 0)
  <2>1. CASE m = n
    <3>1. StepsOf(table, m) = 0
      BY <2>1, StepsOfEntry
    <3>2. StepsOf(new, m) = 1
      BY <1>2, <1>3, <1>5, <2>1, StepsOfEntry
    <3> QED
      BY <2>1, <3>1, <3>2
  <2>2. CASE m # n
    <3>1. StepsOf(new, m) = StepsOf(table, m)
      <4>1. CASE HasEntry(table, m)
        <5>1. PICK i \in Slots(table.size) : table.row[i].module_id = m
          BY <1>1, <4>1 DEF HasEntry
        <5> QED
          BY <1>2, <1>3, <1>5, <5>1, StepsOfEntry
      <4>2. CASE ~ HasEntry(table, m)
        <5>1. Live(new) = Slots(new.size)
          BY <1>5, LiveSlots DEF ProperAggTable
        <5>2. ~ HasEntry(new, m)
          BY <1>1, <1>2, <1>3, <2>2, <4>2, <5>1 DEF HasEntry
        <5> QED
          BY <1>5, <4>2, <5>2, StepsOfEntry
      <4> QED
        BY <4>1, <4>2
    <3> QED
      BY <2>2, <3>1, StepsIsNat
  <2> QED
    BY <2>1, <2>2
<1> QED
  BY <1>5, <1>6 DEF new

\* A row behind the last changes nothing of what the table holds, nor does
\* the MAC of an entry.
LEMMA WriteEntry ==
  ASSUME NEW table \in AggTables, table.size <= AGGREGATE_TABLE_SIZE,
         NEW n \in Nodes \cup {None}
  PROVE  LET new == write_entry(table, n)
         IN  /\ new \in AggTables /\ new.size = table.size /\ new.mac = table.mac
             /\ \A i \in Slots(table.size) : new.row[i] = table.row[i]
             /\ table.size \in AggSlots =>
                  new.row[table.size] = [module_id |-> n, steps |-> 1]
<1> DEFINE new == write_entry(table, n)
<1>1. /\ table.row \in [AggSlots -> Rows] /\ [module_id |-> n, steps |-> 1] \in Rows
      /\ Slots(table.size) \subseteq AggSlots /\ table.size \in Nat
  BY LiveSlots DEF AggTables, Rows
<1>2. /\ new.row = [i \in AggSlots |->
                      IF i = table.size THEN [module_id |-> n, steps |-> 1] ELSE table.row[i]]
      /\ new.size = table.size /\ new.mac = table.mac
      /\ new = [row |-> new.row, mac |-> new.mac, size |-> new.size]
  BY DEF write_entry, AggTables
<1>3. new.row \in [AggSlots -> Rows]
  BY <1>1, <1>2
<1>4. new \in AggTables
  BY <1>2, <1>3 DEF AggTables
<1>5. \A i \in Slots(table.size) : i \in AggSlots /\ i # table.size
  BY <1>1 DEF Slots
<1> QED
  BY <1>2, <1>4, <1>5

LEMMA SetMac ==
  ASSUME NEW table \in AggTables, NEW at \in AggSlots, NEW mac \in Nodes \cup {None}
  PROVE  LET new == set_mac(table, at, mac)
         IN  new \in AggTables /\ new.row = table.row /\ new.size = table.size
<1> DEFINE new == set_mac(table, at, mac)
<1>1. /\ new.row = table.row /\ new.size = table.size
      /\ new.mac = [table.mac EXCEPT ![at] = mac]
      /\ new = [row |-> new.row, mac |-> new.mac, size |-> new.size]
  BY DEF set_mac, AggTables
<1>2. new.mac \in [AggSlots -> Nodes \cup {None}]
  BY <1>1 DEF AggTables
<1> QED
  BY <1>1, <1>2 DEF AggTables

\* Tables that count the same rows hold the same.
LEMMA SameRows ==
  ASSUME NEW table, ProperAggTable(table), NEW new \in AggTables,
         new.size = table.size,
         \A i \in Slots(table.size) : new.row[i] = table.row[i]
  PROVE  /\ ProperAggTable(new)
         /\ \A n : StepsOf(new, n) = StepsOf(table, n)
         /\ \A n : HasEntry(new, n) <=> HasEntry(table, n)
<1>1. Live(table) = Slots(table.size) /\ Live(new) = Slots(table.size)
  BY LiveSlots DEF ProperAggTable
<1>2. /\ \A n : get_sensor_index_by_id(new, n) = get_sensor_index_by_id(table, n)
      /\ \A n : HasEntry(new, n) <=> HasEntry(table, n)
  BY <1>1, SameSteps
<1>3. ProperAggTable(new)
  BY DEF ProperAggTable
<1>4. ASSUME NEW n PROVE StepsOf(new, n) = StepsOf(table, n)
  <2>1. CASE HasEntry(table, n)
    <3>1. PICK i \in Slots(table.size) : table.row[i].module_id = n
      BY <1>1, <2>1 DEF HasEntry
    <3> QED
      BY <1>3, <3>1, StepsOfEntry
  <2>2. CASE ~ HasEntry(table, n)
    BY <1>2, <1>3, <2>2, StepsOfEntry
  <2> QED
    BY <2>1, <2>2
<1> QED
  BY <1>2, <1>3, <1>4

\* The type of a table whose gap is closed, at whatever index and for
\* whatever size.
LEMMA CloseGapType ==
  ASSUME NEW table \in AggTables, NEW at, NEW left \in Nat, left < AGGREGATE_TABLE_SIZE
  PROVE  close_gap(table, at, left) \in AggTables
<1>1. /\ table.row \in [Slots(AGGREGATE_TABLE_SIZE) -> Rows]
      /\ table.mac \in [Slots(AGGREGATE_TABLE_SIZE) -> Nodes \cup {None}]
      /\ AGGREGATE_TABLE_SIZE \in Nat
  BY DEF AggTables, AggSlots
<1>2. ShiftLeft(table.row, at, left) \in [Slots(AGGREGATE_TABLE_SIZE) -> Rows]
  BY <1>1, ShiftLeftType, Zenon
<1>3. ShiftLeft(table.mac, at, left) \in [Slots(AGGREGATE_TABLE_SIZE) -> Nodes \cup {None}]
  BY <1>1, ShiftLeftType, Zenon
<1>4. left \in 0 .. AGGREGATE_TABLE_SIZE + 1
  BY <1>1
<1> QED
  BY <1>2, <1>3, <1>4 DEF close_gap, AggTables, AggSlots

\* pop_sensors_index takes out the entry at its index and keeps every other
\* as it is.
LEMMA CloseGap ==
  ASSUME NEW table, ProperAggTable(table), NEW at \in Slots(table.size)
  PROVE  LET new == close_gap(table, at, table.size - 1)
             n   == table.row[at].module_id
         IN  /\ ProperAggTable(new)
             /\ ~ HasEntry(new, n)
             /\ \A i \in Slots(table.size) \ {at} :
                  \E k \in Slots(new.size) : new.row[k] = table.row[i]
             /\ \A k \in Slots(new.size) :
                  \E i \in Slots(table.size) \ {at} : new.row[k] = table.row[i]
<1> DEFINE left == table.size - 1
           new  == close_gap(table, at, left)
           n    == table.row[at].module_id
           old(k) == IF at <= k THEN k + 1 ELSE k
<1>1. /\ table \in AggTables
      /\ AGGREGATE_TABLE_SIZE \in Nat
      /\ at \in Nat
      /\ left \in Nat
      /\ left < AGGREGATE_TABLE_SIZE
      /\ table.size = left + 1
  BY DEF ProperAggTable, AggTables, Slots
<1>2. new.row = ShiftLeft(table.row, at, left) /\ new.size = left
  BY DEF close_gap
<1>3. DOMAIN table.row = Slots(AGGREGATE_TABLE_SIZE)
  BY <1>1 DEF AggTables, AggSlots
<1>5. new \in AggTables
  <2> HIDE DEF left
  <2> QED
    BY <1>1, CloseGapType
<1>6. \A k \in Slots(left) : /\ old(k) \in Slots(table.size) \ {at}
                             /\ new.row[k] = table.row[old(k)]
  <2>1. \A k \in Slots(left) :
          ShiftLeft(table.row, at, left)[k] =
            IF at <= k THEN table.row[k + 1] ELSE table.row[k]
    <3> HIDE DEF left
    <3> QED
      BY <1>1, <1>3, ShiftLeftSlots
  <2>2. \A k \in Slots(left) : old(k) \in Slots(table.size) \ {at}
    BY <1>1 DEF Slots
  <2> QED
    BY <1>2, <2>1, <2>2
<1>7. \A i \in Slots(table.size) \ {at} :
        \E k \in Slots(left) : new.row[k] = table.row[i]
  <2> SUFFICES ASSUME NEW i \in Slots(table.size) \ {at}
               PROVE  \E k \in Slots(left) : old(k) = i
    BY <1>6
  <2>1. CASE i < at
    BY <1>1, <2>1 DEF Slots
  <2>2. CASE i > at
    <3>1. i - 1 \in Slots(left) /\ old(i - 1) = i
      BY <1>1, <2>2 DEF Slots
    <3> QED
      BY <3>1
  <2> QED
    BY <1>1, <2>1, <2>2 DEF Slots
<1>8. ProperAggTable(new)
  <2>1. \A k, l \in Slots(left) : old(k) = old(l) => k = l
    BY <1>1 DEF Slots
  <2>2. \A k, l \in Slots(left) :
          new.row[k].module_id = new.row[l].module_id => old(k) = old(l)
    BY <1>6 DEF ProperAggTable
  <2>3. left <= AGGREGATE_TABLE_SIZE
    BY <1>1
  <2> HIDE DEF old, new, left
  <2> QED
    BY <1>2, <1>5, <1>6, <2>1, <2>2, <2>3 DEF ProperAggTable
<1>9. ~ HasEntry(new, n)
  <2>1. Live(new) = Slots(left)
    BY <1>2, <1>8, LiveSlots DEF ProperAggTable
  <2> QED
    BY <1>6, <2>1 DEF HasEntry, ProperAggTable
<1> QED
  BY <1>2, <1>6, <1>7, <1>8, <1>9

\* Taking an entry out by its index gives up what the table held of its
\* module, and leaves what it holds of every other.
LEMMA CloseGapSteps ==
  ASSUME NEW table, ProperAggTable(table), NEW at \in Slots(table.size), NEW n
  PROVE  StepsOf(close_gap(table, at, table.size - 1), n) =
           IF n = table.row[at].module_id THEN 0 ELSE StepsOf(table, n)
<1> DEFINE new == close_gap(table, at, table.size - 1)
<1>1. /\ ProperAggTable(new)
      /\ ~ HasEntry(new, table.row[at].module_id)
      /\ \A i \in Slots(table.size) \ {at} :
           \E k \in Slots(new.size) : new.row[k] = table.row[i]
      /\ \A k \in Slots(new.size) :
           \E i \in Slots(table.size) \ {at} : new.row[k] = table.row[i]
  BY CloseGap
<1>2. Live(table) = Slots(table.size) /\ Live(new) = Slots(new.size)
  BY <1>1, LiveSlots DEF ProperAggTable
<1> HIDE DEF new
<1>3. CASE n = table.row[at].module_id
  <2>1. StepsOf(new, n) = 0
    BY <1>1, <1>3, StepsOfEntry
  <2> QED
    BY <1>3, <2>1 DEF new
<1>4. CASE n # table.row[at].module_id
  <2>1. CASE HasEntry(table, n)
    <3>1. PICK i \in Slots(table.size) \ {at} : table.row[i].module_id = n
      BY <1>2, <1>4, <2>1 DEF HasEntry
    <3>2. PICK k \in Slots(new.size) : new.row[k] = table.row[i]
      BY <1>1
    <3>3. StepsOf(table, n) = table.row[i].steps
      BY <3>1, StepsOfEntry
    <3>4. StepsOf(new, n) = new.row[k].steps
      BY <1>1, <3>1, <3>2, StepsOfEntry
    <3> QED
      BY <1>4, <3>2, <3>3, <3>4 DEF new
  <2>2. CASE ~ HasEntry(table, n)
    <3>1. ~ HasEntry(new, n)
      BY <1>1, <1>2, <2>2 DEF HasEntry
    <3> QED
      BY <1>1, <1>4, <2>2, <3>1, StepsOfEntry DEF new
  <2> QED
    BY <2>1, <2>2
<1> QED
  BY <1>3, <1>4 DEF new
\* The loop of pop_sensors_index, one entry after the other: what it has yet
\* to do changes with none of its steps, nor with the size it stores first.
LEMMA ShrinkGap ==
  ASSUME NEW table \in AggTables, NEW s, NEW at, NEW left
  PROVE  close_gap(store_size(table, s), at, left) = close_gap(table, at, left)
BY DEF close_gap, store_size, AggTables

LEMMA MoveUpType ==
  ASSUME NEW table \in AggTables, NEW at \in AggSlots
  PROVE  LET new == move_up(table, at)
         IN  /\ new \in AggTables /\ new.size = table.size
             /\ at + 1 \in AggSlots =>
                  /\ new.row = [table.row EXCEPT ![at] = table.row[at + 1]]
                  /\ new.mac = [table.mac EXCEPT ![at] = table.mac[at + 1]]
<1> DEFINE new == move_up(table, at)
<1>1. CASE at + 1 \in AggSlots
  <2>1. /\ new.row = [table.row EXCEPT ![at] = table.row[at + 1]]
        /\ new.mac = [table.mac EXCEPT ![at] = table.mac[at + 1]]
        /\ new.size = table.size
        /\ new = [row |-> new.row, mac |-> new.mac, size |-> new.size]
    BY <1>1 DEF move_up, AggTables
  <2>2. /\ [table.row EXCEPT ![at] = table.row[at + 1]] \in [AggSlots -> Rows]
        /\ [table.mac EXCEPT ![at] = table.mac[at + 1]] \in [AggSlots -> Nodes \cup {None}]
    BY <1>1 DEF AggTables
  <2> QED
    BY <2>1, <2>2 DEF AggTables
<1>2. CASE at + 1 \notin AggSlots
  BY <1>2 DEF move_up
<1> QED
  BY <1>1, <1>2

LEMMA MoveUpGap ==
  ASSUME NEW table \in AggTables, NEW at \in AggSlots, NEW left \in AggSlots, at < left
  PROVE  close_gap(move_up(table, at), at + 1, left) = close_gap(table, at, left)
<1> DEFINE new == move_up(table, at)
<1>1. at \in Int /\ left \in Int /\ at + 1 \in AggSlots /\ AggSlots \subseteq Int
  BY DEF AggSlots, Slots
<1>2. /\ new.row = [table.row EXCEPT ![at] = table.row[at + 1]]
      /\ new.mac = [table.mac EXCEPT ![at] = table.mac[at + 1]]
  BY <1>1, MoveUpType
<1>3. DOMAIN table.row = AggSlots /\ DOMAIN table.mac = AggSlots
  BY DEF AggTables
<1> HIDE DEF new
<1>4. ASSUME NEW array, NEW moved, DOMAIN array = AggSlots,
             moved = [array EXCEPT ![at] = array[at + 1]]
      PROVE  ShiftLeft(moved, at + 1, left) = ShiftLeft(array, at, left)
  <2>1. ASSUME NEW i \in AggSlots
        PROVE  (IF at + 1 <= i /\ i < left THEN moved[i + 1] ELSE moved[i])
                 = (IF at <= i /\ i < left THEN array[i + 1] ELSE array[i])
    <3>1. i \in Int /\ i + 1 # i
      BY <1>1
    <3>2. CASE i = at
      BY <1>1, <1>4, <3>2
    <3>3. CASE i # at
      <4>1. (at + 1 <= i) <=> (at <= i)
        BY <1>1, <3>1, <3>3
      <4>2. moved[i] = array[i]
        BY <1>4, <3>3
      <4>3. at <= i /\ i < left => i + 1 \in AggSlots /\ i + 1 # at
        BY <1>1, <3>1 DEF AggSlots, Slots
      <4>4. at <= i /\ i < left => moved[i + 1] = array[i + 1]
        BY <1>4, <4>3
      <4> QED
        BY <4>1, <4>2, <4>4
    <3> QED
      BY <3>2, <3>3
  <2> QED
    BY <1>4, <2>1 DEF ShiftLeft
<1>5. /\ ShiftLeft(new.row, at + 1, left) = ShiftLeft(table.row, at, left)
      /\ ShiftLeft(new.mac, at + 1, left) = ShiftLeft(table.mac, at, left)
  BY <1>2, <1>3, <1>4
<1> QED
  BY <1>5 DEF close_gap, new

\* At the end of the loop nothing is left to move.
LEMMA GapClosed ==
  ASSUME NEW table \in AggTables
  PROVE  close_gap(table, table.size, table.size) = table
<1>1. table.size \in Nat /\ AggSlots \subseteq Int
  BY DEF AggTables, AggSlots, Slots
<1>2. \A i \in AggSlots : ~ (table.size <= i /\ i < table.size)
  BY <1>1
<1>3. /\ ShiftLeft(table.row, table.size, table.size) = table.row
      /\ ShiftLeft(table.mac, table.size, table.size) = table.mac
  BY <1>2 DEF ShiftLeft, AggTables
<1> QED
  BY <1>3 DEF close_gap, AggTables
-----------------------------------------------------------------------------
(* The types, and what the places say of the other variables, in whatever  *)
(* way the calls overlap.                                                  *)

Held    == {"add", "tag", "copy", "pop", "shrink"}
Within  == Held \cup {"close"}
Pushing == {"search", "add", "write", "count"}

PlacesOK ==
  /\ DOMAIN pc = Threads
  /\ \A t \in Threads : pc[t] \in Places[t]
  /\ index \in [Threads -> 0 .. AGGREGATE_TABLE_SIZE \cup {NOT_FOUND}]
  /\ size \in [Threads -> 0 .. AGGREGATE_TABLE_SIZE]
  /\ \A t \in Threads : pc[t] \in Held => index[t] \in AggSlots
  /\ \A t \in Threads : pc[t] = "close" => index[t] \in 0 .. AGGREGATE_TABLE_SIZE
  /\ \A t \in Threads : pc[t] = "shrink" => size[t] > 0

DataOK ==
  /\ linked \subseteq known
  /\ known \subseteq Others
  /\ agg \in AggTables
  /\ ticks \in 0 .. SEND_AFTER_TICKS
  /\ sensors_state \in {"reading", "zero"}
  /\ sensors \in {"reading", "zero"}
  /\ frame \in Frames
  /\ entry \in Rows
  /\ flush \in BOOLEAN
  /\ departed \in Others \cup {None}

\* The frame is that of a child while it is aggregated, and the event handler
\* has a child to drop while it is at it.
Busy ==
  /\ pc["service"] \in Pushing \cup {"associate", "tag"} => frame.module_id \in Nodes
  /\ departed = None <=> pc["event"] = "idle"

Types == PlacesOK /\ DataOK /\ Busy /\ overtaken \in BOOLEAN

LEMMA TypesTypeOK == Types => TypeOK
BY DEF Types, PlacesOK, DataOK, TypeOK

\* A thread goes on.
LEMMA Goes2 ==
  ASSUME PlacesOK, NEW t \in Threads, NEW place \in Places[t],
         NEW i \in 0 .. AGGREGATE_TABLE_SIZE \cup {NOT_FOUND}, NEW s \in 0 .. AGGREGATE_TABLE_SIZE,
         pc' = [pc EXCEPT ![t] = place],
         index' = [index EXCEPT ![t] = i],
         size' = [size EXCEPT ![t] = s],
         place \in Held => i \in AggSlots,
         place = "close" => i \in 0 .. AGGREGATE_TABLE_SIZE,
         place = "shrink" => s > 0
  PROVE  /\ PlacesOK'
         /\ pc'[t] = place /\ index'[t] = i /\ size'[t] = s
         /\ \A u \in Threads \ {t} : pc'[u] = pc[u] /\ index'[u] = index[u] /\ size'[u] = size[u]
<1>1. /\ DOMAIN pc' = Threads
      /\ index' \in [Threads -> 0 .. AGGREGATE_TABLE_SIZE \cup {NOT_FOUND}]
      /\ size' \in [Threads -> 0 .. AGGREGATE_TABLE_SIZE]
  BY DEF PlacesOK
<1>2. /\ pc'[t] = place /\ index'[t] = i /\ size'[t] = s
      /\ \A u \in Threads \ {t} : pc'[u] = pc[u] /\ index'[u] = index[u] /\ size'[u] = size[u]
  BY DEF PlacesOK
<1>3. \A u \in Threads : /\ pc'[u] \in Places[u]
                         /\ pc'[u] \in Held => index'[u] \in AggSlots
                         /\ pc'[u] = "close" => index'[u] \in 0 .. AGGREGATE_TABLE_SIZE
                         /\ pc'[u] = "shrink" => size'[u] > 0
  BY <1>2 DEF PlacesOK
<1> QED
  BY <1>1, <1>2, <1>3 DEF PlacesOK

\* The same of each of the ways to go on.
Elsewhere(t) ==
  \A u \in Threads \ {t} : pc'[u] = pc[u] /\ index'[u] = index[u] /\ size'[u] = size[u]

LEMMA FindsOK ==
  ASSUME PlacesOK, NEW t \in Threads, NEW place \in Places[t] \ {"shrink"},
         NEW i \in 0 .. AGGREGATE_TABLE_SIZE, Finds(t, i, place),
         place \in Held => i \in AggSlots
  PROVE  /\ PlacesOK' /\ pc'[t] = place /\ index'[t] = i /\ size'[t] = size[t]
         /\ Elsewhere(t)
<1>1. PICK s \in 0 .. AGGREGATE_TABLE_SIZE : s = size[t]
  BY DEF PlacesOK
<1>2. /\ pc' = [pc EXCEPT ![t] = place]
      /\ index' = [index EXCEPT ![t] = i]
      /\ size' = [size EXCEPT ![t] = s]
  BY <1>1 DEF Finds, Goes, PlacesOK
<1>3. place = "shrink" => s > 0
  OBVIOUS
<1>4. /\ PlacesOK'
      /\ pc'[t] = place /\ index'[t] = i /\ size'[t] = s
      /\ \A u \in Threads \ {t} : pc'[u] = pc[u] /\ index'[u] = index[u] /\ size'[u] = size[u]
  BY <1>2, <1>3, Goes2
<1> QED
  BY <1>1, <1>4 DEF Elsewhere

LEMMA ReadsOK ==
  ASSUME PlacesOK, NEW t \in Threads, NEW place \in Places[t],
         NEW s \in 0 .. AGGREGATE_TABLE_SIZE, Reads(t, s, place),
         place \in Held => index[t] \in AggSlots,
         place = "close" => index[t] \in 0 .. AGGREGATE_TABLE_SIZE,
         place = "shrink" => s > 0
  PROVE  PlacesOK' /\ pc'[t] = place /\ index'[t] = index[t] /\ size'[t] = s /\ Elsewhere(t)
<1>1. PICK i \in 0 .. AGGREGATE_TABLE_SIZE \cup {NOT_FOUND} : i = index[t]
  BY DEF PlacesOK
<1>2. /\ pc' = [pc EXCEPT ![t] = place]
      /\ index' = [index EXCEPT ![t] = i]
      /\ size' = [size EXCEPT ![t] = s]
  BY <1>1 DEF Reads, Goes, PlacesOK
<1>3. /\ place \in Held => i \in AggSlots
      /\ place = "close" => i \in 0 .. AGGREGATE_TABLE_SIZE
  BY <1>1
<1>4. /\ PlacesOK'
      /\ pc'[t] = place /\ index'[t] = i /\ size'[t] = s
      /\ \A u \in Threads \ {t} : pc'[u] = pc[u] /\ index'[u] = index[u] /\ size'[u] = size[u]
  BY <1>2, <1>3, Goes2
<1> QED
  BY <1>1, <1>4 DEF Elsewhere

LEMMA ReturnsOK ==
  ASSUME PlacesOK, NEW t \in Threads, NEW place \in Places[t] \ Within, Returns(t, place)
  PROVE  PlacesOK' /\ pc'[t] = place /\ Elsewhere(t)
<1>1. /\ 0 \in 0 .. AGGREGATE_TABLE_SIZE
      /\ place \notin Held /\ place # "close" /\ place # "shrink"
  BY DEF Within, Held
<1>2. /\ pc' = [pc EXCEPT ![t] = place]
      /\ index' = [index EXCEPT ![t] = NOT_FOUND]
      /\ size' = [size EXCEPT ![t] = 0]
  BY DEF Returns, Goes
<1> QED
  BY <1>1, <1>2, Goes2 DEF Elsewhere

LEMMA MovesOK ==
  ASSUME PlacesOK, NEW t \in Threads, NEW place \in Places[t] \ {"shrink", "close"},
         Moves(t, place), place \in Held => index[t] \in AggSlots
  PROVE  PlacesOK' /\ pc'[t] = place /\ index'[t] = index[t] /\ Elsewhere(t)
<1>1. /\ index' = [index EXCEPT ![t] = index[t]]
      /\ index[t] \in 0 .. AGGREGATE_TABLE_SIZE \cup {NOT_FOUND}
      /\ size' = [size EXCEPT ![t] = size[t]] /\ size[t] \in 0 .. AGGREGATE_TABLE_SIZE
  BY DEF Moves, PlacesOK
<1>2. pc' = [pc EXCEPT ![t] = place]
  BY DEF Moves, Goes
<1> QED
  BY <1>1, <1>2, Goes2 DEF Elsewhere

LEMMA ThreadNames ==
  /\ "timer" \in Threads /\ "service" \in Threads /\ "event" \in Threads
  /\ Places["timer"] = {"update", "read", "search", "add", "write", "count"}
  /\ Places["service"] = {"receive", "search", "add", "write", "count", "associate",
                          "tag", "check", "drain", "copy", "pop", "shrink", "close",
                          "send", "reset"}
  /\ Places["event"] = {"idle", "lookup", "pop", "shrink", "close"}
  /\ "timer" # "service" /\ "timer" # "event" /\ "service" # "event"
BY DEF Threads, Places

\* An entry of the array has an index that a thread may keep.
LEMMA SlotsAreIndexes == AggSlots \subseteq 0 .. AGGREGATE_TABLE_SIZE
BY DEF AggSlots, Slots

\* While the table has not overrun, its size is one of the array.
LEMMA SizeInArray ==
  ASSUME agg \in AggTables, ~ Overrun
  PROVE  /\ agg.size \in 0 .. AGGREGATE_TABLE_SIZE
         /\ \A t \in Threads : pc[t] = "count" => ~ (size[t] >= AGGREGATE_TABLE_SIZE)
BY DEF AggTables, Overrun
-----------------------------------------------------------------------------
(* What holds until a call is overtaken, and what a thread's own step keeps *)
(* of it: the table, what the thread itself relies on, and the ledger.     *)

\* While a thread moves entries up no other does, and the size is what it
\* has stored.
Closing(t) ==
  pc[t] = "close" =>
    /\ agg.size = size[t]
    /\ agg.size \in AggSlots
    /\ index[t] \in 0 .. agg.size
    /\ \A u \in Threads \ {t} : pc[u] # "close"

\* The service task has an entry that it has taken out.
Out == {"close", "send"}

Sound ==
  /\ \A t \in Threads : Fresh(t) /\ Closing(t)
  /\ ProperAggTable(Settled)
  /\ pc["service"] \in Out => entry.steps > 0

\* No other thread moves entries up.
Alone(t) == \A u \in Threads \ {t} : pc[u] # "close"

Undisturbed(t) == Sound /\ (pc[t] \notin Outside => Alone(t))

Pending == [n \in Nodes |-> StepsOf(Settled, n)]
ledger  == <<Pending, Sending, Leaving>>

Keeps(t) ==
  /\ Fresh(t)' /\ Closing(t)'
  /\ ProperAggTable(Settled')
  /\ pc'["service"] \in Out => entry'.steps > 0
  /\ Ledger!Kept \/ UNCHANGED ledger
  /\ pc[t] \in Outside => agg' = agg /\ pc'[t] # "close"

\* A thread at the table, with nothing being moved up, finds it as it is.
LEMMA TableAtRest ==
  ASSUME NEW t \in Threads, Undisturbed(t), pc[t] \notin Outside, pc[t] # "close"
  PROVE  Settled = agg /\ ProperAggTable(agg) /\ Alone(t) /\ Fresh(t)
<1>1. Alone(t) /\ \A u \in Threads : pc[u] # "close"
  BY DEF Undisturbed, Alone
<1>2. Settled = agg
  BY <1>1, ThreadNames DEF Settled
<1> QED
  BY <1>1, <1>2 DEF Undisturbed, Sound

\* And leaves it so unless it starts to move entries up.
LEMMA TableStaysAtRest ==
  ASSUME NEW t \in Threads, Alone(t), Elsewhere(t), pc'[t] # "close"
  PROVE  Settled' = agg' /\ Closing(t)'
<1>1. \A u \in Threads : pc'[u] # "close"
  BY DEF Alone, Elsewhere
<1> QED
  BY <1>1, ThreadNames DEF Settled, Closing

\* A thread that leaves the table alone and is not moving entries up leaves
\* also what it will be.
LEMMA SettledStays ==
  ASSUME NEW t \in Threads, Elsewhere(t), agg' = agg, pc[t] # "close", pc'[t] # "close"
  PROVE  Settled' = Settled /\ Closing(t)'
<1>1. /\ (pc'["service"] = "close") <=> (pc["service"] = "close")
      /\ (pc'["event"] = "close") <=> (pc["event"] = "close")
      /\ pc["service"] = "close" => index'["service"] = index["service"]
                                    /\ size'["service"] = size["service"]
      /\ pc["event"] = "close" => index'["event"] = index["event"]
                                  /\ size'["event"] = size["event"]
  BY ThreadNames DEF Elsewhere
<1> QED
  BY <1>1 DEF Settled, Closing

\* What it will be when a thread is moving entries up.
LEMMA SettledClosing ==
  ASSUME NEW t \in {"service", "event"}, Alone(t)
  PROVE  /\ pc[t] = "close" => Settled = close_gap(agg, index[t], size[t])
         /\ Elsewhere(t) /\ pc'[t] = "close" =>
              Settled' = close_gap(agg', index'[t], size'[t])
<1>1. t = "event" => pc["service"] # "close"
  BY ThreadNames DEF Alone
<1>2. t = "event" /\ Elsewhere(t) => pc'["service"] # "close"
  BY <1>1, ThreadNames DEF Elsewhere
<1> QED
  BY <1>1, <1>2, ThreadNames DEF Settled

\* A change of the table that counts one reading more of a board.
LEMMA IsAccept ==
  ASSUME ProperAggTable(Settled), NEW n \in Nodes, Sending' = Sending, Leaving' = Leaving,
         \A m : StepsOf(Settled', m) = StepsOf(Settled, m) + (IF m = n THEN 1 ELSE 0)
  PROVE  Ledger!Kept
<1>1. \A m \in Nodes : StepsOf(Settled, m) \in Nat
  BY StepsIsNat
<1>2. /\ \A m \in Nodes \ {n} : StepsOf(Settled', m) = StepsOf(Settled, m)
      /\ StepsOf(Settled', n) = StepsOf(Settled, n) + 1
  BY <1>1
<1>3. [m \in Nodes |-> StepsOf(Settled', m)] =
        [[m \in Nodes |-> StepsOf(Settled, m)] EXCEPT ![n] = @ + 1]
  BY <1>2
<1>4. Ledger!Accept(n)
  BY <1>3 DEF Ledger!Accept
<1> QED
  BY <1>4 DEF Ledger!Kept

\* A table that counts the same rows leaves the ledger as it is.
LEMMA IsStutter ==
  ASSUME Sending' = Sending, Leaving' = Leaving,
         \A m : StepsOf(Settled', m) = StepsOf(Settled, m)
  PROVE  UNCHANGED ledger
BY DEF ledger, Pending

\* Taking an entry out of the table clears what is pending for its module.
LEMMA CloseClears ==
  ASSUME ProperAggTable(Settled), NEW at \in Slots(Settled.size),
         Settled' = close_gap(Settled, at, Settled.size - 1)
  PROVE  LET n == Settled.row[at].module_id
         IN  /\ n \in Nodes
             /\ StepsOf(Settled, n) = Settled.row[at].steps
             /\ StepsOf(Settled, n) > 0
             /\ [m \in Nodes |-> StepsOf(Settled', m)] =
                  [[m \in Nodes |-> StepsOf(Settled, m)] EXCEPT ![n] = 0]
<1> DEFINE n == Settled.row[at].module_id
<1>1. /\ n \in Nodes
      /\ StepsOf(Settled, n) = Settled.row[at].steps
      /\ StepsOf(Settled, n) > 0
  BY StepsOfEntry DEF ProperAggTable
<1>2. /\ \A m \in Nodes \ {n} : StepsOf(Settled', m) = StepsOf(Settled, m)
      /\ StepsOf(Settled', n) = 0
  BY CloseGapSteps
<1> HIDE DEF n
<1>3. [m \in Nodes |-> StepsOf(Settled', m)] =
        [[m \in Nodes |-> StepsOf(Settled, m)] EXCEPT ![n] = 0]
  BY <1>1, <1>2
<1> QED
  BY <1>1, <1>3 DEF n
-----------------------------------------------------------------------------
(* push_sensors.                                                           *)

\* What a push leaves alone.
LEMMA PushFrame ==
  ASSUME PlacesOK, Busy, NEW t \in {"timer", "service"},
         pc[t] \in Pushing, pc'[t] \in Pushing \cup {AfterPush(t)},
         Elsewhere(t), UNCHANGED pushVars
  PROVE  /\ ModuleOf(t) \in Nodes /\ ModuleOf(t)' = ModuleOf(t)
         /\ Busy' /\ Sending' = Sending /\ Leaving' = Leaving /\ entry' = entry
         /\ pc'["service"] \in Out => pc["service"] \in Out
<1>1. frame' = frame /\ entry' = entry /\ departed' = departed
  BY DEF pushVars, frameVars, eventVars
<1>2. pc'["event"] = pc["event"]
  BY ThreadNames DEF Elsewhere
<1>3. CASE t = "timer"
  <2>1. pc'["service"] = pc["service"]
    BY <1>3, ThreadNames DEF Elsewhere
  <2> QED
    BY <1>1, <1>2, <1>3, <2>1 DEF ModuleOf, Busy, Sending, Leaving, Out
<1>4. CASE t = "service"
  <2>1. /\ pc["service"] \in Pushing /\ pc'["service"] \in Pushing \cup {"associate"}
    BY <1>4 DEF AfterPush
  <2>2. pc["service"] \notin Out /\ pc'["service"] \notin Out
    BY <2>1 DEF Pushing, Out
  <2> QED
    BY <1>1, <1>2, <1>4, <2>1, <2>2 DEF ModuleOf, Busy, Sending, Leaving, Out
<1> QED
  BY <1>3, <1>4

\* The places of a push are those of both its callers.
LEMMA PushPlaces ==
  ASSUME NEW t \in {"timer", "service"}
  PROVE  /\ t \in Threads /\ Pushing \subseteq Places[t]
         /\ AfterPush(t) \in Places[t] \ Within /\ AfterPush(t) \notin Pushing
         /\ AfterPush(t) \in {"update", "associate"}
         /\ Pushing \cap Outside = {} /\ "close" \notin Pushing /\ "shrink" \notin Pushing
BY ThreadNames DEF Pushing, AfterPush, Within, Held, Outside

\* A thread that returns from a push relies on nothing.
LEMMA FreshAfterPush ==
  ASSUME NEW t \in {"timer", "service"}, pc'[t] = AfterPush(t)
  PROVE  Fresh(t)'
BY DEF Fresh, AfterPush

LEMMA PushedOK ==
  ASSUME PlacesOK, DataOK, NEW t \in {"timer", "service"}, Pushed(t)
  PROVE  /\ PlacesOK' /\ pc'[t] = AfterPush(t) /\ Elsewhere(t)
         /\ sensors' \in {"reading", "zero"}
<1>1. Returns(t, AfterPush(t)) /\ t \in Threads /\ AfterPush(t) \in Places[t] \ Within
  BY PushPlaces DEF Pushed
<1>2. PlacesOK' /\ pc'[t] = AfterPush(t) /\ Elsewhere(t)
  BY <1>1, ReturnsOK
<1> QED
  BY <1>2 DEF Pushed, DataOK

\* A step of a push that leaves the table proper and itself fresh keeps all.
LEMMA PushKeeps ==
  ASSUME NEW t \in {"timer", "service"}, Undisturbed(t), Elsewhere(t),
         pc[t] \in Pushing, pc'[t] \in Pushing \cup {AfterPush(t)}, entry' = entry,
         pc'["service"] \in Out => pc["service"] \in Out,
         Fresh(t)', ProperAggTable(agg'), Ledger!Kept \/ UNCHANGED ledger
  PROVE  Keeps(t)
<1>1. /\ t \in Threads /\ pc[t] \notin Outside /\ pc[t] # "close" /\ pc'[t] # "close"
  BY PushPlaces
<1>2. Alone(t)
  BY <1>1, TableAtRest
<1>3. Settled' = agg' /\ Closing(t)'
  BY <1>1, <1>2, TableStaysAtRest
<1> QED
  BY <1>1, <1>3 DEF Keeps, Undisturbed, Sound

\* And what the table holds before and after is what the ledger counts.
LEMMA PushSettled ==
  ASSUME NEW t \in {"timer", "service"}, Undisturbed(t), Elsewhere(t),
         pc[t] \in Pushing, pc'[t] \in Pushing \cup {AfterPush(t)}
  PROVE  Settled = agg /\ Settled' = agg' /\ ProperAggTable(agg) /\ Fresh(t)
<1>1. /\ t \in Threads /\ pc[t] \notin Outside /\ pc[t] # "close" /\ pc'[t] # "close"
  BY PushPlaces
<1>2. Settled = agg /\ ProperAggTable(agg) /\ Alone(t) /\ Fresh(t)
  BY <1>1, TableAtRest
<1> QED
  BY <1>1, <1>2, TableStaysAtRest

LEMMA SearchStep ==
  ASSUME PlacesOK, DataOK, Busy, ~ Overrun, NEW t \in {"timer", "service"}, Search(t)
  PROVE  /\ PlacesOK' /\ DataOK' /\ Busy' /\ Elsewhere(t)
         /\ Undisturbed(t) => Keeps(t)
<1> DEFINE i == get_sensor_index_by_id(agg, ModuleOf(t))
<1>1. /\ pc[t] = "search" /\ pc[t] \in Pushing /\ agg' = agg /\ UNCHANGED pushVars
      /\ agg \in AggTables
  BY DEF Search, Pushing, DataOK
<1>2. i = NOT_FOUND \/ (/\ i \in Live(agg) /\ i \in AggSlots
                        /\ agg.row[i].module_id = ModuleOf(t))
  BY <1>1, SensorLookup
<1>3. i = NOT_FOUND => ~ HasEntry(agg, ModuleOf(t))
  BY <1>1, SensorLookup
<1>4. /\ PlacesOK' /\ Elsewhere(t) /\ sensors' \in {"reading", "zero"}
      /\ \/ pc'[t] = "add" /\ i # NOT_FOUND /\ index'[t] = i
         \/ pc'[t] = "write" /\ i = NOT_FOUND /\ agg.size < AGGREGATE_TABLE_SIZE
         \/ pc'[t] = AfterPush(t)
  <2>1. CASE i # NOT_FOUND
    <3>1. Finds(t, i, "add") /\ sensors' = sensors
      BY <2>1 DEF Search
    <3>2. /\ "add" \in Places[t] \ {"shrink"} /\ i \in AggSlots /\ t \in Threads
          /\ i \in 0 .. AGGREGATE_TABLE_SIZE
      BY <1>2, <2>1, PushPlaces, SlotsAreIndexes DEF Pushing
    <3> HIDE DEF i
    <3>3. PlacesOK' /\ pc'[t] = "add" /\ index'[t] = i /\ Elsewhere(t)
      BY <3>1, <3>2, FindsOK
    <3> QED
      BY <2>1, <3>1, <3>3 DEF DataOK
  <2>2. CASE i = NOT_FOUND /\ agg.size < AGGREGATE_TABLE_SIZE
    <3>1. Moves(t, "write") /\ sensors' = sensors
      BY <2>2 DEF Search
    <3>2. "write" \in Places[t] \ {"shrink", "close"} /\ "write" \notin Held /\ t \in Threads
      BY PushPlaces DEF Pushing, Held
    <3>3. PlacesOK' /\ pc'[t] = "write" /\ Elsewhere(t)
      BY <3>1, <3>2, MovesOK
    <3> QED
      BY <2>2, <3>1, <3>3 DEF DataOK
  <2>3. CASE i = NOT_FOUND /\ ~ (agg.size < AGGREGATE_TABLE_SIZE)
    <3>1. Pushed(t)
      BY <2>3 DEF Search
    <3> QED
      BY <3>1, PushedOK
  <2> QED
    BY <2>1, <2>2, <2>3
<1> HIDE DEF i
<1>5. pc'[t] \in Pushing \cup {AfterPush(t)}
  BY <1>4 DEF Pushing
<1>6. /\ ModuleOf(t)' = ModuleOf(t)
      /\ Busy' /\ Sending' = Sending /\ Leaving' = Leaving /\ entry' = entry
      /\ pc'["service"] \in Out => pc["service"] \in Out
  BY <1>1, <1>4, <1>5, PushFrame
<1>7. DataOK'
  BY <1>1, <1>4 DEF DataOK, pushVars, frameVars, eventVars
<1>8. ASSUME Undisturbed(t) PROVE Keeps(t)
  <2>1. Settled = agg /\ Settled' = agg' /\ ProperAggTable(agg)
    BY <1>1, <1>4, <1>5, <1>8, PushSettled
  <2>2. Fresh(t)'
    <3>1. CASE pc'[t] = "add" /\ i # NOT_FOUND /\ index'[t] = i
      BY <1>1, <1>2, <1>6, <3>1 DEF Fresh
    <3>2. CASE pc'[t] = "write" /\ i = NOT_FOUND /\ agg.size < AGGREGATE_TABLE_SIZE
      BY <1>1, <1>3, <1>6, <3>2 DEF Fresh
    <3>3. CASE pc'[t] = AfterPush(t)
      BY <3>3, FreshAfterPush
    <3> QED
      BY <1>4, <3>1, <3>2, <3>3
  <2>3. UNCHANGED ledger
    BY <1>1, <1>6, <2>1, IsStutter
  <2> QED
    BY <1>1, <1>4, <1>5, <1>6, <1>8, <2>1, <2>2, <2>3, PushKeeps
<1> QED
  BY <1>4, <1>6, <1>7, <1>8

LEMMA AddStep ==
  ASSUME PlacesOK, DataOK, Busy, ~ Overrun, NEW t \in {"timer", "service"}, Add(t)
  PROVE  /\ PlacesOK' /\ DataOK' /\ Busy' /\ Elsewhere(t)
         /\ Undisturbed(t) => Keeps(t)
<1>1. /\ pc[t] = "add" /\ pc[t] \in Pushing /\ pc[t] \in Held
      /\ agg' = add_reading(agg, index[t])
      /\ Pushed(t) /\ UNCHANGED pushVars /\ t \in Threads
  BY PushPlaces DEF Add, Pushing, Held
<1>2. /\ PlacesOK' /\ pc'[t] = AfterPush(t) /\ Elsewhere(t)
      /\ sensors' \in {"reading", "zero"}
  BY <1>1, PushedOK
<1>3. index[t] \in AggSlots
  BY <1>1 DEF PlacesOK
<1>4. agg' \in AggTables
  <2>1. agg.row \in [AggSlots -> Rows] /\ agg.row[index[t]] \in Rows
    BY <1>3 DEF DataOK, AggTables
  <2>2. [agg.row EXCEPT ![index[t]].steps = @ + 1] \in [AggSlots -> Rows]
    BY <1>3, <2>1 DEF Rows
  <2>3. agg' = [row |-> [agg.row EXCEPT ![index[t]].steps = @ + 1],
                mac |-> agg.mac, size |-> agg.size]
    BY <1>1 DEF add_reading, DataOK, AggTables
  <2> QED
    BY <2>2, <2>3 DEF DataOK, AggTables
<1>5. /\ ModuleOf(t) \in Nodes
      /\ Busy' /\ Sending' = Sending /\ Leaving' = Leaving /\ entry' = entry
      /\ pc'["service"] \in Out => pc["service"] \in Out
  BY <1>1, <1>2, PushFrame
<1>6. DataOK'
  BY <1>1, <1>2, <1>4 DEF DataOK, pushVars, frameVars, eventVars
<1>7. ASSUME Undisturbed(t) PROVE Keeps(t)
  <2>1. Settled = agg /\ Settled' = agg' /\ ProperAggTable(agg) /\ Fresh(t)
    BY <1>1, <1>2, <1>7, PushSettled
  <2>2. index[t] \in Slots(agg.size) /\ agg.row[index[t]].module_id = ModuleOf(t)
    BY <1>1, <2>1 DEF Fresh, Live
  <2>3. /\ ProperAggTable(agg')
        /\ \A m : StepsOf(agg', m) = StepsOf(agg, m) + (IF m = ModuleOf(t) THEN 1 ELSE 0)
    BY <1>1, <2>1, <2>2, AddReading
  <2>4. Ledger!Kept
    BY <1>5, <2>1, <2>3, IsAccept
  <2>5. Fresh(t)'
    BY <1>2, FreshAfterPush
  <2> QED
    BY <1>1, <1>2, <1>5, <1>7, <2>3, <2>4, <2>5, PushKeeps
<1> QED
  BY <1>2, <1>5, <1>6, <1>7

LEMMA WriteStep ==
  ASSUME PlacesOK, DataOK, Busy, ~ Overrun, NEW t \in {"timer", "service"}, Write(t)
  PROVE  /\ PlacesOK' /\ DataOK' /\ Busy' /\ Elsewhere(t)
         /\ Undisturbed(t) => Keeps(t)
<1>1. /\ pc[t] = "write" /\ pc[t] \in Pushing
      /\ agg' = write_entry(agg, ModuleOf(t))
      /\ Reads(t, agg.size, "count") /\ sensors' = sensors
      /\ UNCHANGED pushVars /\ t \in Threads
  BY PushPlaces DEF Write, Pushing
<1>2. agg \in AggTables /\ agg.size \in 0 .. AGGREGATE_TABLE_SIZE
      /\ agg.size <= AGGREGATE_TABLE_SIZE
  BY SizeInArray DEF DataOK
<1>3. PlacesOK' /\ pc'[t] = "count" /\ size'[t] = agg.size /\ Elsewhere(t)
  <2>1. "count" \in Places[t] /\ "count" \notin Held /\ "count" # "close"
    BY PushPlaces DEF Pushing, Held
  <2> QED
    BY <1>1, <1>2, <2>1, ReadsOK
<1>4. pc'[t] \in Pushing \cup {AfterPush(t)}
  BY <1>3 DEF Pushing
<1>5. /\ ModuleOf(t) \in Nodes /\ ModuleOf(t)' = ModuleOf(t)
      /\ Busy' /\ Sending' = Sending /\ Leaving' = Leaving /\ entry' = entry
      /\ pc'["service"] \in Out => pc["service"] \in Out
  BY <1>1, <1>3, <1>4, PushFrame
<1>6. /\ agg' \in AggTables /\ agg'.size = agg.size
      /\ \A i \in Slots(agg.size) : agg'.row[i] = agg.row[i]
      /\ agg.size \in AggSlots =>
           agg'.row[agg.size] = [module_id |-> ModuleOf(t), steps |-> 1]
  BY <1>1, <1>2, <1>5, WriteEntry
<1>7. DataOK'
  BY <1>1, <1>6 DEF DataOK, pushVars, frameVars, eventVars
<1>8. ASSUME Undisturbed(t) PROVE Keeps(t)
  <2>1. Settled = agg /\ Settled' = agg' /\ ProperAggTable(agg) /\ Fresh(t)
    BY <1>1, <1>3, <1>4, <1>8, PushSettled
  <2>2. ~ HasEntry(agg, ModuleOf(t)) /\ agg.size \in AggSlots
    BY <1>1, <1>2, <2>1 DEF Fresh, AggSlots, Slots
  <2>3. /\ ProperAggTable(agg')
        /\ \A m : StepsOf(agg', m) = StepsOf(agg, m)
        /\ ~ HasEntry(agg', ModuleOf(t))
    BY <1>6, <2>1, <2>2, SameRows
  <2>4. Fresh(t)'
    BY <1>3, <1>5, <1>6, <2>2, <2>3 DEF Fresh
  <2>5. UNCHANGED ledger
    BY <1>5, <2>1, <2>3, IsStutter
  <2> QED
    BY <1>1, <1>3, <1>4, <1>5, <1>8, <2>3, <2>4, <2>5, PushKeeps
<1> QED
  BY <1>3, <1>5, <1>7, <1>8

LEMMA CountStep ==
  ASSUME PlacesOK, DataOK, Busy, ~ Overrun, NEW t \in {"timer", "service"}, Count(t)
  PROVE  /\ PlacesOK' /\ DataOK' /\ Busy' /\ Elsewhere(t)
         /\ Undisturbed(t) => Keeps(t)
<1>1. /\ pc[t] = "count" /\ pc[t] \in Pushing /\ Pushed(t) /\ UNCHANGED pushVars
      /\ t \in Threads
  BY PushPlaces DEF Count, Pushing
<1>2. PICK read \in {size[t], agg.size} : agg' = store_size(agg, read + 1)
  BY DEF Count
<1>3. /\ PlacesOK' /\ pc'[t] = AfterPush(t) /\ Elsewhere(t)
      /\ sensors' \in {"reading", "zero"}
  BY <1>1, PushedOK
<1>4. agg' \in AggTables
  <2>1. read \in 0 .. AGGREGATE_TABLE_SIZE
    BY <1>1, SizeInArray DEF PlacesOK, DataOK
  <2>2. read + 1 \in 0 .. AGGREGATE_TABLE_SIZE + 1
    BY <2>1
  <2> QED
    BY <1>2, <2>2 DEF store_size, DataOK, AggTables
<1>5. /\ ModuleOf(t) \in Nodes
      /\ Busy' /\ Sending' = Sending /\ Leaving' = Leaving /\ entry' = entry
      /\ pc'["service"] \in Out => pc["service"] \in Out
  BY <1>1, <1>3, PushFrame
<1>6. DataOK'
  BY <1>1, <1>3, <1>4 DEF DataOK, pushVars, frameVars, eventVars
<1>7. ASSUME Undisturbed(t) PROVE Keeps(t)
  <2>1. Settled = agg /\ Settled' = agg' /\ ProperAggTable(agg) /\ Fresh(t)
    BY <1>1, <1>3, <1>7, PushSettled
  <2>2. /\ ~ HasEntry(agg, ModuleOf(t))
        /\ agg.size = size[t] /\ agg.size \in AggSlots
        /\ agg.row[agg.size] = [module_id |-> ModuleOf(t), steps |-> 1]
    BY <1>1, <2>1 DEF Fresh
  <2>3. agg' = store_size(agg, agg.size + 1)
    BY <1>2, <2>2
  <2>4. /\ ProperAggTable(agg')
        /\ \A m : StepsOf(agg', m) = StepsOf(agg, m) + (IF m = ModuleOf(t) THEN 1 ELSE 0)
    BY <1>5, <2>1, <2>2, <2>3, CountEntry
  <2>5. Ledger!Kept
    BY <1>5, <2>1, <2>4, IsAccept
  <2>6. Fresh(t)'
    BY <1>3, FreshAfterPush
  <2> QED
    BY <1>1, <1>3, <1>5, <1>7, <2>4, <2>5, <2>6, PushKeeps
<1> QED
  BY <1>3, <1>5, <1>6, <1>7
(* pop_sensors_index.                                                      *)

LEMMA PopPlaces ==
  ASSUME NEW t \in {"service", "event"}
  PROVE  /\ t \in Threads /\ {"pop", "shrink", "close"} \subseteq Places[t]
         /\ {"pop", "shrink"} \subseteq Held /\ "close" \notin Held
         /\ AfterPop(t) \in Places[t] \ Within
         /\ AfterPop(t) \in {"send", "idle"}
         /\ {"pop", "shrink", "close"} \cap Outside = {}
         /\ {"pop", "shrink", "close"} \cap Pushing = {}
BY ThreadNames DEF AfterPop, Within, Held, Outside, Pushing

\* The variables that a step within a pop leaves alone.
LEMMA PopFrame ==
  ASSUME PlacesOK, DataOK, Busy, NEW t \in {"service", "event"},
         pc[t] \in {"pop", "shrink", "close"}, pc'[t] \in {"pop", "shrink", "close"},
         Elsewhere(t), departed' = departed, UNCHANGED popVars, agg' \in AggTables
  PROVE  /\ DataOK' /\ Busy' /\ entry' = entry
         /\ t = "service" => Leaving' = Leaving
         /\ t = "event" => Sending' = Sending
                           /\ (pc'["service"] \in Out => pc["service"] \in Out)
<1>1. /\ frame' = frame /\ entry' = entry /\ flush' = flush
      /\ UNCHANGED <<linked, known, ticks, sensors_state, sensors>>
  BY DEF popVars, frameVars, sensorVars
<1>2. DataOK'
  BY <1>1 DEF DataOK
<1>3. CASE t = "event"
  <2>1. pc'["service"] = pc["service"] /\ pc'["event"] # "idle" /\ pc["event"] # "idle"
    BY <1>3, ThreadNames DEF Elsewhere
  <2> QED
    BY <1>1, <1>2, <1>3, <2>1 DEF Busy, Sending
<1>4. CASE t = "service"
  <2>1. /\ pc'["event"] = pc["event"]
        /\ pc'["service"] \notin Pushing \cup {"associate", "tag"}
    BY <1>4, ThreadNames DEF Elsewhere, Pushing
  <2> QED
    BY <1>1, <1>2, <1>4, <2>1 DEF Busy, Leaving
<1> QED
  BY <1>3, <1>4

LEMMA PopStep ==
  ASSUME PlacesOK, DataOK, Busy, ~ Overrun, NEW t \in {"service", "event"}, Pop(t)
  PROVE  /\ PlacesOK' /\ DataOK' /\ Busy' /\ Elsewhere(t)
         /\ Undisturbed(t) => Keeps(t)
<1> DEFINE place == IF agg.size > 0 THEN "shrink" ELSE "close"
<1>1. /\ pc[t] = "pop" /\ agg' = agg /\ departed' = departed /\ UNCHANGED popVars
      /\ t \in Threads /\ index[t] \in AggSlots /\ Reads(t, agg.size, place)
  BY PopPlaces DEF Pop, PlacesOK
<1>2. agg.size \in 0 .. AGGREGATE_TABLE_SIZE
  BY SizeInArray DEF DataOK
<1>3. /\ place \in Places[t] /\ place \in {"shrink", "close"}
      /\ place = "shrink" => agg.size > 0
      /\ index[t] \in 0 .. AGGREGATE_TABLE_SIZE
  BY <1>1, PopPlaces, SlotsAreIndexes
<1> HIDE DEF place
<1>4. /\ PlacesOK' /\ pc'[t] = place /\ index'[t] = index[t] /\ size'[t] = agg.size
      /\ Elsewhere(t)
  BY <1>1, <1>2, <1>3, ReadsOK
<1>5. /\ DataOK' /\ Busy' /\ entry' = entry
      /\ t = "service" => Leaving' = Leaving
      /\ t = "event" => Sending' = Sending
                        /\ (pc'["service"] \in Out => pc["service"] \in Out)
  BY <1>1, <1>3, <1>4, PopFrame DEF DataOK
<1>6. ASSUME Undisturbed(t) PROVE Keeps(t)
  <2>1. Settled = agg /\ ProperAggTable(agg) /\ Alone(t) /\ Fresh(t) /\ pc[t] \notin Outside
    BY <1>1, <1>6, PopPlaces, TableAtRest
  <2>2. /\ index[t] \in Live(agg)
        /\ t = "event" => agg.mac[index[t]] = departed
        /\ t = "service" => agg.row[index[t]] = entry
    BY <1>1, <2>1 DEF Fresh
  <2>3. pc'[t] = "shrink"
    <3>1. agg.size > 0
      BY <1>2, <2>2 DEF Live, Slots
    <3> QED
      BY <1>4, <3>1 DEF place
  <2>4. Fresh(t)'
    BY <1>1, <1>4, <1>5, <2>2, <2>3 DEF Fresh
  <2>5. Settled' = agg' /\ Closing(t)'
    BY <1>1, <1>4, <2>1, <2>3, TableStaysAtRest
  <2>6. /\ Sending' = Sending /\ Leaving' = Leaving
        /\ pc'["service"] \in Out => pc["service"] \in Out
    <3>1. CASE t = "event"
      BY <1>1, <1>5, <2>3, <3>1 DEF Leaving
    <3>2. CASE t = "service"
      BY <1>1, <1>5, <2>3, <3>2 DEF Sending, Out
    <3> QED
      BY <3>1, <3>2
  <2>7. UNCHANGED ledger
    BY <1>1, <2>1, <2>5, <2>6, IsStutter
  <2> QED
    BY <1>1, <1>5, <1>6, <2>1, <2>4, <2>5, <2>6, <2>7 DEF Keeps, Undisturbed, Sound
<1> QED
  BY <1>4, <1>5, <1>6

\* The step that takes the entry out, for the ledger.
LEMMA ShrinkStep ==
  ASSUME PlacesOK, DataOK, Busy, ~ Overrun, NEW t \in {"service", "event"}, Shrink(t)
  PROVE  /\ PlacesOK' /\ DataOK' /\ Busy' /\ Elsewhere(t)
         /\ Undisturbed(t) => Keeps(t)
<1>1. /\ pc[t] = "shrink" /\ agg' = store_size(agg, size[t] - 1)
      /\ departed' = departed /\ UNCHANGED popVars
      /\ t \in Threads /\ index[t] \in AggSlots /\ Reads(t, size[t] - 1, "close")
      /\ agg \in AggTables
  BY PopPlaces DEF Shrink, PlacesOK, DataOK
<1>2. size[t] - 1 \in 0 .. AGGREGATE_TABLE_SIZE /\ size[t] - 1 \in AggSlots
  BY <1>1 DEF PlacesOK, AggSlots, Slots
<1>3. "close" \in Places[t] /\ index[t] \in 0 .. AGGREGATE_TABLE_SIZE /\ "close" \notin Held
  BY <1>1, PopPlaces, SlotsAreIndexes
<1>4. /\ PlacesOK' /\ pc'[t] = "close" /\ index'[t] = index[t] /\ size'[t] = size[t] - 1
      /\ Elsewhere(t)
  BY <1>1, <1>2, <1>3, ReadsOK
<1>5. agg' \in AggTables /\ agg'.size = size[t] - 1
  BY <1>1, <1>2 DEF store_size, AggTables
<1>6. /\ DataOK' /\ Busy' /\ entry' = entry
      /\ t = "service" => Leaving' = Leaving
      /\ t = "event" => Sending' = Sending
                        /\ (pc'["service"] \in Out => pc["service"] \in Out)
  BY <1>1, <1>4, <1>5, PopFrame
<1>7. ASSUME Undisturbed(t) PROVE Keeps(t)
  <2> DEFINE at == index[t]
             n  == Settled.row[at].module_id
  <2>1. Settled = agg /\ ProperAggTable(agg) /\ Alone(t) /\ Fresh(t) /\ pc[t] \notin Outside
    BY <1>1, <1>7, PopPlaces, TableAtRest
  <2>2. /\ at \in Slots(agg.size) /\ agg.size = size[t]
        /\ t = "service" => agg.row[at] = entry
    BY <1>1, <2>1 DEF Fresh, Live
  <2>3. Settled' = close_gap(Settled, at, Settled.size - 1)
    <3>1. Settled' = close_gap(agg', at, size[t] - 1)
      BY <1>4, <2>1, SettledClosing
    <3> QED
      BY <1>1, <2>1, <2>2, <3>1, ShrinkGap
  <2>4. ProperAggTable(Settled')
    BY <2>1, <2>2, <2>3, CloseGap
  <2>5. /\ n \in Nodes
        /\ StepsOf(Settled, n) = Settled.row[at].steps
        /\ StepsOf(Settled, n) > 0
        /\ [m \in Nodes |-> StepsOf(Settled', m)] =
             [[m \in Nodes |-> StepsOf(Settled, m)] EXCEPT ![n] = 0]
    BY <2>1, <2>2, <2>3, CloseClears
  <2>6. Closing(t)'
    <3>1. agg'.size = size'[t] /\ agg'.size \in AggSlots /\ index'[t] \in 0 .. agg'.size
      BY <1>2, <1>4, <1>5, <2>2 DEF Slots, AggSlots
    <3>2. \A u \in Threads \ {t} : pc'[u] # "close"
      BY <1>4, <2>1 DEF Alone, Elsewhere
    <3> QED
      BY <3>1, <3>2 DEF Closing
  <2>7. Fresh(t)'
    BY <1>4 DEF Fresh
  <2>8. Ledger!Kept /\ (pc'["service"] \in Out => entry'.steps > 0)
    <3>1. CASE t = "event"
      <4>1. Leaving /\ (Leaving' = FALSE) /\ Sending' = Sending
        BY <1>1, <1>4, <1>6, <3>1 DEF Leaving, Busy
      <4> HIDE DEF n, at
      <4>2. Ledger!GiveUp
        BY <2>5, <4>1 DEF Ledger!GiveUp
      <4> QED
        BY <1>6, <1>7, <3>1, <4>2 DEF Ledger!Kept, Undisturbed, Sound
    <3>2. CASE t = "service"
      <4>1. entry \in Rows /\ entry = Settled.row[at] /\ n = entry.module_id
        BY <2>1, <2>2, <3>2 DEF DataOK
      <4>2. entry = [module_id |-> n, steps |-> StepsOf(Settled, n)] /\ entry.steps > 0
        BY <2>5, <4>1 DEF Rows
      <4>3. Sending = Ledger!Nothing /\ Sending' = entry /\ Leaving' = Leaving
        BY <1>1, <1>4, <1>6, <3>2 DEF Sending, Ledger!Nothing, NoRow
      <4> HIDE DEF n, at
      <4>4. Ledger!TakeOut(n)
        BY <2>5, <4>2, <4>3 DEF Ledger!TakeOut
      <4> QED
        BY <1>6, <2>5, <4>2, <4>4 DEF Ledger!Kept
    <3> QED
      BY <3>1, <3>2
  <2> QED
    BY <2>1, <2>4, <2>6, <2>7, <2>8 DEF Keeps
<1> QED
  BY <1>4, <1>6, <1>7

\* A thread that moves entries up, alone, does so for the size it has stored.
LEMMA MovingUp ==
  ASSUME NEW t \in {"service", "event"}, Undisturbed(t), pc[t] = "close"
  PROVE  /\ Alone(t) /\ pc[t] \notin Outside
         /\ Settled = close_gap(agg, index[t], size[t])
         /\ agg.size = size[t] /\ agg.size \in AggSlots /\ index[t] \in 0 .. agg.size
         /\ \A bound \in Bounds(t) : bound = agg.size
<1>1. t \in Threads /\ pc[t] \notin Outside
  BY PopPlaces
<1>2. Alone(t) /\ Closing(t)
  BY <1>1 DEF Undisturbed, Sound
<1>3. Settled = close_gap(agg, index[t], size[t])
  BY <1>2, SettledClosing
<1>4. agg.size = size[t] /\ agg.size \in AggSlots /\ index[t] \in 0 .. agg.size
  BY <1>2 DEF Closing
<1> QED
  BY <1>1, <1>2, <1>3, <1>4 DEF Bounds

LEMMA MoveUpStep ==
  ASSUME PlacesOK, DataOK, Busy, ~ Overrun, NEW t \in {"service", "event"}, MoveUp(t)
  PROVE  /\ PlacesOK' /\ DataOK' /\ Busy' /\ Elsewhere(t)
         /\ Undisturbed(t) => Keeps(t)
<1>1. /\ pc[t] = "close" /\ agg' = move_up(agg, index[t])
      /\ departed' = departed /\ UNCHANGED popVars
      /\ t \in Threads /\ Finds(t, index[t] + 1, "close") /\ agg \in AggTables
  BY PopPlaces DEF MoveUp, DataOK
<1>2. PICK bound \in Bounds(t) : index[t] < bound
  BY DEF MoveUp
<1>3. index[t] \in AggSlots /\ index[t] + 1 \in 0 .. AGGREGATE_TABLE_SIZE
  <2>1. bound \in 0 .. AGGREGATE_TABLE_SIZE
    BY <1>1, SizeInArray DEF Bounds, PlacesOK
  <2>2. index[t] \in 0 .. AGGREGATE_TABLE_SIZE
    BY <1>1 DEF PlacesOK
  <2> QED
    BY <1>2, <2>1, <2>2 DEF AggSlots, Slots
<1>4. /\ PlacesOK' /\ pc'[t] = "close" /\ index'[t] = index[t] + 1 /\ size'[t] = size[t]
      /\ Elsewhere(t)
  <2>1. "close" \in Places[t] \ {"shrink"} /\ "close" \notin Held
    BY PopPlaces
  <2> QED
    BY <1>1, <1>3, <2>1, FindsOK
<1>5. agg' \in AggTables /\ agg'.size = agg.size
  BY <1>1, <1>3, MoveUpType
<1>6. /\ DataOK' /\ Busy' /\ entry' = entry
      /\ t = "service" => Leaving' = Leaving
      /\ t = "event" => Sending' = Sending
                        /\ (pc'["service"] \in Out => pc["service"] \in Out)
  BY <1>1, <1>4, <1>5, PopFrame
<1>7. ASSUME Undisturbed(t) PROVE Keeps(t)
  <2>1. /\ Alone(t) /\ pc[t] \notin Outside
        /\ Settled = close_gap(agg, index[t], size[t])
        /\ agg.size = size[t] /\ agg.size \in AggSlots /\ index[t] \in 0 .. agg.size
        /\ index[t] < agg.size
    BY <1>1, <1>2, <1>7, MovingUp
  <2>2. Settled' = Settled
    <3>1. Settled' = close_gap(agg', index[t] + 1, size[t])
      BY <1>4, <2>1, SettledClosing
    <3> QED
      BY <1>1, <1>3, <2>1, <3>1, MoveUpGap
  <2>3. Closing(t)'
    <3>1. agg'.size = size'[t] /\ agg'.size \in AggSlots /\ index'[t] \in 0 .. agg'.size
      BY <1>4, <1>5, <2>1 DEF AggSlots, Slots
    <3>2. \A u \in Threads \ {t} : pc'[u] # "close"
      BY <1>4, <2>1 DEF Alone, Elsewhere
    <3> QED
      BY <3>1, <3>2 DEF Closing
  <2>4. Fresh(t)'
    BY <1>4 DEF Fresh
  <2>5. /\ Sending' = Sending /\ Leaving' = Leaving
        /\ pc'["service"] \in Out => pc["service"] \in Out
    <3>1. CASE t = "event"
      BY <1>1, <1>4, <1>6, <3>1 DEF Leaving
    <3>2. CASE t = "service"
      BY <1>1, <1>4, <1>6, <3>2 DEF Sending, Out
    <3> QED
      BY <3>1, <3>2
  <2>6. UNCHANGED ledger
    BY <2>2, <2>5, IsStutter
  <2>7. Sound
    BY <1>7 DEF Undisturbed
  <2>8. ProperAggTable(Settled') /\ (pc'["service"] \in Out => entry'.steps > 0)
    BY <1>6, <2>2, <2>5, <2>7 DEF Sound
  <2> QED
    BY <2>1, <2>3, <2>4, <2>6, <2>8 DEF Keeps
<1> QED
  BY <1>4, <1>6, <1>7

LEMMA ClosedStep ==
  ASSUME PlacesOK, DataOK, Busy, ~ Overrun, NEW t \in {"service", "event"}, Closed(t)
  PROVE  /\ PlacesOK' /\ DataOK' /\ Busy' /\ Elsewhere(t)
         /\ Undisturbed(t) => Keeps(t)
<1>1. /\ pc[t] = "close" /\ agg' = agg /\ agg \in AggTables /\ t \in Threads
      /\ Popped(t) /\ Returns(t, AfterPop(t)) /\ AfterPop(t) \in Places[t] \ Within
      /\ UNCHANGED popVars
  BY PopPlaces DEF Closed, Popped, DataOK
<1>2. PICK bound \in Bounds(t) : index[t] >= bound
  BY DEF Closed
<1>3. PlacesOK' /\ pc'[t] = AfterPop(t) /\ Elsewhere(t)
  BY <1>1, ReturnsOK
<1>4. /\ frame' = frame /\ entry' = entry /\ flush' = flush
      /\ UNCHANGED <<linked, known, ticks, sensors_state, sensors>>
  BY <1>1 DEF popVars, frameVars, sensorVars
<1>5. DataOK'
  BY <1>1, <1>4 DEF DataOK, Popped
<1>6. /\ Busy' /\ Sending' = Sending /\ Leaving' = Leaving
      /\ pc'["service"] \in Out => pc["service"] \in Out
  <2>1. CASE t = "event"
    <3>1. pc'["service"] = pc["service"] /\ pc'["event"] = "idle" /\ departed' = None
      BY <1>1, <1>3, <2>1, ThreadNames DEF Elsewhere, AfterPop, Popped
    <3> QED
      BY <1>1, <1>4, <2>1, <3>1 DEF Busy, Leaving, Sending
  <2>2. CASE t = "service"
    <3>1. pc'["event"] = pc["event"] /\ pc'["service"] = "send" /\ departed' = departed
      BY <1>1, <1>3, <2>2, ThreadNames DEF Elsewhere, AfterPop, Popped
    <3>2. "send" \notin Pushing \cup {"associate", "tag"}
      BY DEF Pushing
    <3> QED
      BY <1>1, <1>4, <2>2, <3>1, <3>2 DEF Busy, Leaving, Sending, Out
  <2> QED
    BY <2>1, <2>2
<1>7. ASSUME Undisturbed(t) PROVE Keeps(t)
  <2>1. /\ Alone(t) /\ pc[t] \notin Outside
        /\ Settled = close_gap(agg, index[t], size[t])
        /\ agg.size = size[t] /\ agg.size \in AggSlots /\ index[t] \in 0 .. agg.size
        /\ index[t] >= agg.size
    BY <1>1, <1>2, <1>7, MovingUp
  <2>2. Settled = agg
    <3>1. index[t] = agg.size
      BY <2>1 DEF AggSlots, Slots
    <3> QED
      BY <1>1, <2>1, <3>1, GapClosed
  <2>3. Settled' = agg' /\ Closing(t)'
    <3>1. pc'[t] # "close"
      BY <1>3, PopPlaces
    <3> QED
      BY <1>1, <1>3, <2>1, <3>1, TableStaysAtRest
  <2>4. Fresh(t)'
    BY <1>3, PopPlaces DEF Fresh
  <2>5. UNCHANGED ledger
    BY <1>1, <1>6, <2>2, <2>3, IsStutter
  <2>6. Sound
    BY <1>7 DEF Undisturbed
  <2>7. ProperAggTable(Settled') /\ (pc'["service"] \in Out => entry'.steps > 0)
    BY <1>1, <1>4, <1>6, <2>2, <2>3, <2>6 DEF Sound
  <2> QED
    BY <2>1, <2>3, <2>4, <2>5, <2>7 DEF Keeps
<1> QED
  BY <1>3, <1>5, <1>6, <1>7
-----------------------------------------------------------------------------
(* Steps outside the calls, and those of a call that are no push or pop.   *)

\* A thread outside the calls that changes nothing of the table.
LEMMA OutsideKeeps ==
  ASSUME NEW t \in Threads, Undisturbed(t), Elsewhere(t), agg' = agg,
         pc[t] \in Outside, pc'[t] # "close", Fresh(t)',
         pc'["service"] \in Out => entry'.steps > 0,
         Pending' = Pending => Ledger!Kept \/ UNCHANGED ledger
  PROVE  Keeps(t)
<1>1. pc[t] # "close"
  BY DEF Outside
<1>2. Settled' = Settled /\ Closing(t)'
  BY <1>1, SettledStays
<1>3. Pending' = Pending
  BY <1>2 DEF Pending
<1> QED
  BY <1>2, <1>3 DEF Keeps, Undisturbed, Sound

\* A thread at the table that changes none of the rows it counts.
LEMMA TableKeeps ==
  ASSUME NEW t \in Threads, Undisturbed(t), Elsewhere(t),
         pc[t] \notin Outside, pc[t] # "close", pc'[t] # "close", Fresh(t)',
         agg' \in AggTables, agg'.row = agg.row, agg'.size = agg.size,
         pc'["service"] \in Out => entry'.steps > 0,
         Pending' = Pending => Ledger!Kept \/ UNCHANGED ledger
  PROVE  Keeps(t)
<1>1. Settled = agg /\ ProperAggTable(agg) /\ Alone(t)
  BY TableAtRest
<1>2. Settled' = agg' /\ Closing(t)'
  BY <1>1, TableStaysAtRest
<1>3. ProperAggTable(agg') /\ \A n : StepsOf(agg', n) = StepsOf(agg, n)
  BY <1>1, SameRows
<1>4. Pending' = Pending
  BY <1>1, <1>2, <1>3 DEF Pending
<1> QED
  BY <1>2, <1>3, <1>4 DEF Keeps
-----------------------------------------------------------------------------
(* The timer, beside its push.                                             *)

LEMMA TimerStep ==
  ASSUME PlacesOK, DataOK, Busy, ~ Overrun, UpdateSensors \/ ReadSensors
  PROVE  /\ PlacesOK' /\ DataOK' /\ Busy' /\ Elsewhere("timer")
         /\ Undisturbed("timer") => Keeps("timer")
<1>1. PICK place \in {"read", "search"} : Moves("timer", place)
  BY DEF UpdateSensors, ReadSensors
<1>2. PlacesOK' /\ pc'["timer"] = place /\ Elsewhere("timer")
  <2>1. place \in Places["timer"] \ {"shrink", "close"} /\ place \notin Held /\ "timer" \in Threads
    BY ThreadNames DEF Within, Held
  <2> QED
    BY <1>1, <2>1, MovesOK
<1>3. /\ agg' = agg /\ UNCHANGED <<frameVars, eventVars>>
      /\ pc'["service"] = pc["service"] /\ pc'["event"] = pc["event"]
  BY <1>2, ThreadNames DEF UpdateSensors, ReadSensors, Elsewhere
<1>4. DataOK'
  BY <1>3 DEF DataOK, UpdateSensors, ReadSensors, frameVars, eventVars
<1>5. Busy' /\ Sending' = Sending /\ Leaving' = Leaving /\ entry' = entry
  BY <1>3 DEF Busy, Sending, Leaving, frameVars, eventVars
<1>6. ASSUME Undisturbed("timer") PROVE Keeps("timer")
  <2>1. Fresh("timer")' /\ pc'["timer"] # "close" /\ pc["timer"] \in Outside
    BY <1>2 DEF Fresh, UpdateSensors, ReadSensors, Outside
  <2>2. pc'["service"] \in Out => entry'.steps > 0
    BY <1>3, <1>5, <1>6 DEF Undisturbed, Sound
  <2>3. Pending' = Pending => UNCHANGED ledger
    BY <1>5 DEF ledger
  <2> QED
    BY <1>2, <1>3, <1>6, <2>1, <2>2, <2>3, OutsideKeeps, ThreadNames
<1> QED
  BY <1>2, <1>4, <1>5, <1>6
-----------------------------------------------------------------------------
(* The mesh service task, beside its push and its pop.                     *)

\* A step of its that leaves the table alone and has no index.
LEMMA ServiceStep ==
  ASSUME PlacesOK, DataOK, Busy, ~ Overrun,
         \/ ReceiveNothing \/ ReceiveFlush \/ CheckTicks \/ ResetSensors \/ SendEntry
         \/ \E from, module_id \in Others : ReceiveChildSensor(from, module_id)
  PROVE  /\ PlacesOK' /\ DataOK' /\ Busy' /\ Elsewhere("service")
         /\ Undisturbed("service") => Keeps("service")
<1>1. PICK place \in {"check", "search", "drain", "receive"} :
        /\ Moves("service", place)
        /\ place = "search" => frame'.module_id \in Others
  BY DEF ReceiveNothing, ReceiveFlush, CheckTicks, ResetSensors, SendEntry, ReceiveChildSensor
<1>2. PlacesOK' /\ pc'["service"] = place /\ Elsewhere("service")
  <2>1. /\ place \in Places["service"] \ {"shrink", "close"} /\ place \notin Held
        /\ "service" \in Threads
    BY ThreadNames DEF Within, Held
  <2> QED
    BY <1>1, <2>1, MovesOK
<1>3. agg' = agg /\ UNCHANGED eventVars /\ pc'["event"] = pc["event"]
  BY <1>2, ThreadNames DEF ReceiveNothing, ReceiveFlush, CheckTicks, ResetSensors, SendEntry,
     ReceiveChildSensor, Elsewhere
<1>4. DataOK'
  <2>1. NoRow \in Rows /\ 0 \in 0 .. SEND_AFTER_TICKS
    BY DEF NoRow, Rows
  <2>2. \A from, module_id \in Others : [from |-> from, module_id |-> module_id] \in Frames
    BY DEF Frames, Others
  <2> QED
    BY <1>3, <2>1, <2>2 DEF DataOK, ReceiveNothing, ReceiveFlush, CheckTicks, ResetSensors,
       SendEntry, ReceiveChildSensor, sensorVars, frameVars, eventVars
<1>5. Busy'
  BY <1>1, <1>2, <1>3 DEF Busy, Pushing, eventVars, Others
<1>6. ASSUME Undisturbed("service") PROVE Keeps("service")
  <2>1. /\ Fresh("service")' /\ pc'["service"] # "close" /\ pc'["service"] \notin Out
        /\ pc["service"] \in Outside /\ pc["service"] # "close"
    BY <1>2 DEF Fresh, Out, Outside, ReceiveNothing, ReceiveFlush, CheckTicks, ResetSensors,
       SendEntry, ReceiveChildSensor
  <2>2. Sending' = NoRow /\ Leaving' = Leaving
    BY <1>2, <1>3 DEF Sending, Leaving, eventVars
  <2>3. Pending' = Pending => Ledger!Kept \/ UNCHANGED ledger
    <3>1. CASE ~ SendEntry
      <4>1. pc["service"] # "send"
        BY <3>1 DEF ReceiveNothing, ReceiveFlush, CheckTicks, ResetSensors, ReceiveChildSensor
      <4>2. Sending = NoRow
        BY <2>1, <4>1 DEF Sending
      <4> QED
        BY <2>2, <4>2 DEF ledger
    <3>2. CASE SendEntry
      <4>1. Sending = entry /\ entry # NoRow
        BY <1>6, <3>2 DEF SendEntry, Sending, Undisturbed, Sound, Out, NoRow
      <4>2. Pending' = Pending => Ledger!HandOver
        BY <2>2, <4>1 DEF Ledger!HandOver, Ledger!Nothing, NoRow, Pending
      <4> QED
        BY <4>2 DEF Ledger!Kept
    <3> QED
      BY <3>1, <3>2
  <2> QED
    BY <1>2, <1>3, <1>6, <2>1, <2>3, OutsideKeeps, ThreadNames
<1> QED
  BY <1>2, <1>4, <1>5, <1>6

LEMMA AssociateStep ==
  ASSUME PlacesOK, DataOK, Busy, ~ Overrun, Associate
  PROVE  /\ PlacesOK' /\ DataOK' /\ Busy' /\ Elsewhere("service")
         /\ Undisturbed("service") => Keeps("service")
<1> DEFINE i == get_sensor_index_by_id(agg, frame.module_id)
<1>1. /\ pc["service"] = "associate" /\ agg' = agg /\ agg \in AggTables
      /\ UNCHANGED <<sensorVars, entry, flush, eventVars>>
      /\ frame.module_id \in Nodes
  BY DEF Associate, DataOK, Busy
<1>2. i = NOT_FOUND \/ (/\ i \in Live(agg) /\ i \in AggSlots
                        /\ agg.row[i].module_id = frame.module_id)
  BY <1>1, SensorLookup
<1>3. /\ PlacesOK' /\ Elsewhere("service")
      /\ \/ pc'["service"] = "tag" /\ i # NOT_FOUND /\ index'["service"] = i /\ frame' = frame
         \/ pc'["service"] = "check" /\ frame' = NoFrame
  <2>1. CASE i # NOT_FOUND
    <3>1. Finds("service", i, "tag") /\ frame' = frame
      BY <2>1 DEF Associate
    <3>2. /\ "tag" \in Places["service"] \ {"shrink"} /\ "service" \in Threads
          /\ i \in AggSlots /\ i \in 0 .. AGGREGATE_TABLE_SIZE
      BY <1>2, <2>1, ThreadNames, SlotsAreIndexes
    <3> HIDE DEF i
    <3>3. /\ PlacesOK' /\ pc'["service"] = "tag" /\ index'["service"] = i
          /\ Elsewhere("service")
      BY <3>1, <3>2, FindsOK
    <3> QED
      BY <2>1, <3>1, <3>3
  <2>2. CASE i = NOT_FOUND
    <3>1. Returns("service", "check") /\ frame' = NoFrame
      BY <2>2 DEF Associate
    <3>2. "check" \in Places["service"] \ Within /\ "service" \in Threads
      BY ThreadNames DEF Within, Held
    <3> QED
      BY <3>1, <3>2, ReturnsOK
  <2> QED
    BY <2>1, <2>2
<1> HIDE DEF i
<1>4. pc'["event"] = pc["event"]
  BY <1>3, ThreadNames DEF Elsewhere
<1>5. DataOK'
  <2>1. NoFrame \in Frames
    BY DEF NoFrame, Frames
  <2> QED
    BY <1>1, <1>3, <2>1 DEF DataOK, sensorVars, eventVars
<1>6. Busy'
  BY <1>1, <1>3, <1>4 DEF Busy, Pushing, eventVars
<1>7. ASSUME Undisturbed("service") PROVE Keeps("service")
  <2>1. /\ pc["service"] \notin Outside /\ pc["service"] # "close"
        /\ pc'["service"] # "close" /\ pc'["service"] \notin Out
    BY <1>1, <1>3 DEF Outside, Out
  <2>2. Fresh("service")'
    <3>1. CASE pc'["service"] = "tag" /\ i # NOT_FOUND /\ index'["service"] = i /\ frame' = frame
      <4>1. ModuleOf("service")' = frame.module_id
        BY <3>1, ThreadNames DEF ModuleOf
      <4> QED
        BY <1>1, <1>2, <3>1, <4>1 DEF Fresh
    <3>2. CASE pc'["service"] = "check"
      BY <3>2 DEF Fresh
    <3> QED
      BY <1>3, <3>1, <3>2
  <2>3. Sending' = Sending /\ Leaving' = Leaving
    BY <1>1, <1>3, <1>4 DEF Sending, Leaving, eventVars
  <2>4. Pending' = Pending => UNCHANGED ledger
    BY <2>3 DEF ledger
  <2> QED
    BY <1>1, <1>3, <1>7, <2>1, <2>2, <2>4, TableKeeps, ThreadNames
<1> QED
  BY <1>3, <1>5, <1>6, <1>7

LEMMA TagStep ==
  ASSUME PlacesOK, DataOK, Busy, ~ Overrun, Tag
  PROVE  /\ PlacesOK' /\ DataOK' /\ Busy' /\ Elsewhere("service")
         /\ Undisturbed("service") => Keeps("service")
<1>1. /\ pc["service"] = "tag" /\ agg' = set_mac(agg, index["service"], frame.from)
      /\ frame' = NoFrame /\ Returns("service", "check")
      /\ UNCHANGED <<sensorVars, entry, flush, eventVars>>
      /\ index["service"] \in AggSlots /\ agg \in AggTables
      /\ frame.from \in Nodes \cup {None}
  BY ThreadNames DEF Tag, PlacesOK, DataOK, Held, Frames
<1>2. PlacesOK' /\ pc'["service"] = "check" /\ Elsewhere("service")
  <2>1. "check" \in Places["service"] \ Within /\ "service" \in Threads
    BY ThreadNames DEF Within, Held
  <2> QED
    BY <1>1, <2>1, ReturnsOK
<1>3. agg' \in AggTables /\ agg'.row = agg.row /\ agg'.size = agg.size
  BY <1>1, SetMac
<1>4. pc'["event"] = pc["event"]
  BY <1>2, ThreadNames DEF Elsewhere
<1>5. DataOK'
  <2>1. NoFrame \in Frames
    BY DEF NoFrame, Frames
  <2> QED
    BY <1>1, <1>3, <2>1 DEF DataOK, sensorVars, eventVars
<1>6. Busy'
  BY <1>1, <1>2, <1>4 DEF Busy, Pushing, eventVars
<1>7. ASSUME Undisturbed("service") PROVE Keeps("service")
  <2>1. /\ pc["service"] \notin Outside /\ pc["service"] # "close"
        /\ pc'["service"] # "close" /\ pc'["service"] \notin Out
    BY <1>1, <1>2 DEF Outside, Out
  <2>2. Fresh("service")'
    BY <1>2 DEF Fresh
  <2>3. Sending' = Sending /\ Leaving' = Leaving
    BY <1>1, <1>2, <1>4 DEF Sending, Leaving, eventVars
  <2>4. Pending' = Pending => UNCHANGED ledger
    BY <2>3 DEF ledger
  <2> QED
    BY <1>2, <1>3, <1>7, <2>1, <2>2, <2>4, TableKeeps, ThreadNames
<1> QED
  BY <1>2, <1>5, <1>6, <1>7

LEMMA DrainStep ==
  ASSUME PlacesOK, DataOK, Busy, ~ Overrun, Drain
  PROVE  /\ PlacesOK' /\ DataOK' /\ Busy' /\ Elsewhere("service")
         /\ Undisturbed("service") => Keeps("service")
<1>1. /\ pc["service"] = "drain" /\ agg' = agg
      /\ UNCHANGED <<sensorVars, frameVars, eventVars>>
  BY DEF Drain
<1>2. agg.size \in 0 .. AGGREGATE_TABLE_SIZE
  BY SizeInArray DEF DataOK
<1>3. /\ PlacesOK' /\ Elsewhere("service")
      /\ \/ /\ pc'["service"] = "copy" /\ index'["service"] = agg.size - 1
            /\ agg.size - 1 \in Live(agg)
         \/ pc'["service"] = "reset"
  <2>1. CASE agg.size > 0
    <3>1. Finds("service", agg.size - 1, "copy")
      BY <2>1 DEF Drain
    <3>2. /\ "copy" \in Places["service"] \ {"shrink"} /\ "service" \in Threads
          /\ agg.size - 1 \in AggSlots /\ agg.size - 1 \in Live(agg)
          /\ agg.size - 1 \in 0 .. AGGREGATE_TABLE_SIZE
      BY <1>2, <2>1, ThreadNames DEF AggSlots, Live, Slots
    <3> QED
      BY <3>1, <3>2, FindsOK
  <2>2. CASE ~ (agg.size > 0)
    <3>1. Moves("service", "reset")
      BY <2>2 DEF Drain
    <3>2. /\ "reset" \in Places["service"] \ {"shrink", "close"} /\ "reset" \notin Held
          /\ "service" \in Threads
      BY ThreadNames DEF Within, Held
    <3> QED
      BY <3>1, <3>2, MovesOK
  <2> QED
    BY <2>1, <2>2
<1>4. pc'["event"] = pc["event"] /\ pc'["service"] \notin Pushing \cup {"associate", "tag", "send"}
  BY <1>3, ThreadNames DEF Elsewhere, Pushing
<1>5. DataOK' /\ Busy'
  BY <1>1, <1>4 DEF DataOK, Busy, sensorVars, frameVars, eventVars
<1>6. ASSUME Undisturbed("service") PROVE Keeps("service")
  <2>1. /\ pc["service"] \notin Outside /\ pc["service"] # "close"
        /\ pc'["service"] # "close" /\ pc'["service"] \notin Out
    BY <1>1, <1>3 DEF Outside, Out
  <2>2. Fresh("service")'
    BY <1>1, <1>3 DEF Fresh
  <2>3. Sending' = Sending /\ Leaving' = Leaving
    BY <1>1, <1>3, <1>4 DEF Sending, Leaving, eventVars
  <2>4. Pending' = Pending => UNCHANGED ledger
    BY <2>3 DEF ledger
  <2>5. agg' \in AggTables
    BY <1>1 DEF DataOK
  <2> QED
    BY <1>1, <1>3, <1>6, <2>1, <2>2, <2>4, <2>5, TableKeeps, ThreadNames
<1> QED
  BY <1>3, <1>5, <1>6

LEMMA CopyStep ==
  ASSUME PlacesOK, DataOK, Busy, ~ Overrun, Copy
  PROVE  /\ PlacesOK' /\ DataOK' /\ Busy' /\ Elsewhere("service")
         /\ Undisturbed("service") => Keeps("service")
<1>1. /\ pc["service"] = "copy" /\ agg' = agg /\ entry' = agg.row[index["service"]]
      /\ Moves("service", "pop") /\ UNCHANGED <<sensorVars, frame, flush, eventVars>>
      /\ index["service"] \in AggSlots
  BY ThreadNames DEF Copy, PlacesOK, Held
<1>2. /\ PlacesOK' /\ pc'["service"] = "pop" /\ index'["service"] = index["service"]
      /\ Elsewhere("service")
  <2>1. "pop" \in Places["service"] \ {"shrink", "close"} /\ "service" \in Threads
    BY ThreadNames
  <2> QED
    BY <1>1, <2>1, MovesOK
<1>3. entry' \in Rows
  BY <1>1 DEF DataOK, AggTables
<1>4. pc'["event"] = pc["event"] /\ pc'["service"] \notin Pushing \cup {"associate", "tag", "send"}
  BY <1>2, ThreadNames DEF Elsewhere, Pushing
<1>5. DataOK' /\ Busy'
  BY <1>1, <1>3, <1>4 DEF DataOK, Busy, sensorVars, eventVars
<1>6. ASSUME Undisturbed("service") PROVE Keeps("service")
  <2>1. /\ pc["service"] \notin Outside /\ pc["service"] # "close"
        /\ pc'["service"] # "close" /\ pc'["service"] \notin Out
    BY <1>1, <1>2 DEF Outside, Out
  <2>2. Fresh("service")'
    <3>1. index["service"] \in Live(agg)
      BY <1>1, <1>6, ThreadNames DEF Undisturbed, Sound, Fresh
    <3> QED
      BY <1>1, <1>2, <3>1, ThreadNames DEF Fresh
  <2>3. Sending' = Sending /\ Leaving' = Leaving
    BY <1>1, <1>2, <1>4 DEF Sending, Leaving, eventVars
  <2>4. Pending' = Pending => UNCHANGED ledger
    BY <2>3 DEF ledger
  <2>5. agg' \in AggTables
    BY <1>1 DEF DataOK
  <2> QED
    BY <1>1, <1>2, <1>6, <2>1, <2>2, <2>4, <2>5, TableKeeps, ThreadNames
<1> QED
  BY <1>2, <1>5, <1>6
-----------------------------------------------------------------------------
(* The event handler, beside its pop.                                      *)

LEMMA ConnectedStep ==
  ASSUME PlacesOK, DataOK, Busy, ~ Overrun, NEW child \in Others, ChildConnected(child)
  PROVE  /\ PlacesOK' /\ DataOK' /\ Busy' /\ Elsewhere("event")
         /\ Undisturbed("event") => Keeps("event")
<1>1. /\ UNCHANGED <<agg, places, sensorVars, frameVars, departed>>
      /\ linked' = linked \cup {child} /\ known' = known \cup {child}
      /\ pc["event"] = "idle"
  BY DEF ChildConnected
<1>2. PlacesOK' /\ Elsewhere("event") /\ pc' = pc
  BY <1>1 DEF places, PlacesOK, Elsewhere
<1>3. DataOK' /\ Busy'
  BY <1>1, <1>2 DEF DataOK, Busy, sensorVars, frameVars
<1>4. ASSUME Undisturbed("event") PROVE Keeps("event")
  <2>1. /\ Fresh("event")' /\ pc["event"] \in Outside /\ pc'["event"] # "close"
        /\ entry' = entry /\ pc'["service"] = pc["service"]
    BY <1>1, <1>2 DEF Fresh, Outside, frameVars
  <2>2. Sending' = Sending /\ Leaving' = Leaving
    BY <1>1, <1>2 DEF Sending, Leaving, frameVars
  <2>3. Pending' = Pending => UNCHANGED ledger
    BY <2>2 DEF ledger
  <2>4. pc'["service"] \in Out => entry'.steps > 0
    BY <1>4, <2>1 DEF Undisturbed, Sound
  <2> QED
    BY <1>1, <1>2, <1>4, <2>1, <2>3, <2>4, OutsideKeeps, ThreadNames
<1> QED
  BY <1>2, <1>3, <1>4

LEMMA DisconnectedStep ==
  ASSUME PlacesOK, DataOK, Busy, ~ Overrun, NEW child \in Others, ChildDisconnected(child)
  PROVE  /\ PlacesOK' /\ DataOK' /\ Busy' /\ Elsewhere("event")
         /\ Undisturbed("event") => Keeps("event")
<1>1. /\ UNCHANGED <<agg, sensorVars, frameVars, known>>
      /\ linked' = linked \ {child} /\ departed' = child /\ Moves("event", "lookup")
      /\ pc["event"] = "idle" /\ child # None
  BY DEF ChildDisconnected, Others
<1>2. PlacesOK' /\ pc'["event"] = "lookup" /\ Elsewhere("event")
  <2>1. /\ "lookup" \in Places["event"] \ {"shrink", "close"} /\ "lookup" \notin Held
        /\ "event" \in Threads
    BY ThreadNames DEF Within, Held
  <2> QED
    BY <1>1, <2>1, MovesOK
<1>3. pc'["service"] = pc["service"]
  BY <1>2, ThreadNames DEF Elsewhere
<1>4. DataOK' /\ Busy'
  BY <1>1, <1>2, <1>3 DEF DataOK, Busy, sensorVars, frameVars
<1>5. ASSUME Undisturbed("event") PROVE Keeps("event")
  <2>1. /\ Fresh("event")' /\ pc["event"] \in Outside /\ pc'["event"] # "close"
        /\ entry' = entry
    BY <1>1, <1>2 DEF Fresh, Outside, frameVars
  <2>2. Sending' = Sending /\ ~ Leaving /\ (Leaving' = TRUE)
    BY <1>1, <1>2, <1>3, <2>1 DEF Sending, Leaving, Busy
  <2>3. Pending' = Pending => Ledger!Kept
    BY <2>2 DEF Ledger!Kept, Ledger!ChildLeaves, Pending
  <2>4. pc'["service"] \in Out => entry'.steps > 0
    BY <1>3, <1>5, <2>1 DEF Undisturbed, Sound
  <2> QED
    BY <1>1, <1>2, <1>5, <2>1, <2>3, <2>4, OutsideKeeps, ThreadNames
<1> QED
  BY <1>2, <1>4, <1>5

LEMMA LookupStep ==
  ASSUME PlacesOK, DataOK, Busy, ~ Overrun, Lookup
  PROVE  /\ PlacesOK' /\ DataOK' /\ Busy' /\ Elsewhere("event")
         /\ Undisturbed("event") => Keeps("event")
<1> DEFINE i == get_sensor_index_by_mac(agg, departed)
<1>1. /\ pc["event"] = "lookup" /\ UNCHANGED <<agg, popVars>> /\ agg \in AggTables
      /\ frame' = frame /\ entry' = entry
  BY DEF Lookup, DataOK, popVars, frameVars
<1>2. i = NOT_FOUND \/ (i \in Live(agg) /\ i \in AggSlots /\ agg.mac[i] = departed)
  BY <1>1, MacLookup
<1>3. /\ PlacesOK' /\ Elsewhere("event")
      /\ \/ /\ pc'["event"] = "pop" /\ i # NOT_FOUND /\ index'["event"] = i
            /\ departed' = departed
         \/ pc'["event"] = "idle" /\ departed' = None
  <2>1. CASE i # NOT_FOUND
    <3>1. Finds("event", i, "pop") /\ departed' = departed
      BY <2>1 DEF Lookup
    <3>2. /\ "pop" \in Places["event"] \ {"shrink"} /\ "event" \in Threads
          /\ i \in AggSlots /\ i \in 0 .. AGGREGATE_TABLE_SIZE
      BY <1>2, <2>1, ThreadNames, SlotsAreIndexes
    <3> HIDE DEF i
    <3>3. PlacesOK' /\ pc'["event"] = "pop" /\ index'["event"] = i /\ Elsewhere("event")
      BY <3>1, <3>2, FindsOK
    <3> QED
      BY <2>1, <3>1, <3>3
  <2>2. CASE i = NOT_FOUND
    <3>1. Returns("event", "idle") /\ departed' = None
      BY <2>2, ThreadNames DEF Lookup, Popped, AfterPop
    <3>2. "idle" \in Places["event"] \ Within /\ "event" \in Threads
      BY ThreadNames DEF Within, Held
    <3> QED
      BY <3>1, <3>2, ReturnsOK
  <2> QED
    BY <2>1, <2>2
<1> HIDE DEF i
<1>4. pc'["service"] = pc["service"]
  BY <1>3, ThreadNames DEF Elsewhere
<1>5. DataOK' /\ Busy'
  BY <1>1, <1>3, <1>4 DEF DataOK, Busy, popVars, sensorVars, frameVars
<1>6. ASSUME Undisturbed("event") PROVE Keeps("event")
  <2>1. /\ pc["event"] \notin Outside /\ pc["event"] # "close" /\ pc'["event"] # "close"
        /\ agg' \in AggTables
    BY <1>1, <1>3 DEF Outside
  <2>2. Fresh("event")'
    BY <1>1, <1>2, <1>3, ThreadNames DEF Fresh
  <2>3. Sending' = Sending
    BY <1>1, <1>4 DEF Sending
  <2>4. Pending' = Pending => Ledger!Kept \/ UNCHANGED ledger
    <3>1. CASE departed' = departed /\ pc'["event"] = "pop"
      <4>1. Leaving' = Leaving
        BY <1>1, <3>1 DEF Leaving
      <4> QED
        BY <2>3, <4>1 DEF ledger
    <3>2. CASE departed' = None
      <4>1. Leaving /\ (Leaving' = FALSE)
        BY <1>1, <3>2 DEF Leaving, Busy
      <4>2. Pending' = Pending => Ledger!GiveUp
        BY <2>3, <4>1 DEF Ledger!GiveUp, Pending
      <4> QED
        BY <4>2 DEF Ledger!Kept
    <3> QED
      BY <1>3, <3>1, <3>2
  <2>5. pc'["service"] \in Out => entry'.steps > 0
    BY <1>1, <1>4, <1>6 DEF Undisturbed, Sound
  <2> QED
    BY <1>1, <1>3, <1>6, <2>1, <2>2, <2>4, <2>5, TableKeeps, ThreadNames
<1> QED
  BY <1>3, <1>5, <1>6
-----------------------------------------------------------------------------
(* Every step.                                                             *)

LEMMA ThreadStep ==
  ASSUME PlacesOK, DataOK, Busy, ~ Overrun, NEW t \in Threads,
         \/ t = "timer" /\ Timer
         \/ t = "service" /\ Service
         \/ t = "event" /\ Events
  PROVE  PlacesOK' /\ DataOK' /\ Busy' /\ Elsewhere(t) /\ (Undisturbed(t) => Keeps(t))
<1> DEFINE Goal(u) == /\ PlacesOK' /\ DataOK' /\ Busy'
                      /\ Elsewhere(u) /\ (Undisturbed(u) => Keeps(u))
<1>1. ASSUME NEW u \in {"timer", "service"}, Push(u) PROVE Goal(u)
  BY <1>1, SearchStep, AddStep, WriteStep, CountStep DEF Push
<1>2. ASSUME NEW u \in {"service", "event"}, PopIndex(u) PROVE Goal(u)
  BY <1>2, PopStep, ShrinkStep, MoveUpStep, ClosedStep DEF PopIndex
<1>3. CASE t = "timer" /\ Timer
  BY <1>1, <1>3, TimerStep DEF Timer
<1>4. CASE t = "service" /\ Service
  <2>1. CASE \/ ReceiveNothing \/ ReceiveFlush \/ CheckTicks \/ ResetSensors \/ SendEntry
             \/ \E from, module_id \in Others : ReceiveChildSensor(from, module_id)
    BY <1>4, <2>1, ServiceStep
  <2>2. CASE Associate \/ Tag \/ Drain \/ Copy
    BY <1>4, <2>2, AssociateStep, TagStep, DrainStep, CopyStep
  <2>3. CASE Push("service") \/ PopIndex("service")
    BY <1>1, <1>2, <1>4, <2>3
  <2> QED
    BY <1>4, <2>1, <2>2, <2>3 DEF Service
<1>5. CASE t = "event" /\ Events
  <2>1. CASE Lookup \/ \E child \in Others : ChildConnected(child) \/ ChildDisconnected(child)
    BY <1>5, <2>1, LookupStep, ConnectedStep, DisconnectedStep
  <2>2. CASE PopIndex("event")
    BY <1>2, <1>5, <2>2
  <2> QED
    BY <1>5, <2>1, <2>2 DEF Events, DropDeparted
<1> QED
  BY <1>3, <1>4, <1>5

\* What the others rely on stays, or they are overtaken.
LEMMA NextStep ==
  ASSUME Types, Next
  PROVE  /\ Types' /\ (overtaken => overtaken')
         /\ ~ overtaken' /\ Sound => Sound' /\ (Ledger!Kept \/ UNCHANGED ledger)
<1>1. PICK t \in Threads : /\ ~ Overrun /\ overtaken' = (overtaken \/ Overtakes(t))
                           /\ \/ t = "timer" /\ Timer
                              \/ t = "service" /\ Service
                              \/ t = "event" /\ Events
  BY ThreadNames DEF Next, Step
<1>2. overtaken' \in BOOLEAN /\ (overtaken => overtaken')
  BY <1>1
<1>3. PlacesOK' /\ DataOK' /\ Busy' /\ Elsewhere(t) /\ (Undisturbed(t) => Keeps(t))
  BY <1>1, ThreadStep DEF Types
<1>4. ASSUME ~ overtaken', Sound
      PROVE  Sound' /\ (Ledger!Kept \/ UNCHANGED ledger)
  <2>1. ~ Overtakes(t)
    BY <1>1, <1>4
  <2>2. Undisturbed(t)
    BY <1>4, <2>1 DEF Overtakes, Undisturbed, Alone
  <2>3. Keeps(t)
    BY <1>3, <2>2
  <2>4. ASSUME NEW u \in Threads PROVE Fresh(u)' /\ Closing(u)'
    <3>1. CASE u = t
      BY <2>3, <3>1 DEF Keeps
    <3>2. CASE u # t
      <4>1. Fresh(u)'
        BY <1>4, <2>1, <3>2 DEF Overtakes, Sound
      <4>2. Closing(u)'
        <5>1. pc'[u] = pc[u] /\ index'[u] = index[u] /\ size'[u] = size[u]
          BY <1>3, <3>2 DEF Elsewhere
        <5>2. pc[u] = "close" => agg' = agg /\ pc'[t] # "close"
          BY <2>1, <2>3, <3>2 DEF Overtakes, Keeps
        <5>3. pc[u] = "close" => \A v \in Threads \ {u} : pc'[v] # "close"
          BY <1>3, <1>4, <5>2 DEF Sound, Closing, Elsewhere
        <5>4. Closing(u)
          BY <1>4 DEF Sound
        <5> QED
          BY <5>1, <5>2, <5>3, <5>4 DEF Closing
      <4> QED
        BY <4>1, <4>2
    <3> QED
      BY <3>1, <3>2
  <2> QED
    BY <2>3, <2>4 DEF Sound, Keeps
<1> QED
  BY <1>2, <1>3, <1>4 DEF Types

IInv == Types /\ (~ overtaken => Sound)

LEMMA InitIInv == Init => IInv
<1> SUFFICES ASSUME Init PROVE IInv
  OBVIOUS
<1>1. PlacesOK
  BY ThreadNames DEF Init, PlacesOK, Held, Threads, NOT_FOUND
<1>2. agg \in AggTables /\ agg.size = 0
  <2>1. NoRow \in Rows
    BY DEF NoRow, Rows
  <2>2. 0 \in 0 .. AGGREGATE_TABLE_SIZE + 1
    OBVIOUS
  <2> QED
    BY <2>1, <2>2 DEF Init, NoEntries, AggTables
<1>3. DataOK
  <2>1. NoRow \in Rows /\ NoFrame \in Frames
    BY DEF NoRow, Rows, NoFrame, Frames
  <2>2. 0 \in 0 .. SEND_AFTER_TICKS
    OBVIOUS
  <2> QED
    BY <1>2, <2>1, <2>2 DEF Init, DataOK
<1>4. Busy
  BY DEF Init, Busy, Pushing
<1>5. ProperAggTable(agg)
  BY <1>2 DEF ProperAggTable, Slots
<1>6. Settled = agg
  BY DEF Init, Settled
<1>7. Sound
  BY <1>5, <1>6 DEF Init, Sound, Fresh, Closing, Out, Threads
<1> QED
  BY <1>1, <1>3, <1>4, <1>7 DEF IInv, Types, Init

LEMMA NextIInv == IInv /\ [Next]_vars => IInv'
<1> SUFFICES ASSUME IInv, [Next]_vars PROVE IInv'
  OBVIOUS
<1>1. CASE Next
  <2>1. /\ Types' /\ (overtaken => overtaken')
        /\ ~ overtaken' /\ Sound => Sound'
    BY <1>1, NextStep DEF IInv
  <2> QED
    BY <2>1 DEF IInv
<1>2. CASE UNCHANGED vars
  <2>1. /\ UNCHANGED <<pc, index, size, agg, ticks, sensors_state, sensors, frame, entry,
                       flush, linked, known, departed, overtaken>>
    BY <1>2 DEF vars, places, sensorVars, frameVars, eventVars
  <2>2. Types'
    BY <2>1 DEF IInv, Types, PlacesOK, DataOK, Busy
  <2>3. Sound' <=> Sound
    BY <2>1 DEF Sound, Fresh, Closing, Settled, ModuleOf
  <2> QED
    BY <2>1, <2>2, <2>3 DEF IInv
<1> QED
  BY <1>1, <1>2

LEMMA Invariance == Spec => []IInv
BY InitIInv, NextIInv, PTL DEF Spec
-----------------------------------------------------------------------------
(* The theorems.                                                           *)

\* The variables keep their types, and every index and size that a thread
\* keeps is one of the array, in whatever way the calls on the table overlap
\* (ms_aggregate.c:19-134).
THEOREM TypeCorrectness == Spec => []TypeOK
<1>1. IInv => TypeOK
  BY TypesTypeOK DEF IInv
<1> QED
  BY Invariance, <1>1, PTL

\* Calls on the table may overlap as they like: as long as no step of one
\* thread has spoilt what another has read (ms_aggregate.c:19-134), the table
\* has one entry for a module, none without a reading, and none too many.
THEOREM CallsKeepTheTable == Spec => []SoundUntilOvertaken
<1>1. IInv => SoundUntilOvertaken
  <2> SUFFICES ASSUME IInv, ~ overtaken
               PROVE  DistinctEntries /\ MeansAreDefined /\ TableHolds
    BY DEF SoundUntilOvertaken
  <2>1. Sound
    BY DEF IInv
  <2>2. AtRest => ProperAggTable(agg) /\ Live(agg) = Slots(agg.size)
    <3>1. AtRest => Settled = agg
      BY ThreadNames DEF AtRest, Settled
    <3> QED
      BY <2>1, <3>1, LiveSlots DEF Sound, ProperAggTable
  <2>3. DistinctEntries /\ MeansAreDefined
    BY <2>1, <2>2 DEF DistinctEntries, MeansAreDefined, ProperAggTable, Sound, Out
  <2>4. TableHolds
    <3>1. agg.size \in Int /\ ~ (agg.size > AGGREGATE_TABLE_SIZE)
      <4>1. CASE AtRest
        BY <2>2, <4>1 DEF ProperAggTable, AggTables
      <4>2. CASE ~ AtRest
        <5>1. agg.size \in AggSlots
          BY <2>1, <4>2 DEF AtRest, Sound, Closing
        <5> QED
          BY <5>1 DEF AggSlots, Slots
      <4> QED
        BY <4>1, <4>2
    <3>2. ASSUME NEW t \in Threads, pc[t] = "count" PROVE ~ (size[t] >= AGGREGATE_TABLE_SIZE)
      <4>1. size[t] \in AggSlots
        BY <2>1, <3>2 DEF Sound, Fresh
      <4> QED
        BY <4>1 DEF AggSlots, Slots
    <3>3. ASSUME NEW t \in Threads, pc[t] = "close" PROVE index[t] # AGGREGATE_TABLE_SIZE
      <4>1. agg.size \in AggSlots /\ index[t] \in 0 .. agg.size
        BY <2>1, <3>3 DEF Sound, Closing
      <4> QED
        BY <4>1 DEF AggSlots, Slots
    <3> QED
      BY <3>1, <3>2, <3>3 DEF TableHolds, Overrun
  <2> QED
    BY <2>3, <2>4
<1> QED
  BY Invariance, <1>1, PTL

\* The ledger's variables, as the refinement maps them.
ledgerVars == <<Pending, Sending, Leaving, overtaken>>

LEMMA InitLedger == Init => Ledger!Init
<1> SUFFICES ASSUME Init PROVE Ledger!Init
  OBVIOUS
<1>1. ProperAggTable(agg) /\ agg.size = 0 /\ Settled = agg
  BY InitIInv DEF IInv, Sound, Settled, Init, NoEntries
<1>2. Live(agg) = {}
  BY <1>1 DEF Live, Slots
<1>3. \A n \in Nodes : StepsOf(Settled, n) = 0
  BY <1>1, <1>2, StepsOfEntry DEF HasEntry
<1> QED
  BY <1>3 DEF Init, Ledger!Init, Ledger!Nothing, Sending, Leaving, NoRow

LEMMA NextLedger == IInv /\ [Next]_vars => [Ledger!Next]_ledgerVars
<1> SUFFICES ASSUME IInv, [Next]_vars PROVE Ledger!Next \/ UNCHANGED ledgerVars
  OBVIOUS
<1>1. CASE Next
  <2>1. /\ Types' /\ (overtaken => overtaken')
        /\ ~ overtaken' /\ Sound => Ledger!Kept \/ UNCHANGED ledger
    BY <1>1, NextStep DEF IInv
  <2>2. CASE overtaken'
    BY <2>2 DEF Ledger!Next
  <2>3. CASE ~ overtaken'
    <3>1. ~ overtaken /\ Sound /\ (overtaken' = overtaken)
      BY <2>1, <2>3 DEF IInv, Types
    <3>2. Ledger!Kept \/ UNCHANGED ledger
      BY <2>1, <2>3, <3>1
    <3> QED
      BY <2>3, <3>1, <3>2 DEF Ledger!Next, ledgerVars, ledger
  <2> QED
    BY <2>2, <2>3
<1>2. CASE UNCHANGED vars
  <2>1. UNCHANGED <<agg, pc, index, size, entry, departed, overtaken>>
    BY <1>2 DEF vars, places, frameVars, eventVars
  <2>2. Settled' = Settled
    BY <2>1 DEF Settled
  <2> QED
    BY <2>1, <2>2 DEF ledgerVars, Pending, Sending, Leaving
<1> QED
  BY <1>1, <1>2

\* The aggregation of a board, for any number of boards and any table size,
\* counts no reading twice, mixes none up, and gives readings up only when a
\* child leaves, through any overlaps of its calls that leave alone what a
\* call has read (ms_aggregate.c:19-134).
THEOREM BoardImplementsLedger == Spec => ImplementsLedger
<1>1. ImplementsLedger <=> Ledger!Init /\ [][Ledger!Next]_ledgerVars
  BY DEF ImplementsLedger, Ledger!Spec, ledgerVars, Pending
<1> QED
  BY <1>1, InitLedger, NextLedger, Invariance, PTL DEF Spec
=============================================================================
