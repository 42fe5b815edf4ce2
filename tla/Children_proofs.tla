--------------------------- MODULE Children_proofs ---------------------------
(***************************************************************************)
(* The safety of Children for any number of boards and child slots: the    *)
(* table follows the stations, and only an ADV noted in a slot that has    *)
(* been moved away gives a child the id of another.                        *)
(***************************************************************************)
EXTENDS Children, Arrays_proofs, FiniteSetTheorems

DistinctMacs(table) ==
  \A i, j \in Slots(table.size) : table.mac[i] = table.mac[j] => i = j

ProperChildTable(table) == table \in ChildTables /\ DistinctMacs(table)

\* The table without the slot "at", as the loop of pop_child leaves it.
Closed(table, at) ==
  LET size == table.size - 1
  IN  [mac  |-> ShiftLeft(table.mac, at, size),
       id   |-> ShiftLeft(table.id, at, size),
       size |-> size]

USE NoneAssumption, ChildTableAssumption, ChildrenAssumption
-----------------------------------------------------------------------------
(* The operations on the table.                                            *)

\* The lookup by MAC finds the slot of a child, and only that.
LEMMA ChildLookup ==
  ASSUME NEW table \in ChildTables, NEW addr
  PROVE  LET slot == get_child_index_by_mac(table, addr)
         IN  /\ addr \notin Macs(table) => slot = NOT_FOUND
             /\ addr \in Macs(table) => /\ slot \in Slots(table.size)
                                        /\ slot # NOT_FOUND
                                        /\ table.mac[slot] = addr
<1> DEFINE hits == {i \in Slots(table.size) : table.mac[i] = addr}
<1>1. table.size \in Nat
  BY ChildTableAssumption DEF ChildTables
<1>2. /\ hits = {} => FirstOf(hits) = NOT_FOUND
      /\ hits # {} => FirstOf(hits) \in hits /\ FirstOf(hits) # NOT_FOUND
  BY <1>1, FirstOfHits
<1> QED
  BY <1>2 DEF get_child_index_by_mac, Macs

\* push_child adds the MAC once, provided there is room.
LEMMA PushChild ==
  ASSUME NEW table, ProperChildTable(table), NEW addr \in Nodes,
         addr \in Macs(table) \/ table.size < CHILDREN_TABLE_SIZE
  PROVE  /\ ProperChildTable(push_child(table, addr))
         /\ Macs(push_child(table, addr)) = Macs(table) \cup {addr}
<1> DEFINE new == push_child(table, addr)
<1> USE ChildTableAssumption
<1>1. CASE addr \in Macs(table)
  <2>1. new = table
    BY <1>1, ChildLookup DEF push_child, ProperChildTable
  <2> QED
    BY <1>1, <2>1
<1>2. CASE addr \notin Macs(table)
  <2>1. /\ table.size < CHILDREN_TABLE_SIZE
        /\ new = [table EXCEPT !.mac[table.size] = addr, !.size = @ + 1]
    BY <1>2, ChildLookup DEF push_child, ProperChildTable
  <2>2. table.size \in ChildSlots
    BY <2>1 DEF ProperChildTable, ChildTables, ChildSlots, Slots
  <2>3. new = [mac  |-> [table.mac EXCEPT ![table.size] = addr],
               id   |-> table.id,
               size |-> table.size + 1]
    BY <2>1 DEF ProperChildTable, ChildTables
  <2>4. new \in ChildTables
    <3>1. /\ table.mac \in [ChildSlots -> Nodes \cup {None}]
          /\ table.id \in [ChildSlots -> Nodes \cup {None}]
          /\ table.size + 1 \in 0 .. CHILDREN_TABLE_SIZE
      BY <2>1 DEF ProperChildTable, ChildTables
    <3>2. [table.mac EXCEPT ![table.size] = addr] \in [ChildSlots -> Nodes \cup {None}]
      BY <3>1
    <3> QED
      BY <2>3, <3>1, <3>2 DEF ChildTables
  <2>5. /\ new.mac[table.size] = addr
        /\ \A i \in Slots(table.size) : new.mac[i] = table.mac[i]
        /\ Slots(new.size) = Slots(table.size) \cup {table.size}
    BY <2>2, <2>3 DEF ProperChildTable, ChildTables, ChildSlots, Slots
  <2>6. Macs(new) = Macs(table) \cup {addr}
    BY <2>5 DEF Macs
  <2>7. DistinctMacs(new)
    BY <1>2, <2>5 DEF DistinctMacs, ProperChildTable, Macs
  <2> QED
    BY <2>4, <2>6, <2>7 DEF ProperChildTable
<1> QED
  BY <1>1, <1>2

\* A child is found in its slot.
LEMMA ChildFound ==
  ASSUME NEW table, ProperChildTable(table), NEW i \in Slots(table.size)
  PROVE  get_child_index_by_mac(table, table.mac[i]) = i
<1>1. table.mac[i] \in Macs(table)
  BY DEF Macs
<1> QED
  BY <1>1, ChildLookup DEF ProperChildTable, DistinctMacs

\* An arrival leaves the ids of the children alone.
LEMMA PushChildIds ==
  ASSUME NEW table, ProperChildTable(table), NEW addr \in Nodes,
         addr \in Macs(table) \/ table.size < CHILDREN_TABLE_SIZE,
         NEW child \in Macs(table)
  PROVE  IdOf(push_child(table, addr), child) = IdOf(table, child)
<1> DEFINE new == push_child(table, addr)
<1> USE ChildTableAssumption
<1>0. table \in ChildTables /\ ProperChildTable(new)
  BY PushChild DEF ProperChildTable
<1>1. CASE new = table
  BY <1>1
<1>2. CASE new = [table EXCEPT !.mac[table.size] = addr, !.size = @ + 1]
  <2>1. PICK i \in Slots(table.size) : table.mac[i] = child
    BY DEF Macs
  <2>2. table.size \in Nat /\ i # table.size
    BY <1>0, <2>1 DEF ChildTables, Slots
  <2>3. new.size = table.size + 1 /\ new.id = table.id
    BY <1>0, <1>2 DEF ChildTables
  <2>4. new.mac = [table.mac EXCEPT ![table.size] = addr]
    BY <1>0, <1>2 DEF ChildTables
  <2>5. new.mac[i] = table.mac[i]
    BY <2>2, <2>4, <1>0, <2>1 DEF ChildTables, ChildSlots, Slots
  <2>6. i \in Slots(new.size)
    BY <2>1, <2>2, <2>3 DEF Slots
  <2> HIDE DEF new
  <2>7. get_child_index_by_mac(new, child) = i
    BY <1>0, <2>1, <2>5, <2>6, ChildFound
  <2>8. get_child_index_by_mac(table, child) = i
    BY <2>1, ChildFound
  <2> QED
    BY <2>3, <2>7, <2>8 DEF new, IdOf
<1> QED
  BY <1>1, <1>2 DEF push_child

\* The children table has as many slots in use as it holds MACs.
LEMMA MacsCardinality ==
  ASSUME NEW table, ProperChildTable(table)
  PROVE  IsFiniteSet(Macs(table)) /\ Cardinality(Macs(table)) = table.size
<1>1. table.size \in Nat
  BY DEF ProperChildTable, ChildTables
<1>2. IsFiniteSet(0 .. table.size - 1) /\ Cardinality(0 .. table.size - 1) = table.size
  <2> DEFINE last == table.size - 1
  <2>1. last \in Int /\ (0 > last <=> table.size = 0)
    BY <1>1
  <2>2. /\ IsFiniteSet(0 .. last)
        /\ Cardinality(0 .. last) = IF 0 > last THEN 0 ELSE last - 0 + 1
    <3> HIDE DEF last
    <3> QED
      BY <2>1, FS_Interval
  <2>3. (IF 0 > last THEN 0 ELSE last - 0 + 1) = table.size
    BY <1>1, <2>1
  <2> QED
    BY <2>2, <2>3
<1> DEFINE mac == [i \in Slots(table.size) |-> table.mac[i]]
<1>3. mac \in Bijection(Slots(table.size), Macs(table))
  <2>1. mac \in [Slots(table.size) -> Macs(table)]
    BY DEF Macs
  <2>2. \A i, j \in Slots(table.size) : mac[i] = mac[j] => i = j
    BY DEF ProperChildTable, DistinctMacs
  <2>3. \A m \in Macs(table) : \E i \in Slots(table.size) : mac[i] = m
    BY DEF Macs
  <2> QED
    <3> HIDE DEF mac
    <3> QED
      BY <2>1, <2>2, <2>3 DEF Bijection, Injection, IsInjective, Surjection
<1>4. ExistsBijection(Slots(table.size), Macs(table))
  BY <1>3 DEF ExistsBijection
<1> QED
  BY <1>2, <1>4, FS_Bijection DEF Slots

\* The table without a child's slot: the MACs are those of the others.
LEMMA PopChild ==
  ASSUME NEW table, ProperChildTable(table), NEW pop \in Slots(table.size)
  PROVE  /\ ProperChildTable(Closed(table, pop))
         /\ Macs(Closed(table, pop)) = Macs(table) \ {table.mac[pop]}
<1> DEFINE new   == Closed(table, pop)
           size  == table.size - 1
<1>0. table \in ChildTables
  BY DEF ProperChildTable
<1>2. /\ size \in Nat
      /\ size < CHILDREN_TABLE_SIZE
      /\ pop \in Slots(size + 1)
      /\ pop \in Nat /\ table.size = size + 1
  BY <1>0 DEF ChildTables, Slots
<1>4. /\ table.mac \in [Slots(CHILDREN_TABLE_SIZE) -> Nodes \cup {None}]
      /\ table.id \in [Slots(CHILDREN_TABLE_SIZE) -> Nodes \cup {None}]
  BY <1>0 DEF ChildTables, ChildSlots
<1>5. /\ new.mac = ShiftLeft(table.mac, pop, size)
      /\ new.id = ShiftLeft(table.id, pop, size)
      /\ new.size = size
  BY DEF Closed
<1>6. /\ new.mac \in [Slots(CHILDREN_TABLE_SIZE) -> Nodes \cup {None}]
      /\ new.id \in [Slots(CHILDREN_TABLE_SIZE) -> Nodes \cup {None}]
  <2> HIDE DEF new, size
  <2>1. CHILDREN_TABLE_SIZE \in Nat
    OBVIOUS
  <2>2. ShiftLeft(table.mac, pop, size) \in [Slots(CHILDREN_TABLE_SIZE) -> Nodes \cup {None}]
    BY <1>2, <1>4, <2>1, ShiftLeftType, Zenon
  <2>3. ShiftLeft(table.id, pop, size) \in [Slots(CHILDREN_TABLE_SIZE) -> Nodes \cup {None}]
    BY <1>2, <1>4, <2>1, ShiftLeftType, Zenon
  <2> QED
    BY <1>5, <2>2, <2>3
<1>7. \A i \in Slots(size) :
         new.mac[i] = IF pop <= i THEN table.mac[i + 1] ELSE table.mac[i]
  <2> HIDE DEF new, size
  <2> QED
    BY <1>2, <1>4, <1>5, ShiftLeftSlots
<1>8. new \in ChildTables
  BY <1>2, <1>6 DEF ChildTables, ChildSlots, Closed
<1>10. DistinctMacs(new)
  <2> SUFFICES ASSUME NEW i \in Slots(size), NEW j \in Slots(size),
                      new.mac[i] = new.mac[j]
               PROVE  i = j
    BY <1>5 DEF DistinctMacs
  <2> DEFINE old(k) == IF pop <= k THEN k + 1 ELSE k
  <2>1. \A k \in Slots(size) : /\ old(k) \in Slots(table.size)
                               /\ new.mac[k] = table.mac[old(k)]
    BY <1>2, <1>7 DEF Slots
  <2>2. old(i) = old(j)
    BY <2>1 DEF ProperChildTable, DistinctMacs
  <2> QED
    BY <1>2, <2>2 DEF Slots
<1>11. Macs(new) \subseteq Macs(table) \ {table.mac[pop]}
  <2> SUFFICES ASSUME NEW i \in Slots(size)
               PROVE  new.mac[i] \in Macs(table) \ {table.mac[pop]}
    BY <1>5 DEF Macs
  <2> DEFINE old == IF pop <= i THEN i + 1 ELSE i
  <2>1. /\ old \in Slots(table.size)
        /\ old # pop
        /\ new.mac[i] = table.mac[old]
    BY <1>2, <1>7 DEF Slots
  <2> QED
    BY <2>1 DEF ProperChildTable, DistinctMacs, Macs
<1>12. Macs(table) \ {table.mac[pop]} \subseteq Macs(new)
  <2> SUFFICES ASSUME NEW i \in Slots(table.size), i # pop
               PROVE  \E k \in Slots(size) : new.mac[k] = table.mac[i]
    BY <1>5 DEF Macs
  <2>1. CASE i < pop
    BY <1>2, <1>7, <2>1 DEF Slots
  <2>2. CASE i > pop
    <3>1. i - 1 \in Slots(size) /\ pop <= i - 1 /\ (i - 1) + 1 = i
      BY <1>2, <2>2 DEF Slots
    <3> QED
      BY <1>7, <3>1
  <2> QED
    BY <1>2, <2>1, <2>2 DEF Slots
<1> QED
  BY <1>8, <1>10, <1>11, <1>12 DEF ProperChildTable

\* The other children keep their ids.
LEMMA PopChildIds ==
  ASSUME NEW table, ProperChildTable(table), NEW pop \in Slots(table.size),
         NEW child \in Macs(table), child # table.mac[pop]
  PROVE  IdOf(Closed(table, pop), child) = IdOf(table, child)
<1> DEFINE new   == Closed(table, pop)
           size  == table.size - 1
<1>0. table \in ChildTables /\ ProperChildTable(new)
  BY PopChild DEF ProperChildTable
<1>2. /\ size \in Nat /\ size < CHILDREN_TABLE_SIZE /\ table.size = size + 1
      /\ pop \in Slots(size + 1)
  BY <1>0 DEF ChildTables, Slots
<1>4. /\ DOMAIN table.mac = Slots(CHILDREN_TABLE_SIZE)
      /\ DOMAIN table.id = Slots(CHILDREN_TABLE_SIZE)
  BY <1>0 DEF ChildTables, ChildSlots
<1>5. /\ new.mac = ShiftLeft(table.mac, pop, size)
      /\ new.id = ShiftLeft(table.id, pop, size)
      /\ new.size = size
  BY DEF Closed
<1> HIDE DEF new, size
<1>6. \A i \in Slots(size) :
         /\ new.mac[i] = IF pop <= i THEN table.mac[i + 1] ELSE table.mac[i]
         /\ new.id[i] = IF pop <= i THEN table.id[i + 1] ELSE table.id[i]
  BY <1>2, <1>4, <1>5, ShiftLeftSlots
<1>7. PICK old \in Slots(table.size) : table.mac[old] = child
  BY DEF Macs
<1>8. old # pop
  BY <1>7
<1>9. PICK i \in Slots(size) : new.mac[i] = table.mac[old] /\ new.id[i] = table.id[old]
  <2>1. CASE old < pop
    <3>1. old \in Slots(size) /\ ~ (pop <= old)
      BY <1>2, <2>1 DEF Slots
    <3> QED
      BY <1>6, <3>1
  <2>2. CASE old > pop
    <3>1. old - 1 \in Slots(size) /\ pop <= old - 1 /\ (old - 1) + 1 = old
      BY <1>2, <2>2 DEF Slots
    <3> QED
      BY <1>6, <3>1
  <2> QED
    BY <1>2, <1>8, <2>1, <2>2 DEF Slots
<1>10. get_child_index_by_mac(new, child) = i
  BY <1>0, <1>5, <1>7, <1>9, ChildFound
<1>11. get_child_index_by_mac(table, child) = old
  BY <1>7, ChildFound
<1> QED
  BY <1>9, <1>10, <1>11 DEF new, IdOf

\* A slot that has moved is as good as one that is going to.
LEMMA ShiftStep ==
  ASSUME NEW capacity \in Nat, NEW array, DOMAIN array = Slots(capacity),
         NEW size \in Nat, size < capacity, NEW at \in Slots(size)
  PROVE  ShiftLeft([array EXCEPT ![at] = array[at + 1]], at + 1, size)
           = ShiftLeft(array, at, size)
<1> DEFINE moved == [array EXCEPT ![at] = array[at + 1]]
<1>1. /\ DOMAIN moved = Slots(capacity)
      /\ at \in Slots(capacity) /\ at \in Nat /\ at < size
      /\ \A i \in Slots(capacity) : i \in Int /\ (i < size => i + 1 \in Slots(capacity))
  BY DEF Slots
<1>2. moved[at] = array[at + 1] /\ \A i \in Slots(capacity) : i # at => moved[i] = array[i]
  BY <1>1
<1> HIDE DEF moved
<1>3. \A i \in Slots(capacity) :
        (IF at + 1 <= i /\ i < size THEN moved[i + 1] ELSE moved[i])
          = (IF at <= i /\ i < size THEN array[i + 1] ELSE array[i])
  <2> TAKE i \in Slots(capacity)
  <2>1. CASE i = at
    BY <1>1, <1>2, <2>1
  <2>2. CASE i # at /\ i < size
    <3>1. i + 1 \in Slots(capacity) /\ (at + 1 <= i <=> at <= i)
      BY <1>1, <2>2
    <3>2. at <= i => i + 1 # at
      BY <1>1
    <3> QED
      BY <1>2, <2>2, <3>1, <3>2
  <2>3. CASE i # at /\ ~ (i < size)
    BY <1>2, <2>3
  <2> QED
    BY <2>1, <2>2, <2>3
<1>4. ShiftLeft(moved, at + 1, size) =
        [i \in Slots(capacity) |->
           IF at + 1 <= i /\ i < size THEN moved[i + 1] ELSE moved[i]]
  BY <1>1 DEF ShiftLeft
<1>5. ShiftLeft(array, at, size) =
        [i \in Slots(capacity) |->
           IF at <= i /\ i < size THEN array[i + 1] ELSE array[i]]
  BY DEF ShiftLeft
<1> QED
  BY <1>3, <1>4, <1>5 DEF moved

\* Behind the last slot there is nothing to move.
LEMMA ShiftDone ==
  ASSUME NEW capacity \in Nat, NEW T, NEW array \in [Slots(capacity) -> T],
         NEW size \in Nat, NEW at \in Nat, at >= size
  PROVE  ShiftLeft(array, at, size) = array
<1>1. \A i \in Slots(capacity) : ~ (at <= i /\ i < size)
  BY DEF Slots
<1>2. ShiftLeft(array, at, size) = [i \in Slots(capacity) |-> array[i]]
  BY <1>1 DEF ShiftLeft
<1> QED
  BY <1>2
-----------------------------------------------------------------------------
(* The inductive invariant.                                                *)

\* The table follows the stations, but for the event that waits.
Follows ==
  /\ posted.type = "none" => Macs(Settled) = stations
  /\ posted.type = "CONNECTED" => stations = Macs(Settled) \cup {posted.child}
  /\ posted.type = "DISCONNECTED" => /\ posted.child \in Macs(Settled)
                                     /\ stations = Macs(Settled) \ {posted.child}

\* While slots move there is one behind the last, and between the two arrays
\* a MAC stands twice.
Moving ==
  /\ event # "idle" => pos < children.size /\ children.size < CHILDREN_TABLE_SIZE
  /\ event \in {"id", "store"} => children.mac[pos] = children.mac[pos + 1]

\* An ADV that is going to be noted is that of a board that has been a child.
Noting ==
  /\ service \in {"lookup", "identify"} /\ frame.type = "ADV" => frame.module_id = frame.from
  /\ service = "identify" => /\ frame.type = "ADV"
                             /\ frame.from \in known
                             /\ index \in ChildSlots
  /\ service \in {"lookup", "compare", "aggregate", "identify"} => frame.from \in Others

Inv ==
  /\ TypeOK
  /\ DistinctMacs(Settled)
  /\ Follows
  /\ Cardinality(stations) <= CHILDREN_TABLE_SIZE
  /\ Moving
  /\ Noting
  /\ \A i \in ChildSlots : children.mac[i] \in known \cup {None}

LEMMA NoneIsNoBoard == None \notin Others
  BY NoneAssumption DEF Others

\* The settled table is a table.
LEMMA SettledType ==
  ASSUME TypeOK, Moving
  PROVE  Settled \in ChildTables
<1>1. /\ children.mac \in [Slots(CHILDREN_TABLE_SIZE) -> Nodes \cup {None}]
      /\ children.id \in [Slots(CHILDREN_TABLE_SIZE) -> Nodes \cup {None}]
      /\ children.size \in 0 .. CHILDREN_TABLE_SIZE
      /\ children.size \in Nat
      /\ CHILDREN_TABLE_SIZE \in Nat
  BY DEF TypeOK, ChildTables, ChildSlots
<1>2. CASE event = "idle"
  BY <1>1, <1>2 DEF Settled, SettledMac, SettledId, ChildTables, ChildSlots
<1>3. CASE event # "idle"
  <2>1. children.size < CHILDREN_TABLE_SIZE
    BY <1>3 DEF Moving
  <2>2. ASSUME NEW f \in [Slots(CHILDREN_TABLE_SIZE) -> Nodes \cup {None}], NEW at
        PROVE  ShiftLeft(f, at, children.size) \in [Slots(CHILDREN_TABLE_SIZE) -> Nodes \cup {None}]
    BY <1>1, <2>1, ShiftLeftType, Zenon
  <2>3. [children.id EXCEPT ![pos] = held] \in [Slots(CHILDREN_TABLE_SIZE) -> Nodes \cup {None}]
    BY <1>1 DEF TypeOK, Others, ChildSlots
  <2>4. SettledMac \in [Slots(CHILDREN_TABLE_SIZE) -> Nodes \cup {None}]
    BY <1>1, <1>3, <2>2 DEF SettledMac, TypeOK
  <2>5. SettledId \in [Slots(CHILDREN_TABLE_SIZE) -> Nodes \cup {None}]
    <3>1. CASE event \in {"mac", "id"}
      BY <1>1, <2>2, <3>1 DEF SettledId
    <3>2. CASE event = "store"
      BY <2>2, <2>3, <3>2 DEF SettledId
    <3> QED
      BY <1>3, <3>1, <3>2 DEF TypeOK
  <2> QED
    BY <1>1, <2>4, <2>5 DEF Settled, ChildTables, ChildSlots
<1> QED
  BY <1>2, <1>3

\* The tables are settled between two departures.
LEMMA IdleIsSettled ==
  ASSUME TypeOK, event = "idle"
  PROVE  Settled = children
BY DEF TypeOK, ChildTables, Settled, SettledMac, SettledId

\* The slot a settled slot is taken from, and the id it is given: what was
\* read of that slot before, where it has been.
Source(k) == IF event # "idle" /\ pos <= k THEN k + 1 ELSE k

SourceId(k) == IF event = "store" /\ k = pos THEN held ELSE children.id[Source(k)]

LEMMA SettledSlots ==
  ASSUME TypeOK, Moving, NEW k \in Slots(children.size)
  PROVE  /\ Source(k) \in ChildSlots
         /\ SettledMac[k] = children.mac[Source(k)]
         /\ SettledId[k] = SourceId(k)
<1>1. /\ DOMAIN children.mac = Slots(CHILDREN_TABLE_SIZE)
      /\ DOMAIN children.id = Slots(CHILDREN_TABLE_SIZE)
      /\ children.size \in 0 .. CHILDREN_TABLE_SIZE
      /\ children.size \in Nat
      /\ CHILDREN_TABLE_SIZE \in Nat
      /\ k \in Int /\ 0 <= k /\ k < children.size
  BY DEF TypeOK, ChildTables, ChildSlots, Slots
<1>2. CASE event = "idle"
  BY <1>1, <1>2 DEF SettledMac, SettledId, Source, SourceId, ChildSlots, Slots
<1>3. CASE event # "idle"
  <2>1. /\ children.size < CHILDREN_TABLE_SIZE
        /\ pos \in Int /\ 0 <= pos /\ pos < children.size
        /\ pos + 1 \in Int /\ pos \in Slots(CHILDREN_TABLE_SIZE)
    BY <1>3 DEF Moving, TypeOK, ChildSlots, Slots
  <2>2. Source(k) \in ChildSlots
    BY <1>1, <2>1 DEF Source, ChildSlots, Slots
  <2>3. ASSUME NEW f, DOMAIN f = Slots(CHILDREN_TABLE_SIZE), NEW at \in Int
        PROVE  ShiftLeft(f, at, children.size)[k] = IF at <= k THEN f[k + 1] ELSE f[k]
    BY <1>1, <2>1, <2>3, ShiftLeftSlots
  <2>4. CASE event = "mac"
    <3>1. /\ SettledMac = ShiftLeft(children.mac, pos, children.size)
          /\ SettledId = ShiftLeft(children.id, pos, children.size)
      BY <2>4 DEF SettledMac, SettledId
    <3> QED
      BY <1>1, <2>1, <2>2, <2>3, <2>4, <3>1 DEF Source, SourceId
  <2>5. ASSUME event \in {"id", "store"}
        PROVE  SettledMac[k] = children.mac[Source(k)]
    <3>1. SettledMac = ShiftLeft(children.mac, pos + 1, children.size)
      BY <2>5 DEF SettledMac
    <3>2. SettledMac[k] = IF pos + 1 <= k THEN children.mac[k + 1] ELSE children.mac[k]
      BY <1>1, <2>1, <2>3, <3>1
    <3>3. CASE k = pos
      BY <2>1, <2>5, <3>2, <3>3 DEF Source, Moving
    <3>4. CASE k # pos
      BY <1>1, <2>1, <2>5, <3>2, <3>4 DEF Source
    <3> QED
      BY <3>3, <3>4
  <2>6. CASE event = "id"
    <3>1. SettledId = ShiftLeft(children.id, pos, children.size)
      BY <2>6 DEF SettledId
    <3>2. SettledId[k] = SourceId(k)
      BY <1>1, <2>1, <2>3, <2>6, <3>1 DEF Source, SourceId
    <3> QED
      BY <2>2, <2>5, <2>6, <3>2
  <2>7. CASE event = "store"
    <3>1. SettledId = ShiftLeft([children.id EXCEPT ![pos] = held], pos + 1, children.size)
      BY <2>7 DEF SettledId
    <3>2. pos \in Slots(children.size)
      BY <1>1, <2>1 DEF Slots
    <3>3. SettledId[k] = IF k = pos THEN held
                         ELSE IF pos <= k THEN children.id[k + 1] ELSE children.id[k]
      <4>1. DOMAIN children.id = Slots(CHILDREN_TABLE_SIZE) /\ children.size \in Nat
        BY <1>1
      <4> DEFINE stored == [children.id EXCEPT ![pos] = held]
      <4>2. /\ DOMAIN stored = Slots(CHILDREN_TABLE_SIZE)
            /\ stored[pos] = held
            /\ \A i \in Slots(CHILDREN_TABLE_SIZE) : i # pos => stored[i] = children.id[i]
        BY <2>1, <4>1
      <4>3. SettledId = ShiftLeft(stored, pos + 1, children.size)
        BY <3>1
      <4> HIDE DEF stored
      <4>4. ShiftLeft(stored, pos + 1, children.size)[k]
              = IF pos + 1 <= k THEN stored[k + 1] ELSE stored[k]
        BY <2>1, <2>3, <4>2
      <4>5. k \in Slots(CHILDREN_TABLE_SIZE) /\ k + 1 \in Slots(CHILDREN_TABLE_SIZE)
        BY <1>1, <2>1 DEF Slots
      <4>6. CASE k = pos
        BY <2>1, <4>2, <4>3, <4>4, <4>6
      <4>7. CASE k # pos
        BY <1>1, <2>1, <4>2, <4>3, <4>4, <4>5, <4>7
      <4> QED
        BY <4>6, <4>7
    <3>4. SettledId[k] = SourceId(k)
      BY <2>7, <3>3 DEF Source, SourceId
    <3> QED
      BY <2>2, <2>5, <2>7, <3>4
  <2> QED
    BY <1>3, <2>4, <2>6, <2>7 DEF TypeOK
<1> QED
  BY <1>2, <1>3

\* A child's id, by its settled slot.
LEMMA SettledChild ==
  ASSUME TypeOK, Moving, DistinctMacs(Settled), NEW child \in Macs(Settled)
  PROVE  \E k \in Slots(children.size) :
           /\ children.mac[Source(k)] = child
           /\ get_child_index_by_mac(Settled, child) = k
           /\ IdOf(Settled, child) = SourceId(k)
<1>1. ProperChildTable(Settled)
  BY SettledType DEF ProperChildTable
<1>2. PICK k \in Slots(Settled.size) : Settled.mac[k] = child
  BY DEF Macs
<1>3. get_child_index_by_mac(Settled, child) = k
  BY <1>1, <1>2, ChildFound
<1>4. k \in Slots(children.size) /\ Settled.mac = SettledMac /\ Settled.id = SettledId
  BY DEF Settled
<1>5. children.mac[Source(k)] = child
  BY <1>2, <1>4, SettledSlots
<1>6. IdOf(Settled, child) = SourceId(k)
  BY <1>3, <1>4, SettledSlots DEF IdOf
<1> QED
  BY <1>3, <1>4, <1>5, <1>6
-----------------------------------------------------------------------------
(* Each step.                                                              *)

LEMMA InitInv == Init => Inv
<1> SUFFICES ASSUME Init PROVE Inv
  OBVIOUS
<1>1. 0 \in ChildSlots
  BY DEF ChildSlots, Slots
<1>2. TypeOK
  BY <1>1 DEF Init, TypeOK, Events, Frames, ChildTables, NoChildren, NOT_FOUND
<1>3. Settled = NoChildren /\ Slots(Settled.size) = {}
  BY DEF Init, Settled, SettledMac, SettledId, NoChildren, Slots
<1>4. DistinctMacs(Settled) /\ Macs(Settled) = {}
  BY <1>3 DEF DistinctMacs, Macs
<1>5. Cardinality(stations) <= CHILDREN_TABLE_SIZE
  BY FS_EmptySet DEF Init
<1> QED
  BY <1>2, <1>4, <1>5 DEF Init, Inv, Follows, Moving, Noting, NoEvent, NoChildren

\* The access point does not touch the table.
LEMMA AssociateInv ==
  ASSUME Inv, NEW child \in Others, Associate(child)
  PROVE  Inv' /\ Settled' = Settled
<1>1. Settled' = Settled
  BY DEF Associate, eventVars, Settled, SettledMac, SettledId
<1>2. TypeOK'
  BY DEF Inv, TypeOK, Associate, eventVars, serviceVars, Events
<1>3. Follows'
  BY <1>1 DEF Inv, Follows, Associate, NoEvent
<1> QED
  BY <1>1, <1>2, <1>3 DEF Inv, Associate, eventVars, serviceVars, Moving, Noting

LEMMA LeaveInv ==
  ASSUME Inv, NEW child \in Others, Leave(child)
  PROVE  Inv' /\ Settled' = Settled
<1>1. Settled' = Settled
  BY DEF Leave, eventVars, Settled, SettledMac, SettledId
<1>2. TypeOK'
  BY DEF Inv, TypeOK, Leave, eventVars, serviceVars, Events
<1>3. stations = Macs(Settled) /\ child \in Macs(Settled)
  BY DEF Inv, Follows, Leave, NoEvent
<1>4. Follows'
  BY <1>1, <1>3 DEF Follows, Leave
<1>5. Cardinality(stations') <= CHILDREN_TABLE_SIZE
  <2>1. IsFiniteSet(stations)
    BY <1>3, SettledType, MacsCardinality DEF Inv, ProperChildTable
  <2>2. IsFiniteSet(stations') /\ Cardinality(stations') <= Cardinality(stations)
    BY <2>1, FS_Subset DEF Leave
  <2> QED
    BY <2>1, <2>2, FS_CardinalityType DEF Inv
<1> QED
  BY <1>1, <1>2, <1>4, <1>5 DEF Inv, Leave, eventVars, serviceVars, Moving, Noting

\* An arrival enters the station, for which there is room.
LEMMA ChildConnectedInv ==
  ASSUME Inv, ChildConnected
  PROVE  Inv' /\ \A child \in Macs(Settled) : IdOf(Settled', child) = IdOf(Settled, child)
<1> DEFINE c == posted.child
<1>1. /\ Settled = children /\ ProperChildTable(children)
      /\ c \in Others /\ c \in Nodes
      /\ stations = Macs(children) \cup {c}
  <2>1. Settled = children
    BY IdleIsSettled DEF ChildConnected, Inv
  <2>2. c \in Others
    BY DEF Inv, TypeOK, Events, ChildConnected, NoEvent
  <2> QED
    BY <2>1, <2>2 DEF Inv, TypeOK, ProperChildTable, Follows, ChildConnected, Others
<1>2. c \in Macs(children) \/ children.size < CHILDREN_TABLE_SIZE
  <2> SUFFICES ASSUME c \notin Macs(children) PROVE children.size < CHILDREN_TABLE_SIZE
    OBVIOUS
  <2>1. IsFiniteSet(Macs(children)) /\ Cardinality(Macs(children)) = children.size
    BY <1>1, MacsCardinality
  <2>2. Cardinality(stations) = children.size + 1
    BY <1>1, <2>1, FS_AddElement
  <2> QED
    BY <1>1, <2>2 DEF Inv, ProperChildTable, ChildTables
<1>3. /\ ProperChildTable(children')
      /\ Macs(children') = Macs(children) \cup {c}
  BY <1>1, <1>2, PushChild DEF ChildConnected
<1>4. Settled' = children'
  BY <1>3 DEF ChildConnected, ProperChildTable, ChildTables, Settled, SettledMac, SettledId,
              eventVars
<1>5. /\ children'.id = children.id
      /\ \A i \in ChildSlots : children'.mac[i] \in known' \cup {None}
  <2>1. CASE children' = children
    BY <2>1 DEF ChildConnected, Inv
  <2>2. CASE children' = [children EXCEPT !.mac[children.size] = c, !.size = @ + 1]
    BY <1>1, <2>2 DEF ChildConnected, Inv, ProperChildTable, ChildTables
  <2> QED
    BY <2>1, <2>2 DEF ChildConnected, push_child
<1>6. TypeOK'
  BY <1>1, <1>3, <1>5 DEF Inv, TypeOK, ChildConnected, eventVars, serviceVars, ProperChildTable,
                          Events
<1>7. Follows'
  BY <1>1, <1>3, <1>4 DEF Follows, ChildConnected, NoEvent
<1>8. \A child \in Macs(Settled) : IdOf(Settled', child) = IdOf(Settled, child)
  BY <1>1, <1>2, <1>4, PushChildIds DEF ChildConnected
<1> QED
  BY <1>3, <1>4, <1>5, <1>6, <1>7, <1>8
     DEF Inv, ChildConnected, eventVars, serviceVars, Moving, Noting, ProperChildTable

\* A departure takes the child's slot out, at once in the settled table.
LEMMA ChildDisconnectedInv ==
  ASSUME Inv, ChildDisconnected
  PROVE  /\ Inv'
         /\ \A child \in Macs(Settled) \cap Macs(Settled') :
              IdOf(Settled', child) = IdOf(Settled, child)
<1> DEFINE c == posted.child
           i == get_child_index_by_mac(children, c)
<1>1. /\ Settled = children /\ ProperChildTable(children)
      /\ c \in Macs(children) /\ stations = Macs(children) \ {c}
  BY IdleIsSettled DEF ChildDisconnected, Inv, TypeOK, ProperChildTable, Follows
<1>2. i \in Slots(children.size) /\ i # NOT_FOUND /\ children.mac[i] = c
  BY <1>1, ChildLookup DEF ProperChildTable
<1>3. /\ children' = shrink(children)
      /\ IF i < children.size - 1 THEN event' = "mac" /\ pos' = i ELSE UNCHANGED <<event, pos>>
      /\ event = "idle" /\ posted' = NoEvent /\ UNCHANGED <<stations, known, held, serviceVars>>
  BY <1>2 DEF ChildDisconnected, eventVars
<1>4. /\ children.mac \in [Slots(CHILDREN_TABLE_SIZE) -> Nodes \cup {None}]
      /\ children.id \in [Slots(CHILDREN_TABLE_SIZE) -> Nodes \cup {None}]
      /\ children.size \in Nat /\ children.size <= CHILDREN_TABLE_SIZE
      /\ children'.mac = children.mac /\ children'.id = children.id
      /\ children'.size = children.size - 1
      /\ i \in Nat /\ i <= children.size - 1 /\ i \in ChildSlots
      /\ children.size - 1 \in Nat
  BY <1>1, <1>2, <1>3 DEF shrink, ProperChildTable, ChildTables, ChildSlots, Slots
<1> HIDE DEF i, c
<1>5. Settled' = Closed(children, i)
  <2>1. CASE i < children.size - 1
    BY <1>3, <1>4, <2>1 DEF Settled, SettledMac, SettledId, Closed
  <2>2. CASE ~ (i < children.size - 1)
    <3>1. /\ ShiftLeft(children.mac, i, children.size - 1) = children.mac
          /\ ShiftLeft(children.id, i, children.size - 1) = children.id
      <4>1. /\ children.mac \in [Slots(CHILDREN_TABLE_SIZE) -> Nodes \cup {None}]
            /\ children.id \in [Slots(CHILDREN_TABLE_SIZE) -> Nodes \cup {None}]
        BY <1>4
      <4>2. /\ i \in Nat /\ children.size - 1 \in Nat /\ i >= children.size - 1
            /\ CHILDREN_TABLE_SIZE \in Nat
        BY <1>4, <2>2
      <4>3. ShiftLeft(children.mac, i, children.size - 1) = children.mac
        BY <4>1, <4>2, ShiftDone, Zenon
      <4>4. ShiftLeft(children.id, i, children.size - 1) = children.id
        BY <4>1, <4>2, ShiftDone, Zenon
      <4> QED
        BY <4>3, <4>4
    <3>2. event' = "idle"
      BY <1>3, <2>2 DEF eventVars
    <3> QED
      BY <1>4, <3>1, <3>2 DEF Settled, SettledMac, SettledId, Closed
  <2> QED
    BY <2>1, <2>2
<1>6. /\ ProperChildTable(Settled') /\ Macs(Settled') = Macs(children) \ {c}
  BY <1>1, <1>2, <1>5, PopChild
<1>7. TypeOK'
  <2>1. children' \in ChildTables
    BY <1>1, <1>3, <1>4 DEF shrink, ProperChildTable, ChildTables, ChildSlots
  <2>2. event' \in {"idle", "mac", "id", "store"} /\ pos' \in ChildSlots
    BY <1>3, <1>4 DEF Inv, TypeOK, eventVars
  <2> QED
    BY <1>3, <1>4, <2>1, <2>2 DEF Inv, TypeOK, serviceVars, Events
<1>8. Follows'
  BY <1>1, <1>3, <1>6 DEF Follows, NoEvent
<1>9. Moving'
  BY <1>3, <1>4 DEF Moving, eventVars
<1>10. \A child \in Macs(Settled) \cap Macs(Settled') :
          IdOf(Settled', child) = IdOf(Settled, child)
  BY <1>1, <1>2, <1>5, <1>6, PopChildIds
<1> QED
  BY <1>3, <1>4, <1>6, <1>7, <1>8, <1>9, <1>10 DEF Inv, serviceVars, Noting, ProperChildTable

\* The moves leave the settled table as it is.
LEMMA MoveMacInv ==
  ASSUME Inv, MoveMac
  PROVE  Inv' /\ Settled' = Settled
<1>1. /\ children.mac \in [Slots(CHILDREN_TABLE_SIZE) -> Nodes \cup {None}]
      /\ children.id \in [Slots(CHILDREN_TABLE_SIZE) -> Nodes \cup {None}]
      /\ children.size \in Nat /\ children.size < CHILDREN_TABLE_SIZE
      /\ pos \in Slots(children.size) /\ CHILDREN_TABLE_SIZE \in Nat
      /\ pos \in ChildSlots /\ pos + 1 \in ChildSlots
  BY DEF MoveMac, Inv, Moving, TypeOK, ChildTables, ChildSlots, Slots
<1>2. /\ children'.mac = [children.mac EXCEPT ![pos] = children.mac[pos + 1]]
      /\ children'.id = children.id /\ children'.size = children.size
      /\ event' = "id" /\ pos' = pos /\ held' = held /\ event = "mac"
  BY DEF MoveMac, move_mac, Inv, TypeOK, ChildTables
<1>3. ShiftLeft(children'.mac, pos + 1, children.size) = ShiftLeft(children.mac, pos, children.size)
  BY <1>1, <1>2, ShiftStep
<1>4. Settled' = Settled
  BY <1>2, <1>3 DEF Settled, SettledMac, SettledId
<1>5. /\ \A k \in ChildSlots : children'.mac[k] \in known' \cup {None}
      /\ children'.mac[pos] = children'.mac[pos + 1]
  BY <1>1, <1>2 DEF MoveMac, Inv, ChildSlots, Slots
<1>6. TypeOK'
  <2>1. children'.mac \in [ChildSlots -> Nodes \cup {None}]
    BY <1>1, <1>2 DEF ChildSlots
  <2>2. children' \in ChildTables
    BY <1>1, <1>2, <2>1 DEF MoveMac, move_mac, Inv, TypeOK, ChildTables
  <2> QED
    BY <1>2, <2>2 DEF MoveMac, Inv, TypeOK, serviceVars
<1>7. Moving'
  BY <1>1, <1>2, <1>5 DEF Moving, Slots
<1> QED
  BY <1>4, <1>5, <1>6, <1>7 DEF MoveMac, Inv, serviceVars, Follows, Noting

LEMMA ReadIdInv ==
  ASSUME Inv, ReadId
  PROVE  Inv' /\ Settled' = Settled
<1>1. /\ children.id \in [Slots(CHILDREN_TABLE_SIZE) -> Nodes \cup {None}]
      /\ children.size \in Nat /\ children.size < CHILDREN_TABLE_SIZE
      /\ pos \in Slots(children.size) /\ CHILDREN_TABLE_SIZE \in Nat
      /\ pos + 1 \in ChildSlots
  BY DEF ReadId, Inv, Moving, TypeOK, ChildTables, ChildSlots, Slots
<1>2. /\ children' = children /\ pos' = pos /\ held' = children.id[pos + 1]
      /\ event = "id" /\ event' = "store"
  BY DEF ReadId
<1>3. ShiftLeft([children.id EXCEPT ![pos] = children.id[pos + 1]], pos + 1, children.size)
        = ShiftLeft(children.id, pos, children.size)
  BY <1>1, ShiftStep
<1>4. Settled' = Settled
  BY <1>2, <1>3 DEF Settled, SettledMac, SettledId
<1>5. TypeOK'
  BY <1>1, <1>2 DEF ReadId, Inv, TypeOK, serviceVars
<1>6. Moving'
  BY <1>2 DEF Inv, Moving
<1> QED
  BY <1>2, <1>4, <1>5, <1>6 DEF ReadId, Inv, serviceVars, Follows, Noting

LEMMA StoreIdInv ==
  ASSUME Inv, StoreId
  PROVE  Inv' /\ Settled' = Settled
<1>1. /\ children.mac \in [Slots(CHILDREN_TABLE_SIZE) -> Nodes \cup {None}]
      /\ children.id \in [Slots(CHILDREN_TABLE_SIZE) -> Nodes \cup {None}]
      /\ children.size \in Nat /\ children.size < CHILDREN_TABLE_SIZE
      /\ pos \in Slots(children.size) /\ CHILDREN_TABLE_SIZE \in Nat
      /\ pos \in ChildSlots /\ pos + 1 \in ChildSlots /\ pos \in Nat /\ 0 \in ChildSlots
      /\ held \in known \cup {None} /\ held \in Nodes \cup {None}
  BY DEF StoreId, Inv, Moving, TypeOK, ChildTables, ChildSlots, Slots, Others
<1>2. /\ children'.id = [children.id EXCEPT ![pos] = held]
      /\ children'.mac = children.mac /\ children'.size = children.size
      /\ event = "store" /\ held' = None
      /\ IF pos + 1 < children.size THEN event' = "mac" /\ pos' = pos + 1
                                    ELSE event' = "idle" /\ pos' = 0
  BY DEF StoreId, NextSlot, set_id, Inv, TypeOK, ChildTables
<1>3. SettledId = ShiftLeft(children'.id, pos + 1, children.size)
  BY <1>2 DEF SettledId
<1>4. children'.id \in [Slots(CHILDREN_TABLE_SIZE) -> Nodes \cup {None}]
  BY <1>1, <1>2 DEF ChildSlots
<1>5. Settled' = Settled
  <2>1. CASE pos + 1 < children.size
    BY <1>2, <1>3, <2>1 DEF Settled, SettledMac, SettledId
  <2>2. CASE ~ (pos + 1 < children.size)
    <3>1. /\ ShiftLeft(children.mac, pos + 1, children.size) = children.mac
          /\ ShiftLeft(children'.id, pos + 1, children.size) = children'.id
      <4>1. pos + 1 >= children.size /\ pos + 1 \in Nat
        BY <1>1, <2>2
      <4>2. ShiftLeft(children.mac, pos + 1, children.size) = children.mac
        BY <1>1, <4>1, ShiftDone, Zenon
      <4>3. ShiftLeft(children'.id, pos + 1, children.size) = children'.id
        BY <1>1, <1>4, <4>1, ShiftDone, Zenon
      <4> QED
        BY <4>2, <4>3
    <3> QED
      BY <1>2, <1>3, <2>2, <3>1 DEF Settled, SettledMac, SettledId
  <2> QED
    BY <2>1, <2>2
<1>6. TypeOK'
  <2>1. children' \in ChildTables
    BY <1>1, <1>2, <1>4 DEF StoreId, set_id, Inv, TypeOK, ChildTables, ChildSlots
  <2>2. event' \in {"idle", "mac", "id", "store"} /\ pos' \in ChildSlots
    BY <1>1, <1>2
  <2>3. \A k \in ChildSlots : children'.id[k] \in known \cup {None}
    BY <1>1, <1>2 DEF Inv, TypeOK, ChildSlots
  <2> QED
    BY <1>2, <2>1, <2>2, <2>3 DEF StoreId, Inv, TypeOK, serviceVars
<1>7. Moving'
  BY <1>1, <1>2 DEF Moving
<1> QED
  BY <1>2, <1>5, <1>6, <1>7 DEF StoreId, Inv, serviceVars, Follows, Noting

\* A turn of the service task that writes no table.
LEMMA ReadingInv ==
  ASSUME Inv,
         \/ \E type \in {"SENSOR", "ADV"}, from, module_id \in Others :
              Receive(type, from, module_id)
         \/ Lookup
         \/ \E id \in Nodes \cup {None} : Aggregates(id) \/ PassesOn(id)
         \/ Aggregated
  PROVE  Inv' /\ Settled' = Settled
<1>1. UNCHANGED <<stations, posted, known, children, eventVars>>
  BY DEF Receive, Lookup, Aggregates, PassesOn, Aggregated
<1>2. Settled' = Settled
  BY <1>1 DEF eventVars, Settled, SettledMac, SettledId
<1>3. /\ service' \in {"receive", "lookup", "compare", "identify", "aggregate"}
      /\ frame' \in Frames
      /\ index' \in ChildSlots \cup {NOT_FOUND}
      /\ Noting'
  <2>1. CASE \E type \in {"SENSOR", "ADV"}, from, module_id \in Others :
               Receive(type, from, module_id)
    BY <2>1 DEF Receive, Frames, Inv, TypeOK, Noting
  <2>2. CASE Lookup
    <3> DEFINE i == get_child_index_by_mac(children, frame.from)
    <3>1. /\ i # NOT_FOUND => /\ i \in ChildSlots
                              /\ children.mac[i] = frame.from
          /\ children.size \in 0 .. CHILDREN_TABLE_SIZE
          /\ frame.from \in Others
      <4>1. children \in ChildTables /\ frame.from \in Others
        BY <2>2 DEF Inv, TypeOK, Lookup, Noting
      <4>2. children.size \in 0 .. CHILDREN_TABLE_SIZE
        BY <4>1 DEF ChildTables
      <4>3. i # NOT_FOUND => i \in Slots(children.size) /\ children.mac[i] = frame.from
        BY <4>1, ChildLookup
      <4> QED
        BY <4>1, <4>2, <4>3 DEF ChildSlots, Slots
    <3>2. i # NOT_FOUND => frame.from \in known
      BY <3>1, NoneIsNoBoard DEF Inv
    <3> HIDE DEF i
    <3>3. \/ service' = "compare" /\ index' = i /\ frame' = frame
          \/ /\ frame.type = "ADV" /\ i # NOT_FOUND
             /\ service' = "identify" /\ index' = i /\ frame' = frame
          \/ service' = "receive" /\ frame' = NoFrame /\ index' = NOT_FOUND
      BY <2>2 DEF Lookup, TurnEnds, i
    <3>4. service = "lookup"
      BY <2>2 DEF Lookup
    <3> QED
      BY <1>1, <3>1, <3>2, <3>3, <3>4 DEF Inv, TypeOK, Noting, Frames
  <2>3. CASE \E id \in Nodes \cup {None} : Aggregates(id) \/ PassesOn(id)
    BY <2>3 DEF Aggregates, PassesOn, TurnEnds, Frames, Inv, TypeOK, Noting
  <2>4. CASE Aggregated
    BY <2>4 DEF Aggregated, TurnEnds, Frames, Inv, TypeOK, Noting
  <2> QED
    BY <2>1, <2>2, <2>3, <2>4
<1>4. TypeOK'
  BY <1>1, <1>3 DEF Inv, TypeOK, eventVars
<1> QED
  BY <1>1, <1>2, <1>3, <1>4 DEF Inv, eventVars, Follows, Moving

\* An id that is noted in the slot of its sender, wherever the slot is going.
LEMMA IdentifyInv ==
  ASSUME Inv, Identify
  PROVE  /\ Inv'
         /\ \A child \in Macs(Settled) \cap Macs(Settled') :
              \/ IdOf(Settled', child) \in {IdOf(Settled, child), child}
              \/ Misplaces
<1>1. /\ index \in ChildSlots /\ frame.module_id = frame.from
      /\ frame.from \in known /\ frame.from \in Others
      /\ service = "identify" /\ service' = "receive" /\ frame' = NoFrame /\ index' = NOT_FOUND
      /\ UNCHANGED <<stations, posted, known, event, pos, held>>
  BY DEF Identify, TurnEnds, Inv, Noting, eventVars
<1>2. /\ children'.mac = children.mac /\ children'.size = children.size
      /\ children'.id = [children.id EXCEPT ![index] = frame.from]
      /\ children.id \in [ChildSlots -> Nodes \cup {None}]
      /\ children.mac \in [ChildSlots -> Nodes \cup {None}]
  BY <1>1 DEF Identify, set_id, Inv, TypeOK, ChildTables
<1>3. TypeOK'
  <2>1. children'.id \in [ChildSlots -> Nodes \cup {None}]
    BY <1>1, <1>2 DEF Others
  <2>2. children' \in ChildTables
    BY <1>1, <1>2, <2>1 DEF Identify, set_id, Inv, TypeOK, ChildTables
  <2>3. \A k \in ChildSlots : children'.id[k] \in known \cup {None}
    BY <1>1, <1>2 DEF Inv, TypeOK
  <2> QED
    BY <1>1, <2>2, <2>3 DEF Inv, TypeOK, Frames
<1>4. Moving'
  BY <1>1, <1>2 DEF Inv, Moving
<1>5. /\ Settled'.mac = Settled.mac /\ Settled'.size = Settled.size
      /\ Settled'.size = children.size
  <2>1. SettledMac' = SettledMac
    <3>1. CASE event = "idle"
      BY <1>1, <1>2, <3>1 DEF SettledMac
    <3>2. CASE event = "mac"
      BY <1>1, <1>2, <3>2 DEF SettledMac
    <3>3. CASE event \in {"id", "store"}
      BY <1>1, <1>2, <3>3 DEF SettledMac
    <3> QED
      BY <3>1, <3>2, <3>3 DEF Inv, TypeOK
  <2> QED
    BY <1>2, <2>1 DEF Settled
<1>6. Macs(Settled') = Macs(Settled) /\ DistinctMacs(Settled')
  BY <1>5 DEF Inv, Macs, DistinctMacs
<1>7. Inv'
  BY <1>1, <1>2, <1>3, <1>4, <1>6 DEF Inv, Follows, Noting
<1>8. ASSUME NEW child \in Macs(Settled), ~ Misplaces
      PROVE  IdOf(Settled', child) \in {IdOf(Settled, child), child}
  <2>1. children.mac[index] = frame.from
    BY <1>1, <1>8 DEF Misplaces
  <2>2. PICK k \in Slots(children.size) :
               /\ children.mac[Source(k)] = child
               /\ get_child_index_by_mac(Settled, child) = k
               /\ IdOf(Settled, child) = SourceId(k)
    BY SettledChild DEF Inv
  <2>3. get_child_index_by_mac(Settled', child) = k
    BY <1>5, <2>2 DEF get_child_index_by_mac
  <2>4. Source(k) \in ChildSlots
    BY <2>2, SettledSlots DEF Inv
  <2>5. SettledId'[k] = SourceId(k)'
    <3>1. CASE event = "idle"
      BY <1>1, <3>1 DEF SettledId, Source, SourceId
    <3>2. ASSUME event # "idle"
          PROVE  /\ DOMAIN children'.id = Slots(CHILDREN_TABLE_SIZE) /\ CHILDREN_TABLE_SIZE \in Nat
                 /\ children.size \in Nat /\ children.size < CHILDREN_TABLE_SIZE
                 /\ pos \in Int /\ pos \in Slots(children.size)
      BY <1>2, <3>2 DEF Inv, Moving, TypeOK, ChildTables, ChildSlots, Slots
    <3>3. CASE event \in {"mac", "id"}
      <4>1. SettledId' = ShiftLeft(children'.id, pos, children.size)
        BY <1>1, <1>2, <3>3 DEF SettledId
      <4>2. SettledId'[k] = IF pos <= k THEN children'.id[k + 1] ELSE children'.id[k]
        BY <2>2, <3>2, <3>3, <4>1, ShiftLeftSlots
      <4> QED
        BY <1>1, <3>3, <4>2 DEF Source, SourceId
    <3>4. CASE event = "store"
      <4>1. SettledId' = ShiftLeft([children'.id EXCEPT ![pos] = held], pos + 1, children.size)
        BY <1>1, <1>2, <3>4 DEF SettledId
      <4>2. SettledId'[k] = IF k = pos THEN held
                            ELSE IF pos <= k THEN children'.id[k + 1] ELSE children'.id[k]
        <5>1. /\ DOMAIN children'.id = Slots(CHILDREN_TABLE_SIZE)
              /\ children.size \in Nat /\ children.size < CHILDREN_TABLE_SIZE
              /\ pos \in Slots(children.size)
          BY <3>2, <3>4
        <5>0. pos \in Slots(CHILDREN_TABLE_SIZE)
          BY <5>1, <3>2, <3>4 DEF Slots
        <5> DEFINE stored == [children'.id EXCEPT ![pos] = held]
        <5>2. /\ DOMAIN stored = Slots(CHILDREN_TABLE_SIZE)
              /\ stored[pos] = held
              /\ \A i \in Slots(CHILDREN_TABLE_SIZE) : i # pos => stored[i] = children'.id[i]
          BY <5>1, <5>0
        <5>3. SettledId' = ShiftLeft(stored, pos + 1, children.size)
          BY <4>1
        <5> HIDE DEF stored
        <5>4. ShiftLeft(stored, pos + 1, children.size)[k]
                = IF pos + 1 <= k THEN stored[k + 1] ELSE stored[k]
          BY <2>2, <3>2, <3>4, <5>2, ShiftLeftSlots
        <5>5. /\ k \in Int /\ pos \in Int
              /\ k \in Slots(CHILDREN_TABLE_SIZE) /\ k + 1 \in Slots(CHILDREN_TABLE_SIZE)
          BY <2>2, <3>2, <3>4 DEF Slots
        <5>6. CASE k = pos
          BY <5>2, <5>3, <5>4, <5>5, <5>6
        <5>7. CASE k # pos
          BY <5>2, <5>3, <5>4, <5>5, <5>7
        <5> QED
          BY <5>6, <5>7
      <4> QED
        BY <1>1, <3>4, <4>2 DEF Source, SourceId
    <3> QED
      BY <3>1, <3>3, <3>4 DEF Inv, TypeOK
  <2>6. IdOf(Settled', child) = SourceId(k)'
    BY <2>3, <2>5 DEF IdOf, Settled
  <2>7. CASE event = "store" /\ k = pos
    BY <1>1, <2>2, <2>6, <2>7 DEF SourceId
  <2>8. CASE ~ (event = "store" /\ k = pos)
    <3>1. IdOf(Settled', child) = children'.id[Source(k)] /\ IdOf(Settled, child) = children.id[Source(k)]
      BY <1>1, <2>2, <2>6, <2>8 DEF SourceId, Source
    <3>2. CASE Source(k) = index
      BY <1>2, <2>1, <2>2, <2>4, <3>1, <3>2
    <3>3. CASE Source(k) # index
      BY <1>2, <2>2, <2>4, <3>1, <3>3
    <3> QED
      BY <3>2, <3>3
  <2> QED
    BY <2>7, <2>8
<1> QED
  BY <1>7, <1>8

\* Every step.
LEMMA NextInv ==
  ASSUME Inv, [Next]_vars
  PROVE  /\ Inv'
         /\ \A child \in Macs(Settled) \cap Macs(Settled') :
              \/ IdOf(Settled', child) \in {IdOf(Settled, child), child}
              \/ Misplaces
<1>1. ASSUME NEW child \in Others, Associate(child) \/ Leave(child)
      PROVE  Inv' /\ Settled' = Settled
  BY <1>1, AssociateInv, LeaveInv
<1>2. CASE ChildConnected
  BY <1>2, ChildConnectedInv
<1>3. CASE ChildDisconnected
  BY <1>3, ChildDisconnectedInv
<1>4. CASE MoveMac \/ ReadId \/ StoreId
  BY <1>4, MoveMacInv, ReadIdInv, StoreIdInv
<1>5. CASE Identify
  BY <1>5, IdentifyInv
<1>6. CASE Service /\ ~ Identify
  BY <1>6, ReadingInv DEF Service
<1>7. CASE UNCHANGED vars
  <2>1. Settled' = Settled
    BY <1>7 DEF vars, eventVars, Settled, SettledMac, SettledId
  <2>2. Inv'
    BY <1>7, <2>1 DEF vars, eventVars, serviceVars, Inv, TypeOK, Follows, Moving, Noting
  <2> QED
    BY <2>1, <2>2
<1> QED
  BY <1>1, <1>2, <1>3, <1>4, <1>5, <1>6, <1>7 DEF Next, EventTask
-----------------------------------------------------------------------------
(* The theorems.                                                           *)

\* The invariant holds of every behaviour.
LEMMA Invariance == Spec => []Inv
<1>1. Inv /\ [Next]_vars => Inv'
  BY NextInv
<1> QED
  BY InitInv, <1>1, PTL DEF Spec

\* The variables keep their types, and an id in the table is always that of a
\* board that has been a child (mesh_main.c:124-181).
THEOREM TypeCorrectness == Spec => []TypeOK
<1>1. Inv => TypeOK
  BY DEF Inv
<1> QED
  BY Invariance, <1>1, PTL

\* Whatever the order of arrivals and departures, the children table holds the
\* stations of the access point, one slot each, once their events are handled
\* (mesh_main.c:135-181).
THEOREM ChildTableIsExact == Spec => []ChildrenMirrorStations
<1>1. Inv => ChildrenMirrorStations
  BY DEF Inv, Follows, ChildrenMirrorStations, DistinctMacs, Settled, NoEvent
<1> QED
  BY Invariance, <1>1, PTL

\* While pop_child moves slots and set_child_id writes ids in between, the id
\* of a child goes with the child and only its own ADV changes it, unless the
\* slot that set_child_id has found is no longer the sender's (mesh_main.c:
\* 152-181).
THEOREM IdsGoWithChildren == Spec => IdsStayUnlessMisplaced
<1> DEFINE Moved == \A child \in Macs(Settled) \cap Macs(Settled') :
                      \/ IdOf(Settled', child) \in {IdOf(Settled, child), child}
                      \/ Misplaces
<1>1. Inv /\ [Next]_vars => [Moved]_vars
  BY NextInv
<1>2. Spec => [][Moved]_vars
  BY Invariance, <1>1, PTL DEF Spec
<1> QED
  BY <1>2 DEF IdsStayUnlessMisplaced

\* The ADV of a station finds the station's slot, however often slots were given
\* away and taken again, unless the event task has yet to enter the station or
\* is moving slots (mesh_main.c:152-158).
THEOREM AdvsAreNoted == Spec => AdvIsNoted
<1> DEFINE Noted == service = "lookup" /\ frame.type = "ADV" /\ service' = "receive" =>
                      \/ frame.from \notin stations
                      \/ posted = [type |-> "CONNECTED", child |-> frame.from]
                      \/ event # "idle"
<1>1. ASSUME Inv, [Next]_vars
      PROVE  [Noted]_vars
  <2> SUFFICES ASSUME service = "lookup", frame.type = "ADV", service' = "receive",
                      frame.from \in stations, event = "idle"
               PROVE  posted = [type |-> "CONNECTED", child |-> frame.from]
    OBVIOUS
  <2>1. Lookup
    <3>1. service' # service
      OBVIOUS
    <3> QED
      BY <1>1, <3>1 DEF Next, vars, serviceVars, EventTask, Service, Associate, Leave,
         ChildConnected, ChildDisconnected, MoveMac, ReadId, StoreId, Receive,
         Aggregates, PassesOn, Aggregated, Identify
  <2>2. get_child_index_by_mac(children, frame.from) = NOT_FOUND
    BY <2>1 DEF Lookup
  <2>3. children \in ChildTables /\ Settled = children
    BY <1>1, IdleIsSettled DEF Inv, TypeOK
  <2>4. frame.from \notin Macs(Settled)
    BY <2>2, <2>3, ChildLookup
  <2>5. posted.type = "CONNECTED" /\ posted.child = frame.from
    BY <1>1, <2>4 DEF Inv, Follows, TypeOK, Events, NoEvent
  <2> QED
    BY <1>1, <2>5 DEF Inv, TypeOK, Events, NoEvent
<1>2. Spec => [][Noted]_vars
  BY Invariance, <1>1, PTL DEF Spec
<1> QED
  BY <1>2 DEF AdvIsNoted
=============================================================================
