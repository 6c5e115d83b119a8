--------------------------- MODULE NoiseGraph_proofs ---------------------------
(***************************************************************************)
(* Proofs about NoiseGraph, for any nodes, specs and number of edits: what *)
(* the operations of its SlotTable keep and promise, that the keys of the  *)
(* planner's state find exactly its nodes, and that a graph compiles       *)
(* exactly when it is sound.                                               *)
(***************************************************************************)
EXTENDS NoiseGraph, SeqFolds_proofs, FiniteSetTheorems
-----------------------------------------------------------------------------
(* ---- the slot table --------------------------------------------------- *)

SlotOf(V) == [generation : 0..(Generations - 1), value : V]

(* TableOK, over any set that has the values.                              *)
Table(t, V) ==
  /\ t = [slots |-> t.slots, free |-> t.free, len |-> t.len]
  /\ t.slots \in Seq(SlotOf(V))
  /\ t.free \in Seq(DOMAIN t.slots)
  /\ \A i \in DOMAIN t.slots : t.slots[i].value = Hole <=> \E k \in DOMAIN t.free : t.free[k] = i
  /\ \A k, l \in DOMAIN t.free : t.free[k] = t.free[l] => k = l
  /\ t.len \in Int
  /\ t.len + Len(t.free) = Len(t.slots)

(* Nothing but slot i differs.                                             *)
SameSlots(t, u, i) == /\ DOMAIN t.slots \ {i} = DOMAIN u.slots \ {i}
                      /\ \A j \in DOMAIN t.slots \ {i} : u.slots[j] = t.slots[j]

LEMMA EmptyTableOK ==
  ASSUME NEW V
  PROVE  Table(EmptyTable, V)
<1>1. <<>> \in Seq(SlotOf(V)) /\ Len(<<>>) = 0 /\ DOMAIN (<<>>) = {}
  BY EmptySeq
<1>2. <<>> \in Seq({})
  BY EmptySeq
<1> QED
  BY <1>1, <1>2 DEF Table, EmptyTable

(* Values of a table are among those it was made of.                       *)
LEMMA TableIsOK ==
  ASSUME NEW V, NEW t, Table(t, V)
  PROVE  TableOK(t) /\ \A i \in DOMAIN t.slots : t.slots[i].value \in V
<1> DEFINE own == {t.slots[i].value : i \in DOMAIN t.slots}
           n == Len(t.slots)
<1>1. n \in Nat /\ DOMAIN t.slots = 1..n /\ t.slots \in [1..n -> SlotOf(V)]
  BY LenProperties DEF Table
<1>2. \A i \in 1..n : t.slots[i] \in SlotOf(own) /\ t.slots[i].value \in V
  BY <1>1 DEF SlotOf
<1>3. t.slots \in [1..n -> SlotOf(own)]
  BY <1>1, <1>2
<1>4. t.slots \in Seq(SlotOf(own))
  BY <1>1, <1>3, FunctionIsSeq
<1> QED
  BY <1>1, <1>2, <1>4 DEF Table, TableOK, SlotOf

(* The conjuncts of Table, over the indexes themselves.                    *)
LEMMA TableFacts ==
  ASSUME NEW V, NEW t, Table(t, V)
  PROVE  /\ Len(t.slots) \in Nat /\ DOMAIN t.slots = 1..Len(t.slots)
         /\ t.slots \in [1..Len(t.slots) -> SlotOf(V)]
         /\ Len(t.free) \in Nat /\ DOMAIN t.free = 1..Len(t.free)
         /\ t.free \in Seq(1..Len(t.slots))
         /\ t.free = <<>> <=> Len(t.free) = 0
         /\ \A k \in 1..Len(t.free) : t.free[k] \in 1..Len(t.slots)
         /\ \A i \in 1..Len(t.slots) : t.slots[i].value = Hole <=> \E k \in 1..Len(t.free) : t.free[k] = i
         /\ \A k, l \in 1..Len(t.free) : t.free[k] = t.free[l] => k = l
         /\ t.len \in Int /\ t.len + Len(t.free) = Len(t.slots)
<1>1. Len(t.slots) \in Nat /\ DOMAIN t.slots = 1..Len(t.slots) /\ t.slots \in [1..Len(t.slots) -> SlotOf(V)]
  BY LenProperties DEF Table
<1>2. /\ Len(t.free) \in Nat /\ DOMAIN t.free = 1..Len(t.free)
      /\ t.free \in Seq(1..Len(t.slots)) /\ t.free \in [1..Len(t.free) -> 1..Len(t.slots)]
  BY <1>1, LenProperties DEF Table
<1>3. t.free = <<>> <=> Len(t.free) = 0
  BY <1>2, EmptySeq
<1>4. \A k \in 1..Len(t.free) : t.free[k] \in 1..Len(t.slots)
  BY <1>2
<1>5. /\ \A i \in 1..Len(t.slots) : t.slots[i].value = Hole <=> \E k \in 1..Len(t.free) : t.free[k] = i
      /\ \A k, l \in 1..Len(t.free) : t.free[k] = t.free[l] => k = l
      /\ t.len \in Int /\ t.len + Len(t.free) = Len(t.slots)
  BY <1>1, <1>2 DEF Table
<1> QED
  BY <1>1, <1>2, <1>3, <1>4, <1>5

(* insert gives a value a key that found nothing before and finds that     *)
(* value now, every other key finds what it found, and the table stays in  *)
(* order: no live value is overwritten (slot_table.rs:40-63).              *)
THEOREM InsertKeepsOthers ==
  ASSUME NEW V, Hole \in V, NEW t, Table(t, V), NEW value \in V, value # Hole
  PROVE  /\ Table(Insert(t, value), V)
         /\ Get(t, InsertedKey(t)) = Hole
         /\ Get(Insert(t, value), InsertedKey(t)) = value
         /\ \A key : Get(t, key) # Hole => Get(Insert(t, value), key) = Get(t, key)
         /\ KeyOf(Insert(t, value), InsertedKey(t).index) = InsertedKey(t)
         /\ InsertedKey(t).index \in DOMAIN Insert(t, value).slots
         /\ SameSlots(t, Insert(t, value), InsertedKey(t).index)
<1> DEFINE n == Len(t.slots)
           m == Len(t.free)
           i == Place(t)
           u == Insert(t, value)
           generation == IF t.free = <<>> THEN 0 ELSE t.slots[i].generation
           size == IF t.free = <<>> THEN n + 1 ELSE n
           left == IF t.free = <<>> THEN 0 ELSE m - 1
<1>1. /\ n \in Nat /\ DOMAIN t.slots = 1..n /\ t.slots \in [1..n -> SlotOf(V)]
      /\ m \in Nat /\ DOMAIN t.free = 1..m /\ t.free \in Seq(1..n) /\ (t.free = <<>> <=> m = 0)
  BY TableFacts
<1>a. \A k \in 1..m : t.free[k] \in 1..n
  BY TableFacts
<1>b. \A k \in 1..n : t.slots[k].value = Hole <=> \E l \in 1..m : t.free[l] = k
  BY TableFacts
<1>c. \A k, l \in 1..m : t.free[k] = t.free[l] => k = l
  BY TableFacts
<1>d. t.len \in Int /\ t.len + m = n /\ m \in Nat /\ n \in Nat
  BY TableFacts
<1> HIDE DEF n, m
<1>e. /\ m = 0 => i = n + 1 /\ size = n + 1 /\ left = 0
      /\ m # 0 => i = t.free[m] /\ size = n /\ left = m - 1
  BY <1>1 DEF Place, n, m
<1>2. /\ m = 0 => i = n + 1 /\ size = n + 1 /\ left = 0
      /\ m # 0 => /\ i = t.free[m] /\ i \in 1..n /\ m \in 1..m /\ t.slots[i].value = Hole
                  /\ size = n /\ left = m - 1
  <2> HIDE DEF i, size, left
  <2>1. CASE m # 0
    <3>1. m \in 1..m
      BY <2>1, <1>d
    <3> QED
      BY <2>1, <3>1, <1>a, <1>b, <1>e
  <2> QED
    BY <2>1, <1>e
<1>3. size \in Nat /\ left \in Nat /\ DOMAIN t.slots \cup {i} = 1..size /\ i \in 1..size
  BY <1>1, <1>2
<1>4. generation \in 0..(Generations - 1)
  BY <1>1, <1>2, GenerationsAssumption DEF SlotOf
<1>5. /\ u.slots = [k \in 1..size |-> IF k = i THEN [generation |-> generation, value |-> value] ELSE t.slots[k]]
      /\ u.free = IF t.free = <<>> THEN <<>> ELSE SubSeq(t.free, 1, m - 1)
      /\ u.len = t.len + 1
      /\ u = [slots |-> u.slots, free |-> u.free, len |-> u.len]
  BY <1>3 DEF Insert, m
<1> HIDE DEF i, u, generation, size, left
<1>6. \A k \in 1..size : u.slots[k] \in SlotOf(V)
  <2> TAKE k \in 1..size
  <2>1. CASE k = i
    BY <2>1, <1>4, <1>5 DEF SlotOf
  <2>2. CASE k # i
    BY <2>2, <1>1, <1>2, <1>5
  <2> QED
    BY <2>1, <2>2
<1>7. u.slots \in [1..size -> SlotOf(V)]
  BY <1>5, <1>6
<1>8. u.slots \in Seq(SlotOf(V)) /\ Len(u.slots) = size /\ DOMAIN u.slots = 1..size
  BY <1>3, <1>7, FunctionIsSeq
<1>9. /\ u.free \in [1..left -> 1..size] /\ Len(u.free) = left /\ DOMAIN u.free = 1..left
      /\ u.free \in Seq(1..size)
      /\ \A k \in 1..left : u.free[k] = t.free[k]
  <2>1. CASE t.free = <<>>
    <3>1. u.free = <<>> /\ left = 0
      BY <2>1, <1>1, <1>2, <1>5
    <3>2. <<>> \in Seq(1..size) /\ Len(<<>>) = 0
      BY EmptySeq
    <3>3. DOMAIN u.free = 1..0 /\ u.free \in [1..0 -> 1..size]
      BY <3>1, <3>2, LenProperties
    <3> QED
      BY <3>1, <3>2, <3>3
  <2>2. CASE t.free # <<>>
    <3>1. u.free = SubSeq(t.free, 1, m - 1) /\ m >= 1 /\ size = n /\ left = m - 1
      BY <2>2, <1>1, <1>2, <1>5
    <3>2. \A k \in 1..(m - 1) : t.free[k] \in 1..size
      BY <1>d, <1>a, <3>1
    <3>3. /\ u.free \in Seq(1..size) /\ Len(u.free) = left
          /\ \A k \in 1..left : u.free[k] = t.free[k]
      <4>1. /\ SubSeq(t.free, 1, m - 1) \in Seq(1..size)
            /\ Len(SubSeq(t.free, 1, m - 1)) = m - 1
            /\ \A k \in 1..(m - 1) : SubSeq(t.free, 1, m - 1)[k] = t.free[k]
        BY <1>1, <3>1, <3>2, SubSeqProperties
      <4> QED
        BY <4>1, <3>1
    <3> QED
      BY <3>3, LenProperties
  <2> QED
    BY <2>1, <2>2
<1>f. \A k \in 1..left : u.free[k] = t.free[k]
  BY <1>9
<1>g. /\ m = 0 => left = 0 /\ size = n + 1
      /\ m # 0 => left = m - 1 /\ m \in 1..m /\ t.free[m] = i /\ size = n
  BY <1>2
<1>10. \A k \in 1..size : u.slots[k].value = Hole <=> \E l \in 1..left : u.free[l] = k
  <2> TAKE k \in 1..size
  <2>1. CASE k = i
    <3>1. u.slots[k].value = value
      BY <2>1, <1>5
    <3>2. \A l \in 1..left : u.free[l] # i
      BY <1>c, <1>d, <1>f, <1>g
    <3> QED
      BY <2>1, <3>1, <3>2
  <2>2. CASE k # i
    <3>1. k \in 1..n /\ u.slots[k] = t.slots[k]
      BY <2>2, <1>1, <1>2, <1>5
    <3>2. (\E l \in 1..m : t.free[l] = k) <=> \E l \in 1..left : u.free[l] = k
      BY <2>2, <1>d, <1>f, <1>g
    <3> QED
      BY <3>1, <3>2, <1>b
  <2> QED
    BY <2>1, <2>2
<1>11. u.len \in Int /\ u.len + Len(u.free) = Len(u.slots)
  <2>1. u.len = t.len + 1
    BY <1>5
  <2>2. Len(u.free) = left /\ Len(u.slots) = size
    BY <1>8, <1>9
  <2> QED
    BY <2>1, <2>2, <1>d, <1>g
<1>12. \A k, l \in 1..left : u.free[k] = u.free[l] => k = l
  BY <1>c, <1>d, <1>f, <1>g
<1>13. Table(u, V)
  BY <1>5, <1>8, <1>9, <1>10, <1>11, <1>12 DEF Table
<1>14. InsertedKey(t) = [index |-> i, generation |-> generation]
  BY DEF InsertedKey, i, generation
<1>15. Get(t, InsertedKey(t)) = Hole
  BY <1>1, <1>2, <1>14 DEF Get
<1>16. Get(u, InsertedKey(t)) = value /\ KeyOf(u, i) = InsertedKey(t)
  BY <1>2, <1>3, <1>5, <1>8, <1>14 DEF Get, KeyOf
<1>17. ASSUME NEW key, Get(t, key) # Hole
       PROVE  Get(u, key) = Get(t, key)
  <2>1. key.index \in 1..n /\ t.slots[key.index].generation = key.generation /\ t.slots[key.index].value # Hole
    BY <1>17, <1>1 DEF Get
  <2>2. key.index # i
    BY <2>1, <1>1, <1>2
  <2>3. key.index \in 1..size /\ u.slots[key.index] = t.slots[key.index]
    BY <2>1, <2>2, <1>3, <1>5, <1>1
  <2> QED
    BY <2>1, <2>3, <1>1, <1>8 DEF Get
<1>18. SameSlots(t, u, i) /\ i \in DOMAIN u.slots
  <2>1. \A j \in 1..n \ {i} : j \in 1..size /\ u.slots[j] = t.slots[j]
    BY <1>1, <1>3, <1>5
  <2>2. 1..n \ {i} = 1..size \ {i}
    BY <1>1, <1>2
  <2> QED
    BY <1>1, <1>3, <1>8, <2>1, <2>2 DEF SameSlots
<1> QED
  BY <1>13, <1>14, <1>15, <1>16, <1>17, <1>18 DEF u

(* Assigning through get_mut leaves the table in order.                    *)
Overwritten(u, t, V, key, value) ==
  /\ Table(u, V)
  /\ SameSlots(t, u, key.index)
  /\ key.index \in DOMAIN t.slots /\ t.slots[key.index].value # Hole
  /\ t.slots[key.index].generation = key.generation
  /\ u.slots[key.index] = [generation |-> key.generation, value |-> value]
  /\ DOMAIN u.slots = DOMAIN t.slots

LEMMA OverwriteKeepsOthers ==
  ASSUME NEW V, NEW t, Table(t, V), NEW value \in V, value # Hole,
         NEW key, Get(t, key) # Hole
  PROVE  Overwritten(Overwrite(t, key, value), t, V, key, value)
<1> DEFINE n == Len(t.slots)
           i == key.index
           u == Overwrite(t, key, value)
<1>1. n \in Nat /\ DOMAIN t.slots = 1..n /\ t.slots \in [1..n -> SlotOf(V)]
  BY TableFacts
<1>2. /\ i \in 1..n /\ t.slots[i].value # Hole /\ t.slots[i].generation = key.generation
      /\ t.slots[i] \in SlotOf(V)
  BY <1>1 DEF Get
<1>3. /\ u.slots = [t.slots EXCEPT ![i] = [generation |-> key.generation, value |-> value]]
      /\ u.free = t.free /\ u.len = t.len
      /\ u = [slots |-> u.slots, free |-> u.free, len |-> u.len]
  <2>1. [t.slots[i] EXCEPT !.value = value] = [generation |-> key.generation, value |-> value]
    BY <1>2 DEF SlotOf
  <2>2. t = [slots |-> t.slots, free |-> t.free, len |-> t.len]
    BY DEF Table
  <2> QED
    BY <2>1, <2>2 DEF Overwrite
<1> HIDE DEF u
<1>4. u.slots \in [1..n -> SlotOf(V)]
  BY <1>1, <1>2, <1>3 DEF SlotOf
<1>5. u.slots \in Seq(SlotOf(V)) /\ Len(u.slots) = n /\ DOMAIN u.slots = 1..n
  BY <1>1, <1>4, FunctionIsSeq
<1>6. \A j \in 1..n : u.slots[j].value = Hole <=> t.slots[j].value = Hole
  BY <1>1, <1>2, <1>3
<1>7. Table(u, V)
  <2>1. u.free \in Seq(DOMAIN u.slots) /\ u.len \in Int /\ u.len + Len(u.free) = Len(u.slots)
    BY <1>1, <1>3, <1>5, TableFacts
  <2>2. \A j \in 1..n : u.slots[j].value = Hole <=> \E k \in DOMAIN u.free : u.free[k] = j
    BY <1>1, <1>3, <1>6 DEF Table
  <2>3. \A k, l \in DOMAIN u.free : u.free[k] = u.free[l] => k = l
    BY <1>3 DEF Table
  <2> QED
    BY <1>3, <1>5, <2>1, <2>2, <2>3 DEF Table
<1>8. SameSlots(t, u, i) /\ u.slots[i] = [generation |-> key.generation, value |-> value]
  BY <1>1, <1>2, <1>3, <1>5 DEF SameSlots
<1> QED
  BY <1>1, <1>2, <1>5, <1>7, <1>8 DEF u, Overwritten

(* A key that remove was given finds nothing afterwards, not even when its *)
(* slot is filled again, and every other key finds what it found           *)
(* (slot_table.rs:66-78; generations must not have come round).            *)
THEOREM RemoveMakesKeyStale ==
  ASSUME NEW V, Hole \in V, NEW t, Table(t, V), NEW key
  PROVE  /\ Table(RemoveKey(t, key), V)
         /\ Get(RemoveKey(t, key), key) = Hole
         /\ Get(t, key) # Hole => SameSlots(t, RemoveKey(t, key), key.index)
         /\ \A other : Get(t, other) # Hole /\ other.index # key.index =>
              Get(RemoveKey(t, key), other) = Get(t, other)
         /\ Get(t, key) # Hole /\ Generations > 1 =>
              \A value \in V : value # Hole => Get(Insert(RemoveKey(t, key), value), key) = Hole
<1> DEFINE n == Len(t.slots)
           m == Len(t.free)
           i == key.index
           u == RemoveKey(t, key)
<1>1. /\ n \in Nat /\ DOMAIN t.slots = 1..n /\ t.slots \in [1..n -> SlotOf(V)]
      /\ m \in Nat /\ DOMAIN t.free = 1..m /\ t.free \in Seq(1..n) /\ (t.free = <<>> <=> m = 0)
  BY TableFacts
<1>a. \A k \in 1..m : t.free[k] \in 1..n
  BY TableFacts
<1>b. \A k \in 1..n : t.slots[k].value = Hole <=> \E l \in 1..m : t.free[l] = k
  BY TableFacts
<1>c. \A k, l \in 1..m : t.free[k] = t.free[l] => k = l
  BY TableFacts
<1>d. t.len \in Int /\ t.len + m = n /\ m \in Nat /\ n \in Nat
  BY TableFacts
<1>2. CASE Get(t, key) = Hole
  BY <1>2 DEF RemoveKey
<1> HIDE DEF n, m
<1>3. CASE Get(t, key) # Hole
  <2>1. i \in 1..n /\ t.slots[i].generation = key.generation /\ t.slots[i].value # Hole
    BY <1>1, <1>3 DEF Get, i
  <2>2. /\ u.slots = [t.slots EXCEPT ![i] = Vacated(t.slots[i])]
        /\ u.free = Append(t.free, i) /\ u.len = t.len - 1
        /\ u = [slots |-> u.slots, free |-> u.free, len |-> u.len]
    BY <1>3 DEF RemoveKey
  <2> HIDE DEF u, i
  <2>3. /\ Vacated(t.slots[i]) \in SlotOf(V) /\ Vacated(t.slots[i]).value = Hole
        /\ Generations > 1 => Vacated(t.slots[i]).generation # key.generation
    <3>1. t.slots[i].generation \in 0..(Generations - 1) /\ t.slots[i].generation = key.generation
      BY <1>1, <2>1 DEF SlotOf
    <3>2. (t.slots[i].generation + 1) % Generations \in 0..(Generations - 1)
      BY <3>1, GenerationsAssumption
    <3>3. Generations > 1 => (t.slots[i].generation + 1) % Generations # t.slots[i].generation
      BY <3>1, GenerationsAssumption
    <3> QED
      BY <3>1, <3>2, <3>3 DEF Vacated, SlotOf
  <2>4. u.slots \in [1..n -> SlotOf(V)]
    BY <1>1, <2>1, <2>2, <2>3
  <2>5. u.slots \in Seq(SlotOf(V)) /\ Len(u.slots) = n /\ DOMAIN u.slots = 1..n
    BY <1>1, <2>4, FunctionIsSeq
  <2>6. /\ u.free \in Seq(1..n) /\ Len(u.free) = m + 1 /\ DOMAIN u.free = 1..(m + 1)
        /\ \A k \in 1..m : u.free[k] = t.free[k]
        /\ u.free[m + 1] = i
    <3>1. t.free \in Seq(1..n) /\ Len(t.free) = m
      BY <1>1 DEF m
    <3>2. /\ u.free \in Seq(1..n) /\ Len(u.free) = m + 1
          /\ \A k \in 1..m : u.free[k] = t.free[k]
          /\ u.free[m + 1] = i
      BY <3>1, <2>1, <2>2, AppendProperties
    <3> QED
      BY <3>2, <1>1, LenProperties
  <2>f. /\ \A k \in 1..m : u.free[k] = t.free[k]
        /\ u.free[m + 1] = i
    BY <2>6
  <2>7. \A k \in 1..m : t.free[k] # i
    BY <1>b, <2>1
  <2>8. \A k \in 1..n : u.slots[k].value = Hole <=> \E l \in 1..(m + 1) : u.free[l] = k
    <3> TAKE k \in 1..n
    <3>1. CASE k = i
      BY <3>1, <1>1, <2>1, <2>2, <2>3, <2>6
    <3>2. CASE k # i
      <4>1. u.slots[k] = t.slots[k]
        BY <3>2, <1>1, <2>2
      <4>2. (\E l \in 1..m : t.free[l] = k) <=> \E l \in 1..(m + 1) : u.free[l] = k
        BY <3>2, <1>d, <2>f
      <4> QED
        BY <4>1, <4>2, <1>b
    <3> QED
      BY <3>1, <3>2
  <2>9. \A k, l \in 1..(m + 1) : u.free[k] = u.free[l] => k = l
    BY <1>c, <1>d, <2>f, <2>7
  <2>10. u.len \in Int /\ u.len + Len(u.free) = Len(u.slots)
    <3>1. u.len = t.len - 1
      BY <2>2
    <3>2. Len(u.free) = m + 1 /\ Len(u.slots) = n
      BY <2>5, <2>6
    <3> QED
      BY <3>1, <3>2, <1>d
  <2>11. Table(u, V)
    BY <2>2, <2>5, <2>6, <2>8, <2>9, <2>10 DEF Table
  <2>12. u.slots[i] = Vacated(t.slots[i]) /\ Get(u, key) = Hole
    BY <1>1, <2>1, <2>2, <2>3 DEF Get, i
  <2>13. \A other : Get(t, other) # Hole /\ other.index # i => Get(u, other) = Get(t, other)
    BY <1>1, <2>2, <2>5 DEF Get
  <2>14. ASSUME Generations > 1, NEW value \in V, value # Hole
         PROVE  Get(Insert(u, value), key) = Hole
    <3>1. Place(u) = i /\ u.free # <<>>
      BY <1>1, <2>6, EmptySeq DEF Place
    <3>2. Insert(u, value).slots[i].generation = u.slots[i].generation
      BY <2>1, <2>5, <3>1 DEF Insert
    <3> QED
      BY <2>14, <2>3, <2>12, <3>2 DEF Get, i
  <2>15. SameSlots(t, u, i)
    BY <1>1, <2>2, <2>5 DEF SameSlots
  <2> QED
    BY <1>3, <2>11, <2>12, <2>13, <2>14, <2>15 DEF u, i
<1> QED
  BY <1>2, <1>3

(* clear_reuse leaves no value for any key, and every slot in the free     *)
(* list once, holes of before included (slot_table.rs:110-119).            *)
THEOREM ClearReuseEmpties ==
  ASSUME NEW V, Hole \in V, NEW t, Table(t, V)
  PROVE  /\ Table(ClearReuse(t), V)
         /\ \A key : Get(ClearReuse(t), key) = Hole
         /\ \A i \in DOMAIN ClearReuse(t).slots : ClearReuse(t).slots[i].value = Hole
<1> DEFINE n == Len(t.slots)
           u == ClearReuse(t)
<1>1. n \in Nat /\ DOMAIN t.slots = 1..n /\ t.slots \in [1..n -> SlotOf(V)]
  BY LenProperties DEF Table
<1>2. /\ u.slots = [i \in 1..n |-> IF t.slots[i].value = Hole THEN t.slots[i] ELSE Vacated(t.slots[i])]
      /\ u.free = [i \in 1..n |-> i] /\ u.len = 0
      /\ u = [slots |-> u.slots, free |-> u.free, len |-> u.len]
  BY <1>1 DEF ClearReuse
<1>3. \A i \in 1..n : u.slots[i] \in SlotOf(V) /\ u.slots[i].value = Hole
  <2> TAKE i \in 1..n
  <2>1. t.slots[i] \in SlotOf(V)
    BY <1>1
  <2>2. (t.slots[i].generation + 1) % Generations \in 0..(Generations - 1)
    BY <2>1, GenerationsAssumption DEF SlotOf
  <2>3. CASE t.slots[i].value = Hole
    BY <1>2, <2>1, <2>3
  <2>4. CASE t.slots[i].value # Hole
    <3>1. u.slots[i] = Vacated(t.slots[i]) /\ Hole \in V
      BY <1>2, <2>4
    <3> QED
      BY <2>2, <3>1 DEF Vacated, SlotOf
  <2> QED
    BY <2>3, <2>4
<1>4. u.slots \in Seq(SlotOf(V)) /\ Len(u.slots) = n /\ DOMAIN u.slots = 1..n
  <2>1. u.slots \in [1..n -> SlotOf(V)]
    BY <1>2, <1>3
  <2> QED
    BY <2>1, <1>1, FunctionIsSeq
<1>5. u.free \in Seq(1..n) /\ Len(u.free) = n /\ DOMAIN u.free = 1..n
  <2>1. u.free \in [1..n -> 1..n]
    BY <1>2
  <2> QED
    BY <2>1, <1>1, FunctionIsSeq
<1>6. Table(u, V)
  BY <1>1, <1>2, <1>3, <1>4, <1>5 DEF Table
<1> QED
  BY <1>3, <1>4, <1>6 DEF Get
-----------------------------------------------------------------------------
(* ---- the planner's state ---------------------------------------------- *)

NodeOrHole == Nodes \cup {Hole}

Change == {Upsert(node) : node \in Nodes} \cup {RemoveId(id) : id \in Ids} \cup {SetFinal(id) : id \in Ids}

(* TypeOK, with what is needed to keep it: the table in order, the changes *)
(* that the call has still to make, and node_keys a function.              *)
Typed ==
  /\ debug \in BOOLEAN
  /\ dimension \in {2, 3}
  /\ final_field \in Ids
  /\ Table(nodes, NodeOrHole)
  /\ node_keys = [id \in DOMAIN node_keys |-> node_keys[id]]
  /\ DOMAIN node_keys \subseteq Ids
  /\ pending \in Seq(Change)
  /\ edits \in 0..MaxEdits

LEMMA ValuesTyped ==
  ASSUME NEW V, NEW t, Table(t, V)
  PROVE  \A i \in DOMAIN t.slots : t.slots[i].value \in V
BY TableIsOK

LEMMA UpsertsTyped ==
  ASSUME NEW spec \in Specs
  PROVE  Upserts(spec) \in Seq(Change)
<1>1. /\ Len(spec.nodes) \in Nat /\ DOMAIN spec.nodes = 1..Len(spec.nodes)
      /\ spec.nodes \in [1..Len(spec.nodes) -> Nodes]
  BY SpecsAssumption, LenProperties
<1>2. Upserts(spec) \in [1..Len(spec.nodes) -> Change]
  BY <1>1 DEF Upserts, Change
<1> QED
  BY <1>1, <1>2, FunctionIsSeq

LEMMA BatchTyped ==
  ASSUME NEW change \in Change
  PROVE  <<change>> \in Seq(Change)
OBVIOUS

(* The change that a step makes, and those that are left.                  *)
LEMMA ChangingTyped ==
  ASSUME Typed, NEW kind, Changing(kind)
  PROVE  /\ pending' \in Seq(Change)
         /\ kind = "UpsertNode" => Head(pending).node \in Nodes
         /\ kind \in {"RemoveNode", "SetFinalField"} => Head(pending).id \in Ids
<1>1. Head(pending) \in Change /\ Tail(pending) \in Seq(Change)
  BY HeadTailProperties DEF Typed, Changing
<1>2. Head(pending).kind = kind
  BY DEF Changing
<1> QED
  BY <1>1, <1>2 DEF Changing, Change, Upsert, RemoveId, SetFinal

(* Two ids have keys with different indexes.                               *)
LEMMA KeysDiffer ==
  ASSUME KeysMatchNodes, NEW id \in DOMAIN node_keys, NEW other \in DOMAIN node_keys, id # other
  PROVE  node_keys[id].index # node_keys[other].index
<1> SUFFICES ASSUME node_keys[id].index = node_keys[other].index
             PROVE  FALSE
  OBVIOUS
<1>1. /\ Get(nodes, node_keys[id]) # Hole /\ Get(nodes, node_keys[id]).id = id
      /\ Get(nodes, node_keys[other]) # Hole /\ Get(nodes, node_keys[other]).id = other
  BY DEF KeysMatchNodes
<1>2. Get(nodes, node_keys[id]) = Get(nodes, node_keys[other])
  BY <1>1 DEF Get
<1> QED
  BY <1>1, <1>2

LEMMA InitInvariant == Init => Typed /\ KeysMatchNodes
<1> SUFFICES ASSUME Init
             PROVE  Typed /\ KeysMatchNodes
  OBVIOUS
<1>1. PICK spec \in Specs : /\ debug \in BOOLEAN /\ dimension = spec.dimension /\ final_field = spec.final
                            /\ nodes = EmptyTable /\ node_keys = [id \in {} |-> None]
                            /\ pending = Upserts(spec) /\ edits = 0
  BY DEF Init
<1>2. Table(nodes, NodeOrHole)
  BY <1>1, EmptyTableOK
<1>3. pending \in Seq(Change) /\ edits \in 0..MaxEdits
  BY <1>1, UpsertsTyped, MaxEditsAssumption
<1>4. Typed
  BY <1>1, <1>2, <1>3, SpecsAssumption DEF Typed
<1>5. DOMAIN node_keys = {} /\ DOMAIN nodes.slots = {}
  BY <1>1, EmptySeq DEF EmptyTable
<1> QED
  BY <1>4, <1>5 DEF KeysMatchNodes

(* A key that finds the value of a slot, and one that another step leaves  *)
(* alone.                                                                  *)
LEMMA SameFound ==
  ASSUME NEW t, NEW u, NEW i, SameSlots(t, u, i), NEW key, key.index # i
  PROVE  Get(u, key) = Get(t, key)
BY DEF SameSlots, Get

(* The node of an id that is known is replaced in place.                   *)
LEMMA ReplaceStep ==
  ASSUME Typed, KeysMatchNodes, NEW node \in Nodes, NEW id, id = node.id, id \in DOMAIN node_keys,
         NEW key, key = node_keys[id], nodes' = Overwrite(nodes, key, node), node_keys' = node_keys,
         pending' \in Seq(Change), UNCHANGED <<debug, dimension, final_field, edits>>
  PROVE  Typed' /\ KeysMatchNodes'
<1>1. Get(nodes, key) # Hole /\ Get(nodes, key).id = id
  BY DEF KeysMatchNodes
<1>2. Table(nodes, NodeOrHole) /\ node \in NodeOrHole /\ node # Hole
  BY NodesAssumption DEF Typed, NodeOrHole
<1>3. /\ Table(nodes', NodeOrHole) /\ SameSlots(nodes, nodes', key.index)
      /\ key.index \in DOMAIN nodes.slots /\ nodes.slots[key.index].value # Hole
      /\ nodes.slots[key.index].generation = key.generation
      /\ nodes'.slots[key.index] = [generation |-> key.generation, value |-> node]
      /\ DOMAIN nodes'.slots = DOMAIN nodes.slots
  <2>1. Overwritten(Overwrite(nodes, key, node), nodes, NodeOrHole, key, node)
    BY <1>1, <1>2, OverwriteKeepsOthers, Zenon
  <2> QED
    BY <2>1 DEF Overwritten
<1>4. Typed'
  BY <1>1, <1>2, <1>3 DEF Typed
<1>5. key = [index |-> key.index, generation |-> key.generation]
  <2>1. nodes.slots[key.index].value = Get(nodes, key)
    BY <1>3 DEF Get
  <2>2. node_keys[id] = KeyOf(nodes, key.index)
    <3>1. nodes.slots[key.index].value # Hole /\ nodes.slots[key.index].value.id = id
      BY <1>1, <2>1
    <3>2. node_keys[nodes.slots[key.index].value.id] = KeyOf(nodes, key.index)
      BY <1>3 DEF KeysMatchNodes
    <3> QED
      BY <3>1, <3>2
  <2> QED
    BY <2>2 DEF KeyOf
<1>6. Get(nodes', key) = node /\ KeyOf(nodes', key.index) = key
  <2>1. key.index \in DOMAIN nodes'.slots
    BY <1>3
  <2>2. nodes'.slots[key.index].generation = key.generation /\ nodes'.slots[key.index].value = node
    BY <1>3
  <2>3. Get(nodes', key) = node
    BY <2>1, <2>2 DEF Get
  <2>4. KeyOf(nodes', key.index) = [index |-> key.index, generation |-> key.generation]
    BY <2>2 DEF KeyOf
  <2> QED
    BY <1>5, <2>3, <2>4
<1>7. \A x \in DOMAIN node_keys : Get(nodes', node_keys[x]) # Hole /\ Get(nodes', node_keys[x]).id = x
  <2> TAKE x \in DOMAIN node_keys
  <2>1. CASE x = id
    BY <2>1, <1>2, <1>6
  <2>2. CASE x # id
    <3>1. node_keys[x].index # key.index
      BY <2>2, <1>1, KeysDiffer
    <3>2. Get(nodes', node_keys[x]) = Get(nodes, node_keys[x])
      <4>1. SameSlots(nodes, nodes', key.index)
        BY <1>3
      <4> QED
        BY <3>1, <4>1 DEF SameSlots, Get
    <3> QED
      BY <3>2 DEF KeysMatchNodes
  <2> QED
    BY <2>1, <2>2
<1>8. \A i \in DOMAIN nodes'.slots : nodes'.slots[i].value # Hole =>
        /\ nodes'.slots[i].value.id \in DOMAIN node_keys
        /\ node_keys[nodes'.slots[i].value.id] = KeyOf(nodes', i)
  <2> TAKE i \in DOMAIN nodes'.slots
  <2>1. CASE i = key.index
    BY <2>1, <1>1, <1>3, <1>6
  <2>2. CASE i # key.index
    <3>1. i \in DOMAIN nodes.slots /\ nodes'.slots[i] = nodes.slots[i]
      BY <2>2, <1>3 DEF SameSlots
    <3> QED
      BY <3>1 DEF KeysMatchNodes, KeyOf
  <2> QED
    BY <2>1, <2>2
<1>9. KeysMatchNodes'
  BY <1>2, <1>7, <1>8 DEF KeysMatchNodes
<1> QED
  BY <1>4, <1>9

LEMMA UpsertStep == Typed /\ KeysMatchNodes /\ UpsertNode => Typed' /\ KeysMatchNodes'
<1> SUFFICES ASSUME Typed, KeysMatchNodes, UpsertNode
             PROVE  Typed' /\ KeysMatchNodes'
  OBVIOUS
<1> DEFINE node == Head(pending).node
           id == node.id
<1>1. node \in Nodes /\ id \in Ids /\ node # Hole /\ node \in NodeOrHole /\ pending' \in Seq(Change)
  BY ChangingTyped, NodesAssumption DEF UpsertNode, NodeOrHole
<1>2. /\ Table(nodes, NodeOrHole) /\ Hole \in NodeOrHole
      /\ debug' = debug /\ dimension' = dimension /\ final_field' = final_field /\ edits' = edits
  BY DEF Typed, UpsertNode, NodeOrHole
<1>3. CASE Known(id)
  <2>1. Get(nodes, node_keys[id]) # Hole /\ id \in DOMAIN node_keys
    BY <1>3 DEF KeysMatchNodes, Known
  <2>2. nodes' = Overwrite(nodes, node_keys[id], node) /\ node_keys' = node_keys
    BY <1>3, <2>1 DEF UpsertNode
  <2> QED
    BY <1>1, <1>2, <2>1, <2>2, ReplaceStep
<1>4. CASE ~Known(id)
  <2> DEFINE key == InsertedKey(nodes)
  <2>1. nodes' = Insert(nodes, node) /\ node_keys' = WithKey(id, key)
    BY <1>4 DEF UpsertNode
  <2>2. id \notin DOMAIN node_keys
    BY <1>4 DEF Known
  <2>3. /\ Table(nodes', NodeOrHole) /\ Get(nodes', key) = node
        /\ \A k : Get(nodes, k) # Hole => Get(nodes', k) = Get(nodes, k)
        /\ KeyOf(nodes', key.index) = key
        /\ SameSlots(nodes, nodes', key.index)
    BY <1>1, <1>2, <2>1, InsertKeepsOthers
  <2>4. /\ DOMAIN node_keys' = DOMAIN node_keys \cup {id}
        /\ node_keys' = [x \in DOMAIN node_keys' |-> node_keys'[x]]
        /\ node_keys'[id] = key
        /\ \A x \in DOMAIN node_keys : node_keys'[x] = node_keys[x]
    BY <2>1, <2>2 DEF WithKey
  <2>5. Typed'
    BY <1>1, <1>2, <2>3, <2>4 DEF Typed
  <2>6. nodes'.slots[key.index].value = node
    BY <1>1, <2>3 DEF Get
  <2>7. \A x \in DOMAIN node_keys' : Get(nodes', node_keys'[x]) # Hole /\ Get(nodes', node_keys'[x]).id = x
    <3> TAKE x \in DOMAIN node_keys'
    <3>1. CASE x = id
      BY <3>1, <1>1, <2>3, <2>4
    <3>2. CASE x # id
      <4>1. x \in DOMAIN node_keys /\ node_keys'[x] = node_keys[x]
        BY <3>2, <2>4
      <4>2. Get(nodes, node_keys[x]) # Hole /\ Get(nodes, node_keys[x]).id = x
        BY <4>1 DEF KeysMatchNodes
      <4> QED
        BY <2>3, <4>1, <4>2
    <3> QED
      BY <3>1, <3>2
  <2>8. \A i \in DOMAIN nodes'.slots : nodes'.slots[i].value # Hole =>
          /\ nodes'.slots[i].value.id \in DOMAIN node_keys'
          /\ node_keys'[nodes'.slots[i].value.id] = KeyOf(nodes', i)
    <3> TAKE i \in DOMAIN nodes'.slots
    <3>1. CASE i = key.index
      BY <3>1, <2>3, <2>4, <2>6
    <3>2. CASE i # key.index
      <4>1. i \in DOMAIN nodes.slots /\ nodes'.slots[i] = nodes.slots[i]
        BY <3>2, <2>3 DEF SameSlots
      <4>2. nodes.slots[i].value # Hole =>
              /\ nodes.slots[i].value.id \in DOMAIN node_keys
              /\ node_keys[nodes.slots[i].value.id] = KeyOf(nodes, i)
        BY <4>1 DEF KeysMatchNodes
      <4> QED
        BY <4>1, <4>2, <2>4 DEF KeyOf
    <3> QED
      BY <3>1, <3>2
  <2>9. KeysMatchNodes'
    BY <2>7, <2>8 DEF KeysMatchNodes
  <2> QED
    BY <2>5, <2>9
<1> QED
  BY <1>3, <1>4

LEMMA RemoveStep == Typed /\ KeysMatchNodes /\ RemoveNode => Typed' /\ KeysMatchNodes'
<1> SUFFICES ASSUME Typed, KeysMatchNodes, RemoveNode
             PROVE  Typed' /\ KeysMatchNodes'
  OBVIOUS
<1> DEFINE id == Head(pending).id
           key == node_keys[id]
<1>1. pending' \in Seq(Change)
  BY ChangingTyped DEF RemoveNode
<1>2. /\ Table(nodes, NodeOrHole) /\ Hole \in NodeOrHole
      /\ debug' = debug /\ dimension' = dimension /\ final_field' = final_field /\ edits' = edits
  BY DEF Typed, RemoveNode, NodeOrHole
<1>3. /\ nodes' = IF Known(id) THEN RemoveKey(nodes, key) ELSE nodes
      /\ DOMAIN node_keys' = DOMAIN node_keys \ {id}
      /\ node_keys' = [x \in DOMAIN node_keys' |-> node_keys'[x]]
      /\ \A x \in DOMAIN node_keys' : node_keys'[x] = node_keys[x]
  BY DEF RemoveNode
<1>4. CASE ~Known(id)
  <2>1. nodes' = nodes /\ node_keys' = node_keys
    BY <1>3, <1>4 DEF Known, Typed
  <2>2. Typed'
    BY <1>1, <1>2, <2>1 DEF Typed
  <2> QED
    BY <2>1, <2>2 DEF KeysMatchNodes
<1>5. CASE Known(id)
  <2>1. id \in DOMAIN node_keys /\ Get(nodes, key) # Hole /\ Get(nodes, key).id = id
    BY <1>5 DEF KeysMatchNodes, Known
  <2>2. /\ Table(nodes', NodeOrHole) /\ Get(nodes', key) = Hole
        /\ SameSlots(nodes, nodes', key.index)
    BY <1>2, <1>3, <1>5, <2>1, RemoveMakesKeyStale, SMTT(30)
  <2>3. nodes'.slots[key.index].value = Hole
    BY <1>3, <1>5, <2>1 DEF RemoveKey, Vacated, Get
  <2>4. Typed'
    BY <1>1, <1>2, <1>3, <2>2 DEF Typed
  <2>5. \A x \in DOMAIN node_keys' : Get(nodes', node_keys'[x]) # Hole /\ Get(nodes', node_keys'[x]).id = x
    <3> TAKE x \in DOMAIN node_keys'
    <3>1. x \in DOMAIN node_keys /\ x # id /\ node_keys'[x] = node_keys[x]
      BY <1>3
    <3>2. node_keys[x].index # key.index
      BY <3>1, <2>1, KeysDiffer
    <3>3. Get(nodes', node_keys[x]) = Get(nodes, node_keys[x])
      BY <2>2, <3>2, SameFound, SMTT(30)
    <3> QED
      BY <3>1, <3>3 DEF KeysMatchNodes
  <2>6. \A i \in DOMAIN nodes'.slots : nodes'.slots[i].value # Hole =>
          /\ nodes'.slots[i].value.id \in DOMAIN node_keys'
          /\ node_keys'[nodes'.slots[i].value.id] = KeyOf(nodes', i)
    <3> SUFFICES ASSUME NEW i \in DOMAIN nodes'.slots, nodes'.slots[i].value # Hole
                 PROVE  /\ nodes'.slots[i].value.id \in DOMAIN node_keys'
                        /\ node_keys'[nodes'.slots[i].value.id] = KeyOf(nodes', i)
      OBVIOUS
    <3>1. i # key.index
      BY <2>3
    <3>2. i \in DOMAIN nodes.slots /\ nodes'.slots[i] = nodes.slots[i]
      BY <3>1, <2>2 DEF SameSlots
    <3>3. /\ nodes.slots[i].value.id \in DOMAIN node_keys
          /\ node_keys[nodes.slots[i].value.id] = KeyOf(nodes, i)
      BY <3>2 DEF KeysMatchNodes
    <3>4. nodes.slots[i].value.id # id
      BY <3>1, <3>3 DEF KeyOf
    <3> QED
      BY <1>3, <3>2, <3>3, <3>4 DEF KeyOf
  <2>7. KeysMatchNodes'
    BY <2>5, <2>6 DEF KeysMatchNodes
  <2> QED
    BY <2>4, <2>7
<1> QED
  BY <1>4, <1>5

LEMMA ResetStep == Typed /\ KeysMatchNodes /\ Reset => Typed' /\ KeysMatchNodes'
<1> SUFFICES ASSUME Typed, KeysMatchNodes, Reset
             PROVE  Typed' /\ KeysMatchNodes'
  OBVIOUS
<1>1. PICK spec \in Specs : dimension' = spec.dimension /\ final_field' = spec.final /\ pending' = Upserts(spec)
  BY DEF Reset, Begin
<1>2. /\ Table(nodes', NodeOrHole)
      /\ \A i \in DOMAIN nodes'.slots : nodes'.slots[i].value = Hole
  BY ClearReuseEmpties DEF Reset, Typed, NodeOrHole
<1>3. pending' \in Seq(Change) /\ debug' = debug /\ edits' \in 0..MaxEdits
  BY <1>1, UpsertsTyped, MaxEditsAssumption DEF Reset, Editing, Typed
<1>4. DOMAIN node_keys' = {} /\ node_keys' = [id \in DOMAIN node_keys' |-> node_keys'[id]]
  BY DEF Reset
<1>5. Typed'
  BY <1>1, <1>2, <1>3, <1>4, SpecsAssumption DEF Typed
<1> QED
  BY <1>2, <1>4, <1>5 DEF KeysMatchNodes

LEMMA Inductive == Typed /\ KeysMatchNodes /\ [Next]_vars => Typed' /\ KeysMatchNodes'
<1> SUFFICES ASSUME Typed, KeysMatchNodes, [Next]_vars
             PROVE  Typed' /\ KeysMatchNodes'
  OBVIOUS
<1>1. CASE Apply
  <2>1. pending' \in Seq(Change)
    BY <1>1, BatchTyped DEF Apply, Begin, Change
  <2>2. edits' \in 0..MaxEdits
    BY <1>1, MaxEditsAssumption DEF Apply, Editing, Typed
  <2>3. UNCHANGED <<debug, graphVars>>
    BY <1>1 DEF Apply
  <2> QED
    BY <2>1, <2>2, <2>3 DEF Typed, KeysMatchNodes, graphVars
<1>2. CASE Reset
  BY <1>2, ResetStep
<1>3. CASE UpsertNode
  BY <1>3, UpsertStep
<1>4. CASE RemoveNode
  BY <1>4, RemoveStep
<1>5. CASE SetFinalField
  <2>1. pending' \in Seq(Change) /\ final_field' \in Ids
    BY <1>5, ChangingTyped DEF SetFinalField
  <2> QED
    BY <1>5, <2>1 DEF SetFinalField, Typed, KeysMatchNodes
<1>6. CASE Compile
  BY <1>6 DEF Compile, Typed, KeysMatchNodes, graphVars
<1>7. CASE ResolveBatch
  BY <1>7 DEF ResolveBatch, Typed, KeysMatchNodes, graphVars
<1>8. CASE UNCHANGED vars
  BY <1>8 DEF vars, Typed, KeysMatchNodes, graphVars
<1> QED
  BY <1>1, <1>2, <1>3, <1>4, <1>5, <1>6, <1>7, <1>8 DEF Next

LEMMA Invariant == Spec => [](Typed /\ KeysMatchNodes)
<1>1. Init => Typed /\ KeysMatchNodes
  BY InitInvariant
<1>2. (Typed /\ KeysMatchNodes) /\ [Next]_vars => (Typed /\ KeysMatchNodes)'
  BY Inductive
<1> QED
  BY <1>1, <1>2, PTL DEF Spec

(* The planner's state keeps its types: the table in order, with nodes in  *)
(* it and the free list of its holes, ids and dimension that exist.        *)
THEOREM TypeCorrect == Spec => []TypeOK
<1>1. Typed => TypeOK
  <2> SUFFICES ASSUME Typed
               PROVE  TypeOK
    OBVIOUS
  <2>1. TableOK(nodes) /\ \A i \in DOMAIN nodes.slots : nodes.slots[i].value \in NodeOrHole
    BY TableIsOK DEF Typed
  <2> QED
    BY <2>1 DEF Typed, TypeOK, NodeOrHole
<1> QED
  BY <1>1, Invariant, PTL

(* After any edits and resets, every id in node_keys finds the live node   *)
(* of that id, and every live node is found under its id: upserts replace  *)
(* in place, and no removed or cleared node is compiled again              *)
(* (runtime.rs:374-401).                                                   *)
THEOREM KeysAlwaysMatch == Spec => []KeysMatchNodes
BY Invariant, PTL
-----------------------------------------------------------------------------
(* ---- the order in which the nodes are compiled ------------------------ *)

Size(g) == Len(g.nodes)

(* A graph of which every node that a node refers to exists.               *)
Linked(g) ==
  /\ Size(g) \in Nat /\ DOMAIN g.nodes = 1..Size(g)
  /\ \A h \in 1..Size(g) : /\ Dependencies(g, h) \in Seq(1..Size(g))
                           /\ Len(Dependencies(g, h)) = Len(References(g.nodes[h]))

Degree(g, h) == Len(Dependencies(g, h))

Refs(g) == {edge \in (1..Size(g)) \X Nat : edge[2] \in 1..Degree(g, edge[1])}

LEMMA DependenciesOf ==
  ASSUME NEW g, Linked(g), NEW h \in 1..Size(g)
  PROVE  /\ Degree(g, h) \in Nat /\ DOMAIN Dependencies(g, h) = 1..Degree(g, h)
         /\ \A i \in 1..Degree(g, h) : Dependencies(g, h)[i] \in 1..Size(g)
<1>1. Dependencies(g, h) \in Seq(1..Size(g))
  BY DEF Linked
<1>2. /\ Len(Dependencies(g, h)) \in Nat /\ DOMAIN Dependencies(g, h) = 1..Len(Dependencies(g, h))
      /\ Dependencies(g, h) \in [1..Len(Dependencies(g, h)) -> 1..Size(g)]
  BY <1>1, LenProperties
<1> QED
  BY <1>2 DEF Degree

LEMMA EdgesAre ==
  ASSUME NEW g, Linked(g)
  PROVE  /\ Edges(g) \in Seq(Refs(g)) /\ Distinct(Edges(g))
         /\ Members(Edges(g), Len(Edges(g))) = Refs(g)
<1> DEFINE X == Refs(g)
           n == Size(g)
           seqs == [h \in Handles(g) |-> [i \in DOMAIN Dependencies(g, h) |-> <<h, i>>]]
<1>1. n \in Nat /\ Handles(g) = 1..n
  BY DEF Linked, Handles
<1>2. ASSUME NEW h \in 1..n
      PROVE  /\ seqs[h] \in Seq(X) /\ Len(seqs[h]) = Degree(g, h)
             /\ \A i \in 1..Degree(g, h) : seqs[h][i] = <<h, i>>
  <2>1. Degree(g, h) \in Nat /\ seqs[h] = [i \in 1..Degree(g, h) |-> <<h, i>>]
    BY <1>1, DependenciesOf
  <2>2. seqs[h] \in [1..Degree(g, h) -> X]
    BY <2>1, SMTT(30) DEF Refs
  <2> QED
    BY <2>1, <2>2, FunctionIsSeq
<1>3. seqs \in [1..n -> Seq(X)]
  BY <1>1, <1>2
<1> HIDE DEF seqs, X
<1>4. seqs \in Seq(Seq(X)) /\ Len(seqs) = n
  BY <1>1, <1>3, FunctionIsSeq
<1>5. ConcatOf(Concat(seqs), X, seqs, n)
  BY <1>4, ConcatIs
<1>6. Apart(seqs)
  BY <1>2, <1>4 DEF Apart
<1>7. Spread(seqs, n) = Refs(g)
  <2>1. ASSUME NEW h \in 1..n
        PROVE  Members(seqs[h], Len(seqs[h])) = {<<h, i>> : i \in 1..Degree(g, h)}
    BY <1>2 DEF Members
  <2>2. Spread(seqs, n) = UNION {{<<h, i>> : i \in 1..Degree(g, h)} : h \in 1..n}
    BY <2>1 DEF Spread
  <2>3. ASSUME NEW e \in Refs(g)
        PROVE  e \in Spread(seqs, n)
    <3>1. e = <<e[1], e[2]>> /\ e[1] \in 1..n /\ e[2] \in 1..Degree(g, e[1])
      BY DEF Refs
    <3> QED
      BY <2>2, <3>1
  <2>4. ASSUME NEW e \in Spread(seqs, n)
        PROVE  e \in Refs(g)
    <3>1. PICK h \in 1..n : e \in {<<h, i>> : i \in 1..Degree(g, h)}
      BY <2>2
    <3>2. PICK i \in 1..Degree(g, h) : e = <<h, i>>
      BY <3>1
    <3>3. Degree(g, h) \in Nat
      BY DependenciesOf
    <3>4. i \in Nat
      BY <3>3
    <3> QED
      BY <3>2, <3>4 DEF Refs
  <2> QED
    BY <2>3, <2>4
<1>8. Edges(g) = Concat(seqs)
  BY DEF Edges, seqs
<1> QED
  BY <1>5, <1>6, <1>7, <1>8 DEF ConcatOf, X

LEMMA AdjacencyIs ==
  ASSUME NEW g, Linked(g), NEW v
  PROVE  /\ Adjacency(g, v) \in Seq(Refs(g)) /\ Distinct(Adjacency(g, v))
         /\ Members(Adjacency(g, v), Len(Adjacency(g, v))) =
              {edge \in Refs(g) : Dependencies(g, edge[1])[edge[2]] = v}
<1> DEFINE E == Edges(g)
           S == {edge \in ToSet(E) : Dependencies(g, edge[1])[edge[2]] = v}
<1>1. E \in Seq(Refs(g)) /\ Distinct(E) /\ Members(E, Len(E)) = Refs(g)
  BY EdgesAre
<1>2. Adjacency(g, v) = Kept(E, S)
  BY DEF Adjacency
<1>3. ToSet(E) = Refs(g)
  BY <1>1, LenProperties DEF ToSet, Members
<1> HIDE DEF E
<1>4. KeptOf(Kept(E, S), Refs(g), E, S, Len(E))
  BY <1>1, KeptIs
<1>5. Once(E, S)
  BY <1>1 DEF Distinct, Once
<1> QED
  BY <1>1, <1>2, <1>3, <1>4, <1>5 DEF KeptOf

SortState(n) == [indegree : [1..n -> Nat], sorted : Seq(1..n), queue : Seq(1..n)]

Done(s) == Members(s.sorted, Len(s.sorted))
Queued(s) == Members(s.queue, Len(s.queue))

(* The references of a node for which it waits still.                      *)
Waits(g, h, done, gone) ==
  {i \in 1..Degree(g, h) : Dependencies(g, h)[i] \notin done /\ <<h, i>> \notin gone}

(* Each node waits for as many references as its indegree says, and is     *)
(* sorted or queued, once, when that is none.                              *)
Balanced(g, s, done, gone) ==
  /\ s \in SortState(Size(g))
  /\ Distinct(s.sorted) /\ Distinct(s.queue) /\ Done(s) \cap Queued(s) = {}
  /\ \A h \in 1..Size(g) : /\ s.indegree[h] = Cardinality(Waits(g, h, done, gone))
                           /\ h \in Done(s) \cup Queued(s) <=> s.indegree[h] = 0

(* Every node comes after those it refers to.                              *)
Ordered(g, order) ==
  \A i \in 1..Len(order) : \A k \in 1..Degree(g, order[i]) : Dependencies(g, order[i])[k] \in Members(order, i - 1)

Sorting(g, s) == Balanced(g, s, Done(s), {}) /\ Ordered(g, s.sorted)

(* What SortStep does for one reference.                                   *)
Follow(t, edge) ==
  LET child == edge[1]
      left == IF t.indegree[child] = 0 THEN 0 ELSE t.indegree[child] - 1
  IN  [t EXCEPT !.indegree[child] = left, !.queue = IF left = 0 THEN Append(@, child) ELSE @]

LEMMA FollowIs ==
  ASSUME NEW n \in Nat, NEW t \in SortState(n), NEW edge, edge[1] \in 1..n
  PROVE  LET left == IF t.indegree[edge[1]] = 0 THEN 0 ELSE t.indegree[edge[1]] - 1
         IN  Follow(t, edge) = [indegree |-> [t.indegree EXCEPT ![edge[1]] = left], sorted |-> t.sorted,
                                queue |-> IF left = 0 THEN Append(t.queue, edge[1]) ELSE t.queue]
<1> DEFINE left == IF t.indegree[edge[1]] = 0 THEN 0 ELSE t.indegree[edge[1]] - 1
           queue == IF left = 0 THEN Append(t.queue, edge[1]) ELSE t.queue
           indegree == [t.indegree EXCEPT ![edge[1]] = left]
<1>1. t = [indegree |-> t.indegree, sorted |-> t.sorted, queue |-> t.queue]
  BY DEF SortState
<1>2. Follow(t, edge) = [t EXCEPT !.indegree = indegree, !.queue = queue]
  BY DEF Follow
<1> HIDE DEF left, queue, indegree
<1>3. Follow(t, edge) = [indegree |-> indegree, sorted |-> t.sorted, queue |-> queue]
  BY <1>1, <1>2
<1> QED
  BY <1>3 DEF left, queue, indegree

LEMMA FollowTyped ==
  ASSUME NEW n \in Nat, NEW t \in SortState(n), NEW edge, edge[1] \in 1..n
  PROVE  Follow(t, edge) \in SortState(n)
<1> DEFINE c == edge[1]
           left == IF t.indegree[c] = 0 THEN 0 ELSE t.indegree[c] - 1
           queue == IF left = 0 THEN Append(t.queue, c) ELSE t.queue
           indegree == [t.indegree EXCEPT ![c] = left]
<1>1. t.indegree \in [1..n -> Nat] /\ t.sorted \in Seq(1..n) /\ t.queue \in Seq(1..n)
  BY DEF SortState
<1>2. left \in Nat
  BY <1>1
<1>3. queue \in Seq(1..n)
  <2> HIDE DEF left
  <2> QED
    BY <1>1, AppendProperties
<1>4. indegree \in [1..n -> Nat]
  <2> HIDE DEF left
  <2> QED
    BY <1>1, <1>2
<1>5. Follow(t, edge) = [indegree |-> indegree, sorted |-> t.sorted, queue |-> queue]
  BY FollowIs
<1> HIDE DEF indegree, queue
<1> QED
  BY <1>1, <1>3, <1>4, <1>5 DEF SortState

LEMMA WaitsFinite ==
  ASSUME NEW g, Linked(g), NEW h \in 1..Size(g), NEW done, NEW gone
  PROVE  IsFiniteSet(Waits(g, h, done, gone)) /\ Cardinality(Waits(g, h, done, gone)) \in Nat
<1>1. Degree(g, h) \in Nat
  BY DependenciesOf
<1>2. IsFiniteSet(1..Degree(g, h))
  BY <1>1, FS_Interval
<1>3. Waits(g, h, done, gone) \in SUBSET (1..Degree(g, h))
  BY DEF Waits
<1> QED
  BY <1>2, <1>3, FS_Subset, FS_CardinalityType

Followed(g, u, t, done, gone) == Balanced(g, u, done, gone) /\ u.sorted = t.sorted

(* A reference that was waited for is followed.                            *)
LEMMA BalancedFollow ==
  ASSUME NEW g, Linked(g), NEW t, NEW done, NEW gone, Balanced(g, t, done, gone),
         NEW edge \in Refs(g), edge \notin gone, Dependencies(g, edge[1])[edge[2]] \notin done
  PROVE  Followed(g, Follow(t, edge), t, done, gone \cup {edge})
<1> DEFINE n == Size(g)
           c == edge[1]
           p == edge[2]
           u == Follow(t, edge)
           all == gone \cup {edge}
<1>1. n \in Nat /\ c \in 1..n /\ p \in 1..Degree(g, c) /\ edge = <<c, p>>
  BY DEF Linked, Refs
<1>2. /\ t \in SortState(n) /\ t.indegree \in [1..n -> Nat] /\ t.sorted \in Seq(1..n) /\ t.queue \in Seq(1..n)
      /\ Distinct(t.sorted) /\ Distinct(t.queue) /\ Done(t) \cap Queued(t) = {}
      /\ \A h \in 1..n : t.indegree[h] = Cardinality(Waits(g, h, done, gone))
      /\ \A h \in 1..n : h \in Done(t) \cup Queued(t) <=> t.indegree[h] = 0
  BY DEF Balanced, SortState
<1>3. Waits(g, c, done, all) = Waits(g, c, done, gone) \ {p} /\ p \in Waits(g, c, done, gone)
  BY <1>1 DEF Waits
<1>4. ASSUME NEW h \in 1..n, h # c
      PROVE  Waits(g, h, done, all) = Waits(g, h, done, gone)
  BY <1>1, <1>4 DEF Waits
<1>5. IsFiniteSet(Waits(g, c, done, gone)) /\ Cardinality(Waits(g, c, done, gone)) \in Nat
  BY <1>1, WaitsFinite
<1>6. Cardinality(Waits(g, c, done, all)) = Cardinality(Waits(g, c, done, gone)) - 1
  <2>1. Cardinality(Waits(g, c, done, gone) \ {p}) = Cardinality(Waits(g, c, done, gone)) - 1
    BY <1>3, <1>5, FS_RemoveElement
  <2> QED
    BY <1>3, <2>1, Zenon
<1>7. t.indegree[c] # 0
  BY <1>1, <1>2, <1>3, <1>5, FS_EmptySet
<1>8. PICK left \in Nat : left = t.indegree[c] - 1
  BY <1>1, <1>2, <1>7
<1>9. u = [indegree |-> [t.indegree EXCEPT ![c] = left], sorted |-> t.sorted,
           queue |-> IF left = 0 THEN Append(t.queue, c) ELSE t.queue]
  BY <1>1, <1>2, <1>7, <1>8, FollowIs
<1>a. /\ u.sorted = t.sorted /\ u.queue = (IF left = 0 THEN Append(t.queue, c) ELSE t.queue)
      /\ \A h \in 1..n : u.indegree[h] = IF h = c THEN left ELSE t.indegree[h]
  BY <1>1, <1>2, <1>9
<1>b. u \in SortState(n)
  BY <1>1, <1>2, FollowTyped
<1> HIDE DEF u, all
<1>c. ASSUME NEW h \in 1..n
      PROVE  u.indegree[h] = Cardinality(Waits(g, h, done, all))
  <2>1. CASE h = c
    <3>1. t.indegree[c] = Cardinality(Waits(g, c, done, gone))
      BY <1>1, <1>2
    <3>2. u.indegree[c] = Cardinality(Waits(g, c, done, gone)) - 1
      BY <1>1, <1>8, <1>a, <3>1
    <3> QED
      BY <1>6, <2>1, <3>2
  <2>2. CASE h # c
    <3>1. u.indegree[h] = t.indegree[h] /\ t.indegree[h] = Cardinality(Waits(g, h, done, gone))
      BY <1>2, <1>a, <2>2
    <3> QED
      BY <1>4, <2>2, <3>1
  <2> QED
    BY <2>1, <2>2
<1>d. Done(u) = Done(t) /\ c \notin Done(t) /\ c \notin Queued(t)
  BY <1>1, <1>2, <1>7, <1>a DEF Done
<1>e. CASE left = 0
  <2>1. u.queue = Append(t.queue, c) /\ Len(u.queue) = Len(t.queue) + 1
    BY <1>1, <1>2, <1>a, <1>e, AppendProperties
  <2>2. Queued(u) = Queued(t) \cup {c}
    <3>1. Members(Append(t.queue, c), Len(t.queue) + 1) = Members(t.queue, Len(t.queue)) \cup {c}
      <4>1. t.queue \in Seq(1..n) /\ c \in 1..n
        BY <1>1, <1>2
      <4> HIDE DEF c, n
      <4> QED
        BY <4>1, MembersAppend, ZenonT(30)
    <3> QED
      BY <2>1, <3>1 DEF Queued
  <2>3. Distinct(u.queue)
    BY <1>1, <1>2, <1>d, <2>1, DistinctAppend DEF Queued
  <2>4. ASSUME NEW h \in 1..n
        PROVE  h \in Done(u) \cup Queued(u) <=> u.indegree[h] = 0
    BY <1>2, <1>a, <1>d, <1>e, <2>2
  <2>5. Done(u) \cap Queued(u) = {} /\ Distinct(u.sorted) /\ u.sorted = t.sorted
    BY <1>2, <1>a, <1>d, <2>2
  <2>6. Balanced(g, u, done, all)
    BY <1>b, <1>c, <2>3, <2>4, <2>5 DEF Balanced
  <2> QED
    BY <2>5, <2>6 DEF u, all, Followed
<1>f. CASE left # 0
  <2>1. u.queue = t.queue /\ Queued(u) = Queued(t)
    BY <1>a, <1>f DEF Queued
  <2>2. ASSUME NEW h \in 1..n
        PROVE  h \in Done(u) \cup Queued(u) <=> u.indegree[h] = 0
    BY <1>2, <1>a, <1>d, <1>f, <2>1
  <2> QED
    BY <1>2, <1>a, <1>b, <1>c, <1>d, <2>1, <2>2 DEF Balanced, u, all, Followed
<1> QED
  BY <1>e, <1>f

Popped(s) == [s EXCEPT !.queue = Tail(@), !.sorted = Append(@, Head(s.queue))]

LEMMA PoppedIs ==
  ASSUME NEW n \in Nat, NEW s \in SortState(n), s.queue # <<>>
  PROVE  /\ Popped(s) \in SortState(n) /\ Popped(s).indegree = s.indegree
         /\ Popped(s).queue = Tail(s.queue) /\ Popped(s).sorted = Append(s.sorted, Head(s.queue))
         /\ Head(s.queue) \in 1..n
<1> DEFINE queue == Tail(s.queue)
           sorted == Append(s.sorted, Head(s.queue))
<1>1. /\ s = [indegree |-> s.indegree, sorted |-> s.sorted, queue |-> s.queue]
      /\ s.indegree \in [1..n -> Nat] /\ s.sorted \in Seq(1..n) /\ s.queue \in Seq(1..n)
  BY DEF SortState
<1>2. Head(s.queue) \in 1..n /\ queue \in Seq(1..n)
  BY <1>1, HeadTailProperties
<1>3. sorted \in Seq(1..n)
  BY <1>1, <1>2, AppendProperties
<1>4. Popped(s) = [s EXCEPT !.queue = queue, !.sorted = sorted]
  BY DEF Popped
<1> HIDE DEF queue, sorted
<1>5. Popped(s) = [indegree |-> s.indegree, sorted |-> sorted, queue |-> queue]
  BY <1>1, <1>4
<1>6. Popped(s) \in SortState(n)
  BY <1>1, <1>2, <1>3, <1>5 DEF SortState
<1> QED
  BY <1>2, <1>5, <1>6 DEF queue, sorted

FollowSteps(n, edges) == [m \in 1..Len(edges) |-> [t \in SortState(n) |-> Follow(t, edges[m])]]

LEMMA SortStepChain ==
  ASSUME NEW g, Linked(g), NEW s \in SortState(Size(g)), s.queue # <<>>,
         NEW edges, edges = Adjacency(g, Head(s.queue))
  PROVE  Chained(SortStep(g, s), Len(edges), SortState(Size(g)), Popped(s), FollowSteps(Size(g), edges))
<1> DEFINE G == SortState(Size(g))
           base == Popped(s)
           all == Adjacency(g, Head(s.queue))
<1>0. PICK n \in Nat : n = Len(edges) /\ DOMAIN edges = 1..n /\ \A m \in 1..n : edges[m] \in Refs(g)
  BY AdjacencyIs, LenProperties
<1> DEFINE step == FollowSteps(Size(g), edges)
           h == CHOOSE f : f = [t \in SUBSET (DOMAIN edges) |->
                                  IF t = {} THEN base ELSE Follow(f[t \ {Max(t)}], edges[Max(t)])]
<1>1. base \in G /\ Size(g) \in Nat
  BY PoppedIs DEF Linked
<1>2. \A m \in 1..n : \A t \in G : Follow(t, edges[m]) \in G
  <2> TAKE m \in 1..n
  <2>1. edges[m][1] \in 1..Size(g)
    BY <1>0 DEF Refs
  <2> QED
    BY <1>1, <2>1, FollowTyped
<1>3. step \in [1..n -> [G -> G]] /\ \A m \in 1..n : \A t \in G : step[m][t] = Follow(t, edges[m])
  BY <1>0, <1>2 DEF FollowSteps
<1>4. SortStep(g, s) = h[DOMAIN edges]
  <2>1. SortStep(g, s) = FoldLeft(Follow, Popped(s), all)
    BY Zenon DEF SortStep, Follow, Popped, FoldLeft, MapThenFoldSet
  <2>2. FoldLeft(Follow, Popped(s), all) = FoldLeft(Follow, Popped(s), edges)
    BY Zenon DEF FoldLeft, MapThenFoldSet
  <2>3. FoldLeft(Follow, Popped(s), edges) = h[DOMAIN edges]
    BY Zenon DEF FoldLeft, MapThenFoldSet
  <2> QED
    BY <2>1, <2>2, <2>3, Zenon
<1> HIDE DEF step, G, base
<1>5. Folds(n, G, base, step)
  BY <1>1, <1>3, FoldExists
<1>6. PICK f \in [SUBSET (1..n) -> G] : IsFold(f, n, base, step)
  BY <1>5 DEF Folds
<1>7. \A t \in SUBSET (1..n) : t # {} => Max(t) \in 1..n /\ t \ {Max(t)} \in SUBSET (1..n)
  BY MaxOf
<1>8. f = [t \in SUBSET (1..n) |-> IF t = {} THEN base ELSE Follow(f[t \ {Max(t)}], edges[Max(t)])]
  <2>1. ASSUME NEW t \in SUBSET (1..n)
        PROVE  f[t] = IF t = {} THEN base ELSE Follow(f[t \ {Max(t)}], edges[Max(t)])
    BY <1>3, <1>6, <1>7 DEF IsFold
  <2> QED
    BY <1>6, <2>1
<1>9. h = [t \in SUBSET (1..n) |-> IF t = {} THEN base ELSE Follow(h[t \ {Max(t)}], edges[Max(t)])]
  BY <1>0, <1>8, ZenonT(30)
<1> HIDE DEF h
<1>a. h[{}] = base
  BY <1>9
<1>b. \A t \in SUBSET (1..n) : t # {} /\ h[t \ {Max(t)}] \in G => h[t] = step[Max(t)][h[t \ {Max(t)}]]
  BY <1>3, <1>7, <1>9
<1>c. Chained(h[1..n], n, G, base, step)
  BY <1>1, <1>3, <1>a, <1>b, FoldChain, Zenon
<1> QED
  BY <1>0, <1>4, <1>c DEF step, G, base

(* A turn of the sorting loop.                                             *)
LEMMA SortStepKeeps ==
  ASSUME NEW g, Linked(g), NEW s, Sorting(g, s), s.queue # <<>>
  PROVE  Sorting(g, SortStep(g, s)) /\ Len(SortStep(g, s).sorted) = Len(s.sorted) + 1
<1> DEFINE n == Size(g)
           G == SortState(n)
           v == Head(s.queue)
           edges == Adjacency(g, v)
           base == Popped(s)
           done == Done(s)
           step == FollowSteps(n, edges)
           u == SortStep(g, s)
<1>1. /\ n \in Nat /\ s \in G /\ Distinct(s.sorted) /\ Distinct(s.queue) /\ Done(s) \cap Queued(s) = {}
      /\ \A h \in 1..n : s.indegree[h] = Cardinality(Waits(g, h, done, {}))
      /\ \A h \in 1..n : h \in Done(s) \cup Queued(s) <=> s.indegree[h] = 0
      /\ Ordered(g, s.sorted) /\ s.sorted \in Seq(1..n) /\ s.queue \in Seq(1..n)
  BY DEF Sorting, Balanced, Linked, SortState
<1>2. /\ base \in G /\ base.indegree = s.indegree /\ base.queue = Tail(s.queue)
      /\ base.sorted = Append(s.sorted, v) /\ v \in 1..n
  BY <1>1, PoppedIs
<1> HIDE DEF base
<1>3. Len(base.sorted) = Len(s.sorted) + 1 /\ Done(base) = Done(s) \cup {v} /\ Len(s.sorted) \in Nat
  <2>1. s.sorted \in Seq(1..n) /\ v \in 1..n
    BY <1>1, <1>2
  <2> HIDE DEF v, n
  <2>2. Extended(Append(s.sorted, v), 1..n, s.sorted, v)
    BY <2>1, AppendExtends, Zenon
  <2> QED
    BY <1>2, <2>2 DEF Done, Extended
<1>4. v \in Queued(s) /\ v \notin Queued(base) /\ Queued(s) = Queued(base) \cup {v} /\ Distinct(base.queue)
  <2> DEFINE q == s.queue
             r == Tail(q)
  <2>1. PICK m \in Nat : m = Len(q)
    BY <1>1, LenProperties
  <2>2. m # 0 /\ Len(r) = m - 1 /\ v = q[1] /\ \A i \in 1..(m - 1) : r[i] = q[i + 1]
    BY <1>1, <2>1, HeadTailProperties, EmptySeq
  <2>3. \A i, j \in 1..m : q[i] = q[j] => i = j
    BY <1>1, <2>1 DEF Distinct
  <2> HIDE DEF r, v, q
  <2>4. 1 \in 1..m /\ \A i \in 1..(m - 1) : i + 1 \in 1..m /\ i + 1 # 1
    BY <2>2
  <2>5. Distinct(r)
    <3> SUFFICES ASSUME NEW i \in 1..(m - 1), NEW j \in 1..(m - 1), r[i] = r[j]
                 PROVE  i = j
      BY <2>2 DEF Distinct
    <3>1. q[i + 1] = q[j + 1]
      BY <2>2
    <3>2. i + 1 = j + 1
      BY <2>3, <2>4, <3>1
    <3> QED
      BY <3>2
  <2>6. v \notin Members(r, m - 1)
    BY <2>2, <2>3, <2>4 DEF Members
  <2>7. Members(q, m) = Members(r, m - 1) \cup {v}
    <3>1. ASSUME NEW i \in 1..m
          PROVE  q[i] \in Members(r, m - 1) \cup {v}
      <4>1. CASE i = 1
        BY <2>2, <4>1
      <4>2. CASE i # 1
        <5>1. PICK k \in 1..(m - 1) : i = k + 1
          <6>1. i - 1 \in 1..(m - 1) /\ i = (i - 1) + 1
            BY <4>2
          <6> QED
            BY <6>1
        <5> QED
          BY <2>2, <5>1 DEF Members
      <4> QED
        BY <4>1, <4>2
    <3>2. ASSUME NEW i \in 1..(m - 1)
          PROVE  r[i] \in Members(q, m)
      BY <2>2, <2>4 DEF Members
    <3>3. v \in Members(q, m)
      BY <2>2, <2>4 DEF Members
    <3> QED
      BY <3>1, <3>2, <3>3 DEF Members
  <2> QED
    BY <1>2, <2>1, <2>2, <2>5, <2>6, <2>7 DEF Queued, r, q
<1>5. v \notin done /\ Distinct(base.sorted) /\ Done(base) \cap Queued(base) = {}
  <2>1. v \notin done
    BY <1>1, <1>4
  <2>2. Distinct(Append(s.sorted, v))
    <3>1. s.sorted \in Seq(1..n) /\ v \in 1..n /\ Distinct(s.sorted) /\ v \notin Members(s.sorted, Len(s.sorted))
      BY <1>1, <1>2, <2>1 DEF Done
    <3> HIDE DEF v, n
    <3> QED
      BY <3>1, DistinctAppend, Zenon
  <2> QED
    BY <1>1, <1>2, <1>3, <1>4, <2>1, <2>2
<1>6. Balanced(g, base, done, {})
  <2>1. ASSUME NEW h \in 1..n
        PROVE  /\ base.indegree[h] = Cardinality(Waits(g, h, done, {}))
               /\ h \in Done(base) \cup Queued(base) <=> base.indegree[h] = 0
    BY <1>1, <1>2, <1>3, <1>4
  <2> QED
    BY <1>2, <1>4, <1>5, <2>1 DEF Balanced
<1>7. PICK m \in Nat : m = Len(edges)
  BY AdjacencyIs, LenProperties
<1>8. /\ \A i \in 1..m : edges[i] \in Refs(g) /\ Dependencies(g, edges[i][1])[edges[i][2]] = v
      /\ \A i, j \in 1..m : edges[i] = edges[j] => i = j
      /\ Members(edges, m) = {edge \in Refs(g) : Dependencies(g, edge[1])[edge[2]] = v}
  <2>1. /\ Distinct(edges)
        /\ Members(edges, m) = {edge \in Refs(g) : Dependencies(g, edge[1])[edge[2]] = v}
    BY <1>7, AdjacencyIs
  <2>2. \A i \in 1..m : edges[i] \in Members(edges, m)
    BY DEF Members
  <2> HIDE DEF edges
  <2> QED
    BY <1>7, <2>1, <2>2 DEF Distinct
<1>9. Chained(u, m, G, base, step)
  BY <1>1, <1>7, SortStepChain DEF base
<1> DEFINE Good(j, t) == Balanced(g, t, done, Members(edges, j)) /\ t.sorted = base.sorted
           R == [j \in 0..m |-> {t \in G : Good(j, t)}]
<1>a. base \in R[0]
  <2>1. Members(edges, 0) = {} /\ 0 \in 0..m
    BY DEF Members
  <2>2. Good(0, base)
    BY <1>6, <2>1
  <2> HIDE DEF Good
  <2> QED
    BY <1>2, <2>1, <2>2
<1>b. Hands(R, m, G, step)
  <2> SUFFICES ASSUME NEW j \in 1..m, NEW t \in G, t \in R[j - 1]
               PROVE  step[j][t] \in R[j]
    BY DEF Hands
  <2>1. j - 1 \in 0..m /\ j \in 0..m /\ step[j][t] = Follow(t, edges[j])
    BY <1>7 DEF FollowSteps
  <2>2. Good(j - 1, t)
    BY <2>1
  <2>3. Members(edges, j) = Members(edges, j - 1) \cup {edges[j]} /\ edges[j] \notin Members(edges, j - 1)
    <3>1. 1..j = 1..(j - 1) \cup {j}
      OBVIOUS
    <3>2. Members(edges, j) = Members(edges, j - 1) \cup {edges[j]}
      BY <3>1 DEF Members
    <3>3. \A i \in 1..(j - 1) : i \in 1..m /\ i # j
      OBVIOUS
    <3>4. edges[j] \notin Members(edges, j - 1)
      BY <1>8, <3>3 DEF Members
    <3> QED
      BY <3>2, <3>4
  <2>4. edges[j] \in Refs(g) /\ Dependencies(g, edges[j][1])[edges[j][2]] \notin done
    BY <1>5, <1>8
  <2> HIDE DEF step, edges
  <2> DEFINE gone == Members(edges, j - 1)
             edge == edges[j]
  <2>5. Balanced(g, t, done, gone) /\ edge \in Refs(g) /\ edge \notin gone /\ Dependencies(g, edge[1])[edge[2]] \notin done
    BY <2>2, <2>3, <2>4
  <2>6. Followed(g, Follow(t, edge), t, done, gone \cup {edge})
    <3> HIDE DEF gone, edge, done
    <3> QED
      BY <2>5, BalancedFollow, Zenon
  <2>7. Good(j, Follow(t, edge)) /\ Follow(t, edge) \in G
    BY <2>2, <2>3, <2>6 DEF Balanced, Followed
  <2> HIDE DEF Good
  <2> QED
    BY <2>1, <2>7
<1> HIDE DEF R, G, step, edges, Good
<1>c. u \in R[m] /\ u \in G
  BY <1>9, <1>a, <1>b, ChainHands, Zenon
<1>d. m \in 0..m
  OBVIOUS
<1>e. Balanced(g, u, done, Members(edges, m)) /\ u.sorted = base.sorted
  BY <1>c, <1>d DEF R, Good
<1> HIDE DEF u
<1>f. Done(u) = done \cup {v}
  BY <1>3, <1>e DEF Done
<1>g. ASSUME NEW h \in 1..n
      PROVE  Waits(g, h, Done(u), {}) = Waits(g, h, done, Members(edges, m))
  <2>1. ASSUME NEW i \in 1..Degree(g, h)
        PROVE  <<h, i>> \in Members(edges, m) <=> Dependencies(g, h)[i] = v
    <3>1. Degree(g, h) \in Nat
      BY DependenciesOf
    <3>2. <<h, i>> \in Refs(g)
      BY <3>1 DEF Refs
    <3> QED
      BY <1>8, <3>2
  <2> QED
    BY <1>f, <2>1 DEF Waits
<1>h. Balanced(g, u, Done(u), {})
  <2>1. \A h \in 1..n : u.indegree[h] = Cardinality(Waits(g, h, Done(u), {}))
    BY <1>e, <1>g DEF Balanced
  <2> QED
    BY <1>e, <2>1 DEF Balanced
<1>i. Ordered(g, u.sorted)
  <2> SUFFICES ASSUME NEW i \in 1..Len(u.sorted), NEW k \in 1..Degree(g, u.sorted[i])
               PROVE  Dependencies(g, u.sorted[i])[k] \in Members(u.sorted, i - 1)
    BY DEF Ordered
  <2> DEFINE old == s.sorted
             l == Len(old)
  <2>1. /\ u.sorted = Append(old, v) /\ Len(u.sorted) = l + 1 /\ l \in Nat
        /\ (\A x \in 1..l : u.sorted[x] = old[x]) /\ u.sorted[l + 1] = v
    BY <1>1, <1>2, <1>3, <1>e, AppendProperties
  <2> HIDE DEF l, old
  <2>2. i - 1 <= l /\ i \in 1..(l + 1)
    BY <2>1
  <2>3. Members(u.sorted, i - 1) = Members(old, i - 1)
    BY <2>1, <2>2 DEF Members
  <2>4. CASE i = l + 1
    <3>1. u.sorted[i] = v /\ i - 1 = l
      BY <2>1, <2>4
    <3>2. Waits(g, v, done, {}) = {}
      <4>1. s.indegree[v] = 0 /\ s.indegree[v] = Cardinality(Waits(g, v, done, {}))
        BY <1>1, <1>2, <1>4
      <4>2. IsFiniteSet(Waits(g, v, done, {}))
        BY <1>2, WaitsFinite
      <4> QED
        BY <4>1, <4>2, FS_EmptySet
    <3>3. Dependencies(g, v)[k] \in done
      BY <3>1, <3>2 DEF Waits
    <3> QED
      BY <2>3, <3>1, <3>3 DEF Done, l, old
  <2>5. CASE i # l + 1
    <3>1. i \in 1..l /\ u.sorted[i] = old[i]
      BY <2>1, <2>2, <2>5
    <3> QED
      BY <1>1, <2>3, <3>1 DEF Ordered, l, old
  <2> QED
    BY <2>4, <2>5
<1> QED
  BY <1>3, <1>e, <1>h, <1>i DEF Sorting, u

Start(g) ==
  LET handles == [h \in Handles(g) |-> h]
      indegree == [h \in Handles(g) |-> Len(References(g.nodes[h]))]
  IN  [indegree |-> indegree, sorted |-> <<>>, queue |-> Kept(handles, {h \in Handles(g) : indegree[h] = 0})]

(* Where the sorting loop begins.                                          *)
LEMMA StartSorting ==
  ASSUME NEW g, Linked(g)
  PROVE  Sorting(g, Start(g))
<1> DEFINE n == Size(g)
           handles == [h \in Handles(g) |-> h]
           indegree == [h \in Handles(g) |-> Len(References(g.nodes[h]))]
           S == {h \in Handles(g) : indegree[h] = 0}
           queue == Kept(handles, S)
           s == Start(g)
<1>1. n \in Nat /\ Handles(g) = 1..n
  BY DEF Linked, Handles
<1>2. \A h \in 1..n : indegree[h] = Degree(g, h) /\ Degree(g, h) \in Nat
  BY <1>1, DependenciesOf DEF Linked, Degree
<1>3. handles \in Seq(1..n) /\ Len(handles) = n /\ \A h \in 1..n : handles[h] = h
  <2>1. handles \in [1..n -> 1..n]
    BY <1>1
  <2> HIDE DEF handles, n
  <2>2. handles \in Seq(1..n) /\ Len(handles) = n
    BY <1>1, <2>1, FunctionIsSeq
  <2> QED
    BY <1>1, <2>2 DEF handles
<1>4. indegree \in [1..n -> Nat]
  BY <1>1, <1>2
<1>5. s.indegree = indegree /\ s.sorted = <<>> /\ s.queue = queue
  BY DEF Start
<1>6. s = [indegree |-> indegree, sorted |-> <<>>, queue |-> queue]
  BY DEF Start
<1> HIDE DEF handles, indegree, S, s
<1>7. KeptOf(queue, 1..n, handles, S, n)
  BY <1>3, KeptIs
<1>8. Once(handles, S) /\ Members(handles, n) = 1..n
  BY <1>3 DEF Once, Members
<1> HIDE DEF queue
<1>9. queue \in Seq(1..n) /\ Distinct(queue) /\ Members(queue, Len(queue)) = {h \in 1..n : indegree[h] = 0}
  BY <1>1, <1>7, <1>8 DEF KeptOf, S
<1>a. s \in SortState(n)
  <2>1. <<>> \in Seq(1..n)
    BY EmptySeq
  <2> QED
    BY <1>4, <1>6, <1>9, <2>1 DEF SortState
<1>b. Len(s.sorted) = 0 /\ Done(s) = {} /\ Distinct(s.sorted)
  <2>1. Len(s.sorted) = 0
    BY <1>5, EmptySeq
  <2> QED
    BY <2>1 DEF Done, Members, Distinct
<1>c. ASSUME NEW h \in 1..n
      PROVE  s.indegree[h] = Cardinality(Waits(g, h, Done(s), {}))
  <2>1. Waits(g, h, Done(s), {}) = 1..Degree(g, h)
    BY <1>b DEF Waits
  <2>2. Cardinality(1..Degree(g, h)) = Degree(g, h)
    BY <1>2, FS_Interval
  <2> QED
    BY <1>2, <1>5, <2>1, <2>2
<1>d. \A h \in 1..n : h \in Done(s) \cup Queued(s) <=> s.indegree[h] = 0
  BY <1>5, <1>9, <1>b DEF Queued
<1>e. Balanced(g, s, Done(s), {})
  BY <1>5, <1>9, <1>a, <1>b, <1>c, <1>d DEF Balanced, Queued
<1>f. Ordered(g, s.sorted)
  BY <1>b DEF Ordered
<1> QED
  BY <1>e, <1>f DEF Sorting, s

SortStates(g) == {s \in SortState(Size(g)) : Sorting(g, s)}
SortTurns(g) == [m \in 1..Size(g) |-> [s \in SortStates(g) |-> SortStep(g, s)]]
SortEnd(g) == FoldLeft(LAMBDA s, h : SortStep(g, s), Start(g), [h \in Handles(g) |-> h])

LEMMA SortTurn ==
  ASSUME NEW g, Linked(g), NEW s \in SortStates(g)
  PROVE  /\ SortStep(g, s) \in SortStates(g)
         /\ s.queue = <<>> => SortStep(g, s) = s
         /\ s.queue # <<>> => Len(SortStep(g, s).sorted) = Len(s.sorted) + 1
<1>1. CASE s.queue = <<>>
  BY <1>1 DEF SortStep
<1>2. CASE s.queue # <<>>
  <2>1. Sorting(g, SortStep(g, s)) /\ Len(SortStep(g, s).sorted) = Len(s.sorted) + 1
    BY <1>2, SortStepKeeps DEF SortStates
  <2> QED
    BY <1>2, <2>1 DEF Sorting, Balanced, SortStates
<1> QED
  BY <1>1, <1>2

LEMMA SortedChain ==
  ASSUME NEW g, Linked(g)
  PROVE  Chained(SortEnd(g), Size(g), SortStates(g), Start(g), SortTurns(g))
<1> DEFINE G == SortStates(g)
           base == Start(g)
           step == SortTurns(g)
           seq == [k \in Handles(g) |-> k]
           h == CHOOSE f : f = [t \in SUBSET (DOMAIN seq) |->
                                  IF t = {} THEN base ELSE SortStep(g, f[t \ {Max(t)}])]
<1>0. PICK n \in Nat : n = Size(g) /\ DOMAIN seq = 1..n
  BY DEF Linked, Handles
<1>1. base \in G
  BY StartSorting DEF Sorting, Balanced, SortStates
<1>3. step \in [1..n -> [G -> G]] /\ \A m \in 1..n : \A t \in G : step[m][t] = SortStep(g, t)
  <2>1. \A t \in G : SortStep(g, t) \in G
    BY SortTurn
  <2> QED
    BY <1>0, <2>1 DEF SortTurns
<1>4. SortEnd(g) = h[DOMAIN seq]
  BY Zenon DEF SortEnd, FoldLeft, MapThenFoldSet
<1> HIDE DEF step, G, base
<1>5. Folds(n, G, base, step)
  BY <1>1, <1>3, FoldExists
<1>6. PICK f \in [SUBSET (1..n) -> G] : IsFold(f, n, base, step)
  BY <1>5 DEF Folds
<1>7. \A t \in SUBSET (1..n) : t # {} => Max(t) \in 1..n /\ t \ {Max(t)} \in SUBSET (1..n)
  BY MaxOf
<1>8. f = [t \in SUBSET (1..n) |-> IF t = {} THEN base ELSE SortStep(g, f[t \ {Max(t)}])]
  <2>1. ASSUME NEW t \in SUBSET (1..n)
        PROVE  f[t] = IF t = {} THEN base ELSE SortStep(g, f[t \ {Max(t)}])
    BY <1>3, <1>6, <1>7 DEF IsFold
  <2> QED
    BY <1>6, <2>1
<1> HIDE DEF seq
<1>9. h = [t \in SUBSET (1..n) |-> IF t = {} THEN base ELSE SortStep(g, h[t \ {Max(t)}])]
  BY <1>0, <1>8
<1> HIDE DEF h
<1>a. h[{}] = base
  BY <1>9
<1>b. \A t \in SUBSET (1..n) : t # {} /\ h[t \ {Max(t)}] \in G => h[t] = step[Max(t)][h[t \ {Max(t)}]]
  <2> SUFFICES ASSUME NEW t \in SUBSET (1..n), t # {}, NEW x \in G, x = h[t \ {Max(t)}]
               PROVE  h[t] = step[Max(t)][x]
    OBVIOUS
  <2>1. Max(t) \in 1..n
    BY <1>7
  <2>2. step[Max(t)][x] = SortStep(g, x)
    BY <1>3, <2>1
  <2>3. h[t] = SortStep(g, x)
    BY <1>9
  <2> QED
    BY <2>2, <2>3
<1>c. Chained(h[1..n], n, G, base, step)
  BY <1>1, <1>3, <1>a, <1>b, FoldChain, Zenon
<1> QED
  BY <1>0, <1>4, <1>c DEF step, G, base

(* What is asked of an order of the nodes: each node at most once, after   *)
(* the nodes it refers to, and none is left out that refers only to nodes  *)
(* that are in it.                                                         *)
Complete(g, order) ==
  \A h \in 1..Size(g) :
    (\A k \in 1..Degree(g, h) : Dependencies(g, h)[k] \in Members(order, Len(order))) => h \in Members(order, Len(order))

GoodOrder(g, order) ==
  order \in Seq(1..Size(g)) /\ Distinct(order) /\ Ordered(g, order) /\ Complete(g, order)

LEMMA DistinctLength ==
  ASSUME NEW n \in Nat, NEW seq \in Seq(1..n), Distinct(seq)
  PROVE  Len(seq) <= n
<1>1. Len(seq) \in Nat /\ seq \in [1..Len(seq) -> 1..n]
  BY LenProperties
<1>2. SUFFICES ASSUME Len(seq) > n
               PROVE  FALSE
  BY <1>1
<1>3. \A m \in Nat : IsFiniteSet(1..m) /\ Cardinality(1..m) = m
  BY FS_Interval
<1>4. \E x, y \in 1..Len(seq) : x # y /\ seq[x] = seq[y]
  BY <1>1, <1>2, <1>3, FS_PigeonHole
<1> QED
  BY <1>4 DEF Distinct

(* topological order: what the sorting loop leaves.                        *)
LEMMA SortedIs ==
  ASSUME NEW g, Linked(g)
  PROVE  GoodOrder(g, Sorted(g))
<1> DEFINE n == Size(g)
           G == SortStates(g)
           base == Start(g)
           step == SortTurns(g)
           last == SortEnd(g)
           R == [m \in 0..n |-> {s \in G : Len(s.sorted) = m \/ s.queue = <<>>}]
<1>1. n \in Nat
  BY DEF Linked
<1>2. Chained(last, n, G, base, step)
  BY SortedChain
<1>3. base \in R[0]
  <2>1. base.sorted = <<>> /\ base \in G
    BY StartSorting DEF Start, Sorting, Balanced, SortStates
  <2>2. Len(base.sorted) = 0
    BY <2>1, EmptySeq
  <2> HIDE DEF G, base
  <2> QED
    BY <1>1, <2>1, <2>2
<1>4. Hands(R, n, G, step)
  <2> SUFFICES ASSUME NEW m \in 1..n, NEW s \in G, s \in R[m - 1]
               PROVE  step[m][s] \in R[m]
    BY DEF Hands
  <2>1. m - 1 \in 0..n /\ m \in 0..n /\ step[m][s] = SortStep(g, s)
    BY <1>1 DEF SortTurns
  <2>2. Len(s.sorted) = m - 1 \/ s.queue = <<>>
    BY <2>1
  <2>3. /\ SortStep(g, s) \in G
        /\ s.queue = <<>> => SortStep(g, s) = s
        /\ s.queue # <<>> => Len(SortStep(g, s).sorted) = Len(s.sorted) + 1
    BY SortTurn
  <2> HIDE DEF G, step
  <2> QED
    BY <2>1, <2>2, <2>3
<1> HIDE DEF G, base, step, R, last
<1>5. last \in R[n] /\ last \in G
  BY <1>1, <1>2, <1>3, <1>4, ChainHands, Zenon
<1>6. last \in G /\ (Len(last.sorted) = n \/ last.queue = <<>>)
  <2>1. n \in 0..n
    BY <1>1
  <2> QED
    BY <1>5, <2>1 DEF R
<1>7. /\ last \in SortState(n) /\ Distinct(last.sorted) /\ Distinct(last.queue) /\ Done(last) \cap Queued(last) = {}
      /\ \A h \in 1..n : /\ last.indegree[h] = Cardinality(Waits(g, h, Done(last), {}))
                         /\ h \in Done(last) \cup Queued(last) <=> last.indegree[h] = 0
      /\ Ordered(g, last.sorted) /\ last.sorted \in Seq(1..n) /\ last.queue \in Seq(1..n)
  BY <1>6 DEF G, SortStates, Sorting, Balanced, SortState
<1>8. Queued(last) = {}
  <2>1. CASE last.queue = <<>>
    <3>1. Len(last.queue) = 0
      BY <2>1, EmptySeq
    <3> QED
      BY <3>1 DEF Queued, Members
  <2>2. CASE Len(last.sorted) = n
    <3>1. SUFFICES ASSUME NEW h \in Queued(last)
                   PROVE  FALSE
      OBVIOUS
    <3>2. h \in 1..n /\ h \notin Done(last)
      <4>1. \A i \in 1..Len(last.queue) : last.queue[i] \in 1..n
        <5>1. last.queue \in Seq(1..n)
          BY <1>7
        <5> HIDE DEF n
        <5> QED
          BY <5>1, LenProperties
      <4> QED
        BY <1>7, <3>1, <4>1 DEF Queued, Members
    <3> DEFINE more == Append(last.sorted, h)
    <3>3. more \in Seq(1..n) /\ Len(more) = n + 1
      <4>1. last.sorted \in Seq(1..n) /\ h \in 1..n
        BY <1>7, <3>2
      <4>2. PICK s : s = last.sorted /\ Len(s) = n
        BY <2>2
      <4> HIDE DEF n
      <4>3. s \in Seq(1..n) /\ h \in 1..n /\ Len(s) = n
        BY <4>1, <4>2
      <4>4. Append(s, h) \in Seq(1..n) /\ Len(Append(s, h)) = Len(s) + 1
        BY <4>3, AppendProperties, Zenon
      <4> QED
        BY <4>2, <4>3, <4>4
    <3>4. Distinct(more)
      <4>1. last.sorted \in Seq(1..n) /\ h \in 1..n /\ Distinct(last.sorted) /\ h \notin Members(last.sorted, Len(last.sorted))
        BY <1>7, <3>2 DEF Done
      <4> HIDE DEF n
      <4> QED
        BY <4>1, DistinctAppend, Zenon
    <3> HIDE DEF more, n
    <3>5. Len(more) <= n
      BY <1>1, <3>3, <3>4, DistinctLength
    <3> QED
      BY <1>1, <3>3, <3>5
  <2> QED
    BY <1>6, <2>1, <2>2
<1>9. ASSUME NEW h \in 1..n, \A k \in 1..Degree(g, h) : Dependencies(g, h)[k] \in Done(last)
      PROVE  h \in Done(last)
  <2>1. Waits(g, h, Done(last), {}) = {}
    BY <1>9 DEF Waits
  <2>2. Cardinality(Waits(g, h, Done(last), {})) = 0
    BY <2>1, FS_EmptySet
  <2> QED
    BY <1>7, <1>8, <2>2
<1>a. Complete(g, last.sorted)
  BY <1>9 DEF Complete, Done
<1>b. Sorted(g) = last.sorted
  BY Zenon DEF Sorted, SortEnd, Start, last
<1> QED
  BY <1>7, <1>a, <1>b DEF GoodOrder
-----------------------------------------------------------------------------
(* ---- graphs of nodes with different ids ------------------------------- *)

GraphOK(g) ==
  /\ g.nodes \in Seq(Nodes) /\ g.final \in Ids /\ g.dimension \in {2, 3}
  /\ \A h, k \in DOMAIN g.nodes : g.nodes[h].id = g.nodes[k].id => h = k

NodesOf(g, handles) == {g.nodes[h] : h \in handles}

LEMMA NodesTyped ==
  ASSUME NEW g, GraphOK(g)
  PROVE  /\ Size(g) \in Nat /\ DOMAIN g.nodes = 1..Size(g) /\ Handles(g) = 1..Size(g)
         /\ \A h \in 1..Size(g) : g.nodes[h] \in Nodes
         /\ \A h, k \in 1..Size(g) : g.nodes[h].id = g.nodes[k].id => h = k
         /\ ToSet(g.nodes) = NodesOf(g, 1..Size(g))
<1>1. Size(g) \in Nat /\ DOMAIN g.nodes = 1..Size(g) /\ \A h \in 1..Size(g) : g.nodes[h] \in Nodes
  BY LenProperties DEF GraphOK, Size
<1> QED
  BY <1>1 DEF GraphOK, Handles, ToSet, NodesOf

LEMMA ReferencesTyped ==
  ASSUME NEW node \in Nodes
  PROVE  References(node) \in Seq(Ids)
<1>1. CASE node.kind = "combine"
  BY <1>1, NodesAssumption DEF References, Warps, Samples
<1>2. CASE node.kind # "combine"
  <2>1. node.source \in Ids \cup {Base}
    BY <1>2, NodesAssumption
  <2>2. CASE node.source = Base
    BY <1>2, <2>2, EmptySeq DEF References
  <2>3. CASE node.source # Base
    BY <1>2, <2>1, <2>3 DEF References
  <2> QED
    BY <2>2, <2>3
<1> QED
  BY <1>1, <1>2

LEMMA ReferencesAre ==
  ASSUME NEW node \in Nodes
  PROVE  /\ Len(References(node)) \in Nat /\ DOMAIN References(node) = 1..Len(References(node))
         /\ ToSet(References(node)) = {References(node)[i] : i \in 1..Len(References(node))}
         /\ \A i \in 1..Len(References(node)) : References(node)[i] \in Ids
<1>1. References(node) \in Seq(Ids)
  BY ReferencesTyped
<1> DEFINE refs == References(node)
<1> HIDE DEF refs
<1>2. Len(refs) \in Nat /\ DOMAIN refs = 1..Len(refs) /\ \A i \in 1..Len(refs) : refs[i] \in Ids
  BY <1>1, LenProperties DEF refs
<1>3. ToSet(refs) = {refs[i] : i \in 1..Len(refs)}
  BY <1>2 DEF ToSet
<1> QED
  BY <1>2, <1>3 DEF refs

(* An id is resolved to the one node that has it.                          *)
LEMMA ResolveIs ==
  ASSUME NEW g, GraphOK(g), NEW h \in 1..Size(g), NEW id, id = g.nodes[h].id
  PROVE  Resolves(g, id) /\ Resolve(g, id) = h /\ NodeOf(g, id) = g.nodes[h] /\ id \in KnownIds(g)
<1>1. /\ Size(g) \in Nat /\ Handles(g) = 1..Size(g)
      /\ \A j, k \in 1..Size(g) : g.nodes[j].id = g.nodes[k].id => j = k
      /\ ToSet(g.nodes) = NodesOf(g, 1..Size(g))
  BY NodesTyped
<1>2. Resolves(g, id) /\ id \in KnownIds(g)
  BY <1>1 DEF Resolves, KnownIds
<1>3. Resolve(g, id) = h
  <2>1. \A j \in Handles(g) : g.nodes[j].id = id => j = h
    BY <1>1
  <2>2. h \in Handles(g) /\ g.nodes[h].id = id /\ \A k \in Handles(g) : g.nodes[k].id = id => k <= h
    BY <1>1, <2>1
  <2> QED
    BY <2>1, <2>2 DEF Resolve
<1>4. NodeOf(g, id) = g.nodes[h]
  <2>1. g.nodes[h] \in ToSet(g.nodes)
    BY <1>1 DEF NodesOf
  <2>2. \A node \in ToSet(g.nodes) : node.id = id => node = g.nodes[h]
    BY <1>1 DEF NodesOf
  <2> QED
    BY <2>1, <2>2 DEF NodeOf
<1> QED
  BY <1>2, <1>3, <1>4

(* The node that a known id names.                                         *)
Named(g, id) ==
  /\ Resolves(g, id) /\ Resolve(g, id) \in 1..Size(g) /\ g.nodes[Resolve(g, id)].id = id
  /\ NodeOf(g, id) = g.nodes[Resolve(g, id)] /\ NodeOf(g, id) \in Nodes

LEMMA KnownIsNamed ==
  ASSUME NEW g, GraphOK(g), NEW id \in KnownIds(g)
  PROVE  Named(g, id)
<1>1. Handles(g) = 1..Size(g) /\ \A h \in 1..Size(g) : g.nodes[h] \in Nodes
  BY NodesTyped
<1>2. PICK h \in 1..Size(g) : id = g.nodes[h].id
  BY <1>1 DEF KnownIds
<1>3. Resolves(g, id) /\ Resolve(g, id) = h /\ NodeOf(g, id) = g.nodes[h]
  BY <1>2, ResolveIs
<1> QED
  BY <1>1, <1>2, <1>3 DEF Named

(* All that the nodes refer to, and the final field, as ExpectedCompile    *)
(* collects it.                                                            *)
Refers(g) == (UNION {ToSet(References(node)) : node \in ToSet(g.nodes)}) \cup {g.final}

LEMMA MissingIs ==
  ASSUME NEW g, GraphOK(g)
  PROVE  Missing(g) <=> ~(Refers(g) \subseteq KnownIds(g))
<1>1. Handles(g) = 1..Size(g) /\ ToSet(g.nodes) = NodesOf(g, 1..Size(g))
  BY NodesTyped
<1>2. \A id : Resolves(g, id) <=> id \in KnownIds(g)
  BY DEF Resolves, KnownIds
<1>3. Refers(g) = (UNION {ToSet(References(g.nodes[h])) : h \in 1..Size(g)}) \cup {g.final}
  BY <1>1 DEF Refers, NodesOf
<1>4. Missing(g) <=> (\E h \in 1..Size(g) : \E id \in ToSet(References(g.nodes[h])) : id \notin KnownIds(g))
                     \/ g.final \notin KnownIds(g)
  BY <1>1, <1>2 DEF Missing
<1>5. Refers(g) \subseteq KnownIds(g) <=> /\ \A h \in 1..Size(g) : ToSet(References(g.nodes[h])) \subseteq KnownIds(g)
                                        /\ g.final \in KnownIds(g)
  <2> DEFINE of == [h \in 1..Size(g) |-> ToSet(References(g.nodes[h]))]
             Found == KnownIds(g)
  <2>1. Refers(g) = (UNION {of[h] : h \in 1..Size(g)}) \cup {g.final}
    BY <1>3
  <2> HIDE DEF of, Found
  <2> DEFINE U == {of[h] : h \in 1..Size(g)}
  <2>a. \A x : x \in U <=> \E h \in 1..Size(g) : x = of[h]
    OBVIOUS
  <2> HIDE DEF U
  <2>b. \A id : id \in (UNION U) <=> \E x \in U : id \in x
    OBVIOUS
  <2>c. \A id : id \in Refers(g) <=> id \in (UNION U) \/ id = g.final
    <3>1. Refers(g) = (UNION U) \cup {g.final}
      BY <2>1, Zenon DEF U
    <3> QED
      BY <3>1
  <2>2. \A id : id \in Refers(g) <=> (\E h \in 1..Size(g) : id \in of[h]) \/ id = g.final
    BY <2>a, <2>b, <2>c
  <2>3. Refers(g) \subseteq Found <=> (\A h \in 1..Size(g) : of[h] \subseteq Found) /\ g.final \in Found
    BY <2>2, Zenon
  <2> QED
    BY <2>3 DEF of, Found
<1> QED
  BY <1>4, <1>5

(* A graph in which nothing is missing.                                    *)
Whole(g) == GraphOK(g) /\ Refers(g) \subseteq KnownIds(g)

LEMMA WholeIsLinked ==
  ASSUME NEW g, Whole(g)
  PROVE  /\ Linked(g)
         /\ \A h \in 1..Size(g) :
              /\ Degree(g, h) = Len(References(g.nodes[h]))
              /\ \A i \in 1..Degree(g, h) : /\ Dependencies(g, h)[i] = Resolve(g, References(g.nodes[h])[i])
                                            /\ References(g.nodes[h])[i] \in KnownIds(g)
<1>1. /\ Size(g) \in Nat /\ DOMAIN g.nodes = 1..Size(g) /\ GraphOK(g)
      /\ \A h \in 1..Size(g) : g.nodes[h] \in Nodes
      /\ ToSet(g.nodes) = NodesOf(g, 1..Size(g))
  BY NodesTyped DEF Whole
<1>2. ASSUME NEW h \in 1..Size(g)
      PROVE  /\ Dependencies(g, h) \in Seq(1..Size(g)) /\ Len(Dependencies(g, h)) = Len(References(g.nodes[h]))
             /\ \A i \in 1..Len(References(g.nodes[h])) :
                  /\ Dependencies(g, h)[i] = Resolve(g, References(g.nodes[h])[i])
                  /\ References(g.nodes[h])[i] \in KnownIds(g)
  <2> DEFINE refs == References(g.nodes[h])
             m == Len(refs)
  <2>1. m \in Nat /\ DOMAIN refs = 1..m /\ ToSet(refs) = {refs[i] : i \in 1..m}
    BY <1>1, ReferencesAre
  <2>2. ToSet(refs) \subseteq KnownIds(g)
    BY <1>1 DEF Whole, Refers, NodesOf
  <2>3. Dependencies(g, h) = [i \in 1..m |-> Resolve(g, refs[i])]
    BY <2>1 DEF Dependencies
  <2> HIDE DEF refs, m
  <2>4. \A i \in 1..m : refs[i] \in KnownIds(g)
    BY <2>1, <2>2
  <2>5. \A i \in 1..m : Resolve(g, refs[i]) \in 1..Size(g)
    BY <1>1, <2>4, KnownIsNamed DEF Named
  <2>6. Dependencies(g, h) \in [1..m -> 1..Size(g)]
    BY <2>3, <2>5
  <2>7. Dependencies(g, h) \in Seq(1..Size(g)) /\ Len(Dependencies(g, h)) = m
    BY <2>1, <2>6, FunctionIsSeq
  <2> QED
    BY <2>3, <2>4, <2>7 DEF refs, m
<1> QED
  BY <1>1, <1>2 DEF Linked, Degree
-----------------------------------------------------------------------------
(* ---- the nodes that depend on no cycle -------------------------------- *)

Grow(g, within) == {node \in ToSet(g.nodes) : \A id \in ToSet(References(node)) : NodeOf(g, id) \in within}

GrowSteps(g) == [m \in 1..Size(g) |-> [within \in SUBSET ToSet(g.nodes) |-> Grow(g, within)]]

LEMMA GroundedChain ==
  ASSUME NEW g, GraphOK(g)
  PROVE  Chained(Grounded(g), Size(g), SUBSET ToSet(g.nodes), {}, GrowSteps(g))
<1> DEFINE G == SUBSET ToSet(g.nodes)
           step == GrowSteps(g)
           seq == g.nodes
           h == CHOOSE f : f = [t \in SUBSET (DOMAIN seq) |->
                                  IF t = {} THEN {} ELSE Grow(g, f[t \ {Max(t)}])]
<1>0. PICK n \in Nat : n = Size(g) /\ DOMAIN seq = 1..n
  BY NodesTyped
<1>1. {} \in G
  OBVIOUS
<1>3. step \in [1..n -> [G -> G]] /\ \A m \in 1..n : \A t \in G : step[m][t] = Grow(g, t)
  <2>1. \A t \in G : Grow(g, t) \in G
    BY DEF Grow
  <2> QED
    BY <1>0, <2>1 DEF GrowSteps
<1>4. Grounded(g) = h[DOMAIN seq]
  BY Zenon DEF Grounded, Grow, FoldLeft, MapThenFoldSet
<1> HIDE DEF step, G, seq
<1>5. Folds(n, G, {}, step)
  BY <1>1, <1>3, FoldExists
<1>6. PICK f \in [SUBSET (1..n) -> G] : IsFold(f, n, {}, step)
  BY <1>5 DEF Folds
<1>7. \A t \in SUBSET (1..n) : t # {} => Max(t) \in 1..n /\ t \ {Max(t)} \in SUBSET (1..n)
  BY MaxOf
<1>8. f = [t \in SUBSET (1..n) |-> IF t = {} THEN {} ELSE Grow(g, f[t \ {Max(t)}])]
  <2>1. ASSUME NEW t \in SUBSET (1..n)
        PROVE  f[t] = IF t = {} THEN {} ELSE Grow(g, f[t \ {Max(t)}])
    BY <1>3, <1>6, <1>7 DEF IsFold
  <2> QED
    BY <1>6, <2>1
<1>9. h = [t \in SUBSET (1..n) |-> IF t = {} THEN {} ELSE Grow(g, h[t \ {Max(t)}])]
  <2>1. h = CHOOSE e : e = [t \in SUBSET (1..n) |-> IF t = {} THEN {} ELSE Grow(g, e[t \ {Max(t)}])]
    BY <1>0
  <2> HIDE DEF h
  <2> QED
    BY <1>8, <2>1, Zenon
<1> HIDE DEF h
<1>a. h[{}] = {}
  BY <1>9
<1>b. \A t \in SUBSET (1..n) : t # {} /\ h[t \ {Max(t)}] \in G => h[t] = step[Max(t)][h[t \ {Max(t)}]]
  <2> SUFFICES ASSUME NEW t \in SUBSET (1..n), t # {}, NEW x \in G, x = h[t \ {Max(t)}]
               PROVE  h[t] = step[Max(t)][x]
    OBVIOUS
  <2>1. Max(t) \in 1..n
    BY <1>7
  <2>2. step[Max(t)][x] = Grow(g, x)
    BY <1>3, <2>1
  <2>3. h[t] = Grow(g, x)
    BY <1>9
  <2> QED
    BY <2>2, <2>3
<1>c. Chained(h[1..n], n, G, {}, step)
  BY <1>1, <1>3, <1>a, <1>b, FoldChain, Zenon
<1> QED
  BY <1>0, <1>4, <1>c DEF step, G

(* They are the nodes that the order has.                                  *)
LEMMA GroundedIs ==
  ASSUME NEW g, Whole(g), NEW order, GoodOrder(g, order)
  PROVE  Grounded(g) = NodesOf(g, Members(order, Len(order)))
<1> DEFINE All == ToSet(g.nodes)
           G == SUBSET All
           step == GrowSteps(g)
           last == Grounded(g)
           Upto(m) == {g.nodes[order[i]] : i \in {k \in 1..Len(order) : k <= m}}
           Sound == NodesOf(g, Members(order, Len(order)))
<1>1. /\ GraphOK(g) /\ Linked(g)
      /\ \A h, k \in 1..Size(g) : g.nodes[h].id = g.nodes[k].id => h = k
      /\ \A h \in 1..Size(g) : g.nodes[h] \in Nodes
      /\ All = NodesOf(g, 1..Size(g))
  BY WholeIsLinked, NodesTyped DEF Whole
<1>2. PICK n \in Nat : n = Size(g)
  BY NodesTyped, <1>1
<1>3. PICK l \in Nat : l = Len(order) /\ l <= n /\ \A i \in 1..l : order[i] \in 1..n
  <2>1. order \in Seq(1..n) /\ Distinct(order)
    BY <1>2 DEF GoodOrder
  <2> QED
    BY <2>1, DistinctLength, LenProperties
<1>4. Chained(last, n, G, {}, step)
  BY <1>1, <1>2, GroundedChain
<1>5. ASSUME NEW h \in 1..n
      PROVE  /\ g.nodes[h] \in All
             /\ \A within : g.nodes[h] \in Grow(g, within) <=>
                  \A k \in 1..Degree(g, h) : g.nodes[Dependencies(g, h)[k]] \in within
  <2> DEFINE refs == References(g.nodes[h])
  <2>1. g.nodes[h] \in All
    BY <1>1, <1>2 DEF NodesOf
  <2>2. ToSet(refs) = {refs[k] : k \in 1..Degree(g, h)}
    BY <1>1, <1>2, WholeIsLinked, ReferencesAre
  <2>3. \A k \in 1..Degree(g, h) : NodeOf(g, refs[k]) = g.nodes[Dependencies(g, h)[k]]
    BY <1>1, <1>2, WholeIsLinked, KnownIsNamed DEF Named
  <2> HIDE DEF All, refs
  <2>4. ASSUME NEW within
        PROVE  g.nodes[h] \in Grow(g, within) <=> \A k \in 1..Degree(g, h) : g.nodes[Dependencies(g, h)[k]] \in within
    <3>1. g.nodes[h] \in Grow(g, within) <=> \A id \in ToSet(refs) : NodeOf(g, id) \in within
      BY <2>1 DEF Grow, refs, All
    <3> QED
      BY <2>2, <2>3, <3>1
  <2> QED
    BY <2>1, <2>4
<1>6. Sound \subseteq last
  <2> DEFINE R == [m \in 0..n |-> {within \in G : Upto(m) \subseteq within}]
  <2>1. {} \in R[0]
    <3>1. Upto(0) = {}
      OBVIOUS
    <3> HIDE DEF Upto
    <3> QED
      BY <3>1
  <2>2. Hands(R, n, G, step)
    <3> SUFFICES ASSUME NEW m \in 1..n, NEW within \in G, within \in R[m - 1]
                 PROVE  step[m][within] \in R[m]
      BY DEF Hands
    <3>1. m - 1 \in 0..n /\ m \in 0..n /\ step[m][within] = Grow(g, within)
      BY <1>2 DEF GrowSteps
    <3>2. Upto(m - 1) \subseteq within
      BY <3>1
    <3>3. Grow(g, within) \in G
      BY DEF Grow
    <3>4. ASSUME NEW i \in 1..l, i <= m
          PROVE  g.nodes[order[i]] \in Grow(g, within)
      <4>1. order[i] \in 1..n
        BY <1>3
      <4>2. SUFFICES ASSUME NEW k \in 1..Degree(g, order[i])
                     PROVE  g.nodes[Dependencies(g, order[i])[k]] \in within
        BY <1>5, <4>1
      <4>3. Dependencies(g, order[i])[k] \in Members(order, i - 1)
        BY <1>3 DEF GoodOrder, Ordered
      <4>4. PICK j \in 1..(i - 1) : Dependencies(g, order[i])[k] = order[j]
        BY <4>3 DEF Members
      <4>5. j \in 1..l /\ j <= m - 1
        BY <3>4
      <4>6. g.nodes[order[j]] \in Upto(m - 1)
        BY <1>3, <4>5
      <4> QED
        BY <3>2, <4>4, <4>6
    <3>5. Upto(m) \subseteq Grow(g, within)
      BY <1>3, <3>4
    <3> HIDE DEF Upto, G, step
    <3> QED
      BY <3>1, <3>3, <3>5
  <2> HIDE DEF R, G, step, last, Upto
  <2>3. last \in R[n]
    BY <1>4, <2>1, <2>2, ChainHands, Zenon
  <2>4. Upto(n) \subseteq last
    <3>1. n \in 0..n
      OBVIOUS
    <3> QED
      BY <2>3, <3>1 DEF R
  <2>5. Sound \subseteq Upto(n)
    <3>1. \A i \in 1..l : i <= n
      BY <1>3
    <3> QED
      BY <1>3, <3>1 DEF Upto, NodesOf, Members
  <2> HIDE DEF Sound
  <2> QED
    BY <2>4, <2>5
<1>7. last \subseteq Sound
  <2> DEFINE R == [m \in 0..n |-> {within \in G : within \subseteq Sound}]
  <2>1. {} \in R[0]
    OBVIOUS
  <2>2. Hands(R, n, G, step)
    <3> SUFFICES ASSUME NEW m \in 1..n, NEW within \in G, within \in R[m - 1]
                 PROVE  step[m][within] \in R[m]
      BY DEF Hands
    <3>1. m - 1 \in 0..n /\ m \in 0..n /\ step[m][within] = Grow(g, within)
      BY <1>2 DEF GrowSteps
    <3>2. within \subseteq Sound
      BY <3>1
    <3>3. Grow(g, within) \in G
      BY DEF Grow
    <3>4. ASSUME NEW h \in 1..n, g.nodes[h] \in Grow(g, within)
          PROVE  g.nodes[h] \in Sound
      <4>1. ASSUME NEW k \in 1..Degree(g, h)
            PROVE  Dependencies(g, h)[k] \in Members(order, l)
        <5>1. g.nodes[Dependencies(g, h)[k]] \in Sound
          BY <1>5, <3>2, <3>4
        <5>2. PICK i \in 1..l : g.nodes[Dependencies(g, h)[k]] = g.nodes[order[i]]
          BY <1>3, <5>1 DEF NodesOf, Members
        <5>3. Dependencies(g, h)[k] \in 1..n /\ order[i] \in 1..n
          BY <1>1, <1>2, <1>3, DependenciesOf
        <5>4. Dependencies(g, h)[k] = order[i]
          BY <1>1, <1>2, <5>2, <5>3
        <5> QED
          BY <5>4 DEF Members
      <4>2. h \in Members(order, l)
        BY <1>2, <1>3, <4>1 DEF GoodOrder, Complete
      <4> QED
        BY <1>3, <4>2 DEF NodesOf
    <3>5. Grow(g, within) \subseteq Sound
      <4>1. Grow(g, within) \subseteq NodesOf(g, 1..n)
        BY <1>1, <1>2 DEF Grow
      <4> HIDE DEF Sound
      <4> QED
        BY <3>4, <4>1 DEF NodesOf
    <3> HIDE DEF Sound, G, step
    <3> QED
      BY <3>1, <3>3, <3>5
  <2> HIDE DEF R, G, step, last, Sound
  <2>3. last \in R[n]
    BY <1>4, <2>1, <2>2, ChainHands, Zenon
  <2>4. n \in 0..n
    OBVIOUS
  <2> QED
    BY <2>3, <2>4 DEF R
<1> QED
  BY <1>6, <1>7
-----------------------------------------------------------------------------
(* ---- the slots of the nodes ------------------------------------------- *)

Width(g, h) == OutputWidth(g.nodes[h])

Outputs(g, handles) == {output \in NodesOf(g, handles) \X (1..3) : output[2] <= OutputWidth(output[1])}

(* Where the next slot would be, were there slots enough.                  *)
Room(g, order, m) == DynamicStart + Cardinality(Outputs(g, Members(order, m)))

LEMMA WidthIs ==
  ASSUME NEW node \in Nodes
  PROVE  OutputWidth(node) \in {1, 2, 3}
BY DEF OutputWidth, Arity

Counted(g, order, m) ==
  /\ IsFiniteSet(Outputs(g, Members(order, m)))
  /\ Room(g, order, m) \in Nat
  /\ m # 0 => Room(g, order, m) = Room(g, order, m - 1) + Width(g, order[m])

LEMMA RoomIs ==
  ASSUME NEW g, GraphOK(g), NEW order \in Seq(1..Size(g)), Distinct(order)
  PROVE  /\ Room(g, order, 0) = DynamicStart
         /\ \A m \in 0..Len(order) : Counted(g, order, m)
<1>1. PICK l \in Nat : l = Len(order) /\ \A i \in 1..l : order[i] \in 1..Size(g)
  BY LenProperties
<1> DEFINE Out(m) == Outputs(g, Members(order, m))
           Fine(m) == IsFiniteSet(Out(m)) /\ Cardinality(Out(m)) \in Nat
           T == {m \in Nat : m <= l => Fine(m)}
<1>2. Out(0) = {}
  BY DEF Outputs, Members, NodesOf
<1>3. Fine(0) /\ Cardinality(Out(0)) = 0
  <2>1. IsFiniteSet({}) /\ Cardinality({}) = 0
    BY FS_EmptySet
  <2> HIDE DEF Out
  <2>2. IsFiniteSet(Out(0)) /\ Cardinality(Out(0)) = 0
    BY <1>2, <2>1, Zenon
  <2> QED
    BY <2>2
<1>4. ASSUME NEW m \in 1..l, Fine(m - 1)
      PROVE  Fine(m) /\ Cardinality(Out(m)) = Cardinality(Out(m - 1)) + Width(g, order[m])
  <2> DEFINE node == g.nodes[order[m]]
             w == OutputWidth(node)
             S == Out(m - 1)
  <2>1. order[m] \in 1..Size(g) /\ node \in Nodes /\ w \in {1, 2, 3}
    BY <1>1, NodesTyped, WidthIs
  <2>2. Members(order, m) = Members(order, m - 1) \cup {order[m]}
    <3>1. 1..m = 1..(m - 1) \cup {m}
      OBVIOUS
    <3> QED
      BY <3>1 DEF Members
  <2>3. node \notin NodesOf(g, Members(order, m - 1))
    <3> SUFFICES ASSUME NEW i \in 1..(m - 1), g.nodes[order[i]] = node
                 PROVE  FALSE
      BY DEF NodesOf, Members
    <3>1. i \in 1..l /\ i # m
      BY <1>1
    <3>2. order[i] \in 1..Size(g)
      BY <1>1, <3>1
    <3>3. order[i] = order[m]
      BY <2>1, <3>2, NodesTyped
    <3> QED
      BY <1>1, <3>1, <3>3 DEF Distinct
  <2>4. Out(m) = S \cup {<<node, i>> : i \in 1..w}
    <3> DEFINE old == NodesOf(g, Members(order, m - 1))
    <3>1. NodesOf(g, Members(order, m)) = old \cup {node}
      BY <2>2 DEF NodesOf
    <3> HIDE DEF old, node
    <3>2. Out(m) = {o \in (old \cup {node}) \X (1..3) : o[2] <= OutputWidth(o[1])}
      BY <3>1 DEF Outputs
    <3>3. S = {o \in old \X (1..3) : o[2] <= OutputWidth(o[1])}
      BY DEF Outputs, old
    <3>4. \A i : i \in 1..w <=> i \in 1..3 /\ i <= w
      BY <2>1
    <3> HIDE DEF S, Out
    <3> QED
      BY <2>1, <3>2, <3>3, <3>4
  <2>5. \A i : <<node, i>> \notin S
    BY <2>3 DEF Outputs
  <2>9. IsFiniteSet(S) /\ Cardinality(S) \in Nat
    BY <1>4
  <2> HIDE DEF S, Out, node, w
  <2>6. CASE w = 1
    <3>1. Out(m) = S \cup {<<node, 1>>}
      <4>1. 1..1 = {1}
        OBVIOUS
      <4> QED
        BY <2>4, <2>6, <4>1
    <3>2. <<node, 1>> \notin S
      BY <2>5
    <3>3. IsFiniteSet(Out(m)) /\ Cardinality(Out(m)) = Cardinality(S) + 1
      BY <2>9, <3>1, <3>2, FS_AddElement
    <3> QED
      BY <2>6, <2>9, <3>3 DEF S, w, node, Width
  <2>7. CASE w = 2
    <3> DEFINE S1 == S \cup {<<node, 1>>}
    <3>1. Out(m) = S1 \cup {<<node, 2>>}
      <4>1. 1..2 = {1, 2}
        OBVIOUS
      <4> QED
        BY <2>4, <2>7, <4>1
    <3>2. IsFiniteSet(S1) /\ Cardinality(S1) = Cardinality(S) + 1
      BY <2>5, <2>9, FS_AddElement
    <3>3. <<node, 2>> \notin S1
      BY <2>5
    <3> HIDE DEF S1
    <3>4. IsFiniteSet(Out(m)) /\ Cardinality(Out(m)) = Cardinality(S1) + 1
      BY <3>1, <3>2, <3>3, FS_AddElement
    <3> QED
      BY <1>4, <2>7, <3>2, <3>4 DEF S, w, node, Width
  <2>8. CASE w = 3
    <3> DEFINE S1 == S \cup {<<node, 1>>}
               S2 == S1 \cup {<<node, 2>>}
    <3>1. Out(m) = S2 \cup {<<node, 3>>}
      <4>1. 1..3 = {1, 2, 3}
        OBVIOUS
      <4> QED
        BY <2>4, <2>8, <4>1
    <3>2. IsFiniteSet(S1) /\ Cardinality(S1) = Cardinality(S) + 1
      BY <2>5, <2>9, FS_AddElement
    <3>3. <<node, 2>> \notin S1 /\ <<node, 3>> \notin S2
      BY <2>5
    <3> HIDE DEF S1
    <3>4. IsFiniteSet(S2) /\ Cardinality(S2) = Cardinality(S1) + 1
      BY <3>2, <3>3, FS_AddElement
    <3> HIDE DEF S2
    <3>5. IsFiniteSet(Out(m)) /\ Cardinality(Out(m)) = Cardinality(S2) + 1
      BY <3>1, <3>3, <3>4, FS_AddElement
    <3> QED
      BY <1>4, <2>8, <3>2, <3>4, <3>5 DEF S, w, node, Width
  <2> QED
    BY <2>1, <2>6, <2>7, <2>8 DEF w
<1> HIDE DEF Out
<1>5. 0 \in T
  BY <1>3
<1>6. ASSUME NEW m \in Nat, m \in T
      PROVE  m + 1 \in T
  <2>1. SUFFICES ASSUME m + 1 <= l
                 PROVE  Fine(m + 1)
    OBVIOUS
  <2>2. m + 1 \in 1..l /\ (m + 1) - 1 = m /\ Fine(m)
    BY <1>6, <2>1
  <2> HIDE DEF Fine
  <2>3. Fine((m + 1) - 1)
    BY <2>2
  <2> QED
    BY <1>4, <2>2, <2>3
<1> HIDE DEF T, Fine
<1>7. Nat \subseteq T
  BY <1>5, <1>6, SetInduction
<1>8. \A m \in 0..l : Fine(m)
  BY <1>7 DEF T
<1>9. ASSUME NEW m \in 0..l
      PROVE  Counted(g, order, m)
  <2>1. Fine(m)
    BY <1>8
  <2>2. m # 0 => Cardinality(Out(m)) = Cardinality(Out(m - 1)) + Width(g, order[m])
    <3>1. SUFFICES ASSUME m # 0
                   PROVE  Cardinality(Out(m)) = Cardinality(Out(m - 1)) + Width(g, order[m])
      OBVIOUS
    <3>2. m \in 1..l /\ m - 1 \in 0..l
      BY <3>1
    <3> QED
      BY <1>4, <1>8, <3>2
  <2>3. m # 0 => Cardinality(Out(m - 1)) \in Nat /\ Width(g, order[m]) \in Nat
    <3>1. SUFFICES ASSUME m # 0
                   PROVE  Cardinality(Out(m - 1)) \in Nat /\ Width(g, order[m]) \in Nat
      OBVIOUS
    <3>2. m \in 1..l /\ m - 1 \in 0..l
      BY <3>1
    <3>3. order[m] \in 1..Size(g)
      BY <1>1, <3>2
    <3>4. g.nodes[order[m]] \in Nodes
      BY <3>3, NodesTyped
    <3> QED
      BY <1>8, <3>2, <3>4, WidthIs DEF Fine, Width
  <2> QED
    BY <2>1, <2>2, <2>3 DEF Counted, Room, Fine, Out, DynamicStart
<1>a. Room(g, order, 0) = DynamicStart
  BY <1>3 DEF Room, Out, DynamicStart
<1> QED
  BY <1>1, <1>9, <1>a

AllocStep(g, a, h) ==
  LET width == OutputWidth(g.nodes[h])
  IN  [next |-> (a.next + width) % SlotSpace,
       overflow |-> a.overflow \/ a.next + width >= SlotSpace,
       slots |-> [a.slots EXCEPT ![h] = [i \in 1..width |-> (a.next + i - 1) % SlotSpace]]]

AllocStart(g) == [next |-> DynamicStart, overflow |-> FALSE, slots |-> [h \in Handles(g) |-> <<>>]]

AllocStates(n) == [next : 0..(SlotSpace - 1), overflow : BOOLEAN, slots : [1..n -> Seq(0..(SlotSpace - 1))]]

LEMMA ModIs ==
  ASSUME NEW x \in Nat
  PROVE  /\ x % SlotSpace \in 0..(SlotSpace - 1)
         /\ x < SlotSpace => x % SlotSpace = x
         /\ x = SlotSpace => x % SlotSpace = 0
<1>1. SlotSpace \in Nat /\ SlotSpace > 0
  BY SlotSpaceAssumption DEF DynamicStart
<1>2. x % SlotSpace \in 0..(SlotSpace - 1)
  BY <1>1
<1>3. x < SlotSpace => x % SlotSpace = x
  BY <1>1
<1>4. x = SlotSpace => x % SlotSpace = 0
  BY <1>1
<1> QED
  BY <1>2, <1>3, <1>4

(* The slots of the nodes that have some: u16s from DynamicStart on, each  *)
(* once; with too many nodes they start again at slot 0.                   *)
AllocOf(g, order, a, m) ==
  LET room == Room(g, order, m)
  IN  /\ a \in AllocStates(Size(g))
      /\ a.overflow <=> room >= SlotSpace
      /\ room < SlotSpace => a.next = room
      /\ room = SlotSpace => a.next = 0
      /\ \A h \in 1..Size(g) : IF h \in Members(order, m) THEN Len(a.slots[h]) = Width(g, h) ELSE a.slots[h] = <<>>
      /\ room <= SlotSpace => /\ \A h \in 1..Size(g) : \A i \in 1..Len(a.slots[h]) : a.slots[h][i] \in DynamicStart..(room - 1)
                              /\ Apart(a.slots)
      /\ room > SlotSpace => \E h \in Members(order, m) : 0 \in Members(a.slots[h], Len(a.slots[h]))

(* What AllocStep leaves.                                                  *)
Stepped(g, a, b, h) ==
  /\ b \in AllocStates(Size(g))
  /\ b.next = (a.next + Width(g, h)) % SlotSpace
  /\ b.overflow <=> a.overflow \/ a.next + Width(g, h) >= SlotSpace
  /\ \A k \in 1..Size(g) : k # h => b.slots[k] = a.slots[k]
  /\ Len(b.slots[h]) = Width(g, h)
  /\ \A i \in 1..Width(g, h) : b.slots[h][i] = (a.next + i - 1) % SlotSpace

LEMMA AllocStepIs ==
  ASSUME NEW g, GraphOK(g), NEW a \in AllocStates(Size(g)), NEW h \in 1..Size(g)
  PROVE  Stepped(g, a, AllocStep(g, a, h), h)
<1> DEFINE w == Width(g, h)
           next == (a.next + w) % SlotSpace
           overflow == a.overflow \/ a.next + w >= SlotSpace
           own == [i \in 1..w |-> (a.next + i - 1) % SlotSpace]
           slots == [a.slots EXCEPT ![h] = own]
           b == AllocStep(g, a, h)
           U16 == 0..(SlotSpace - 1)
<1>1. w \in {1, 2, 3} /\ SlotSpace \in Nat
  BY NodesTyped, WidthIs, SlotSpaceAssumption DEF Width
<1>2. a.next \in U16 /\ a.overflow \in BOOLEAN /\ a.slots \in [1..Size(g) -> Seq(U16)]
  BY DEF AllocStates
<1> HIDE DEF w
<1>3. next \in U16 /\ \A i \in 1..w : (a.next + i - 1) % SlotSpace \in U16
  <2>1. a.next + w \in Nat /\ \A i \in 1..w : a.next + i - 1 \in Nat
    BY <1>1, <1>2
  <2> QED
    BY <2>1, ModIs
<1>4. own \in [1..w -> U16] /\ w \in Nat
  BY <1>1, <1>3
<1>5. own \in Seq(U16) /\ Len(own) = w /\ \A i \in 1..w : own[i] = (a.next + i - 1) % SlotSpace
  <2> HIDE DEF U16
  <2>1. own \in Seq(U16) /\ Len(own) = w
    BY <1>4, FunctionIsSeq
  <2> QED
    BY <2>1
<1>6. b = [next |-> next, overflow |-> overflow, slots |-> slots]
  BY DEF AllocStep, w, Width
<1> HIDE DEF next, own, U16
<1>7. slots \in [1..Size(g) -> Seq(U16)] /\ slots[h] = own /\ \A k \in 1..Size(g) : k # h => slots[k] = a.slots[k]
  BY <1>2, <1>5
<1>8. overflow \in BOOLEAN
  OBVIOUS
<1> HIDE DEF slots
<1>9. b \in AllocStates(Size(g))
  <2> HIDE DEF overflow, b
  <2> QED
    BY <1>3, <1>6, <1>7, <1>8 DEF AllocStates, U16
<1>a. b.next = next /\ b.slots = slots /\ b.overflow = overflow
  <2> HIDE DEF overflow, b
  <2> QED
    BY <1>6
<1> HIDE DEF b, overflow
<1>b. /\ \A k \in 1..Size(g) : k # h => b.slots[k] = a.slots[k]
      /\ Len(b.slots[h]) = w
      /\ \A i \in 1..w : b.slots[h][i] = (a.next + i - 1) % SlotSpace
  BY <1>5, <1>7, <1>a
<1> QED
  BY <1>9, <1>a, <1>b DEF Stepped, b, next, overflow, w

LEMMA AllocKeeps ==
  ASSUME NEW g, GraphOK(g), NEW order \in Seq(1..Size(g)), Distinct(order),
         NEW m \in 1..Len(order), NEW a, AllocOf(g, order, a, m - 1)
  PROVE  AllocOf(g, order, AllocStep(g, a, order[m]), m)
<1>0. PICK n \in Nat, l \in Nat : n = Size(g) /\ l = Len(order) /\ \A i \in 1..l : order[i] \in 1..n
  <2>1. Size(g) \in Nat
    BY NodesTyped
  <2>2. Len(order) \in Nat /\ \A i \in 1..Len(order) : order[i] \in 1..Size(g)
    BY LenProperties
  <2> QED
    BY <2>1, <2>2
<1>1. PICK h \in 1..n : h = order[m]
  BY <1>0
<1>2. PICK w \in Nat : w = Width(g, h) /\ 1 <= w /\ w <= 3
  <2>1. Width(g, h) \in {1, 2, 3}
    BY <1>0, <1>1, NodesTyped, WidthIs DEF Width
  <2> QED
    BY <2>1
<1>3. PICK old \in Nat, new \in Nat : old = Room(g, order, m - 1) /\ new = Room(g, order, m) /\ new = old + w
  <2>1. m \in 0..l /\ m - 1 \in 0..l /\ m # 0
    BY <1>0
  <2>2. Counted(g, order, m) /\ Counted(g, order, m - 1)
    BY <1>0, <2>1, RoomIs
  <2> QED
    BY <1>1, <1>2, <2>1, <2>2 DEF Counted
<1> DEFINE b == AllocStep(g, a, h)
<1>4. /\ a \in AllocStates(n)
      /\ a.overflow <=> old >= SlotSpace
      /\ old < SlotSpace => a.next = old
      /\ old = SlotSpace => a.next = 0
      /\ \A k \in 1..n : IF k \in Members(order, m - 1) THEN Len(a.slots[k]) = Width(g, k) ELSE a.slots[k] = <<>>
      /\ old <= SlotSpace => /\ \A k \in 1..n : \A i \in 1..Len(a.slots[k]) : a.slots[k][i] \in DynamicStart..(old - 1)
                             /\ Apart(a.slots)
      /\ old > SlotSpace => \E k \in Members(order, m - 1) : 0 \in Members(a.slots[k], Len(a.slots[k]))
  BY <1>0, <1>3 DEF AllocOf
<1>h. /\ a.overflow <=> old >= SlotSpace
      /\ old < SlotSpace => a.next = old
      /\ old = SlotSpace => a.next = 0
  BY <1>4
<1>5. Stepped(g, a, b, h)
  BY <1>0, <1>4, AllocStepIs
<1>6. /\ b \in AllocStates(n) /\ b.next = (a.next + w) % SlotSpace
      /\ b.overflow <=> a.overflow \/ a.next + w >= SlotSpace
      /\ \A k \in 1..n : k # h => b.slots[k] = a.slots[k]
      /\ Len(b.slots[h]) = w
      /\ \A i \in 1..w : b.slots[h][i] = (a.next + i - 1) % SlotSpace
  BY <1>0, <1>2, <1>5 DEF Stepped
<1>i. b.next = (a.next + w) % SlotSpace /\ (b.overflow <=> a.overflow \/ a.next + w >= SlotSpace)
  BY <1>6
<1> HIDE DEF b
<1>7. PICK K \in Nat, next \in Nat : K = SlotSpace /\ next = a.next /\ next < K /\ K > 32
  <2>1. a.next \in 0..(SlotSpace - 1) /\ SlotSpace \in Nat /\ SlotSpace > 32
    BY <1>4, SlotSpaceAssumption DEF AllocStates, DynamicStart
  <2> QED
    BY <2>1
<1>j. /\ a.overflow <=> old >= K
      /\ old < K => next = old
      /\ old = K => next = 0
  BY <1>7, <1>h
<1>8. Members(order, m) = Members(order, m - 1) \cup {h} /\ h \notin Members(order, m - 1)
  <2>1. 1..m = 1..(m - 1) \cup {m}
    OBVIOUS
  <2>2. \A i \in 1..(m - 1) : order[i] # h
    BY <1>0, <1>1 DEF Distinct
  <2> QED
    BY <1>1, <2>1, <2>2 DEF Members
<1>9. b.overflow <=> new >= SlotSpace
  <2>1. b.overflow <=> a.overflow \/ next + w >= K
    BY <1>7, <1>i
  <2>2. (old >= K \/ next + w >= K) <=> new >= K
    BY <1>2, <1>3, <1>7, <1>j
  <2> QED
    BY <1>7, <1>j, <2>1, <2>2
<1>k. new <= K => next = old /\ next + w = new
  BY <1>2, <1>3, <1>j
<1>l. (new < SlotSpace => new % SlotSpace = new) /\ (new = SlotSpace => new % SlotSpace = 0)
  BY ModIs
<1>m. new <= K => b.next = new % SlotSpace
  BY <1>7, <1>i, <1>k
<1>a. new < SlotSpace => b.next = new
  BY <1>7, <1>l, <1>m
<1>b. new = SlotSpace => b.next = 0
  BY <1>7, <1>l, <1>m
<1>c. \A k \in 1..n : IF k \in Members(order, m) THEN Len(b.slots[k]) = Width(g, k) ELSE b.slots[k] = <<>>
  BY <1>2, <1>4, <1>6, <1>8
<1>d. DOMAIN b.slots = 1..n /\ DOMAIN a.slots = 1..n /\ Len(b.slots) = n /\ Len(a.slots) = n
  <2>1. b.slots \in [1..n -> Seq(0..(SlotSpace - 1))] /\ a.slots \in [1..n -> Seq(0..(SlotSpace - 1))]
    BY <1>4, <1>6 DEF AllocStates
  <2> QED
    BY <1>0, <2>1, FunctionIsSeq
<1>e. ASSUME new <= SlotSpace
      PROVE  /\ \A k \in 1..n : \A i \in 1..Len(b.slots[k]) : b.slots[k][i] \in DynamicStart..(new - 1)
             /\ Apart(b.slots)
  <2>1. new <= K /\ old < K /\ next = old /\ old <= SlotSpace
    BY <1>2, <1>3, <1>7, <1>e, <1>j, SMTT(30)
  <2>2. ASSUME NEW i \in 1..w
        PROVE  b.slots[h][i] = old + i - 1
    <3>0. i \in Nat /\ 1 <= i /\ i <= w
      BY <1>2
    <3>a. new = old + w
      BY <1>3
    <3>b. old + i - 1 \in Nat /\ old + i - 1 < K
      BY <2>1, <3>0, <3>a
    <3>1. PICK x \in Nat : x = old + i - 1 /\ x < K
      BY <3>b
    <3>2. b.slots[h][i] = x % SlotSpace
      BY <1>6, <1>7, <2>1, <3>1
    <3>3. x < SlotSpace => x % SlotSpace = x
      BY ModIs
    <3> QED
      BY <1>7, <3>1, <3>2, <3>3
  <2>3. Len(b.slots[h]) = w /\ old >= 32
    <3>1. m - 1 \in 0..l
      BY <1>0
    <3>2. Counted(g, order, m - 1)
      BY <1>0, <3>1, RoomIs
    <3>3. PICK c \in Nat : c = Cardinality(Outputs(g, Members(order, m - 1)))
      BY <3>2, FS_CardinalityType DEF Counted
    <3>4. old = 32 + c
      BY <1>3, <3>3 DEF Room, DynamicStart
    <3> QED
      BY <1>6, <3>4
  <2>4. ASSUME NEW k \in 1..n, NEW i \in 1..Len(b.slots[k]), k # h
        PROVE  b.slots[k] = a.slots[k] /\ b.slots[k][i] \in DynamicStart..(old - 1)
    BY <1>4, <1>6, <2>1, <2>4
  <2>5. ASSUME NEW k \in 1..n, NEW i \in 1..Len(b.slots[k])
        PROVE  b.slots[k][i] \in DynamicStart..(new - 1)
    <3>1. CASE k = h
      <4>1. i \in 1..w /\ b.slots[k][i] = old + i - 1
        BY <2>2, <2>3, <3>1
      <4>a. i \in Nat /\ 1 <= i /\ i <= w
        BY <4>1
      <4>b. new = old + w /\ old >= 32
        BY <1>3, <2>3
      <4>2. old + i - 1 \in 32..(new - 1)
        BY <4>a, <4>b
      <4> QED
        BY <4>1, <4>2 DEF DynamicStart
    <3>2. CASE k # h
      <4>1. b.slots[k][i] \in 32..(old - 1)
        BY <2>4, <3>2 DEF DynamicStart
      <4>2. 32..(old - 1) \subseteq 32..(new - 1)
        BY <1>2, <1>3, SMTT(30)
      <4> QED
        BY <4>1, <4>2 DEF DynamicStart
    <3> QED
      BY <3>1, <3>2
  <2>6. ASSUME NEW j \in 1..n, NEW k \in 1..n, NEW x \in 1..Len(b.slots[j]), NEW y \in 1..Len(b.slots[k]),
               b.slots[j][x] = b.slots[k][y]
        PROVE  j = k /\ x = y
    <3>a. ASSUME NEW z \in 1..w
          PROVE  old + z - 1 \notin DynamicStart..(old - 1)
      BY <1>2, <1>3, SMTT(30) DEF DynamicStart
    <3>1. CASE j = h /\ k = h
      <4>1. x \in 1..w /\ y \in 1..w /\ old + x - 1 = old + y - 1
        BY <2>2, <2>3, <2>6, <3>1
      <4>2. x = y
        BY <1>2, <1>3, <4>1, SMTT(30)
      <4> QED
        BY <3>1, <4>2
    <3>2. CASE j = h /\ k # h
      <4>1. x \in 1..w /\ b.slots[j][x] = old + x - 1 /\ b.slots[k][y] \in DynamicStart..(old - 1)
        BY <2>2, <2>3, <2>4, <3>2
      <4> QED
        BY <2>6, <3>a, <4>1
    <3>3. CASE j # h /\ k = h
      <4>1. y \in 1..w /\ b.slots[k][y] = old + y - 1 /\ b.slots[j][x] \in DynamicStart..(old - 1)
        BY <2>2, <2>3, <2>4, <3>3
      <4> QED
        BY <2>6, <3>a, <4>1
    <3>4. CASE j # h /\ k # h
      <4>1. b.slots[j] = a.slots[j] /\ b.slots[k] = a.slots[k] /\ Apart(a.slots)
        BY <1>4, <1>6, <2>1, <3>4
      <4> QED
        BY <1>d, <2>6, <4>1 DEF Apart
    <3> QED
      BY <3>1, <3>2, <3>3, <3>4
  <2>7. Apart(b.slots)
    BY <1>d, <2>6 DEF Apart
  <2> QED
    BY <2>5, <2>7
<1>f. ASSUME new > SlotSpace
      PROVE  \E k \in Members(order, m) : 0 \in Members(b.slots[k], Len(b.slots[k]))
  <2>1. CASE old > SlotSpace
    <3>1. PICK k \in Members(order, m - 1) : 0 \in Members(a.slots[k], Len(a.slots[k]))
      BY <1>4, <2>1
    <3>2. k \in 1..n
      <4>1. PICK i \in 1..(m - 1) : k = order[i]
        BY <3>1 DEF Members
      <4>2. i \in 1..l
        BY <1>0
      <4> QED
        BY <1>0, <4>1, <4>2
    <3>3. b.slots[k] = a.slots[k]
      BY <1>6, <1>8, <3>2
    <3> QED
      BY <1>8, <3>1, <3>3
  <2>2. CASE old <= SlotSpace
    <3>1. PICK i \in 1..w : (a.next + i - 1) % SlotSpace = 0
      <4>1. CASE old = K
        <5>1. next + 1 - 1 = 0 /\ 1 \in 1..w
          BY <1>2, <1>j, <4>1
        <5>2. 0 % SlotSpace = 0
          BY <1>7, ModIs
        <5> QED
          BY <1>7, <5>1, <5>2
      <4>2. CASE old < K
        <5>1. next = old /\ new > K
          BY <1>7, <1>f, <1>j, <4>2
        <5>2. PICK i \in 1..w : next + i - 1 = K
          <6>1. K - old + 1 \in 1..w /\ next + (K - old + 1) - 1 = K
            BY <1>2, <1>3, <4>2, <5>1, SMTT(30)
          <6> QED
            BY <6>1
        <5>3. SlotSpace % SlotSpace = 0
          BY <1>7, ModIs
        <5> QED
          BY <1>7, <5>2, <5>3
      <4> QED
        BY <1>7, <2>2, <4>1, <4>2
    <3>2. 0 \in Members(b.slots[h], Len(b.slots[h]))
      BY <1>6, <3>1 DEF Members
    <3> QED
      BY <1>8, <3>2
  <2> QED
    BY <1>3, <1>7, <2>1, <2>2
<1>g. AllocOf(g, order, b, m)
  BY <1>0, <1>3, <1>6, <1>9, <1>a, <1>b, <1>c, <1>e, <1>f DEF AllocOf
<1> QED
  BY <1>1, <1>g DEF b

AllocSteps(g, order) == [m \in 1..Len(order) |-> [a \in AllocStates(Size(g)) |-> AllocStep(g, a, order[m])]]

LEMMA AllocStartIs ==
  ASSUME NEW g, GraphOK(g), NEW order \in Seq(1..Size(g)), Distinct(order)
  PROVE  AllocOf(g, order, AllocStart(g), 0)
<1> DEFINE a == AllocStart(g)
           slots == [h \in Handles(g) |-> <<>>]
<1>0. PICK n \in Nat : n = Size(g) /\ Handles(g) = 1..n
  BY NodesTyped
<1>1. a.next = DynamicStart /\ a.overflow = FALSE /\ a.slots = slots
      /\ a = [next |-> DynamicStart, overflow |-> FALSE, slots |-> slots]
  BY DEF AllocStart
<1>2. Room(g, order, 0) = DynamicStart /\ SlotSpace \in Nat /\ SlotSpace > DynamicStart /\ DynamicStart = 32
  BY RoomIs, SlotSpaceAssumption DEF DynamicStart
<1>3. slots \in [1..n -> Seq(0..(SlotSpace - 1))] /\ \A h \in 1..n : slots[h] = <<>>
  BY <1>0, EmptySeq
<1>4. Members(order, 0) = {}
  BY DEF Members
<1>5. DOMAIN slots = 1..n /\ Len(slots) = n
  <2> HIDE DEF slots
  <2> QED
    BY <1>0, <1>3, FunctionIsSeq
<1> HIDE DEF a, slots
<1>6. a \in AllocStates(n)
  BY <1>1, <1>2, <1>3 DEF AllocStates
<1>7. \A h \in 1..n : a.slots[h] = <<>> /\ Len(a.slots[h]) = 0
  BY <1>1, <1>3, EmptySeq
<1>8. Apart(a.slots)
  BY <1>1, <1>5, <1>7 DEF Apart
<1>9. ~(Room(g, order, 0) >= SlotSpace) /\ ~(Room(g, order, 0) > SlotSpace) /\ Room(g, order, 0) # SlotSpace
  BY <1>2
<1> QED
  BY <1>0, <1>1, <1>2, <1>4, <1>6, <1>7, <1>8, <1>9 DEF AllocOf, a

LEMMA AllocatedChain ==
  ASSUME NEW g, GraphOK(g), NEW order \in Seq(1..Size(g)), Distinct(order)
  PROVE  Chained(Allocated(g, order), Len(order), AllocStates(Size(g)), AllocStart(g), AllocSteps(g, order))
<1> DEFINE G == AllocStates(Size(g))
           base == AllocStart(g)
           step == AllocSteps(g, order)
           seq == order
           h == CHOOSE f : f = [t \in SUBSET (DOMAIN seq) |->
                                  IF t = {} THEN base ELSE AllocStep(g, f[t \ {Max(t)}], seq[Max(t)])]
<1>0. PICK n \in Nat : n = Len(order) /\ DOMAIN seq = 1..n /\ \A m \in 1..n : order[m] \in 1..Size(g)
  BY LenProperties
<1>1. base \in G
  BY AllocStartIs DEF AllocOf
<1>2. \A m \in 1..n : \A a \in G : AllocStep(g, a, order[m]) \in G
  BY <1>0, AllocStepIs DEF Stepped
<1>3. step \in [1..n -> [G -> G]] /\ \A m \in 1..n : \A a \in G : step[m][a] = AllocStep(g, a, order[m])
  BY <1>0, <1>2 DEF AllocSteps
<1>4. Allocated(g, order) = h[DOMAIN seq]
  BY Zenon DEF Allocated, AllocStart, AllocStep, FoldLeft, MapThenFoldSet
<1> HIDE DEF step, G, base
<1>5. Folds(n, G, base, step)
  BY <1>1, <1>3, FoldExists
<1>6. PICK f \in [SUBSET (1..n) -> G] : IsFold(f, n, base, step)
  BY <1>5 DEF Folds
<1>7. \A t \in SUBSET (1..n) : t # {} => Max(t) \in 1..n /\ t \ {Max(t)} \in SUBSET (1..n)
  BY MaxOf
<1>8. f = [t \in SUBSET (1..n) |-> IF t = {} THEN base ELSE AllocStep(g, f[t \ {Max(t)}], seq[Max(t)])]
  <2>1. ASSUME NEW t \in SUBSET (1..n)
        PROVE  f[t] = IF t = {} THEN base ELSE AllocStep(g, f[t \ {Max(t)}], seq[Max(t)])
    BY <1>3, <1>6, <1>7 DEF IsFold
  <2> QED
    BY <1>6, <2>1
<1> HIDE DEF seq
<1>9. h = [t \in SUBSET (1..n) |-> IF t = {} THEN base ELSE AllocStep(g, h[t \ {Max(t)}], seq[Max(t)])]
  BY <1>0, <1>8
<1> HIDE DEF h
<1>a. h[{}] = base
  BY <1>9
<1>b. \A t \in SUBSET (1..n) : t # {} /\ h[t \ {Max(t)}] \in G => h[t] = step[Max(t)][h[t \ {Max(t)}]]
  <2> SUFFICES ASSUME NEW t \in SUBSET (1..n), t # {}, NEW x \in G, x = h[t \ {Max(t)}]
               PROVE  h[t] = step[Max(t)][x]
    OBVIOUS
  <2>1. Max(t) \in 1..n
    BY <1>7
  <2>2. step[Max(t)][x] = AllocStep(g, x, seq[Max(t)])
    BY <1>3, <2>1 DEF seq
  <2>3. h[t] = AllocStep(g, x, seq[Max(t)])
    BY <1>9
  <2> QED
    BY <2>2, <2>3
<1>c. Chained(h[1..n], n, G, base, step)
  BY <1>1, <1>3, <1>a, <1>b, FoldChain, Zenon
<1> QED
  BY <1>0, <1>4, <1>c DEF step, G, base

LEMMA AllocatedIs ==
  ASSUME NEW g, GraphOK(g), NEW order \in Seq(1..Size(g)), Distinct(order)
  PROVE  AllocOf(g, order, Allocated(g, order), Len(order))
<1>0. PICK n \in Nat : n = Len(order)
  BY LenProperties
<1> DEFINE G == AllocStates(Size(g))
           base == AllocStart(g)
           step == AllocSteps(g, order)
           last == Allocated(g, order)
           R == [m \in 0..n |-> {a \in G : AllocOf(g, order, a, m)}]
<1>1. Chained(last, n, G, base, step)
  BY <1>0, AllocatedChain
<1>2. base \in R[0]
  <2>1. AllocOf(g, order, base, 0) /\ 0 \in 0..n
    BY AllocStartIs
  <2>2. base \in G
    BY <2>1 DEF AllocOf
  <2> HIDE DEF base, G
  <2> QED
    BY <2>1, <2>2
<1>3. Hands(R, n, G, step)
  <2> SUFFICES ASSUME NEW m \in 1..n, NEW a \in G, a \in R[m - 1]
               PROVE  step[m][a] \in R[m]
    BY DEF Hands
  <2>1. m - 1 \in 0..n /\ m \in 0..n /\ step[m][a] = AllocStep(g, a, order[m])
    BY <1>0 DEF AllocSteps
  <2>2. AllocOf(g, order, a, m - 1)
    BY <2>1
  <2>3. AllocOf(g, order, AllocStep(g, a, order[m]), m)
    BY <1>0, <2>2, AllocKeeps
  <2>4. AllocStep(g, a, order[m]) \in G
    BY <2>3 DEF AllocOf
  <2> HIDE DEF G, step
  <2> QED
    BY <2>1, <2>3, <2>4
<1> HIDE DEF R, G, step, base, last
<1>4. last \in R[n]
  BY <1>1, <1>2, <1>3, ChainHands, Zenon
<1>5. n \in 0..n
  OBVIOUS
<1> QED
  BY <1>0, <1>4, <1>5 DEF R, last
-----------------------------------------------------------------------------
(* ---- the plan --------------------------------------------------------- *)

(* The slots that a compiled graph has for its nodes.                      *)
Placed(g, order, slots) ==
  /\ Whole(g) /\ GoodOrder(g, order)
  /\ \A h \in 1..Size(g) : slots[h] = <<>> <=> h \notin Members(order, Len(order))

LEMMA InOrder ==
  ASSUME NEW g, NEW order, NEW slots, Placed(g, order, slots), NEW h \in Members(order, Len(order))
  PROVE  /\ h \in 1..Size(g) /\ g.nodes[h] \in Nodes
         /\ \A k \in 1..Degree(g, h) : Dependencies(g, h)[k] \in Members(order, Len(order))
<1>1. order \in Seq(1..Size(g)) /\ Ordered(g, order) /\ GraphOK(g)
  BY DEF Placed, GoodOrder, Whole
<1>2. PICK l \in Nat : l = Len(order) /\ \A i \in 1..l : order[i] \in 1..Size(g)
  BY <1>1, LenProperties
<1>3. PICK i \in 1..l : h = order[i]
  BY <1>2 DEF Members
<1>4. h \in 1..Size(g) /\ g.nodes[h] \in Nodes
  BY <1>1, <1>2, <1>3, NodesTyped
<1>5. ASSUME NEW k \in 1..Degree(g, h)
      PROVE  Dependencies(g, h)[k] \in Members(order, Len(order))
  <2>1. Dependencies(g, h)[k] \in Members(order, i - 1)
    BY <1>1, <1>2, <1>3 DEF Ordered
  <2>2. PICK j \in 1..(i - 1) : Dependencies(g, h)[k] = order[j]
    BY <2>1 DEF Members
  <2>3. j \in 1..l
    BY <1>2
  <2> QED
    BY <1>2, <2>2, <2>3 DEF Members
<1> QED
  BY <1>4, <1>5

(* A kernel reads from where there is nothing exactly when an input is not *)
(* of the kind that its node takes.                                        *)
LEMMA SourcesAre ==
  ASSUME NEW g, NEW order, NEW slots, Placed(g, order, slots), NEW h \in Members(order, Len(order))
  PROVE  <<>> \in ToSet(SourceSlots(g, slots, h)) <=> ~WellKinded(g, g.nodes[h])
<1> DEFINE node == g.nodes[h]
           refs == References(node)
           In(k) == g.nodes[Resolve(g, refs[k])]
<1>1. h \in 1..Size(g) /\ node \in Nodes /\ Whole(g) /\ GraphOK(g)
  BY InOrder DEF Placed, Whole
<1>2. PICK d \in Nat : d = Degree(g, h) /\ d = Len(refs) /\ DOMAIN refs = 1..d /\ ToSet(refs) = {refs[k] : k \in 1..d}
  BY <1>1, WholeIsLinked, ReferencesAre
<1>3. ASSUME NEW k \in 1..d
      PROVE  NodeOf(g, refs[k]) = In(k) /\ slots[Resolve(g, refs[k])] # <<>>
  <2>1. Dependencies(g, h)[k] = Resolve(g, refs[k]) /\ refs[k] \in KnownIds(g)
    BY <1>1, <1>2, WholeIsLinked
  <2>2. NodeOf(g, refs[k]) = In(k) /\ Resolve(g, refs[k]) \in 1..Size(g)
    BY <1>1, <2>1, KnownIsNamed DEF Named
  <2>3. Resolve(g, refs[k]) \in Members(order, Len(order))
    <3>1. \A j \in 1..Degree(g, h) : Dependencies(g, h)[j] \in Members(order, Len(order))
      BY InOrder
    <3> QED
      BY <1>2, <2>1, <3>1
  <2> QED
    BY <2>2, <2>3 DEF Placed
<1>4. CASE node.kind = "combine"
  <2>1. refs = node.inputs
    BY <1>4 DEF References
  <2>2. SourceSlots(g, slots, h) = [k \in 1..d |-> ScalarSlot(g, slots, Resolve(g, refs[k]))]
    BY <1>2, <1>4, <2>1 DEF SourceSlots
  <2>3. ASSUME NEW k \in 1..d
        PROVE  ScalarSlot(g, slots, Resolve(g, refs[k])) = <<>> <=> In(k).kind \in Warps
    BY <1>3 DEF ScalarSlot
  <2>4. WellKinded(g, node) <=> \A k \in 1..d : In(k).kind \notin Warps
    <3>1. WellKinded(g, node) <=> \A id \in ToSet(refs) : NodeOf(g, id).kind \notin Warps
      BY <1>4 DEF WellKinded
    <3> HIDE DEF refs, node
    <3> QED
      BY <1>2, <1>3, <3>1
  <2>5. <<>> \in ToSet(SourceSlots(g, slots, h)) <=> \E k \in 1..d : ScalarSlot(g, slots, Resolve(g, refs[k])) = <<>>
    BY <2>2 DEF ToSet
  <2> QED
    BY <2>3, <2>4, <2>5
<1>5. CASE node.kind # "combine"
  <2>1. node.kind \in Warps \cup Samples /\ node.source \in Ids \cup {Base}
    BY <1>1, <1>5, NodesAssumption
  <2>2. CASE node.source = Base
    <3>1. SourceSlots(g, slots, h) = <<Coords(Arity(node.kind))>>
      BY <1>5, <2>2 DEF SourceSlots
    <3>2. Coords(Arity(node.kind)) # <<>>
      <4>1. Arity(node.kind) \in {2, 3}
        BY DEF Arity
      <4>2. Coords(2) # <<>> /\ Coords(3) # <<>>
        <5>1. Len(Coords(2)) = 2 /\ Len(Coords(3)) = 3
          BY DEF Coords, BaseSlots
        <5>2. Len(<<>>) = 0
          OBVIOUS
        <5>3. ASSUME NEW seq, seq = <<>>
              PROVE  Len(seq) = 0
          BY <5>2, <5>3
        <5> QED
          BY <5>1, <5>3
      <4> QED
        BY <4>1, <4>2
    <3>3. <<>> \notin ToSet(SourceSlots(g, slots, h))
      <4> DEFINE c == Coords(Arity(node.kind))
      <4> HIDE DEF c
      <4> QED
        BY <3>1, <3>2 DEF ToSet, c
    <3>4. refs = <<>>
      BY <1>5, <2>2 DEF References
    <3>5. ToSet(refs) = {}
      <4>1. d = 0
        BY <1>2, <3>4, EmptySeq
      <4> QED
        BY <1>2, <4>1
    <3> QED
      BY <3>3, <3>5 DEF WellKinded
  <2>3. CASE node.source # Base
    <3> DEFINE p == PositionSlots(g, slots, Resolve(g, node.source), Arity(node.kind))
    <3>1. SourceSlots(g, slots, h) = <<p>>
      BY <1>5, <2>3 DEF SourceSlots
    <3>2. refs = <<node.source>>
      BY <1>5, <2>3 DEF References
    <3>3. d = 1 /\ refs[1] = node.source /\ ToSet(refs) = {node.source}
      <4>1. d = 1 /\ refs[1] = node.source
        BY <1>2, <3>2
      <4>2. 1..1 = {1}
        OBVIOUS
      <4> QED
        BY <1>2, <4>1, <4>2
    <3>4. NodeOf(g, node.source) = In(1) /\ slots[Resolve(g, node.source)] # <<>>
      <4>1. 1 \in 1..d
        BY <3>3
      <4> QED
        BY <1>3, <3>3, <4>1
    <3>5. p = <<>> <=> ~(In(1).kind \in Warps /\ Arity(In(1).kind) = Arity(node.kind))
      BY <3>3, <3>4 DEF PositionSlots
    <3>6. WellKinded(g, node) <=> In(1).kind \in Warps /\ Arity(In(1).kind) = Arity(node.kind)
      BY <1>5, <3>3, <3>4 DEF WellKinded
    <3>7. <<>> \in ToSet(SourceSlots(g, slots, h)) <=> p = <<>>
      <4> HIDE DEF p
      <4> QED
        BY <3>1 DEF ToSet
    <3> QED
      BY <3>5, <3>6, <3>7
  <2> QED
    BY <2>1, <2>2, <2>3
<1> QED
  BY <1>4, <1>5

(* The final field has no slot exactly when it is no scalar, or depends on *)
(* a cycle.                                                                *)
LEMMA FinalIs ==
  ASSUME NEW g, NEW order, NEW slots, Placed(g, order, slots)
  PROVE  ScalarSlot(g, slots, Resolve(g, g.final)) = <<>> <=>
           NodeOf(g, g.final).kind \in Warps \/ NodeOf(g, g.final) \notin Grounded(g)
<1> DEFINE f == Resolve(g, g.final)
<1>1. GraphOK(g) /\ g.final \in KnownIds(g) /\ GoodOrder(g, order) /\ Whole(g)
  BY DEF Placed, Whole, Refers
<1>2. f \in 1..Size(g) /\ NodeOf(g, g.final) = g.nodes[f]
  BY <1>1, KnownIsNamed DEF Named
<1>3. Grounded(g) = NodesOf(g, Members(order, Len(order)))
  BY <1>1, GroundedIs
<1>4. g.nodes[f] \in NodesOf(g, Members(order, Len(order))) <=> f \in Members(order, Len(order))
  <2>1. ASSUME NEW h \in Members(order, Len(order)), g.nodes[f] = g.nodes[h]
        PROVE  f = h
    BY <1>1, <1>2, <2>1, InOrder, NodesTyped
  <2> QED
    BY <2>1 DEF NodesOf
<1> QED
  BY <1>2, <1>3, <1>4 DEF ScalarSlot, Placed

(* The buffers that a plan declares.                                       *)
Asked == {U32Buffer(QueryMeta), F32Buffer(QueryF32), U32Buffer(QueryOffsets)}
BufferSpecs == Asked \cup {F32Buffer(slot) : slot \in Nat}

Pieces(order, slots) ==
  [i \in DOMAIN order |-> [k \in DOMAIN slots[order[i]] |-> F32Buffer(slots[order[i]][k])]]

Given(g) ==
  <<U32Buffer(QueryMeta), F32Buffer(QueryF32), U32Buffer(QueryOffsets)>>
    \o [i \in 1..g.dimension |-> F32Buffer(BaseSlots[i])]

SpecsOf(g, order, slots) ==
  <<U32Buffer(QueryMeta), F32Buffer(QueryF32), U32Buffer(QueryOffsets)>>
    \o [i \in 1..g.dimension |-> F32Buffer(BaseSlots[i])]
    \o Concat(Pieces(order, slots))

LEMMA BufferIs ==
  /\ \A slot : F32Buffer(slot).slot = slot /\ U32Buffer(slot).slot = slot
  /\ \A slot : F32Buffer(slot).kind = "f32" /\ U32Buffer(slot).kind = "u32"
  /\ QueryMeta = 0 /\ QueryF32 = 1 /\ QueryOffsets = 2
BY DEF F32Buffer, U32Buffer, QueryMeta, QueryF32, QueryOffsets

(* The buffers of every plan: those of the queries, and the coordinates.   *)
GivenOf(g) ==
  /\ Given(g) \in Seq(BufferSpecs) /\ Len(Given(g)) \in Nat /\ Len(Given(g)) >= 3
  /\ Distinct(Given(g))
  /\ Given(g)[1] = U32Buffer(QueryMeta) /\ Given(g)[2] = F32Buffer(QueryF32) /\ Given(g)[3] = U32Buffer(QueryOffsets)
  /\ \A b \in Members(Given(g), Len(Given(g))) : b \in Asked \/ \E slot \in 10..12 : b = F32Buffer(slot)

LEMMA GivenIs ==
  ASSUME NEW g, g.dimension \in {2, 3}
  PROVE  GivenOf(g)
<1> DEFINE X == BufferSpecs
           s == <<U32Buffer(QueryMeta), F32Buffer(QueryF32), U32Buffer(QueryOffsets)>>
           t == [i \in 1..g.dimension |-> F32Buffer(BaseSlots[i])]
<1>0. PICK d \in Nat : d = g.dimension /\ d \in {2, 3}
  OBVIOUS
<1>1. s \in Seq(X) /\ Len(s) = 3 /\ s[1] = U32Buffer(QueryMeta) /\ s[2] = F32Buffer(QueryF32) /\ s[3] = U32Buffer(QueryOffsets)
  BY DEF BufferSpecs, Asked
<1>2. \A i \in 1..d : BaseSlots[i] = 9 + i /\ BaseSlots[i] \in 10..12 /\ t[i] = F32Buffer(9 + i) /\ F32Buffer(9 + i) \in X
  <2>1. \A i \in 1..d : i \in {1, 2, 3}
    BY <1>0
  <2>2. \A i \in {1, 2, 3} : BaseSlots[i] = 9 + i /\ 9 + i \in 10..12 /\ 9 + i \in Nat
    BY DEF BaseSlots
  <2> QED
    BY <1>0, <2>1, <2>2 DEF BufferSpecs
<1>3. t \in Seq(X) /\ Len(t) = d
  <2>1. t \in [1..d -> X]
    BY <1>0, <1>2
  <2> HIDE DEF t
  <2> QED
    BY <2>1, FunctionIsSeq
<1>4. Given(g) = s \o t
  BY DEF Given
<1> HIDE DEF X, s, t
<1>5. Len(s \o t) = 3 + d /\ s \o t \in Seq(X) /\ \A i \in 1..(3 + d) : (s \o t)[i] = IF i <= 3 THEN s[i] ELSE t[i - 3]
  <2>1. /\ s \o t \in Seq(X) /\ Len(s \o t) = Len(s) + Len(t)
        /\ \A i \in 1..(Len(s) + Len(t)) : (s \o t)[i] = IF i <= Len(s) THEN s[i] ELSE t[i - Len(s)]
    BY <1>1, <1>3, ConcatProperties
  <2> QED
    BY <1>1, <1>3, <2>1
<1>6. Members(s, 3) = Asked
  <2>1. 1..3 = {1, 2, 3}
    OBVIOUS
  <2>2. Members(s, 3) = {s[1], s[2], s[3]}
    BY <2>1 DEF Members
  <2> QED
    BY <1>1, <2>2 DEF Asked
<1>7. \A b \in Members(t, d) : \E slot \in 10..12 : b = F32Buffer(slot)
  BY <1>2 DEF Members
<1>8. Distinct(s)
  <2>1. s[1] # s[2] /\ s[1] # s[3] /\ s[2] # s[3]
    BY <1>1, BufferIs
  <2>2. \A i \in 1..3 : i = 1 \/ i = 2 \/ i = 3
    OBVIOUS
  <2> QED
    BY <1>1, <2>1, <2>2 DEF Distinct
<1>9. Distinct(t)
  <2> SUFFICES ASSUME NEW i \in 1..d, NEW j \in 1..d, t[i] = t[j]
               PROVE  i = j
    BY <1>3 DEF Distinct
  <2>1. F32Buffer(9 + i).slot = F32Buffer(9 + j).slot
    BY <1>2
  <2>2. 9 + i = 9 + j
    BY <2>1, BufferIs
  <2> QED
    BY <2>2
<1>a. Members(s, 3) \cap Members(t, d) = {}
  <2>1. \A b \in Asked : b.slot \in {0, 1, 2}
    BY BufferIs DEF Asked
  <2>2. \A b \in Members(t, d) : b.slot \in 10..12
    BY <1>7, BufferIs
  <2> QED
    BY <1>6, <2>1, <2>2
<1>b. Distinct(s \o t)
  BY <1>1, <1>3, <1>8, <1>9, <1>a, DistinctConcat
<1>c. Members(s \o t, 3 + d) = Asked \cup Members(t, d)
  BY <1>1, <1>3, <1>5, <1>6, MembersConcat
<1> DEFINE u == s \o t
<1>d. u[1] = s[1] /\ u[2] = s[2] /\ u[3] = s[3]
  BY <1>5
<1> HIDE DEF u
<1>e. u \in Seq(X) /\ Len(u) = 3 + d /\ Distinct(u) /\ Members(u, 3 + d) = Asked \cup Members(t, d)
  BY <1>5, <1>b, <1>c DEF u
<1> QED
  BY <1>1, <1>4, <1>7, <1>d, <1>e DEF GivenOf, u, X

(* The buffers of the nodes.                                               *)
LEMMA PiecesAre ==
  ASSUME NEW n \in Nat, NEW order \in Seq(1..n), NEW slots \in [1..n -> Seq(0..(SlotSpace - 1))]
  PROVE  /\ Pieces(order, slots) \in Seq(Seq(BufferSpecs)) /\ Len(Pieces(order, slots)) = Len(order)
         /\ \A i \in 1..Len(order) :
              /\ Len(Pieces(order, slots)[i]) = Len(slots[order[i]]) /\ Len(slots[order[i]]) \in Nat
              /\ \A k \in 1..Len(slots[order[i]]) : Pieces(order, slots)[i][k] = F32Buffer(slots[order[i]][k])
<1> DEFINE X == BufferSpecs
           pieces == Pieces(order, slots)
<1>1. PICK l \in Nat : l = Len(order) /\ DOMAIN order = 1..l /\ \A i \in 1..l : order[i] \in 1..n
  <2>1. Len(order) \in Nat /\ order \in [1..Len(order) -> 1..n] /\ DOMAIN order = 1..Len(order)
    BY LenProperties
  <2> QED
    BY <2>1, Zenon
<1>2. ASSUME NEW i \in 1..l
      PROVE  /\ pieces[i] \in Seq(X) /\ Len(pieces[i]) = Len(slots[order[i]]) /\ Len(slots[order[i]]) \in Nat
             /\ \A k \in 1..Len(slots[order[i]]) : pieces[i][k] = F32Buffer(slots[order[i]][k])
  <2> DEFINE own == slots[order[i]]
             piece == [k \in DOMAIN own |-> F32Buffer(own[k])]
  <2>1. own \in Seq(0..(SlotSpace - 1))
    BY <1>1
  <2> HIDE DEF own
  <2>2. PICK c \in Nat : c = Len(own) /\ DOMAIN own = 1..c /\ \A k \in 1..c : own[k] \in 0..(SlotSpace - 1)
    <3>1. Len(own) \in Nat /\ DOMAIN own = 1..Len(own) /\ own \in [1..Len(own) -> 0..(SlotSpace - 1)]
      BY <2>1, LenProperties
    <3> QED
      BY <3>1, Zenon
  <2>3. \A k \in 1..c : F32Buffer(own[k]) \in X
    <3>1. \A k \in 1..c : own[k] \in Nat
      BY <2>2, SlotSpaceAssumption
    <3> QED
      BY <3>1 DEF BufferSpecs
  <2>4. piece \in [1..c -> X]
    BY <2>2, <2>3
  <2>5. pieces[i] = piece
    BY <1>1 DEF Pieces, own
  <2>6. piece \in Seq(X) /\ Len(piece) = c
    <3> HIDE DEF piece, X
    <3> QED
      BY <2>4, FunctionIsSeq
  <2> QED
    BY <2>2, <2>5, <2>6 DEF own
<1>3. pieces \in [1..l -> Seq(X)]
  <2>1. pieces = [i \in 1..l |-> pieces[i]]
    BY <1>1 DEF Pieces
  <2> HIDE DEF pieces
  <2> QED
    BY <1>2, <2>1
<1> HIDE DEF pieces, X
<1>4. pieces \in Seq(Seq(X)) /\ Len(pieces) = l
  BY <1>3, FunctionIsSeq
<1> QED
  BY <1>1, <1>2, <1>4 DEF pieces, X

(* A plan declares no slot twice exactly when the slots suffice.           *)
Declares(g, order, slots) ==
  LET specs == SpecsOf(g, order, slots)
  IN  /\ \A i \in 1..3 : i \in DOMAIN specs
      /\ specs[1].slot = QueryMeta /\ specs[2].slot = QueryF32 /\ specs[3].slot = QueryOffsets
      /\ IsInjective([i \in DOMAIN specs |-> specs[i].slot]) <=> Room(g, order, Len(order)) <= SlotSpace

LEMMA DeclaresIs ==
  ASSUME NEW g, GraphOK(g), NEW order \in Seq(1..Size(g)), Distinct(order),
         NEW a, AllocOf(g, order, a, Len(order))
  PROVE  Declares(g, order, a.slots)
<1> DEFINE X == BufferSpecs
           slots == a.slots
           pieces == Pieces(order, slots)
           all == Concat(pieces)
           given == Given(g)
           specs == SpecsOf(g, order, slots)
           room == Room(g, order, Len(order))
<1>1. PICK n \in Nat, l \in Nat : n = Size(g) /\ l = Len(order) /\ \A i \in 1..l : order[i] \in 1..n
  <2>1. Size(g) \in Nat
    BY NodesTyped
  <2>2. Len(order) \in Nat /\ \A i \in 1..Len(order) : order[i] \in 1..Size(g)
    BY LenProperties
  <2> QED
    BY <2>1, <2>2
<1>2. /\ slots \in [1..n -> Seq(0..(SlotSpace - 1))]
      /\ room <= SlotSpace => /\ \A h \in 1..n : \A i \in 1..Len(slots[h]) : slots[h][i] \in DynamicStart..(room - 1)
                              /\ Apart(slots)
      /\ room > SlotSpace => \E h \in Members(order, l) : 0 \in Members(slots[h], Len(slots[h]))
  BY <1>1 DEF AllocOf, AllocStates
<1>3. DOMAIN slots = 1..n /\ Len(slots) = n
  BY <1>2, FunctionIsSeq
<1>4. room \in Nat /\ SlotSpace \in Nat
  <2>1. l \in 0..l
    OBVIOUS
  <2>2. Counted(g, order, l)
    BY <1>1, <2>1, RoomIs
  <2> QED
    BY <1>1, <2>2, SlotSpaceAssumption DEF Counted
<1>5. /\ pieces \in Seq(Seq(X)) /\ Len(pieces) = l
      /\ \A i \in 1..l : /\ Len(pieces[i]) = Len(slots[order[i]]) /\ Len(slots[order[i]]) \in Nat
                         /\ \A k \in 1..Len(slots[order[i]]) : pieces[i][k] = F32Buffer(slots[order[i]][k])
  BY <1>1, <1>2, PiecesAre, ZenonT(30)
<1>6. GivenOf(g)
  BY GivenIs DEF GraphOK
<1>7. specs = given \o all
  BY Zenon DEF SpecsOf, Given
<1> HIDE DEF pieces
<1>8. all \in Seq(X) /\ Members(all, Len(all)) = Spread(pieces, l) /\ (Apart(pieces) => Distinct(all))
  BY <1>5, ConcatIs DEF ConcatOf
<1> HIDE DEF all, given, slots, specs, room, X
<1>9. /\ given \in Seq(X) /\ Len(given) \in Nat /\ Len(given) >= 3 /\ Distinct(given)
      /\ given[1] = U32Buffer(QueryMeta) /\ given[2] = F32Buffer(QueryF32) /\ given[3] = U32Buffer(QueryOffsets)
      /\ \A b \in Members(given, Len(given)) : b \in Asked \/ \E slot \in 10..12 : b = F32Buffer(slot)
  BY <1>6 DEF GivenOf, given, X
<1>a. PICK p \in Nat, q \in Nat : /\ p = Len(given) /\ p >= 3 /\ q = Len(all)
                                  /\ specs \in Seq(X) /\ Len(specs) = p + q /\ DOMAIN specs = 1..(p + q)
                                  /\ \A i \in 1..(p + q) : specs[i] = IF i <= p THEN given[i] ELSE all[i - p]
  <2>1. Len(given) \in Nat /\ Len(all) \in Nat
    BY <1>8, <1>9, LenProperties
  <2>2. /\ specs \in Seq(X) /\ Len(specs) = Len(given) + Len(all)
        /\ \A i \in 1..(Len(given) + Len(all)) : specs[i] = IF i <= Len(given) THEN given[i] ELSE all[i - Len(given)]
    BY <1>7, <1>8, <1>9, ConcatProperties
  <2>3. DOMAIN specs = 1..Len(specs)
    BY <2>2, LenProperties
  <2> QED
    BY <1>9, <2>1, <2>2, <2>3
<1>b. \A i \in 1..3 : i \in DOMAIN specs /\ specs[i] = given[i]
  <2>1. \A i \in 1..3 : i \in 1..(p + q) /\ i <= p
    BY <1>a
  <2> QED
    BY <1>a, <2>1
<1>c. specs[1].slot = QueryMeta /\ specs[2].slot = QueryF32 /\ specs[3].slot = QueryOffsets
  <2>1. 1 \in 1..3 /\ 2 \in 1..3 /\ 3 \in 1..3
    OBVIOUS
  <2> QED
    BY <1>9, <1>b, <2>1, BufferIs
<1>d. ASSUME room > SlotSpace
      PROVE  ~IsInjective([i \in DOMAIN specs |-> specs[i].slot])
  <2>1. PICK h \in Members(order, l) : 0 \in Members(slots[h], Len(slots[h]))
    BY <1>2, <1>d
  <2>2. PICK j \in 1..l : h = order[j]
    BY <2>1 DEF Members
  <2>3. PICK k \in 1..Len(slots[h]) : slots[h][k] = 0
    BY <2>1 DEF Members
  <2>4. pieces[j][k] = F32Buffer(0) /\ k \in 1..Len(pieces[j])
    BY <1>5, <2>2, <2>3
  <2>5. F32Buffer(0) \in Spread(pieces, l)
    BY <2>4 DEF Spread, Members
  <2>6. PICK i \in 1..q : all[i] = F32Buffer(0)
    BY <1>8, <1>a, <2>5 DEF Members
  <2>7. PICK x \in 1..(p + q) : x = p + i /\ x # 1 /\ ~(x <= p) /\ x - p = i
    <3>1. p + i \in 1..(p + q) /\ p + i # 1 /\ ~(p + i <= p) /\ (p + i) - p = i
      BY <1>a
    <3> QED
      BY <3>1
  <2>8. specs[x] = F32Buffer(0)
    BY <1>a, <2>6, <2>7
  <2>9. x \in DOMAIN specs /\ 1 \in DOMAIN specs /\ specs[x].slot = specs[1].slot
    BY <1>a, <1>b, <1>c, <2>8, BufferIs
  <2> QED
    BY <2>7, <2>9 DEF IsInjective
<1>e. ASSUME room <= SlotSpace
      PROVE  IsInjective([i \in DOMAIN specs |-> specs[i].slot])
  <2>1. ASSUME NEW b \in Members(all, q)
        PROVE  \E slot \in Nat : slot >= 32 /\ b = F32Buffer(slot)
    <3>1. b \in Spread(pieces, l)
      BY <1>8, <1>a
    <3>2. PICK j \in 1..l : b \in Members(pieces[j], Len(pieces[j]))
      BY <3>1 DEF Spread
    <3>3. PICK k \in 1..Len(slots[order[j]]) : b = F32Buffer(slots[order[j]][k])
      <4>1. PICK k \in 1..Len(pieces[j]) : b = pieces[j][k]
        BY <3>2 DEF Members
      <4> QED
        BY <1>5, <4>1
    <3>4. slots[order[j]][k] \in 32..(room - 1)
      BY <1>1, <1>2, <1>e DEF DynamicStart
    <3>5. slots[order[j]][k] \in Nat /\ slots[order[j]][k] >= 32
      BY <1>4, <3>4
    <3> QED
      BY <3>3, <3>5
  <2>2. ASSUME NEW i \in 1..Len(pieces), NEW j \in 1..Len(pieces), NEW x \in 1..Len(pieces[i]), NEW y \in 1..Len(pieces[j]),
               pieces[i][x] = pieces[j][y]
        PROVE  i = j /\ x = y
    <3>1. i \in 1..l /\ j \in 1..l /\ x \in 1..Len(slots[order[i]]) /\ y \in 1..Len(slots[order[j]])
      BY <1>5
    <3>2. pieces[i][x] = F32Buffer(slots[order[i]][x]) /\ pieces[j][y] = F32Buffer(slots[order[j]][y])
      BY <1>5, <3>1
    <3>3. slots[order[i]][x] = slots[order[j]][y]
      <4>1. F32Buffer(slots[order[i]][x]).slot = F32Buffer(slots[order[j]][y]).slot
        BY <2>2, <3>2
      <4> QED
        BY <4>1, BufferIs
    <3>4. order[i] \in 1..n /\ order[j] \in 1..n /\ Apart(slots)
      BY <1>1, <1>2, <1>e, <3>1
    <3>5. order[i] = order[j] /\ x = y
      <4>1. PICK c \in 1..Len(slots), d \in 1..Len(slots) : c = order[i] /\ d = order[j]
        BY <1>3, <3>4
      <4>2. x \in 1..Len(slots[c]) /\ y \in 1..Len(slots[d]) /\ slots[c][x] = slots[d][y]
        BY <3>1, <3>3, <4>1
      <4>3. c = d /\ x = y
        BY <3>4, <4>2, SMTT(30) DEF Apart
      <4> QED
        BY <4>1, <4>3
    <3> QED
      BY <1>1, <3>1, <3>5 DEF Distinct
  <2>3. Distinct(all)
    BY <1>8, <2>2 DEF Apart
  <2>4. \A b \in Members(given, p) : b.slot < 32
    <3> SUFFICES ASSUME NEW b \in Members(given, p)
                 PROVE  b.slot < 32
      OBVIOUS
    <3>1. b \in Asked \/ \E slot \in 10..12 : b = F32Buffer(slot)
      BY <1>9, <1>a
    <3>2. CASE b \in Asked
      BY <3>2, BufferIs DEF Asked
    <3>3. CASE \E slot \in 10..12 : b = F32Buffer(slot)
      BY <3>3, BufferIs
    <3> QED
      BY <3>1, <3>2, <3>3
  <2>5. \A b \in Members(all, q) : b.slot \in Nat /\ b.slot >= 32
    BY <2>1, BufferIs
  <2>6. Distinct(specs)
    <3>1. Members(given, p) \cap Members(all, q) = {}
      <4> SUFFICES ASSUME NEW b \in Members(given, p), b \in Members(all, q)
                   PROVE  FALSE
        OBVIOUS
      <4>1. b.slot < 32 /\ b.slot >= 32 /\ b.slot \in Nat
        BY <2>4, <2>5
      <4> QED
        BY <4>1
    <3> QED
      BY <1>7, <1>8, <1>9, <1>a, <2>3, <3>1, DistinctConcat
  <2>7. Members(specs, p + q) = Members(given, p) \cup Members(all, q)
    <3>1. Members(given \o all, Len(given \o all)) = Members(given, Len(given)) \cup Members(all, Len(all))
      BY <1>8, <1>9, MembersConcat
    <3> QED
      BY <1>7, <1>a, <3>1
  <2>8. \A b \in Members(specs, p + q) : b \in Asked \/ \E slot \in Nat : slot >= 10 /\ b = F32Buffer(slot)
    <3> SUFFICES ASSUME NEW b \in Members(specs, p + q)
                 PROVE  b \in Asked \/ \E slot \in Nat : slot >= 10 /\ b = F32Buffer(slot)
      OBVIOUS
    <3>1. CASE b \in Members(given, p)
      <4>1. b \in Asked \/ \E slot \in 10..12 : b = F32Buffer(slot)
        BY <1>9, <1>a, <3>1
      <4>2. \A slot \in 10..12 : slot \in Nat /\ slot >= 10
        OBVIOUS
      <4> QED
        BY <4>1, <4>2
    <3>2. CASE b \in Members(all, q)
      <4>1. PICK slot \in Nat : slot >= 32 /\ b = F32Buffer(slot)
        BY <2>1, <3>2
      <4>2. slot >= 10
        BY <4>1
      <4> QED
        BY <4>1, <4>2
    <3> QED
      BY <2>7, <3>1, <3>2
  <2>9. ASSUME NEW b \in Members(specs, p + q), NEW c \in Members(specs, p + q), b.slot = c.slot
        PROVE  b = c
    <3>1. \A d \in Asked : d = U32Buffer(0) \/ d = F32Buffer(1) \/ d = U32Buffer(2)
      BY BufferIs DEF Asked
    <3>2. U32Buffer(0).slot = 0 /\ F32Buffer(1).slot = 1 /\ U32Buffer(2).slot = 2 /\ \A slot : F32Buffer(slot).slot = slot
      BY BufferIs
    <3>3. CASE b \in Asked /\ c \in Asked
      BY <2>9, <3>1, <3>2, <3>3
    <3>4. CASE b \in Asked /\ c \notin Asked
      <4>1. PICK slot \in Nat : slot >= 10 /\ c = F32Buffer(slot)
        BY <2>8, <3>4
      <4>2. c.slot = slot /\ b.slot \in {0, 1, 2}
        BY <3>1, <3>2, <3>4, <4>1
      <4> QED
        BY <2>9, <4>1, <4>2
    <3>5. CASE b \notin Asked /\ c \in Asked
      <4>1. PICK slot \in Nat : slot >= 10 /\ b = F32Buffer(slot)
        BY <2>8, <3>5
      <4>2. b.slot = slot /\ c.slot \in {0, 1, 2}
        BY <3>1, <3>2, <3>5, <4>1
      <4> QED
        BY <2>9, <4>1, <4>2
    <3>6. CASE b \notin Asked /\ c \notin Asked
      <4>1. PICK slot \in Nat, other \in Nat : b = F32Buffer(slot) /\ c = F32Buffer(other)
        BY <2>8, <3>6
      <4> QED
        BY <2>9, <3>2, <4>1
    <3> QED
      BY <3>3, <3>4, <3>5, <3>6
  <2>a. \A i \in 1..(p + q) : specs[i] \in Members(specs, p + q)
    BY DEF Members
  <2>b. ASSUME NEW i \in 1..(p + q), NEW j \in 1..(p + q), specs[i].slot = specs[j].slot
        PROVE  i = j
    BY <1>a, <2>6, <2>9, <2>a, <2>b DEF Distinct
  <2> QED
    BY <1>a, <2>b DEF IsInjective
<1>f. IsInjective([i \in DOMAIN specs |-> specs[i].slot]) <=> room <= SlotSpace
  <2>1. room <= SlotSpace \/ room > SlotSpace
    BY <1>4
  <2> QED
    BY <1>d, <1>e, <2>1, <1>4
<1> QED
  BY <1>b, <1>c, <1>f DEF Declares, specs, slots, room

GridOf(g) == [kind |-> IF g.dimension = 2 THEN "grid2" ELSE "grid3", slots |-> <<QueryMeta, QueryF32, QueryOffsets>>,
              payload |-> <<>>]

PlanOf(g, order, slots, final) ==
  [error |-> "none", dimension |-> g.dimension, final |-> final[1], statics |-> <<>>,
   specs |-> SpecsOf(g, order, slots),
   stages |-> <<<<GridOf(g)>>>> \o [i \in DOMAIN order |-> <<KernelOf(g, slots, order[i])>>]]

(* validate has nothing to refuse but a slot declared twice.               *)
LEMMA ValidIs ==
  ASSUME NEW g, NEW n, NEW order \in Seq(1..n), NEW slots, NEW final, NEW a, a.slots = slots,
         Declares(g, order, slots)
  PROVE  ValidPlan(PlanOf(g, order, slots, final)) <=> Room(g, order, Len(order)) <= SlotSpace
<1> DEFINE made == PlanOf(g, order, slots, final)
           specs == SpecsOf(g, order, slots)
           grid == <<GridOf(g)>>
           kernels == [i \in DOMAIN order |-> <<KernelOf(g, slots, order[i])>>]
           first == <<grid>>
           stages == first \o kernels
<1>1. made.specs = specs /\ made.statics = <<>> /\ made.stages = stages
  BY DEF PlanOf
<1>2. /\ \A i \in 1..3 : i \in DOMAIN specs
      /\ specs[1].slot = 0 /\ specs[2].slot = 1 /\ specs[3].slot = 2
      /\ IsInjective([i \in DOMAIN specs |-> specs[i].slot]) <=> Room(g, order, Len(order)) <= SlotSpace
  BY BufferIs DEF Declares
<1>3. PICK l \in Nat : l = Len(order) /\ DOMAIN order = 1..l
  BY LenProperties
<1> HIDE DEF made, specs
<1>4. {0, 1, 2} \subseteq Declared(made)
  <2>1. Declared(made) = {specs[i].slot : i \in DOMAIN specs}
    BY <1>1 DEF Declared
  <2>2. 1 \in DOMAIN specs /\ 2 \in DOMAIN specs /\ 3 \in DOMAIN specs
    BY <1>2
  <2> QED
    BY <1>2, <2>1, <2>2
<1> DEFINE Harmless(stage) == \A k \in DOMAIN stage : ToSet(stage[k].slots) \subseteq {0, 1, 2}
<1>5. Harmless(grid)
  <2>1. DOMAIN grid = {1} /\ grid[1].slots = <<0, 1, 2>>
    BY BufferIs DEF GridOf
  <2>2. ToSet(<<0, 1, 2>>) \subseteq {0, 1, 2}
    BY DEF ToSet
  <2> HIDE DEF grid
  <2> QED
    BY <2>1, <2>2
<1>6. ASSUME NEW i \in 1..l
      PROVE  Harmless(kernels[i])
  <2> DEFINE kernel == KernelOf(g, slots, order[i])
  <2>1. kernel.slots = <<>>
    BY DEF KernelOf
  <2>2. ToSet(kernel.slots) = {}
    BY <2>1 DEF ToSet
  <2> HIDE DEF kernel
  <2>3. kernels[i] = <<kernel>>
    BY <1>3 DEF kernel
  <2> HIDE DEF kernels
  <2>4. DOMAIN kernels[i] = {1} /\ kernels[i][1] = kernel
    BY <2>3
  <2> QED
    BY <2>2, <2>4
<1>7. ASSUME NEW s \in DOMAIN stages
      PROVE  Harmless(stages[s])
  <2> DEFINE X == {grid} \cup {kernels[i] : i \in 1..l}
  <2>1. first \in Seq(X) /\ Len(first) = 1 /\ first[1] = grid
    OBVIOUS
  <2>2. kernels \in [1..l -> X]
    BY <1>3
  <2>3. kernels \in Seq(X) /\ Len(kernels) = l
    <3> HIDE DEF kernels, X
    <3> QED
      BY <2>2, FunctionIsSeq
  <2> HIDE DEF grid, kernels, first, X, Harmless
  <2>4. /\ stages \in Seq(X) /\ Len(stages) = 1 + l
        /\ \A i \in 1..(1 + l) : stages[i] = IF i <= 1 THEN first[i] ELSE kernels[i - 1]
    <3>1. /\ stages \in Seq(X) /\ Len(stages) = Len(first) + Len(kernels)
          /\ \A i \in 1..(Len(first) + Len(kernels)) :
               stages[i] = IF i <= Len(first) THEN first[i] ELSE kernels[i - Len(first)]
      BY <2>1, <2>3, ConcatProperties
    <3> QED
      BY <2>1, <2>3, <3>1
  <2>5. s \in 1..(1 + l)
    BY <2>4, LenProperties
  <2>6. CASE s = 1
    BY <1>5, <2>1, <2>4, <2>5, <2>6
  <2>7. CASE s # 1
    <3>1. s - 1 \in 1..l /\ ~(s <= 1)
      BY <2>5, <2>7
    <3>2. stages[s] = kernels[s - 1]
      BY <2>4, <2>5, <3>1
    <3> QED
      BY <1>6, <3>1, <3>2
  <2> QED
    BY <2>6, <2>7
<1> HIDE DEF stages
<1>8. \A s \in DOMAIN made.stages : \A k \in DOMAIN made.stages[s] : ToSet(made.stages[s][k].slots) \subseteq Declared(made)
  <2> TAKE s \in DOMAIN made.stages
  <2>1. s \in DOMAIN stages /\ made.stages[s] = stages[s]
    BY <1>1
  <2>2. Harmless(stages[s])
    BY <1>7, <2>1
  <2> TAKE k \in DOMAIN made.stages[s]
  <2>3. ToSet(stages[s][k].slots) \subseteq {0, 1, 2}
    BY <2>1, <2>2
  <2> QED
    BY <1>4, <2>1, <2>3
<1>9. DOMAIN made.statics = {} /\ IsInjective([i \in DOMAIN made.statics |-> made.statics[i].slot])
  BY <1>1 DEF IsInjective
<1>a. IsInjective([i \in DOMAIN made.specs |-> made.specs[i].slot]) <=> Room(g, order, Len(order)) <= SlotSpace
  BY <1>1, <1>2
<1>b. ValidPlan(made) <=> Room(g, order, Len(order)) <= SlotSpace
  BY <1>8, <1>9, <1>a DEF ValidPlan
<1> QED
  BY <1>b DEF made

(* What compile_graph makes of a graph of nodes with different ids: an     *)
(* error exactly where ExpectedCompile has it.                             *)
LEMMA CompiledIs ==
  ASSUME NEW g, GraphOK(g), debug \in BOOLEAN
  PROVE  Compiled(g, debug).error = ExpectedCompile(g)
<1> DEFINE order == Sorted(g)
           a == Allocated(g, order)
           slots == a.slots
           final == ScalarSlot(g, slots, Resolve(g, g.final))
           made == PlanOf(g, order, slots, final)
           Mixed == \E h \in ToSet(order) : <<>> \in ToSet(SourceSlots(g, slots, h))
           needed == SlotsNeeded(g)
           room == SlotSpace - DynamicStart
           Unkind == \E node \in Grounded(g) : ~WellKinded(g, node)
           end == NodeOf(g, g.final)
<1>1. Compiled(g, debug) = IF Missing(g) \/ (debug /\ a.overflow) \/ Mixed \/ final = <<>>
                           THEN [error |-> Panic]
                           ELSE IF ValidPlan(made) THEN made ELSE [error |-> "refused"]
  BY Zenon DEF Compiled, PlanOf, SpecsOf, Pieces, GridOf
<1>2. ExpectedCompile(g) = IF ~(Refers(g) \subseteq KnownIds(g)) THEN Panic
                           ELSE IF Unkind \/ end \notin Grounded(g) \/ end.kind \in Warps \/ (debug /\ needed >= room)
                                THEN Panic
                           ELSE IF needed > room THEN "refused" ELSE "none"
  BY DEF ExpectedCompile, Refers
<1>3. made.error = "none"
  BY DEF PlanOf
<1>4. Missing(g) <=> ~(Refers(g) \subseteq KnownIds(g))
  BY MissingIs
<1>5. CASE ~(Refers(g) \subseteq KnownIds(g))
  <2> HIDE DEF made, final, a, Mixed, Unkind, needed, end
  <2> QED
    BY <1>1, <1>2, <1>4, <1>5
<1>6. CASE Refers(g) \subseteq KnownIds(g)
  <2>1. Whole(g) /\ GoodOrder(g, order)
    BY <1>6, WholeIsLinked, SortedIs DEF Whole
  <2> HIDE DEF order
  <2>2. order \in Seq(1..Size(g)) /\ Distinct(order)
    BY <2>1 DEF GoodOrder
  <2>3. AllocOf(g, order, a, Len(order))
    BY <2>2, AllocatedIs
  <2> HIDE DEF a
  <2>4. Placed(g, order, slots)
    <3>1. ASSUME NEW h \in 1..Size(g)
          PROVE  slots[h] = <<>> <=> h \notin Members(order, Len(order))
      <4>1. IF h \in Members(order, Len(order)) THEN Len(slots[h]) = Width(g, h) ELSE slots[h] = <<>>
        BY <2>3 DEF AllocOf
      <4>2. Width(g, h) \in {1, 2, 3}
        BY NodesTyped, WidthIs DEF Width
      <4>3. ASSUME slots[h] = <<>>
            PROVE  Len(slots[h]) = 0
        BY <4>3
      <4> QED
        BY <4>1, <4>2, <4>3
    <3> QED
      BY <2>1, <3>1 DEF Placed
  <2>5. Grounded(g) = NodesOf(g, Members(order, Len(order)))
    BY <2>1, GroundedIs
  <2>6. PICK c \in Nat, K \in Nat : /\ c = needed /\ K = SlotSpace
                                    /\ Room(g, order, Len(order)) = 32 + c /\ room = K - 32
    <3>1. needed = Cardinality(Outputs(g, Members(order, Len(order))))
      BY <2>5 DEF SlotsNeeded, Outputs
    <3>2. Len(order) \in 0..Len(order)
      BY <2>2, LenProperties
    <3>3. Counted(g, order, Len(order))
      BY <2>2, <3>2, RoomIs
    <3>4. needed \in Nat /\ SlotSpace \in Nat
      BY <3>1, <3>3, FS_CardinalityType, SlotSpaceAssumption DEF Counted
    <3>5. Room(g, order, Len(order)) = 32 + needed
      BY <3>1 DEF Room, DynamicStart
    <3> HIDE DEF needed
    <3> QED
      BY <3>4, <3>5 DEF DynamicStart
  <2>7. a.overflow <=> needed >= room
    <3>1. a.overflow <=> Room(g, order, Len(order)) >= SlotSpace
      BY <2>3 DEF AllocOf
    <3>2. 32 + c >= K <=> c >= K - 32
      OBVIOUS
    <3> HIDE DEF room, needed
    <3> QED
      BY <2>6, <3>1, <3>2
  <2>8. Mixed <=> Unkind
    <3>1. ToSet(order) = Members(order, Len(order))
      BY <2>2, LenProperties DEF ToSet, Members
    <3>2. ASSUME NEW h \in Members(order, Len(order))
          PROVE  <<>> \in ToSet(SourceSlots(g, slots, h)) <=> ~WellKinded(g, g.nodes[h])
      BY <2>4, SourcesAre
    <3> HIDE DEF slots
    <3>3. Mixed <=> \E h \in Members(order, Len(order)) : ~WellKinded(g, g.nodes[h])
      BY <3>1, <3>2
    <3>4. Unkind <=> \E h \in Members(order, Len(order)) : ~WellKinded(g, g.nodes[h])
      BY <2>5 DEF NodesOf
    <3> QED
      BY <3>3, <3>4
  <2>9. final = <<>> <=> end.kind \in Warps \/ end \notin Grounded(g)
    BY <2>4, FinalIs
  <2>a. ValidPlan(made) <=> ~(needed > room)
    <3>1. Declares(g, order, slots)
      BY <2>2, <2>3, DeclaresIs
    <3>2. ValidPlan(made) <=> Room(g, order, Len(order)) <= SlotSpace
      BY <2>2, <3>1, ValidIs
    <3>3. 32 + c <= K <=> ~(c > K - 32)
      OBVIOUS
    <3> HIDE DEF made, needed, room
    <3> QED
      BY <2>6, <3>2, <3>3
  <2> HIDE DEF made, final, Mixed, Unkind, needed, end, slots, room
  <2> QED
    BY <1>1, <1>2, <1>3, <1>4, <1>6, <2>7, <2>8, <2>9, <2>a
<1> QED
  BY <1>5, <1>6
-----------------------------------------------------------------------------
(* ---- the plan of the present graph ------------------------------------ *)

(* The nodes that are compiled are typed, and no two have the same id.     *)
LEMMA GraphIsOK == Typed /\ KeysMatchNodes => GraphOK(Graph)
<1> SUFFICES ASSUME Typed, KeysMatchNodes
             PROVE  GraphOK(Graph)
  OBVIOUS
<1> DEFINE n == Len(nodes.slots)
           values == [i \in DOMAIN nodes.slots |-> nodes.slots[i].value]
           S == ToSet(values) \ {Hole}
           kept == Kept(values, S)
<1>1. /\ n \in Nat /\ DOMAIN nodes.slots = 1..n
      /\ \A i \in 1..n : nodes.slots[i].value \in NodeOrHole
  <2>1. Table(nodes, NodeOrHole)
    BY DEF Typed
  <2> QED
    BY <2>1, TableFacts, ValuesTyped
<1>2. values \in [1..n -> NodeOrHole] /\ \A i \in 1..n : values[i] = nodes.slots[i].value
  BY <1>1
<1>3. values \in Seq(NodeOrHole) /\ Len(values) = n /\ DOMAIN values = 1..n
  <2> HIDE DEF values
  <2> QED
    BY <1>1, <1>2, FunctionIsSeq
<1>4. S = {values[i] : i \in 1..n} \ {Hole}
  BY <1>3 DEF ToSet
<1>5. \A i, j \in 1..n : values[i] # Hole /\ values[j] # Hole /\ values[i].id = values[j].id => i = j
  <2> SUFFICES ASSUME NEW i \in 1..n, NEW j \in 1..n,
                      values[i] # Hole, values[j] # Hole, values[i].id = values[j].id
               PROVE  i = j
    OBVIOUS
  <2>1. KeyOf(nodes, i) = KeyOf(nodes, j)
    BY <1>1, <1>2 DEF KeysMatchNodes
  <2> QED
    BY <2>1 DEF KeyOf
<1>6. Graph = [dimension |-> dimension, final |-> final_field, nodes |-> kept]
  BY DEF Graph, Values
<1> HIDE DEF values, S
<1>7. Once(values, S)
  BY <1>3, <1>4, <1>5 DEF Once
<1>8. KeptOf(kept, NodeOrHole, values, S, n)
  BY <1>3, KeptIs
<1> HIDE DEF kept
<1>9. /\ kept \in Seq(NodeOrHole) /\ Distinct(kept)
      /\ Members(kept, Len(kept)) = Members(values, n) \cap S
  BY <1>7, <1>8 DEF KeptOf
<1>10. Len(kept) \in Nat /\ DOMAIN kept = 1..Len(kept) /\ kept \in [1..Len(kept) -> NodeOrHole]
  BY <1>9, LenProperties
<1>11. \A k \in 1..Len(kept) : kept[k] # Hole /\ \E i \in 1..n : kept[k] = values[i]
  BY <1>4, <1>9 DEF Members
<1>12. kept \in [1..Len(kept) -> Nodes]
  BY <1>10, <1>11 DEF NodeOrHole
<1>13. kept \in Seq(Nodes)
  BY <1>10, <1>12, FunctionIsSeq
<1>14. \A h, k \in DOMAIN kept : kept[h].id = kept[k].id => h = k
  <2> SUFFICES ASSUME NEW h \in 1..Len(kept), NEW k \in 1..Len(kept), kept[h].id = kept[k].id
               PROVE  h = k
    BY <1>10
  <2>1. PICK i \in 1..n : kept[h] = values[i] /\ values[i] # Hole
    BY <1>11
  <2>2. PICK j \in 1..n : kept[k] = values[j] /\ values[j] # Hole
    BY <1>11
  <2>3. kept[h] = kept[k]
    BY <1>5, <2>1, <2>2
  <2> QED
    BY <1>9, <2>3 DEF Distinct
<1> QED
  BY <1>6, <1>13, <1>14 DEF GraphOK, Typed

(* No plan outlives the first change of an edit: the plan there is, is     *)
(* that of the nodes there are.                                            *)
PlanIsCurrent ==
  /\ pending # <<>> => plan = None
  /\ plan # None => plan = Compiled(Graph, debug)

LEMMA PlanStaysCurrent == PlanIsCurrent /\ [Next]_vars => PlanIsCurrent'
<1> SUFFICES ASSUME PlanIsCurrent, [Next]_vars
             PROVE  PlanIsCurrent'
  OBVIOUS
<1>1. ASSUME plan' = None
      PROVE  PlanIsCurrent'
  BY <1>1 DEF PlanIsCurrent
<1>2. ASSUME UNCHANGED <<debug, graphVars>>
      PROVE  Graph' = Graph /\ debug' = debug
  BY <1>2 DEF graphVars, Graph
<1>3. CASE Apply
  BY <1>1, <1>3 DEF Apply, Begin
<1>4. CASE Reset
  BY <1>1, <1>4 DEF Reset, Begin
<1>5. CASE UpsertNode
  BY <1>1, <1>5 DEF UpsertNode, Changing, PlanIsCurrent
<1>6. CASE RemoveNode
  BY <1>1, <1>6 DEF RemoveNode, Changing, PlanIsCurrent
<1>7. CASE SetFinalField
  BY <1>1, <1>7 DEF SetFinalField, Changing, PlanIsCurrent
<1>8. CASE Compile
  BY <1>2, <1>8 DEF Compile, PlanIsCurrent
<1>9. CASE ResolveBatch
  BY <1>2, <1>9 DEF ResolveBatch, PlanIsCurrent
<1>10. CASE UNCHANGED vars
  BY <1>2, <1>10 DEF vars, PlanIsCurrent
<1> QED
  BY <1>3, <1>4, <1>5, <1>6, <1>7, <1>8, <1>9, <1>10 DEF Next

(* A graph compiles exactly when all that it names exists, its final field *)
(* is a scalar that no cycle feeds, the nodes that no cycle feeds have     *)
(* inputs of their kind and their slots suffice; otherwise the error is    *)
(* the one of the case (runtime.rs:782-981, pipeline.rs:255-295), whatever *)
(* the edits that led to the graph.                                        *)
THEOREM CompilesHolds == Spec => []CompilesIfSound
<1>1. Init => PlanIsCurrent
  BY DEF Init, PlanIsCurrent
<1>2. PlanIsCurrent /\ [Next]_vars => PlanIsCurrent'
  BY PlanStaysCurrent
<1>3. Typed /\ KeysMatchNodes /\ PlanIsCurrent => CompilesIfSound
  <2> SUFFICES ASSUME Typed, KeysMatchNodes, PlanIsCurrent, plan # None
               PROVE  plan.error = ExpectedCompile(Graph)
    BY DEF CompilesIfSound
  <2>1. plan = Compiled(Graph, debug) /\ debug \in BOOLEAN
    BY DEF PlanIsCurrent, Typed
  <2>2. GraphOK(Graph)
    BY GraphIsOK
  <2> QED
    BY <2>1, <2>2, CompiledIs
<1> QED
  BY <1>1, <1>2, <1>3, Invariant, PTL DEF Spec
-----------------------------------------------------------------------------
(* ---- payloads --------------------------------------------------------- *)

(* A sequence that is found in another one, from some place on.            *)
PieceAt(s, l, b) ==
  /\ l \in Nat /\ Len(b) \in Nat /\ l + Len(b) <= Len(s)
  /\ \A k \in 1..Len(b) : s[l + k] = b[k]

Joined(u, X, a, b) == u \in Seq(X) /\ Len(u) = Len(a) + Len(b)

LEMMA Join ==
  ASSUME NEW X, NEW a \in Seq(X), NEW b \in Seq(X)
  PROVE  Joined(a \o b, X, a, b)
BY ConcatProperties DEF Joined

LEMMA PieceLast ==
  ASSUME NEW X, NEW a \in Seq(X), NEW b \in Seq(X)
  PROVE  PieceAt(a \o b, Len(a), b)
<1> DEFINE s == a \o b
<1>1. PICK l \in Nat, m \in Nat : l = Len(a) /\ m = Len(b)
  BY LenProperties
<1>2. Len(s) = Len(a) + Len(b) /\ \A k \in 1..(Len(a) + Len(b)) : s[k] = IF k <= Len(a) THEN a[k] ELSE b[k - Len(a)]
  BY ConcatProperties
<1> HIDE DEF s
<1>3. \A k \in 1..m : s[l + k] = b[k]
  <2> TAKE k \in 1..m
  <2>1. l + k \in 1..(l + m) /\ ~(l + k <= l) /\ (l + k) - l = k
    OBVIOUS
  <2> QED
    BY <1>1, <1>2, <2>1
<1>4. l + m <= Len(s)
  BY <1>1, <1>2
<1> QED
  BY <1>1, <1>3, <1>4 DEF PieceAt, s

LEMMA PieceFirst ==
  ASSUME NEW X, NEW a \in Seq(X), NEW b \in Seq(X), NEW l, NEW c, PieceAt(a, l, c)
  PROVE  PieceAt(a \o b, l, c)
<1> DEFINE s == a \o b
<1>1. PICK p \in Nat, m \in Nat, n \in Nat, f \in Nat : p = l /\ m = Len(a) /\ n = Len(b) /\ f = Len(c)
  BY LenProperties DEF PieceAt
<1>2. Len(s) = Len(a) + Len(b) /\ \A k \in 1..(Len(a) + Len(b)) : s[k] = IF k <= Len(a) THEN a[k] ELSE b[k - Len(a)]
  BY ConcatProperties
<1> HIDE DEF s
<1>3. p + f <= m /\ \A k \in 1..f : a[p + k] = c[k]
  BY <1>1 DEF PieceAt
<1>4. \A k \in 1..f : s[p + k] = c[k]
  <2> TAKE k \in 1..f
  <2>1. p + k \in 1..(m + n) /\ p + k <= m
    BY <1>3
  <2> QED
    BY <1>1, <1>2, <1>3, <2>1
<1>5. p + f <= Len(s)
  BY <1>1, <1>2, <1>3
<1> QED
  BY <1>1, <1>4, <1>5 DEF PieceAt, s

LEMMA PieceWhole ==
  ASSUME NEW X, NEW a \in Seq(X)
  PROVE  PieceAt(a, 0, a)
<1>1. PICK l \in Nat : l = Len(a)
  BY LenProperties
<1>2. \A k \in 1..l : 0 + k = k
  OBVIOUS
<1> QED
  BY <1>1, <1>2 DEF PieceAt

(* It is what is cut out there.                                            *)
LEMMA PieceIs ==
  ASSUME NEW X, NEW s \in Seq(X), NEW b \in Seq(X), NEW l, PieceAt(s, l, b)
  PROVE  SubSeq(s, l + 1, l + Len(b)) = b
<1>1. PICK m \in Nat, n \in Nat : m = Len(b) /\ n = Len(s)
  BY LenProperties
<1>2. l \in Nat /\ l + m <= n /\ \A k \in 1..m : s[l + k] = b[k]
  BY <1>1 DEF PieceAt
<1> DEFINE i == l + 1
           j == l + m
<1>3. i \in Int /\ j \in Int /\ i..j \subseteq 1..n /\ j - i + 1 = m /\ (~(i <= j) => m = 0)
  BY <1>2
<1>4. \A k \in i..j : s[k] \in X
  <2>1. s \in [1..n -> X]
    BY <1>1, LenProperties
  <2> HIDE DEF i, j
  <2> QED
    BY <1>3, <2>1
<1>5. \A k \in 1..m : i + k - 1 = l + k
  BY <1>2
<1> HIDE DEF i, j
<1> DEFINE cut == SubSeq(s, i, j)
<1>6. /\ cut \in Seq(X) /\ Len(cut) = (IF i <= j THEN j - i + 1 ELSE 0)
      /\ \A k \in 1..(j - i + 1) : cut[k] = s[i + k - 1]
  BY <1>3, <1>4, SubSeqProperties
<1> HIDE DEF cut
<1>7. Len(cut) = m
  BY <1>3, <1>6
<1>8. \A k \in 1..m : cut[k] = b[k]
  <2> TAKE k \in 1..m
  <2>1. cut[k] = s[i + k - 1]
    BY <1>3, <1>6
  <2>2. i + k - 1 = l + k
    BY <1>5
  <2> QED
    BY <1>2, <2>1, <2>2
<1>9. cut = b
  BY <1>1, <1>6, <1>7, <1>8, SeqEqual
<1> QED
  BY <1>1, <1>9 DEF cut, i, j

LEMMA VariantsTyped ==
  ASSUME NEW field \in DOMAIN Variants
  PROVE  DOMAIN Variants[field] \subseteq Nat
<1>1. field \in {"noise_type", "rotation_type_3d", "fractal_type", "cellular_distance_function",
                 "cellular_return_type", "domain_warp_type", "op"}
  BY DEF Variants
<1> QED
  BY <1>1 DEF Variants

(* The tag of a variant stands for it.                                     *)
LEMMA TagIs ==
  ASSUME NEW field \in DOMAIN Variants, NEW v \in ToSet(Variants[field])
  PROVE  Variant(field, Tag(field, v)) = v
<1> DEFINE i == CHOOSE i \in DOMAIN Variants[field] : Variants[field][i] = v
<1>1. \E k \in DOMAIN Variants[field] : Variants[field][k] = v
  BY DEF ToSet
<1>2. i \in DOMAIN Variants[field] /\ Variants[field][i] = v
  BY <1>1
<1> HIDE DEF i
<1>3. i \in Nat
  BY <1>2, VariantsTyped
<1>4. Tag(field, v) = i - 1
  BY DEF Tag, i
<1> QED
  BY <1>2, <1>3, <1>4 DEF Variant

(* Settings are read as they were written.                                 *)
LEMMA NoiseIsRead ==
  ASSUME NEW noise, NoiseOK(noise)
  PROVE  ReadNoise(WrittenNoise(noise)) = noise
<1>1. NoiseRead = NoiseWritten
  BY DEF NoiseRead, NoiseWritten
<1>2. ASSUME NEW field \in ToSet(NoiseRead)
      PROVE  ReadNoise(WrittenNoise(noise))[field] = noise[field]
  <2> DEFINE i == CHOOSE i \in DOMAIN NoiseRead : NoiseRead[i] = field
             byte == WrittenNoise(noise)[i]
  <2>1. i \in DOMAIN NoiseRead /\ NoiseRead[i] = field
    BY DEF ToSet
  <2> HIDE DEF i
  <2>2. byte = IF field \in DOMAIN Variants THEN Tag(field, noise[field]) ELSE noise[field]
    BY <1>1, <2>1 DEF WrittenNoise
  <2>3. ReadNoise(WrittenNoise(noise))[field] = IF field \in DOMAIN Variants THEN Variant(field, byte) ELSE byte
    BY DEF ReadNoise, i
  <2>4. CASE field \in DOMAIN Variants
    <3>1. noise[field] \in ToSet(Variants[field])
      BY <1>1, <2>4 DEF NoiseOK
    <3> HIDE DEF byte
    <3> QED
      BY <2>2, <2>3, <2>4, <3>1, TagIs
  <2>5. CASE field \notin DOMAIN Variants
    <3> HIDE DEF byte
    <3> QED
      BY <2>2, <2>3, <2>5
  <2> QED
    BY <2>4, <2>5
<1>3. ReadNoise(WrittenNoise(noise)) = [field \in ToSet(NoiseRead) |-> ReadNoise(WrittenNoise(noise))[field]]
  BY DEF ReadNoise
<1>4. noise = [field \in ToSet(NoiseRead) |-> noise[field]]
  BY <1>1 DEF NoiseOK
<1> QED
  BY <1>2, <1>3, <1>4, Zenon

(* A kernel as compile_graph makes it.                                     *)
KernelOK(k) ==
  /\ k.source \in Seq(Nat) /\ k.output \in Seq(Nat)
  /\ \/ /\ k.kind \in Warps \cup Samples /\ NoiseOK(k.noise)
        /\ Len(k.source) = Arity(k.kind) /\ Len(k.output) = IF k.kind \in Warps THEN Arity(k.kind) ELSE 1
     \/ /\ k.kind = "combine" /\ Len(k.output) = 1
        /\ k.op \in ToSet(Variants["op"]) /\ k.params \in Seq(Int)

FieldsOf(k) ==
  IF k.kind = "combine"
  THEN [kind |-> k.kind, op |-> k.op, source |-> k.source, output |-> k.output, params |-> k.params]
  ELSE [kind |-> k.kind, source |-> k.source, output |-> k.output, noise |-> k.noise]

LEMMA NoiseKernelIsRead ==
  ASSUME NEW k, KernelOK(k), k.kind \in Warps \cup Samples
  PROVE  Decoded(k.kind, Payload(k)) = FieldsOf(k)
<1> DEFINE noise == WrittenNoise(k.noise)
           X == Nat \cup ToSet(noise)
           bytes == Payload(k)
           n == Arity(k.kind)
           outputs == IF k.kind \in Warps THEN n ELSE 1
           From(i, count) == SubSeq(bytes, i, i + count - 1)
<1>1. /\ k.kind # "combine" /\ NoiseOK(k.noise) /\ k.source \in Seq(Nat) /\ k.output \in Seq(Nat)
      /\ n \in {2, 3} /\ outputs \in {1, 2, 3} /\ Len(k.source) = n /\ Len(k.output) = outputs
  BY DEF KernelOK, Warps, Samples, Arity
<1>2. noise \in Seq(X) /\ Len(noise) = Len(NoiseRead)
  <2>1. DOMAIN NoiseWritten = 1..15 /\ Len(NoiseRead) = 15
    BY DEF NoiseWritten, NoiseRead
  <2>2. DOMAIN noise = 1..15 /\ noise = [i \in 1..15 |-> noise[i]]
    BY <2>1 DEF WrittenNoise
  <2> HIDE DEF noise
  <2>3. noise \in [1..15 -> X]
    BY <2>2 DEF ToSet
  <2> HIDE DEF X
  <2> QED
    BY <2>1, <2>3, FunctionIsSeq
<1>3. k.source \in Seq(X) /\ k.output \in Seq(X) /\ <<>> \in Seq(X)
  <2>1. Nat \subseteq X
    OBVIOUS
  <2> HIDE DEF X
  <2> QED
    BY <1>1, <2>1, SeqMonotonic, EmptySeq
<1>4. bytes = (k.source \o k.output) \o noise
  BY <1>1 DEF Payload
<1>5. ReadNoise(noise) = k.noise
  BY <1>1, NoiseIsRead
<1> HIDE DEF noise, X, outputs, n
<1> DEFINE so == k.source \o k.output
<1>6. Joined(so, X, k.source, k.output)
  BY <1>3, Join, Zenon
<1>7. so \in Seq(X) /\ Len(so) = n + outputs
  BY <1>1, <1>6 DEF Joined
<1>8. bytes \in Seq(X)
  <2>1. Joined(so \o noise, X, so, noise)
    BY <1>2, <1>7, Join, Zenon
  <2> QED
    BY <1>4, <2>1 DEF Joined
<1>9. PieceAt(bytes, 0, k.source) /\ PieceAt(bytes, Len(k.source), k.output) /\ PieceAt(bytes, Len(so), noise)
  <2>1. PieceAt(so, 0, k.source) /\ PieceAt(so, Len(k.source), k.output)
    BY <1>3, PieceWhole, PieceFirst, PieceLast, Zenon
  <2> HIDE DEF so
  <2>2. PieceAt(so \o noise, 0, k.source) /\ PieceAt(so \o noise, Len(k.source), k.output)
        /\ PieceAt(so \o noise, Len(so), noise)
    BY <1>2, <1>3, <1>7, <2>1, PieceFirst, PieceLast, Zenon
  <2> QED
    BY <1>4, <2>2 DEF so
<1> HIDE DEF bytes, so
<1>10. From(1, n) = k.source /\ From(n + 1, outputs) = k.output /\ From(n + outputs + 1, Len(NoiseRead)) = noise
  <2>1. SubSeq(bytes, 1, 1 + n - 1) = k.source
    <3>1. SubSeq(bytes, 0 + 1, 0 + Len(k.source)) = k.source
      BY <1>3, <1>8, <1>9, PieceIs, Zenon
    <3> QED
      BY <1>1, <3>1
  <2>2. SubSeq(bytes, n + 1, n + 1 + outputs - 1) = k.output
    <3>1. SubSeq(bytes, Len(k.source) + 1, Len(k.source) + Len(k.output)) = k.output
      BY <1>3, <1>8, <1>9, PieceIs, Zenon
    <3>2. n + 1 + outputs - 1 = n + outputs
      BY <1>1
    <3> QED
      BY <1>1, <3>1, <3>2
  <2>3. SubSeq(bytes, n + outputs + 1, n + outputs + 1 + Len(NoiseRead) - 1) = noise
    <3>1. PICK r \in Nat : r = Len(NoiseRead)
      BY <1>2, LenProperties
    <3>2. n + outputs + 1 = Len(so) + 1 /\ n + outputs + 1 + r - 1 = Len(so) + r
      BY <1>1, <1>7
    <3>3. n + outputs + 1 + Len(NoiseRead) - 1 = Len(so) + Len(noise)
      BY <1>2, <3>1, <3>2
    <3>4. SubSeq(bytes, Len(so) + 1, Len(so) + Len(noise)) = noise
      BY <1>2, <1>8, <1>9, PieceIs, Zenon
    <3> QED
      BY <3>2, <3>3, <3>4
  <2> QED
    BY <2>1, <2>2, <2>3
<1>11. Decoded(k.kind, bytes) = [kind |-> k.kind, source |-> From(1, n), output |-> From(n + 1, outputs),
                                 noise |-> ReadNoise(From(n + outputs + 1, Len(NoiseRead)))]
  BY <1>1 DEF Decoded, n, outputs
<1> HIDE DEF bytes, From
<1> QED
  BY <1>1, <1>5, <1>10, <1>11 DEF FieldsOf, bytes

LEMMA CombineIsRead ==
  ASSUME NEW k, KernelOK(k), k.kind = "combine"
  PROVE  Decoded(k.kind, Payload(k)) = FieldsOf(k)
<1> DEFINE tag == Tag("op", k.op)
           head == <<tag, Len(k.source)>>
           bytes == Payload(k)
           From(i, count) == SubSeq(bytes, i, i + count - 1)
<1>1. /\ k.source \in Seq(Int) /\ k.output \in Seq(Int) /\ k.params \in Seq(Int) /\ <<>> \in Seq(Int)
      /\ Len(k.output) = 1 /\ k.op \in ToSet(Variants["op"])
  <2>1. Nat \subseteq Int
    OBVIOUS
  <2>2. k.source \in Seq(Nat) /\ k.output \in Seq(Nat)
    BY DEF KernelOK
  <2>3. k.params \in Seq(Int) /\ Len(k.output) = 1 /\ k.op \in ToSet(Variants["op"])
    BY DEF KernelOK, Warps, Samples
  <2> QED
    BY <2>1, <2>2, <2>3, SeqMonotonic, EmptySeq
<1>2. PICK n \in Nat, l \in Nat : n = Len(k.source) /\ l = Len(k.params)
  BY <1>1, LenProperties
<1>3. tag \in Int /\ Variant("op", tag) = k.op
  <2>1. "op" \in DOMAIN Variants
    BY DEF Variants
  <2>2. \E i \in DOMAIN Variants["op"] : Variants["op"][i] = k.op
    BY <1>1 DEF ToSet
  <2>3. (CHOOSE i \in DOMAIN Variants["op"] : Variants["op"][i] = k.op) \in Nat
    BY <2>1, <2>2, VariantsTyped
  <2> QED
    BY <1>1, <2>1, <2>3, TagIs DEF Tag
<1>4. /\ head \in Seq(Int) /\ Len(head) = 2 /\ <<l>> \in Seq(Int) /\ Len(<<l>>) = 1
      /\ head[2] = n /\ <<l>>[1] = l
  BY <1>2, <1>3
<1>5. bytes = (((head \o k.source) \o k.output) \o <<l>>) \o k.params
  BY <1>2 DEF Payload
<1> HIDE DEF head, tag, bytes
<1> DEFINE hs == head \o k.source
           hso == hs \o k.output
           hsol == hso \o <<l>>
<1>6. Joined(hs, Int, head, k.source)
  BY <1>1, <1>4, Join, Zenon
<1>7. PieceAt(hs, 0, head) /\ PieceAt(hs, Len(head), k.source)
  BY <1>1, <1>4, PieceWhole, PieceFirst, PieceLast, Zenon
<1>8. hs \in Seq(Int) /\ Len(hs) = 2 + n
  BY <1>2, <1>4, <1>6 DEF Joined
<1> HIDE DEF hs
<1>9. Joined(hso, Int, hs, k.output)
  BY <1>1, <1>8, Join, Zenon
<1>10. PieceAt(hso, 0, head) /\ PieceAt(hso, Len(head), k.source) /\ PieceAt(hso, Len(hs), k.output)
  BY <1>1, <1>7, <1>8, PieceFirst, PieceLast, Zenon
<1>11. hso \in Seq(Int) /\ Len(hso) = 3 + n
  BY <1>1, <1>8, <1>9 DEF Joined
<1> HIDE DEF hso
<1>12. Joined(hsol, Int, hso, <<l>>)
  BY <1>4, <1>11, Join, Zenon
<1>13. /\ PieceAt(hsol, 0, head) /\ PieceAt(hsol, Len(head), k.source) /\ PieceAt(hsol, Len(hs), k.output)
       /\ PieceAt(hsol, Len(hso), <<l>>)
  BY <1>4, <1>10, <1>11, PieceFirst, PieceLast, Zenon
<1>14. hsol \in Seq(Int) /\ Len(hsol) = 4 + n
  BY <1>4, <1>11, <1>12 DEF Joined
<1> HIDE DEF hsol
<1>15. bytes = hsol \o k.params
  BY <1>5 DEF hs, hso, hsol
<1>16. /\ bytes \in Seq(Int)
       /\ PieceAt(bytes, 0, head) /\ PieceAt(bytes, Len(head), k.source) /\ PieceAt(bytes, Len(hs), k.output)
       /\ PieceAt(bytes, Len(hso), <<l>>) /\ PieceAt(bytes, Len(hsol), k.params)
  <2>1. Joined(hsol \o k.params, Int, hsol, k.params)
    BY <1>1, <1>14, Join, Zenon
  <2>2. /\ PieceAt(hsol \o k.params, 0, head) /\ PieceAt(hsol \o k.params, Len(head), k.source)
        /\ PieceAt(hsol \o k.params, Len(hs), k.output) /\ PieceAt(hsol \o k.params, Len(hso), <<l>>)
        /\ PieceAt(hsol \o k.params, Len(hsol), k.params)
    BY <1>1, <1>13, <1>14, PieceFirst, PieceLast, Zenon
  <2> QED
    BY <1>15, <2>1, <2>2 DEF Joined
<1>17. bytes[1] = tag /\ bytes[2] = n /\ bytes[n + 4] = l
  <2>1. head[1] = tag /\ head[2] = n
    BY <1>4 DEF head
  <2>2. bytes[0 + 1] = head[1] /\ bytes[0 + 2] = head[2]
    BY <1>4, <1>16 DEF PieceAt
  <2>3. bytes[Len(hso) + 1] = <<l>>[1]
    BY <1>4, <1>16 DEF PieceAt
  <2>4. Len(hso) + 1 = n + 4
    BY <1>11
  <2> QED
    BY <1>4, <2>1, <2>2, <2>3, <2>4
<1>18. From(3, n) = k.source
  <2>1. SubSeq(bytes, Len(head) + 1, Len(head) + Len(k.source)) = k.source
    BY <1>1, <1>4, <1>16, PieceIs, ZenonT(40)
  <2>2. 2 + 1 = 3 /\ 2 + n = 3 + n - 1
    BY <1>2
  <2> QED
    BY <1>2, <1>4, <2>1, <2>2
<1>19. From(n + 3, 1) = k.output
  <2>1. SubSeq(bytes, Len(hs) + 1, Len(hs) + Len(k.output)) = k.output
    BY <1>1, <1>16, PieceIs, ZenonT(40)
  <2>2. 2 + n + 1 = n + 3 /\ n + 3 + 1 - 1 = 2 + n + 1
    BY <1>2
  <2> QED
    BY <1>1, <1>8, <2>1, <2>2
<1>20. From(n + 5, l) = k.params
  <2>1. SubSeq(bytes, Len(hsol) + 1, Len(hsol) + Len(k.params)) = k.params
    BY <1>1, <1>16, PieceIs, ZenonT(40)
  <2>2. n \in Nat /\ l \in Nat
    BY <1>2
  <2>3. 4 + n + 1 = n + 5 /\ n + 5 + l - 1 = 4 + n + l
    BY <2>2
  <2> QED
    BY <1>2, <1>14, <2>1, <2>3
<1>21. Decoded(k.kind, bytes) = [kind |-> k.kind, op |-> Variant("op", bytes[1]), source |-> From(3, bytes[2]),
                                 output |-> From(bytes[2] + 3, 1), params |-> From(bytes[2] + 5, bytes[bytes[2] + 4])]
  BY Zenon DEF Decoded
<1> HIDE DEF From
<1>22. Decoded(k.kind, bytes) = [kind |-> k.kind, op |-> k.op, source |-> k.source, output |-> k.output, params |-> k.params]
  BY <1>3, <1>17, <1>18, <1>19, <1>20, <1>21
<1> QED
  BY <1>22 DEF FieldsOf, bytes

(* The factory reads from a payload the kernel that the planner wrote      *)
(* there: kinds, slots, params, and settings down to each variant          *)
(* (runtime.rs:1181-1533).                                                 *)
THEOREM PayloadIsRead ==
  ASSUME NEW k, KernelOK(k)
  PROVE  Decoded(k.kind, Payload(k)) = FieldsOf(k)
<1>1. k.kind \in Warps \cup Samples \/ k.kind = "combine"
  BY DEF KernelOK
<1> QED
  BY <1>1, NoiseKernelIsRead, CombineIsRead
-----------------------------------------------------------------------------
(* ---- sums and products ------------------------------------------------ *)

(* Chains of the same steps go through the same values.                    *)
LEMMA ChainsAgree ==
  ASSUME NEW m \in Nat, NEW n \in Nat, m <= n, NEW G, NEW base, NEW s, NEW t, NEW g, NEW h,
         IsChain(g, m, G, base, s), IsChain(h, n, G, base, t), \A i \in 1..m : s[i] = t[i]
  PROVE  \A i \in 0..m : g[i] = h[i]
<1> DEFINE T == {i \in Nat : i <= m => g[i] = h[i]}
<1>1. 0 \in T
  BY DEF IsChain
<1>2. ASSUME NEW i \in Nat, i \in T
      PROVE  i + 1 \in T
  <2> SUFFICES ASSUME i + 1 <= m
               PROVE  g[i + 1] = h[i + 1]
    OBVIOUS
  <2>1. i + 1 \in 1..m /\ i + 1 \in 1..n /\ (i + 1) - 1 = i /\ g[i] = h[i]
    BY <1>2
  <2>2. g[i + 1] = s[i + 1][g[i]] /\ h[i + 1] = t[i + 1][h[i]]
    BY <2>1 DEF IsChain
  <2> QED
    BY <2>1, <2>2
<1> HIDE DEF T
<1>3. Nat \subseteq T
  BY <1>1, <1>2, SetInduction
<1> QED
  BY <1>3 DEF T

AddSteps(n, z) == [m \in 1..n |-> [x \in Nat |-> x + z[m]]]
TimesSteps(n, z) == [m \in 1..n |-> [x \in Nat |-> x * z[m]]]

SumOf(s) == FoldLeft(LAMBDA n, size : n + size, 0, s)

(* The recursive function in MapThenFoldSet, for a fold of sums.           *)
Summed(h, n, z) == h = [t \in SUBSET (1..n) |-> IF t = {} THEN 0 ELSE h[t \ {Max(t)}] + z[Max(t)]]

LEMMA SummedExists ==
  ASSUME NEW n \in Nat, NEW z, \A m \in 1..n : z[m] \in Nat
  PROVE  \E h : Summed(h, n, z)
<1> DEFINE G == Nat
           step == AddSteps(n, z)
<1>1. 0 \in G /\ step \in [1..n -> [G -> G]] /\ \A m \in 1..n : \A x \in G : step[m][x] = x + z[m]
  BY DEF AddSteps
<1> HIDE DEF step
<1>2. Folds(n, G, 0, step)
  <2> HIDE DEF G
  <2> QED
    BY <1>1, FoldExists
<1>3. PICK f \in [SUBSET (1..n) -> G] : IsFold(f, n, 0, step)
  BY <1>2 DEF Folds
<1>4. \A t \in SUBSET (1..n) : t # {} => Max(t) \in 1..n /\ t \ {Max(t)} \in SUBSET (1..n)
  BY MaxOf
<1>5. ASSUME NEW t \in SUBSET (1..n)
      PROVE  f[t] = IF t = {} THEN 0 ELSE f[t \ {Max(t)}] + z[Max(t)]
  BY <1>1, <1>3, <1>4 DEF IsFold
<1> QED
  BY <1>3, <1>5 DEF Summed

LEMMA SummedChain ==
  ASSUME NEW n \in Nat, NEW z, \A m \in 1..n : z[m] \in Nat, NEW h, Summed(h, n, z)
  PROVE  Chained(h[1..n], n, Nat, 0, AddSteps(n, z))
<1> DEFINE G == Nat
           step == AddSteps(n, z)
<1>1. 0 \in G /\ step \in [1..n -> [G -> G]] /\ \A m \in 1..n : \A x \in G : step[m][x] = x + z[m]
  BY DEF AddSteps
<1> HIDE DEF step
<1>4. \A t \in SUBSET (1..n) : t # {} => Max(t) \in 1..n /\ t \ {Max(t)} \in SUBSET (1..n)
  BY MaxOf
<1>7. h = [t \in SUBSET (1..n) |-> IF t = {} THEN 0 ELSE h[t \ {Max(t)}] + z[Max(t)]]
  BY DEF Summed
<1>8. h[{}] = 0
  BY <1>7
<1>9. \A t \in SUBSET (1..n) : t # {} /\ h[t \ {Max(t)}] \in G => h[t] = step[Max(t)][h[t \ {Max(t)}]]
  BY <1>1, <1>4, <1>7
<1> HIDE DEF G
<1>a. Chained(h[1..n], n, G, 0, step)
  BY <1>1, <1>8, <1>9, FoldChain, Zenon
<1> QED
  BY <1>a DEF step, G

LEMMA SumChain ==
  ASSUME NEW s, NEW n \in Nat, DOMAIN s = 1..n, \A m \in 1..n : s[m] \in Nat
  PROVE  Chained(SumOf(s), n, Nat, 0, AddSteps(n, s))
<1> DEFINE h == CHOOSE f : f = [t \in SUBSET (DOMAIN s) |-> IF t = {} THEN 0 ELSE f[t \ {Max(t)}] + s[Max(t)]]
<1>1. SumOf(s) = h[DOMAIN s]
  BY Zenon DEF SumOf, FoldLeft, MapThenFoldSet
<1>2. \E f : Summed(f, n, s)
  BY SummedExists
<1>3. Summed(h, n, s)
  BY <1>2 DEF Summed
<1> HIDE DEF h
<1> QED
  BY <1>1, <1>3, SummedChain

(* The sizes of queries, of which the casts leave the low 32 bits of each  *)
(* side, added up, and the cells of what is left.                          *)
Sides(q) == [a \in DOMAIN q.sides |-> q.sides[a] % Word]

SizeAt(queries, j) == Product(Sides(queries[j]))

Sizes(queries) == [j \in DOMAIN queries |-> SizeAt(queries, j)]

CutSize(queries) == SumOf(Sizes(queries))

CutCells(q) ==
  LET w == Sides(q)[1]
      h == Sides(q)[2]
      Steps(i) == <<i % w, (i \div w) % h, i \div (w * h)>>
  IN  [i \in 1..Product(Sides(q)) |->
         [a \in 1..q.dimension |-> <<"at", q.origin[a], q.step[a], Steps(i - 1)[a]>>]]

(* Running totals of numbers.                                              *)
Totalled(t, n, z) ==
  /\ DOMAIN t = 1..(n + 1) /\ t[1] = 0
  /\ \A i \in 1..(n + 1) : t[i] \in Nat
  /\ \A i \in 1..n : t[i + 1] = t[i] + z[i]

LEMMA TotalsAre ==
  ASSUME NEW n \in Nat, NEW z \in Seq(Nat), Len(z) = n
  PROVE  Totalled(Totals(z), n, z)
<1>1. DOMAIN z = 1..n /\ \A m \in 1..n : z[m] \in Nat
  BY LenProperties
<1>2. Chained(SumOf(z), n, Nat, 0, AddSteps(n, z))
  BY <1>1, SumChain
<1>3. PICK g : IsChain(g, n, Nat, 0, AddSteps(n, z))
  BY <1>2 DEF Chained
<1>4. ASSUME NEW m \in 0..n
      PROVE  SumOf(SubSeq(z, 1, m)) = g[m]
  <2> DEFINE s == SubSeq(z, 1, m)
  <2>1. s \in Seq(Nat) /\ Len(s) = m /\ \A k \in 1..m : s[k] = z[k]
    <3>1. \A k \in 1..m : z[k] \in Nat
      BY <1>1
    <3>2. /\ s \in Seq(Nat) /\ Len(s) = (IF 1 <= m THEN m - 1 + 1 ELSE 0)
          /\ \A k \in 1..(m - 1 + 1) : s[k] = z[1 + k - 1]
      BY <3>1, SubSeqProperties, SMTT(30)
    <3> HIDE DEF s
    <3>3. m - 1 + 1 = m /\ \A k \in 1..m : 1 + k - 1 = k
      OBVIOUS
    <3>4. Len(s) = m
      BY <3>2, <3>3
    <3>5. \A k \in 1..m : s[k] = z[k]
      BY <3>2, <3>3
    <3> QED
      BY <3>2, <3>4, <3>5
  <2> HIDE DEF s
  <2>2. DOMAIN s = 1..m /\ m \in Nat /\ m <= n /\ \A k \in 1..m : s[k] \in Nat
    BY <2>1, LenProperties
  <2>3. Chained(SumOf(s), m, Nat, 0, AddSteps(m, s))
    BY <2>2, SumChain
  <2>4. PICK f : IsChain(f, m, Nat, 0, AddSteps(m, s)) /\ f[m] = SumOf(s)
    BY <2>3 DEF Chained
  <2>5. \A i \in 1..m : AddSteps(m, s)[i] = AddSteps(n, z)[i]
    BY <2>1, <2>2 DEF AddSteps
  <2>6. \A i \in 0..m : f[i] = g[i]
    BY <1>3, <2>2, <2>4, <2>5, ChainsAgree
  <2> QED
    BY <2>2, <2>4, <2>6 DEF s
<1> DEFINE t == Totals(z)
<1>5. DOMAIN t = 1..(n + 1) /\ \A i \in 1..(n + 1) : t[i] = SumOf(SubSeq(z, 1, i - 1))
  BY Zenon DEF Totals, SumOf
<1> HIDE DEF t
<1>6. \A i \in 1..(n + 1) : i - 1 \in 0..n
  OBVIOUS
<1>7. \A i \in 1..(n + 1) : t[i] = g[i - 1]
  BY <1>4, <1>5, <1>6
<1>8. g \in [0..n -> Nat] /\ g[0] = 0 /\ \A m \in 1..n : g[m] = g[m - 1] + z[m]
  <2>1. g \in [0..n -> Nat] /\ g[0] = 0 /\ \A m \in 1..n : g[m] = AddSteps(n, z)[m][g[m - 1]]
    BY <1>3 DEF IsChain
  <2>2. ASSUME NEW m \in 1..n
        PROVE  g[m] = g[m - 1] + z[m]
    <3>1. m - 1 \in 0..n
      OBVIOUS
    <3>2. g[m - 1] \in Nat
      BY <2>1, <3>1
    <3> QED
      BY <2>1, <3>2 DEF AddSteps
  <2> QED
    BY <2>1, <2>2
<1>9. t[1] = 0
  <2>1. 1 \in 1..(n + 1) /\ 1 - 1 = 0
    OBVIOUS
  <2> QED
    BY <1>7, <1>8, <2>1
<1>10. ASSUME NEW i \in 1..n
       PROVE  t[i + 1] = t[i] + z[i]
  <2>1. i + 1 \in 1..(n + 1) /\ i \in 1..(n + 1) /\ (i + 1) - 1 = i
    OBVIOUS
  <2>2. t[i + 1] = g[i] /\ t[i] = g[i - 1]
    BY <1>7, <2>1
  <2> QED
    BY <1>8, <2>2
<1>11. \A i \in 1..(n + 1) : t[i] \in Nat
  BY <1>6, <1>7, <1>8
<1> QED
  BY <1>5, <1>9, <1>10, <1>11 DEF Totalled, t

(* The last one is the sum.                                                *)
LEMMA TotalsEnd ==
  ASSUME NEW n \in Nat, NEW z \in Seq(Nat), Len(z) = n
  PROVE  SumOf(z) = Totals(z)[n + 1]
<1> DEFINE s == SubSeq(z, 1, n)
<1>1. DOMAIN z = 1..n /\ \A m \in 1..n : z[m] \in Nat
  BY LenProperties
<1>2. n + 1 \in 1..(n + 1) /\ (n + 1) - 1 = n
  OBVIOUS
<1>3. Totals(z)[n + 1] = SumOf(s)
  <2>1. Totals(z)[n + 1] = SumOf(SubSeq(z, 1, (n + 1) - 1))
    BY <1>2, Zenon DEF Totals, SumOf
  <2> QED
    BY <1>2, <2>1
<1>4. s = z
  <2>1. z = [m \in 1..n |-> z[m]]
    BY <1>1
  <2>2. s = [m \in 1..n |-> z[m]]
    BY <1>1
  <2> QED
    BY <2>1, <2>2
<1> HIDE DEF s
<1> QED
  BY <1>3, <1>4

(* A product of two or three factors.                                      *)
LEMMA ProductIs ==
  ASSUME NEW d \in {2, 3}, NEW s, DOMAIN s = 1..d, \A m \in 1..d : s[m] \in Nat
  PROVE  Product(s) = (IF d = 2 THEN s[1] * s[2] ELSE (s[1] * s[2]) * s[3]) /\ Product(s) \in Nat
<1> DEFINE G == Nat
           step == TimesSteps(d, s)
           h == CHOOSE f : f = [t \in SUBSET (DOMAIN s) |-> IF t = {} THEN 1 ELSE f[t \ {Max(t)}] * s[Max(t)]]
<1>0. d \in Nat
  OBVIOUS
<1>1. 1 \in G /\ step \in [1..d -> [G -> G]] /\ \A m \in 1..d : \A x \in G : step[m][x] = x * s[m]
  BY DEF TimesSteps
<1>2. Product(s) = h[DOMAIN s]
  BY Zenon DEF Product, FoldLeft, MapThenFoldSet
<1> HIDE DEF step
<1>3. Folds(d, G, 1, step)
  <2> HIDE DEF G
  <2> QED
    BY <1>0, <1>1, FoldExists
<1>4. PICK f \in [SUBSET (1..d) -> G] : IsFold(f, d, 1, step)
  BY <1>3 DEF Folds
<1>5. \A t \in SUBSET (1..d) : t # {} => Max(t) \in 1..d /\ t \ {Max(t)} \in SUBSET (1..d)
  BY <1>0, MaxOf
<1>6. f = [t \in SUBSET (DOMAIN s) |-> IF t = {} THEN 1 ELSE f[t \ {Max(t)}] * s[Max(t)]]
  <2>1. ASSUME NEW t \in SUBSET (1..d)
        PROVE  f[t] = IF t = {} THEN 1 ELSE f[t \ {Max(t)}] * s[Max(t)]
    BY <1>1, <1>4, <1>5 DEF IsFold
  <2> QED
    BY <1>4, <2>1
<1>7. h = [t \in SUBSET (DOMAIN s) |-> IF t = {} THEN 1 ELSE h[t \ {Max(t)}] * s[Max(t)]]
  BY <1>6
<1> HIDE DEF h
<1>8. h[{}] = 1
  BY <1>7
<1>9. \A m \in 1..d : h[1..m] = h[1..(m - 1)] * s[m]
  <2> TAKE m \in 1..d
  <2>1. m \in Nat /\ m # 0 /\ 1..m \in SUBSET (DOMAIN s)
    BY <1>0
  <2>2. 1..m # {} /\ Max(1..m) = m /\ (1..m) \ {Max(1..m)} = 1..(m - 1)
    BY <2>1, Prefix
  <2> QED
    BY <1>7, <2>1, <2>2
<1>10. h[1..0] = 1
  <2>1. 1..0 = {}
    OBVIOUS
  <2> QED
    BY <1>8, <2>1
<1>11. s[1] \in Nat /\ s[2] \in Nat /\ 1 \in 1..d /\ 2 \in 1..d
  OBVIOUS
<1>12. h[1..1] = s[1]
  <2>1. h[1..1] = h[1..(1 - 1)] * s[1]
    BY <1>9, <1>11
  <2>2. 1 - 1 = 0 /\ 1 * s[1] = s[1]
    BY <1>11
  <2> QED
    BY <1>10, <2>1, <2>2
<1>13. h[1..2] = s[1] * s[2]
  <2>1. h[1..2] = h[1..(2 - 1)] * s[2]
    BY <1>9, <1>11
  <2>2. 2 - 1 = 1
    OBVIOUS
  <2> QED
    BY <1>12, <2>1, <2>2
<1>14. CASE d = 2
  <2>1. s[1] * s[2] \in Nat
    BY <1>11
  <2> QED
    BY <1>2, <1>13, <1>14, <2>1
<1>15. CASE d = 3
  <2>1. 3 \in 1..d /\ s[3] \in Nat /\ 3 - 1 = 2
    BY <1>15
  <2>2. h[1..3] = h[1..(3 - 1)] * s[3]
    BY <1>9, <2>1
  <2>3. s[1] * s[2] \in Nat
    BY <1>11
  <2>4. (s[1] * s[2]) * s[3] \in Nat
    BY <2>1, <2>3
  <2> QED
    BY <1>2, <1>13, <1>15, <2>1, <2>2, <2>4
<1> QED
  BY <1>14, <1>15

(* Sides count by their remainders, up to a multiple of w.                 *)
LEMMA ProductMod ==
  ASSUME NEW d \in {2, 3}, NEW s, DOMAIN s = 1..d, \A m \in 1..d : s[m] \in Nat, NEW w \in Nat \ {0}
  PROVE  Congruent(Product(s), Product([a \in DOMAIN s |-> s[a] % w]), w)
<1> DEFINE t == [a \in DOMAIN s |-> s[a] % w]
<1>1. DOMAIN t = 1..d /\ \A m \in 1..d : t[m] = s[m] % w /\ t[m] \in Nat /\ t[m] % w = s[m] % w
  BY ModTwice
<1> HIDE DEF t
<1>2. Product(s) = IF d = 2 THEN s[1] * s[2] ELSE (s[1] * s[2]) * s[3]
  BY ProductIs
<1>3. Product(t) = IF d = 2 THEN t[1] * t[2] ELSE (t[1] * t[2]) * t[3]
  BY <1>1, ProductIs
<1>4. 1 \in 1..d /\ 2 \in 1..d /\ w \in Nat \ {0}
  OBVIOUS
<1>a. /\ s[1] \in Nat /\ s[2] \in Nat /\ t[1] \in Nat /\ t[2] \in Nat
      /\ Congruent(s[1], t[1], w) /\ Congruent(s[2], t[2], w)
  BY <1>1, <1>4, Zenon DEF Congruent
<1>5. Congruent(s[1] * s[2], t[1] * t[2], w)
  BY <1>4, <1>a, ModTimes, Zenon
<1>6. CASE d = 2
  BY <1>2, <1>3, <1>5, <1>6 DEF t
<1>7. CASE d = 3
  <2>1. s[3] \in Nat /\ t[3] \in Nat /\ Congruent(s[3], t[3], w)
    BY <1>1, <1>7 DEF Congruent
  <2>2. \A x, y \in Nat : x * y \in Nat
    OBVIOUS
  <2>3. s[1] * s[2] \in Nat /\ t[1] * t[2] \in Nat
    BY <1>a, <2>2, Zenon
  <2>4. Congruent((s[1] * s[2]) * s[3], (t[1] * t[2]) * t[3], w)
    BY <1>4, <1>5, <2>1, <2>3, ModTimes, Zenon
  <2> QED
    BY <1>2, <1>3, <1>7, <2>4 DEF t
<1> QED
  BY <1>6, <1>7
-----------------------------------------------------------------------------
(* ---- packets ---------------------------------------------------------- *)

Buffer(kind, data) == [kind |-> kind, data |-> data]

Regular(p) ==
  /\ p = [count |-> p.count, dirty |-> p.dirty, buffers |-> p.buffers]
  /\ p.buffers = [s \in Slots(p) |-> p.buffers[s]]
  /\ \A s \in Slots(p) : p.buffers[s] = Buffer(p.buffers[s].kind, p.buffers[s].data)

(* The packet q is p with another buffer in this slot.                     *)
Replaced(q, p, slot, buffer) ==
  /\ Regular(q) /\ q.count = p.count /\ Slots(q) = Slots(p) \cup {slot}
  /\ q.buffers[slot] = buffer
  /\ \A s \in Slots(p) : s # slot => q.buffers[s] = p.buffers[s]

LEMMA FilledIs ==
  ASSUME NEW p, Regular(p), NEW slot, NEW kind, NEW data
  PROVE  Replaced(Filled(p, slot, kind, data), p, slot, Buffer(kind, data))
<1> DEFINE old == EnsuredSlot(p, slot, kind)
           kept == [i \in 1..Len(data) |-> IF i <= Len(old.data) THEN old.data[i] ELSE Zero]
           S == Slots(p) \cup {slot}
           e == Ensured(p, slot, kind, Len(data))
           q == Filled(p, slot, kind, data)
<1>1. old = Buffer(old.kind, old.data) /\ old.kind = kind
  BY DEF EnsuredSlot, Regular, Buffer
<1> DEFINE grown == [old EXCEPT !.data = kept]
<1>2. grown = Buffer(kind, kept)
  <2> HIDE DEF old, kept
  <2> QED
    BY <1>1 DEF Buffer
<1>3. e = WithBuffer(p, slot, grown)
  BY DEF Ensured
<1> HIDE DEF grown
<1>4. e = [count |-> p.count, dirty |-> TRUE, buffers |-> [s \in S |-> IF s = slot THEN grown ELSE p.buffers[s]]]
  <2>1. p = [count |-> p.count, dirty |-> p.dirty, buffers |-> p.buffers]
    BY DEF Regular
  <2>2. PICK c, d, f : p = [count |-> c, dirty |-> d, buffers |-> f]
    BY <2>1, Zenon
  <2> DEFINE g == [s \in S |-> IF s = slot THEN grown ELSE p.buffers[s]]
  <2>3. e = [p EXCEPT !.dirty = TRUE, !.buffers = g]
    BY <1>3, Zenon DEF WithBuffer
  <2> HIDE DEF g
  <2>4. p.count = c
    BY <2>2
  <2>5. e = [count |-> c, dirty |-> TRUE, buffers |-> g]
    BY <2>2, <2>3
  <2> QED
    BY <2>4, <2>5 DEF g
<1> HIDE DEF e, kept, old
<1>5. q = [e EXCEPT !.buffers[slot].data = data]
  BY DEF Filled, Written, e
<1> DEFINE b == [s \in S |-> IF s = slot THEN Buffer(kind, data) ELSE p.buffers[s]]
<1>6. q = [count |-> p.count, dirty |-> TRUE, buffers |-> b]
  <2> DEFINE f == [s \in S |-> IF s = slot THEN grown ELSE p.buffers[s]]
  <2>1. [f EXCEPT ![slot].data = data] = b
    <3>1. slot \in DOMAIN f /\ f[slot] = Buffer(kind, kept)
      BY <1>2
    <3>2. [Buffer(kind, kept) EXCEPT !.data = data] = Buffer(kind, data)
      BY DEF Buffer
    <3>3. [f EXCEPT ![slot].data = data] = [s \in S |-> IF s = slot THEN [f[slot] EXCEPT !.data = data] ELSE f[s]]
      OBVIOUS
    <3>4. \A s \in S : s # slot => f[s] = p.buffers[s]
      OBVIOUS
    <3> HIDE DEF f
    <3> QED
      BY <3>1, <3>2, <3>3, <3>4
  <2> HIDE DEF f, b
  <2>2. e = [count |-> p.count, dirty |-> TRUE, buffers |-> f]
    BY <1>4 DEF f
  <2>3. q = [count |-> p.count, dirty |-> TRUE, buffers |-> [f EXCEPT ![slot].data = data]]
    BY <1>5, <2>2
  <2> QED
    BY <2>1, <2>3
<1> HIDE DEF q
<1>7. Slots(q) = S /\ q.count = p.count /\ q.buffers = b
  BY <1>6 DEF Slots
<1>8. q.buffers[slot] = Buffer(kind, data) /\ \A s \in Slots(p) : s # slot => q.buffers[s] = p.buffers[s]
  BY <1>7
<1>9. Regular(q)
  <2>1. \A s \in S : q.buffers[s] = Buffer(q.buffers[s].kind, q.buffers[s].data)
    <3> TAKE s \in S
    <3>1. CASE s = slot
      BY <1>8, <3>1 DEF Buffer
    <3>2. CASE s # slot
      BY <1>8, <3>2 DEF Regular
    <3> QED
      BY <3>1, <3>2
  <2>2. q.buffers = [s \in S |-> q.buffers[s]]
    BY <1>7
  <2>3. q = [count |-> q.count, dirty |-> q.dirty, buffers |-> q.buffers]
    BY <1>6
  <2> QED
    BY <1>7, <2>1, <2>2, <2>3 DEF Regular
<1> QED
  BY <1>7, <1>8, <1>9 DEF Replaced, q

(* Queries of one dimension.                                               *)
QueriesOK(queries, d) ==
  /\ d \in {2, 3} /\ Len(queries) \in Nat /\ DOMAIN queries = 1..Len(queries)
  /\ \A j \in 1..Len(queries) :
       /\ queries[j].dimension = d /\ queries[j].sides \in [1..d -> Nat]
       /\ queries[j].origin = [a \in 1..d |-> queries[j].origin[a]]
       /\ queries[j].step = [a \in 1..d |-> queries[j].step[a]]

LEMMA BatchIsOK ==
  ASSUME NEW queries \in Batches, NEW d, d \in {2, 3}, \A i \in DOMAIN queries : queries[i].dimension = d
  PROVE  QueriesOK(queries, d)
<1>1. queries \in Seq(ToSet(queries))
  BY BatchesAssumption
<1>2. Len(queries) \in Nat /\ DOMAIN queries = 1..Len(queries)
  BY <1>1, LenProperties
<1>3. ASSUME NEW j \in 1..Len(queries)
      PROVE  queries[j].dimension = d /\ queries[j] \in ToSet(queries)
  BY <1>2 DEF ToSet
<1> QED
  BY <1>2, <1>3, BatchesAssumption DEF QueriesOK

PaddedTo(t, X, d, s) == t \in Seq(X) /\ Len(t) = 3 /\ \A a \in 1..d : t[a] = s[a]

LEMMA PaddedIs ==
  ASSUME NEW X, NEW d \in {2, 3}, NEW s \in [1..d -> X], NEW filler \in X
  PROVE  PaddedTo(Padded(s, filler), X, d, s)
<1>1. s \in Seq(X) /\ Len(s) = d
  BY FunctionIsSeq
<1>2. CASE d = 2
  <2>1. Padded(s, filler) = Append(s, filler)
    BY <1>1, <1>2 DEF Padded
  <2>2. /\ Append(s, filler) \in Seq(X) /\ Len(Append(s, filler)) = Len(s) + 1
        /\ \A i \in 1..Len(s) : Append(s, filler)[i] = s[i]
    BY <1>1, AppendProperties
  <2> QED
    BY <1>1, <1>2, <2>1, <2>2 DEF PaddedTo
<1>3. CASE d = 3
  BY <1>1, <1>3 DEF Padded, PaddedTo
<1> QED
  BY <1>2, <1>3

(* The sides, as casts leave them, and the floats of each query.           *)
Meta(queries) ==
  Concat([i \in DOMAIN queries |-> [k \in 1..3 |-> Padded(queries[i].sides, 1)[k] % Word]])
Floats(queries) ==
  Concat([i \in DOMAIN queries |-> Padded(queries[i].origin, "0") \o Padded(queries[i].step, "1")])
Offsets(queries) ==
  LET totals == Totals([i \in DOMAIN queries |-> Product(queries[i].sides)])
  IN  [i \in DOMAIN totals |-> (totals[i] % Wide) % Word]

LEMMA MetaIs ==
  ASSUME NEW queries, NEW d, QueriesOK(queries, d)
  PROVE  \A j \in 1..Len(queries) : \A a \in 1..d : Meta(queries)[3 * (j - 1) + a] = queries[j].sides[a] % Word
<1> DEFINE n == Len(queries)
           seqs == [i \in DOMAIN queries |-> [k \in 1..3 |-> Padded(queries[i].sides, 1)[k] % Word]]
<1>1. n \in Nat /\ DOMAIN queries = 1..n /\ d \in {2, 3} /\ \A j \in 1..n : queries[j].sides \in [1..d -> Nat]
  BY DEF QueriesOK
<1> HIDE DEF n
<1>2. \A j \in 1..n : /\ Padded(queries[j].sides, 1) \in Seq(Nat) /\ Len(Padded(queries[j].sides, 1)) = 3
                      /\ \A a \in 1..d : Padded(queries[j].sides, 1)[a] = queries[j].sides[a]
  <2> TAKE j \in 1..n
  <2>1. 1 \in Nat /\ queries[j].sides \in [1..d -> Nat] /\ d \in {2, 3}
    BY <1>1
  <2>2. PaddedTo(Padded(queries[j].sides, 1), Nat, d, queries[j].sides)
    BY <2>1, PaddedIs
  <2> QED
    BY <2>2 DEF PaddedTo
<1>3. ASSUME NEW j \in 1..n
      PROVE  seqs[j] \in Seq(Nat) /\ Len(seqs[j]) = 3 /\ \A a \in 1..d : seqs[j][a] = queries[j].sides[a] % Word
  <2> DEFINE s == Padded(queries[j].sides, 1)
  <2>1. s \in Seq(Nat) /\ Len(s) = 3 /\ \A a \in 1..d : s[a] = queries[j].sides[a]
    BY <1>2
  <2>2. seqs[j] = [k \in 1..3 |-> s[k] % Word]
    BY <1>1
  <2> HIDE DEF seqs, s
  <2>3. \A k \in 1..3 : s[k] \in Nat
    BY <2>1, LenProperties
  <2>4. \A k \in 1..3 : (s[k] % Word) \in Nat
    BY <2>3, WordAssumption, ModTwice
  <2>5. seqs[j] \in [1..3 -> Nat]
    BY <2>2, <2>4
  <2>6. \A a \in 1..d : seqs[j][a] = s[a] % Word
    BY <1>1, <2>2
  <2>7. seqs[j] \in Seq(Nat) /\ Len(seqs[j]) = 3
    BY <2>5, FunctionIsSeq
  <2> QED
    BY <2>1, <2>6, <2>7
<1>4. DOMAIN seqs = 1..n /\ seqs = [m \in 1..n |-> seqs[m]]
  BY <1>1
<1> HIDE DEF seqs
<1>5. Blocks(Concat(seqs), Nat, seqs, 3, n)
  BY <1>1, <1>3, <1>4, BlocksAre
<1>6. ASSUME NEW j \in 1..n, NEW a \in 1..d
      PROVE  Concat(seqs)[3 * (j - 1) + a] = queries[j].sides[a] % Word
  <2>1. a \in 1..3
    BY <1>1
  <2> QED
    BY <1>3, <1>5, <2>1, ZenonT(40) DEF Blocks
<1> QED
  BY <1>6 DEF Meta, seqs, n

LEMMA FloatsAre ==
  ASSUME NEW queries, NEW d, QueriesOK(queries, d)
  PROVE  \A j \in 1..Len(queries) : \A a \in 1..d :
           /\ Floats(queries)[6 * (j - 1) + a] = queries[j].origin[a]
           /\ Floats(queries)[6 * (j - 1) + 3 + a] = queries[j].step[a]
<1> DEFINE n == Len(queries)
           X == {queries[j].origin[a] : j \in 1..n, a \in 1..d} \cup {queries[j].step[a] : j \in 1..n, a \in 1..d}
                \cup {"0", "1"}
           o(j) == Padded(queries[j].origin, "0")
           t(j) == Padded(queries[j].step, "1")
           seqs == [i \in DOMAIN queries |-> o(i) \o t(i)]
<1>1. /\ n \in Nat /\ DOMAIN queries = 1..n /\ d \in {2, 3}
      /\ \A j \in 1..n : /\ queries[j].origin = [a \in 1..d |-> queries[j].origin[a]]
                         /\ queries[j].step = [a \in 1..d |-> queries[j].step[a]]
  BY DEF QueriesOK
<1> HIDE DEF n
<1>2. "0" \in X /\ "1" \in X /\ \A j \in 1..n : queries[j].origin \in [1..d -> X] /\ queries[j].step \in [1..d -> X]
  <2>1. ASSUME NEW j \in 1..n
        PROVE  queries[j].origin \in [1..d -> X] /\ queries[j].step \in [1..d -> X]
    <3>1. \A a \in 1..d : queries[j].origin[a] \in X /\ queries[j].step[a] \in X
      OBVIOUS
    <3> HIDE DEF X
    <3> QED
      BY <1>1, <3>1
  <2> QED
    BY <2>1
<1> HIDE DEF X
<1>3. ASSUME NEW j \in 1..n
      PROVE  /\ o(j) \in Seq(X) /\ Len(o(j)) = 3 /\ \A a \in 1..d : o(j)[a] = queries[j].origin[a]
             /\ t(j) \in Seq(X) /\ Len(t(j)) = 3 /\ \A a \in 1..d : t(j)[a] = queries[j].step[a]
  <2>1. PaddedTo(o(j), X, d, queries[j].origin)
    BY <1>1, <1>2, PaddedIs
  <2>2. PaddedTo(t(j), X, d, queries[j].step)
    BY <1>1, <1>2, PaddedIs
  <2> QED
    BY <2>1, <2>2 DEF PaddedTo
<1> HIDE DEF o, t
<1>4. ASSUME NEW j \in 1..n
      PROVE  /\ seqs[j] \in Seq(X) /\ Len(seqs[j]) = 6
             /\ \A a \in 1..d : seqs[j][a] = queries[j].origin[a] /\ seqs[j][3 + a] = queries[j].step[a]
  <2>1. seqs[j] = o(j) \o t(j)
    BY <1>1
  <2> HIDE DEF seqs
  <2>2. /\ seqs[j] \in Seq(X) /\ Len(seqs[j]) = Len(o(j)) + Len(t(j))
        /\ \A i \in 1..(Len(o(j)) + Len(t(j))) :
             seqs[j][i] = IF i <= Len(o(j)) THEN o(j)[i] ELSE t(j)[i - Len(o(j))]
    BY <1>3, <2>1, ConcatProperties
  <2>3. Len(o(j)) = 3 /\ Len(t(j)) = 3
    BY <1>3
  <2>4. Len(seqs[j]) = 6 /\ \A i \in 1..6 : seqs[j][i] = IF i <= 3 THEN o(j)[i] ELSE t(j)[i - 3]
    BY <2>2, <2>3
  <2>5. ASSUME NEW a \in 1..d
        PROVE  seqs[j][a] = o(j)[a] /\ seqs[j][3 + a] = t(j)[a]
    <3>1. a \in 1..6 /\ a <= 3 /\ 3 + a \in 1..6 /\ ~(3 + a <= 3) /\ (3 + a) - 3 = a
      BY <1>1
    <3>2. seqs[j][3 + a] = t(j)[(3 + a) - 3]
      BY <2>4, <3>1
    <3> QED
      BY <2>4, <3>1, <3>2
  <2> QED
    BY <1>3, <2>2, <2>4, <2>5
<1>5. DOMAIN seqs = 1..n /\ seqs = [m \in 1..n |-> seqs[m]]
  BY <1>1
<1> HIDE DEF seqs
<1>6. Blocks(Concat(seqs), X, seqs, 6, n)
  BY <1>1, <1>4, <1>5, BlocksAre
<1>7. ASSUME NEW j \in 1..n, NEW a \in 1..d
      PROVE  /\ Concat(seqs)[6 * (j - 1) + a] = queries[j].origin[a]
             /\ Concat(seqs)[6 * (j - 1) + 3 + a] = queries[j].step[a]
  <2>1. a \in 1..6 /\ 3 + a \in 1..6 /\ 6 * (j - 1) + 3 + a = 6 * (j - 1) + (3 + a)
    BY <1>1
  <2>2. \A k \in 1..6 : Concat(seqs)[6 * (j - 1) + k] = seqs[j][k]
    BY <1>6 DEF Blocks
  <2> QED
    BY <1>4, <2>1, <2>2
<1> QED
  BY <1>7 DEF Floats, seqs, n, o, t

(* What wraps as a usize and is cast to a u32 is cast all the same.        *)
LEMMA WideDrops ==
  ASSUME NEW x \in Nat
  PROVE  (x % Wide) % Word = x % Word
<1>1. Word \in Nat \ {0} /\ Wide \in Nat \ {0} /\ Wide % Word = 0
  BY WordAssumption, WideAssumption
<1>2. PICK q \in Nat : x = Wide * q + (x % Wide) /\ (x % Wide) \in 0..(Wide - 1)
  BY <1>1, DivMod
<1>3. PICK r \in Nat : r = x % Wide
  BY <1>2
<1>4. PICK k \in Nat : Wide = Word * k + (Wide % Word)
  BY <1>1, DivMod
<1>5. Wide = Word * k
  BY <1>1, <1>4
<1>6. x = Word * (k * q) + r /\ k * q \in Nat
  <2>1. (Word * k) * q = Word * (k * q) /\ k * q \in Nat
    BY <1>1
  <2> QED
    BY <1>2, <1>3, <1>5, <2>1
<1>7. (Word * (k * q) + r) % Word = r % Word
  BY <1>1, <1>6, ModDrops
<1> QED
  BY <1>3, <1>6, <1>7

(* Where the cells of each query start, and how many there are.            *)
Starts(queries) == Totals(Sizes(queries))

LEMMA SidesAre ==
  ASSUME NEW queries, NEW d, QueriesOK(queries, d), NEW j \in 1..Len(queries)
  PROVE  /\ DOMAIN Sides(queries[j]) = 1..d
         /\ \A a \in 1..d : Sides(queries[j])[a] = queries[j].sides[a] % Word /\ Sides(queries[j])[a] \in Nat
         /\ SizeAt(queries, j) \in Nat /\ Product(queries[j].sides) \in Nat
         /\ Congruent(Product(queries[j].sides), SizeAt(queries, j), Word)
<1> DEFINE s == queries[j].sides
<1>1. s \in [1..d -> Nat] /\ d \in {2, 3}
  BY DEF QueriesOK
<1> HIDE DEF s
<1>2. DOMAIN s = 1..d /\ \A a \in 1..d : s[a] \in Nat
  BY <1>1
<1>3. Sides(queries[j]) = [a \in DOMAIN s |-> s[a] % Word]
  BY DEF Sides, s
<1>4. \A a \in 1..d : (s[a] % Word) \in Nat
  BY <1>2, WordAssumption, ModTwice
<1>5. DOMAIN Sides(queries[j]) = 1..d /\ \A a \in 1..d : Sides(queries[j])[a] = s[a] % Word /\ Sides(queries[j])[a] \in Nat
  BY <1>2, <1>3, <1>4
<1>6. SizeAt(queries, j) \in Nat
  BY <1>1, <1>5, ProductIs DEF SizeAt
<1>7. Product(s) \in Nat
  BY <1>1, <1>2, ProductIs
<1>8. Congruent(Product(s), SizeAt(queries, j), Word)
  BY <1>1, <1>2, <1>3, WordAssumption, ProductMod DEF SizeAt
<1> QED
  BY <1>5, <1>6, <1>7, <1>8 DEF s

LEMMA OffsetsAre ==
  ASSUME NEW queries, NEW d, QueriesOK(queries, d), NEW n, n = Len(queries)
  PROVE  /\ Totalled(Starts(queries), n, Sizes(queries)) /\ CutSize(queries) = Starts(queries)[n + 1]
         /\ \A j \in 1..n : Sizes(queries)[j] = SizeAt(queries, j)
         /\ DOMAIN Offsets(queries) = 1..(n + 1) /\ Len(Offsets(queries)) = n + 1
         /\ \A i \in 1..(n + 1) : Offsets(queries)[i] = Starts(queries)[i] % Word
<1> DEFINE z == Sizes(queries)
           u == [i \in DOMAIN queries |-> Product(queries[i].sides)]
           S == Starts(queries)
           U == Totals(u)
<1>1. n \in Nat /\ DOMAIN queries = 1..n
  BY DEF QueriesOK
<1>2. \A j \in 1..n : z[j] = SizeAt(queries, j)
  BY <1>1 DEF Sizes
<1>3. z \in [1..n -> Nat] /\ u \in [1..n -> Nat] /\ \A j \in 1..n : Congruent(u[j], z[j], Word)
  <2>1. \A j \in 1..n : SizeAt(queries, j) \in Nat /\ Product(queries[j].sides) \in Nat
                        /\ Congruent(Product(queries[j].sides), SizeAt(queries, j), Word)
    BY SidesAre
  <2> QED
    BY <1>1, <1>2, <2>1 DEF Sizes
<1>4. z \in Seq(Nat) /\ Len(z) = n /\ u \in Seq(Nat) /\ Len(u) = n
  BY <1>1, <1>3, FunctionIsSeq
<1>5. Totalled(S, n, z) /\ Totalled(U, n, u)
  BY <1>1, <1>4, TotalsAre DEF Starts
<1>6. Offsets(queries) = [i \in DOMAIN U |-> U[i] % Word]
  <2>1. Offsets(queries) = [i \in DOMAIN U |-> (U[i] % Wide) % Word]
    BY DEF Offsets
  <2>2. DOMAIN U = 1..(n + 1) /\ \A i \in 1..(n + 1) : U[i] \in Nat
    BY <1>5 DEF Totalled
  <2> HIDE DEF U
  <2>3. \A i \in 1..(n + 1) : (U[i] % Wide) % Word = U[i] % Word
    BY <2>2, WideDrops
  <2> QED
    BY <2>1, <2>2, <2>3
<1>7. CutSize(queries) = S[n + 1]
  BY <1>1, <1>4, TotalsEnd DEF CutSize, Starts
<1> HIDE DEF z, u, S, U
<1>8. \A i \in 1..(n + 1) : Congruent(U[i], S[i], Word)
  <2> DEFINE T == {m \in Nat : m <= n => Congruent(U[m + 1], S[m + 1], Word)}
  <2>1. 0 \in T
    <3>1. 0 + 1 = 1 /\ U[1] = 0 /\ S[1] = 0
      BY <1>5 DEF Totalled
    <3> QED
      BY <3>1 DEF Congruent
  <2>2. ASSUME NEW m \in Nat, m \in T
        PROVE  m + 1 \in T
    <3> SUFFICES ASSUME m + 1 <= n
                 PROVE  Congruent(U[(m + 1) + 1], S[(m + 1) + 1], Word)
      OBVIOUS
    <3> DEFINE i == m + 1
    <3>1. i \in 1..n /\ i \in 1..(n + 1) /\ Congruent(U[i], S[i], Word)
      BY <1>1, <2>2
    <3> HIDE DEF i
    <3>2. U[i + 1] = U[i] + u[i] /\ S[i + 1] = S[i] + z[i] /\ U[i] \in Nat /\ S[i] \in Nat
      BY <1>5, <3>1 DEF Totalled
    <3>3. u[i] \in Nat /\ z[i] \in Nat /\ Congruent(u[i], z[i], Word)
      BY <1>3, <3>1
    <3>4. Congruent(U[i] + u[i], S[i] + z[i], Word)
      BY <3>1, <3>2, <3>3, WordAssumption, ModAdds
    <3> QED
      BY <3>2, <3>4 DEF i
  <2> HIDE DEF T
  <2>3. Nat \subseteq T
    BY <2>1, <2>2, SetInduction
  <2> TAKE i \in 1..(n + 1)
  <2>4. i - 1 \in Nat /\ i - 1 <= n /\ (i - 1) + 1 = i
    BY <1>1
  <2>5. i - 1 \in T
    BY <2>3, <2>4
  <2> QED
    BY <2>4, <2>5 DEF T
<1>10. DOMAIN Offsets(queries) = 1..(n + 1) /\ \A i \in 1..(n + 1) : Offsets(queries)[i] = S[i] % Word
  BY <1>5, <1>6, <1>8 DEF Totalled, Congruent
<1>11. Len(Offsets(queries)) = n + 1
  <2>1. Offsets(queries) \in [1..(n + 1) -> {Offsets(queries)[i] : i \in 1..(n + 1)}] /\ n + 1 \in Nat
    BY <1>1, <1>6, <1>10
  <2> QED
    BY <2>1, FunctionIsSeq
<1> QED
  BY <1>2, <1>5, <1>7, <1>10, <1>11 DEF z, S

(* What a job starts with: the buffers of its queries, and those that a    *)
(* packet kept, which are empty.                                           *)
Starting(recycled) == IF recycled THEN Leftover ELSE NewPacket

Kept3(recycled) == IF recycled THEN {10, 11, 12} ELSE {}

EncodedOf(q, queries, recycled) ==
  /\ Regular(q) /\ q.count = Len(queries)
  /\ Slots(q) = {QueryMeta, QueryF32, QueryOffsets} \cup Kept3(recycled)
  /\ q.buffers[QueryMeta] = Buffer("u32", Meta(queries))
  /\ q.buffers[QueryF32] = Buffer("f32", Floats(queries))
  /\ q.buffers[QueryOffsets] = Buffer("u32", Offsets(queries))
  /\ \A s \in Kept3(recycled) : q.buffers[s] = Buffer("f32", <<>>)

LEMMA StartingIs ==
  ASSUME NEW recycled \in BOOLEAN
  PROVE  LET p == Starting(recycled)
         IN  /\ Regular(p) /\ Slots(p) \subseteq {0, 1, 2} \cup Kept3(recycled) /\ Kept3(recycled) \subseteq Slots(p)
             /\ \A s \in Kept3(recycled) : p.buffers[s] = Buffer("f32", <<>>)
<1>1. CASE recycled
  <2> DEFINE D == {0, 1, 2} \cup {10, 11, 12}
             f == [slot \in D |-> [kind |-> IF slot \in {0, 2} THEN "u32" ELSE "f32", data |-> <<>>]]
  <2>1. ToSet(BaseSlots) = {10, 11, 12}
    BY DEF ToSet, BaseSlots
  <2>2. Leftover = [count |-> 0, dirty |-> FALSE, buffers |-> f]
    BY <2>1 DEF Leftover, QueryMeta, QueryF32, QueryOffsets
  <2>3. \A s \in D : f[s] = Buffer(f[s].kind, f[s].data)
    BY DEF Buffer
  <2>4. \A s \in {10, 11, 12} : f[s] = Buffer("f32", <<>>)
    BY DEF Buffer
  <2>5. DOMAIN f = D /\ f = [s \in D |-> f[s]]
    OBVIOUS
  <2> HIDE DEF f
  <2>6. Slots(Leftover) = D /\ Leftover.buffers = f
    BY <2>2, <2>5 DEF Slots
  <2>7. Regular(Leftover)
    <3>1. Leftover = [count |-> Leftover.count, dirty |-> Leftover.dirty, buffers |-> Leftover.buffers]
      BY <2>2
    <3> QED
      BY <2>3, <2>5, <2>6, <3>1 DEF Regular
  <2> QED
    BY <1>1, <2>4, <2>6, <2>7 DEF Starting, Kept3
<1>2. CASE ~recycled
  <2>1. DOMAIN <<>> = {}
    OBVIOUS
  <2>2. NewPacket.buffers = <<>> /\ Slots(NewPacket) = {}
    BY DEF NewPacket, Slots
  <2>3. <<>> = [s \in {} |-> <<>>[s]]
    OBVIOUS
  <2>4. Regular(NewPacket)
    BY <2>2, <2>3 DEF Regular, NewPacket
  <2> QED
    BY <1>2, <2>2, <2>4 DEF Starting, Kept3
<1> QED
  BY <1>1, <1>2

LEMMA EncodedIs ==
  ASSUME NEW queries, NEW recycled \in BOOLEAN
  PROVE  EncodedOf(Encoded(Starting(recycled), queries), queries, recycled)
<1> DEFINE p == Starting(recycled)
           p1 == [p EXCEPT !.count = Len(queries)]
           p2 == Filled(p1, QueryMeta, "u32", Meta(queries))
           p3 == Filled(p2, QueryF32, "f32", Floats(queries))
           p4 == Filled(p3, QueryOffsets, "u32", Offsets(queries))
<1>1. Encoded(p, queries) = p4
  BY Zenon DEF Encoded, Meta, Floats, Offsets
<1>2. /\ Regular(p) /\ Slots(p) \subseteq {0, 1, 2} \cup Kept3(recycled) /\ Kept3(recycled) \subseteq Slots(p)
      /\ \A s \in Kept3(recycled) : p.buffers[s] = Buffer("f32", <<>>)
  BY StartingIs
<1> HIDE DEF p
<1>3. Regular(p1) /\ Slots(p1) = Slots(p) /\ p1.buffers = p.buffers /\ p1.count = Len(queries)
  <2>1. p = [count |-> p.count, dirty |-> p.dirty, buffers |-> p.buffers]
    BY <1>2 DEF Regular
  <2>2. p1 = [count |-> Len(queries), dirty |-> p.dirty, buffers |-> p.buffers]
    <3>1. PICK c, d, f : p = [count |-> c, dirty |-> d, buffers |-> f]
      BY <2>1, Zenon
    <3>2. p.dirty = d /\ p.buffers = f
      BY <3>1
    <3>3. p1 = [count |-> Len(queries), dirty |-> d, buffers |-> f]
      BY <3>1
    <3> QED
      BY <3>2, <3>3
  <2> HIDE DEF p1
  <2>3. p1.buffers = p.buffers /\ p1.count = Len(queries) /\ p1.dirty = p.dirty
    BY <2>2
  <2> QED
    BY <1>2, <2>2, <2>3 DEF Regular, Slots
<1> HIDE DEF p1
<1>4. Replaced(p2, p1, QueryMeta, Buffer("u32", Meta(queries)))
  BY <1>3, FilledIs
<1>5. Regular(p2)
  BY <1>4 DEF Replaced
<1> HIDE DEF p2
<1>6. Replaced(p3, p2, QueryF32, Buffer("f32", Floats(queries)))
  BY <1>5, FilledIs
<1>7. Regular(p3)
  BY <1>6 DEF Replaced
<1> HIDE DEF p3
<1>8. Replaced(p4, p3, QueryOffsets, Buffer("u32", Offsets(queries)))
  BY <1>7, FilledIs
<1> HIDE DEF p4
<1>9. QueryMeta = 0 /\ QueryF32 = 1 /\ QueryOffsets = 2 /\ Kept3(recycled) \subseteq {10, 11, 12}
  BY DEF QueryMeta, QueryF32, QueryOffsets, Kept3
<1>10. Slots(p2) = Slots(p) \cup {0} /\ Slots(p3) = Slots(p) \cup {0, 1} /\ Slots(p4) = Slots(p) \cup {0, 1, 2}
  BY <1>3, <1>4, <1>6, <1>8, <1>9 DEF Replaced
<1>11. Slots(p4) = {0, 1, 2} \cup Kept3(recycled)
  BY <1>2, <1>10
<1>12. p4.count = Len(queries)
  BY <1>3, <1>4, <1>6, <1>8 DEF Replaced
<1>13. p4.buffers[0] = Buffer("u32", Meta(queries))
  <2>1. p2.buffers[0] = Buffer("u32", Meta(queries))
    BY <1>4, <1>9 DEF Replaced
  <2>2. p3.buffers[0] = p2.buffers[0]
    BY <1>6, <1>9, <1>10 DEF Replaced
  <2>3. p4.buffers[0] = p3.buffers[0]
    BY <1>8, <1>9, <1>10 DEF Replaced
  <2> QED
    BY <2>1, <2>2, <2>3
<1>14. p4.buffers[1] = Buffer("f32", Floats(queries))
  <2>1. p3.buffers[1] = Buffer("f32", Floats(queries))
    BY <1>6, <1>9 DEF Replaced
  <2>2. p4.buffers[1] = p3.buffers[1]
    BY <1>8, <1>9, <1>10 DEF Replaced
  <2> QED
    BY <2>1, <2>2
<1>15. p4.buffers[2] = Buffer("u32", Offsets(queries))
  BY <1>8, <1>9 DEF Replaced
<1>16. ASSUME NEW s \in Kept3(recycled)
       PROVE  p4.buffers[s] = Buffer("f32", <<>>)
  <2>1. s \in Slots(p) /\ s # 0 /\ s # 1 /\ s # 2 /\ s \in Slots(p2) /\ s \in Slots(p3)
    BY <1>2, <1>9, <1>10
  <2>2. p2.buffers[s] = p.buffers[s] /\ p3.buffers[s] = p2.buffers[s] /\ p4.buffers[s] = p3.buffers[s]
    BY <1>3, <1>4, <1>6, <1>8, <1>9, <2>1 DEF Replaced
  <2> QED
    BY <1>2, <2>2
<1>17. Regular(p4)
  BY <1>8 DEF Replaced
<1> QED
  BY <1>1, <1>9, <1>11, <1>12, <1>13, <1>14, <1>15, <1>16, <1>17 DEF EncodedOf, p
-----------------------------------------------------------------------------
(* ---- buffers that are written ----------------------------------------- *)

(* A packet with buffers of data in some slots, and else as it was.        *)
OutputOf(r, p, slots, data) ==
  /\ Regular(r) /\ r.count = p.count /\ Slots(r) = Slots(p) \cup ToSet(slots)
  /\ \A a \in DOMAIN slots : r.buffers[slots[a]] = Buffer("f32", data[a])
  /\ \A s \in Slots(p) : s \notin ToSet(slots) => r.buffers[s] = p.buffers[s]

EnsuredOf(q, p, slots) ==
  /\ Regular(q) /\ q.count = p.count /\ Slots(q) = Slots(p) \cup ToSet(slots)
  /\ \A s \in ToSet(slots) : q.buffers[s].kind = "f32"
  /\ \A s \in Slots(p) : s \notin ToSet(slots) => q.buffers[s] = p.buffers[s]

LEMMA EnsuredBuffer ==
  ASSUME NEW p, Regular(p), NEW s, NEW len
  PROVE  LET b == Ensured(p, s, "f32", len).buffers[s] IN b = Buffer("f32", b.data)
<1> DEFINE old == EnsuredSlot(p, s, "f32")
           kept == [i \in 1..len |-> IF i <= Len(old.data) THEN old.data[i] ELSE Zero]
<1>1. old = Buffer(old.kind, old.data) /\ old.kind = "f32"
  BY DEF EnsuredSlot, Regular, Buffer
<1> DEFINE grown == [old EXCEPT !.data = kept]
<1>2. grown = Buffer("f32", kept)
  <2> HIDE DEF old, kept
  <2> QED
    BY <1>1 DEF Buffer
<1>3. Ensured(p, s, "f32", len) = WithBuffer(p, s, grown)
  BY DEF Ensured
<1> HIDE DEF grown, kept, old
<1>4. WithBuffer(p, s, grown).buffers[s] = grown
  <2>1. PICK c, d, f : p = [count |-> c, dirty |-> d, buffers |-> f]
    BY Zenon DEF Regular
  <2> DEFINE g == [x \in Slots(p) \cup {s} |-> IF x = s THEN grown ELSE p.buffers[x]]
  <2>2. g[s] = grown
    OBVIOUS
  <2>3. WithBuffer(p, s, grown) = [p EXCEPT !.dirty = TRUE, !.buffers = g]
    BY Zenon DEF WithBuffer
  <2> HIDE DEF g
  <2> QED
    BY <2>1, <2>2, <2>3
<1> QED
  BY <1>2, <1>3, <1>4 DEF Buffer

LEMMA EnsuredAllIs ==
  ASSUME NEW p, Regular(p), NEW slots
  PROVE  EnsuredOf(EnsuredAll(p, slots), p, slots)
<1> DEFINE D == Slots(p) \cup ToSet(slots)
           new(s) == Ensured(p, s, "f32", Total(p)).buffers[s]
           b == [s \in D |-> IF s \in ToSet(slots) THEN new(s) ELSE p.buffers[s]]
           q == EnsuredAll(p, slots)
<1>1. q = [count |-> p.count, dirty |-> TRUE, buffers |-> b]
  <2>1. PICK c, d, f : p = [count |-> c, dirty |-> d, buffers |-> f]
    BY Zenon DEF Regular
  <2>2. q = [p EXCEPT !.dirty = TRUE, !.buffers = b]
    BY Zenon DEF EnsuredAll
  <2> HIDE DEF b, q
  <2>3. p.count = c
    BY <2>1
  <2> QED
    BY <2>1, <2>2, <2>3
<1>2. \A s : new(s) = Buffer("f32", new(s).data)
  BY EnsuredBuffer
<1> HIDE DEF q, new
<1>3. q.buffers = b /\ Slots(q) = D /\ q.count = p.count
  BY <1>1 DEF Slots
<1>4. \A s \in ToSet(slots) : q.buffers[s] = new(s)
  BY <1>3
<1>5. \A s \in Slots(p) : s \notin ToSet(slots) => q.buffers[s] = p.buffers[s]
  BY <1>3
<1>6. \A s \in ToSet(slots) : q.buffers[s].kind = "f32" /\ q.buffers[s] = Buffer(q.buffers[s].kind, q.buffers[s].data)
  BY <1>2, <1>4 DEF Buffer
<1>7. Regular(q)
  <2>1. \A s \in D : q.buffers[s] = Buffer(q.buffers[s].kind, q.buffers[s].data)
    BY <1>5, <1>6 DEF Regular
  <2>2. q.buffers = [s \in D |-> q.buffers[s]]
    BY <1>3
  <2>3. q = [count |-> q.count, dirty |-> q.dirty, buffers |-> q.buffers]
    BY <1>1
  <2> QED
    BY <1>3, <2>1, <2>2, <2>3 DEF Regular
<1> QED
  BY <1>3, <1>5, <1>6, <1>7 DEF EnsuredOf, q

(* The packet that a stage leaves.                                         *)
LEMMA OutputIs ==
  ASSUME NEW p, Regular(p), NEW slots, NEW data, \A a, b \in DOMAIN slots : slots[a] = slots[b] => a = b,
         ToSet(slots) = {slots[a] : a \in DOMAIN slots}
  PROVE  OutputOf(WrittenAll(EnsuredAll(p, slots), slots, data), p, slots, data)
<1> DEFINE q == EnsuredAll(p, slots)
           r == WrittenAll(q, slots, data)
           Its(s) == CHOOSE a \in DOMAIN slots : slots[a] = s
           b == [s \in Slots(q) |-> IF s \in ToSet(slots) THEN [q.buffers[s] EXCEPT !.data = data[Its(s)]] ELSE q.buffers[s]]
<1>1. EnsuredOf(q, p, slots)
  BY EnsuredAllIs
<1> HIDE DEF q
<1>2. r = [count |-> q.count, dirty |-> q.dirty, buffers |-> b]
  <2>1. PICK c, d, f : q = [count |-> c, dirty |-> d, buffers |-> f]
    BY <1>1, Zenon DEF EnsuredOf, Regular
  <2>2. r = [q EXCEPT !.buffers = b]
    BY Zenon DEF WrittenAll
  <2> HIDE DEF b, r
  <2>3. q.count = c /\ q.dirty = d
    BY <2>1
  <2> QED
    BY <2>1, <2>2, <2>3
<1>3. \A a \in DOMAIN slots : slots[a] \in ToSet(slots) /\ Its(slots[a]) = a
  OBVIOUS
<1> HIDE DEF r, Its
<1>4. r.buffers = b /\ Slots(r) = Slots(q) /\ r.count = q.count /\ r.dirty = q.dirty
  BY <1>2 DEF Slots
<1>5. \A s \in ToSet(slots) : r.buffers[s] = Buffer("f32", data[Its(s)])
  <2> TAKE s \in ToSet(slots)
  <2>1. s \in Slots(q) /\ q.buffers[s].kind = "f32" /\ q.buffers[s] = Buffer(q.buffers[s].kind, q.buffers[s].data)
    BY <1>1 DEF EnsuredOf, Regular
  <2>2. r.buffers[s] = [q.buffers[s] EXCEPT !.data = data[Its(s)]]
    BY <1>4, <2>1
  <2>3. PICK e : q.buffers[s] = [kind |-> "f32", data |-> e]
    BY <2>1 DEF Buffer
  <2> QED
    BY <2>2, <2>3 DEF Buffer
<1>6. \A s \in Slots(q) : s \notin ToSet(slots) => r.buffers[s] = q.buffers[s]
  BY <1>4
<1>7. Regular(r)
  <2>1. \A s \in Slots(q) : r.buffers[s] = Buffer(r.buffers[s].kind, r.buffers[s].data)
    <3> TAKE s \in Slots(q)
    <3>1. CASE s \in ToSet(slots)
      <4>1. PICK e : r.buffers[s] = Buffer("f32", e)
        BY <1>5, <3>1, Zenon
      <4> QED
        BY <4>1 DEF Buffer
    <3>2. CASE s \notin ToSet(slots)
      BY <1>1, <1>6, <3>2 DEF EnsuredOf, Regular
    <3> QED
      BY <3>1, <3>2
  <2>2. r.buffers = [s \in Slots(q) |-> r.buffers[s]]
    BY <1>4
  <2>3. r = [count |-> r.count, dirty |-> r.dirty, buffers |-> r.buffers]
    BY <1>2
  <2> QED
    BY <1>4, <2>1, <2>2, <2>3 DEF Regular
<1>8. \A a \in DOMAIN slots : r.buffers[slots[a]] = Buffer("f32", data[a])
  BY <1>3, <1>5
<1>9. \A s \in Slots(p) : s \notin ToSet(slots) => r.buffers[s] = p.buffers[s]
  BY <1>1, <1>6 DEF EnsuredOf
<1> QED
  BY <1>1, <1>4, <1>7, <1>8, <1>9 DEF OutputOf, EnsuredOf, r, q
-----------------------------------------------------------------------------
(* ---- the grid --------------------------------------------------------- *)

LEMMA CoordsAre ==
  ASSUME NEW d \in {2, 3}
  PROVE  /\ DOMAIN Coords(d) = 1..d /\ Len(Coords(d)) = d /\ Coords(d) \in Seq(Nat)
         /\ \A a \in 1..d : Coords(d)[a] = 9 + a /\ BaseSlots[a] = 9 + a
         /\ ToSet(Coords(d)) = 10..(9 + d) /\ ToSet(Coords(d)) = {Coords(d)[a] : a \in DOMAIN Coords(d)}
<1>1. BaseSlots \in Seq(Nat) /\ Len(BaseSlots) = 3 /\ \A a \in 1..3 : BaseSlots[a] = 9 + a
  BY DEF BaseSlots
<1> DEFINE c == Coords(d)
<1>2. /\ c \in Seq(Nat) /\ Len(c) = (IF 1 <= d THEN d - 1 + 1 ELSE 0)
      /\ \A k \in 1..(d - 1 + 1) : c[k] = BaseSlots[1 + k - 1]
  <2>1. \A k \in 1..d : BaseSlots[k] \in Nat
    BY <1>1
  <2> QED
    BY <2>1, SubSeqProperties DEF Coords
<1> HIDE DEF c
<1>3. Len(c) = d /\ \A k \in 1..d : c[k] = 9 + k
  BY <1>1, <1>2
<1>4. DOMAIN c = 1..d
  BY <1>2, <1>3, LenProperties
<1>5. ToSet(c) = {c[a] : a \in DOMAIN c}
  BY DEF ToSet
<1>6. ToSet(c) = 10..(9 + d)
  <2>1. \A x \in 10..(9 + d) : x - 9 \in 1..d /\ x = 9 + (x - 9)
    OBVIOUS
  <2> QED
    BY <1>3, <1>4, <1>5, <2>1
<1> QED
  <2>1. \A a \in 1..d : a \in 1..3
    OBVIOUS
  <2>2. \A a \in 1..d : c[a] = 9 + a /\ BaseSlots[a] = 9 + a
    BY <1>1, <1>3, <2>1
  <2> QED
    BY <1>2, <1>3, <1>4, <1>5, <1>6, <2>2 DEF c

(* Totals do not go down.                                                  *)
LEMMA TotalsGrow ==
  ASSUME NEW n \in Nat, NEW z, NEW t, Totalled(t, n, z), \A i \in 1..n : z[i] \in Nat,
         NEW i \in 1..(n + 1), NEW j \in 1..(n + 1), i <= j
  PROVE  t[i] <= t[j]
<1> DEFINE T == {m \in Nat : i + m <= n + 1 => t[i] <= t[i + m]}
<1>1. \A k \in 1..(n + 1) : t[k] \in Nat
  BY DEF Totalled
<1>2. 0 \in T
  <2>1. i + 0 = i
    OBVIOUS
  <2> QED
    BY <1>1, <2>1
<1>3. ASSUME NEW m \in Nat, m \in T
      PROVE  m + 1 \in T
  <2> SUFFICES ASSUME i + (m + 1) <= n + 1
               PROVE  t[i] <= t[i + (m + 1)]
    OBVIOUS
  <2> DEFINE k == i + m
  <2>1. k \in 1..n /\ i + (m + 1) = k + 1 /\ t[i] <= t[k]
    BY <1>3
  <2> HIDE DEF k
  <2>2. t[k + 1] = t[k] + z[k] /\ z[k] \in Nat /\ t[k] \in Nat /\ t[i] \in Nat
    BY <1>1, <2>1 DEF Totalled
  <2> QED
    BY <2>1, <2>2
<1> HIDE DEF T
<1>4. Nat \subseteq T
  BY <1>2, <1>3, SetInduction
<1>5. j - i \in Nat /\ i + (j - i) = j
  OBVIOUS
<1>6. j - i \in T
  BY <1>4, <1>5
<1> QED
  BY <1>5, <1>6 DEF T

(* The query to which a cell belongs, of all their cells in a row.         *)
OwnerOf(t, n, i) == CHOOSE j \in 1..n : t[j] < i /\ i <= t[j + 1]

LEMMA OwnerIs ==
  ASSUME NEW n \in Nat, NEW z, NEW t, Totalled(t, n, z), \A j \in 1..n : z[j] \in Nat,
         NEW i \in 1..t[n + 1]
  PROVE  /\ OwnerOf(t, n, i) \in 1..n
         /\ \A j \in 1..n : t[j] < i /\ i <= t[j + 1] <=> j = OwnerOf(t, n, i)
<1>1. (\A k \in 1..(n + 1) : t[k] \in Nat) /\ t[1] = 0 /\ n + 1 \in 1..(n + 1) /\ 1 \in 1..(n + 1)
  BY DEF Totalled
<1>2. i \in Nat /\ i <= t[n + 1] /\ 0 < i
  BY <1>1
<1> DEFINE B == {k \in 1..(n + 1) : i <= t[k]}
<1>3. B \in SUBSET Nat /\ B # {}
  BY <1>1, <1>2
<1>4. PICK m \in B : \A x \in B : m <= x
  BY <1>3, MinOf
<1>5. m # 1 /\ m \in 1..(n + 1)
  BY <1>1, <1>2, <1>4
<1> DEFINE j == m - 1
<1>6. j \in 1..n /\ j + 1 = m /\ j \in 1..(n + 1)
  BY <1>5
<1>7. t[j] < i /\ i <= t[j + 1]
  <2>1. j \notin B
    BY <1>4, <1>6
  <2> QED
    BY <1>1, <1>2, <1>4, <1>6, <2>1
<1> HIDE DEF j, B
<1>8. ASSUME NEW k \in 1..n, t[k] < i, i <= t[k + 1]
      PROVE  k = j
  <2>1. k \in 1..(n + 1) /\ k + 1 \in 1..(n + 1) /\ j + 1 \in 1..(n + 1)
    BY <1>6
  <2>2. CASE k < j
    <3>1. k + 1 <= j
      BY <1>6, <2>2
    <3>2. t[k + 1] <= t[j]
      BY <1>6, <2>1, <3>1, TotalsGrow
    <3> QED
      BY <1>1, <1>2, <1>6, <1>7, <1>8, <2>1, <3>2
  <2>3. CASE j < k
    <3>1. j + 1 <= k
      BY <1>6, <2>3
    <3>2. t[j + 1] <= t[k]
      BY <1>6, <2>1, <3>1, TotalsGrow
    <3> QED
      BY <1>1, <1>2, <1>6, <1>7, <1>8, <2>1, <3>2
  <2> QED
    BY <1>6, <2>2, <2>3
<1>9. OwnerOf(t, n, i) = j
  BY <1>6, <1>7, <1>8 DEF OwnerOf
<1> QED
  BY <1>6, <1>7, <1>8, <1>9

CellAt(queries, i) ==
  LET j == OwnerOf(Starts(queries), Len(queries), i)
  IN  CutCells(queries[j])[i - Starts(queries)[j]]

(* The parts of GridRun.                                                   *)
GridSide(p, j, a) == p.buffers[QueryMeta].data[3 * (j - 1) + a]
GridSize(p, n, j) == Product([a \in 1..n |-> GridSide(p, j, a)])
GridPlace(p, j, cell, a) ==
  CASE a = 1 -> cell % GridSide(p, j, 1)
    [] a = 2 -> (cell \div GridSide(p, j, 1)) % GridSide(p, j, 2)
    [] a = 3 -> cell \div (GridSide(p, j, 1) * GridSide(p, j, 2))
GridStart(p, j) == p.buffers[QueryOffsets].data[j]
GridWriters(p, n, i) == {j \in 1..p.count : GridStart(p, j) < i /\ i <= GridStart(p, j) + GridSize(p, n, j)}
GridFloat(p, i) == p.buffers[QueryF32].data[i]
GridCoordinate(p, n, i, a) ==
  LET j == Max(GridWriters(p, n, i))
  IN  <<"at", GridFloat(p, 6 * (j - 1) + a), GridFloat(p, 6 * (j - 1) + 3 + a), GridPlace(p, j, i - 1 - GridStart(p, j), a)>>
GridData(p, n) ==
  [a \in 1..n |-> [i \in 1..Total(p) |->
     IF GridWriters(p, n, i) = {} THEN EnsuredAll(p, Coords(n)).buffers[BaseSlots[a]].data[i]
     ELSE GridCoordinate(p, n, i, a)]]

LEMMA GridRunIs ==
  ASSUME NEW p, NEW n
  PROVE  GridRun(p, n) =
           IF \E j \in 1..p.count : GridSize(p, n, j) > 0 /\ GridStart(p, j) + GridSize(p, n, j) > Total(p)
           THEN [packet |-> EnsuredAll(p, Coords(n)), error |-> Panic]
           ELSE [error |-> "none", packet |-> WrittenAll(EnsuredAll(p, Coords(n)), Coords(n), GridData(p, n))]
BY Zenon DEF GridRun, GridSide, GridSize, GridPlace, GridStart, GridWriters, GridFloat, GridCoordinate, GridData

(* What the grid reads.                                                    *)
LEMMA GridReads ==
  ASSUME NEW queries, NEW d, QueriesOK(queries, d), NEW recycled, NEW p, EncodedOf(p, queries, recycled),
         NEW n, n = Len(queries)
  PROVE  /\ p.count = n /\ n \in Nat
         /\ \A j \in 1..n : \A a \in 1..d : GridSide(p, j, a) = Sides(queries[j])[a]
         /\ \A j \in 1..n : GridSize(p, d, j) = SizeAt(queries, j) /\ SizeAt(queries, j) \in Nat
         /\ \A j \in 1..n : GridStart(p, j) = Starts(queries)[j] % Word
         /\ \A j \in 1..n : \A a \in 1..d : /\ GridFloat(p, 6 * (j - 1) + a) = queries[j].origin[a]
                                            /\ GridFloat(p, 6 * (j - 1) + 3 + a) = queries[j].step[a]
         /\ Total(p) = CutSize(queries) % Word
<1>1. /\ p.buffers[QueryMeta].data = Meta(queries) /\ p.buffers[QueryF32].data = Floats(queries)
      /\ p.buffers[QueryOffsets].data = Offsets(queries) /\ p.count = n
  BY DEF EncodedOf, Buffer
<1>2. n \in Nat
  BY DEF QueriesOK
<1>3. ASSUME NEW j \in 1..n, NEW a \in 1..d
      PROVE  GridSide(p, j, a) = Sides(queries[j])[a]
  BY <1>1, <1>3, MetaIs, SidesAre DEF GridSide
<1>4. ASSUME NEW j \in 1..n
      PROVE  GridSize(p, d, j) = SizeAt(queries, j) /\ SizeAt(queries, j) \in Nat
  <2>1. DOMAIN Sides(queries[j]) = 1..d /\ SizeAt(queries, j) \in Nat
    BY SidesAre
  <2>2. Sides(queries[j]) = [a \in 1..d |-> Sides(queries[j])[a]]
    BY <2>1 DEF Sides
  <2>3. [a \in 1..d |-> GridSide(p, j, a)] = Sides(queries[j])
    BY <1>3, <2>2
  <2> QED
    BY <2>1, <2>3 DEF GridSize, SizeAt
<1>5. /\ Len(Offsets(queries)) = n + 1 /\ CutSize(queries) = Starts(queries)[n + 1]
      /\ \A i \in 1..(n + 1) : Offsets(queries)[i] = Starts(queries)[i] % Word
  BY OffsetsAre
<1>6. \A j \in 1..n : GridStart(p, j) = Starts(queries)[j] % Word
  <2> TAKE j \in 1..n
  <2>1. j \in 1..(n + 1)
    BY <1>2
  <2> QED
    BY <1>1, <1>5, <2>1 DEF GridStart
<1>7. Total(p) = CutSize(queries) % Word
  <2>1. n + 1 \in 1..(n + 1)
    BY <1>2
  <2> QED
    BY <1>1, <1>5, <2>1 DEF Total, Last
<1>8. \A j \in 1..n : \A a \in 1..d : /\ GridFloat(p, 6 * (j - 1) + a) = queries[j].origin[a]
                                      /\ GridFloat(p, 6 * (j - 1) + 3 + a) = queries[j].step[a]
  <2> TAKE j \in 1..n
  <2> TAKE a \in 1..d
  <2>1. j \in 1..Len(queries)
    OBVIOUS
  <2>2. /\ Floats(queries)[6 * (j - 1) + a] = queries[j].origin[a]
        /\ Floats(queries)[6 * (j - 1) + 3 + a] = queries[j].step[a]
    BY <2>1, FloatsAre
  <2> QED
    BY <1>1, <2>2 DEF GridFloat
<1> QED
  BY <1>1, <1>2, <1>3, <1>4, <1>6, <1>7, <1>8

(* With 2^32 samples or more the grid finds that it would write outside.   *)
LEMMA GridPanics ==
  ASSUME NEW queries, NEW d, QueriesOK(queries, d), NEW recycled, NEW p, EncodedOf(p, queries, recycled),
         CutSize(queries) >= Word
  PROVE  GridRun(p, d).error = Panic
<1> DEFINE n == Len(queries)
           t == Starts(queries)
           z == Sizes(queries)
<1>1. /\ Totalled(t, n, z) /\ CutSize(queries) = t[n + 1]
      /\ \A j \in 1..n : z[j] = SizeAt(queries, j)
  BY OffsetsAre
<1>2. /\ p.count = n /\ n \in Nat
      /\ \A j \in 1..n : GridSize(p, d, j) = SizeAt(queries, j) /\ SizeAt(queries, j) \in Nat
      /\ \A j \in 1..n : GridStart(p, j) = t[j] % Word
      /\ Total(p) = t[n + 1] % Word
  BY <1>1, GridReads
<1> HIDE DEF n, t, z
<1>3. (\A k \in 1..(n + 1) : t[k] \in Nat) /\ t[1] = 0 /\ Word \in Nat \ {0} /\ n + 1 \in 1..(n + 1) /\ 1 \in 1..(n + 1)
  BY <1>1, <1>2, WordAssumption DEF Totalled
<1> DEFINE B == {k \in 1..(n + 1) : t[k] >= Word}
<1>4. B \in SUBSET Nat /\ B # {}
  BY <1>1, <1>3
<1>5. PICK m \in B : \A x \in B : m <= x
  BY <1>4, MinOf
<1>6. m # 1 /\ m \in 1..(n + 1)
  BY <1>3, <1>5
<1> DEFINE j == m - 1
<1>7. j \in 1..n /\ j + 1 = m /\ j \in 1..(n + 1) /\ t[j + 1] >= Word
  BY <1>2, <1>5, <1>6
<1>8. t[j] < Word /\ t[j] \in Nat
  <2>1. j \notin B
    BY <1>5, <1>7
  <2> QED
    BY <1>3, <1>7, <2>1
<1> HIDE DEF j, B
<1>9. GridStart(p, j) = t[j]
  BY <1>2, <1>3, <1>7, <1>8, ModTwice
<1>10. t[j + 1] = t[j] + SizeAt(queries, j) /\ SizeAt(queries, j) \in Nat
  BY <1>1, <1>2, <1>7 DEF Totalled
<1>11. Total(p) \in Nat /\ Total(p) < Word
  <2>1. t[n + 1] \in Nat
    BY <1>3
  <2>2. (t[n + 1] % Word) \in Nat /\ (t[n + 1] % Word) < Word
    BY <1>3, <2>1, ModTwice
  <2> QED
    BY <1>2, <2>2
<1>12. GridSize(p, d, j) > 0 /\ GridStart(p, j) + GridSize(p, d, j) > Total(p)
  <2>1. GridSize(p, d, j) = SizeAt(queries, j)
    BY <1>2, <1>7
  <2> QED
    BY <1>3, <1>7, <1>8, <1>9, <1>10, <1>11, <2>1
<1>13. GridRun(p, d) = [packet |-> EnsuredAll(p, Coords(d)), error |-> Panic]
  BY <1>2, <1>7, <1>12, GridRunIs
<1> QED
  BY <1>13

(* The coordinates of all cells, in a row.                                 *)
CellData(queries, d) == [a \in 1..d |-> [i \in 1..CutSize(queries) |-> CellAt(queries, i)[a]]]

(* The steps from the origin of a query to its k-th cell, along axis a.    *)
StepsTo(q, k, a) ==
  CASE a = 1 -> (k - 1) % Sides(q)[1]
    [] a = 2 -> ((k - 1) \div Sides(q)[1]) % Sides(q)[2]
    [] a = 3 -> (k - 1) \div (Sides(q)[1] * Sides(q)[2])

LEMMA CellIs ==
  ASSUME NEW queries, NEW d, QueriesOK(queries, d), NEW j \in 1..Len(queries), NEW k \in 1..SizeAt(queries, j), NEW a \in 1..d
  PROVE  CutCells(queries[j])[k][a] = <<"at", queries[j].origin[a], queries[j].step[a], StepsTo(queries[j], k, a)>>
<1> DEFINE w == Sides(queries[j])[1]
           h == Sides(queries[j])[2]
           q == queries[j]
           Step(i) == <<i % w, (i \div w) % h, i \div (w * h)>>
<1>1. q.dimension = d /\ d \in {2, 3}
  BY DEF QueriesOK
<1>2. CutCells(q) = [i \in 1..SizeAt(queries, j) |-> [b \in 1..d |-> <<"at", q.origin[b], q.step[b], Step(i - 1)[b]>>]]
  BY <1>1 DEF CutCells, SizeAt
<1>3. CutCells(q)[k][a] = <<"at", q.origin[a], q.step[a], Step(k - 1)[a]>>
  <2> DEFINE Coordinate(i, b) == <<"at", q.origin[b], q.step[b], Step(i - 1)[b]>>
  <2>1. CutCells(q) = [i \in 1..SizeAt(queries, j) |-> [b \in 1..d |-> Coordinate(i, b)]]
    BY <1>2
  <2> HIDE DEF Coordinate, q, Step
  <2>2. CutCells(q)[k] = [b \in 1..d |-> Coordinate(k, b)]
    BY <2>1
  <2>3. CutCells(q)[k][a] = Coordinate(k, a)
    BY <2>2
  <2> QED
    BY <2>3 DEF Coordinate
<1>4. a \in {1, 2, 3}
  BY <1>1
<1>5. Step(k - 1)[a] = CASE a = 1 -> (k - 1) % w
                         [] a = 2 -> ((k - 1) \div w) % h
                         [] a = 3 -> (k - 1) \div (w * h)
  <2> DEFINE x == (k - 1) % w
             y == ((k - 1) \div w) % h
             u == (k - 1) \div (w * h)
  <2>1. Step(k - 1) = <<x, y, u>>
    OBVIOUS
  <2> HIDE DEF x, y, u, Step
  <2>2. <<x, y, u>>[a] = CASE a = 1 -> x [] a = 2 -> y [] a = 3 -> u
    BY <1>4
  <2> QED
    BY <2>1, <2>2 DEF x, y, u
<1>6. Step(k - 1)[a] = StepsTo(q, k, a)
  BY <1>5 DEF StepsTo
<1> HIDE DEF Step
<1> QED
  BY <1>3, <1>6

(* With less than that, each cell is written for the query that owns it.   *)
LEMMA GridDataIs ==
  ASSUME NEW queries, NEW d, QueriesOK(queries, d), NEW recycled, NEW p, EncodedOf(p, queries, recycled),
         CutSize(queries) < Word
  PROVE  /\ GridData(p, d) = CellData(queries, d)
         /\ \A j \in 1..p.count : ~(GridSize(p, d, j) > 0 /\ GridStart(p, j) + GridSize(p, d, j) > Total(p))
<1> DEFINE n == Len(queries)
           t == Starts(queries)
           z == Sizes(queries)
           size == CutSize(queries)
<1>1. Totalled(t, n, z) /\ size = t[n + 1] /\ \A j \in 1..n : z[j] = SizeAt(queries, j)
  BY OffsetsAre
<1>2. /\ p.count = n /\ n \in Nat
      /\ \A j \in 1..n : GridSize(p, d, j) = SizeAt(queries, j) /\ SizeAt(queries, j) \in Nat
      /\ \A j \in 1..n : GridStart(p, j) = t[j] % Word
      /\ Total(p) = size % Word
  BY GridReads
<1>3. \A j \in 1..n : \A a \in 1..d : /\ GridSide(p, j, a) = Sides(queries[j])[a]
                                      /\ GridFloat(p, 6 * (j - 1) + a) = queries[j].origin[a]
                                      /\ GridFloat(p, 6 * (j - 1) + 3 + a) = queries[j].step[a]
  BY GridReads
<1>4. d \in {2, 3} /\ Word \in Nat \ {0} /\ size < Word
  BY WordAssumption DEF QueriesOK
<1> HIDE DEF n, t, z, size
<1>5. (\A k \in 1..(n + 1) : t[k] \in Nat) /\ t[1] = 0 /\ n + 1 \in 1..(n + 1) /\ 1 \in 1..(n + 1)
  BY <1>1, <1>2 DEF Totalled
<1>6. size \in Nat /\ \A j \in 1..(n + 1) : t[j] <= size
  BY <1>1, <1>2, <1>5, TotalsGrow
<1>7. Total(p) = size
  BY <1>2, <1>4, <1>6, ModTwice
<1>8. ASSUME NEW j \in 1..n
      PROVE  GridStart(p, j) = t[j] /\ t[j] + GridSize(p, d, j) = t[j + 1] /\ t[j + 1] <= size
             /\ t[j] \in Nat /\ t[j + 1] \in Nat
  <2>1. j \in 1..(n + 1) /\ j + 1 \in 1..(n + 1)
    BY <1>2
  <2>2. t[j] \in Nat /\ t[j] < Word
    <3>1. t[j] \in Nat /\ t[j] <= size
      BY <1>5, <1>6, <2>1
    <3> QED
      BY <1>4, <1>6, <3>1
  <2>3. GridStart(p, j) = t[j]
    BY <1>2, <1>4, <2>2, ModTwice
  <2> QED
    BY <1>1, <1>2, <1>5, <1>6, <2>1, <2>2, <2>3 DEF Totalled
<1>9. ASSUME NEW i \in 1..size, NEW a \in 1..d
      PROVE  GridWriters(p, d, i) # {} /\ GridCoordinate(p, d, i, a) = CellAt(queries, i)[a]
  <2> DEFINE j == OwnerOf(t, n, i)
  <2>1. j \in 1..n /\ \A k \in 1..n : t[k] < i /\ i <= t[k + 1] <=> k = j
    <3>1. i \in 1..t[n + 1] /\ \A k \in 1..n : z[k] \in Nat
      BY <1>1, <1>2
    <3> QED
      BY <1>1, <1>2, <3>1, OwnerIs
  <2> HIDE DEF j
  <2>2. GridWriters(p, d, i) = {j}
    <3>1. GridWriters(p, d, i) = {k \in 1..n : GridStart(p, k) < i /\ i <= GridStart(p, k) + GridSize(p, d, k)}
      BY <1>2 DEF GridWriters
    <3>2. \A k \in 1..n : GridStart(p, k) < i /\ i <= GridStart(p, k) + GridSize(p, d, k) <=> k = j
      BY <1>8, <2>1
    <3> QED
      BY <2>1, <3>1, <3>2
  <2>3. Max(GridWriters(p, d, i)) = j
    <3>1. {j} \in SUBSET (1..n) /\ {j} # {}
      BY <2>1
    <3>2. Max({j}) \in {j}
      BY <1>2, <3>1, MaxOf
    <3> QED
      BY <2>2, <3>2
  <2> DEFINE k == i - t[j]
  <2>4. k \in 1..SizeAt(queries, j) /\ i - 1 - t[j] = k - 1
    <3>1. t[j] < i /\ i <= t[j + 1]
      BY <2>1
    <3>2. t[j] + SizeAt(queries, j) = t[j + 1] /\ t[j] \in Nat /\ SizeAt(queries, j) \in Nat
      BY <1>2, <1>8, <2>1
    <3> QED
      BY <1>6, <3>1, <3>2
  <2> HIDE DEF k
  <2>5. CellAt(queries, i) = CutCells(queries[j])[k]
    BY DEF CellAt, t, n, j, k
  <2> DEFINE place == StepsTo(queries[j], k, a)
  <2>6. CutCells(queries[j])[k][a] = <<"at", queries[j].origin[a], queries[j].step[a], place>>
    <3>1. j \in 1..Len(queries) /\ k \in 1..SizeAt(queries, j)
      BY <2>1, <2>4 DEF n
    <3> QED
      BY <3>1, CellIs
  <2>7. GridPlace(p, j, k - 1, a) = place
    <3>1. GridSide(p, j, 1) = Sides(queries[j])[1] /\ GridSide(p, j, 2) = Sides(queries[j])[2]
      <4>1. 1 \in 1..d /\ 2 \in 1..d
        BY <1>4
      <4> QED
        BY <1>3, <2>1, <4>1
    <3> QED
      BY <3>1 DEF GridPlace, StepsTo
  <2> HIDE DEF place
  <2>8. GridCoordinate(p, d, i, a) =
          <<"at", GridFloat(p, 6 * (j - 1) + a), GridFloat(p, 6 * (j - 1) + 3 + a),
            GridPlace(p, j, i - 1 - GridStart(p, j), a)>>
    BY <2>3 DEF GridCoordinate
  <2>9. GridPlace(p, j, i - 1 - GridStart(p, j), a) = place
    BY <1>8, <2>1, <2>4, <2>7
  <2>10. GridFloat(p, 6 * (j - 1) + a) = queries[j].origin[a] /\ GridFloat(p, 6 * (j - 1) + 3 + a) = queries[j].step[a]
    BY <1>3, <2>1
  <2> QED
    BY <2>2, <2>5, <2>6, <2>8, <2>9, <2>10
<1>10. GridData(p, d) = [a \in 1..d |-> [i \in 1..size |-> CellAt(queries, i)[a]]]
  <2> DEFINE Written1(a, i) == IF GridWriters(p, d, i) = {} THEN EnsuredAll(p, Coords(d)).buffers[BaseSlots[a]].data[i]
                               ELSE GridCoordinate(p, d, i, a)
  <2>1. GridData(p, d) = [a \in 1..d |-> [i \in 1..size |-> Written1(a, i)]]
    BY <1>7 DEF GridData
  <2>2. \A a \in 1..d : \A i \in 1..size : Written1(a, i) = CellAt(queries, i)[a]
    BY <1>9
  <2> HIDE DEF Written1
  <2> QED
    BY <2>1, <2>2
<1>11. ASSUME NEW j \in 1..p.count
       PROVE  ~(GridStart(p, j) + GridSize(p, d, j) > Total(p))
  <2>1. j \in 1..n
    BY <1>2
  <2>2. GridStart(p, j) = t[j] /\ t[j] + GridSize(p, d, j) = t[j + 1] /\ t[j + 1] <= size /\ t[j + 1] \in Nat
    BY <1>8, <2>1
  <2> QED
    BY <1>6, <1>7, <2>2
<1> QED
  BY <1>10, <1>11 DEF CellData, size

LEMMA GridIs ==
  ASSUME NEW queries, NEW d, QueriesOK(queries, d), NEW recycled, NEW p, EncodedOf(p, queries, recycled),
         CutSize(queries) < Word
  PROVE  /\ GridRun(p, d).error = "none"
         /\ OutputOf(GridRun(p, d).packet, p, Coords(d), CellData(queries, d))
<1> DEFINE slots == Coords(d)
           data == CellData(queries, d)
<1>1. GridData(p, d) = data
      /\ ~\E j \in 1..p.count : GridSize(p, d, j) > 0 /\ GridStart(p, j) + GridSize(p, d, j) > Total(p)
  BY GridDataIs
<1>2. d \in {2, 3} /\ Regular(p)
  BY DEF QueriesOK, EncodedOf
<1>3. (\A a, b \in DOMAIN slots : slots[a] = slots[b] => a = b) /\ ToSet(slots) = {slots[a] : a \in DOMAIN slots}
  <2>1. DOMAIN slots = 1..d /\ (\A a \in 1..d : slots[a] = 9 + a) /\ ToSet(slots) = {slots[a] : a \in DOMAIN slots}
    BY <1>2, CoordsAre
  <2> HIDE DEF slots
  <2> QED
    BY <1>2, <2>1
<1> HIDE DEF data
<1>4. GridRun(p, d) = [error |-> "none", packet |-> WrittenAll(EnsuredAll(p, slots), slots, data)]
  BY <1>1, GridRunIs
<1> HIDE DEF slots
<1>5. OutputOf(WrittenAll(EnsuredAll(p, slots), slots, data), p, slots, data)
  BY <1>2, <1>3, OutputIs
<1>6. GridRun(p, d).error = "none" /\ GridRun(p, d).packet = WrittenAll(EnsuredAll(p, slots), slots, data)
  BY <1>4
<1> QED
  BY <1>5, <1>6 DEF slots, data
-----------------------------------------------------------------------------
(* ---- plans that compile ----------------------------------------------- *)

(* What there is to know of a graph that compiled: the order of its nodes, *)
(* and slots of their own, from DynamicStart on, for what each computes.   *)
Planned(g, order, slots) ==
  /\ Placed(g, order, slots)
  /\ slots \in [1..Size(g) -> Seq(0..(SlotSpace - 1))]
  /\ \A h \in Members(order, Len(order)) : Len(slots[h]) = Width(g, h)
  /\ \A h \in 1..Size(g) : \A i \in 1..Len(slots[h]) : slots[h][i] \in Nat /\ slots[h][i] >= 32
  /\ Apart(slots)
  /\ \A h \in Members(order, Len(order)) : WellKinded(g, g.nodes[h])
  /\ Resolve(g, g.final) \in Members(order, Len(order))
  /\ NodeOf(g, g.final) = g.nodes[Resolve(g, g.final)] /\ NodeOf(g, g.final).kind \notin Warps

CompiledTo(made, g, order, slots) ==
  /\ Planned(g, order, slots)
  /\ made = PlanOf(g, order, slots, slots[Resolve(g, g.final)])
  /\ ValidPlan(made)

LEMMA PlannedIs ==
  ASSUME NEW g, GraphOK(g), debug \in BOOLEAN, Compiled(g, debug).error = "none"
  PROVE  \E order, slots : CompiledTo(Compiled(g, debug), g, order, slots)
<1> DEFINE order == Sorted(g)
           a == Allocated(g, order)
           slots == a.slots
           f == Resolve(g, g.final)
           final == ScalarSlot(g, slots, f)
           made == PlanOf(g, order, slots, final)
           Mixed == \E h \in ToSet(order) : <<>> \in ToSet(SourceSlots(g, slots, h))
           bad == Missing(g) \/ (debug /\ a.overflow) \/ Mixed \/ final = <<>>
<1>1. Compiled(g, debug) = IF bad THEN [error |-> Panic]
                           ELSE IF ValidPlan(made) THEN made ELSE [error |-> "refused"]
  BY Zenon DEF Compiled, PlanOf, SpecsOf, Pieces, GridOf
<1>2. ~Missing(g) /\ ~Mixed /\ final # <<>> /\ ValidPlan(made) /\ Compiled(g, debug) = made
  <2>1. [error |-> Panic].error # "none" /\ [error |-> "refused"].error # "none"
    BY DEF Panic
  <2> HIDE DEF made
  <2>2. ~bad /\ ValidPlan(made)
    <3> HIDE DEF bad
    <3> QED
      BY <1>1, <2>1
  <2>3. Compiled(g, debug) = made
    <3> HIDE DEF bad
    <3> QED
      BY <1>1, <2>2
  <2> HIDE DEF Mixed, final
  <2> QED
    BY <2>2, <2>3
<1>3. Whole(g) /\ GoodOrder(g, order)
  <2>1. Whole(g)
    BY <1>2, MissingIs DEF Whole
  <2> QED
    BY <2>1, WholeIsLinked, SortedIs
<1> HIDE DEF order, made
<1>4. order \in Seq(1..Size(g)) /\ Distinct(order) /\ Size(g) \in Nat
  BY <1>3, NodesTyped DEF GoodOrder
<1>5. AllocOf(g, order, a, Len(order))
  BY <1>4, AllocatedIs
<1> HIDE DEF a
<1>6. Placed(g, order, slots)
  <2>1. ASSUME NEW h \in 1..Size(g)
        PROVE  slots[h] = <<>> <=> h \notin Members(order, Len(order))
    <3>1. IF h \in Members(order, Len(order)) THEN Len(slots[h]) = Width(g, h) ELSE slots[h] = <<>>
      BY <1>5 DEF AllocOf
    <3>2. Width(g, h) \in {1, 2, 3}
      BY NodesTyped, WidthIs DEF Width
    <3>3. ASSUME slots[h] = <<>>
          PROVE  Len(slots[h]) = 0
      BY <3>3
    <3> QED
      BY <3>1, <3>2, <3>3
  <2> QED
    BY <1>3, <2>1 DEF Placed
<1>7. Room(g, order, Len(order)) <= SlotSpace /\ Room(g, order, Len(order)) \in Nat /\ SlotSpace \in Nat
  <2>1. Declares(g, order, slots)
    BY <1>4, <1>5, DeclaresIs
  <2>2. ValidPlan(made) <=> Room(g, order, Len(order)) <= SlotSpace
    BY <1>4, <2>1, ValidIs DEF made
  <2>3. Len(order) \in 0..Len(order)
    BY <1>4, LenProperties
  <2>4. Counted(g, order, Len(order))
    BY <1>4, <2>3, RoomIs
  <2> QED
    BY <1>2, <2>2, <2>4, SlotSpaceAssumption DEF Counted
<1>8. /\ slots \in [1..Size(g) -> Seq(0..(SlotSpace - 1))] /\ Apart(slots)
      /\ \A h \in 1..Size(g) : \A i \in 1..Len(slots[h]) : slots[h][i] \in 32..(Room(g, order, Len(order)) - 1)
  BY <1>5, <1>7 DEF AllocOf, AllocStates, DynamicStart
<1>9. \A h \in Members(order, Len(order)) : h \in 1..Size(g) /\ Len(slots[h]) = Width(g, h)
  <2>1. \A h \in Members(order, Len(order)) : h \in 1..Size(g)
    BY <1>6, InOrder
  <2> QED
    BY <1>5, <2>1 DEF AllocOf
<1>10. \A h \in 1..Size(g) : \A i \in 1..Len(slots[h]) : slots[h][i] \in Nat /\ slots[h][i] >= 32
  <2> TAKE h \in 1..Size(g)
  <2> TAKE i \in 1..Len(slots[h])
  <2>1. slots[h][i] \in 32..(Room(g, order, Len(order)) - 1)
    BY <1>8
  <2> QED
    BY <1>7, <2>1
<1>11. \A h \in Members(order, Len(order)) : WellKinded(g, g.nodes[h])
  <2>1. ToSet(order) = Members(order, Len(order))
    BY <1>4, LenProperties DEF ToSet, Members
  <2> TAKE h \in Members(order, Len(order))
  <2>2. <<>> \in ToSet(SourceSlots(g, slots, h)) <=> ~WellKinded(g, g.nodes[h])
    BY <1>6, SourcesAre
  <2> QED
    BY <1>2, <2>1, <2>2
<1>12. final = slots[f] /\ NodeOf(g, g.final) = g.nodes[f] /\ f \in Members(order, Len(order)) /\ NodeOf(g, g.final).kind \notin Warps
  <2>1. GraphOK(g) /\ g.final \in KnownIds(g)
    BY <1>3 DEF Whole, Refers
  <2>2. f \in 1..Size(g) /\ NodeOf(g, g.final) = g.nodes[f]
    BY <2>1, KnownIsNamed DEF Named
  <2>3. g.nodes[f].kind \notin Warps /\ final = slots[f]
    BY <1>2 DEF ScalarSlot
  <2>4. slots[f] # <<>>
    BY <1>2, <2>3
  <2> QED
    BY <1>6, <2>2, <2>3, <2>4 DEF Placed
<1>13. Planned(g, order, slots)
  BY <1>6, <1>8, <1>9, <1>10, <1>11, <1>12 DEF Planned
<1>14. Compiled(g, debug) = PlanOf(g, order, slots, slots[f])
  BY <1>2, <1>12 DEF made
<1>15. CompiledTo(Compiled(g, debug), g, order, slots)
  BY <1>2, <1>13, <1>14 DEF CompiledTo
<1> QED
  BY <1>15

(* A buffer of this kind, whatever its length, is what a plan wants in a   *)
(* slot, or it declares none.                                              *)
Takes(made, slot, kind) ==
  slot \in Declared(made) => SpecOf(made, slot).kind = kind /\ SpecOf(made, slot).layout = "dynamic"

Has(made, slot, kind) == slot \in Declared(made) /\ Takes(made, slot, kind)

LEMMA LayoutIs ==
  \A slot : F32Buffer(slot).layout = "dynamic" /\ U32Buffer(slot).layout = "dynamic"
BY DEF F32Buffer, U32Buffer

(* The buffers that the specs of a plan are.                               *)
LEMMA SpecsAre ==
  ASSUME NEW g, GraphOK(g), NEW order, NEW slots, Planned(g, order, slots), NEW specs, specs = SpecsOf(g, order, slots)
  PROVE  /\ specs \in Seq(BufferSpecs)
         /\ Asked \subseteq Members(specs, Len(specs))
         /\ \A a \in 1..g.dimension : F32Buffer(9 + a) \in Members(specs, Len(specs))
         /\ \A h \in Members(order, Len(order)) : \A i \in 1..Len(slots[h]) : F32Buffer(slots[h][i]) \in Members(specs, Len(specs))
<1> DEFINE X == BufferSpecs
           pieces == Pieces(order, slots)
           all == Concat(pieces)
           given == Given(g)
<1>1. PICK n \in Nat, l \in Nat : n = Size(g) /\ l = Len(order) /\ order \in Seq(1..n) /\ slots \in [1..n -> Seq(0..(SlotSpace - 1))]
  <2>1. Size(g) \in Nat /\ order \in Seq(1..Size(g)) /\ slots \in [1..Size(g) -> Seq(0..(SlotSpace - 1))]
    BY NodesTyped DEF Planned, Placed, GoodOrder
  <2>2. Len(order) \in Nat
    BY <2>1, LenProperties
  <2> QED
    BY <2>1, <2>2
<1>2. /\ pieces \in Seq(Seq(X)) /\ Len(pieces) = l
      /\ \A i \in 1..l : /\ Len(pieces[i]) = Len(slots[order[i]]) /\ Len(slots[order[i]]) \in Nat
                         /\ \A k \in 1..Len(slots[order[i]]) : pieces[i][k] = F32Buffer(slots[order[i]][k])
  BY <1>1, PiecesAre, ZenonT(30)
<1>3. given \in Seq(X) /\ Len(given) \in Nat /\ Len(given) >= 3
      /\ given[1] = U32Buffer(QueryMeta) /\ given[2] = F32Buffer(QueryF32) /\ given[3] = U32Buffer(QueryOffsets)
  BY GivenIs DEF GraphOK, GivenOf
<1>4. specs = given \o all
  BY Zenon DEF SpecsOf, Given
<1>5. ASSUME NEW a \in 1..g.dimension
      PROVE  F32Buffer(9 + a) \in Members(given, Len(given))
  <2> DEFINE s == <<U32Buffer(QueryMeta), F32Buffer(QueryF32), U32Buffer(QueryOffsets)>>
             t == [i \in 1..g.dimension |-> F32Buffer(BaseSlots[i])]
  <2>1. PICK d \in Nat : d = g.dimension /\ d \in {2, 3}
    BY DEF GraphOK
  <2>2. a \in {1, 2, 3} /\ t[a] = F32Buffer(9 + a)
    BY <2>1 DEF BaseSlots
  <2>3. s \in Seq(X) /\ Len(s) = 3
    BY DEF BufferSpecs, Asked
  <2>4. t \in Seq(X) /\ Len(t) = d
    <3>1. \A i \in {1, 2, 3} : BaseSlots[i] \in Nat
      BY DEF BaseSlots
    <3>2. \A i \in 1..d : i \in {1, 2, 3}
      BY <2>1
    <3>3. \A i \in 1..d : F32Buffer(BaseSlots[i]) \in X
      BY <3>1, <3>2 DEF BufferSpecs
    <3>4. t \in [1..d -> X]
      BY <2>1, <3>3
    <3> HIDE DEF t
    <3> QED
      BY <3>4, FunctionIsSeq
  <2>5. given = s \o t
    BY DEF Given
  <2> HIDE DEF s, t
  <2>6. Members(s \o t, Len(s \o t)) = Members(s, Len(s)) \cup Members(t, Len(t))
    <3>1. s \in Seq(BufferSpecs) /\ t \in Seq(BufferSpecs)
      BY <2>3, <2>4
    <3> QED
      BY <3>1, MembersConcat, ZenonT(40)
  <2>7. t[a] \in Members(t, Len(t))
    BY <2>1, <2>4 DEF Members
  <2> QED
    BY <2>2, <2>5, <2>6, <2>7
<1> HIDE DEF pieces
<1>6. all \in Seq(X) /\ Members(all, Len(all)) = Spread(pieces, l)
  BY <1>2, ConcatIs DEF ConcatOf
<1> HIDE DEF all, given, X
<1>7. specs \in Seq(X) /\ Members(specs, Len(specs)) = Members(given, Len(given)) \cup Members(all, Len(all))
  BY <1>3, <1>4, <1>6, MembersConcat, ConcatProperties
<1>8. Asked \subseteq Members(given, Len(given))
  <2>1. 1 \in 1..Len(given) /\ 2 \in 1..Len(given) /\ 3 \in 1..Len(given)
    BY <1>3
  <2> QED
    BY <1>3, <2>1 DEF Asked, Members
<1>9. ASSUME NEW h \in Members(order, Len(order)), NEW i \in 1..Len(slots[h])
      PROVE  F32Buffer(slots[h][i]) \in Members(all, Len(all))
  <2>1. PICK j \in 1..l : h = order[j]
    BY <1>1 DEF Members
  <2>2. pieces[j][i] = F32Buffer(slots[h][i]) /\ i \in 1..Len(pieces[j])
    BY <1>2, <2>1
  <2>3. pieces[j][i] \in Members(pieces[j], Len(pieces[j]))
    BY <2>2 DEF Members
  <2>4. F32Buffer(slots[h][i]) \in Spread(pieces, l)
    BY <2>1, <2>2, <2>3 DEF Spread
  <2> QED
    BY <1>6, <2>4
<1> QED
  BY <1>5, <1>7, <1>8, <1>9 DEF X

LEMMA PlanTakes ==
  ASSUME NEW g, GraphOK(g), NEW order, NEW slots, NEW made, CompiledTo(made, g, order, slots)
  PROVE  /\ Has(made, 0, "u32") /\ Has(made, 1, "f32") /\ Has(made, 2, "u32")
         /\ \A slot \in Nat : slot > 2 => Takes(made, slot, "f32")
         /\ \A a \in 1..g.dimension : 9 + a \in Declared(made)
         /\ \A h \in Members(order, Len(order)) : \A i \in 1..Len(slots[h]) : slots[h][i] \in Declared(made)
<1> DEFINE specs == made.specs
<1>1. Planned(g, order, slots) /\ specs = SpecsOf(g, order, slots) /\ ValidPlan(made)
  BY DEF CompiledTo, PlanOf
<1>2. /\ specs \in Seq(BufferSpecs)
      /\ Asked \subseteq Members(specs, Len(specs))
      /\ \A a \in 1..g.dimension : F32Buffer(9 + a) \in Members(specs, Len(specs))
      /\ \A h \in Members(order, Len(order)) : \A i \in 1..Len(slots[h]) : F32Buffer(slots[h][i]) \in Members(specs, Len(specs))
  BY <1>1, SpecsAre, Zenon
<1> HIDE DEF specs
<1>3. PICK l \in Nat : l = Len(specs) /\ DOMAIN specs = 1..l /\ \A i \in 1..l : specs[i] \in BufferSpecs
  <2>1. Len(specs) \in Nat /\ DOMAIN specs = 1..Len(specs) /\ specs \in [1..Len(specs) -> BufferSpecs]
    BY <1>2, LenProperties
  <2> QED
    BY <2>1, Zenon
<1>4. \A i, j \in 1..l : specs[i].slot = specs[j].slot => i = j
  <2>1. IsInjective([i \in 1..l |-> specs[i].slot])
    BY <1>1, <1>3 DEF ValidPlan, specs
  <2> QED
    BY <2>1 DEF IsInjective
<1>5. Declared(made) = {specs[i].slot : i \in 1..l}
  BY <1>3 DEF Declared, specs
<1>6. ASSUME NEW slot \in Declared(made)
      PROVE  \E i \in 1..l : specs[i].slot = slot /\ SpecOf(made, slot) = specs[i]
  <2> DEFINE S == {i \in 1..l : specs[i].slot = slot}
  <2>1. S # {} /\ S \in SUBSET Nat
    BY <1>5
  <2>2. SpecOf(made, slot) = specs[Min(S)]
    BY <1>3 DEF SpecOf, specs
  <2>3. Min(S) \in S
    BY <2>1, MinOf
  <2> QED
    BY <2>2, <2>3
<1>7. ASSUME NEW b \in Members(specs, l)
      PROVE  b.slot \in Declared(made) /\ SpecOf(made, b.slot) = b
  <2>1. PICK i \in 1..l : b = specs[i]
    BY DEF Members
  <2>2. b.slot \in Declared(made)
    BY <1>5, <2>1
  <2>3. PICK j \in 1..l : specs[j].slot = b.slot /\ SpecOf(made, b.slot) = specs[j]
    BY <1>6, <2>2
  <2> QED
    BY <1>4, <2>1, <2>2, <2>3
<1>8. Has(made, 0, "u32") /\ Has(made, 1, "f32") /\ Has(made, 2, "u32")
  <2>1. U32Buffer(0) \in Members(specs, l) /\ F32Buffer(1) \in Members(specs, l) /\ U32Buffer(2) \in Members(specs, l)
    BY <1>2, <1>3 DEF Asked, QueryMeta, QueryF32, QueryOffsets
  <2> QED
    BY <1>7, <2>1, BufferIs, LayoutIs DEF Has, Takes
<1>9. ASSUME NEW slot \in Nat, slot > 2
      PROVE  Takes(made, slot, "f32")
  <2> SUFFICES ASSUME slot \in Declared(made)
               PROVE  SpecOf(made, slot).kind = "f32" /\ SpecOf(made, slot).layout = "dynamic"
    BY DEF Takes
  <2>1. PICK i \in 1..l : specs[i].slot = slot /\ SpecOf(made, slot) = specs[i]
    BY <1>6
  <2>2. specs[i] \in BufferSpecs
    BY <1>3
  <2>3. \A b \in Asked : b.slot \in {0, 1, 2}
    BY BufferIs DEF Asked
  <2>4. specs[i] \notin Asked
    BY <1>9, <2>1, <2>3
  <2>5. PICK s \in Nat : specs[i] = F32Buffer(s)
    BY <2>2, <2>4 DEF BufferSpecs
  <2> QED
    BY <2>1, <2>5, BufferIs, LayoutIs
<1>10. ASSUME NEW a \in 1..g.dimension
       PROVE  9 + a \in Declared(made)
  <2>1. F32Buffer(9 + a) \in Members(specs, l)
    BY <1>2, <1>3
  <2>2. F32Buffer(9 + a).slot = 9 + a
    BY BufferIs
  <2> QED
    BY <1>7, <2>1, <2>2
<1>11. ASSUME NEW h \in Members(order, Len(order)), NEW i \in 1..Len(slots[h])
       PROVE  slots[h][i] \in Declared(made)
  <2>1. F32Buffer(slots[h][i]) \in Members(specs, l)
    BY <1>2, <1>3
  <2>2. F32Buffer(slots[h][i]).slot = slots[h][i]
    BY BufferIs
  <2> QED
    BY <1>7, <2>1, <2>2
<1> QED
  BY <1>8, <1>9, <1>10, <1>11
-----------------------------------------------------------------------------
(* ---- kernels ---------------------------------------------------------- *)

(* The inputs of a node: nodes that come before it, of the kind that it    *)
(* takes.                                                                  *)
Feeds(g, order, slots, h) ==
  LET node == g.nodes[h]
      deps == Dependencies(g, h)
      d == Degree(g, h)
  IN  /\ d \in Nat /\ d = Len(References(node)) /\ DOMAIN References(node) = 1..d
      /\ \A k \in 1..d : /\ deps[k] \in Members(order, Len(order)) /\ deps[k] \in 1..Size(g)
                         /\ NodeOf(g, References(node)[k]) = g.nodes[deps[k]]
                         /\ deps[k] = Resolve(g, References(node)[k])
                         /\ g.nodes[deps[k]].id = References(node)[k]
                         /\ slots[deps[k]] \in Seq(Nat)
      /\ node.kind = "combine" =>
           /\ References(node) = node.inputs
           /\ \A k \in 1..d : g.nodes[deps[k]].kind \notin Warps /\ Len(slots[deps[k]]) = 1
      /\ node.kind # "combine" /\ node.source = Base => d = 0
      /\ node.kind # "combine" /\ node.source # Base =>
           /\ d = 1 /\ References(node)[1] = node.source
           /\ g.nodes[deps[1]].kind \in Warps /\ Arity(g.nodes[deps[1]].kind) = Arity(node.kind)
           /\ Len(slots[deps[1]]) = Arity(node.kind)

LEMMA SlotsTyped ==
  ASSUME NEW g, NEW order, NEW slots, Planned(g, order, slots), NEW h \in 1..Size(g)
  PROVE  slots[h] \in Seq(Nat) /\ Len(slots[h]) \in Nat /\ DOMAIN slots[h] = 1..Len(slots[h])
<1>1. slots[h] \in Seq(0..(SlotSpace - 1))
  BY DEF Planned
<1>2. 0..(SlotSpace - 1) \subseteq Nat
  BY SlotSpaceAssumption
<1>3. slots[h] \in Seq(Nat)
  BY <1>1, <1>2, SeqMonotonic
<1> QED
  BY <1>3, LenProperties

LEMMA FeedsIs ==
  ASSUME NEW g, NEW order, NEW slots, Planned(g, order, slots), NEW h \in Members(order, Len(order))
  PROVE  h \in 1..Size(g) /\ g.nodes[h] \in Nodes /\ Feeds(g, order, slots, h)
<1> DEFINE node == g.nodes[h]
           refs == References(node)
           deps == Dependencies(g, h)
<1>1. Placed(g, order, slots) /\ WellKinded(g, node)
  BY DEF Planned
<1>2. h \in 1..Size(g) /\ node \in Nodes /\ Whole(g) /\ GraphOK(g)
  BY <1>1, InOrder DEF Placed, Whole
<1>3. PICK d \in Nat : d = Degree(g, h) /\ d = Len(refs) /\ DOMAIN refs = 1..d /\ ToSet(refs) = {refs[k] : k \in 1..d}
  BY <1>2, WholeIsLinked, ReferencesAre
<1>4. ASSUME NEW k \in 1..d
      PROVE  /\ deps[k] \in Members(order, Len(order)) /\ deps[k] \in 1..Size(g)
             /\ NodeOf(g, refs[k]) = g.nodes[deps[k]] /\ g.nodes[deps[k]].id = refs[k]
             /\ deps[k] = Resolve(g, refs[k])
             /\ slots[deps[k]] \in Seq(Nat)
             /\ Len(slots[deps[k]]) = OutputWidth(g.nodes[deps[k]])
  <2>1. deps[k] = Resolve(g, refs[k]) /\ refs[k] \in KnownIds(g)
    BY <1>2, <1>3, WholeIsLinked
  <2>2. NodeOf(g, refs[k]) = g.nodes[deps[k]] /\ deps[k] \in 1..Size(g) /\ g.nodes[deps[k]].id = refs[k]
    BY <1>2, <2>1, KnownIsNamed DEF Named
  <2>3. deps[k] \in Members(order, Len(order))
    BY <1>1, <1>3, InOrder
  <2>4. Len(slots[deps[k]]) = OutputWidth(g.nodes[deps[k]])
    BY <2>3 DEF Planned, Width
  <2>5. slots[deps[k]] \in Seq(Nat)
    BY <2>2, SlotsTyped
  <2> QED
    BY <2>1, <2>2, <2>3, <2>4, <2>5
<1>5. ASSUME node.kind = "combine"
      PROVE  refs = node.inputs /\ \A k \in 1..d : g.nodes[deps[k]].kind \notin Warps /\ Len(slots[deps[k]]) = 1
  <2>1. refs = node.inputs
    BY <1>5 DEF References
  <2>2. \A id \in ToSet(refs) : NodeOf(g, id).kind \notin Warps
    BY <1>1, <1>5 DEF WellKinded
  <2> HIDE DEF refs, deps
  <2>3. \A k \in 1..d : g.nodes[deps[k]].kind \notin Warps
    BY <1>3, <1>4, <2>2
  <2>4. \A k \in 1..d : Len(slots[deps[k]]) = 1
    BY <1>4, <2>3 DEF OutputWidth
  <2> QED
    BY <2>1, <2>3, <2>4
<1>6. ASSUME node.kind # "combine", node.source = Base
      PROVE  d = 0
  <2>1. refs = <<>>
    BY <1>6 DEF References
  <2> QED
    BY <1>3, <2>1, EmptySeq
<1>7. ASSUME node.kind # "combine", node.source # Base
      PROVE  /\ d = 1 /\ refs[1] = node.source
             /\ g.nodes[deps[1]].kind \in Warps /\ Arity(g.nodes[deps[1]].kind) = Arity(node.kind)
             /\ Len(slots[deps[1]]) = Arity(node.kind)
  <2>1. refs = <<node.source>>
    BY <1>7 DEF References
  <2>2. d = 1 /\ refs[1] = node.source
    BY <1>3, <2>1
  <2>3. 1 \in 1..d /\ refs[1] \in ToSet(refs)
    BY <1>3, <2>2
  <2>4. NodeOf(g, refs[1]).kind \in Warps /\ Arity(NodeOf(g, refs[1]).kind) = Arity(node.kind)
    BY <1>1, <1>7, <2>3 DEF WellKinded
  <2>5. g.nodes[deps[1]].kind \in Warps /\ Arity(g.nodes[deps[1]].kind) = Arity(node.kind)
    BY <1>4, <2>3, <2>4
  <2>6. Len(slots[deps[1]]) = OutputWidth(g.nodes[deps[1]])
    BY <1>4, <2>3
  <2> QED
    BY <2>2, <2>5, <2>6 DEF OutputWidth
<1>8. Feeds(g, order, slots, h)
  BY <1>3, <1>4, <1>5, <1>6, <1>7 DEF Feeds
<1> QED
  BY <1>2, <1>8

(* The kernel of a node, as it is prepared.                                *)
SourceOf(g, slots, h) ==
  LET node == g.nodes[h]
      deps == Dependencies(g, h)
  IN  IF node.kind = "combine" THEN [i \in 1..Degree(g, h) |-> slots[deps[i]][1]]
      ELSE IF node.source = Base THEN Coords(Arity(node.kind)) ELSE slots[deps[1]]

KernelFor(g, slots, h) ==
  LET node == g.nodes[h]
  IN  IF node.kind = "combine"
      THEN [kind |-> node.kind, op |-> node.op, source |-> SourceOf(g, slots, h), output |-> slots[h], params |-> node.params]
      ELSE [kind |-> node.kind, source |-> SourceOf(g, slots, h), output |-> slots[h], noise |-> node.noise]

LEMMA SourceIs ==
  ASSUME NEW g, NEW order, NEW slots, Planned(g, order, slots), NEW h \in Members(order, Len(order))
  PROVE  Concat(SourceSlots(g, slots, h)) = SourceOf(g, slots, h) /\ SourceOf(g, slots, h) \in Seq(Nat)
         /\ Len(SourceOf(g, slots, h)) = IF g.nodes[h].kind = "combine" THEN Degree(g, h) ELSE Arity(g.nodes[h].kind)
<1> DEFINE node == g.nodes[h]
           refs == References(node)
           deps == Dependencies(g, h)
           d == Degree(g, h)
<1>1. node \in Nodes /\ Feeds(g, order, slots, h)
  BY FeedsIs
<1>2. d \in Nat /\ DOMAIN refs = 1..d
  BY <1>1 DEF Feeds
<1>3. CASE node.kind = "combine"
  <2> DEFINE x == [i \in 1..d |-> slots[deps[i]][1]]
  <2>1. refs = node.inputs /\ \A k \in 1..d : /\ g.nodes[deps[k]].kind \notin Warps /\ Len(slots[deps[k]]) = 1
                                              /\ deps[k] = Resolve(g, refs[k]) /\ slots[deps[k]] \in Seq(Nat)
    BY <1>1, <1>3 DEF Feeds
  <2>2. SourceSlots(g, slots, h) = [i \in 1..d |-> ScalarSlot(g, slots, Resolve(g, refs[i]))]
    BY <1>2, <1>3, <2>1 DEF SourceSlots
  <2> HIDE DEF d, deps, refs
  <2>3. \A i \in 1..d : slots[deps[i]] = <<slots[deps[i]][1]>> /\ slots[deps[i]][1] \in Nat
    <3> TAKE i \in 1..d
    <3>1. slots[deps[i]] \in Seq(Nat) /\ Len(slots[deps[i]]) = 1
      BY <2>1
    <3> QED
      BY <3>1
  <2>4. SourceSlots(g, slots, h) = [i \in 1..d |-> <<x[i]>>]
    <3>1. \A i \in 1..d : ScalarSlot(g, slots, Resolve(g, refs[i])) = <<x[i]>>
      BY <2>1, <2>3 DEF ScalarSlot
    <3> QED
      BY <2>2, <3>1
  <2>5. \A i \in 1..d : x[i] \in Nat
    BY <2>3
  <2>6. x = [i \in 1..d |-> x[i]] /\ x \in [1..d -> Nat]
    BY <2>5
  <2>7. SourceOf(g, slots, h) = x
    BY <1>3 DEF SourceOf, d, deps
  <2> HIDE DEF x
  <2>8. Concat(Singles(x, d)) = x
    BY <1>2, <2>6, SinglesAre, Zenon
  <2>9. x \in Seq(Nat) /\ Len(x) = d
    BY <1>2, <2>6, FunctionIsSeq
  <2> QED
    BY <1>3, <2>4, <2>7, <2>8, <2>9 DEF d, Singles
<1>4. CASE node.kind # "combine" /\ node.source = Base
  <2> DEFINE s == Coords(Arity(node.kind))
  <2>1. SourceSlots(g, slots, h) = <<s>> /\ SourceOf(g, slots, h) = s
    BY <1>4 DEF SourceSlots, SourceOf
  <2>2. Arity(node.kind) \in {2, 3}
    BY DEF Arity
  <2>3. s \in Seq(Nat) /\ Len(s) = Arity(node.kind)
    BY <2>2, CoordsAre
  <2> HIDE DEF s
  <2> QED
    BY <1>4, <2>1, <2>3, OneAlone
<1>5. CASE node.kind # "combine" /\ node.source # Base
  <2> DEFINE s == slots[deps[1]]
  <2>1. /\ d = 1 /\ refs[1] = node.source /\ g.nodes[deps[1]].kind \in Warps /\ Arity(g.nodes[deps[1]].kind) = Arity(node.kind)
        /\ Len(s) = Arity(node.kind)
    BY <1>1, <1>5 DEF Feeds
  <2>2. s \in Seq(Nat) /\ deps[1] = Resolve(g, refs[1])
    <3>1. 1 \in 1..d
      BY <2>1
    <3> QED
      BY <1>1, <3>1 DEF Feeds
  <2>3. SourceSlots(g, slots, h) = <<s>> /\ SourceOf(g, slots, h) = s
    BY <1>5, <2>1, <2>2 DEF SourceSlots, SourceOf, PositionSlots
  <2> HIDE DEF s
  <2> QED
    BY <1>5, <2>1, <2>2, <2>3, OneAlone
<1> QED
  BY <1>3, <1>4, <1>5

LEMMA KernelIs ==
  ASSUME NEW g, NEW order, NEW slots, Planned(g, order, slots), NEW h \in Members(order, Len(order)), NEW p
  PROVE  StageRun(p, KernelOf(g, slots, h)) = KernelRun(p, KernelFor(g, slots, h))
<1> DEFINE node == g.nodes[h]
           source == SourceOf(g, slots, h)
           k == IF node.kind = "combine"
                THEN [kind |-> node.kind, source |-> source, output |-> slots[h], op |-> node.op, params |-> node.params]
                ELSE [kind |-> node.kind, source |-> source, output |-> slots[h], noise |-> node.noise]
<1>1. h \in 1..Size(g) /\ node \in Nodes
  BY FeedsIs
<1>2. Concat(SourceSlots(g, slots, h)) = source /\ source \in Seq(Nat)
      /\ Len(source) = IF node.kind = "combine" THEN Degree(g, h) ELSE Arity(node.kind)
  BY SourceIs
<1>3. slots[h] \in Seq(Nat) /\ Len(slots[h]) = OutputWidth(node)
  BY <1>1, SlotsTyped DEF Planned, Width
<1>4. KernelOf(g, slots, h) = [kind |-> node.kind, slots |-> <<>>, payload |-> Payload(k)]
  BY <1>2 DEF KernelOf
<1> HIDE DEF source
<1>5. \/ node.kind = "combine" /\ node.op \in ToSet(Variants["op"]) /\ node.params \in Seq(Int)
      \/ node.kind \in Warps \cup Samples /\ NoiseOK(node.noise)
  BY <1>1, NodesAssumption
<1>6. KernelOK(k)
  <2>1. CASE node.kind = "combine"
    <3>1. node.op \in ToSet(Variants["op"]) /\ node.params \in Seq(Int)
      BY <1>5, <2>1 DEF Warps, Samples
    <3>2. k = [kind |-> node.kind, source |-> source, output |-> slots[h], op |-> node.op, params |-> node.params]
      BY <2>1
    <3>3. Len(slots[h]) = 1
      BY <1>3, <2>1 DEF OutputWidth, Warps
    <3> HIDE DEF k
    <3> QED
      BY <1>2, <1>3, <2>1, <3>1, <3>2, <3>3 DEF KernelOK
  <2>2. CASE node.kind # "combine"
    <3>1. k = [kind |-> node.kind, source |-> source, output |-> slots[h], noise |-> node.noise]
      BY <2>2
    <3>2. Len(slots[h]) = IF node.kind \in Warps THEN Arity(node.kind) ELSE 1
      BY <1>3 DEF OutputWidth
    <3> HIDE DEF k
    <3> QED
      BY <1>2, <1>3, <1>5, <2>2, <3>1, <3>2 DEF KernelOK
  <2> QED
    BY <2>1, <2>2
<1>7. k.kind = node.kind /\ FieldsOf(k) = KernelFor(g, slots, h)
  BY DEF FieldsOf, KernelFor, source
<1> HIDE DEF k
<1>8. Decoded(node.kind, Payload(k)) = KernelFor(g, slots, h)
  BY <1>6, <1>7, PayloadIsRead
<1>9. node.kind # "grid2" /\ node.kind # "grid3"
  BY <1>5 DEF Warps, Samples
<1> DEFINE spec == KernelOf(g, slots, h)
<1>10. spec.kind = node.kind /\ spec.payload = Payload(k)
  BY <1>4
<1> HIDE DEF spec
<1>11. StageRun(p, spec) = KernelRun(p, Decoded(spec.kind, spec.payload))
  BY <1>9, <1>10 DEF StageRun
<1> QED
  BY <1>8, <1>10, <1>11 DEF spec

(* The slices that a kernel asks for: granted up to the b-th.              *)
Grants(q, s, b) ==
  \A i \in 1..(b - 1) : /\ s[i] \in Slots(q) /\ q.buffers[s[i]].kind = "f32"
                        /\ \A k \in 1..(i - 1) : s[k] # s[i]

LEMMA SlicesGranted ==
  ASSUME NEW q, NEW s, NEW n \in Nat, DOMAIN s = 1..n, Grants(q, s, n + 1)
  PROVE  SlicesError(q, s, "f32") = "none"
<1> DEFINE errors == [i \in DOMAIN s |->
                        IF s[i] \notin Slots(q) THEN "missing buffer"
                        ELSE IF \E k \in 1..(i - 1) : s[k] = s[i] THEN "duplicate slot"
                        ELSE SliceError(q, s[i], "f32")]
<1>1. \A i \in 1..n : errors[i] = "none"
  <2> TAKE i \in 1..n
  <2>1. i \in 1..((n + 1) - 1)
    OBVIOUS
  <2> QED
    BY <2>1 DEF Grants, SliceError
<1>2. DOMAIN errors = 1..n
  OBVIOUS
<1>3. SlicesError(q, s, "f32") = FirstError(errors)
  BY DEF SlicesError
<1> HIDE DEF errors
<1> QED
  BY <1>1, <1>2, <1>3 DEF FirstError

LEMMA SlicesRefused ==
  ASSUME NEW q, NEW s, NEW n \in Nat, DOMAIN s = 1..n, NEW b \in 1..n, Grants(q, s, b)
  PROVE  /\ s[b] \notin Slots(q) => SlicesError(q, s, "f32") = "missing buffer"
         /\ s[b] \in Slots(q) /\ (\E k \in 1..(b - 1) : s[k] = s[b]) => SlicesError(q, s, "f32") = "duplicate slot"
<1> DEFINE errors == [i \in DOMAIN s |->
                        IF s[i] \notin Slots(q) THEN "missing buffer"
                        ELSE IF \E k \in 1..(i - 1) : s[k] = s[i] THEN "duplicate slot"
                        ELSE SliceError(q, s[i], "f32")]
           bad == {i \in DOMAIN errors : errors[i] # "none"}
<1>1. \A i \in 1..(b - 1) : errors[i] = "none"
  <2> TAKE i \in 1..(b - 1)
  <2>1. i \in 1..n
    OBVIOUS
  <2> QED
    BY <2>1 DEF Grants, SliceError
<1>2. /\ s[b] \notin Slots(q) => errors[b] = "missing buffer"
      /\ s[b] \in Slots(q) /\ (\E k \in 1..(b - 1) : s[k] = s[b]) => errors[b] = "duplicate slot"
  OBVIOUS
<1>3. DOMAIN errors = 1..n
  OBVIOUS
<1>4. SlicesError(q, s, "f32") = FirstError(errors)
  BY DEF SlicesError
<1> HIDE DEF errors
<1>5. ASSUME errors[b] # "none"
      PROVE  FirstError(errors) = errors[b]
  <2>1. b \in bad /\ bad \in SUBSET Nat /\ bad # {}
    BY <1>3, <1>5
  <2>2. Min(bad) \in bad /\ Min(bad) <= b
    BY <2>1, MinOf
  <2>3. Min(bad) = b
    BY <1>1, <1>3, <2>2
  <2> QED
    BY <2>1, <2>3 DEF FirstError
<1> QED
  BY <1>2, <1>4, <1>5

(* A kernel that reads other slots than it writes.                         *)
Ready(p, k) ==
  LET reads == ReadSlots(k)
  IN  /\ Regular(p) /\ Total(p) \in Nat
      /\ reads \in Seq(Nat) /\ k.output \in Seq(Nat) /\ Distinct(k.output)
      /\ \A i \in 1..Len(reads), j \in 1..Len(k.output) : reads[i] # k.output[j]

Present(p, k) ==
  LET reads == ReadSlots(k)
  IN  Distinct(reads) /\ \A r \in 1..Len(reads) : reads[r] \in Slots(p) /\ p.buffers[reads[r]].kind = "f32"

RowOf(p, k, i) == [r \in DOMAIN ReadSlots(k) |-> p.buffers[ReadSlots(k)[r]].data[i]]

ResultOf(p, k) == [a \in DOMAIN k.output |-> [i \in 1..Total(p) |-> Result(k, a, RowOf(p, k, i))]]

(* What the kernel finds when it has ensured its outputs.                  *)
Finds(q, p, k) ==
  LET reads == ReadSlots(k)
  IN  /\ EnsuredOf(q, p, k.output) /\ ToSet(k.output) = {k.output[a] : a \in DOMAIN k.output}
      /\ DOMAIN (reads \o k.output) = 1..(Len(reads) + Len(k.output))
      /\ Len(reads) \in Nat /\ DOMAIN reads = 1..Len(reads)
      /\ Len(k.output) \in Nat /\ DOMAIN k.output = 1..Len(k.output)
      /\ \A i \in 1..Len(reads) : (reads \o k.output)[i] = reads[i]
      /\ \A i \in 1..Len(k.output) : (reads \o k.output)[Len(reads) + i] = k.output[i]
      /\ \A r \in 1..Len(reads) : /\ reads[r] \in Slots(q) <=> reads[r] \in Slots(p)
                                  /\ reads[r] \in Slots(p) => q.buffers[reads[r]] = p.buffers[reads[r]]

LEMMA FindsIs ==
  ASSUME NEW p, NEW k, Ready(p, k)
  PROVE  Finds(EnsuredAll(p, k.output), p, k)
<1> DEFINE reads == ReadSlots(k)
           q == EnsuredAll(p, k.output)
<1>1. reads \in Seq(Nat) /\ k.output \in Seq(Nat) /\ Regular(p)
      /\ \A i \in 1..Len(reads), j \in 1..Len(k.output) : reads[i] # k.output[j]
  BY DEF Ready
<1>2. EnsuredOf(q, p, k.output)
  BY <1>1, EnsuredAllIs
<1> HIDE DEF reads, q
<1>3. /\ Len(reads) \in Nat /\ DOMAIN reads = 1..Len(reads)
      /\ Len(k.output) \in Nat /\ DOMAIN k.output = 1..Len(k.output)
  BY <1>1, LenProperties
<1>4. ToSet(k.output) = {k.output[a] : a \in DOMAIN k.output}
  BY DEF ToSet
<1>5. /\ DOMAIN (reads \o k.output) = 1..(Len(reads) + Len(k.output))
      /\ \A i \in 1..(Len(reads) + Len(k.output)) :
           (reads \o k.output)[i] = IF i <= Len(reads) THEN reads[i] ELSE k.output[i - Len(reads)]
  <2>1. /\ reads \o k.output \in Seq(Nat) /\ Len(reads \o k.output) = Len(reads) + Len(k.output)
        /\ \A i \in 1..(Len(reads) + Len(k.output)) :
             (reads \o k.output)[i] = IF i <= Len(reads) THEN reads[i] ELSE k.output[i - Len(reads)]
    BY <1>1, ConcatProperties
  <2>2. DOMAIN (reads \o k.output) = 1..Len(reads \o k.output)
    BY <2>1, LenProperties
  <2> QED
    BY <2>1, <2>2
<1>6. \A i \in 1..Len(reads) : (reads \o k.output)[i] = reads[i]
  BY <1>3, <1>5
<1>7. ASSUME NEW i \in 1..Len(k.output)
      PROVE  (reads \o k.output)[Len(reads) + i] = k.output[i]
  <2>1. Len(reads) + i \in 1..(Len(reads) + Len(k.output)) /\ ~(Len(reads) + i <= Len(reads)) /\ (Len(reads) + i) - Len(reads) = i
    BY <1>3
  <2> QED
    BY <1>5, <2>1
<1>8. ASSUME NEW r \in 1..Len(reads)
      PROVE  /\ reads[r] \in Slots(q) <=> reads[r] \in Slots(p)
             /\ reads[r] \in Slots(p) => q.buffers[reads[r]] = p.buffers[reads[r]]
  <2>1. reads[r] \notin ToSet(k.output)
    BY <1>1, <1>3, <1>4
  <2> QED
    BY <1>2, <2>1 DEF EnsuredOf
<1> QED
  BY <1>2, <1>3, <1>4, <1>5, <1>6, <1>7, <1>8 DEF Finds, reads, q

LEMMA NothingRefused ==
  ASSUME NEW p, NEW k, Ready(p, k), Present(p, k)
  PROVE  SlicesError(EnsuredAll(p, k.output), ReadSlots(k) \o k.output, "f32") = "none"
<1> DEFINE reads == ReadSlots(k)
           q == EnsuredAll(p, k.output)
           s == reads \o k.output
           m == Len(reads)
           n == Len(k.output)
<1>1. Finds(q, p, k)
  BY FindsIs
<1>2. /\ Distinct(k.output) /\ (\A i \in 1..m, j \in 1..n : reads[i] # k.output[j])
      /\ Distinct(reads) /\ \A r \in 1..m : reads[r] \in Slots(p) /\ p.buffers[reads[r]].kind = "f32"
  BY DEF Ready, Present
<1> HIDE DEF reads, q
<1>3. /\ EnsuredOf(q, p, k.output) /\ ToSet(k.output) = {k.output[a] : a \in DOMAIN k.output}
      /\ DOMAIN s = 1..(m + n) /\ m \in Nat /\ n \in Nat /\ DOMAIN k.output = 1..n
      /\ \A i \in 1..m : s[i] = reads[i]
      /\ \A i \in 1..n : s[m + i] = k.output[i]
      /\ \A r \in 1..m : /\ reads[r] \in Slots(q) <=> reads[r] \in Slots(p)
                         /\ reads[r] \in Slots(p) => q.buffers[reads[r]] = p.buffers[reads[r]]
  BY <1>1 DEF Finds, reads
<1> HIDE DEF s
<1>4. ASSUME NEW i \in 1..(m + n)
      PROVE  s[i] \in Slots(q) /\ q.buffers[s[i]].kind = "f32" /\ \A l \in 1..(i - 1) : s[l] # s[i]
  <2>1. CASE i \in 1..m
    <3>1. s[i] = reads[i] /\ \A l \in 1..(i - 1) : l \in 1..m /\ s[l] = reads[l] /\ l # i
      BY <1>3, <2>1
    <3>2. reads[i] \in Slots(q) /\ q.buffers[reads[i]].kind = "f32"
      BY <1>2, <1>3, <2>1
    <3> QED
      BY <1>2, <2>1, <3>1, <3>2 DEF Distinct
  <2>2. CASE i \notin 1..m
    <3>1. PICK j \in 1..n : i = m + j
      <4>1. i - m \in 1..n /\ i = m + (i - m)
        BY <1>3, <2>2
      <4> QED
        BY <4>1
    <3>2. s[i] = k.output[j] /\ k.output[j] \in ToSet(k.output)
      BY <1>3, <3>1
    <3>3. s[i] \in Slots(q) /\ q.buffers[s[i]].kind = "f32"
      BY <1>3, <3>2 DEF EnsuredOf
    <3>4. ASSUME NEW l \in 1..(i - 1)
          PROVE  s[l] # s[i]
      <4>1. CASE l \in 1..m
        <5>1. s[l] = reads[l]
          BY <1>3, <4>1
        <5> QED
          BY <1>2, <3>2, <4>1, <5>1
      <4>2. CASE l \notin 1..m
        <5>1. PICK x \in 1..n : l = m + x /\ x # j
          <6>1. l - m \in 1..n /\ l = m + (l - m) /\ l - m # j
            BY <1>3, <3>1, <4>2
          <6> QED
            BY <6>1
        <5>2. s[l] = k.output[x]
          BY <1>3, <5>1
        <5> QED
          BY <1>2, <3>2, <5>1, <5>2 DEF Distinct
      <4> QED
        BY <4>1, <4>2
    <3> QED
      BY <3>3, <3>4
  <2> QED
    BY <2>1, <2>2
<1>5. Grants(q, s, (m + n) + 1)
  <2>1. 1..(((m + n) + 1) - 1) = 1..(m + n)
    BY <1>3
  <2> QED
    BY <1>4, <2>1 DEF Grants
<1>6. SlicesError(q, s, "f32") = "none"
  <2>1. m + n \in Nat /\ DOMAIN s = 1..(m + n)
    BY <1>3
  <2> HIDE DEF m, n
  <2> QED
    BY <1>5, <2>1, SlicesGranted
<1> QED
  BY <1>6 DEF q, s, reads

(* The ways in which a kernel runs.                                        *)
LEMMA KernelIsShort ==
  ASSUME NEW p, NEW k, Short(k)
  PROVE  KernelRun(p, k).error = Panic
BY DEF KernelRun

LEMMA KernelRefused ==
  ASSUME NEW p, NEW k, ~Short(k), NEW error, error # "none",
         SlicesError(EnsuredAll(p, k.output), ReadSlots(k) \o k.output, "f32") = error
  PROVE  KernelRun(p, k).error = error
BY DEF KernelRun

LEMMA KernelPanics ==
  ASSUME NEW p, NEW k, ~Short(k), Ready(p, k), Present(p, k), Total(p) > 0,
         Disordered(k) \/ \E r \in DOMAIN ReadSlots(k) : Len(p.buffers[ReadSlots(k)[r]].data) < Total(p)
  PROVE  KernelRun(p, k).error = Panic
<1> DEFINE reads == ReadSlots(k)
           q == EnsuredAll(p, k.output)
<1>1. SlicesError(q, reads \o k.output, "f32") = "none"
  BY NothingRefused
<1>2. Disordered(k) \/ \E r \in DOMAIN reads : Len(q.buffers[reads[r]].data) < Total(p)
  <2>1. Finds(q, p, k)
    BY FindsIs
  <2>2. \A r \in DOMAIN reads : reads[r] \in Slots(p) /\ q.buffers[reads[r]] = p.buffers[reads[r]]
    BY <2>1 DEF Finds, Present
  <2> QED
    BY <2>2
<1>3. KernelRun(p, k) = [packet |-> q, error |-> Panic]
  BY <1>1, <1>2 DEF KernelRun
<1> QED
  BY <1>3

LEMMA KernelWorks ==
  ASSUME NEW p, NEW k, ~Short(k), Ready(p, k), Present(p, k), Total(p) > 0 => ~Disordered(k),
         \A r \in DOMAIN ReadSlots(k) : Len(p.buffers[ReadSlots(k)[r]].data) = Total(p)
  PROVE  /\ KernelRun(p, k).error = "none"
         /\ OutputOf(KernelRun(p, k).packet, p, k.output, ResultOf(p, k))
<1> DEFINE reads == ReadSlots(k)
           q == EnsuredAll(p, k.output)
           Row(i) == [r \in DOMAIN reads |-> q.buffers[reads[r]].data[i]]
           data == [a \in DOMAIN k.output |-> [i \in 1..Total(p) |-> Result(k, a, Row(i))]]
<1>1. SlicesError(q, reads \o k.output, "f32") = "none"
  BY NothingRefused
<1>2. Finds(q, p, k)
  BY FindsIs
<1>3. \A r \in DOMAIN reads : q.buffers[reads[r]] = p.buffers[reads[r]]
  BY <1>2 DEF Finds, Present
<1>4. Total(p) \in Nat /\ Regular(p) /\ Distinct(k.output)
  BY DEF Ready
<1>5. ~(Total(p) > 0 /\ (Disordered(k) \/ \E r \in DOMAIN reads : Len(q.buffers[reads[r]].data) < Total(p)))
  <2>1. \A r \in DOMAIN reads : Len(q.buffers[reads[r]].data) = Total(p)
    BY <1>3
  <2> QED
    BY <1>4, <2>1
<1>6. KernelRun(p, k) = [error |-> "none", packet |-> WrittenAll(q, k.output, data)]
  BY <1>1, <1>5 DEF KernelRun
<1>7. data = ResultOf(p, k)
  <2>1. \A i : Row(i) = RowOf(p, k, i)
    <3> TAKE i
    <3>1. \A r \in DOMAIN reads : q.buffers[reads[r]].data[i] = p.buffers[reads[r]].data[i]
      BY <1>3
    <3> HIDE DEF reads, q
    <3>2. Row(i) = [r \in DOMAIN reads |-> p.buffers[reads[r]].data[i]]
      BY <3>1
    <3> QED
      BY <3>2 DEF RowOf, reads
  <2> HIDE DEF Row, q, reads
  <2> QED
    BY <2>1 DEF ResultOf
<1> HIDE DEF data
<1>8. (\A a, b \in DOMAIN k.output : k.output[a] = k.output[b] => a = b)
      /\ ToSet(k.output) = {k.output[a] : a \in DOMAIN k.output}
  BY <1>2, <1>4 DEF Finds, Distinct
<1>9. OutputOf(WrittenAll(EnsuredAll(p, k.output), k.output, data), p, k.output, data)
  BY <1>4, <1>8, OutputIs
<1>10. KernelRun(p, k).error = "none" /\ KernelRun(p, k).packet = WrittenAll(q, k.output, data)
  BY <1>6
<1> QED
  BY <1>7, <1>9, <1>10

(* A node whose kernel indexes more inputs or params than there are.       *)
NodeShort(node) ==
  node.kind = "combine" /\ (Len(node.inputs) < InputsOf(node.op) \/ Len(node.params) < ParamsOf(node.op))

LEMMA OpsAre ==
  \A op : InputsOf(op) \in {1, 2} /\ ParamsOf(op) \in {0, 2, 4}
BY DEF InputsOf, ParamsOf

(* What a node computes depends on its inputs, and on nothing else.        *)
LEMMA ComputedDepends ==
  ASSUME NEW g, NEW node \in Nodes, ~NodeShort(node), NEW at, NEW bt, NEW cell,
         \A k \in 1..Len(References(node)) : at[NodeOf(g, References(node)[k])] = bt[NodeOf(g, References(node)[k])]
  PROVE  Computed(g, node, at, cell) = Computed(g, node, bt, cell)
<1> DEFINE refs == References(node)
           A(i) == at[NodeOf(g, refs[i])]
           B(i) == bt[NodeOf(g, refs[i])]
<1>1. Len(refs) \in Nat /\ \A k \in 1..Len(refs) : A(k) = B(k)
  BY ReferencesAre
<1>2. CASE node.kind = "combine"
  <2>1. \A i \in 1..InputsOf(node.op) : i \in 1..Len(refs)
    <3>1. refs = node.inputs /\ ~(Len(refs) < InputsOf(node.op))
      BY <1>2 DEF References, NodeShort
    <3>2. InputsOf(node.op) \in {1, 2}
      BY OpsAre
    <3> QED
      BY <1>1, <3>1, <3>2
  <2>2. node.kind \notin Warps /\ node.kind \notin Samples
    BY <1>2 DEF Warps, Samples
  <2> DEFINE rest == IF node.op = "YGradient" THEN <<cell[2]>> ELSE <<>>
             params == SubSeq(node.params, 1, ParamsOf(node.op))
  <2>3. Computed(g, node, at, cell) = <<node.op, params, [i \in 1..InputsOf(node.op) |-> A(i)] \o rest>>
    BY <1>2, <2>2 DEF Computed
  <2>4. Computed(g, node, bt, cell) = <<node.op, params, [i \in 1..InputsOf(node.op) |-> B(i)] \o rest>>
    BY <1>2, <2>2 DEF Computed
  <2> HIDE DEF A, B, rest, params
  <2>5. [i \in 1..InputsOf(node.op) |-> A(i)] = [i \in 1..InputsOf(node.op) |-> B(i)]
    BY <1>1, <2>1
  <2> QED
    BY <2>3, <2>4, <2>5
<1>3. CASE node.kind # "combine"
  <2> DEFINE PA == IF node.source = Base THEN SubSeq(cell, 1, Arity(node.kind)) ELSE A(1)
             PB == IF node.source = Base THEN SubSeq(cell, 1, Arity(node.kind)) ELSE B(1)
  <2>1. PA = PB
    <3>1. ASSUME node.source # Base
          PROVE  1 \in 1..Len(refs)
      <4>1. refs = <<node.source>>
        BY <1>3, <3>1 DEF References
      <4> QED
        BY <4>1
    <3> HIDE DEF A, B
    <3> QED
      BY <1>1, <3>1
  <2>2. node.kind \in Warps \cup Samples
    BY <1>3, NodesAssumption
  <2>3. Computed(g, node, at, cell) = IF node.kind \in Warps THEN [a \in 1..Arity(node.kind) |-> <<"warp", node.noise, PA, a>>]
                                      ELSE <<"noise", node.noise, PA>>
    BY <1>3, <2>2 DEF Computed, Warps, Samples
  <2>4. Computed(g, node, bt, cell) = IF node.kind \in Warps THEN [a \in 1..Arity(node.kind) |-> <<"warp", node.noise, PB, a>>]
                                      ELSE <<"noise", node.noise, PB>>
    BY <1>3, <2>2 DEF Computed, Warps, Samples
  <2> HIDE DEF PA, PB
  <2> QED
    BY <2>1, <2>3, <2>4
<1> QED
  BY <1>2, <1>3

(* The rounds in which values are found.                                   *)
RoundOf(g, cell, at) == [x \in Grounded(g) |-> Computed(g, x, at, cell)]
NoneYet(g) == [x \in Grounded(g) |-> "none yet"]

Rounding(f, g, cell, n) ==
  f = [s \in SUBSET (1..n) |-> IF s = {} THEN NoneYet(g) ELSE RoundOf(g, cell, f[s \ {Max(s)}])]

LEMMA RoundsExist ==
  ASSUME NEW g, NEW cell, NEW n \in Nat
  PROVE  \E f : Rounding(f, g, cell, n)
<1> DEFINE T == {m \in Nat : \E f : Rounding(f, g, cell, m)}
<1>1. 0 \in T
  <2> DEFINE f == [s \in SUBSET (1..0) |-> NoneYet(g)]
  <2>1. f = [s \in SUBSET (1..0) |-> IF s = {} THEN NoneYet(g) ELSE RoundOf(g, cell, f[s \ {Max(s)}])]
    <3>1. \A s \in SUBSET (1..0) : s = {}
      OBVIOUS
    <3> QED
      BY <3>1
  <2> HIDE DEF f
  <2>2. Rounding(f, g, cell, 0)
    BY <2>1 DEF Rounding
  <2> QED
    BY <2>2
<1>2. ASSUME NEW m \in Nat, m \in T
      PROVE  m + 1 \in T
  <2>1. PICK f : Rounding(f, g, cell, m)
    BY <1>2
  <2>2. f = [s \in SUBSET (1..m) |-> IF s = {} THEN NoneYet(g) ELSE RoundOf(g, cell, f[s \ {Max(s)}])]
    BY <2>1 DEF Rounding
  <2> DEFINE top == m + 1
             h == [s \in SUBSET (1..top) |-> IF top \in s THEN RoundOf(g, cell, f[s \ {top}]) ELSE f[s]]
  <2>3. \A s \in SUBSET (1..top) : IF top \in s THEN s \ {top} \in SUBSET (1..m) ELSE s \in SUBSET (1..m)
    OBVIOUS
  <2>4. ASSUME NEW s \in SUBSET (1..top)
        PROVE  h[s] = IF s = {} THEN NoneYet(g) ELSE RoundOf(g, cell, h[s \ {Max(s)}])
    <3>1. CASE top \in s
      <4>1. Max(s) \in s /\ Max(s) >= top /\ Max(s) \in 1..top
        <5>1. top \in Nat /\ s # {}
          BY <3>1
        <5> HIDE DEF top
        <5> QED
          BY <3>1, <5>1, MaxOf
      <4>2. Max(s) = top
        BY <4>1
      <4>3. h[s] = RoundOf(g, cell, f[s \ {top}]) /\ h[s \ {top}] = f[s \ {top}]
        BY <2>3, <3>1
      <4> QED
        BY <3>1, <4>2, <4>3
    <3>2. CASE top \notin s
      <4>1. s \in SUBSET (1..m) /\ h[s] = f[s]
        BY <2>3, <3>2
      <4>2. CASE s = {}
        BY <2>2, <4>1, <4>2
      <4>3. CASE s # {}
        <5>1. s \ {Max(s)} \in SUBSET (1..m) /\ s \ {Max(s)} \in SUBSET (1..top) /\ top \notin s \ {Max(s)}
          BY <3>2, <4>1
        <5>2. h[s \ {Max(s)}] = f[s \ {Max(s)}]
          BY <5>1
        <5>3. f[s] = RoundOf(g, cell, f[s \ {Max(s)}])
          BY <2>2, <4>1, <4>3
        <5> QED
          BY <4>1, <4>3, <5>2, <5>3
      <4> QED
        BY <4>2, <4>3
    <3> QED
      BY <3>1, <3>2
  <2>5. h = [s \in SUBSET (1..top) |-> h[s]]
    OBVIOUS
  <2> HIDE DEF h
  <2>6. h = [s \in SUBSET (1..top) |-> IF s = {} THEN NoneYet(g) ELSE RoundOf(g, cell, h[s \ {Max(s)}])]
    BY <2>4, <2>5
  <2>7. Rounding(h, g, cell, top)
    BY <2>6 DEF Rounding
  <2> QED
    BY <2>7
<1> HIDE DEF T
<1>3. n \in T
  BY <1>1, <1>2, SetInduction
<1> QED
  BY <1>3 DEF T
-----------------------------------------------------------------------------
(* ---- values ----------------------------------------------------------- *)

RoundChain(c, g, cell, n) ==
  /\ c[0] = NoneYet(g)
  /\ \A m \in 1..n : c[m] = RoundOf(g, cell, c[m - 1])

LEMMA RoundsAre ==
  ASSUME NEW g, GraphOK(g), NEW cell
  PROVE  \E c : RoundChain(c, g, cell, Size(g)) /\ \A node : Value(g, node, cell) = c[Size(g)][node]
<1> DEFINE h == CHOOSE f : f = [s \in SUBSET (DOMAIN g.nodes) |->
                              IF s = {} THEN NoneYet(g) ELSE RoundOf(g, cell, f[s \ {Max(s)}])]
<1>1. PICK n \in Nat : n = Size(g) /\ DOMAIN g.nodes = 1..n
  BY NodesTyped
<1>2. \A node : Value(g, node, cell) = h[DOMAIN g.nodes][node]
  BY Zenon DEF Value, FoldLeft, MapThenFoldSet, NoneYet, RoundOf
<1>3. PICK f : Rounding(f, g, cell, n)
  BY RoundsExist
<1>4. h = [s \in SUBSET (1..n) |-> IF s = {} THEN NoneYet(g) ELSE RoundOf(g, cell, h[s \ {Max(s)}])]
  BY <1>1, <1>3 DEF Rounding
<1> HIDE DEF h
<1> DEFINE c == [m \in 0..n |-> h[1..m]]
<1>5. c[0] = NoneYet(g)
  <2>1. 1..0 = {} /\ {} \in SUBSET (1..n) /\ 0 \in 0..n
    OBVIOUS
  <2>2. h[{}] = NoneYet(g)
    BY <1>4, <2>1
  <2> QED
    BY <2>1, <2>2
<1>6. ASSUME NEW m \in 1..n
      PROVE  c[m] = RoundOf(g, cell, c[m - 1])
  <2>1. m \in Nat /\ m # 0 /\ 1..m \in SUBSET (1..n) /\ m \in 0..n /\ m - 1 \in 0..n
    OBVIOUS
  <2>2. 1..m # {} /\ Max(1..m) = m /\ (1..m) \ {Max(1..m)} = 1..(m - 1)
    BY <2>1, Prefix
  <2>3. h[1..m] = RoundOf(g, cell, h[(1..m) \ {Max(1..m)}])
    BY <1>4, <2>1, <2>2
  <2> QED
    BY <2>1, <2>2, <2>3
<1>7. c[n] = h[1..n]
  OBVIOUS
<1> HIDE DEF c
<1>8. RoundChain(c, g, cell, Size(g)) /\ \A node : Value(g, node, cell) = c[Size(g)][node]
  BY <1>1, <1>2, <1>5, <1>6, <1>7 DEF RoundChain
<1> QED
  BY <1>8

ValuesAt(g, cell) == [x \in Grounded(g) |-> Value(g, x, cell)]

(* The value of a node is what it computes of the values of its inputs, if *)
(* no kernel up to its own indexes more than there is.                     *)
LEMMA ValueIs ==
  ASSUME NEW g, NEW order, NEW slots, Planned(g, order, slots), NEW cell,
         NEW M \in 0..Len(order), \A j \in 1..M : ~NodeShort(g.nodes[order[j]]), NEW i \in 1..M
  PROVE  Value(g, g.nodes[order[i]], cell) = Computed(g, g.nodes[order[i]], ValuesAt(g, cell), cell)
<1> DEFINE x(j) == g.nodes[order[j]]
           grounded == Grounded(g)
<1>1. Whole(g) /\ GraphOK(g) /\ GoodOrder(g, order) /\ order \in Seq(1..Size(g)) /\ Distinct(order) /\ Ordered(g, order)
  BY DEF Planned, Placed, Whole, GoodOrder
<1>2. PICK l \in Nat : l = Len(order) /\ (\A j \in 1..l : order[j] \in Members(order, Len(order))) /\ M \in 0..l
  <2>1. Len(order) \in Nat
    BY <1>1, LenProperties
  <2> QED
    BY <2>1 DEF Members
<1>3. PICK n \in Nat : n = Size(g) /\ l <= n
  <2>1. Size(g) \in Nat
    BY <1>1, NodesTyped
  <2> QED
    BY <1>1, <1>2, <2>1, DistinctLength
<1>4. \A j \in 1..l : x(j) \in grounded
  <2>1. grounded = NodesOf(g, Members(order, Len(order)))
    BY <1>1, GroundedIs
  <2> QED
    BY <1>2, <2>1 DEF NodesOf
<1>5. ASSUME NEW j \in 1..l, NEW k \in 1..Len(References(x(j)))
      PROVE  \E b \in 1..(j - 1) : NodeOf(g, References(x(j))[k]) = x(b)
  <2>1. Feeds(g, order, slots, order[j])
    BY <1>2, FeedsIs
  <2>2. k \in 1..Degree(g, order[j]) /\ NodeOf(g, References(x(j))[k]) = g.nodes[Dependencies(g, order[j])[k]]
    BY <2>1 DEF Feeds
  <2>3. Dependencies(g, order[j])[k] \in Members(order, j - 1)
    BY <1>1, <1>2, <2>2 DEF Ordered
  <2> QED
    BY <2>2, <2>3 DEF Members
<1>6. PICK c : RoundChain(c, g, cell, n) /\ \A node : Value(g, node, cell) = c[n][node]
  BY <1>1, <1>3, RoundsAre
<1> HIDE DEF grounded
<1>7. ASSUME NEW m \in 1..n, NEW j \in 1..l
      PROVE  c[m][x(j)] = Computed(g, x(j), c[m - 1], cell)
  <2>1. c[m] = [y \in grounded |-> Computed(g, y, c[m - 1], cell)]
    BY <1>6, <1>7 DEF RoundChain, RoundOf, grounded
  <2>2. x(j) \in grounded
    BY <1>4
  <2> HIDE DEF x
  <2> QED
    BY <2>1, <2>2
<1>8. ASSUME NEW j \in 1..M
      PROVE  x(j) \in Nodes /\ ~NodeShort(x(j))
  <2>1. order[j] \in Members(order, Len(order))
    BY <1>2
  <2> QED
    BY <2>1, FeedsIs
<1> DEFINE T == {m \in Nat : m + 1 <= n => \A j \in 1..M : j <= m => c[m + 1][x(j)] = c[m][x(j)]}
<1> HIDE DEF x
<1>9. 0 \in T
  OBVIOUS
<1>10. ASSUME NEW m \in Nat, m \in T
       PROVE  m + 1 \in T
  <2> SUFFICES ASSUME (m + 1) + 1 <= n, NEW j \in 1..M, j <= m + 1
               PROVE  c[(m + 1) + 1][x(j)] = c[m + 1][x(j)]
    OBVIOUS
  <2>1. /\ (m + 1) + 1 \in 1..n /\ m + 1 \in 1..n /\ ((m + 1) + 1) - 1 = m + 1 /\ (m + 1) - 1 = m /\ j \in 1..l
        /\ m + 1 <= n
    BY <1>2
  <2>2. c[(m + 1) + 1][x(j)] = Computed(g, x(j), c[m + 1], cell) /\ c[m + 1][x(j)] = Computed(g, x(j), c[m], cell)
    BY <1>7, <2>1
  <2>3. ASSUME NEW k \in 1..Len(References(x(j)))
        PROVE  c[m + 1][NodeOf(g, References(x(j))[k])] = c[m][NodeOf(g, References(x(j))[k])]
    <3>1. PICK b \in 1..(j - 1) : NodeOf(g, References(x(j))[k]) = x(b)
      BY <1>5, <2>1
    <3>2. b \in 1..M /\ b <= m
      OBVIOUS
    <3>3. c[m + 1][x(b)] = c[m][x(b)]
      BY <1>10, <2>1, <3>2
    <3> QED
      BY <3>1, <3>3
  <2>4. Computed(g, x(j), c[m + 1], cell) = Computed(g, x(j), c[m], cell)
    BY <1>8, <2>3, ComputedDepends
  <2> QED
    BY <2>2, <2>4
<1> HIDE DEF T
<1>11. Nat \subseteq T
  BY <1>9, <1>10, SetInduction
<1>12. n # 0 /\ n \in 1..n /\ n - 1 \in Nat /\ (n - 1) + 1 = n /\ i \in 1..l
  BY <1>2, <1>3
<1>13. c[n][x(i)] = Computed(g, x(i), c[n - 1], cell)
  BY <1>7, <1>12
<1>14. ASSUME NEW k \in 1..Len(References(x(i)))
       PROVE  c[n - 1][NodeOf(g, References(x(i))[k])] = ValuesAt(g, cell)[NodeOf(g, References(x(i))[k])]
  <2>1. PICK b \in 1..(i - 1) : NodeOf(g, References(x(i))[k]) = x(b)
    BY <1>5, <1>12
  <2>2. b \in 1..M /\ b <= n - 1 /\ b \in 1..l
    BY <1>2, <1>3
  <2>3. c[n][x(b)] = c[n - 1][x(b)]
    <3>1. n - 1 \in T
      BY <1>11, <1>12
    <3> QED
      BY <1>12, <2>2, <3>1 DEF T
  <2>4. ValuesAt(g, cell)[x(b)] = c[n][x(b)]
    BY <1>4, <1>6, <2>2 DEF ValuesAt, grounded
  <2> QED
    BY <2>1, <2>3, <2>4
<1>15. Computed(g, x(i), c[n - 1], cell) = Computed(g, x(i), ValuesAt(g, cell), cell)
  BY <1>8, <1>14, ComputedDepends
<1> QED
  BY <1>6, <1>13, <1>15 DEF x

LEMMA KernelFields ==
  ASSUME NEW g, NEW slots, NEW h, NEW k, k = KernelFor(g, slots, h)
  PROVE  /\ k.kind = g.nodes[h].kind /\ k.source = SourceOf(g, slots, h) /\ k.output = slots[h]
         /\ k.kind = "combine" => k.op = g.nodes[h].op /\ k.params = g.nodes[h].params
         /\ k.kind # "combine" => k.noise = g.nodes[h].noise
BY DEF KernelFor

LEMMA ShortIs ==
  ASSUME NEW g, NEW order, NEW slots, Planned(g, order, slots), NEW h \in Members(order, Len(order)),
         NEW k, k = KernelFor(g, slots, h)
  PROVE  Short(k) <=> NodeShort(g.nodes[h])
<1>1. Feeds(g, order, slots, h)
  BY FeedsIs
<1>2. g.nodes[h].kind = "combine" => Len(k.source) = Len(g.nodes[h].inputs)
  BY <1>1, SourceIs, KernelFields DEF Feeds
<1> QED
  BY <1>2, KernelFields DEF Short, NodeShort

(* The slots that the kernel of a node reads.                              *)
ReadsOf(reads, g, slots, h) ==
  LET node == g.nodes[h]
      deps == Dependencies(g, h)
  IN  /\ reads \in Seq(Nat) /\ Len(reads) \in Nat /\ DOMAIN reads = 1..Len(reads)
      /\ node.kind = "combine" =>
           /\ Len(reads) = InputsOf(node.op) + (IF node.op = "YGradient" THEN 1 ELSE 0)
           /\ \A r \in 1..InputsOf(node.op) : r \in 1..Degree(g, h) /\ reads[r] = slots[deps[r]][1]
           /\ node.op = "YGradient" => InputsOf(node.op) = 1 /\ reads[2] = 11
      /\ node.kind # "combine" =>
           /\ Len(reads) = Arity(node.kind)
           /\ node.source = Base => \A r \in 1..Arity(node.kind) : reads[r] = 9 + r
           /\ node.source # Base => reads = slots[deps[1]] /\ 1 \in 1..Degree(g, h)

LEMMA ReadsAre ==
  ASSUME NEW g, NEW order, NEW slots, Planned(g, order, slots), NEW h \in Members(order, Len(order)),
         ~NodeShort(g.nodes[h]), NEW k, k = KernelFor(g, slots, h)
  PROVE  ReadsOf(ReadSlots(k), g, slots, h)
<1> DEFINE node == g.nodes[h]
           deps == Dependencies(g, h)
           source == SourceOf(g, slots, h)
           d == Degree(g, h)
<1>1. Feeds(g, order, slots, h) /\ d \in Nat
  BY FeedsIs DEF Feeds
<1>2. source \in Seq(Nat) /\ Len(source) = IF node.kind = "combine" THEN d ELSE Arity(node.kind)
  BY SourceIs
<1>3. k.kind = node.kind /\ k.source = source /\ (node.kind = "combine" => k.op = node.op)
  BY KernelFields
<1>4. CASE node.kind = "combine"
  <2> DEFINE n == InputsOf(node.op)
             first == SubSeq(source, 1, n)
             reads == ReadSlots(k)
  <2>1. n \in {1, 2} /\ n <= d /\ Len(source) = d
    <3>1. d = Len(node.inputs) /\ ~(Len(node.inputs) < n)
      BY <1>1, <1>4 DEF Feeds, NodeShort
    <3> QED
      BY <1>1, <1>2, <1>4, <3>1, OpsAre
  <2>2. \A r \in 1..d : source[r] = slots[deps[r]][1]
    BY <1>4 DEF SourceOf
  <2> HIDE DEF source, n, d
  <2>3. first \in Seq(Nat) /\ Len(first) = n /\ \A r \in 1..n : r \in 1..d /\ first[r] = source[r]
    BY <1>1, <1>2, <2>1, SubSeqProperties
  <2>4. BaseSlots[2] = 11
    BY DEF BaseSlots
  <2>5. reads = first \o (IF node.op = "YGradient" THEN <<11>> ELSE <<>>)
    BY <1>3, <1>4, <2>4 DEF ReadSlots, n
  <2> HIDE DEF first, reads
  <2>6. CASE node.op = "YGradient"
    <3>1. n = 1
      BY <2>6 DEF InputsOf, n
    <3>2. reads = first \o <<11>>
      BY <2>5, <2>6
    <3>3. reads \in Seq(Nat) /\ Len(reads) = 2 /\ reads[1] = first[1] /\ reads[2] = 11 /\ DOMAIN reads = 1..2
      <4> DEFINE last == <<11>>
      <4>1. last \in Seq(Nat) /\ Len(last) = 1 /\ last[1] = 11
        OBVIOUS
      <4> HIDE DEF last
      <4>2. /\ first \o last \in Seq(Nat) /\ Len(first \o last) = Len(first) + Len(last)
            /\ \A i \in 1..(Len(first) + Len(last)) :
                 (first \o last)[i] = IF i <= Len(first) THEN first[i] ELSE last[i - Len(first)]
        BY <2>3, <4>1, ConcatProperties
      <4>3. reads = first \o last /\ Len(first) = 1
        BY <2>3, <3>1, <3>2 DEF last
      <4>4. reads \in Seq(Nat) /\ Len(reads) = 2 /\ reads[1] = first[1] /\ reads[2] = 11
        BY <4>1, <4>2, <4>3
      <4> QED
        BY <4>4, LenProperties
    <3>4. ReadsOf(reads, g, slots, h)
      BY <1>4, <2>2, <2>3, <2>6, <3>1, <3>3 DEF ReadsOf, n, d
    <3> QED
      BY <3>4 DEF reads
  <2>7. CASE node.op # "YGradient"
    <3>1. reads = first
      BY <2>3, <2>5, <2>7
    <3>2. reads \in Seq(Nat) /\ Len(reads) = n /\ DOMAIN reads = 1..n /\ n \in Nat
      BY <2>1, <2>3, <3>1
    <3>3. ReadsOf(reads, g, slots, h)
      BY <1>4, <2>2, <2>3, <2>7, <3>1, <3>2 DEF ReadsOf, n, d
    <3> QED
      BY <3>3 DEF reads
  <2> QED
    BY <2>6, <2>7
<1>5. CASE node.kind # "combine"
  <2>1. ReadSlots(k) = source
    BY <1>3, <1>5 DEF ReadSlots
  <2>2. Len(source) = Arity(node.kind) /\ Arity(node.kind) \in {2, 3} /\ DOMAIN source = 1..Arity(node.kind)
    BY <1>2, <1>5, LenProperties DEF Arity
  <2>3. ASSUME node.source = Base
        PROVE  \A r \in 1..Arity(node.kind) : source[r] = 9 + r
    <3>1. source = Coords(Arity(node.kind))
      BY <1>5, <2>3 DEF SourceOf
    <3> QED
      BY <2>2, <3>1, CoordsAre
  <2>4. ASSUME node.source # Base
        PROVE  source = slots[deps[1]] /\ 1 \in 1..d
    BY <1>1, <1>5, <2>4 DEF SourceOf, Feeds
  <2> HIDE DEF source
  <2>5. ReadsOf(source, g, slots, h)
    BY <1>2, <1>5, <2>2, <2>3, <2>4 DEF ReadsOf
  <2> QED
    BY <2>1, <2>5
<1> QED
  BY <1>4, <1>5
-----------------------------------------------------------------------------
(* ---- what the kernels leave ------------------------------------------- *)

(* What the kernels up to the m-th have made of a packet.                  *)
ValueOf(g, queries, h, a, c) ==
  LET value == Value(g, g.nodes[h], CellAt(queries, c))
  IN  IF g.nodes[h].kind \in Warps THEN value[a] ELSE value

ValueData(g, queries, h) ==
  [a \in 1..Width(g, h) |-> [c \in 1..CutSize(queries) |-> ValueOf(g, queries, h, a, c)]]

Taken(order, slots, m) == UNION {Members(slots[order[i]], Len(slots[order[i]])) : i \in 1..m}

Holds(p, g, order, slots, queries, recycled, m) ==
  /\ Regular(p) /\ p.count = Len(queries)
  /\ Slots(p) = {0, 1, 2} \cup Kept3(recycled) \cup (10..(9 + g.dimension)) \cup Taken(order, slots, m)
  /\ p.buffers[0] = Buffer("u32", Meta(queries))
  /\ p.buffers[1] = Buffer("f32", Floats(queries))
  /\ p.buffers[2] = Buffer("u32", Offsets(queries))
  /\ \A a \in 1..g.dimension : p.buffers[9 + a] = Buffer("f32", CellData(queries, g.dimension)[a])
  /\ recycled /\ g.dimension = 2 => p.buffers[12] = Buffer("f32", <<>>)
  /\ \A i \in 1..m : \A a \in 1..Len(slots[order[i]]) :
       p.buffers[slots[order[i]][a]] = Buffer("f32", ValueData(g, queries, order[i])[a])

(* A batch on a plan.                                                      *)
Posed(g, order, slots, queries, recycled) ==
  /\ GraphOK(g) /\ Planned(g, order, slots) /\ recycled \in BOOLEAN
  /\ QueriesOK(queries, g.dimension) /\ CutSize(queries) < Word

LEMMA SizeTyped ==
  ASSUME NEW queries, NEW d, QueriesOK(queries, d)
  PROVE  CutSize(queries) \in Nat
<1>1. PICK n \in Nat : n = Len(queries)
  BY Zenon DEF QueriesOK
<1>2. Totalled(Starts(queries), n, Sizes(queries)) /\ CutSize(queries) = Starts(queries)[n + 1]
  BY <1>1, OffsetsAre
<1>3. n + 1 \in 1..(n + 1)
  OBVIOUS
<1> QED
  BY <1>2, <1>3 DEF Totalled

LEMMA PosedSize ==
  ASSUME NEW g, NEW order, NEW slots, NEW queries, NEW recycled, Posed(g, order, slots, queries, recycled)
  PROVE  /\ CutSize(queries) \in Nat /\ CutSize(queries) < Word /\ g.dimension \in {2, 3}
         /\ Len(order) \in Nat /\ order \in Seq(1..Size(g)) /\ Distinct(order) /\ Size(g) \in Nat
         /\ \A i \in 1..Len(order) : order[i] \in 1..Size(g) /\ order[i] \in Members(order, Len(order))
<1>1. QueriesOK(queries, g.dimension) /\ g.dimension \in {2, 3} /\ CutSize(queries) < Word
  BY DEF Posed, GraphOK
<1>2. order \in Seq(1..Size(g)) /\ Distinct(order) /\ Size(g) \in Nat
  BY NodesTyped DEF Posed, Planned, Placed, GoodOrder
<1>3. CutSize(queries) \in Nat
  BY <1>1, SizeTyped
<1>4. Len(order) \in Nat /\ \A i \in 1..Len(order) : order[i] \in 1..Size(g) /\ order[i] \in Members(order, Len(order))
  BY <1>2, LenProperties DEF Members
<1> QED
  BY <1>1, <1>2, <1>3, <1>4

LEMMA TotalHolds ==
  ASSUME NEW g, NEW order, NEW slots, NEW queries, NEW recycled, Posed(g, order, slots, queries, recycled),
         NEW p, NEW m, Holds(p, g, order, slots, queries, recycled, m)
  PROVE  Total(p) = CutSize(queries)
<1>1. QueriesOK(queries, g.dimension)
  BY DEF Posed
<1>2. PICK n \in Nat : n = Len(queries)
  BY <1>1, Zenon DEF QueriesOK
<1>3. /\ CutSize(queries) = Starts(queries)[n + 1]
      /\ Len(Offsets(queries)) = n + 1
      /\ \A i \in 1..(n + 1) : Offsets(queries)[i] = Starts(queries)[i] % Word
  BY <1>1, <1>2, OffsetsAre
<1>4. Offsets(queries)[n + 1] = CutSize(queries) % Word
  BY <1>2, <1>3
<1>5. CutSize(queries) % Word = CutSize(queries)
  BY PosedSize, WordAssumption, ModTwice
<1>6. p.buffers[QueryOffsets].data = Offsets(queries)
  BY DEF Holds, Buffer, QueryOffsets
<1> QED
  BY <1>3, <1>4, <1>5, <1>6 DEF Total, Last

Held(p, s, size) == s \in Slots(p) /\ p.buffers[s].kind = "f32" /\ Len(p.buffers[s].data) = size

LEMMA RowLength ==
  ASSUME NEW n \in Nat, NEW f, f = [c \in 1..n |-> f[c]]
  PROVE  Len(f) = n
<1> DEFINE S == {f[c] : c \in 1..n}
<1>1. f \in [1..n -> S]
  OBVIOUS
<1> HIDE DEF S
<1> QED
  BY <1>1, FunctionIsSeq

LEMMA HeldSlots ==
  ASSUME NEW g, NEW order, NEW slots, NEW queries, NEW recycled, Posed(g, order, slots, queries, recycled),
         NEW p, NEW m \in 0..Len(order), Holds(p, g, order, slots, queries, recycled, m)
  PROVE  /\ \A a \in 1..g.dimension : Held(p, 9 + a, CutSize(queries))
         /\ \A i \in 1..m : \A a \in 1..Len(slots[order[i]]) : Held(p, slots[order[i]][a], CutSize(queries))
<1> DEFINE size == CutSize(queries)
           d == g.dimension
<1>1. size \in Nat /\ d \in {2, 3} /\ \A i \in 1..Len(order) : order[i] \in Members(order, Len(order))
  BY PosedSize
<1>2. /\ Slots(p) = {0, 1, 2} \cup Kept3(recycled) \cup (10..(9 + d)) \cup Taken(order, slots, m)
      /\ \A a \in 1..d : p.buffers[9 + a] = Buffer("f32", CellData(queries, d)[a])
      /\ \A i \in 1..m : \A a \in 1..Len(slots[order[i]]) :
           p.buffers[slots[order[i]][a]] = Buffer("f32", ValueData(g, queries, order[i])[a])
  BY DEF Holds
<1>3. ASSUME NEW a \in 1..d
      PROVE  Held(p, 9 + a, size)
  <2> DEFINE f == CellData(queries, d)[a]
  <2>1. f = [c \in 1..size |-> f[c]]
    BY DEF CellData
  <2> HIDE DEF f, size
  <2>2. Len(f) = size
    BY <1>1, <2>1, RowLength
  <2>3. p.buffers[9 + a] = Buffer("f32", f)
    BY <1>2 DEF f
  <2>4. 9 + a \in Slots(p)
    BY <1>1, <1>2
  <2> QED
    BY <2>2, <2>3, <2>4 DEF Held, Buffer
<1>4. ASSUME NEW i \in 1..m, NEW a \in 1..Len(slots[order[i]])
      PROVE  Held(p, slots[order[i]][a], size)
  <2> DEFINE f == ValueData(g, queries, order[i])[a]
  <2>1. i \in 1..Len(order)
    BY PosedSize
  <2>2. a \in 1..Width(g, order[i])
    <3>1. order[i] \in Members(order, Len(order))
      BY <1>1, <2>1
    <3>2. Planned(g, order, slots)
      BY DEF Posed
    <3> QED
      BY <3>1, <3>2 DEF Planned
  <2>3. f = [c \in 1..size |-> f[c]]
    BY <2>2 DEF ValueData
  <2> HIDE DEF f, size
  <2>4. Len(f) = size
    BY <1>1, <2>3, RowLength
  <2>5. p.buffers[slots[order[i]][a]] = Buffer("f32", f)
    BY <1>2 DEF f
  <2>6. slots[order[i]][a] \in Slots(p)
    <3>1. slots[order[i]][a] \in Members(slots[order[i]], Len(slots[order[i]]))
      BY DEF Members
    <3>2. slots[order[i]][a] \in Taken(order, slots, m)
      BY <3>1 DEF Taken
    <3> QED
      BY <1>2, <3>2
  <2> QED
    BY <2>4, <2>5, <2>6 DEF Held, Buffer
<1> QED
  BY <1>3, <1>4

(* Two places in the slots of a plan have different slots.                 *)
LEMMA SlotsApart ==
  ASSUME NEW g, NEW order, NEW slots, Planned(g, order, slots), NEW h \in 1..Size(g), NEW l \in 1..Size(g),
         NEW i \in 1..Len(slots[h]), NEW j \in 1..Len(slots[l]), slots[h][i] = slots[l][j]
  PROVE  h = l /\ i = j
<1>1. Size(g) \in Nat
  BY NodesTyped DEF Planned, Placed, Whole
<1>2. slots \in [1..Size(g) -> Seq(0..(SlotSpace - 1))] /\ Apart(slots)
  BY DEF Planned
<1>3. Len(slots) = Size(g)
  BY <1>1, <1>2, FunctionIsSeq
<1> QED
  BY <1>2, <1>3 DEF Apart

(* The inputs of the m-th node come before it.                             *)
LEMMA InputsBefore ==
  ASSUME NEW g, NEW order, NEW slots, Planned(g, order, slots), NEW m \in 1..Len(order), NEW h, h = order[m],
         NEW k \in 1..Degree(g, h)
  PROVE  \E b \in 1..(m - 1) : Dependencies(g, h)[k] = order[b] /\ order[b] # h
<1>1. order \in Seq(1..Size(g)) /\ Distinct(order) /\ Ordered(g, order)
  BY DEF Planned, Placed, GoodOrder
<1>2. Len(order) \in Nat
  BY <1>1, LenProperties
<1>3. Dependencies(g, order[m])[k] \in Members(order, m - 1)
  BY <1>1 DEF Ordered
<1>4. PICK b \in 1..(m - 1) : Dependencies(g, h)[k] = order[b]
  BY <1>3 DEF Members
<1>5. b \in 1..Len(order) /\ b # m
  BY <1>2
<1> QED
  BY <1>1, <1>4, <1>5 DEF Distinct

(* A node that reads the third base coordinate of a plane, and one whose   *)
(* kernel takes one slot twice.                                            *)
OffPlane(g, node) == node.kind # "combine" /\ g.dimension = 2 /\ Arity(node.kind) = 3 /\ node.source = Base
Twice(node) == node.kind = "combine" /\ InputsOf(node.op) = 2 /\ node.inputs[1] = node.inputs[2]

LEMMA ReadsApart ==
  ASSUME NEW g, NEW order, NEW slots, Planned(g, order, slots), NEW m \in 1..Len(order), NEW h, h = order[m],
         ~NodeShort(g.nodes[h]), NEW k, k = KernelFor(g, slots, h), NEW reads, reads = ReadSlots(k)
  PROVE  \A r \in 1..Len(reads), j \in 1..Len(slots[h]) : reads[r] # slots[h][j]
<1> DEFINE node == g.nodes[h]
           deps == Dependencies(g, h)
<1>1. h \in Members(order, Len(order))
  BY DEF Members
<1>2. h \in 1..Size(g) /\ Feeds(g, order, slots, h)
  BY <1>1, FeedsIs
<1>3. ReadsOf(reads, g, slots, h)
  BY <1>1, ReadsAre
<1>4. \A j \in 1..Len(slots[h]) : slots[h][j] \in Nat /\ slots[h][j] >= 32
  BY <1>2 DEF Planned
<1>5. ASSUME NEW a \in 1..Degree(g, h), NEW i \in 1..Len(slots[deps[a]]), NEW j \in 1..Len(slots[h])
      PROVE  slots[deps[a]][i] # slots[h][j]
  <2>1. deps[a] # h
    BY InputsBefore
  <2>2. deps[a] \in 1..Size(g)
    BY <1>2 DEF Feeds
  <2> HIDE DEF deps
  <2> QED
    BY <1>2, <2>1, <2>2, SlotsApart
<1>6. CASE node.kind = "combine"
  <2>1. \A a \in 1..Degree(g, h) : Len(slots[deps[a]]) = 1
    BY <1>2, <1>6 DEF Feeds
  <2>2. \A r \in 1..InputsOf(node.op) : r \in 1..Degree(g, h) /\ reads[r] = slots[deps[r]][1]
    BY <1>3, <1>6 DEF ReadsOf
  <2>3. /\ Len(reads) = InputsOf(node.op) + (IF node.op = "YGradient" THEN 1 ELSE 0)
        /\ node.op = "YGradient" => InputsOf(node.op) = 1 /\ reads[2] = 11
    BY <1>3, <1>6 DEF ReadsOf
  <2> HIDE DEF deps
  <2> TAKE r \in 1..Len(reads), j \in 1..Len(slots[h])
  <2>4. CASE r \in 1..InputsOf(node.op)
    <3>1. 1 \in 1..Len(slots[deps[r]]) /\ r \in 1..Degree(g, h) /\ reads[r] = slots[deps[r]][1]
      BY <2>1, <2>2, <2>4
    <3> QED
      BY <1>5, <3>1
  <2>5. CASE r \notin 1..InputsOf(node.op)
    <3>1. r = 2 /\ node.op = "YGradient"
      BY <2>3, <2>5, OpsAre
    <3>2. reads[r] = 11
      BY <2>3, <3>1
    <3> QED
      BY <1>4, <3>2
  <2> QED
    BY <2>4, <2>5
<1>7. CASE node.kind # "combine"
  <2>1. Arity(node.kind) \in {2, 3} /\ Len(reads) = Arity(node.kind)
    BY <1>3, <1>7 DEF Arity, ReadsOf
  <2>2. CASE node.source = Base
    <3>1. \A r \in 1..Arity(node.kind) : reads[r] = 9 + r
      BY <1>3, <1>7, <2>2 DEF ReadsOf
    <3> TAKE r \in 1..Len(reads), j \in 1..Len(slots[h])
    <3>2. reads[r] = 9 + r /\ r <= 3
      BY <2>1, <3>1
    <3> QED
      BY <1>4, <2>1, <3>2
  <2>3. CASE node.source # Base
    <3>1. reads = slots[deps[1]] /\ 1 \in 1..Degree(g, h)
      BY <1>3, <1>7, <2>3 DEF ReadsOf
    <3> HIDE DEF deps
    <3> QED
      BY <1>5, <3>1
  <2> QED
    BY <2>2, <2>3
<1> QED
  BY <1>6, <1>7

LEMMA ReadsDistinct ==
  ASSUME NEW g, NEW order, NEW slots, Planned(g, order, slots), NEW m \in 1..Len(order), NEW h, h = order[m],
         ~NodeShort(g.nodes[h]), ~Twice(g.nodes[h]), NEW k, k = KernelFor(g, slots, h), NEW reads, reads = ReadSlots(k)
  PROVE  Distinct(reads)
<1> DEFINE node == g.nodes[h]
           deps == Dependencies(g, h)
<1>1. h \in Members(order, Len(order))
  BY DEF Members
<1>2. h \in 1..Size(g) /\ Feeds(g, order, slots, h) /\ g.nodes[h] \in Nodes
  BY <1>1, FeedsIs
<1>3. ReadsOf(reads, g, slots, h)
  BY <1>1, ReadsAre
<1>4. CASE node.kind = "combine"
  <2>1. \A a \in 1..Degree(g, h) : Len(slots[deps[a]]) = 1 /\ deps[a] \in 1..Size(g)
    BY <1>2, <1>4 DEF Feeds
  <2>2. \A r \in 1..InputsOf(node.op) : r \in 1..Degree(g, h) /\ reads[r] = slots[deps[r]][1]
    BY <1>3, <1>4 DEF ReadsOf
  <2>3. /\ Len(reads) = InputsOf(node.op) + (IF node.op = "YGradient" THEN 1 ELSE 0)
        /\ node.op = "YGradient" => InputsOf(node.op) = 1 /\ reads[2] = 11
    BY <1>3, <1>4 DEF ReadsOf
  <2>4. \A a \in 1..Degree(g, h) : node.inputs[a] = g.nodes[deps[a]].id
    BY <1>2, <1>4 DEF Feeds
  <2> HIDE DEF deps
  <2>5. ASSUME NEW a \in 1..Degree(g, h)
        PROVE  slots[deps[a]][1] \in Nat /\ slots[deps[a]][1] >= 32
    <3>1. Len(slots[deps[a]]) = 1 /\ deps[a] \in 1..Size(g)
      BY <2>1
    <3>2. 1 \in 1..Len(slots[deps[a]])
      BY <3>1
    <3> QED
      BY <3>1, <3>2 DEF Planned
  <2>6. CASE InputsOf(node.op) = 2
    <3>1. Len(reads) = 2 /\ 1 \in 1..Degree(g, h) /\ 2 \in 1..Degree(g, h)
      BY <2>2, <2>3, <2>6
    <3>2. reads[1] # reads[2]
      <4>1. deps[1] # deps[2]
        BY <1>4, <2>4, <2>6, <3>1 DEF Twice
      <4>2. reads[1] = slots[deps[1]][1] /\ reads[2] = slots[deps[2]][1] /\ 1 \in 1..Len(slots[deps[1]]) /\ 1 \in 1..Len(slots[deps[2]])
        BY <2>1, <2>2, <2>6, <3>1
      <4>3. deps[1] \in 1..Size(g) /\ deps[2] \in 1..Size(g)
        BY <2>1, <3>1
      <4> QED
        BY <4>1, <4>2, <4>3, SlotsApart
    <3> QED
      BY <3>1, <3>2 DEF Distinct
  <2>7. CASE InputsOf(node.op) = 1
    <3>1. 1 \in 1..Degree(g, h) /\ reads[1] = slots[deps[1]][1]
      BY <2>2, <2>7
    <3>2. reads[1] \in Nat /\ reads[1] >= 32
      BY <2>5, <3>1
    <3> QED
      BY <2>3, <2>7, <3>2 DEF Distinct
  <2> QED
    BY <2>6, <2>7, OpsAre
<1>5. CASE node.kind # "combine"
  <2>1. Len(reads) = Arity(node.kind)
    BY <1>3, <1>5 DEF ReadsOf
  <2>2. CASE node.source = Base
    <3>1. \A r \in 1..Len(reads) : reads[r] = 9 + r
      BY <1>3, <1>5, <2>1, <2>2 DEF ReadsOf
    <3>2. Len(reads) \in Nat
      BY <1>3 DEF ReadsOf
    <3> QED
      BY <3>1, <3>2 DEF Distinct
  <2>3. CASE node.source # Base
    <3>1. reads = slots[deps[1]] /\ 1 \in 1..Degree(g, h)
      BY <1>3, <1>5, <2>3 DEF ReadsOf
    <3>2. deps[1] \in 1..Size(g)
      BY <1>2, <3>1 DEF Feeds
    <3> HIDE DEF deps
    <3>3. \A i, j \in 1..Len(reads) : reads[i] = reads[j] => i = j
      BY <3>1, <3>2, SlotsApart
    <3> QED
      BY <3>3 DEF Distinct
  <2> QED
    BY <2>2, <2>3
<1> QED
  BY <1>4, <1>5

(* What a kernel reads is there, as long as the samples are many.          *)
LEMMA ReadsHeld ==
  ASSUME NEW g, NEW order, NEW slots, NEW queries, NEW recycled, Posed(g, order, slots, queries, recycled),
         NEW m \in 1..Len(order), NEW h, h = order[m], NEW p, Holds(p, g, order, slots, queries, recycled, m - 1),
         ~NodeShort(g.nodes[h]), NEW k, k = KernelFor(g, slots, h), NEW reads, reads = ReadSlots(k),
         NEW r \in 1..Len(reads)
  PROVE  Held(p, reads[r], CutSize(queries)) \/ (OffPlane(g, g.nodes[h]) /\ r = 3)
<1> DEFINE node == g.nodes[h]
           deps == Dependencies(g, h)
           d == g.dimension
           size == CutSize(queries)
<1>1. h \in Members(order, Len(order)) /\ Planned(g, order, slots) /\ d \in {2, 3}
  BY PosedSize DEF Members, Posed
<1>2. h \in 1..Size(g) /\ Feeds(g, order, slots, h) /\ g.nodes[h] \in Nodes
  BY <1>1, FeedsIs
<1>3. ReadsOf(reads, g, slots, h)
  BY <1>1, ReadsAre
<1>4. /\ \A a \in 1..d : Held(p, 9 + a, size)
      /\ \A i \in 1..(m - 1) : \A a \in 1..Len(slots[order[i]]) : Held(p, slots[order[i]][a], size)
  <2>1. m - 1 \in 0..Len(order)
    BY PosedSize
  <2> HIDE DEF size, d
  <2> QED
    BY <2>1, HeldSlots DEF size, d
<1> HIDE DEF size
<1>5. ASSUME NEW a \in 1..Degree(g, h), NEW i \in 1..Len(slots[deps[a]])
      PROVE  Held(p, slots[deps[a]][i], size)
  <2>1. PICK b \in 1..(m - 1) : deps[a] = order[b]
    BY <1>1, InputsBefore
  <2> HIDE DEF deps
  <2> QED
    BY <1>4, <2>1
<1>6. CASE node.kind = "combine"
  <2>1. \A a \in 1..Degree(g, h) : Len(slots[deps[a]]) = 1
    BY <1>2, <1>6 DEF Feeds
  <2>2. \A a \in 1..InputsOf(node.op) : a \in 1..Degree(g, h) /\ reads[a] = slots[deps[a]][1]
    BY <1>3, <1>6 DEF ReadsOf
  <2>3. /\ Len(reads) = InputsOf(node.op) + (IF node.op = "YGradient" THEN 1 ELSE 0)
        /\ node.op = "YGradient" => InputsOf(node.op) = 1 /\ reads[2] = 11
    BY <1>3, <1>6 DEF ReadsOf
  <2> HIDE DEF deps
  <2>4. CASE r \in 1..InputsOf(node.op)
    <3>1. 1 \in 1..Len(slots[deps[r]]) /\ r \in 1..Degree(g, h) /\ reads[r] = slots[deps[r]][1]
      BY <2>1, <2>2, <2>4
    <3> QED
      BY <1>5, <3>1 DEF size
  <2>5. CASE r \notin 1..InputsOf(node.op)
    <3>1. r = 2 /\ node.op = "YGradient"
      BY <2>3, <2>5, OpsAre
    <3>2. reads[r] = 9 + 2 /\ 2 \in 1..d
      BY <1>1, <2>3, <3>1
    <3> QED
      BY <1>4, <3>2 DEF size
  <2> QED
    BY <2>4, <2>5
<1>7. CASE node.kind # "combine"
  <2>1. Arity(node.kind) \in {2, 3} /\ Len(reads) = Arity(node.kind)
    BY <1>3, <1>7 DEF Arity, ReadsOf
  <2>2. CASE node.source = Base
    <3>1. reads[r] = 9 + r /\ r \in 1..Arity(node.kind)
      BY <1>3, <1>7, <2>1, <2>2 DEF ReadsOf
    <3>2. CASE r \in 1..d
      BY <1>4, <3>1, <3>2 DEF size
    <3>3. CASE r \notin 1..d
      <4>1. r = 3 /\ d = 2 /\ Arity(node.kind) = 3
        BY <1>1, <2>1, <3>1, <3>3
      <4> QED
        BY <1>7, <2>2, <4>1 DEF OffPlane
    <3> QED
      BY <3>2, <3>3
  <2>3. CASE node.source # Base
    <3>1. reads = slots[deps[1]] /\ 1 \in 1..Degree(g, h)
      BY <1>3, <1>7, <2>3 DEF ReadsOf
    <3> HIDE DEF deps
    <3> QED
      BY <1>5, <3>1 DEF size
  <2> QED
    BY <2>2, <2>3
<1> QED
  BY <1>6, <1>7

LEMMA KernelReady ==
  ASSUME NEW g, NEW order, NEW slots, NEW queries, NEW recycled, Posed(g, order, slots, queries, recycled),
         NEW m \in 1..Len(order), NEW h, h = order[m], NEW p, Holds(p, g, order, slots, queries, recycled, m - 1),
         ~NodeShort(g.nodes[h]), NEW k, k = KernelFor(g, slots, h)
  PROVE  Ready(p, k) /\ Total(p) = CutSize(queries) /\ CutSize(queries) \in Nat
<1> DEFINE reads == ReadSlots(k)
<1>1. h \in Members(order, Len(order)) /\ Planned(g, order, slots) /\ CutSize(queries) \in Nat
  BY PosedSize DEF Members, Posed
<1>2. h \in 1..Size(g)
  BY <1>1, FeedsIs
<1>3. Total(p) = CutSize(queries)
  BY TotalHolds
<1>4. Regular(p)
  BY DEF Holds
<1>5. k.output = slots[h]
  BY KernelFields
<1>6. slots[h] \in Seq(Nat)
  BY <1>1, <1>2, SlotsTyped
<1>7. Distinct(slots[h])
  BY <1>1, <1>2, SlotsApart DEF Distinct
<1>8. reads \in Seq(Nat)
  BY <1>1, ReadsAre DEF ReadsOf
<1>9. \A r \in 1..Len(reads), j \in 1..Len(slots[h]) : reads[r] # slots[h][j]
  BY <1>1, ReadsApart
<1> QED
  BY <1>1, <1>3, <1>4, <1>5, <1>6, <1>7, <1>8, <1>9, SMTT(30) DEF Ready

LEMMA CellFound ==
  ASSUME NEW queries, NEW d, QueriesOK(queries, d), NEW c \in 1..CutSize(queries)
  PROVE  LET j == OwnerOf(Starts(queries), Len(queries), c)
         IN  /\ j \in 1..Len(queries) /\ c - Starts(queries)[j] \in 1..SizeAt(queries, j)
             /\ CellAt(queries, c) = CutCells(queries[j])[c - Starts(queries)[j]]
<1> DEFINE j == OwnerOf(Starts(queries), Len(queries), c)
           t == Starts(queries)
           z == Sizes(queries)
<1>1. PICK n \in Nat : n = Len(queries)
  BY Zenon DEF QueriesOK
<1>2. Totalled(t, n, z) /\ CutSize(queries) = t[n + 1] /\ \A i \in 1..n : z[i] = SizeAt(queries, i)
  BY <1>1, OffsetsAre
<1>3. \A i \in 1..n : z[i] \in Nat
  BY <1>1, <1>2, SidesAre
<1>4. CellAt(queries, c) = CutCells(queries[j])[c - t[j]]
  BY DEF CellAt
<1>5. c \in 1..t[n + 1]
  BY <1>2
<1>6. j = OwnerOf(t, n, c)
  BY <1>1
<1> HIDE DEF j, t, z
<1>7. j \in 1..n /\ t[j] < c /\ c <= t[j + 1]
  BY <1>2, <1>3, <1>5, <1>6, OwnerIs
<1>8. t[j] \in Nat /\ t[j + 1] = t[j] + z[j] /\ z[j] = SizeAt(queries, j) /\ z[j] \in Nat /\ c \in Nat
  <2>1. j \in 1..(n + 1)
    BY <1>7
  <2>2. t[n + 1] \in Nat
    BY <1>2 DEF Totalled
  <2> QED
    BY <1>2, <1>3, <1>5, <1>7, <2>1, <2>2 DEF Totalled
<1>9. c - t[j] \in 1..SizeAt(queries, j)
  BY <1>7, <1>8
<1> QED
  BY <1>1, <1>4, <1>7, <1>9 DEF j, t

LEMMA CellIsRow ==
  ASSUME NEW queries, NEW d, QueriesOK(queries, d), NEW c \in 1..CutSize(queries)
  PROVE  /\ CellAt(queries, c) = [a \in 1..d |-> CellAt(queries, c)[a]]
         /\ \A a \in 1..d : CellData(queries, d)[a][c] = CellAt(queries, c)[a]
<1>1. PICK j, i : j \in 1..Len(queries) /\ i \in 1..SizeAt(queries, j) /\ CellAt(queries, c) = CutCells(queries[j])[i]
  BY CellFound
<1> DEFINE q == queries[j]
           w == Sides(q)[1]
           h == Sides(q)[2]
           Steps(k) == <<k % w, (k \div w) % h, k \div (w * h)>>
           row(k) == [a \in 1..q.dimension |-> <<"at", q.origin[a], q.step[a], Steps(k - 1)[a]>>]
<1>2. CutCells(q) = [k \in 1..Product(Sides(q)) |-> row(k)]
  BY DEF CutCells
<1>3. q.dimension = d
  BY <1>1 DEF QueriesOK
<1>4. i \in 1..Product(Sides(q))
  BY <1>1 DEF SizeAt
<1>5. row(i) = [a \in 1..d |-> row(i)[a]]
  BY <1>3
<1> HIDE DEF row
<1>6. CellAt(queries, c) = row(i)
  BY <1>1, <1>2, <1>4
<1>7. \A a \in 1..d : CellData(queries, d)[a][c] = CellAt(queries, c)[a]
  BY DEF CellData
<1> QED
  BY <1>5, <1>6, <1>7

(* What a kernel finds in the slots of its inputs.                         *)
LEMMA InputData ==
  ASSUME NEW g, NEW order, NEW slots, NEW queries, NEW recycled, Posed(g, order, slots, queries, recycled),
         NEW m \in 1..Len(order), NEW h, h = order[m], NEW p, Holds(p, g, order, slots, queries, recycled, m - 1),
         NEW c \in 1..CutSize(queries), NEW a \in 1..Degree(g, h), NEW dep, dep = Dependencies(g, h)[a],
         NEW i \in 1..Len(slots[dep])
  PROVE  p.buffers[slots[dep][i]].data[c] = ValueOf(g, queries, dep, i, c)
<1>1. Planned(g, order, slots) /\ h \in Members(order, Len(order))
  BY DEF Posed, Members
<1>2. PICK b \in 1..(m - 1) : dep = order[b]
  BY <1>1, InputsBefore
<1>3. p.buffers[slots[dep][i]] = Buffer("f32", ValueData(g, queries, dep)[i])
  BY <1>2 DEF Holds
<1>4. dep \in Members(order, Len(order))
  BY <1>1, FeedsIs DEF Feeds
<1>5. i \in 1..Width(g, dep)
  BY <1>1, <1>4 DEF Planned
<1>6. ValueData(g, queries, dep)[i][c] = ValueOf(g, queries, dep, i, c)
  BY <1>5 DEF ValueData
<1> QED
  BY <1>3, <1>6 DEF Buffer

LEMMA InputValue ==
  ASSUME NEW g, NEW order, NEW slots, Planned(g, order, slots), NEW h \in Members(order, Len(order)), NEW cell,
         NEW a \in 1..Degree(g, h), NEW dep, dep = Dependencies(g, h)[a]
  PROVE  ValuesAt(g, cell)[NodeOf(g, References(g.nodes[h])[a])] = Value(g, g.nodes[dep], cell)
<1>1. NodeOf(g, References(g.nodes[h])[a]) = g.nodes[dep] /\ dep \in Members(order, Len(order))
  BY FeedsIs DEF Feeds
<1>2. Grounded(g) = NodesOf(g, Members(order, Len(order)))
  BY GroundedIs DEF Planned, Placed
<1>3. g.nodes[dep] \in Grounded(g)
  BY <1>1, <1>2 DEF NodesOf
<1> QED
  BY <1>1, <1>3 DEF ValuesAt

FunctionOn(f, n) == f = [a \in 1..n |-> f[a]]

(* The value of a warp is a position.                                      *)
LEMMA WarpValue ==
  ASSUME NEW g, NEW order, NEW slots, Planned(g, order, slots), NEW cell,
         NEW M \in 0..Len(order), \A j \in 1..M : ~NodeShort(g.nodes[order[j]]), NEW i \in 1..M,
         NEW node, node = g.nodes[order[i]], node.kind \in Warps
  PROVE  FunctionOn(Value(g, node, cell), Arity(node.kind))
<1> DEFINE at == ValuesAt(g, cell)
           Input(k) == at[NodeOf(g, References(node)[k])]
           position == IF node.source = Base THEN SubSeq(cell, 1, Arity(node.kind)) ELSE Input(1)
           value == [a \in 1..Arity(node.kind) |-> <<"warp", node.noise, position, a>>]
<1>1. Value(g, node, cell) = Computed(g, node, at, cell)
  BY ValueIs
<1>2. Computed(g, node, at, cell) = value
  BY Zenon DEF Computed, Warps, Samples
<1>3. value = [a \in 1..Arity(node.kind) |-> value[a]]
  OBVIOUS
<1> HIDE DEF value
<1> QED
  BY <1>1, <1>2, <1>3 DEF FunctionOn

LEMMA PairJoins ==
  ASSUME NEW x, NEW y
  PROVE  <<x>> \o <<y>> = <<x, y>>
<1> DEFINE s == <<x>>
           t == <<y>>
           X == {x, y}
<1>1. s \in Seq(X) /\ t \in Seq(X) /\ Len(s) = 1 /\ Len(t) = 1 /\ s[1] = x /\ t[1] = y
  OBVIOUS
<1> HIDE DEF s, t, X
<1>2. /\ s \o t \in Seq(X) /\ Len(s \o t) = Len(s) + Len(t)
      /\ \A i \in 1..(Len(s) + Len(t)) : (s \o t)[i] = IF i <= Len(s) THEN s[i] ELSE t[i - Len(s)]
  BY <1>1, ConcatProperties
<1> DEFINE u == s \o t
<1> HIDE DEF u
<1>3. u \in Seq(X) /\ Len(u) = 2 /\ u[1] = x /\ u[2] = y
  BY <1>1, <1>2 DEF u
<1>4. u = <<x, y>>
  BY <1>3
<1> QED
  BY <1>4 DEF u, s, t

(* What a kernel computes of a row is the value of its node there.         *)
LEMMA RowComputes ==
  ASSUME NEW g, NEW order, NEW slots, NEW queries, NEW recycled, Posed(g, order, slots, queries, recycled),
         NEW m \in 1..Len(order), NEW h, h = order[m], NEW p, Holds(p, g, order, slots, queries, recycled, m - 1),
         \A j \in 1..m : ~NodeShort(g.nodes[order[j]]), ~OffPlane(g, g.nodes[h]),
         NEW k, k = KernelFor(g, slots, h), NEW c \in 1..CutSize(queries), NEW a \in 1..Width(g, h)
  PROVE  Result(k, a, RowOf(p, k, c)) = ValueOf(g, queries, h, a, c)
<1> DEFINE node == g.nodes[h]
           deps == Dependencies(g, h)
           refs == References(node)
           d == g.dimension
           cell == CellAt(queries, c)
           at == ValuesAt(g, cell)
           Input(i) == at[NodeOf(g, refs[i])]
           reads == ReadSlots(k)
           row == RowOf(p, k, c)
           D == Degree(g, h)
<1>1. h \in Members(order, Len(order)) /\ Planned(g, order, slots) /\ d \in {2, 3} /\ QueriesOK(queries, d)
  BY PosedSize DEF Members, Posed
<1>2. h \in 1..Size(g) /\ Feeds(g, order, slots, h) /\ node \in Nodes
  BY <1>1, FeedsIs
<1>3. ~NodeShort(node) /\ m \in 1..m /\ m \in 0..Len(order)
  BY PosedSize
<1>4. ReadsOf(reads, g, slots, h) /\ Len(reads) \in Nat /\ DOMAIN reads = 1..Len(reads)
  <2>1. ReadsOf(ReadSlots(k), g, slots, h)
    BY <1>1, <1>3, ReadsAre
  <2> QED
    BY <2>1 DEF ReadsOf
<1>5. Value(g, node, cell) = Computed(g, node, at, cell)
  BY <1>1, <1>3, ValueIs
<1>6. \A i \in 1..D : Input(i) = Value(g, g.nodes[deps[i]], cell)
  <2> TAKE i \in 1..D
  <2> HIDE DEF cell
  <2> QED
    BY <1>1, InputValue
<1>7. \A i \in 1..D : \A b \in 1..Len(slots[deps[i]]) : p.buffers[slots[deps[i]][b]].data[c] = ValueOf(g, queries, deps[i], b, c)
  BY InputData
<1>8. \A b \in 1..d : p.buffers[9 + b].data[c] = cell[b]
  <2> TAKE b \in 1..d
  <2>1. p.buffers[9 + b] = Buffer("f32", CellData(queries, d)[b])
    BY DEF Holds
  <2>2. CellData(queries, d)[b][c] = cell[b]
    BY <1>1, CellIsRow
  <2> QED
    BY <2>1, <2>2 DEF Buffer
<1>9. row = [r \in 1..Len(reads) |-> p.buffers[reads[r]].data[c]]
  BY <1>4 DEF RowOf
<1>10. /\ k.kind = node.kind
       /\ k.kind = "combine" => k.op = node.op /\ k.params = node.params
       /\ k.kind # "combine" => k.noise = node.noise
  BY KernelFields
<1>11. ValueOf(g, queries, h, a, c) = IF node.kind \in Warps THEN Value(g, node, cell)[a] ELSE Value(g, node, cell)
  BY DEF ValueOf
<1>12. cell = [b \in 1..d |-> cell[b]]
  BY <1>1, CellIsRow
<1> HIDE DEF reads, row, cell, at
<1>13. CASE node.kind = "combine"
  <2> DEFINE n == InputsOf(node.op)
             rest == IF node.op = "YGradient" THEN <<cell[2]>> ELSE <<>>
             params == SubSeq(node.params, 1, ParamsOf(node.op))
             inputs == [i \in 1..n |-> Input(i)]
  <2>1. node.kind \notin Warps /\ node.kind \notin Samples
    BY <1>13 DEF Warps, Samples
  <2>2. Computed(g, node, at, cell) = <<node.op, params, inputs \o rest>>
    BY <1>13, <2>1, Zenon DEF Computed
  <2>3. Result(k, a, row) = <<node.op, params, row>>
    BY <1>10, <1>13, <2>1 DEF Result
  <2>4. /\ Len(reads) = n + (IF node.op = "YGradient" THEN 1 ELSE 0)
        /\ \A r \in 1..n : r \in 1..D /\ reads[r] = slots[deps[r]][1]
        /\ node.op = "YGradient" => n = 1 /\ reads[2] = 11
    BY <1>4, <1>13 DEF ReadsOf
  <2>5. \A r \in 1..D : Len(slots[deps[r]]) = 1 /\ g.nodes[deps[r]].kind \notin Warps
    BY <1>2, <1>13 DEF Feeds
  <2> HIDE DEF deps, D, params, refs, Input
  <2>6. \A r \in 1..n : p.buffers[reads[r]].data[c] = Input(r)
    <3> TAKE r \in 1..n
    <3>1. r \in 1..D /\ reads[r] = slots[deps[r]][1] /\ 1 \in 1..Len(slots[deps[r]])
      BY <2>4, <2>5
    <3>2. p.buffers[reads[r]].data[c] = ValueOf(g, queries, deps[r], 1, c)
      BY <1>7, <3>1
    <3>3. ValueOf(g, queries, deps[r], 1, c) = Value(g, g.nodes[deps[r]], cell)
      BY <2>5, <3>1 DEF ValueOf, cell
    <3> QED
      BY <1>6, <3>1, <3>2, <3>3
  <2>7. n \in Nat
    BY OpsAre
  <2> HIDE DEF n
  <2>8. row = inputs \o rest
    <3>1. CASE node.op = "YGradient"
      <4>1. n = 1 /\ Len(reads) = 2 /\ reads[2] = 9 + 2 /\ 2 \in 1..d
        BY <1>1, <2>4, <3>1
      <4>2. p.buffers[reads[2]].data[c] = cell[2] /\ p.buffers[reads[1]].data[c] = Input(1)
        BY <1>8, <2>6, <4>1
      <4>3. row = <<Input(1), cell[2]>>
        <5>1. row = [r \in 1..2 |-> p.buffers[reads[r]].data[c]]
          BY <1>9, <4>1
        <5> QED
          BY <4>2, <5>1
      <4>4. inputs = <<Input(1)>> /\ rest = <<cell[2]>>
        BY <3>1, <4>1
      <4>5. <<Input(1)>> \o <<cell[2]>> = <<Input(1), cell[2]>>
        BY PairJoins
      <4> QED
        BY <4>3, <4>4, <4>5
    <3>2. CASE node.op # "YGradient"
      <4>1. Len(reads) = n
        BY <2>4, <2>7, <3>2
      <4>2. row = inputs
        BY <1>9, <2>6, <4>1
      <4>3. inputs \o <<>> = inputs
        <5> DEFINE S == {Input(i) : i \in 1..n}
        <5>1. inputs \in [1..n -> S]
          OBVIOUS
        <5> HIDE DEF S, inputs
        <5>2. inputs \in Seq(S)
          BY <2>7, <5>1, FunctionIsSeq
        <5> QED
          BY <5>2
      <4> QED
        BY <3>2, <4>2, <4>3
    <3> QED
      BY <3>1, <3>2
  <2> QED
    BY <1>5, <1>11, <2>1, <2>2, <2>3, <2>8, Zenon DEF row
<1>14. CASE node.kind # "combine"
  <2> DEFINE N == Arity(node.kind)
             position == IF node.source = Base THEN SubSeq(cell, 1, N) ELSE Input(1)
  <2>1. node.kind \in Warps \cup Samples /\ N \in {2, 3}
    BY <1>2, <1>14, NodesAssumption DEF Arity
  <2>2. Computed(g, node, at, cell) = IF node.kind \in Warps THEN [b \in 1..N |-> <<"warp", node.noise, position, b>>]
                                      ELSE <<"noise", node.noise, position>>
    BY <1>14, <2>1 DEF Computed, Warps, Samples
  <2>3. Result(k, a, row) = IF node.kind \in Warps THEN <<"warp", node.noise, row, a>> ELSE <<"noise", node.noise, row>>
    BY <1>10, <1>14, <2>1 DEF Result, Warps, Samples
  <2>4. Len(reads) = N
    BY <1>4, <1>14 DEF ReadsOf
  <2>5. row = position
    <3>1. CASE node.source = Base
      <4>1. \A r \in 1..N : reads[r] = 9 + r
        BY <1>4, <1>14, <3>1 DEF ReadsOf
      <4>2. \A r \in 1..N : r \in 1..d
        BY <1>1, <1>14, <2>1, <3>1 DEF OffPlane
      <4>3. row = [r \in 1..N |-> cell[r]]
        BY <1>8, <1>9, <2>4, <4>1, <4>2
      <4>4. SubSeq(cell, 1, N) = [r \in 1..N |-> cell[r]]
        <5> DEFINE S == {cell[b] : b \in 1..d}
        <5>1. cell \in [1..d -> S]
          BY <1>12
        <5> HIDE DEF S, N
        <5>2. d \in Nat /\ N \in Nat
          BY <1>1, <2>1
        <5>3. cell \in Seq(S) /\ Len(cell) = d
          BY <5>1, <5>2, FunctionIsSeq
        <5>4. \A b \in 1..N : b \in 1..Len(cell)
          BY <4>2, <5>3
        <5>5. N <= Len(cell)
          BY <2>1, <5>4 DEF N
        <5>6. SubSeq(cell, 1, N) \in Seq(S) /\ Len(SubSeq(cell, 1, N)) = N /\ \A b \in 1..N : SubSeq(cell, 1, N)[b] = cell[b]
          <6>1. /\ 1 \in 1..(Len(cell) + 1) /\ N \in 0..Len(cell) /\ (N - 1) + 1 = N
            BY <1>1, <5>2, <5>3, <5>5
          <6> QED
            BY <5>2, <5>3, <6>1, SubSeqProperties
        <5> DEFINE u == SubSeq(cell, 1, N)
        <5> HIDE DEF u
        <5>7. u \in Seq(S) /\ Len(u) = N /\ \A b \in 1..N : u[b] = cell[b]
          BY <5>6 DEF u
        <5>8. u = [r \in 1..N |-> u[r]]
          BY <5>7
        <5>9. u = [r \in 1..N |-> cell[r]]
          BY <5>7, <5>8
        <5> QED
          BY <5>9 DEF u
      <4> QED
        BY <3>1, <4>3, <4>4
    <3>2. CASE node.source # Base
      <4>1. reads = slots[deps[1]] /\ 1 \in 1..D
        BY <1>4, <1>14, <3>2 DEF ReadsOf
      <4>2. g.nodes[deps[1]].kind \in Warps /\ Arity(g.nodes[deps[1]].kind) = N /\ Len(slots[deps[1]]) = N
        BY <1>2, <1>14, <3>2 DEF Feeds
      <4>3. PICK b \in 1..(m - 1) : deps[1] = order[b]
        BY <1>1, <4>1, InputsBefore
      <4> DEFINE dep == deps[1]
                 value == Value(g, g.nodes[dep], cell)
      <4>4. value = [i \in 1..N |-> value[i]]
        <5>1. b \in 1..m /\ g.nodes[dep] = g.nodes[order[b]]
          BY <4>3
        <5> DEFINE x == g.nodes[order[b]]
        <5>2. x.kind \in Warps
          BY <4>2, <5>1
        <5> HIDE DEF x
        <5>3. x = g.nodes[order[b]]
          BY DEF x
        <5>4. FunctionOn(Value(g, x, cell), Arity(x.kind))
          BY <1>1, <1>3, <5>1, <5>2, <5>3, WarpValue
        <5> QED
          BY <4>2, <5>1, <5>3, <5>4 DEF FunctionOn
      <4>5. ASSUME NEW r \in 1..N
            PROVE  p.buffers[reads[r]].data[c] = value[r]
        <5>1. p.buffers[slots[dep][r]].data[c] = ValueOf(g, queries, dep, r, c)
          BY <1>7, <4>1, <4>2
        <5>2. ValueOf(g, queries, dep, r, c) = value[r]
          BY <4>2 DEF ValueOf, cell
        <5> QED
          BY <4>1, <5>1, <5>2
      <4>6. Input(1) = value
        BY <1>6, <4>1
      <4> HIDE DEF value
      <4>7. row = [r \in 1..N |-> value[r]]
        BY <1>9, <2>4, <4>5
      <4> QED
        BY <3>2, <4>4, <4>6, <4>7
    <3> QED
      BY <3>1, <3>2
  <2>6. a \in 1..N \/ node.kind \notin Warps
    BY DEF Width, OutputWidth
  <2> HIDE DEF position, N
  <2> QED
    BY <1>5, <1>11, <2>2, <2>3, <2>5, <2>6 DEF row
<1> QED
  BY <1>13, <1>14
-----------------------------------------------------------------------------
(* ---- nodes in trouble ------------------------------------------------- *)

Unclamped(node) == node.kind = "combine" /\ node.op = "Clamp" /\ node.params[1] > node.params[2]

(* The ways to be in trouble.                                              *)
Troubles(trouble, g, node, size, recycled) ==
  /\ NodeShort(node) => trouble = Panic
  /\ ~NodeShort(node) /\ Twice(node) => trouble = "duplicate slot"
  /\ ~NodeShort(node) /\ ~Twice(node) /\ size > 0 /\ Unclamped(node) => trouble = Panic
  /\ OffPlane(g, node) /\ ~recycled => trouble = "missing buffer"
  /\ OffPlane(g, node) /\ recycled /\ size > 0 => trouble = Panic
  /\ trouble = "none" <=>
       /\ ~NodeShort(node) /\ ~Twice(node) /\ ~(size > 0 /\ Unclamped(node))
       /\ OffPlane(g, node) => recycled /\ ~(size > 0)

LEMMA TroubleIs ==
  ASSUME NEW g, g.dimension \in {2, 3}, NEW node \in Nodes, NEW size, NEW recycled
  PROVE  Troubles(Trouble(g, node, size, recycled), g, node, size, recycled)
<1>1. CASE node.kind = "combine"
  <2>1. Trouble(g, node, size, recycled) =
          IF NodeShort(node) THEN Panic
          ELSE IF Twice(node) THEN "duplicate slot"
          ELSE IF size > 0 /\ Unclamped(node) THEN Panic ELSE "none"
    BY <1>1, Zenon DEF Trouble, NodeShort, Twice, Unclamped
  <2>2. ~OffPlane(g, node)
    BY <1>1 DEF OffPlane
  <2> QED
    BY <2>1, <2>2 DEF Panic, Troubles
<1>2. CASE node.kind # "combine"
  <2>1. ~NodeShort(node) /\ ~Twice(node) /\ ~Unclamped(node)
    BY <1>2 DEF NodeShort, Twice, Unclamped
  <2>2. Arity(node.kind) \in {2, 3}
    BY DEF Arity
  <2>3. OffPlane(g, node) <=> ~(g.dimension = 3 \/ Arity(node.kind) = 2 \/ node.source # Base)
    BY <1>2, <2>2 DEF OffPlane
  <2>4. Trouble(g, node, size, recycled) =
          IF ~OffPlane(g, node) THEN "none"
          ELSE IF ~recycled THEN "missing buffer"
          ELSE IF size > 0 THEN Panic ELSE "none"
    BY <1>2, <2>3 DEF Trouble
  <2> QED
    BY <2>1, <2>4 DEF Panic, Troubles
<1> QED
  BY <1>1, <1>2

LEMMA ClampIs ==
  ASSUME NEW g, NEW slots, NEW h, NEW k, k = KernelFor(g, slots, h)
  PROVE  Disordered(k) <=> Unclamped(g.nodes[h])
BY KernelFields DEF Disordered, Unclamped

(* What a kernel that has no trouble finds.                                *)
Found(p, k, g, node, size) ==
  LET reads == ReadSlots(k)
  IN  /\ Present(p, k)
      /\ ~OffPlane(g, node) \/ size = 0 => \A r \in DOMAIN reads : Len(p.buffers[reads[r]].data) = Total(p)
      /\ OffPlane(g, node) => 3 \in DOMAIN reads /\ Len(p.buffers[reads[3]].data) = 0

LEMMA KernelPresent ==
  ASSUME NEW g, NEW order, NEW slots, NEW queries, NEW recycled, Posed(g, order, slots, queries, recycled),
         NEW m \in 1..Len(order), NEW h, h = order[m], NEW p, Holds(p, g, order, slots, queries, recycled, m - 1),
         ~NodeShort(g.nodes[h]), ~Twice(g.nodes[h]), OffPlane(g, g.nodes[h]) => recycled,
         NEW k, k = KernelFor(g, slots, h)
  PROVE  Found(p, k, g, g.nodes[h], CutSize(queries))
<1> DEFINE reads == ReadSlots(k)
           node == g.nodes[h]
           size == CutSize(queries)
<1>1. h \in Members(order, Len(order)) /\ Planned(g, order, slots) /\ size \in Nat
  BY PosedSize DEF Members, Posed
<1>2. Total(p) = size
  BY TotalHolds
<1>3. ReadsOf(reads, g, slots, h)
  BY <1>1, ReadsAre
<1>4. Distinct(reads)
  BY <1>1, ReadsDistinct
<1>5. \A r \in 1..Len(reads) : Held(p, reads[r], size) \/ (OffPlane(g, node) /\ r = 3)
  BY ReadsHeld
<1>6. ASSUME OffPlane(g, node)
      PROVE  /\ reads[3] = 12 /\ Len(reads) = 3
             /\ 12 \in Slots(p) /\ p.buffers[12] = Buffer("f32", <<>>)
  <2>1. reads[3] = 12 /\ Len(reads) = 3
    <3>1. node.kind # "combine" /\ node.source = Base /\ Arity(node.kind) = 3
      BY <1>6 DEF OffPlane
    <3>2. reads[3] = 9 + 3
      BY <1>3, <3>1 DEF ReadsOf
    <3> QED
      BY <1>3, <3>1, <3>2 DEF ReadsOf
  <2>2. recycled /\ g.dimension = 2
    BY <1>6 DEF OffPlane
  <2>3. 12 \in Kept3(recycled)
    BY <2>2 DEF Kept3
  <2> QED
    BY <2>1, <2>2, <2>3 DEF Holds
<1>7. DOMAIN reads = 1..Len(reads)
  BY <1>3 DEF ReadsOf
<1> HIDE DEF reads, size
<1>8. \A r \in 1..Len(reads) : reads[r] \in Slots(p) /\ p.buffers[reads[r]].kind = "f32"
  BY <1>5, <1>6 DEF Held, Buffer
<1>9. ASSUME ~OffPlane(g, node) \/ size = 0, NEW r \in 1..Len(reads)
      PROVE  Len(p.buffers[reads[r]].data) = size
  <2>1. CASE Held(p, reads[r], size)
    BY <2>1 DEF Held
  <2>2. CASE OffPlane(g, node) /\ r = 3
    <3>1. p.buffers[reads[r]].data = <<>> /\ size = 0
      BY <1>6, <1>9, <2>2 DEF Buffer
    <3> QED
      BY <3>1
  <2> QED
    BY <1>5, <2>1, <2>2
<1>10. ASSUME OffPlane(g, node)
       PROVE  3 \in DOMAIN reads /\ Len(p.buffers[reads[3]].data) = 0
  <2>1. p.buffers[reads[3]].data = <<>> /\ Len(reads) = 3
    BY <1>6, <1>10 DEF Buffer
  <2> QED
    BY <1>7, <2>1
<1>11. Present(p, k)
  BY <1>4, <1>8 DEF Present, reads
<1> QED
  BY <1>2, <1>7, <1>9, <1>10, <1>11 DEF reads, size, Found

(* What it leaves.                                                         *)
LEMMA ResultsAre ==
  ASSUME NEW g, NEW order, NEW slots, NEW queries, NEW recycled, Posed(g, order, slots, queries, recycled),
         NEW m \in 1..Len(order), NEW h, h = order[m], NEW p, Holds(p, g, order, slots, queries, recycled, m - 1),
         \A j \in 1..m : ~NodeShort(g.nodes[order[j]]), ~OffPlane(g, g.nodes[h]) \/ CutSize(queries) = 0,
         NEW k, k = KernelFor(g, slots, h)
  PROVE  ResultOf(p, k) = ValueData(g, queries, h)
<1> DEFINE size == CutSize(queries)
           w == Width(g, h)
           L(a, c) == Result(k, a, RowOf(p, k, c))
           V(a, c) == ValueOf(g, queries, h, a, c)
<1>1. h \in Members(order, Len(order)) /\ Planned(g, order, slots) /\ size \in Nat
  BY PosedSize DEF Members, Posed
<1>2. Total(p) = size
  BY TotalHolds
<1>3. k.output = slots[h] /\ DOMAIN slots[h] = 1..w
  <2>1. Len(slots[h]) = w /\ h \in 1..Size(g)
    BY <1>1, FeedsIs DEF Planned
  <2>2. DOMAIN slots[h] = 1..Len(slots[h])
    BY <1>1, <2>1, SlotsTyped
  <2> QED
    BY <2>1, <2>2, KernelFields
<1>4. ASSUME NEW a \in 1..w, NEW c \in 1..size
      PROVE  L(a, c) = V(a, c)
  <2>1. ~OffPlane(g, g.nodes[h])
    BY <1>4
  <2> QED
    BY <2>1, RowComputes
<1>5. ResultOf(p, k) = [a \in 1..w |-> [c \in 1..size |-> L(a, c)]]
  BY <1>2, <1>3 DEF ResultOf
<1>6. ValueData(g, queries, h) = [a \in 1..w |-> [c \in 1..size |-> V(a, c)]]
  BY DEF ValueData
<1> HIDE DEF L, V, w, size
<1>7. \A a \in 1..w : [c \in 1..size |-> L(a, c)] = [c \in 1..size |-> V(a, c)]
  BY <1>4
<1> QED
  BY <1>5, <1>6, <1>7

TroubleOf(g, queries, recycled, h) == Trouble(g, g.nodes[h], CutSize(queries), recycled)

(* A kernel leaves what the next one wants, and nothing else differs.      *)
LEMMA HoldsNext ==
  ASSUME NEW g, NEW order, NEW slots, NEW queries, NEW recycled, Posed(g, order, slots, queries, recycled),
         NEW m \in 1..Len(order), NEW h, h = order[m], NEW p, Holds(p, g, order, slots, queries, recycled, m - 1),
         NEW q, OutputOf(q, p, slots[h], ValueData(g, queries, h))
  PROVE  Holds(q, g, order, slots, queries, recycled, m)
<1> DEFINE d == g.dimension
           out == Members(slots[h], Len(slots[h]))
<1>1. h \in Members(order, Len(order)) /\ Planned(g, order, slots) /\ d \in {2, 3}
  BY PosedSize DEF Members, Posed
<1>2. h \in 1..Size(g)
  BY <1>1, FeedsIs
<1>3. slots[h] \in Seq(Nat) /\ Len(slots[h]) \in Nat /\ DOMAIN slots[h] = 1..Len(slots[h])
  BY <1>1, <1>2, SlotsTyped
<1>4. ToSet(slots[h]) = out /\ out = {slots[h][a] : a \in 1..Len(slots[h])}
  BY <1>3 DEF ToSet, Members
<1>5. \A s \in out : s >= 32 /\ s \in Nat
  <2> TAKE s \in out
  <2>1. PICK a \in 1..Len(slots[h]) : s = slots[h][a]
    BY <1>4
  <2> QED
    BY <1>1, <1>2, <2>1 DEF Planned
<1>6. /\ Regular(q) /\ q.count = p.count /\ Slots(q) = Slots(p) \cup out
      /\ \A a \in 1..Len(slots[h]) : q.buffers[slots[h][a]] = Buffer("f32", ValueData(g, queries, h)[a])
      /\ \A s \in Slots(p) : s \notin out => q.buffers[s] = p.buffers[s]
  BY <1>3, <1>4 DEF OutputOf
<1>7. m - 1 \in Nat /\ m \in Nat /\ (1..(m - 1)) \cup {m} = 1..m
  BY PosedSize
<1>8. Taken(order, slots, m) = Taken(order, slots, m - 1) \cup out
  <2>1. \A s : s \in Taken(order, slots, m) <=> \E i \in 1..m : s \in Members(slots[order[i]], Len(slots[order[i]]))
    BY DEF Taken
  <2>2. \A s : s \in Taken(order, slots, m - 1) <=> \E i \in 1..(m - 1) : s \in Members(slots[order[i]], Len(slots[order[i]]))
    BY DEF Taken
  <2>3. out = Members(slots[order[m]], Len(slots[order[m]]))
    OBVIOUS
  <2> HIDE DEF out
  <2>4. \A s : s \in Taken(order, slots, m) <=> s \in Taken(order, slots, m - 1) \/ s \in out
    BY <1>7, <2>1, <2>2, <2>3
  <2> QED
    BY <2>4
<1> HIDE DEF out
<1>9. /\ p.count = Len(queries)
      /\ Slots(p) = {0, 1, 2} \cup Kept3(recycled) \cup (10..(9 + d)) \cup Taken(order, slots, m - 1)
      /\ p.buffers[0] = Buffer("u32", Meta(queries))
      /\ p.buffers[1] = Buffer("f32", Floats(queries))
      /\ p.buffers[2] = Buffer("u32", Offsets(queries))
      /\ \A a \in 1..d : p.buffers[9 + a] = Buffer("f32", CellData(queries, d)[a])
      /\ recycled /\ d = 2 => p.buffers[12] = Buffer("f32", <<>>)
      /\ \A i \in 1..(m - 1) : \A a \in 1..Len(slots[order[i]]) :
           p.buffers[slots[order[i]][a]] = Buffer("f32", ValueData(g, queries, order[i])[a])
  BY DEF Holds
<1>10. ASSUME NEW s \in Slots(p), s \in 0..31
       PROVE  q.buffers[s] = p.buffers[s]
  <2>1. s \notin out
    BY <1>5, <1>10
  <2> QED
    BY <1>6, <2>1
<1>11. /\ q.buffers[0] = Buffer("u32", Meta(queries))
       /\ q.buffers[1] = Buffer("f32", Floats(queries))
       /\ q.buffers[2] = Buffer("u32", Offsets(queries))
  <2>1. \A s \in {0, 1, 2} : s \in Slots(p) /\ s \in 0..31
    BY <1>9
  <2> QED
    BY <1>9, <1>10, <2>1
<1>12. \A a \in 1..d : q.buffers[9 + a] = Buffer("f32", CellData(queries, d)[a])
  <2> TAKE a \in 1..d
  <2>1. 9 + a \in 10..(9 + d) /\ 9 + a \in 0..31
    BY <1>1
  <2>2. 9 + a \in Slots(p)
    BY <1>9, <2>1
  <2> QED
    BY <1>9, <1>10, <2>1, <2>2
<1>13. recycled /\ d = 2 => q.buffers[12] = Buffer("f32", <<>>)
  <2> SUFFICES ASSUME recycled, d = 2
               PROVE  q.buffers[12] = Buffer("f32", <<>>)
    OBVIOUS
  <2>1. 12 \in Slots(p)
    BY <1>9 DEF Kept3
  <2>2. p.buffers[12] = Buffer("f32", <<>>)
    BY <1>9
  <2>3. 12 \in 0..31
    OBVIOUS
  <2>4. q.buffers[12] = p.buffers[12]
    BY <1>10, <2>1, <2>3
  <2> QED
    BY <2>2, <2>4
<1>14. ASSUME NEW i \in 1..m, NEW a \in 1..Len(slots[order[i]])
       PROVE  q.buffers[slots[order[i]][a]] = Buffer("f32", ValueData(g, queries, order[i])[a])
  <2>1. CASE i = m
    BY <1>6, <2>1
  <2>2. CASE i # m
    <3>1. i \in 1..(m - 1) /\ i \in 1..Len(order)
      BY <1>7, <2>2, PosedSize
    <3>2. slots[order[i]][a] \in Slots(p)
      <4>1. slots[order[i]][a] \in Members(slots[order[i]], Len(slots[order[i]]))
        BY DEF Members
      <4>2. slots[order[i]][a] \in Taken(order, slots, m - 1)
        BY <3>1, <4>1 DEF Taken
      <4> QED
        BY <1>9, <4>2
    <3>3. slots[order[i]][a] \notin out
      <4>1. order[i] # h /\ order[i] \in 1..Size(g)
        BY <2>2, <3>1, PosedSize DEF Distinct
      <4>2. ASSUME NEW b \in 1..Len(slots[h]), slots[order[i]][a] = slots[h][b]
            PROVE  FALSE
        BY <1>1, <1>2, <4>1, <4>2, SlotsApart, SMTT(30)
      <4> QED
        BY <1>4, <4>2
    <3> QED
      BY <1>6, <1>9, <3>1, <3>2, <3>3
  <2> QED
    BY <2>1, <2>2
<1>15. q.count = Len(queries)
  BY <1>6, <1>9
<1>16. Slots(q) = {0, 1, 2} \cup Kept3(recycled) \cup (10..(9 + d)) \cup Taken(order, slots, m)
  <2>1. Slots(q) = Slots(p) \cup out
    BY <1>6
  <2> HIDE DEF d
  <2> QED
    BY <1>8, <1>9, <2>1
<1> QED
  BY <1>6, <1>11, <1>12, <1>13, <1>14, <1>15, <1>16 DEF Holds

LEMMA StepWorks ==
  ASSUME NEW g, NEW order, NEW slots, NEW queries, NEW recycled, Posed(g, order, slots, queries, recycled),
         NEW m \in 1..Len(order), NEW h, h = order[m], NEW p, Holds(p, g, order, slots, queries, recycled, m - 1),
         \A j \in 1..m : TroubleOf(g, queries, recycled, order[j]) = "none",
         NEW r, r = StageRun(p, KernelOf(g, slots, h))
  PROVE  r.error = "none" /\ Holds(r.packet, g, order, slots, queries, recycled, m)
<1> DEFINE k == KernelFor(g, slots, h)
           node == g.nodes[h]
           size == CutSize(queries)
<1>1. h \in Members(order, Len(order)) /\ Planned(g, order, slots) /\ size \in Nat /\ g.dimension \in {2, 3} /\ m \in 1..m
  BY PosedSize DEF Members, Posed
<1>2. ASSUME NEW j \in 1..m
      PROVE  /\ ~NodeShort(g.nodes[order[j]]) /\ ~Twice(g.nodes[order[j]])
             /\ ~(size > 0 /\ Unclamped(g.nodes[order[j]]))
             /\ OffPlane(g, g.nodes[order[j]]) => recycled /\ ~(size > 0)
  <2>1. order[j] \in Members(order, Len(order))
    BY PosedSize
  <2>2. g.nodes[order[j]] \in Nodes
    BY <1>1, <2>1, FeedsIs
  <2>3. Trouble(g, g.nodes[order[j]], size, recycled) = "none"
    BY DEF TroubleOf
  <2> HIDE DEF size
  <2>4. Troubles(Trouble(g, g.nodes[order[j]], size, recycled), g, g.nodes[order[j]], size, recycled)
    BY <1>1, <2>2, TroubleIs
  <2> QED
    BY <2>3, <2>4 DEF Troubles
<1>3. r = KernelRun(p, k)
  BY <1>1, KernelIs
<1>4. ~NodeShort(node) /\ ~Twice(node) /\ ~(size > 0 /\ Unclamped(node)) /\ (OffPlane(g, node) => recycled /\ size = 0)
  BY <1>1, <1>2
<1> HIDE DEF k
<1>5. k = KernelFor(g, slots, h)
  BY DEF k
<1>6. Ready(p, k) /\ Total(p) = size
  BY <1>4, <1>5, KernelReady
<1>7. Present(p, k) /\ \A b \in DOMAIN ReadSlots(k) : Len(p.buffers[ReadSlots(k)[b]].data) = Total(p)
  <2>1. Found(p, k, g, node, size)
    BY <1>4, <1>5, KernelPresent
  <2> HIDE DEF node, size
  <2> QED
    BY <1>4, <2>1 DEF Found
<1>8. ~Short(k) /\ (Disordered(k) <=> Unclamped(node)) /\ k.output = slots[h]
  BY <1>1, <1>4, <1>5, ShortIs, ClampIs, KernelFields
<1>9. r.error = "none" /\ OutputOf(r.packet, p, k.output, ResultOf(p, k))
  BY <1>3, <1>4, <1>6, <1>7, <1>8, KernelWorks
<1>10. ResultOf(p, k) = ValueData(g, queries, h)
  BY <1>2, <1>4, <1>5, ResultsAre
<1> QED
  BY <1>8, <1>9, <1>10, HoldsNext

(* A kernel in trouble fails as its node says.                             *)
LEMMA StepFails ==
  ASSUME NEW g, NEW order, NEW slots, NEW queries, NEW recycled, Posed(g, order, slots, queries, recycled),
         NEW m \in 1..Len(order), NEW h, h = order[m], NEW p, Holds(p, g, order, slots, queries, recycled, m - 1),
         TroubleOf(g, queries, recycled, h) # "none",
         NEW r, r = StageRun(p, KernelOf(g, slots, h))
  PROVE  r.error = TroubleOf(g, queries, recycled, h)
<1> DEFINE k == KernelFor(g, slots, h)
           node == g.nodes[h]
           size == CutSize(queries)
           reads == ReadSlots(k)
           all == reads \o k.output
           q == EnsuredAll(p, k.output)
           trouble == Trouble(g, node, size, recycled)
<1>1. h \in Members(order, Len(order)) /\ Planned(g, order, slots) /\ size \in Nat /\ g.dimension \in {2, 3}
  BY PosedSize DEF Members, Posed
<1>2. node \in Nodes /\ trouble # "none" /\ TroubleOf(g, queries, recycled, h) = trouble
  BY <1>1, FeedsIs DEF TroubleOf
<1>3. r = KernelRun(p, k)
  BY <1>1, KernelIs
<1> HIDE DEF k
<1>4. k = KernelFor(g, slots, h)
  BY DEF k
<1>5. Short(k) <=> NodeShort(node)
  BY <1>1, <1>4, ShortIs
<1> HIDE DEF size
<1>6. /\ NodeShort(node) => trouble = Panic
      /\ ~NodeShort(node) /\ Twice(node) => trouble = "duplicate slot"
      /\ ~NodeShort(node) /\ ~Twice(node) /\ size > 0 /\ Unclamped(node) => trouble = Panic
      /\ OffPlane(g, node) /\ ~recycled => trouble = "missing buffer"
      /\ OffPlane(g, node) /\ recycled /\ size > 0 => trouble = Panic
      /\ trouble = "none" <=>
              /\ ~NodeShort(node) /\ ~Twice(node) /\ ~(size > 0 /\ Unclamped(node))
              /\ OffPlane(g, node) => recycled /\ ~(size > 0)
  <2>1. Troubles(trouble, g, node, size, recycled)
    BY <1>1, <1>2, TroubleIs
  <2> HIDE DEF trouble, node
  <2> QED
    BY <2>1 DEF Troubles
<1> HIDE DEF trouble
<1>7. CASE NodeShort(node)
  BY <1>2, <1>3, <1>5, <1>6, <1>7, KernelIsShort
<1>8. ASSUME ~NodeShort(node)
      PROVE  /\ Ready(p, k) /\ Total(p) = size /\ Finds(q, p, k) /\ ReadsOf(reads, g, slots, h)
             /\ \A i \in 1..Len(reads) : Held(p, reads[i], size) \/ (OffPlane(g, node) /\ i = 3)
  <2>1. Ready(p, k) /\ Total(p) = size
    BY <1>4, <1>8, KernelReady DEF size
  <2>2. Finds(q, p, k)
    BY <2>1, FindsIs
  <2>3. ReadsOf(reads, g, slots, h)
    BY <1>1, <1>4, <1>8, ReadsAre
  <2>4. \A i \in 1..Len(reads) : Held(p, reads[i], size) \/ (OffPlane(g, node) /\ i = 3)
    BY <1>4, <1>8, ReadsHeld DEF size
  <2> QED
    BY <2>1, <2>2, <2>3, <2>4
<1>9. CASE ~NodeShort(node) /\ Twice(node)
  <2>1. Finds(q, p, k) /\ ReadsOf(reads, g, slots, h) /\ Len(reads) \in Nat
    BY <1>8, <1>9 DEF ReadsOf
  <2>2. /\ node.kind = "combine" /\ InputsOf(node.op) = 2 /\ node.inputs[1] = node.inputs[2]
        /\ ~OffPlane(g, node) /\ node.op # "YGradient"
    BY <1>9 DEF Twice, OffPlane, InputsOf
  <2>3. /\ Len(reads) = 2 /\ 1 \in 1..Degree(g, h) /\ 2 \in 1..Degree(g, h)
        /\ reads[1] = slots[Dependencies(g, h)[1]][1] /\ reads[2] = slots[Dependencies(g, h)[2]][1]
    <3>1. Len(reads) = 2 /\ \A a \in 1..2 : a \in 1..Degree(g, h) /\ reads[a] = slots[Dependencies(g, h)[a]][1]
      BY <2>1, <2>2 DEF ReadsOf
    <3> QED
      BY <3>1
  <2>4. reads[1] = reads[2]
    <3>1. Feeds(g, order, slots, h)
      BY <1>1, FeedsIs, SMTT(30)
    <3>2. Dependencies(g, h)[1] = Resolve(g, node.inputs[1]) /\ Dependencies(g, h)[2] = Resolve(g, node.inputs[2])
      BY <2>2, <2>3, <3>1 DEF Feeds
    <3> QED
      BY <2>2, <2>3, <3>2
  <2>5. \A i \in 1..2 : reads[i] \in Slots(p) /\ p.buffers[reads[i]].kind = "f32"
    BY <1>8, <1>9, <2>2, <2>3 DEF Held
  <2>6. /\ DOMAIN all = 1..(2 + Len(k.output)) /\ Len(k.output) \in Nat /\ all[1] = reads[1] /\ all[2] = reads[2]
        /\ \A i \in 1..2 : reads[i] \in Slots(q) /\ q.buffers[reads[i]] = p.buffers[reads[i]]
    BY <2>1, <2>3, <2>5 DEF Finds
  <2> HIDE DEF reads, all, q
  <2>7. Grants(q, all, 2)
    BY <2>5, <2>6 DEF Grants
  <2>8. 2 \in 1..(2 + Len(k.output)) /\ 2 + Len(k.output) \in Nat /\ 1 \in 1..(2 - 1)
    BY <2>6
  <2>9. SlicesError(q, all, "f32") = "duplicate slot"
    <3>1. all[2] \in Slots(q) /\ all[1] = all[2]
      BY <2>4, <2>6
    <3> QED
      BY <2>6, <2>7, <2>8, <3>1, SlicesRefused
  <2>10. KernelRun(p, k).error = "duplicate slot"
    BY <1>5, <1>9, <2>9, KernelRefused DEF q, all, reads
  <2> QED
    BY <1>2, <1>3, <1>6, <1>9, <2>10
<1>10. CASE ~NodeShort(node) /\ OffPlane(g, node) /\ ~recycled
  <2>1. Finds(q, p, k) /\ ReadsOf(reads, g, slots, h) /\ Len(reads) \in Nat
    BY <1>8, <1>10 DEF ReadsOf
  <2>2. node.kind # "combine" /\ node.source = Base /\ Arity(node.kind) = 3 /\ g.dimension = 2
    BY <1>10 DEF OffPlane
  <2>3. Len(reads) = 3 /\ \A a \in 1..3 : reads[a] = 9 + a
    BY <2>1, <2>2 DEF ReadsOf
  <2>4. \A i \in 1..2 : reads[i] \in Slots(p) /\ p.buffers[reads[i]].kind = "f32"
    BY <1>8, <1>10, <2>3 DEF Held
  <2>5. 12 \notin Slots(p)
    <3>1. Slots(p) = {0, 1, 2} \cup Kept3(recycled) \cup (10..(9 + g.dimension)) \cup Taken(order, slots, m - 1)
      BY DEF Holds
    <3>2. 12 \notin Taken(order, slots, m - 1)
      <4> SUFFICES ASSUME NEW i \in 1..(m - 1), NEW a \in 1..Len(slots[order[i]])
                   PROVE  slots[order[i]][a] # 12
        BY DEF Taken, Members
      <4>1. order[i] \in 1..Size(g)
        BY PosedSize
      <4>2. slots[order[i]][a] >= 32
        BY <1>1, <4>1 DEF Planned
      <4> QED
        BY <4>2
    <3>3. Kept3(recycled) = {}
      BY <1>10 DEF Kept3
    <3> QED
      BY <2>2, <3>1, <3>2, <3>3
  <2>6. /\ DOMAIN all = 1..(3 + Len(k.output)) /\ Len(k.output) \in Nat /\ \A i \in 1..3 : all[i] = reads[i]
        /\ \A i \in 1..2 : reads[i] \in Slots(q) /\ q.buffers[reads[i]] = p.buffers[reads[i]]
        /\ reads[3] \notin Slots(q)
    BY <2>1, <2>3, <2>4, <2>5 DEF Finds
  <2> HIDE DEF reads, all, q
  <2>7. Grants(q, all, 3)
    <3>1. \A i \in 1..2 : all[i] \in Slots(q) /\ q.buffers[all[i]].kind = "f32"
      BY <2>4, <2>6
    <3>2. all[1] # all[2]
      BY <2>3, <2>6
    <3> QED
      BY <3>1, <3>2 DEF Grants
  <2>8. SlicesError(q, all, "f32") = "missing buffer"
    <3>1. all[3] \notin Slots(q) /\ 3 \in 1..(3 + Len(k.output)) /\ 3 + Len(k.output) \in Nat
      BY <2>6
    <3> QED
      BY <2>6, <2>7, <3>1, SlicesRefused
  <2>9. KernelRun(p, k).error = "missing buffer"
    BY <1>5, <1>10, <2>8, KernelRefused DEF q, all, reads
  <2> QED
    BY <1>2, <1>3, <1>6, <1>10, <2>9
<1>11. CASE ~NodeShort(node) /\ ~Twice(node) /\ (OffPlane(g, node) => recycled)
  <2>1. Ready(p, k) /\ Total(p) = size
    BY <1>8, <1>11
  <2>2. Present(p, k) /\ (OffPlane(g, node) => 3 \in DOMAIN reads /\ Len(p.buffers[reads[3]].data) = 0)
    <3>1. Found(p, k, g, node, size)
      BY <1>4, <1>11, KernelPresent DEF size
    <3> HIDE DEF node
    <3> QED
      BY <3>1 DEF Found
  <2>3. size > 0 /\ (Unclamped(node) \/ OffPlane(g, node))
    BY <1>2, <1>6, <1>11
  <2>4. Disordered(k) <=> Unclamped(node)
    BY <1>4, ClampIs
  <2>5. Disordered(k) \/ \E b \in DOMAIN ReadSlots(k) : Len(p.buffers[ReadSlots(k)[b]].data) < Total(p)
    BY <1>1, <2>1, <2>2, <2>3, <2>4
  <2>6. KernelRun(p, k).error = Panic
    BY <1>5, <1>11, <2>1, <2>2, <2>3, <2>5, KernelPanics
  <2> QED
    BY <1>2, <1>3, <1>6, <1>11, <2>3, <2>6
<1> QED
  BY <1>7, <1>9, <1>10, <1>11
-----------------------------------------------------------------------------
(* ---- jobs ------------------------------------------------------------- *)

LEMMA GridStage ==
  ASSUME NEW g, g.dimension \in {2, 3}, NEW p
  PROVE  StageRun(p, GridOf(g)) = GridRun(p, g.dimension)
BY DEF StageRun, GridOf

LEMMA GridHolds ==
  ASSUME NEW g, NEW order, NEW slots, NEW queries, NEW recycled, Posed(g, order, slots, queries, recycled),
         NEW p, EncodedOf(p, queries, recycled), NEW r, r = StageRun(p, GridOf(g))
  PROVE  r.error = "none" /\ Holds(r.packet, g, order, slots, queries, recycled, 0)
<1> DEFINE d == g.dimension
           q == r.packet
<1>1. d \in {2, 3} /\ QueriesOK(queries, d) /\ CutSize(queries) < Word /\ recycled \in BOOLEAN
  BY PosedSize DEF Posed
<1>2. r = GridRun(p, d)
  BY <1>1, GridStage
<1>3. r.error = "none" /\ OutputOf(q, p, Coords(d), CellData(queries, d))
  BY <1>1, <1>2, GridIs
<1>4. /\ p.count = Len(queries) /\ Slots(p) = {0, 1, 2} \cup Kept3(recycled)
      /\ p.buffers[0] = Buffer("u32", Meta(queries))
      /\ p.buffers[1] = Buffer("f32", Floats(queries))
      /\ p.buffers[2] = Buffer("u32", Offsets(queries))
      /\ \A s \in Kept3(recycled) : p.buffers[s] = Buffer("f32", <<>>)
  BY DEF EncodedOf, QueryMeta, QueryF32, QueryOffsets
<1> HIDE DEF q
<1>5. /\ DOMAIN Coords(d) = 1..d /\ ToSet(Coords(d)) = 10..(9 + d) /\ \A a \in 1..d : Coords(d)[a] = 9 + a
  BY <1>1, CoordsAre
<1>6. /\ Regular(q) /\ q.count = p.count /\ Slots(q) = Slots(p) \cup (10..(9 + d))
      /\ \A a \in 1..d : q.buffers[9 + a] = Buffer("f32", CellData(queries, d)[a])
      /\ \A s \in Slots(p) : s \notin 10..(9 + d) => q.buffers[s] = p.buffers[s]
  BY <1>3, <1>5 DEF OutputOf
<1>7. Taken(order, slots, 0) = {}
  BY DEF Taken
<1>8. Slots(q) = {0, 1, 2} \cup Kept3(recycled) \cup (10..(9 + d)) \cup Taken(order, slots, 0)
  BY <1>4, <1>6, <1>7
<1>9. q.buffers[0] = p.buffers[0] /\ q.buffers[1] = p.buffers[1] /\ q.buffers[2] = p.buffers[2]
  <2>1. \A s \in {0, 1, 2} : s \in Slots(p) /\ s \notin 10..(9 + d)
    BY <1>1, <1>4
  <2> QED
    BY <1>6, <2>1
<1>10. ASSUME recycled, d = 2
       PROVE  q.buffers[12] = Buffer("f32", <<>>)
  <2>1. 12 \in Kept3(recycled)
    BY <1>10 DEF Kept3
  <2>2. 12 \in Slots(p)
    BY <1>4, <2>1
  <2>3. 12 \notin 10..(9 + d)
    <3>1. 9 + d = 11
      BY <1>10
    <3> QED
      BY <3>1
  <2>4. q.buffers[12] = p.buffers[12]
    BY <1>6, <2>2, <2>3
  <2> QED
    BY <1>4, <2>1, <2>4
<1>11. q.count = Len(queries)
  BY <1>4, <1>6
<1>12. \A i \in 1..0 : \A a \in 1..Len(slots[order[i]]) : q.buffers[slots[order[i]][a]] = Buffer("f32", ValueData(g, queries, order[i])[a])
  OBVIOUS
<1>13. Holds(q, g, order, slots, queries, recycled, 0)
  BY <1>4, <1>6, <1>8, <1>9, <1>10, <1>11, <1>12 DEF Holds
<1> QED
  BY <1>3, <1>13 DEF q

(* A packet of which every buffer is wanted as it is, or is empty.         *)
LEMMA AnyLength ==
  ASSUME NEW spec, spec.layout = "dynamic", NEW count, NEW len
  PROVE  LengthFits(spec, count, len)
BY DEF LengthFits

LEMMA BufferFits ==
  ASSUME NEW made, NEW p, NEW s, Takes(made, s, p.buffers[s].kind),
         s \in Declared(made) \/ p.buffers[s].data = <<>>
  PROVE  IF s \notin Declared(made) THEN p.buffers[s].data = <<>>
         ELSE /\ SpecOf(made, s).kind = p.buffers[s].kind
              /\ LengthFits(SpecOf(made, s), p.count, Len(p.buffers[s].data))
BY AnyLength DEF Takes

LEMMA EncodedValid ==
  ASSUME NEW g, GraphOK(g), NEW order, NEW slots, NEW made, CompiledTo(made, g, order, slots),
         NEW queries, NEW recycled, NEW p, EncodedOf(p, queries, recycled)
  PROVE  ValidPacket(made, p)
<1>1. /\ Has(made, 0, "u32") /\ Has(made, 1, "f32") /\ Has(made, 2, "u32")
      /\ \A slot \in Nat : slot > 2 => Takes(made, slot, "f32")
  BY PlanTakes
<1>2. /\ Slots(p) = {0, 1, 2} \cup Kept3(recycled)
      /\ p.buffers[0].kind = "u32" /\ p.buffers[1].kind = "f32" /\ p.buffers[2].kind = "u32"
      /\ \A s \in Kept3(recycled) : p.buffers[s].kind = "f32" /\ p.buffers[s].data = <<>>
  BY DEF EncodedOf, QueryMeta, QueryF32, QueryOffsets, Buffer
<1>3. \A s \in Kept3(recycled) : s \in Nat /\ s > 2
  BY DEF Kept3
<1>4. ASSUME NEW s \in Slots(p)
      PROVE  Takes(made, s, p.buffers[s].kind) /\ (s \in Declared(made) \/ p.buffers[s].data = <<>>)
  <2>1. CASE s \in {0, 1, 2}
    BY <1>1, <1>2, <2>1 DEF Has
  <2>2. CASE s \in Kept3(recycled)
    BY <1>1, <1>2, <1>3, <2>2
  <2> QED
    BY <1>2, <2>1, <2>2
<1> QED
  BY <1>4, BufferFits DEF ValidPacket

LEMMA HoldsValid ==
  ASSUME NEW g, NEW order, NEW slots, NEW queries, NEW recycled, Posed(g, order, slots, queries, recycled),
         NEW made, CompiledTo(made, g, order, slots),
         NEW m \in 0..Len(order), NEW p, Holds(p, g, order, slots, queries, recycled, m)
  PROVE  ValidPacket(made, p)
<1> DEFINE d == g.dimension
<1>1. d \in {2, 3} /\ GraphOK(g) /\ Planned(g, order, slots) /\ Len(order) \in Nat
  BY PosedSize DEF Posed
<1>2. /\ Has(made, 0, "u32") /\ Has(made, 1, "f32") /\ Has(made, 2, "u32")
      /\ \A slot \in Nat : slot > 2 => Takes(made, slot, "f32")
      /\ \A a \in 1..d : 9 + a \in Declared(made)
      /\ \A h \in Members(order, Len(order)) : \A i \in 1..Len(slots[h]) : slots[h][i] \in Declared(made)
  BY <1>1, PlanTakes
<1>3. /\ Slots(p) = {0, 1, 2} \cup Kept3(recycled) \cup (10..(9 + d)) \cup Taken(order, slots, m)
      /\ p.buffers[0].kind = "u32" /\ p.buffers[1].kind = "f32" /\ p.buffers[2].kind = "u32"
      /\ \A a \in 1..d : p.buffers[9 + a].kind = "f32"
      /\ recycled /\ d = 2 => p.buffers[12].kind = "f32" /\ p.buffers[12].data = <<>>
      /\ \A i \in 1..m : \A a \in 1..Len(slots[order[i]]) : p.buffers[slots[order[i]][a]].kind = "f32"
  <2>1. \A kind, data : Buffer(kind, data).kind = kind /\ Buffer(kind, data).data = data
    BY DEF Buffer
  <2>2. /\ Slots(p) = {0, 1, 2} \cup Kept3(recycled) \cup (10..(9 + d)) \cup Taken(order, slots, m)
        /\ p.buffers[0].kind = "u32" /\ p.buffers[1].kind = "f32" /\ p.buffers[2].kind = "u32"
    BY <2>1 DEF Holds
  <2>3. \A a \in 1..d : p.buffers[9 + a].kind = "f32"
    BY <2>1 DEF Holds
  <2>4. recycled /\ d = 2 => p.buffers[12].kind = "f32" /\ p.buffers[12].data = <<>>
    BY <2>1 DEF Holds
  <2>5. ASSUME NEW i \in 1..m, NEW a \in 1..Len(slots[order[i]])
        PROVE  p.buffers[slots[order[i]][a]].kind = "f32"
    <3>1. p.buffers[slots[order[i]][a]] = Buffer("f32", ValueData(g, queries, order[i])[a])
      BY DEF Holds
    <3> QED
      BY <2>1, <3>1
  <2> QED
    BY <2>2, <2>3, <2>4, <2>5
<1>4. ASSUME NEW s \in 10..(9 + d)
      PROVE  p.buffers[s].kind = "f32" /\ s \in Declared(made) /\ s \in Nat /\ s > 2
  <2>1. s - 9 \in 1..d /\ 9 + (s - 9) = s /\ s \in Nat /\ s > 2
    BY <1>1
  <2> QED
    BY <1>2, <1>3, <2>1
<1>5. ASSUME NEW s \in Kept3(recycled), s \notin 10..(9 + d)
      PROVE  p.buffers[s].kind = "f32" /\ p.buffers[s].data = <<>> /\ s \in Nat /\ s > 2
  <2>1. recycled /\ s \in {10, 11, 12}
    BY <1>5 DEF Kept3
  <2>2. s = 12 /\ d = 2
    BY <1>1, <1>5, <2>1
  <2> QED
    BY <1>3, <2>1, <2>2
<1>6. ASSUME NEW s \in Taken(order, slots, m)
      PROVE  p.buffers[s].kind = "f32" /\ s \in Declared(made) /\ s \in Nat /\ s > 2
  <2>1. PICK i \in 1..m : s \in Members(slots[order[i]], Len(slots[order[i]]))
    BY DEF Taken
  <2>2. PICK a \in 1..Len(slots[order[i]]) : s = slots[order[i]][a]
    BY <2>1 DEF Members
  <2>3. order[i] \in Members(order, Len(order)) /\ order[i] \in 1..Size(g)
    BY <1>1, PosedSize
  <2>4. slots[order[i]][a] \in Nat /\ slots[order[i]][a] >= 32
    BY <1>1, <2>3 DEF Planned
  <2> QED
    BY <1>2, <1>3, <2>2, <2>3, <2>4
<1>7. ASSUME NEW s \in Slots(p)
      PROVE  Takes(made, s, p.buffers[s].kind) /\ (s \in Declared(made) \/ p.buffers[s].data = <<>>)
  <2>1. CASE s \in {0, 1, 2}
    BY <1>2, <1>3, <2>1 DEF Has
  <2>2. CASE s \in 10..(9 + d)
    BY <1>2, <1>4, <2>2
  <2>3. CASE s \in Kept3(recycled) /\ s \notin 10..(9 + d)
    BY <1>2, <1>5, <2>3
  <2>4. CASE s \in Taken(order, slots, m)
    BY <1>2, <1>6, <2>4
  <2> QED
    BY <1>3, <2>1, <2>2, <2>3, <2>4
<1> QED
  BY <1>7, BufferFits DEF ValidPacket

(* The parts of Job.                                                       *)
CheckedRun(made, r) ==
  IF r.error = "none" /\ debug /\ ~ValidPacket(made, r.packet) THEN [r EXCEPT !.error = "refused"] ELSE r

StageStep(made, r, stage) == IF r.error = "none" THEN CheckedRun(made, StageRun(r.packet, stage[1])) ELSE r

JobStart(made, queries, p) == CheckedRun(made, [packet |-> Encoded(p, queries), error |-> "none"])

JobEnd(made, queries, p) ==
  FoldLeft(LAMBDA r, stage : StageStep(made, r, stage), JobStart(made, queries, p), made.stages)

LEMMA JobIs ==
  ASSUME NEW made, NEW queries, NEW p, NEW one
  PROVE  Job(made, queries, p, one, debug) =
           IF EncodePanics(made, queries, debug) THEN [error |-> Panic, values |-> <<>>]
           ELSE IF JobEnd(made, queries, p).error # "none" THEN [error |-> JobEnd(made, queries, p).error, values |-> <<>>]
           ELSE Resolution(JobEnd(made, queries, p).packet, made.final, one)
BY Zenon DEF Job, JobEnd, JobStart, StageStep, CheckedRun

(* The results that a job goes through.                                    *)
Running(f, made, start, n) ==
  f = [s \in SUBSET (1..n) |-> IF s = {} THEN start ELSE StageStep(made, f[s \ {Max(s)}], made.stages[Max(s)])]

LEMMA RunsExist ==
  ASSUME NEW made, NEW start, NEW n \in Nat
  PROVE  \E f : Running(f, made, start, n)
<1> DEFINE T == {m \in Nat : \E f : Running(f, made, start, m)}
           Op(r, i) == StageStep(made, r, made.stages[i])
<1>1. 0 \in T
  <2> DEFINE f == [s \in SUBSET (1..0) |-> start]
  <2>1. f = [s \in SUBSET (1..0) |-> IF s = {} THEN start ELSE Op(f[s \ {Max(s)}], Max(s))]
    <3>1. \A s \in SUBSET (1..0) : s = {}
      OBVIOUS
    <3> HIDE DEF Op
    <3> QED
      BY <3>1
  <2> HIDE DEF f
  <2>2. Running(f, made, start, 0)
    BY <2>1 DEF Running
  <2> QED
    BY <2>2
<1>2. ASSUME NEW m \in Nat, m \in T
      PROVE  m + 1 \in T
  <2>1. PICK f : Running(f, made, start, m)
    BY <1>2
  <2>2. f = [s \in SUBSET (1..m) |-> IF s = {} THEN start ELSE Op(f[s \ {Max(s)}], Max(s))]
    BY <2>1 DEF Running
  <2> HIDE DEF Op
  <2> DEFINE top == m + 1
             h == [s \in SUBSET (1..top) |-> IF top \in s THEN Op(f[s \ {top}], top) ELSE f[s]]
  <2>3. \A s \in SUBSET (1..top) : IF top \in s THEN s \ {top} \in SUBSET (1..m) ELSE s \in SUBSET (1..m)
    OBVIOUS
  <2>4. ASSUME NEW s \in SUBSET (1..top)
        PROVE  h[s] = IF s = {} THEN start ELSE Op(h[s \ {Max(s)}], Max(s))
    <3>1. CASE top \in s
      <4>1. Max(s) \in s /\ Max(s) >= top /\ Max(s) \in 1..top
        <5>1. top \in Nat /\ s # {}
          BY <3>1
        <5> HIDE DEF top
        <5> QED
          BY <3>1, <5>1, MaxOf
      <4>2. Max(s) = top
        BY <4>1
      <4>3. h[s] = Op(f[s \ {top}], top) /\ h[s \ {top}] = f[s \ {top}]
        BY <2>3, <3>1
      <4> QED
        BY <3>1, <4>2, <4>3
    <3>2. CASE top \notin s
      <4>1. s \in SUBSET (1..m) /\ h[s] = f[s]
        BY <2>3, <3>2
      <4>2. CASE s = {}
        BY <2>2, <4>1, <4>2
      <4>3. CASE s # {}
        <5>1. s \ {Max(s)} \in SUBSET (1..m) /\ s \ {Max(s)} \in SUBSET (1..top) /\ top \notin s \ {Max(s)}
          BY <3>2, <4>1
        <5>2. h[s \ {Max(s)}] = f[s \ {Max(s)}]
          BY <5>1
        <5>3. f[s] = Op(f[s \ {Max(s)}], Max(s))
          BY <2>2, <4>1, <4>3
        <5> QED
          BY <4>1, <4>3, <5>2, <5>3
      <4> QED
        BY <4>2, <4>3
    <3> QED
      BY <3>1, <3>2
  <2>5. h = [s \in SUBSET (1..top) |-> h[s]]
    OBVIOUS
  <2> HIDE DEF h
  <2>6. h = [s \in SUBSET (1..top) |-> IF s = {} THEN start ELSE Op(h[s \ {Max(s)}], Max(s))]
    BY <2>4, <2>5
  <2>7. Running(h, made, start, top)
    BY <2>6 DEF Running, Op
  <2> QED
    BY <2>7
<1> HIDE DEF T
<1>3. n \in T
  BY <1>1, <1>2, SetInduction
<1> QED
  BY <1>3 DEF T

RunChain(c, made, start, n) ==
  /\ c[0] = start
  /\ \A m \in 1..n : c[m] = StageStep(made, c[m - 1], made.stages[m])

LEMMA RunsAre ==
  ASSUME NEW made, NEW queries, NEW p, NEW n \in Nat, DOMAIN made.stages = 1..n
  PROVE  \E c : RunChain(c, made, JobStart(made, queries, p), n) /\ JobEnd(made, queries, p) = c[n]
<1> DEFINE start == JobStart(made, queries, p)
           h == CHOOSE f : f = [s \in SUBSET (DOMAIN made.stages) |->
                              IF s = {} THEN start ELSE StageStep(made, f[s \ {Max(s)}], made.stages[Max(s)])]
<1>1. JobEnd(made, queries, p) = h[DOMAIN made.stages]
  BY Zenon DEF JobEnd, FoldLeft, MapThenFoldSet
<1>2. PICK f : Running(f, made, start, n)
  BY RunsExist
<1> HIDE DEF start
<1>3. h = [s \in SUBSET (1..n) |-> IF s = {} THEN start ELSE StageStep(made, h[s \ {Max(s)}], made.stages[Max(s)])]
  BY <1>2 DEF Running
<1> HIDE DEF h
<1> DEFINE c == [m \in 0..n |-> h[1..m]]
<1>4. c[0] = start
  <2>1. 1..0 = {} /\ {} \in SUBSET (1..n) /\ 0 \in 0..n
    OBVIOUS
  <2>2. h[{}] = start
    BY <1>3, <2>1
  <2> QED
    BY <2>1, <2>2
<1>5. ASSUME NEW m \in 1..n
      PROVE  c[m] = StageStep(made, c[m - 1], made.stages[m])
  <2>1. m \in Nat /\ m # 0 /\ 1..m \in SUBSET (1..n) /\ m \in 0..n /\ m - 1 \in 0..n
    OBVIOUS
  <2>2. 1..m # {} /\ Max(1..m) = m /\ (1..m) \ {Max(1..m)} = 1..(m - 1)
    BY <2>1, Prefix
  <2>3. h[1..m] = StageStep(made, h[(1..m) \ {Max(1..m)}], made.stages[Max(1..m)])
    BY <1>3, <2>1, <2>2
  <2> QED
    BY <2>1, <2>2, <2>3
<1>6. c[n] = h[1..n]
  OBVIOUS
<1> HIDE DEF c
<1>7. RunChain(c, made, start, n) /\ JobEnd(made, queries, p) = c[n]
  BY <1>1, <1>4, <1>5, <1>6 DEF RunChain
<1> QED
  BY <1>7 DEF start

(* The stages of a plan.                                                   *)
LEMMA StagesAre ==
  ASSUME NEW g, NEW order, NEW slots, Planned(g, order, slots), NEW final, NEW made, made = PlanOf(g, order, slots, final)
  PROVE  /\ Len(order) \in Nat /\ DOMAIN made.stages = 1..(Len(order) + 1) /\ made.dimension = g.dimension
         /\ made.stages[1][1] = GridOf(g)
         /\ \A i \in 1..Len(order) : made.stages[i + 1][1] = KernelOf(g, slots, order[i])
<1> DEFINE n == Len(order)
           first == <<<<GridOf(g)>>>>
           K(i) == <<KernelOf(g, slots, order[i])>>
           kernels == [i \in DOMAIN order |-> K(i)]
           S == {<<GridOf(g)>>} \cup {K(i) : i \in 1..n}
<1>1. made.stages = first \o kernels /\ made.dimension = g.dimension
  BY DEF PlanOf
<1>2. n \in Nat /\ DOMAIN order = 1..n
  BY LenProperties DEF Planned, Placed, GoodOrder
<1>3. first \in Seq(S) /\ Len(first) = 1 /\ first[1] = <<GridOf(g)>>
  OBVIOUS
<1>4. kernels \in [1..n -> S] /\ \A i \in 1..n : kernels[i] = K(i)
  BY <1>2
<1>5. \A i \in 1..n : K(i)[1] = KernelOf(g, slots, order[i])
  OBVIOUS
<1>6. <<GridOf(g)>>[1] = GridOf(g)
  OBVIOUS
<1> HIDE DEF first, kernels, K, S, n
<1>7. kernels \in Seq(S) /\ Len(kernels) = n
  BY <1>2, <1>4, FunctionIsSeq
<1> DEFINE all == first \o kernels
<1>8. /\ all \in Seq(S) /\ Len(all) = Len(first) + Len(kernels)
      /\ \A i \in 1..(Len(first) + Len(kernels)) : all[i] = IF i <= Len(first) THEN first[i] ELSE kernels[i - Len(first)]
  BY <1>3, <1>7, ConcatProperties
<1> HIDE DEF all
<1>9. DOMAIN all = 1..(n + 1)
  <2>1. DOMAIN all = 1..Len(all)
    BY <1>8, LenProperties
  <2>2. Len(all) = n + 1
    BY <1>2, <1>3, <1>7, <1>8
  <2> QED
    BY <2>1, <2>2
<1>10. all[1] = <<GridOf(g)>>
  BY <1>2, <1>3, <1>7, <1>8
<1>11. ASSUME NEW i \in 1..n
       PROVE  all[i + 1] = K(i)
  <2>1. i + 1 \in 1..(1 + n) /\ ~(i + 1 <= 1) /\ (i + 1) - 1 = i
    BY <1>2
  <2>2. all[i + 1] = kernels[i]
    BY <1>3, <1>7, <1>8, <2>1
  <2> QED
    BY <1>4, <2>2
<1>12. made.stages = all
  BY <1>1 DEF all
<1>13. made.stages[1][1] = GridOf(g)
  BY <1>6, <1>10, <1>12
<1>14. \A i \in 1..n : made.stages[i + 1][1] = KernelOf(g, slots, order[i])
  BY <1>5, <1>11, <1>12
<1> QED
  BY <1>1, <1>2, <1>9, <1>12, <1>13, <1>14 DEF n

LEMMA CompiledStages ==
  ASSUME NEW g, NEW order, NEW slots, NEW made, CompiledTo(made, g, order, slots)
  PROVE  /\ Len(order) \in Nat /\ DOMAIN made.stages = 1..(Len(order) + 1) /\ made.dimension = g.dimension
         /\ made.stages[1][1] = GridOf(g)
         /\ \A i \in 1..Len(order) : made.stages[i + 1][1] = KernelOf(g, slots, order[i])
<1>1. PICK final : final = slots[Resolve(g, g.final)]
  OBVIOUS
<1>2. Planned(g, order, slots) /\ made = PlanOf(g, order, slots, final)
  BY <1>1 DEF CompiledTo
<1> QED
  BY <1>2, StagesAre

LEMMA RunPasses ==
  ASSUME NEW made, NEW r, r.error = "none" => ValidPacket(made, r.packet)
  PROVE  CheckedRun(made, r) = r
BY DEF CheckedRun

LEMMA StartIs ==
  ASSUME NEW g, GraphOK(g), NEW order, NEW slots, NEW made, CompiledTo(made, g, order, slots),
         NEW queries, NEW recycled \in BOOLEAN, NEW r, r = JobStart(made, queries, Starting(recycled))
  PROVE  r.error = "none" /\ EncodedOf(r.packet, queries, recycled)
<1> DEFINE p == Encoded(Starting(recycled), queries)
           s == [packet |-> p, error |-> "none"]
<1>1. EncodedOf(p, queries, recycled)
  BY EncodedIs
<1>2. r = CheckedRun(made, s)
  BY DEF JobStart
<1> HIDE DEF p
<1>3. ValidPacket(made, p)
  BY <1>1, EncodedValid
<1>4. s.error = "none" /\ s.packet = p
  OBVIOUS
<1> HIDE DEF s
<1>5. CheckedRun(made, s) = s
  BY <1>3, <1>4, RunPasses
<1> QED
  BY <1>1, <1>2, <1>4, <1>5

(* After the grid and m kernels: as it should be, or in trouble.           *)
TroublesTo(g, order, queries, recycled, m) == {TroubleOf(g, queries, recycled, order[j]) : j \in 1..m} \ {"none"}

Reaches(r, g, order, slots, queries, recycled, m) ==
  IF TroublesTo(g, order, queries, recycled, m) = {}
  THEN r.error = "none" /\ Holds(r.packet, g, order, slots, queries, recycled, m)
  ELSE r.error \in TroublesTo(g, order, queries, recycled, m)

LEMMA ReachesNext ==
  ASSUME NEW g, NEW order, NEW slots, NEW queries, NEW recycled, Posed(g, order, slots, queries, recycled),
         NEW made, CompiledTo(made, g, order, slots),
         NEW m \in 1..Len(order), NEW r, Reaches(r, g, order, slots, queries, recycled, m - 1),
         NEW stage, stage[1] = KernelOf(g, slots, order[m])
  PROVE  Reaches(StageStep(made, r, stage), g, order, slots, queries, recycled, m)
<1> DEFINE Bad(j) == TroubleOf(g, queries, recycled, order[j])
           before == TroublesTo(g, order, queries, recycled, m - 1)
           after == TroublesTo(g, order, queries, recycled, m)
           run == StageRun(r.packet, stage[1])
           next == StageStep(made, r, stage)
<1>1. before = {Bad(j) : j \in 1..(m - 1)} \ {"none"} /\ after = {Bad(j) : j \in 1..m} \ {"none"}
  BY DEF TroublesTo
<1>2. Len(order) \in Nat /\ m \in 0..Len(order)
  BY PosedSize
<1>3. \A j \in 1..m : j \in 1..(m - 1) \/ j = m
  BY <1>2
<1>4. m \in 1..m /\ \A j \in 1..(m - 1) : j \in 1..m
  BY <1>2
<1>5. next = IF r.error = "none" THEN CheckedRun(made, run) ELSE r
  BY DEF StageStep
<1>6. run = StageRun(r.packet, KernelOf(g, slots, order[m]))
  OBVIOUS
<1> HIDE DEF run, next, Bad
<1>7. CASE before # {}
  <2>1. r.error \in before /\ r.error # "none"
    BY <1>1, <1>7 DEF Reaches
  <2>2. before \subseteq after
    BY <1>1, <1>4
  <2> HIDE DEF before, after
  <2>3. next = r /\ r.error \in after /\ after # {}
    BY <1>5, <2>1, <2>2
  <2> QED
    BY <2>3 DEF Reaches, after, next
<1>8. CASE before = {}
  <2>1. r.error = "none" /\ Holds(r.packet, g, order, slots, queries, recycled, m - 1)
    BY <1>8 DEF Reaches
  <2>2. \A j \in 1..(m - 1) : Bad(j) = "none"
    BY <1>1, <1>8
  <2>3. CASE Bad(m) = "none"
    <3>1. \A j \in 1..m : TroubleOf(g, queries, recycled, order[j]) = "none"
      BY <1>3, <2>2, <2>3 DEF Bad
    <3>2. run.error = "none" /\ Holds(run.packet, g, order, slots, queries, recycled, m)
      BY <1>6, <2>1, <3>1, StepWorks
    <3>3. ValidPacket(made, run.packet)
      BY <1>2, <3>2, HoldsValid
    <3>4. next = run
      BY <1>5, <2>1, <3>3, RunPasses
    <3>5. after = {}
      BY <1>1, <3>1 DEF Bad
    <3> HIDE DEF after
    <3> QED
      BY <3>2, <3>4, <3>5 DEF Reaches, after, next
  <2>4. CASE Bad(m) # "none"
    <3>1. run.error = Bad(m)
      BY <1>6, <2>1, <2>4, StepFails DEF Bad
    <3>2. next = run
      BY <1>5, <2>1, <2>4, <3>1, RunPasses
    <3>3. Bad(m) \in after
      BY <1>1, <1>4, <2>4
    <3> HIDE DEF after
    <3> QED
      BY <3>1, <3>2, <3>3 DEF Reaches, after, next
  <2> QED
    BY <2>3, <2>4
<1> QED
  BY <1>7, <1>8

LEMMA JobReaches ==
  ASSUME NEW g, NEW order, NEW slots, NEW queries, NEW recycled, Posed(g, order, slots, queries, recycled),
         NEW made, CompiledTo(made, g, order, slots)
  PROVE  Reaches(JobEnd(made, queries, Starting(recycled)), g, order, slots, queries, recycled, Len(order))
<1> DEFINE n == Len(order)
           start == JobStart(made, queries, Starting(recycled))
<1>1. GraphOK(g) /\ recycled \in BOOLEAN /\ n \in Nat /\ Planned(g, order, slots)
  BY PosedSize DEF Posed
<1>2. /\ DOMAIN made.stages = 1..(n + 1) /\ made.stages[1][1] = GridOf(g)
      /\ \A i \in 1..n : made.stages[i + 1][1] = KernelOf(g, slots, order[i])
  BY CompiledStages
<1>3. PICK c : RunChain(c, made, start, n + 1) /\ JobEnd(made, queries, Starting(recycled)) = c[n + 1]
  <2> DEFINE top == n + 1
  <2>1. top \in Nat /\ DOMAIN made.stages = 1..top
    BY <1>1, <1>2
  <2> HIDE DEF top
  <2>2. \E c : RunChain(c, made, JobStart(made, queries, Starting(recycled)), top) /\ JobEnd(made, queries, Starting(recycled)) = c[top]
    BY <2>1, RunsAre
  <2> QED
    BY <2>2 DEF top
<1>4. start.error = "none" /\ EncodedOf(start.packet, queries, recycled)
  BY <1>1, StartIs
<1> HIDE DEF start, n
<1>5. c[0] = start /\ \A m \in 1..(n + 1) : c[m] = StageStep(made, c[m - 1], made.stages[m])
  BY <1>3 DEF RunChain
<1>6. Reaches(c[1], g, order, slots, queries, recycled, 0)
  <2> DEFINE run == StageRun(start.packet, GridOf(g))
  <2>1. c[1] = StageStep(made, start, made.stages[1])
    <3>1. 1 \in 1..(n + 1) /\ 1 - 1 = 0
      BY <1>1
    <3> QED
      BY <1>5, <3>1
  <2>2. c[1] = CheckedRun(made, run)
    BY <1>2, <1>4, <2>1 DEF StageStep
  <2>3. run.error = "none" /\ Holds(run.packet, g, order, slots, queries, recycled, 0)
    BY <1>4, GridHolds
  <2> HIDE DEF run
  <2>4. ValidPacket(made, run.packet)
    <3>1. 0 \in 0..Len(order)
      BY <1>1 DEF n
    <3> QED
      BY <2>3, <3>1, HoldsValid
  <2>5. c[1] = run
    BY <2>2, <2>4, RunPasses
  <2>6. TroublesTo(g, order, queries, recycled, 0) = {}
    BY DEF TroublesTo
  <2> QED
    BY <2>3, <2>5, <2>6 DEF Reaches
<1> DEFINE T == {m \in Nat : m <= n => Reaches(c[m + 1], g, order, slots, queries, recycled, m)}
<1>7. 0 \in T
  BY <1>6
<1>8. ASSUME NEW m \in Nat, m \in T
      PROVE  m + 1 \in T
  <2> SUFFICES ASSUME m + 1 <= n
               PROVE  Reaches(c[(m + 1) + 1], g, order, slots, queries, recycled, m + 1)
    OBVIOUS
  <2> DEFINE t == m + 1
  <2>1. Reaches(c[t], g, order, slots, queries, recycled, t - 1)
    <3>1. m <= n /\ t - 1 = m
      BY <1>1
    <3> QED
      BY <1>8, <3>1
  <2>2. t \in 1..Len(order) /\ t + 1 \in 1..(n + 1) /\ (t + 1) - 1 = t /\ t \in 1..n
    BY <1>1 DEF n
  <2> HIDE DEF t
  <2>3. c[t + 1] = StageStep(made, c[t], made.stages[t + 1])
    BY <1>5, <2>2
  <2>4. made.stages[t + 1][1] = KernelOf(g, slots, order[t])
    BY <1>2, <2>2
  <2>5. Reaches(StageStep(made, c[t], made.stages[t + 1]), g, order, slots, queries, recycled, t)
    BY <2>1, <2>2, <2>4, ReachesNext
  <2> QED
    BY <2>3, <2>5 DEF t
<1> HIDE DEF T
<1>9. n \in T
  BY <1>1, <1>7, <1>8, SetInduction
<1> QED
  BY <1>1, <1>3, <1>9 DEF T, n

(* With 2^32 samples or more, the grid ends it.                            *)
LEMMA JobPanics ==
  ASSUME NEW g, GraphOK(g), NEW order, NEW slots, NEW made, CompiledTo(made, g, order, slots),
         NEW queries, QueriesOK(queries, g.dimension), NEW recycled \in BOOLEAN, CutSize(queries) >= Word
  PROVE  JobEnd(made, queries, Starting(recycled)).error = Panic
<1> DEFINE n == Len(order)
           start == JobStart(made, queries, Starting(recycled))
<1>1. Planned(g, order, slots) /\ g.dimension \in {2, 3}
  BY DEF CompiledTo, GraphOK
<1>2. n \in Nat /\ DOMAIN made.stages = 1..(n + 1) /\ made.stages[1][1] = GridOf(g)
  BY CompiledStages
<1>3. PICK c : RunChain(c, made, start, n + 1) /\ JobEnd(made, queries, Starting(recycled)) = c[n + 1]
  BY <1>2, RunsAre
<1>4. start.error = "none" /\ EncodedOf(start.packet, queries, recycled)
  BY StartIs
<1> HIDE DEF start, n
<1>5. c[0] = start /\ \A m \in 1..(n + 1) : c[m] = StageStep(made, c[m - 1], made.stages[m])
  BY <1>3 DEF RunChain
<1>6. c[1].error = Panic
  <2> DEFINE run == StageRun(start.packet, GridOf(g))
  <2>1. c[1] = StageStep(made, start, made.stages[1])
    <3>1. 1 \in 1..(n + 1) /\ 1 - 1 = 0
      BY <1>2
    <3> QED
      BY <1>5, <3>1
  <2>2. c[1] = CheckedRun(made, run)
    BY <1>2, <1>4, <2>1 DEF StageStep
  <2>3. run.error = Panic
    BY <1>1, <1>4, GridStage, GridPanics
  <2> HIDE DEF run
  <2>4. CheckedRun(made, run) = run
    BY <2>3, RunPasses DEF Panic
  <2> QED
    BY <2>2, <2>3, <2>4
<1> DEFINE T == {m \in Nat : m <= n => c[m + 1].error = Panic}
<1>7. 0 \in T
  BY <1>6
<1>8. ASSUME NEW m \in Nat, m \in T
      PROVE  m + 1 \in T
  <2> SUFFICES ASSUME m + 1 <= n
               PROVE  c[(m + 1) + 1].error = Panic
    OBVIOUS
  <2>1. c[m + 1].error = Panic
    <3>1. m <= n
      BY <1>2
    <3> QED
      BY <1>8, <3>1
  <2>2. (m + 1) + 1 \in 1..(n + 1) /\ ((m + 1) + 1) - 1 = m + 1
    BY <1>2
  <2>3. c[(m + 1) + 1] = StageStep(made, c[m + 1], made.stages[(m + 1) + 1])
    BY <1>5, <2>2
  <2>4. c[(m + 1) + 1] = c[m + 1]
    BY <2>1, <2>3 DEF StageStep, Panic
  <2> QED
    BY <2>1, <2>4
<1> HIDE DEF T
<1>9. n \in T
  BY <1>2, <1>7, <1>8, SetInduction
<1> QED
  BY <1>2, <1>3, <1>9 DEF T
-----------------------------------------------------------------------------
(* ---- results ---------------------------------------------------------- *)

LEMMA CellOf ==
  ASSUME NEW queries, NEW d, QueriesOK(queries, d), NEW j \in 1..Len(queries), NEW k \in 1..SizeAt(queries, j)
  PROVE  /\ Starts(queries)[j] \in Nat /\ Starts(queries)[j + 1] = Starts(queries)[j] + SizeAt(queries, j)
         /\ Starts(queries)[j] + k \in 1..CutSize(queries)
         /\ CellAt(queries, Starts(queries)[j] + k) = CutCells(queries[j])[k]
<1> DEFINE t == Starts(queries)
           z == Sizes(queries)
           c == t[j] + k
<1>1. PICK n \in Nat : n = Len(queries)
  BY Zenon DEF QueriesOK
<1>2. Totalled(t, n, z) /\ CutSize(queries) = t[n + 1] /\ \A i \in 1..n : z[i] = SizeAt(queries, i)
  BY <1>1, OffsetsAre
<1>3. \A i \in 1..n : z[i] \in Nat
  BY <1>1, <1>2, SidesAre
<1> HIDE DEF t, z
<1>4. /\ j \in 1..n /\ j \in 1..(n + 1) /\ j + 1 \in 1..(n + 1) /\ n + 1 \in 1..(n + 1) /\ j + 1 <= n + 1
      /\ k \in 1..z[j]
  BY <1>1, <1>2
<1>5. t[j] \in Nat /\ t[j + 1] \in Nat /\ t[n + 1] \in Nat /\ t[j + 1] = t[j] + z[j]
  BY <1>2, <1>4 DEF Totalled
<1>6. t[j + 1] <= t[n + 1]
  BY <1>2, <1>3, <1>4, TotalsGrow
<1>7. c \in 1..t[n + 1] /\ t[j] < c /\ c <= t[j + 1] /\ c - t[j] = k
  <2>1. z[j] \in Nat /\ k \in Nat /\ 1 <= k /\ k <= z[j]
    BY <1>3, <1>4
  <2> DEFINE x == t[j]
             y == t[j + 1]
             u == t[n + 1]
             v == z[j]
  <2>2. x \in Nat /\ y \in Nat /\ u \in Nat /\ v \in Nat /\ y = x + v /\ y <= u /\ k <= v
    BY <1>5, <1>6, <2>1
  <2> HIDE DEF x, y, u, v
  <2>3. x + k \in 1..u /\ x < x + k /\ x + k <= y /\ (x + k) - x = k
    BY <2>1, <2>2
  <2> QED
    BY <2>3 DEF x, y, u
<1> HIDE DEF c
<1>8. j = OwnerOf(t, n, c)
  BY <1>2, <1>3, <1>4, <1>7, OwnerIs
<1>9. CellAt(queries, c) = CutCells(queries[j])[k]
  BY <1>1, <1>7, <1>8 DEF CellAt, t
<1> QED
  BY <1>2, <1>4, <1>5, <1>7, <1>9 DEF c, t

LEMMA OffsetsInOrder ==
  ASSUME NEW queries, NEW d, QueriesOK(queries, d), CutSize(queries) < Word, NEW n, n = Len(queries)
  PROVE  /\ n \in Nat /\ DOMAIN queries = 1..n
         /\ Offsets(queries) \in Seq(Nat) /\ Len(Offsets(queries)) = n + 1
         /\ \A i \in 1..n : i \in 1..(n + 1) /\ i + 1 \in 1..(n + 1)
         /\ \A i \in 1..(n + 1) : /\ Offsets(queries)[i] = Starts(queries)[i] /\ Starts(queries)[i] \in Nat
                                  /\ Starts(queries)[i] <= CutSize(queries)
         /\ \A i \in 1..n : SizeAt(queries, i) \in Nat /\ Starts(queries)[i + 1] = Starts(queries)[i] + SizeAt(queries, i)
<1> DEFINE t == Starts(queries)
           z == Sizes(queries)
           off == Offsets(queries)
<1>1. n \in Nat /\ DOMAIN queries = 1..n
  BY DEF QueriesOK
<1>2. /\ Totalled(t, n, z) /\ CutSize(queries) = t[n + 1] /\ \A i \in 1..n : z[i] = SizeAt(queries, i)
      /\ DOMAIN off = 1..(n + 1) /\ \A i \in 1..(n + 1) : off[i] = t[i] % Word
  BY OffsetsAre
<1>3. \A i \in 1..n : z[i] \in Nat
  BY <1>2, SidesAre
<1> DEFINE totals == Totals([i \in DOMAIN queries |-> Product(queries[i].sides)])
<1>4. off = [i \in DOMAIN totals |-> (totals[i] % Wide) % Word]
  BY DEF Offsets
<1>5. off = [i \in DOMAIN off |-> off[i]]
  <2> HIDE DEF totals
  <2> QED
    BY <1>4
<1> HIDE DEF t, z, off
<1>6. ASSUME NEW i \in 1..(n + 1)
      PROVE  off[i] = t[i] /\ t[i] \in Nat /\ t[i] <= CutSize(queries)
  <2>1. t[i] \in Nat /\ n + 1 \in 1..(n + 1) /\ i <= n + 1
    BY <1>1, <1>2 DEF Totalled
  <2>2. t[i] <= t[n + 1] /\ t[n + 1] \in Nat
    BY <1>1, <1>2, <1>3, <2>1, TotalsGrow DEF Totalled
  <2>3. t[i] < Word
    BY <1>2, <2>1, <2>2, WordAssumption
  <2>4. t[i] % Word = t[i]
    BY <2>1, <2>3, WordAssumption, ModTwice
  <2> QED
    BY <1>2, <2>1, <2>2, <2>4
<1>7. off \in [1..(n + 1) -> Nat]
  BY <1>2, <1>5, <1>6
<1>8. off \in Seq(Nat) /\ Len(off) = n + 1
  <2> DEFINE top == n + 1
  <2>1. top \in Nat /\ off \in [1..top -> Nat]
    BY <1>1, <1>7
  <2> HIDE DEF top
  <2>2. off \in Seq(Nat) /\ Len(off) = top
    BY <2>1, FunctionIsSeq
  <2> QED
    BY <2>2 DEF top
<1>9. \A i \in 1..n : i \in 1..(n + 1) /\ i + 1 \in 1..(n + 1)
  BY <1>1
<1>10. \A i \in 1..n : SizeAt(queries, i) \in Nat /\ t[i + 1] = t[i] + SizeAt(queries, i)
  BY <1>2, <1>3 DEF Totalled
<1> QED
  BY <1>1, <1>6, <1>8, <1>9, <1>10 DEF off, t

(* What a job should return.                                               *)
Expected(g, queries) ==
  [i \in DOMAIN queries |-> [k \in DOMAIN CutCells(queries[i]) |-> Value(g, NodeOf(g, g.final), CutCells(queries[i])[k])]]

LEMMA PieceBounds ==
  ASSUME NEW a \in Nat, NEW w \in Nat, NEW size \in Nat, NEW b, b = a + w, b <= size
  PROVE  /\ a + 1 \in Int /\ b \in Int
         /\ b - (a + 1) + 1 = w
         /\ a + 1 <= b <=> w > 0
         /\ \A l \in (a + 1)..b : l \in 1..size
<1>1. b \in Nat /\ w >= 0 /\ a >= 0
  OBVIOUS
<1>2. \A l \in (a + 1)..b : l \in 1..size
  BY <1>1
<1>3. b - (a + 1) + 1 = w
  BY <1>1
<1>4. a + 1 <= b <=> w > 0
  BY <1>1
<1> QED
  BY <1>1, <1>2, <1>3, <1>4

LEMMA PieceOfValues ==
  ASSUME NEW g, NEW order, NEW slots, NEW queries, NEW recycled, Posed(g, order, slots, queries, recycled),
         NEW f, f = Resolve(g, g.final), NEW i \in 1..Len(queries), NEW values, values = ValueData(g, queries, f)[1],
         NEW a, a = Starts(queries)[i], NEW b, b = Starts(queries)[i + 1]
  PROVE  SubSeq(values, a + 1, b) = Expected(g, queries)[i]
<1> DEFINE size == CutSize(queries)
           w == SizeAt(queries, i)
           final == g.nodes[f]
           V(c) == Value(g, final, CellAt(queries, c))
           S == {V(c) : c \in 1..size}
           cells == CutCells(queries[i])
           X(k) == Value(g, final, cells[k])
<1>1. Planned(g, order, slots) /\ QueriesOK(queries, g.dimension) /\ size \in Nat /\ size < Word
  BY PosedSize DEF Posed
<1>2. /\ a \in Nat /\ b \in Nat /\ w \in Nat /\ b = a + w /\ b <= size /\ i \in DOMAIN queries
  <2>1. PICK n : n = Len(queries)
    OBVIOUS
  <2>2. i \in 1..n
    BY <2>1
  <2> HIDE DEF size, w
  <2> QED
    BY <1>1, <2>1, <2>2, OffsetsInOrder DEF size, w
<1>3. NodeOf(g, g.final) = final /\ final.kind \notin Warps /\ 1 \in 1..Width(g, f)
  <2>1. NodeOf(g, g.final) = final /\ final.kind \notin Warps
    BY <1>1 DEF Planned
  <2>2. Width(g, f) = 1
    BY <2>1 DEF Width, OutputWidth
  <2> QED
    BY <2>1, <2>2
<1>4. values = [c \in 1..size |-> V(c)]
  BY <1>3 DEF ValueData, ValueOf
<1>5. DOMAIN cells = 1..w
  BY DEF CutCells, SizeAt
<1>6. Expected(g, queries)[i] = [k \in 1..w |-> X(k)]
  BY <1>2, <1>3, <1>5 DEF Expected
<1>7. \A k \in 1..w : a + k \in 1..size /\ V(a + k) = X(k)
  <2> TAKE k \in 1..w
  <2>1. a + k \in 1..size /\ CellAt(queries, a + k) = cells[k]
    BY <1>1, CellOf
  <2> QED
    BY <2>1
<1> HIDE DEF V, X, S, cells, w, size, final
<1>8. values \in [1..size -> S]
  BY <1>4 DEF S
<1>9. values \in Seq(S) /\ Len(values) = size
  BY <1>1, <1>8, FunctionIsSeq
<1> DEFINE piece == SubSeq(values, a + 1, b)
<1>10. piece \in Seq(S) /\ Len(piece) = w /\ \A k \in 1..w : piece[k] = values[a + k]
  <2> DEFINE e == a + 1
  <2>1. e \in Int /\ b \in Int /\ b - e + 1 = w /\ (e <= b <=> w > 0) /\ \A l \in e..b : l \in 1..size
    <3>1. a \in Nat /\ b \in Nat /\ w \in Nat /\ b = a + w /\ b <= size /\ size \in Nat
      BY <1>1, <1>2 DEF size
    <3> HIDE DEF size, w
    <3> QED
      BY <3>1, PieceBounds, ZenonT(40)
  <2>2. \A l \in e..b : values[l] \in S
    BY <1>8, <2>1
  <2>3. \A k \in 1..w : e + k - 1 = a + k
    BY <1>2
  <2> HIDE DEF e
  <2>4. /\ SubSeq(values, e, b) \in Seq(S)
        /\ Len(SubSeq(values, e, b)) = IF e <= b THEN b - e + 1 ELSE 0
        /\ \A k \in 1..(b - e + 1) : SubSeq(values, e, b)[k] = values[e + k - 1]
    BY <2>1, <2>2, SubSeqProperties
  <2>5. piece = SubSeq(values, e, b)
    BY DEF e
  <2> HIDE DEF piece
  <2>6. Len(piece) = w
    BY <1>2, <2>1, <2>4, <2>5
  <2> QED
    BY <2>1, <2>3, <2>4, <2>5, <2>6
<1> HIDE DEF piece
<1>11. piece = [k \in 1..w |-> piece[k]]
  BY <1>10
<1>12. \A k \in 1..w : piece[k] = X(k)
  BY <1>4, <1>7, <1>10
<1>13. piece = [k \in 1..w |-> X(k)]
  BY <1>11, <1>12
<1> QED
  BY <1>6, <1>13 DEF piece

Answers(p, made, g, queries, one) ==
  Resolution(p, made.final, one) = [error |-> "none", values |-> Expected(g, queries)]

LEMMA ResolutionIs ==
  ASSUME NEW g, NEW order, NEW slots, NEW queries, NEW recycled, Posed(g, order, slots, queries, recycled),
         NEW made, CompiledTo(made, g, order, slots), NEW p, Holds(p, g, order, slots, queries, recycled, Len(order)),
         NEW one
  PROVE  Answers(p, made, g, queries, one)
<1> DEFINE f == Resolve(g, g.final)
           slot == slots[f][1]
           n == Len(queries)
           offsets == p.buffers[QueryOffsets].data
           values == p.buffers[slot].data
           Piece(i) == SubSeq(values, offsets[i] + 1, offsets[i + 1])
           bad == \E i \in DOMAIN Tail(offsets) : offsets[i] > offsets[i + 1] \/ offsets[i + 1] > Len(values)
<1>1. /\ Planned(g, order, slots) /\ QueriesOK(queries, g.dimension) /\ CutSize(queries) \in Nat /\ CutSize(queries) < Word
      /\ Len(order) \in Nat
  BY PosedSize DEF Posed
<1>2. made.final = slot
  BY DEF CompiledTo, PlanOf
<1>3. PICK b \in 1..Len(order) : f = order[b]
  BY <1>1 DEF Planned, Members
<1>4. Len(slots[f]) = 1
  <2>1. f \in Members(order, Len(order)) /\ g.nodes[f].kind \notin Warps
    BY <1>1 DEF Planned
  <2>2. Len(slots[f]) = Width(g, f)
    BY <1>1, <2>1 DEF Planned
  <2> QED
    BY <2>1, <2>2 DEF Width, OutputWidth
<1>5. Held(p, slot, CutSize(queries))
  <2>1. Len(order) \in 0..Len(order) /\ 1 \in 1..Len(slots[order[b]])
    BY <1>1, <1>3, <1>4
  <2> QED
    BY <1>3, <2>1, HeldSlots
<1>6. values = ValueData(g, queries, f)[1] /\ Len(values) = CutSize(queries)
  <2>1. p.buffers[slots[order[b]][1]] = Buffer("f32", ValueData(g, queries, order[b])[1])
    <3>1. 1 \in 1..Len(slots[order[b]])
      BY <1>3, <1>4
    <3> QED
      BY <3>1 DEF Holds
  <2> QED
    BY <1>3, <1>5, <2>1 DEF Held, Buffer
<1>7. offsets = Offsets(queries)
  BY DEF Holds, Buffer, QueryOffsets
<1>8. SliceError(p, slot, "f32") = "none"
  BY <1>5 DEF SliceError, Held
<1>9. Resolution(p, slot, one) =
        IF bad THEN [error |-> IF one THEN "invalid offsets" ELSE Panic, values |-> <<>>]
        ELSE [error |-> "none", values |-> [i \in DOMAIN Tail(offsets) |-> Piece(i)]]
  BY <1>8 DEF Resolution
<1> HIDE DEF f, slot, offsets, values
<1>10. /\ n \in Nat /\ DOMAIN queries = 1..n
       /\ offsets \in Seq(Nat) /\ Len(offsets) = n + 1
       /\ \A i \in 1..n : i \in 1..(n + 1) /\ i + 1 \in 1..(n + 1)
       /\ \A i \in 1..(n + 1) : /\ offsets[i] = Starts(queries)[i] /\ Starts(queries)[i] \in Nat
                                /\ Starts(queries)[i] <= CutSize(queries)
       /\ \A i \in 1..n : SizeAt(queries, i) \in Nat /\ Starts(queries)[i + 1] = Starts(queries)[i] + SizeAt(queries, i)
  BY <1>1, <1>7, OffsetsInOrder, ZenonT(40)
<1>11. DOMAIN Tail(offsets) = 1..n
  <2>1. offsets # <<>>
    BY <1>10
  <2>2. Tail(offsets) \in Seq(Nat) /\ Len(Tail(offsets)) = n
    BY <1>10, <2>1, HeadTailProperties
  <2> QED
    BY <2>2, LenProperties
<1>12. ~bad
  <2> SUFFICES ASSUME NEW i \in 1..n
               PROVE  ~(offsets[i] > offsets[i + 1]) /\ ~(offsets[i + 1] > Len(values))
    BY <1>11
  <2>1. /\ offsets[i] = Starts(queries)[i] /\ offsets[i + 1] = Starts(queries)[i + 1]
        /\ Starts(queries)[i] \in Nat /\ Starts(queries)[i + 1] \in Nat /\ Starts(queries)[i + 1] <= CutSize(queries)
        /\ SizeAt(queries, i) \in Nat /\ Starts(queries)[i + 1] = Starts(queries)[i] + SizeAt(queries, i)
    BY <1>10
  <2> QED
    BY <1>1, <1>6, <2>1
<1>13. ASSUME NEW i \in 1..n
       PROVE  Piece(i) = Expected(g, queries)[i]
  <2>1. offsets[i] = Starts(queries)[i] /\ offsets[i + 1] = Starts(queries)[i + 1]
    BY <1>10
  <2> QED
    BY <1>6, <2>1, PieceOfValues DEF f
<1>14. Expected(g, queries) = [i \in 1..n |-> Expected(g, queries)[i]]
  BY <1>10 DEF Expected
<1> HIDE DEF bad, Piece
<1>15. [i \in DOMAIN Tail(offsets) |-> Piece(i)] = Expected(g, queries)
  BY <1>11, <1>13, <1>14
<1> QED
  BY <1>2, <1>9, <1>12, <1>15 DEF Answers
-----------------------------------------------------------------------------
(* ---- what jobs compute ------------------------------------------------ *)

(* The nodes in trouble are those of the order that are.                   *)
LEMMA TroublesAre ==
  ASSUME NEW g, NEW order, NEW slots, Planned(g, order, slots), NEW queries, NEW recycled
  PROVE  {Trouble(g, node, CutSize(queries), recycled) : node \in Grounded(g)} \ {"none"}
           = TroublesTo(g, order, queries, recycled, Len(order))
<1>1. Whole(g) /\ GoodOrder(g, order)
  BY DEF Planned, Placed
<1>2. Grounded(g) = {g.nodes[h] : h \in Members(order, Len(order))}
  BY <1>1, GroundedIs DEF NodesOf
<1>3. Grounded(g) = {g.nodes[order[j]] : j \in 1..Len(order)}
  BY <1>2 DEF Members
<1> DEFINE T(node) == Trouble(g, node, CutSize(queries), recycled)
<1>4. \A j : TroubleOf(g, queries, recycled, order[j]) = T(g.nodes[order[j]])
  BY DEF TroubleOf
<1> HIDE DEF T
<1>5. {T(node) : node \in Grounded(g)} = {T(g.nodes[order[j]]) : j \in 1..Len(order)}
  BY <1>3
<1>6. {T(g.nodes[order[j]]) : j \in 1..Len(order)} = {TroubleOf(g, queries, recycled, order[j]) : j \in 1..Len(order)}
  BY <1>4
<1>7. {T(node) : node \in Grounded(g)} \ {"none"} = TroublesTo(g, order, queries, recycled, Len(order))
  BY <1>5, <1>6 DEF TroublesTo
<1> QED
  BY <1>7 DEF T

(* The result r of a job, for its queries as the casts leave them.         *)
Refused(g, queries) == \/ \E i \in DOMAIN queries : queries[i].dimension # g.dimension
                       \/ debug /\ Overflows(queries)

Right(r, g, queries, recycled) ==
  LET troubles == {Trouble(g, node, CutSize(queries), recycled) : node \in Grounded(g)} \ {"none"}
  IN  IF CutSize(queries) >= Word \/ Refused(g, queries)
      THEN r.error = Panic
      ELSE IF troubles # {} THEN r.error \in troubles
      ELSE r = [error |-> "none", values |-> Expected(g, queries)]

LEMMA JobIsRight ==
  ASSUME NEW g, GraphOK(g), NEW order, NEW slots, NEW made, CompiledTo(made, g, order, slots),
         NEW queries \in Batches, NEW recycled \in BOOLEAN, NEW one
  PROVE  Right(Job(made, queries, Starting(recycled), one, debug), g, queries, recycled)
<1> DEFINE r == Job(made, queries, Starting(recycled), one, debug)
           end == JobEnd(made, queries, Starting(recycled))
           troubles == {Trouble(g, node, CutSize(queries), recycled) : node \in Grounded(g)} \ {"none"}
           refused == Refused(g, queries)
           size == CutSize(queries)
<1>1. Planned(g, order, slots) /\ made.dimension = g.dimension /\ g.dimension \in {2, 3}
  <2>1. Planned(g, order, slots)
    BY DEF CompiledTo
  <2> QED
    BY <2>1, CompiledStages DEF GraphOK
<1>2. r = IF refused THEN [error |-> Panic, values |-> <<>>]
          ELSE IF end.error # "none" THEN [error |-> end.error, values |-> <<>>]
          ELSE Resolution(end.packet, made.final, one)
  <2>1. refused <=> EncodePanics(made, queries, debug)
    BY <1>1 DEF EncodePanics, Refused
  <2> QED
    BY <2>1, JobIs
<1>3. troubles = TroublesTo(g, order, queries, recycled, Len(order))
  BY <1>1, TroublesAre
<1>4. "none" \notin troubles
  OBVIOUS
<1>5. ~refused => QueriesOK(queries, g.dimension)
  BY <1>1, BatchIsOK DEF Refused
<1>6. ASSUME ~refused, size >= Word
      PROVE  end.error = Panic
  BY <1>5, <1>6, JobPanics
<1>7. ASSUME ~refused, ~(size >= Word)
      PROVE  Posed(g, order, slots, queries, recycled)
  <2>1. QueriesOK(queries, g.dimension)
    BY <1>5, <1>7
  <2>2. size \in Nat
    BY <2>1, SizeTyped
  <2>3. size < Word
    BY <1>7, <2>2, WordAssumption
  <2> QED
    BY <1>1, <2>1, <2>3 DEF Posed
<1>8. ASSUME Posed(g, order, slots, queries, recycled), troubles # {}
      PROVE  end.error \in troubles
  BY <1>3, <1>8, JobReaches DEF Reaches
<1>9. ASSUME Posed(g, order, slots, queries, recycled), troubles = {}
      PROVE  /\ end.error = "none"
             /\ Resolution(end.packet, made.final, one) = [error |-> "none", values |-> Expected(g, queries)]
  <2>1. end.error = "none" /\ Holds(end.packet, g, order, slots, queries, recycled, Len(order))
    BY <1>3, <1>9, JobReaches DEF Reaches
  <2>2. PICK p : p = end.packet
    OBVIOUS
  <2> HIDE DEF end, troubles
  <2>3. Posed(g, order, slots, queries, recycled) /\ Holds(p, g, order, slots, queries, recycled, Len(order))
    BY <1>9, <2>1, <2>2
  <2>4. Answers(p, made, g, queries, one)
    BY <2>3, ResolutionIs
  <2> QED
    BY <2>1, <2>2, <2>4 DEF Answers
<1> HIDE DEF r, end, troubles, refused, size
<1>10. IF size >= Word \/ refused THEN r.error = Panic
       ELSE IF troubles # {} THEN r.error \in troubles
       ELSE r = [error |-> "none", values |-> Expected(g, queries)]
  <2>1. CASE refused
    BY <1>2, <2>1
  <2>2. CASE ~refused /\ size >= Word
    <3>1. end.error = Panic /\ Panic # "none"
      BY <1>6, <2>2 DEF Panic
    <3> QED
      BY <1>2, <2>2, <3>1
  <2>3. CASE ~refused /\ ~(size >= Word) /\ troubles # {}
    <3>1. end.error \in troubles
      BY <1>7, <1>8, <2>3
    <3>2. r = [error |-> end.error, values |-> <<>>]
      BY <1>2, <1>4, <2>3, <3>1
    <3> QED
      BY <2>3, <3>1, <3>2
  <2>4. CASE ~refused /\ ~(size >= Word) /\ troubles = {}
    <3>1. end.error = "none" /\ Resolution(end.packet, made.final, one) = [error |-> "none", values |-> Expected(g, queries)]
      BY <1>7, <1>9, <2>4
    <3> QED
      BY <1>2, <2>4, <3>1
  <2> QED
    BY <2>1, <2>2, <2>3, <2>4
<1> QED
  BY <1>10 DEF Right, r, troubles, refused, size

(* An outcome is that of a job on the plan there is.                       *)
OutcomeIsJob ==
  outcome # None =>
    /\ plan.error = "none"
    /\ \E queries \in Batches, recycled \in BOOLEAN, one \in BOOLEAN :
         outcome = [queries |-> queries, recycled |-> recycled,
                    result |-> Job(plan, queries, Starting(recycled), one, debug)]

LEMMA OutcomeStaysJob == OutcomeIsJob /\ [Next]_vars => OutcomeIsJob'
<1> SUFFICES ASSUME OutcomeIsJob, [Next]_vars
             PROVE  OutcomeIsJob'
  OBVIOUS
<1>1. ASSUME outcome' = None
      PROVE  OutcomeIsJob'
  BY <1>1 DEF OutcomeIsJob
<1>2. ASSUME UNCHANGED <<debug, plan, outcome>>
      PROVE  OutcomeIsJob'
  BY <1>2 DEF OutcomeIsJob
<1>3. CASE Apply
  BY <1>1, <1>3 DEF Apply, Begin
<1>4. CASE Reset
  BY <1>1, <1>4 DEF Reset, Begin
<1>5. CASE UpsertNode
  BY <1>2, <1>5 DEF UpsertNode
<1>6. CASE RemoveNode
  BY <1>2, <1>6 DEF RemoveNode
<1>7. CASE SetFinalField
  BY <1>2, <1>7 DEF SetFinalField
<1>8. CASE Compile
  <2>1. plan = None /\ outcome' = outcome
    BY <1>8 DEF Compile
  <2>2. plan.error # "none"
    BY <2>1 DEF None
  <2>3. outcome = None
    BY <2>2 DEF OutcomeIsJob
  <2>4. outcome' = None
    BY <2>1, <2>3
  <2> QED
    BY <1>1, <2>4
<1>9. CASE ResolveBatch
  <2>1. plan.error = "none" /\ UNCHANGED <<debug, plan>>
    BY <1>9 DEF ResolveBatch
  <2>2. PICK queries \in Batches, recycled \in BOOLEAN, one \in BOOLEAN :
          outcome' = [queries |-> queries, recycled |-> recycled,
                      result |-> Job(plan, queries, IF recycled THEN Leftover ELSE NewPacket, one, debug)]
    BY <1>9, Zenon DEF ResolveBatch
  <2>3. outcome' = [queries |-> queries, recycled |-> recycled,
                    result |-> Job(plan', queries, Starting(recycled), one, debug')]
    BY <2>1, <2>2, Zenon DEF Starting
  <2> QED
    BY <2>1, <2>3 DEF OutcomeIsJob
<1>10. CASE UNCHANGED vars
  BY <1>2, <1>10 DEF vars
<1> QED
  BY <1>3, <1>4, <1>5, <1>6, <1>7, <1>8, <1>9, <1>10 DEF Next

-----------------------------------------------------------------------------
(* ---- the queries as they were asked ----------------------------------- *)

Wholes(queries) == [i \in DOMAIN queries |-> Product(queries[i].sides)]

LEMMA WholesAre ==
  ASSUME NEW queries, NEW d, QueriesOK(queries, d), NEW n, n = Len(queries), NEW u, u = Wholes(queries)
  PROVE  /\ n \in Nat /\ DOMAIN queries = 1..n
         /\ \A i \in 1..n : u[i] = Product(queries[i].sides) /\ u[i] \in Nat
         /\ Totalled(Totals(u), n, u) /\ SizeOf(queries) = Totals(u)[n + 1]
<1>1. n \in Nat /\ DOMAIN queries = 1..n
  BY DEF QueriesOK
<1>2. \A i \in 1..n : u[i] = Product(queries[i].sides) /\ u[i] \in Nat
  BY <1>1, SidesAre DEF Wholes
<1>3. u \in [1..n -> Nat]
  BY <1>1, <1>2 DEF Wholes
<1>4. u \in Seq(Nat) /\ Len(u) = n
  BY <1>1, <1>3, FunctionIsSeq
<1>5. Totalled(Totals(u), n, u)
  BY <1>1, <1>4, TotalsAre
<1>6. SizeOf(queries) = SumOf(u)
  BY Zenon DEF SizeOf, SumOf, Wholes
<1>7. SumOf(u) = Totals(u)[n + 1]
  BY <1>1, <1>4, TotalsEnd
<1> QED
  BY <1>1, <1>2, <1>5, <1>6, <1>7

(* The products that sample_count_3d comes to before its last.             *)
LEMMA PartsAre ==
  ASSUME NEW d \in {2, 3}, NEW s \in [1..d -> Nat]
  PROVE  /\ Len(s) = d
         /\ Product(SubSeq(s, 1, 2)) = s[1] * s[2]
         /\ SubSeq(s, 1, d) = s
<1>1. s \in Seq(Nat) /\ Len(s) = d
  BY FunctionIsSeq
<1> DEFINE t == SubSeq(s, 1, 2)
<1>2. t = [a \in 1..2 |-> s[a]]
  BY <1>1
<1>3. SubSeq(s, 1, d) = [a \in 1..d |-> s[a]]
  BY <1>1
<1>4. SubSeq(s, 1, d) = s
  BY <1>3
<1>5. DOMAIN t = 1..2 /\ t[1] = s[1] /\ t[2] = s[2] /\ \A a \in 1..2 : t[a] \in Nat
  BY <1>2
<1> HIDE DEF t
<1>6. Product(t) = t[1] * t[2]
  <2>1. 2 \in {2, 3}
    OBVIOUS
  <2> QED
    BY <1>5, <2>1, ProductIs
<1> QED
  BY <1>1, <1>4, <1>5, <1>6 DEF t

(* What a usize cannot count is what the checks of a debug build find.     *)
LEMMA OverflowsIs ==
  ASSUME NEW queries, NEW d, QueriesOK(queries, d)
  PROVE  Overflows(queries) <=> Uncountable(queries)
<1> DEFINE n == Len(queries)
           u == Wholes(queries)
           t == Totals(u)
<1>1. /\ n \in Nat /\ DOMAIN queries = 1..n
      /\ \A i \in 1..n : u[i] = Product(queries[i].sides) /\ u[i] \in Nat
      /\ Totalled(t, n, u) /\ SizeOf(queries) = t[n + 1]
  BY WholesAre
<1>2. d \in {2, 3} /\ Wide \in Nat /\ \A i \in 1..n : queries[i].sides \in [1..d -> Nat]
  BY WideAssumption DEF QueriesOK
<1>3. \A i \in 1..n : /\ Len(queries[i].sides) = d
                     /\ Product(SubSeq(queries[i].sides, 1, 2)) = queries[i].sides[1] * queries[i].sides[2]
                     /\ Product(SubSeq(queries[i].sides, 1, d)) = u[i]
  BY <1>1, <1>2, PartsAre
<1> DEFINE P(i, k) == Product(SubSeq(queries[i].sides, 1, k))
           Q(i) == queries[i].sides[1] * queries[i].sides[2]
<1>4. Overflows(queries) <=> \/ \E i \in 1..n : \E k \in 2..d : P(i, k) >= Wide
                             \/ \E i \in 1..(n + 1) : t[i] >= Wide
  <2>1. Overflows(queries) <=> \/ \E i \in DOMAIN queries : \E k \in 2..Len(queries[i].sides) : P(i, k) >= Wide
                               \/ \E i \in DOMAIN t : t[i] >= Wide
    BY Zenon DEF Overflows, Wholes
  <2>2. DOMAIN t = 1..(n + 1)
    BY <1>1 DEF Totalled
  <2> HIDE DEF t, P
  <2> QED
    BY <1>1, <1>3, <2>1, <2>2
<1>5. Uncountable(queries) <=> t[n + 1] >= Wide \/ \E i \in 1..n : Q(i) >= Wide
  BY <1>1 DEF Uncountable
<1>6. \A i \in 1..n : P(i, 2) = Q(i) /\ P(i, d) = u[i]
  BY <1>3
<1> HIDE DEF n, u, t, P, Q
<1>7. n + 1 \in 1..(n + 1) /\ \A i \in 1..(n + 1) : t[i] \in Nat /\ t[i] <= t[n + 1]
  <2>1. n + 1 \in 1..(n + 1) /\ \A i \in 1..(n + 1) : i <= n + 1
    BY <1>1
  <2>2. \A i \in 1..(n + 1) : t[i] <= t[n + 1]
    BY <1>1, <2>1, TotalsGrow
  <2> QED
    BY <1>1, <2>1, <2>2 DEF Totalled
<1>8. \A i \in 1..n : u[i] <= t[n + 1]
  <2> TAKE i \in 1..n
  <2>1. i \in 1..(n + 1) /\ i + 1 \in 1..(n + 1)
    BY <1>1
  <2>2. t[i + 1] = t[i] + u[i] /\ u[i] \in Nat
    BY <1>1 DEF Totalled
  <2>3. t[i] \in Nat /\ t[i + 1] <= t[n + 1] /\ t[n + 1] \in Nat
    BY <1>7, <2>1
  <2> QED
    BY <2>2, <2>3
<1>9. n + 1 \in 1..(n + 1) /\ t[n + 1] \in Nat
  BY <1>7
<1>10. ASSUME Overflows(queries)
       PROVE  Uncountable(queries)
  <2>1. CASE \E i \in 1..n : \E k \in 2..d : P(i, k) >= Wide
    <3>1. PICK i \in 1..n, k \in 2..d : P(i, k) >= Wide
      BY <2>1
    <3>2. k = 2 \/ k = d
      BY <1>2
    <3>3. CASE k = 2
      BY <1>5, <1>6, <3>1, <3>3
    <3>4. CASE k = d
      <4>1. u[i] >= Wide /\ u[i] \in Nat
        BY <1>1, <1>6, <3>1, <3>4
      <4>2. t[n + 1] >= Wide
        BY <1>2, <1>8, <1>9, <4>1
      <4> QED
        BY <1>5, <4>2
    <3> QED
      BY <3>2, <3>3, <3>4
  <2>2. CASE \E i \in 1..(n + 1) : t[i] >= Wide
    <3>1. t[n + 1] >= Wide
      BY <1>2, <1>7, <1>9, <2>2
    <3> QED
      BY <1>5, <3>1
  <2> QED
    BY <1>4, <1>10, <2>1, <2>2
<1>11. ASSUME Uncountable(queries)
       PROVE  Overflows(queries)
  <2>1. CASE t[n + 1] >= Wide
    BY <1>4, <1>9, <2>1
  <2>2. CASE \E i \in 1..n : Q(i) >= Wide
    <3>1. 2 \in 2..d
      BY <1>2
    <3> QED
      BY <1>4, <1>6, <2>2, <3>1
  <2> QED
    BY <1>5, <1>11, <2>1, <2>2
<1> QED
  BY <1>10, <1>11

(* The queries that JobsComputeGraph takes a job to answer.                *)
Answered(queries) == IF \E i \in DOMAIN queries : Oversized(queries[i])
                     THEN [i \in DOMAIN queries |-> Cut(queries[i])] ELSE queries

LEMMA AnsweredAre ==
  ASSUME NEW queries, NEW d, QueriesOK(queries, d), NEW asked, asked = Answered(queries)
  PROVE  /\ DOMAIN asked = DOMAIN queries
         /\ \A i \in DOMAIN queries :
              /\ asked[i].sides = Sides(queries[i]) /\ asked[i].dimension = queries[i].dimension
              /\ asked[i].origin = queries[i].origin /\ asked[i].step = queries[i].step
<1>1. CASE \E i \in DOMAIN queries : Oversized(queries[i])
  <2>1. asked = [i \in DOMAIN queries |-> Cut(queries[i])]
    BY <1>1 DEF Answered
  <2>2. \A q : /\ Cut(q).sides = Sides(q) /\ Cut(q).dimension = q.dimension
               /\ Cut(q).origin = q.origin /\ Cut(q).step = q.step
    BY DEF Cut, Sides
  <2>3. DOMAIN asked = DOMAIN queries /\ \A i \in DOMAIN queries : asked[i] = Cut(queries[i])
    BY <2>1
  <2> QED
    BY <2>2, <2>3
<1>2. CASE ~\E i \in DOMAIN queries : Oversized(queries[i])
  <2>1. asked = queries
    BY <1>2 DEF Answered
  <2>2. ASSUME NEW i \in DOMAIN queries
        PROVE  queries[i].sides = Sides(queries[i])
    <3> DEFINE s == queries[i].sides
    <3>1. s \in [1..d -> Nat] /\ Sides(queries[i]) = [a \in DOMAIN s |-> s[a] % Word]
      BY DEF QueriesOK, Sides
    <3>2. \A a \in DOMAIN s : ~(s[a] >= Word)
      BY <1>2 DEF Oversized
    <3> HIDE DEF s
    <3>3. \A a \in 1..d : s[a] % Word = s[a]
      <4> TAKE a \in 1..d
      <4>1. s[a] \in Nat /\ ~(s[a] >= Word) /\ Word \in Nat \ {0}
        BY <3>1, <3>2, WordAssumption
      <4>2. s[a] < Word
        BY <4>1
      <4> QED
        BY <4>1, <4>2, ModTwice
    <3>4. s = [a \in 1..d |-> s[a]] /\ DOMAIN s = 1..d
      BY <3>1
    <3>5. Sides(queries[i]) = s
      BY <3>1, <3>3, <3>4
    <3> QED
      BY <3>5 DEF s
  <2> QED
    BY <2>1, <2>2
<1> QED
  BY <1>1, <1>2

LEMMA AnsweredCells ==
  ASSUME NEW queries, NEW d, QueriesOK(queries, d), NEW asked, asked = Answered(queries)
  PROVE  /\ DOMAIN asked = DOMAIN queries /\ SizeOf(asked) = CutSize(queries)
         /\ \A i \in DOMAIN queries : Cells(asked[i]) = CutCells(queries[i])
<1>1. /\ DOMAIN asked = DOMAIN queries
      /\ \A i \in DOMAIN queries :
           /\ asked[i].sides = Sides(queries[i]) /\ asked[i].dimension = queries[i].dimension
           /\ asked[i].origin = queries[i].origin /\ asked[i].step = queries[i].step
  BY AnsweredAre
<1>2. \A i \in DOMAIN queries : Product(asked[i].sides) = SizeAt(queries, i)
  BY <1>1 DEF SizeAt
<1>3. Wholes(asked) = Sizes(queries)
  BY <1>1, <1>2 DEF Wholes, Sizes
<1>4. SizeOf(asked) = SumOf(Wholes(asked))
  BY Zenon DEF SizeOf, SumOf, Wholes
<1>5. ASSUME NEW i \in DOMAIN queries
      PROVE  Cells(asked[i]) = CutCells(queries[i])
  BY <1>1, Zenon DEF Cells, CutCells
<1> QED
  BY <1>1, <1>3, <1>4, <1>5 DEF CutSize

(* The two say the same.                                                   *)
LEMMA RightIsAnswer ==
  ASSUME NEW queries, NEW g, QueriesOK(queries, g.dimension), NEW r, NEW recycled,
         ~Refused(g, queries), Right(r, g, queries, recycled)
  PROVE  IsAnswer(r, g, Answered(queries), recycled)
<1>1. PICK asked : asked = Answered(queries)
  OBVIOUS
<1>2. /\ DOMAIN asked = DOMAIN queries /\ SizeOf(asked) = CutSize(queries)
      /\ \A i \in DOMAIN queries : Cells(asked[i]) = CutCells(queries[i])
  BY <1>1, AnsweredCells
<1> DEFINE Row(c) == [k \in DOMAIN c |-> Value(g, NodeOf(g, g.final), c[k])]
<1>3. Expected(g, queries) = [i \in DOMAIN queries |-> Row(CutCells(queries[i]))]
  BY Zenon DEF Expected
<1>4. Expected(g, queries) = [i \in DOMAIN asked |-> Row(Cells(asked[i]))]
  <2> HIDE DEF Row
  <2> QED
    BY <1>2, <1>3
<1>5. IsAnswer(r, g, asked, recycled)
  BY <1>2, <1>4, ZenonT(40) DEF IsAnswer, Right
<1> QED
  BY <1>1, <1>5

LEMMA RightJobs ==
  ASSUME outcome # None => /\ outcome.queries \in Batches /\ Graph.dimension \in {2, 3}
                           /\ Right(outcome.result, Graph, outcome.queries, outcome.recycled)
  PROVE  JobsComputeGraph
<1> SUFFICES ASSUME outcome # None
             PROVE  JobsComputeGraph
  BY DEF JobsComputeGraph
<1>1. PICK queries, r, recycled : queries = outcome.queries /\ r = outcome.result /\ recycled = outcome.recycled
  OBVIOUS
<1>2. Graph.dimension = dimension
  BY DEF Graph
<1>3. queries \in Batches /\ Right(r, Graph, queries, recycled)
  BY <1>1
<1> DEFINE mixed == \E i \in DOMAIN queries : queries[i].dimension # dimension
           wrong == mixed \/ (debug /\ Uncountable(queries))
<1>4. ~mixed => QueriesOK(queries, Graph.dimension)
  BY <1>2, <1>3, BatchIsOK
<1>5. wrong <=> Refused(Graph, queries)
  BY <1>2, <1>4, OverflowsIs DEF Refused
<1>6. JobsComputeGraph <=> IF wrong THEN r.error = Panic ELSE IsAnswer(r, Graph, Answered(queries), recycled)
  BY <1>1, Zenon DEF JobsComputeGraph, Answered
<1>7. ASSUME wrong
      PROVE  r.error = Panic
  BY <1>3, <1>5, <1>7 DEF Right
<1>8. ASSUME ~wrong
      PROVE  IsAnswer(r, Graph, Answered(queries), recycled)
  BY <1>3, <1>4, <1>5, <1>8, RightIsAnswer
<1> HIDE DEF wrong
<1> QED
  BY <1>6, <1>7, <1>8

(* Whatever the edits that led to the graph, a job on its plan returns,    *)
(* for each query, the value of the final field at each cell, x first, as  *)
(* the graph says; if a node that compiled is in trouble, every job fails  *)
(* with one of the troubles, and 2^32 samples or more panic, as in a debug *)
(* build do those that a usize cannot count.  The exception is as stated:  *)
(* sides of 2^32 or more lose their high bits, and the job answers for the *)
(* queries cut (runtime.rs:163-357, 464-724, 782-981, 1109-1115,           *)
(* 1181-1533, model.rs:266-275).                                           *)
THEOREM JobsHold == Spec => []JobsComputeGraph
<1>1. Init => PlanIsCurrent /\ OutcomeIsJob
  BY DEF Init, PlanIsCurrent, OutcomeIsJob
<1>2. PlanIsCurrent /\ [Next]_vars => PlanIsCurrent'
  BY PlanStaysCurrent
<1>3. OutcomeIsJob /\ [Next]_vars => OutcomeIsJob'
  BY OutcomeStaysJob
<1>4. Typed /\ KeysMatchNodes /\ PlanIsCurrent /\ OutcomeIsJob => JobsComputeGraph
  <2> SUFFICES ASSUME Typed, KeysMatchNodes, PlanIsCurrent, OutcomeIsJob, outcome # None
               PROVE  /\ outcome.queries \in Batches /\ Graph.dimension \in {2, 3}
                      /\ Right(outcome.result, Graph, outcome.queries, outcome.recycled)
    BY RightJobs
  <2>1. plan.error = "none"
    BY DEF OutcomeIsJob
  <2>2. PICK queries \in Batches, recycled \in BOOLEAN, one \in BOOLEAN :
          outcome = [queries |-> queries, recycled |-> recycled,
                     result |-> Job(plan, queries, Starting(recycled), one, debug)]
    BY Zenon DEF OutcomeIsJob
  <2>3. plan # None
    <3>1. None.error # "none"
      BY DEF None
    <3> QED
      BY <2>1, <3>1
  <2>4. plan = Compiled(Graph, debug) /\ debug \in BOOLEAN
    BY <2>3 DEF PlanIsCurrent, Typed
  <2>5. GraphOK(Graph)
    BY GraphIsOK
  <2>6. PICK order, slots : CompiledTo(plan, Graph, order, slots)
    BY <2>1, <2>4, <2>5, PlannedIs
  <2>7. Right(Job(plan, queries, Starting(recycled), one, debug), Graph, queries, recycled)
    BY <2>5, <2>6, JobIsRight
  <2>8. /\ outcome.queries = queries /\ outcome.recycled = recycled
        /\ outcome.result = Job(plan, queries, Starting(recycled), one, debug)
    BY <2>2
  <2>9. Graph.dimension \in {2, 3}
    BY <2>5 DEF GraphOK
  <2> QED
    BY <2>7, <2>8, <2>9
<1> QED
  BY <1>1, <1>2, <1>3, <1>4, Invariant, PTL DEF Spec
=============================================================================
