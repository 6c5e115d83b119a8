------------------------------- MODULE SlotTable -------------------------------
(***************************************************************************)
(* SlotTable (src/src/slot_table.rs), as operators: a table is its slots,  *)
(* each with a generation and a value or Hole, the stack of free indexes   *)
(* and the count of live values; a key is an index and a generation.       *)
(***************************************************************************)
EXTENDS SeqFolds

CONSTANTS
  Generations,  (* 2^32: where generations wrap                            *)
  Hole          (* None                                                    *)

ASSUME GenerationsAssumption == Generations \in Nat \ {0}

EmptyTable == [slots |-> <<>>, free |-> <<>>, len |-> 0]

(* Option::take and the next generation.                                   *)
Vacated(slot) == [generation |-> (slot.generation + 1) % Generations, value |-> Hole]

KeyOf(t, i) == [index |-> i, generation |-> t.slots[i].generation]

Get(t, key) ==
  IF key.index \in DOMAIN t.slots /\ t.slots[key.index].generation = key.generation
  THEN t.slots[key.index].value ELSE Hole

(* get_mut and an assignment through it.                                   *)
Overwrite(t, key, value) == [t EXCEPT !.slots[key.index].value = value]

(* Where insert puts a value: the hole freed last, else a new slot.        *)
Place(t) == IF t.free = <<>> THEN Len(t.slots) + 1 ELSE t.free[Len(t.free)]

Insert(t, value) ==
  LET i == Place(t)
      generation == IF t.free = <<>> THEN 0 ELSE t.slots[i].generation
  IN  [slots |-> [k \in DOMAIN t.slots \cup {i} |->
                    IF k = i THEN [generation |-> generation, value |-> value] ELSE t.slots[k]],
       free  |-> IF t.free = <<>> THEN <<>> ELSE SubSeq(t.free, 1, Len(t.free) - 1),
       len   |-> t.len + 1]

InsertedKey(t) == [index |-> Place(t), generation |-> IF t.free = <<>> THEN 0 ELSE t.slots[Place(t)].generation]

RemoveKey(t, key) ==
  IF Get(t, key) = Hole THEN t
  ELSE [slots |-> [t.slots EXCEPT ![key.index] = Vacated(@)],
        free  |-> Append(t.free, key.index),
        len   |-> t.len - 1]

(* Slip: the holes keep their places in the free list.                     *)
ClearLive(t) ==
  [slots |-> [i \in DOMAIN t.slots |-> IF t.slots[i].value = Hole THEN t.slots[i] ELSE Vacated(t.slots[i])],
   free  |-> t.free \o [i \in DOMAIN t.slots |-> i],
   len   |-> 0]

ClearReuse(t) ==
  [slots |-> [i \in DOMAIN t.slots |-> IF t.slots[i].value = Hole THEN t.slots[i] ELSE Vacated(t.slots[i])],
   free  |-> [i \in DOMAIN t.slots |-> i],
   len   |-> 0]

(* iter: the live values by index.                                         *)
Values(t) ==
  LET values == [i \in DOMAIN t.slots |-> t.slots[i].value]
  IN  Kept(values, ToSet(values) \ {Hole})

(* The free list holds every hole once, and len counts the others.         *)
TableOK(t) ==
  /\ t.slots \in Seq([generation : 0..(Generations - 1), value : {t.slots[i].value : i \in DOMAIN t.slots}])
  /\ t.free \in Seq(DOMAIN t.slots)
  /\ \A i \in DOMAIN t.slots : t.slots[i].value = Hole <=> \E k \in DOMAIN t.free : t.free[k] = i
  /\ \A k, l \in DOMAIN t.free : t.free[k] = t.free[l] => k = l
  /\ t.len + Len(t.free) = Len(t.slots)
=============================================================================
