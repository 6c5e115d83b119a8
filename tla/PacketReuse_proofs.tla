-------------------------- MODULE PacketReuse_proofs --------------------------
(***************************************************************************)
(* Proofs about PacketReuse, for any callers, plans and number of calls:   *)
(* what a packet holds, and that its past does not show.  What the folds   *)
(* over encoded items, kernels and stages compute is followed from link to *)
(* link of the chains of SeqFolds_proofs.                                  *)
(***************************************************************************)
EXTENDS PacketReuse, SeqFolds_proofs
-----------------------------------------------------------------------------
(* ---- packets ---------------------------------------------------------- *)

(* Packets whose elements stem from jobs of E only; one that is not marked *)
(* dirty has no elements.                                                  *)
SlotId == Nat

Buffer(E) == [kind : Kinds, data : Seq(SUBSET E)]
Buffers(E) == UNION {[S -> Buffer(E)] : S \in SUBSET SlotId}
Packet(E) == {p \in [count : Nat, buffers : Buffers(E), dirty : BOOLEAN] :
                p.dirty \/ \A s \in Slots(p) : p.buffers[s].data = <<>>}

(* What waits in a pool.                                                   *)
Blank == {p \in Packet({}) : ~p.dirty}

LEMMA PacketParts ==
  ASSUME NEW E, NEW p \in Packet(E)
  PROVE  /\ p.count \in Nat /\ p.dirty \in BOOLEAN
         /\ Slots(p) \in SUBSET SlotId /\ p.buffers \in [Slots(p) -> Buffer(E)]
         /\ p = [count |-> p.count, buffers |-> p.buffers, dirty |-> p.dirty]
         /\ p.dirty \/ \A s \in Slots(p) : p.buffers[s].data = <<>>
<1>1. /\ p \in [count : Nat, buffers : Buffers(E), dirty : BOOLEAN]
      /\ p.dirty \/ \A s \in Slots(p) : p.buffers[s].data = <<>>
  BY DEF Packet
<1>2. p.buffers \in Buffers(E) /\ p.count \in Nat /\ p.dirty \in BOOLEAN
      /\ p = [count |-> p.count, buffers |-> p.buffers, dirty |-> p.dirty]
  BY <1>1
<1>3. PICK S \in SUBSET SlotId : p.buffers \in [S -> Buffer(E)]
  BY <1>2 DEF Buffers
<1> QED
  BY <1>1, <1>2, <1>3 DEF Slots

LEMMA PacketMade ==
  ASSUME NEW E, NEW count \in Nat, NEW dirty \in BOOLEAN,
         NEW S \in SUBSET SlotId, NEW buffers \in [S -> Buffer(E)],
         dirty \/ \A s \in S : buffers[s].data = <<>>
  PROVE  [count |-> count, buffers |-> buffers, dirty |-> dirty] \in Packet(E)
<1>1. buffers \in Buffers(E)
  BY DEF Buffers
<1> QED
  BY <1>1 DEF Packet, Slots

LEMMA BufferParts ==
  ASSUME NEW E, NEW b \in Buffer(E)
  PROVE  /\ b.kind \in Kinds /\ b.data \in Seq(SUBSET E) /\ Len(b.data) \in Nat
         /\ b = [kind |-> b.kind, data |-> b.data]
         /\ DOMAIN b.data = 1..Len(b.data)
         /\ \A i \in 1..Len(b.data) : b.data[i] \in SUBSET E
<1>1. b.kind \in Kinds /\ b.data \in Seq(SUBSET E) /\ b = [kind |-> b.kind, data |-> b.data]
  BY DEF Buffer
<1> QED
  BY <1>1

LEMMA OtherData ==
  ASSUME NEW kind, NEW data, NEW other, NEW b, b = [kind |-> kind, data |-> data]
  PROVE  [b EXCEPT !.data = other] = [kind |-> kind, data |-> other]
<1> QED
  OBVIOUS

(* An emptied buffer.                                                      *)
Emptied(kind) == [kind |-> kind, data |-> <<>>]

LEMMA EmptiedIs ==
  ASSUME NEW kind \in Kinds
  PROVE  \A E : Emptied(kind) \in Buffer(E) /\ Emptied(kind).kind = kind /\ Emptied(kind).data = <<>>
<1>1. \A E : <<>> \in Seq(SUBSET E)
  BY EmptySeq
<1> QED
  BY <1>1 DEF Emptied, Buffer

(* A packet is one of a larger set of jobs, too.                           *)
LEMMA PacketMono ==
  ASSUME NEW E, NEW F, E \subseteq F, NEW p \in Packet(E)
  PROVE  p \in Packet(F)
<1>1. ASSUME NEW b \in Buffer(E)
      PROVE  b \in Buffer(F)
  <2>b. b.data \in Seq(SUBSET E)
    BY BufferParts
  <2>1. PICK n \in Nat : b.data \in [1..n -> SUBSET E]
    BY <2>b, SeqDef
  <2>a. b.data \in [1..n -> SUBSET F]
    BY <2>1
  <2>2. b.data \in Seq(SUBSET F)
    BY <2>a, SeqDef
  <2> QED
    BY <2>2, BufferParts DEF Buffer
<1>2. p.buffers \in [Slots(p) -> Buffer(F)]
  BY <1>1, PacketParts
<1>3. [count |-> p.count, buffers |-> p.buffers, dirty |-> p.dirty] \in Packet(F)
  BY <1>2, PacketParts, PacketMade
<1> QED
  BY <1>3, PacketParts

LEMMA NewIsBlank == NewPacket \in Blank
<1>1. <<>> \in [{} -> Buffer({})]
  OBVIOUS
<1>2. [count |-> 0, buffers |-> <<>>, dirty |-> FALSE] \in Packet({})
  BY <1>1, PacketMade
<1> QED
  BY <1>2 DEF NewPacket, Blank

LEMMA ClearedIsBlank ==
  ASSUME NEW E, NEW p \in Packet(E)
  PROVE  Cleared(p) \in Blank /\ Slots(Cleared(p)) = Slots(p)
         /\ Cleared(p).count = 0
         /\ \A s \in Slots(p) : /\ Cleared(p).buffers[s].kind = p.buffers[s].kind
                                /\ Cleared(p).buffers[s].data = <<>>
<1> DEFINE buffers == [s \in Slots(p) |-> [p.buffers[s] EXCEPT !.data = <<>>]]
<1>1. /\ p.count \in Nat /\ Slots(p) \in SUBSET SlotId /\ p.buffers \in [Slots(p) -> Buffer(E)]
      /\ p = [count |-> p.count, buffers |-> p.buffers, dirty |-> p.dirty] /\ p.dirty \in BOOLEAN
      /\ p.dirty \/ \A s \in Slots(p) : p.buffers[s].data = <<>>
  BY PacketParts
<1>2. ASSUME NEW s \in Slots(p)
      PROVE  [p.buffers[s] EXCEPT !.data = <<>>] = Emptied(p.buffers[s].kind) /\ p.buffers[s].kind \in Kinds
  <2>1. p.buffers[s] \in Buffer(E)
    BY <1>1
  <2>2. p.buffers[s] = [kind |-> p.buffers[s].kind, data |-> p.buffers[s].data] /\ p.buffers[s].kind \in Kinds
    BY <2>1, BufferParts
  <2> QED
    BY <2>2, OtherData DEF Emptied
<1>4. ASSUME NEW b, b \in [Slots(p) -> Buffer(E)], \A s \in Slots(p) : b[s] = Emptied(p.buffers[s].kind)
      PROVE  LET q == [count |-> 0, buffers |-> b, dirty |-> FALSE]
             IN  /\ q \in Blank /\ Slots(q) = Slots(p) /\ q.count = 0
                 /\ \A s \in Slots(p) : q.buffers[s].kind = p.buffers[s].kind /\ q.buffers[s].data = <<>>
  <2>1. ASSUME NEW s \in Slots(p)
        PROVE  b[s] \in Buffer({}) /\ b[s].kind = p.buffers[s].kind /\ b[s].data = <<>>
    <3>1. b[s] = Emptied(p.buffers[s].kind) /\ p.buffers[s].kind \in Kinds
      BY <1>2, <1>4
    <3>2. /\ Emptied(p.buffers[s].kind) \in Buffer({})
          /\ Emptied(p.buffers[s].kind).kind = p.buffers[s].kind /\ Emptied(p.buffers[s].kind).data = <<>>
      BY <3>1, EmptiedIs
    <3> QED
      BY <3>1, <3>2
  <2>2. b \in [Slots(p) -> Buffer({})]
    BY <1>4, <2>1
  <2>3. [count |-> 0, buffers |-> b, dirty |-> FALSE] \in Packet({})
    BY <1>1, <2>1, <2>2, PacketMade
  <2> QED
    BY <2>1, <2>2, <2>3 DEF Blank, Slots
<1>5. CASE p.dirty
  <2>1. Cleared(p) = [count |-> 0, buffers |-> buffers, dirty |-> FALSE]
    BY <1>5 DEF Cleared
  <2>2. \A s \in Slots(p) : buffers[s] = Emptied(p.buffers[s].kind)
    BY <1>2
  <2>3. \A s \in Slots(p) : Emptied(p.buffers[s].kind) \in Buffer(E)
    BY <1>2, EmptiedIs
  <2>4. buffers \in [Slots(p) -> Buffer(E)]
    BY <1>2, <2>3
  <2> HIDE DEF buffers
  <2> QED
    BY <1>4, <2>1, <2>2, <2>4
<1>6. CASE ~p.dirty
  <2>1. Cleared(p) = [count |-> 0, buffers |-> p.buffers, dirty |-> FALSE]
    BY <1>1, <1>6 DEF Cleared
  <2>2. \A s \in Slots(p) : p.buffers[s] = Emptied(p.buffers[s].kind)
    <3> SUFFICES ASSUME NEW s \in Slots(p)
                 PROVE  p.buffers[s] = Emptied(p.buffers[s].kind)
      OBVIOUS
    <3>1. p.buffers[s] \in Buffer(E) /\ p.buffers[s].data = <<>>
      BY <1>1, <1>6
    <3>2. p.buffers[s] = [kind |-> p.buffers[s].kind, data |-> p.buffers[s].data]
      BY <3>1, BufferParts
    <3> QED
      BY <3>1, <3>2 DEF Emptied
  <2> QED
    BY <1>1, <1>4, <2>1, <2>2
<1> QED
  BY <1>1, <1>5, <1>6

Grown(old, kind, len) ==
  [kind |-> kind, data |-> [i \in 1..len |-> IF i <= Len(old.data) THEN old.data[i] ELSE {}]]

IsEnsured(q, E, p, slot, kind, len) ==
  /\ q \in Packet(E) /\ q.dirty = TRUE /\ q.count = p.count
  /\ Slots(q) = Slots(p) \cup {slot}
  /\ q.buffers[slot].kind = kind /\ Len(q.buffers[slot].data) = len
  /\ q.buffers[slot] = Grown(EnsuredSlot(p, slot, kind), kind, len)
  /\ \A s \in Slots(p) \ {slot} : q.buffers[s] = p.buffers[s]

LEMMA EnsuredIs ==
  ASSUME NEW E, NEW p \in Packet(E), NEW slot \in SlotId, NEW kind \in Kinds, NEW len \in Nat
  PROVE  IsEnsured(Ensured(p, slot, kind, len), E, p, slot, kind, len)
<1> DEFINE old == EnsuredSlot(p, slot, kind)
           data == [i \in 1..len |-> IF i <= Len(old.data) THEN old.data[i] ELSE {}]
           buffer == [kind |-> kind, data |-> data]
           buffers == [s \in Slots(p) \cup {slot} |-> IF s = slot THEN buffer ELSE p.buffers[s]]
<1>1. /\ p.count \in Nat /\ Slots(p) \in SUBSET SlotId /\ p.buffers \in [Slots(p) -> Buffer(E)]
      /\ p = [count |-> p.count, buffers |-> p.buffers, dirty |-> p.dirty]
  BY PacketParts
<1>2. old \in Buffer(E) /\ old.kind = kind
  <2>1. CASE slot \in Slots(p) /\ p.buffers[slot].kind = kind
    BY <1>1, <2>1 DEF EnsuredSlot
  <2>2. CASE ~(slot \in Slots(p) /\ p.buffers[slot].kind = kind)
    BY <2>2 DEF EnsuredSlot, Buffer
  <2> QED
    BY <2>1, <2>2
<1> HIDE DEF old
<1>e. old = [kind |-> kind, data |-> old.data]
  BY <1>2, BufferParts
<1>3. Len(old.data) \in Nat /\ \A i \in 1..Len(old.data) : old.data[i] \in SUBSET E
  BY <1>2, BufferParts
<1>4. data \in [1..len -> SUBSET E]
  BY <1>3
<1>5. data \in Seq(SUBSET E) /\ Len(data) = len
  BY <1>4
<1>6. \A d : [old EXCEPT !.data = d] = [kind |-> kind, data |-> d]
  BY <1>e, OtherData
<1>7. Ensured(p, slot, kind, len) = WithBuffer(p, slot, buffer)
  BY <1>6 DEF Ensured, old
<1>g. buffer = Grown(EnsuredSlot(p, slot, kind), kind, len)
  BY DEF Grown, old
<1> HIDE DEF data
<1>8. buffer \in Buffer(E)
  BY <1>5 DEF Buffer
<1>9. Ensured(p, slot, kind, len) = [count |-> p.count, buffers |-> buffers, dirty |-> TRUE]
  BY <1>1, <1>7 DEF WithBuffer
<1>a. buffers \in [Slots(p) \cup {slot} -> Buffer(E)] /\ Slots(p) \cup {slot} \in SUBSET SlotId
  BY <1>1, <1>8
<1>b. buffers[slot] = buffer /\ \A s \in Slots(p) \ {slot} : buffers[s] = p.buffers[s]
  OBVIOUS
<1>c. buffer.kind = kind /\ Len(buffer.data) = len
  BY <1>5
<1> HIDE DEF buffers, buffer
<1>d. Ensured(p, slot, kind, len) \in Packet(E)
  BY <1>1, <1>9, <1>a, PacketMade
<1> QED
  BY <1>9, <1>a, <1>b, <1>c, <1>d, <1>g DEF IsEnsured, Slots

IsWritten(q, E, p, slot, data) ==
  /\ q \in Packet(E) /\ q.dirty = p.dirty /\ q.count = p.count /\ Slots(q) = Slots(p)
  /\ q.buffers[slot] = [kind |-> p.buffers[slot].kind, data |-> data]
  /\ \A s \in Slots(p) \ {slot} : q.buffers[s] = p.buffers[s]

LEMMA WrittenIs ==
  ASSUME NEW E, NEW p \in Packet(E), NEW slot \in Slots(p), NEW data \in Seq(SUBSET E),
         p.dirty = TRUE \/ data = <<>>
  PROVE  IsWritten(Written(p, slot, data), E, p, slot, data)
<1> DEFINE buffer == [kind |-> p.buffers[slot].kind, data |-> data]
           buffers == [p.buffers EXCEPT ![slot] = buffer]
<1>1. /\ p.count \in Nat /\ Slots(p) \in SUBSET SlotId /\ p.buffers \in [Slots(p) -> Buffer(E)]
      /\ p = [count |-> p.count, buffers |-> p.buffers, dirty |-> p.dirty] /\ p.dirty \in BOOLEAN
      /\ p.dirty \/ \A s \in Slots(p) : p.buffers[s].data = <<>>
  BY PacketParts
<1>2. /\ p.buffers[slot] = [kind |-> p.buffers[slot].kind, data |-> p.buffers[slot].data]
      /\ p.buffers[slot].kind \in Kinds
  BY <1>1, BufferParts
<1>3. buffer \in Buffer(E) /\ [p.buffers[slot] EXCEPT !.data = data] = buffer
  <2>1. buffer \in Buffer(E)
    BY <1>2 DEF Buffer
  <2>2. [p.buffers[slot] EXCEPT !.data = data] = buffer
    BY <1>2, OtherData
  <2> QED
    BY <2>1, <2>2
<1>4. Written(p, slot, data) = [count |-> p.count, buffers |-> buffers, dirty |-> p.dirty]
  <2>1. Written(p, slot, data) =
          [p EXCEPT !.buffers = [p.buffers EXCEPT ![slot] = [p.buffers[slot] EXCEPT !.data = data]]]
    BY DEF Written
  <2> QED
    BY <1>1, <1>3, <2>1
<1>5. buffers \in [Slots(p) -> Buffer(E)] /\ buffers[slot] = buffer
      /\ \A s \in Slots(p) \ {slot} : buffers[s] = p.buffers[s]
  BY <1>1, <1>3
<1>6. buffer.data = data
  OBVIOUS
<1> HIDE DEF buffers
<1>7. p.dirty \/ \A s \in Slots(p) : buffers[s].data = <<>>
  BY <1>1, <1>5, <1>6
<1>8. [count |-> p.count, buffers |-> buffers, dirty |-> p.dirty] \in Packet(E)
  BY <1>1, <1>5, <1>7, PacketMade
<1> QED
  BY <1>4, <1>5, <1>8 DEF IsWritten, Slots
-----------------------------------------------------------------------------
(* ---- encoding --------------------------------------------------------- *)

ItemType == [slot : SlotId, kind : Kinds, width : Nat, fills : BOOLEAN]
StaticType == [slot : SlotId, kind : Kinds, data : Seq({{Static}})]
KernelType == [access : {"exclusive", "grow", "groups"}, slots : Seq(SlotId) \ {<<>>}, kind : Kinds, width : Nat]

LEMMA PlanParts ==
  ASSUME NEW plan \in PlanType
  PROVE  /\ plan.specs \in Seq([slot : Nat, kind : Kinds, layout : {"scalar", "vector", "dynamic"}, width : Nat])
         /\ plan.statics \in Seq(StaticType) /\ plan.encode \in Seq(ItemType)
         /\ plan.stages \in Seq(Seq(KernelType))
         /\ plan.decode.slot \in SlotId /\ plan.decode.kind \in Kinds
<1> QED
  BY DEF PlanType, StaticType, ItemType, KernelType, SlotId

LoadItem(q, b) == Written(Ensured(q, b.slot, b.kind, Len(b.data)), b.slot, b.data)

EncodeItem(q, b, count, job) ==
  LET e == Ensured(q, b.slot, b.kind, count * b.width)
  IN  IF b.fills THEN Written(e, b.slot, [i \in 1..(count * b.width) |-> {job}]) ELSE e

LEMMA Counted ==
  ASSUME NEW E, NEW p \in Packet(E), NEW count \in Nat
  PROVE  /\ [p EXCEPT !.count = count] \in Packet(E)
         /\ [p EXCEPT !.count = count].count = count
         /\ [p EXCEPT !.count = count].buffers = p.buffers
         /\ [p EXCEPT !.count = count].dirty = p.dirty
<1>1. /\ p.count \in Nat /\ p.dirty \in BOOLEAN
      /\ Slots(p) \in SUBSET SlotId /\ p.buffers \in [Slots(p) -> Buffer(E)]
      /\ p = [count |-> p.count, buffers |-> p.buffers, dirty |-> p.dirty]
      /\ p.dirty \/ \A s \in Slots(p) : p.buffers[s].data = <<>>
  BY PacketParts
<1>2. [p EXCEPT !.count = count] = [count |-> count, buffers |-> p.buffers, dirty |-> p.dirty]
  BY <1>1
<1>3. [count |-> count, buffers |-> p.buffers, dirty |-> p.dirty] \in Packet(E)
  BY <1>1, PacketMade
<1> QED
  BY <1>2, <1>3

LEMMA LoadItemIs ==
  ASSUME NEW E, Static \in E, NEW q \in Packet(E), NEW b \in StaticType
  PROVE  LoadItem(q, b) \in Packet(E) /\ Slots(LoadItem(q, b)) = Slots(q) \cup {b.slot}
<1>1. b.slot \in SlotId /\ b.kind \in Kinds /\ b.data \in Seq({{Static}})
  BY DEF StaticType
<1>l. PICK len \in Nat : len = Len(b.data)
  BY <1>1
<1>2. b.data \in Seq(SUBSET E)
  <2>1. PICK n \in Nat : b.data \in [1..n -> {{Static}}]
    BY <1>1, SeqDef
  <2>2. b.data \in [1..n -> SUBSET E]
    BY <2>1
  <2> QED
    BY <2>2, SeqDef, <1>1
<1> DEFINE e == Ensured(q, b.slot, b.kind, len)
<1>a. IsEnsured(e, E, q, b.slot, b.kind, len)
  BY <1>1, EnsuredIs, Zenon
<1> HIDE DEF e
<1>3. e \in Packet(E) /\ e.dirty = TRUE /\ Slots(e) = Slots(q) \cup {b.slot} /\ b.slot \in Slots(e)
  BY <1>a DEF IsEnsured
<1>b. IsWritten(Written(e, b.slot, b.data), E, e, b.slot, b.data)
  BY <1>2, <1>3, WrittenIs, Zenon
<1>4. Written(e, b.slot, b.data) \in Packet(E) /\ Slots(Written(e, b.slot, b.data)) = Slots(e)
  BY <1>b DEF IsWritten
<1> QED
  BY <1>l, <1>3, <1>4 DEF LoadItem, e

LEMMA EncodeItemIs ==
  ASSUME NEW E, NEW q \in Packet(E), NEW b \in ItemType, NEW count \in Nat, NEW job \in E
  PROVE  /\ EncodeItem(q, b, count, job) \in Packet(E)
         /\ Slots(EncodeItem(q, b, count, job)) = Slots(q) \cup {b.slot}
         /\ EncodeItem(q, b, count, job).count = q.count
<1>1. b.slot \in SlotId /\ b.kind \in Kinds /\ b.width \in Nat /\ b.fills \in BOOLEAN
  BY DEF ItemType
<1>2. PICK len \in Nat : len = count * b.width
  BY <1>1
<1> DEFINE e == Ensured(q, b.slot, b.kind, len)
           data == [i \in 1..len |-> {job}]
<1>a. IsEnsured(e, E, q, b.slot, b.kind, len)
  BY <1>1, EnsuredIs, Zenon
<1>3. e \in Packet(E) /\ e.dirty = TRUE /\ e.count = q.count /\ Slots(e) = Slots(q) \cup {b.slot} /\ b.slot \in Slots(e)
  BY <1>a DEF IsEnsured
<1>4. data \in Seq(SUBSET E)
  OBVIOUS
<1>5. EncodeItem(q, b, count, job) = IF b.fills THEN Written(e, b.slot, data) ELSE e
  BY <1>2 DEF EncodeItem
<1> HIDE DEF e, data
<1>b. IsWritten(Written(e, b.slot, data), E, e, b.slot, data)
  BY <1>3, <1>4, WrittenIs, Zenon
<1>6. Written(e, b.slot, data) \in Packet(E) /\ Slots(Written(e, b.slot, data)) = Slots(e)
      /\ Written(e, b.slot, data).count = e.count
  BY <1>b DEF IsWritten
<1> QED
  BY <1>3, <1>5, <1>6

LoadSteps(E, plan) ==
  [i \in 1..Len(plan.statics) |-> [q \in Packet(E) |-> LoadItem(q, plan.statics[i])]]

EncodeSteps(E, items, count, job) ==
  [i \in 1..Len(items) |-> [q \in Packet(E) |-> EncodeItem(q, items[i], count, job)]]

LEMMA LoadedChain ==
  ASSUME NEW E, Static \in E, NEW p \in Packet(E), NEW plan \in PlanType
  PROVE  Chained(LoadedStatics(p, plan), Len(plan.statics), Packet(E), p, LoadSteps(E, plan))
<1>0. PICK n \in Nat : n = Len(plan.statics)
  BY PlanParts
<1> DEFINE step == LoadSteps(E, plan)
           h == CHOOSE f : f = [t \in SUBSET (DOMAIN plan.statics) |->
                                  IF t = {} THEN p ELSE LoadItem(f[t \ {Max(t)}], plan.statics[Max(t)])]
<1>1. DOMAIN plan.statics = 1..n /\ \A i \in 1..n : plan.statics[i] \in StaticType
  BY <1>0, PlanParts
<1>2. step \in [1..n -> [Packet(E) -> Packet(E)]]
      /\ \A i \in 1..n : \A q \in Packet(E) : step[i][q] = LoadItem(q, plan.statics[i])
  BY <1>0, <1>1, LoadItemIs DEF LoadSteps
<1>3. LoadedStatics(p, plan) = h[DOMAIN plan.statics]
  BY Zenon DEF LoadedStatics, LoadItem, FoldLeft, MapThenFoldSet
<1> HIDE DEF step
<1>4. Folds(n, Packet(E), p, step)
  BY <1>1, <1>2, FoldExists
<1>5. PICK f \in [SUBSET (1..n) -> Packet(E)] : IsFold(f, n, p, step)
  BY <1>4 DEF Folds
<1>6. \A t \in SUBSET (1..n) : t # {} => Max(t) \in 1..n /\ t \ {Max(t)} \in SUBSET (1..n)
  BY <1>1, MaxOf
<1>7. f = [t \in SUBSET (1..n) |-> IF t = {} THEN p ELSE LoadItem(f[t \ {Max(t)}], plan.statics[Max(t)])]
  <2>1. ASSUME NEW t \in SUBSET (1..n)
        PROVE  f[t] = IF t = {} THEN p ELSE LoadItem(f[t \ {Max(t)}], plan.statics[Max(t)])
    BY <1>2, <1>5, <1>6 DEF IsFold
  <2> QED
    BY <1>5, <2>1
<1>8. h = [t \in SUBSET (1..n) |-> IF t = {} THEN p ELSE LoadItem(h[t \ {Max(t)}], plan.statics[Max(t)])]
  BY <1>1, <1>7
<1> HIDE DEF h
<1>9. h[{}] = p
  BY <1>8
<1>b. \A s \in SUBSET (1..n) : s # {} /\ h[s \ {Max(s)}] \in Packet(E) => h[s] = step[Max(s)][h[s \ {Max(s)}]]
  <2> SUFFICES ASSUME NEW s \in SUBSET (1..n), s # {}, h[s \ {Max(s)}] \in Packet(E)
               PROVE  h[s] = step[Max(s)][h[s \ {Max(s)}]]
    OBVIOUS
  <2> DEFINE m == Max(s)
             q == h[s \ {m}]
  <2>1. m \in 1..n
    BY <1>6
  <2>2. h[s] = LoadItem(q, plan.statics[m])
    BY <1>8
  <2> HIDE DEF m, q
  <2>3. step[m][q] = LoadItem(q, plan.statics[m])
    BY <1>2, <2>1 DEF m, q
  <2> QED
    BY <2>2, <2>3 DEF m, q
<1>c. step \in [1..n -> [Packet(E) -> Packet(E)]]
  BY <1>1, <1>2
<1>a. Chained(h[1..n], n, Packet(E), p, step)
  BY <1>9, <1>b, <1>c, FoldChain, Zenon
<1> QED
  BY <1>0, <1>1, <1>3, <1>a DEF step

LEMMA EncodedChain ==
  ASSUME NEW E, NEW p \in Packet(E), NEW items \in Seq(ItemType), NEW count \in Nat, NEW job \in E
  PROVE  Chained(Encoded(p, items, count, job), Len(items), Packet(E), [p EXCEPT !.count = count],
                 EncodeSteps(E, items, count, job))
<1>0. PICK n \in Nat : n = Len(items)
  OBVIOUS
<1> DEFINE base == [p EXCEPT !.count = count]
           step == EncodeSteps(E, items, count, job)
           h == CHOOSE f : f = [t \in SUBSET (DOMAIN items) |->
                                  IF t = {} THEN base
                                  ELSE EncodeItem(f[t \ {Max(t)}], items[Max(t)], count, job)]
<1>1. DOMAIN items = 1..n /\ (\A i \in 1..n : items[i] \in ItemType) /\ base \in Packet(E)
  BY <1>0, Counted
<1>2. step \in [1..n -> [Packet(E) -> Packet(E)]]
      /\ \A i \in 1..n : \A q \in Packet(E) : step[i][q] = EncodeItem(q, items[i], count, job)
  BY <1>0, <1>1, EncodeItemIs DEF EncodeSteps
<1>3. Encoded(p, items, count, job) = h[DOMAIN items]
  BY Zenon DEF Encoded, EncodeItem, FoldLeft, MapThenFoldSet
<1> HIDE DEF step, base
<1>4. Folds(n, Packet(E), base, step)
  BY <1>1, <1>2, FoldExists
<1>5. PICK f \in [SUBSET (1..n) -> Packet(E)] : IsFold(f, n, base, step)
  BY <1>4 DEF Folds
<1>6. \A t \in SUBSET (1..n) : t # {} => Max(t) \in 1..n /\ t \ {Max(t)} \in SUBSET (1..n)
  BY <1>1, MaxOf
<1>7. f = [t \in SUBSET (1..n) |-> IF t = {} THEN base
                                   ELSE EncodeItem(f[t \ {Max(t)}], items[Max(t)], count, job)]
  <2>1. ASSUME NEW t \in SUBSET (1..n)
        PROVE  f[t] = IF t = {} THEN base ELSE EncodeItem(f[t \ {Max(t)}], items[Max(t)], count, job)
    BY <1>2, <1>5, <1>6 DEF IsFold
  <2> QED
    BY <1>5, <2>1
<1>8. h = [t \in SUBSET (1..n) |-> IF t = {} THEN base
                                   ELSE EncodeItem(h[t \ {Max(t)}], items[Max(t)], count, job)]
  BY <1>1, <1>7
<1> HIDE DEF h
<1>9. h[{}] = base
  BY <1>8
<1>b. \A s \in SUBSET (1..n) : s # {} /\ h[s \ {Max(s)}] \in Packet(E) => h[s] = step[Max(s)][h[s \ {Max(s)}]]
  <2> SUFFICES ASSUME NEW s \in SUBSET (1..n), s # {}, h[s \ {Max(s)}] \in Packet(E)
               PROVE  h[s] = step[Max(s)][h[s \ {Max(s)}]]
    OBVIOUS
  <2> DEFINE m == Max(s)
             q == h[s \ {m}]
  <2>1. m \in 1..n
    BY <1>6
  <2>2. h[s] = EncodeItem(q, items[m], count, job)
    BY <1>8
  <2> HIDE DEF m, q
  <2>3. step[m][q] = EncodeItem(q, items[m], count, job)
    BY <1>2, <2>1 DEF m, q
  <2> QED
    BY <2>2, <2>3 DEF m, q
<1>c. base \in Packet(E) /\ step \in [1..n -> [Packet(E) -> Packet(E)]]
  BY <1>1, <1>2
<1>a. Chained(h[1..n], n, Packet(E), base, step)
  BY <1>9, <1>b, <1>c, FoldChain, Zenon
<1> QED
  BY <1>0, <1>1, <1>3, <1>a DEF step, base

(* Static buffers and encoded items leave a packet of the call's own job.  *)
LEMMA LoadedIs ==
  ASSUME NEW E, Static \in E, NEW p \in Packet(E), NEW plan \in PlanType
  PROVE  LoadedStatics(p, plan) \in Packet(E)
<1>1. Chained(LoadedStatics(p, plan), Len(plan.statics), Packet(E), p, LoadSteps(E, plan))
  BY LoadedChain
<1>2. Len(plan.statics) \in Nat
  BY PlanParts
<1> QED
  BY <1>1, <1>2, ChainEnds

LEMMA EncodedIs ==
  ASSUME NEW E, NEW p \in Packet(E), NEW items \in Seq(ItemType), NEW count \in Nat, NEW job \in E
  PROVE  Encoded(p, items, count, job) \in Packet(E)
<1>1. Chained(Encoded(p, items, count, job), Len(items), Packet(E), [p EXCEPT !.count = count],
              EncodeSteps(E, items, count, job))
  BY EncodedChain
<1>2. Len(items) \in Nat
  OBVIOUS
<1> QED
  BY <1>1, <1>2, ChainEnds

-----------------------------------------------------------------------------
(* ---- kernels ---------------------------------------------------------- *)

LEMMA FirstErrorIs ==
  ASSUME NEW n \in Nat, NEW errors \in [1..n -> Errors]
  PROVE  /\ FirstError(errors) \in Errors
         /\ FirstError(errors) = "none" <=> \A i \in 1..n : errors[i] = "none"
         /\ FirstError(errors) # "none" =>
              \E i \in 1..n : /\ FirstError(errors) = errors[i] /\ errors[i] # "none"
                              /\ \A k \in 1..(i - 1) : errors[k] = "none"
<1> DEFINE bad == {i \in 1..n : errors[i] # "none"}
<1>1. FirstError(errors) = IF bad = {} THEN "none" ELSE errors[Min(bad)]
  BY DEF FirstError
<1>2. CASE bad = {}
  BY <1>1, <1>2 DEF Errors
<1>3. CASE bad # {}
  <2>a. bad \in SUBSET Nat
    OBVIOUS
  <2>1. Min(bad) \in bad /\ \A x \in bad : Min(bad) <= x
    <3> HIDE DEF bad
    <3> QED
      BY <1>3, <2>a, MinOf
  <2>2. \A k \in 1..(Min(bad) - 1) : errors[k] = "none"
    BY <2>1
  <2> QED
    BY <1>1, <1>3, <2>1, <2>2
<1> QED
  BY <1>2, <1>3

LEMMA SliceErrorIs ==
  ASSUME NEW p, NEW slot, NEW kind
  PROVE  /\ SliceError(p, slot, kind) \in Errors
         /\ SliceError(p, slot, kind) = "none" => slot \in Slots(p)
<1> QED
  BY DEF SliceError, Errors

(* The errors of the slots that a kernel asks for, in their order.         *)
SliceErrors(p, slots, kind) ==
  [i \in DOMAIN slots |->
     IF slots[i] \notin Slots(p) THEN "missing buffer"
     ELSE IF \E k \in 1..(i - 1) : slots[k] = slots[i] THEN "duplicate slot"
     ELSE SliceError(p, slots[i], kind)]

GroupErrors(p, slots, kind, width) == [i \in DOMAIN slots |-> GroupsError(p, slots[i], kind, width)]

KernelErrors(p, kernel) ==
  IF kernel.access # "groups" THEN SliceErrors(p, kernel.slots, kernel.kind)
  ELSE GroupErrors(p, kernel.slots, kernel.kind, kernel.width)

LEMMA KernelErrorsAre ==
  ASSUME NEW p, NEW kernel \in KernelType
  PROVE  /\ KernelErrors(p, kernel) \in [1..Len(kernel.slots) -> Errors]
         /\ \A i \in 1..Len(kernel.slots) :
              KernelErrors(p, kernel)[i] = "none" => kernel.slots[i] \in Slots(p)
<1>1. DOMAIN kernel.slots = 1..Len(kernel.slots)
  BY DEF KernelType
<1>2. SliceErrors(p, kernel.slots, kernel.kind) \in [1..Len(kernel.slots) -> Errors]
      /\ \A i \in 1..Len(kernel.slots) :
           SliceErrors(p, kernel.slots, kernel.kind)[i] = "none" => kernel.slots[i] \in Slots(p)
  <2>1. ASSUME NEW i \in 1..Len(kernel.slots)
        PROVE  /\ SliceErrors(p, kernel.slots, kernel.kind)[i] \in Errors
               /\ SliceErrors(p, kernel.slots, kernel.kind)[i] = "none" => kernel.slots[i] \in Slots(p)
    <3>1. SliceError(p, kernel.slots[i], kernel.kind) \in Errors
      BY SliceErrorIs
    <3>2. SliceErrors(p, kernel.slots, kernel.kind)[i] =
            IF kernel.slots[i] \notin Slots(p) THEN "missing buffer"
            ELSE IF \E k \in 1..(i - 1) : kernel.slots[k] = kernel.slots[i] THEN "duplicate slot"
            ELSE SliceError(p, kernel.slots[i], kernel.kind)
      BY <1>1 DEF SliceErrors
    <3> QED
      BY <3>1, <3>2 DEF Errors
  <2>2. DOMAIN SliceErrors(p, kernel.slots, kernel.kind) = 1..Len(kernel.slots)
        /\ SliceErrors(p, kernel.slots, kernel.kind)
             = [i \in 1..Len(kernel.slots) |-> SliceErrors(p, kernel.slots, kernel.kind)[i]]
    BY <1>1 DEF SliceErrors
  <2> QED
    BY <2>1, <2>2
<1>3. ASSUME NEW i \in 1..Len(kernel.slots)
      PROVE  /\ GroupsError(p, kernel.slots[i], kernel.kind, kernel.width) \in Errors
             /\ GroupsError(p, kernel.slots[i], kernel.kind, kernel.width) = "none"
                  => kernel.slots[i] \in Slots(p)
  <2>1. SliceError(p, kernel.slots[i], kernel.kind) \in Errors
    BY SliceErrorIs
  <2>2. SliceError(p, kernel.slots[i], kernel.kind) = "none" => kernel.slots[i] \in Slots(p)
    BY SliceErrorIs
  <2> QED
    BY <2>1, <2>2 DEF GroupsError, Errors
<1>4. GroupErrors(p, kernel.slots, kernel.kind, kernel.width) \in [1..Len(kernel.slots) -> Errors]
      /\ \A i \in 1..Len(kernel.slots) :
           GroupErrors(p, kernel.slots, kernel.kind, kernel.width)[i] = "none" => kernel.slots[i] \in Slots(p)
  BY <1>1, <1>3 DEF GroupErrors
<1> QED
  BY <1>2, <1>4 DEF KernelErrors

(* KernelRun in parts: what it works on, whether it fails, what it writes. *)
Working(p, kernel) ==
  IF kernel.access = "grow" THEN Ensured(p, Last(kernel.slots), kernel.kind, p.count * kernel.width) ELSE p

Inputs(kernel) == ToSet(Front(kernel.slots))

Outside(q, kernel) ==
  \E s \in Inputs(kernel) : Len(q.buffers[s].data) < Len(q.buffers[Last(kernel.slots)].data)

Result(q, kernel, job) ==
  [i \in DOMAIN q.buffers[Last(kernel.slots)].data |->
     {job} \cup UNION {q.buffers[s].data[i] : s \in Inputs(kernel)}]

Marked(q, kernel) == [q EXCEPT !.dirty = @ \/ kernel.access = "groups"]

LEMMA KernelRunParts ==
  ASSUME NEW p, NEW kernel, NEW job
  PROVE  KernelRun(p, kernel, job) =
           LET q == Working(p, kernel)
           IN  IF FirstError(KernelErrors(q, kernel)) # "none"
               THEN [packet |-> q, error |-> FirstError(KernelErrors(q, kernel))]
               ELSE IF Outside(q, kernel) THEN [packet |-> q, error |-> "panicked"]
               ELSE [error |-> "none",
                     packet |-> Marked(Written(q, Last(kernel.slots), Result(q, kernel, job)), kernel)]
<1> DEFINE q == Working(p, kernel)
<1>1. ASSUME kernel.access # "groups"
      PROVE  SlicesError(q, kernel.slots, kernel.kind) = FirstError(KernelErrors(q, kernel))
  BY <1>1, Zenon DEF KernelErrors, SliceErrors, SlicesError
<1>2. ASSUME kernel.access = "groups"
      PROVE  FirstError([i \in DOMAIN kernel.slots |-> GroupsError(q, kernel.slots[i], kernel.kind, kernel.width)])
               = FirstError(KernelErrors(q, kernel))
  BY <1>2, Zenon DEF KernelErrors, GroupErrors
<1> QED
  BY <1>1, <1>2, Zenon DEF KernelRun, Working, Inputs, Outside, Result, Marked

LEMMA KernelParts ==
  ASSUME NEW kernel \in KernelType
  PROVE  /\ kernel.slots \in Seq(SlotId) /\ kernel.kind \in Kinds /\ kernel.width \in Nat
         /\ Len(kernel.slots) \in Nat /\ Len(kernel.slots) # 0
         /\ Last(kernel.slots) = kernel.slots[Len(kernel.slots)] /\ Last(kernel.slots) \in SlotId
         /\ Inputs(kernel) = {kernel.slots[i] : i \in 1..(Len(kernel.slots) - 1)}
         /\ ToSet(kernel.slots) = {kernel.slots[i] : i \in 1..Len(kernel.slots)}
<1>1. kernel.slots \in Seq(SlotId) /\ kernel.slots # <<>> /\ kernel.kind \in Kinds /\ kernel.width \in Nat
  BY DEF KernelType
<1>2. Len(kernel.slots) \in Nat /\ Len(kernel.slots) # 0 /\ DOMAIN kernel.slots = 1..Len(kernel.slots)
      /\ \A i \in 1..Len(kernel.slots) : kernel.slots[i] \in SlotId
  BY <1>1
<1>3. Last(kernel.slots) = kernel.slots[Len(kernel.slots)] /\ Last(kernel.slots) \in SlotId
  BY <1>2 DEF Last
<1>4. ToSet(kernel.slots) = {kernel.slots[i] : i \in 1..Len(kernel.slots)}
  BY <1>2 DEF ToSet
<1>5. Inputs(kernel) = {kernel.slots[i] : i \in 1..(Len(kernel.slots) - 1)}
  <2> DEFINE s == kernel.slots
             m == Len(s) - 1
             front == [i \in 1..m |-> s[i]]
  <2>1. Front(s) = front
    BY <1>1, <1>2 DEF Front
  <2>2. DOMAIN front = 1..m
    OBVIOUS
  <2> QED
    BY <2>1, <2>2 DEF Inputs, ToSet
<1> QED
  BY <1>1, <1>2, <1>3, <1>4, <1>5

LEMMA WorkingIs ==
  ASSUME NEW E, NEW p \in Packet(E), NEW kernel \in KernelType
  PROVE  Working(p, kernel) \in Packet(E) /\ Slots(p) \subseteq Slots(Working(p, kernel))
         /\ Working(p, kernel).count = p.count
<1>1. p.count \in Nat /\ kernel.width \in Nat
  BY PacketParts, KernelParts
<1>2. PICK len \in Nat : len = p.count * kernel.width
  BY <1>1
<1>3. Last(kernel.slots) \in SlotId /\ kernel.kind \in Kinds
  BY KernelParts
<1> DEFINE q == Ensured(p, Last(kernel.slots), kernel.kind, len)
<1>a. IsEnsured(q, E, p, Last(kernel.slots), kernel.kind, len)
  BY <1>3, EnsuredIs, Zenon
<1>4. q \in Packet(E) /\ Slots(q) = Slots(p) \cup {Last(kernel.slots)} /\ q.count = p.count
  BY <1>a DEF IsEnsured
<1>5. Working(p, kernel) = IF kernel.access = "grow" THEN q ELSE p
  BY <1>2 DEF Working
<1> HIDE DEF q
<1> QED
  BY <1>4, <1>5

Sound(q, E, kernel, job) ==
  /\ ToSet(kernel.slots) \subseteq Slots(q) /\ Last(kernel.slots) \in Slots(q)
  /\ Inputs(kernel) \subseteq Slots(q)
  /\ Result(q, kernel, job) \in Seq(SUBSET E)
  /\ q.dirty = TRUE \/ Result(q, kernel, job) = <<>>

LEMMA ResultIs ==
  ASSUME NEW E, NEW q \in Packet(E), NEW kernel \in KernelType, NEW job \in E,
         FirstError(KernelErrors(q, kernel)) = "none", ~Outside(q, kernel)
  PROVE  Sound(q, E, kernel, job)
<1> DEFINE out == Last(kernel.slots)
           data == q.buffers[out].data
<1>1. \A i \in 1..Len(kernel.slots) : kernel.slots[i] \in Slots(q)
  <2>1. Len(kernel.slots) \in Nat
    BY KernelParts
  <2>2. KernelErrors(q, kernel) \in [1..Len(kernel.slots) -> Errors]
        /\ \A i \in 1..Len(kernel.slots) :
             KernelErrors(q, kernel)[i] = "none" => kernel.slots[i] \in Slots(q)
    BY KernelErrorsAre
  <2>3. \A i \in 1..Len(kernel.slots) : KernelErrors(q, kernel)[i] = "none"
    BY <2>1, <2>2, FirstErrorIs
  <2> QED
    BY <2>2, <2>3
<1>b. PICK m \in Nat : m = Len(kernel.slots) /\ m # 0
  BY KernelParts
<1>c. out = kernel.slots[m] /\ Inputs(kernel) = {kernel.slots[i] : i \in 1..(m - 1)}
      /\ ToSet(kernel.slots) = {kernel.slots[i] : i \in 1..m}
  BY <1>b, KernelParts
<1> HIDE DEF out
<1>2. ToSet(kernel.slots) \subseteq Slots(q) /\ out \in Slots(q) /\ Inputs(kernel) \subseteq Slots(q)
  BY <1>1, <1>b, <1>c
<1> USE DEF out
<1>3. q.buffers \in [Slots(q) -> Buffer(E)] /\ (q.dirty \/ \A s \in Slots(q) : q.buffers[s].data = <<>>)
  BY PacketParts
<1>4. Len(data) \in Nat /\ DOMAIN data = 1..Len(data)
  BY <1>2, <1>3, BufferParts
<1>5. ASSUME NEW i \in 1..Len(data), NEW s \in Inputs(kernel)
      PROVE  q.buffers[s].data[i] \in SUBSET E
  <2>1. q.buffers[s] \in Buffer(E) /\ ~(Len(q.buffers[s].data) < Len(data))
    BY <1>2, <1>3 DEF Outside
  <2>2. Len(q.buffers[s].data) \in Nat
        /\ \A k \in 1..Len(q.buffers[s].data) : q.buffers[s].data[k] \in SUBSET E
    BY <2>1, BufferParts
  <2>3. i \in 1..Len(q.buffers[s].data)
    BY <1>4, <2>1, <2>2
  <2> QED
    BY <2>2, <2>3
<1> HIDE DEF data
<1>6. ASSUME NEW i \in 1..Len(data)
      PROVE  {job} \cup UNION {q.buffers[s].data[i] : s \in Inputs(kernel)} \in SUBSET E
  BY <1>5
<1>7. Result(q, kernel, job) = [i \in 1..Len(data) |-> {job} \cup UNION {q.buffers[s].data[i] : s \in Inputs(kernel)}]
  BY <1>4 DEF Result, data
<1>8. Result(q, kernel, job) \in [1..Len(data) -> SUBSET E]
  BY <1>6, <1>7
<1>9. Result(q, kernel, job) \in Seq(SUBSET E)
  BY <1>4, <1>8, SeqDef
<1>a. ASSUME ~q.dirty
      PROVE  Result(q, kernel, job) = <<>>
  <2>1. data = <<>>
    BY <1>2, <1>3, <1>a DEF data
  <2>2. Len(data) = 0
    BY <2>1
  <2> QED
    BY <1>7, <2>2
<1> QED
  BY <1>2, <1>3, <1>9, <1>a DEF Sound

LEMMA MarkedIs ==
  ASSUME NEW E, NEW q \in Packet(E), NEW kernel
  PROVE  /\ Marked(q, kernel) \in Packet(E) /\ Marked(q, kernel).count = q.count
         /\ Marked(q, kernel).buffers = q.buffers
<1>1. /\ q.count \in Nat /\ q.dirty \in BOOLEAN
      /\ Slots(q) \in SUBSET SlotId /\ q.buffers \in [Slots(q) -> Buffer(E)]
      /\ q = [count |-> q.count, buffers |-> q.buffers, dirty |-> q.dirty]
      /\ q.dirty \/ \A s \in Slots(q) : q.buffers[s].data = <<>>
  BY PacketParts
<1> DEFINE dirty == q.dirty \/ kernel.access = "groups"
<1>2. dirty \in BOOLEAN /\ (q.dirty => dirty)
  OBVIOUS
<1>3. Marked(q, kernel) = [count |-> q.count, buffers |-> q.buffers, dirty |-> dirty]
  BY <1>1 DEF Marked
<1> HIDE DEF dirty
<1>4. [count |-> q.count, buffers |-> q.buffers, dirty |-> dirty] \in Packet(E)
  BY <1>1, <1>2, PacketMade
<1> QED
  BY <1>3, <1>4

Step(E) == [packet : Packet(E), error : Errors]

LEMMA KernelRunIs ==
  ASSUME NEW E, NEW p \in Packet(E), NEW kernel \in KernelType, NEW job \in E
  PROVE  KernelRun(p, kernel, job) \in Step(E) /\ Slots(p) \subseteq Slots(KernelRun(p, kernel, job).packet)
         /\ KernelRun(p, kernel, job).packet.count = p.count
<1> DEFINE q == Working(p, kernel)
           error == FirstError(KernelErrors(q, kernel))
           result == Written(q, Last(kernel.slots), Result(q, kernel, job))
<1>1. q \in Packet(E) /\ Slots(p) \subseteq Slots(q) /\ q.count = p.count
  BY WorkingIs
<1>2. error \in Errors
  BY KernelErrorsAre, KernelParts, FirstErrorIs
<1>3. KernelRun(p, kernel, job) =
        IF error # "none" THEN [packet |-> q, error |-> error]
        ELSE IF Outside(q, kernel) THEN [packet |-> q, error |-> "panicked"]
        ELSE [error |-> "none", packet |-> Marked(result, kernel)]
  BY KernelRunParts, Zenon
<1>4. ASSUME error = "none", ~Outside(q, kernel)
      PROVE  Marked(result, kernel) \in Packet(E) /\ Slots(Marked(result, kernel)) = Slots(q)
             /\ Marked(result, kernel).count = q.count
  <2> HIDE DEF q
  <2>a. Sound(q, E, kernel, job)
    BY <1>1, <1>4, ResultIs, Zenon
  <2>b. IsWritten(result, E, q, Last(kernel.slots), Result(q, kernel, job))
    BY <1>1, <2>a, WrittenIs, Zenon DEF Sound
  <2>1. result \in Packet(E) /\ Slots(result) = Slots(q) /\ result.count = q.count
    BY <2>b DEF IsWritten
  <2> HIDE DEF result
  <2> QED
    BY <2>1, MarkedIs DEF Slots
<1> HIDE DEF q, error, result
<1>5. CASE error # "none"
  BY <1>1, <1>2, <1>3, <1>5 DEF Step
<1>6. CASE error = "none" /\ Outside(q, kernel)
  BY <1>1, <1>3, <1>6 DEF Step, Errors
<1>7. CASE error = "none" /\ ~Outside(q, kernel)
  <2>1. KernelRun(p, kernel, job) = [error |-> "none", packet |-> Marked(result, kernel)]
    BY <1>3, <1>7
  <2>2. Marked(result, kernel) \in Packet(E) /\ Slots(Marked(result, kernel)) = Slots(q)
        /\ Marked(result, kernel).count = q.count
    BY <1>4, <1>7
  <2> QED
    BY <1>1, <2>1, <2>2 DEF Step, Errors
<1> QED
  BY <1>5, <1>6, <1>7

KernelStep(r, kernel, job) == IF r.error = "none" THEN KernelRun(r.packet, kernel, job) ELSE r

Begun(p) == [packet |-> p, error |-> "none"]

KernelSteps(E, kernels, job) ==
  [i \in 1..Len(kernels) |-> [r \in Step(E) |-> KernelStep(r, kernels[i], job)]]

LEMMA KernelsChain ==
  ASSUME NEW E, NEW p \in Packet(E), NEW kernels \in Seq(KernelType), NEW job \in E
  PROVE  Chained(KernelsRun(p, kernels, job), Len(kernels), Step(E), Begun(p), KernelSteps(E, kernels, job))
<1>0. PICK n \in Nat : n = Len(kernels)
  OBVIOUS
<1> DEFINE base == Begun(p)
           step == KernelSteps(E, kernels, job)
           h == CHOOSE f : f = [t \in SUBSET (DOMAIN kernels) |->
                                  IF t = {} THEN base ELSE KernelStep(f[t \ {Max(t)}], kernels[Max(t)], job)]
<1>1. DOMAIN kernels = 1..n /\ (\A i \in 1..n : kernels[i] \in KernelType) /\ base \in Step(E)
  BY <1>0 DEF Begun, Step, Errors
<1>a. \A i \in 1..n : \A r \in Step(E) : KernelStep(r, kernels[i], job) \in Step(E)
  BY <1>1, KernelRunIs DEF KernelStep, Step
<1>2. step \in [1..n -> [Step(E) -> Step(E)]]
      /\ \A i \in 1..n : \A r \in Step(E) : step[i][r] = KernelStep(r, kernels[i], job)
  BY <1>0, <1>1, <1>a DEF KernelSteps
<1>3. KernelsRun(p, kernels, job) = h[DOMAIN kernels]
  BY Zenon DEF KernelsRun, KernelStep, Begun, FoldLeft, MapThenFoldSet
<1> HIDE DEF step, base
<1>4. Folds(n, Step(E), base, step)
  BY <1>1, <1>2, FoldExists
<1>5. PICK f \in [SUBSET (1..n) -> Step(E)] : IsFold(f, n, base, step)
  BY <1>4 DEF Folds
<1>6. \A t \in SUBSET (1..n) : t # {} => Max(t) \in 1..n /\ t \ {Max(t)} \in SUBSET (1..n)
  BY <1>1, MaxOf
<1>7. f = [t \in SUBSET (1..n) |-> IF t = {} THEN base ELSE KernelStep(f[t \ {Max(t)}], kernels[Max(t)], job)]
  <2>1. ASSUME NEW t \in SUBSET (1..n)
        PROVE  f[t] = IF t = {} THEN base ELSE KernelStep(f[t \ {Max(t)}], kernels[Max(t)], job)
    BY <1>2, <1>5, <1>6 DEF IsFold
  <2> QED
    BY <1>5, <2>1
<1>8. h = [t \in SUBSET (1..n) |-> IF t = {} THEN base ELSE KernelStep(h[t \ {Max(t)}], kernels[Max(t)], job)]
  BY <1>1, <1>7
<1> HIDE DEF h
<1>9. h[{}] = base
  BY <1>8
<1>c. \A s \in SUBSET (1..n) : s # {} /\ h[s \ {Max(s)}] \in Step(E) => h[s] = step[Max(s)][h[s \ {Max(s)}]]
  BY <1>2, <1>6, <1>8
<1>d. base \in Step(E) /\ step \in [1..n -> [Step(E) -> Step(E)]]
  BY <1>1, <1>2
<1>b. Chained(h[1..n], n, Step(E), base, step)
  BY <1>9, <1>c, <1>d, FoldChain, Zenon
<1> QED
  BY <1>0, <1>1, <1>3, <1>b DEF step, base

LEMMA KernelsRunIs ==
  ASSUME NEW E, NEW p \in Packet(E), NEW kernels \in Seq(KernelType), NEW job \in E
  PROVE  KernelsRun(p, kernels, job) \in Step(E)
<1>1. Chained(KernelsRun(p, kernels, job), Len(kernels), Step(E), Begun(p), KernelSteps(E, kernels, job))
  BY KernelsChain
<1>2. Len(kernels) \in Nat
  OBVIOUS
<1> QED
  BY <1>1, <1>2, ChainEnds

-----------------------------------------------------------------------------
(* ---- what the variables hold ------------------------------------------ *)

Jobs == 1..MaxJobs
Anyone == 0..MaxJobs

Context(E) == [packet : Packet(E), scratch : BOOLEAN, cancel : BOOLEAN]

(* A context that waits in the pool.                                       *)
Waiting == {x \in Context({}) : x.packet \in Blank /\ ~x.scratch /\ ~x.cancel}

LeftKinds == UNION {[S -> Kinds] : S \in SUBSET SlotId}

Outcome == [error : Errors, values : Seq(SUBSET Anyone)]

(* A call has a packet of its own job only, whatever it was before.        *)
Call == {r \in [phase : {"runs", "returns", "unwinds"}, mode : Modes, plan : Versions, count : {1, 2},
                one : BOOLEAN, job : Jobs, stage : Nat, context : Context(Anyone), faulty : BOOLEAN,
                outcome : Outcome, left : LeftKinds] :
           r.context \in Context({Static, r.job}) /\ r.stage \in 1..(Len(Stages(r)) + 1)}

(* The inductive invariant.                                                *)
Held ==
  /\ debug \in BOOLEAN /\ jobs \in 0..MaxJobs
  /\ packets \in Seq(Blank) /\ contexts \in Seq(Waiting)
  /\ own \in [Callers -> Context(Anyone)]
  /\ run \in [Callers -> Call \cup {Idle}]

LEMMA VersionParts ==
  ASSUME NEW v \in Versions
  PROVE  Plans[v] \in PlanType /\ ValidPlan(Plans[v])
<1> QED
  BY PlansAssumption DEF Versions

LEMMA ContextMono ==
  ASSUME NEW E, NEW F, E \subseteq F, NEW x \in Context(E)
  PROVE  x \in Context(F)
<1> QED
  BY PacketMono DEF Context

LEMMA NewContextIs == NewContext \in Waiting
<1>1. NewPacket \in Packet({}) /\ NewPacket \in Blank
  BY NewIsBlank DEF Blank
<1> QED
  BY <1>1 DEF NewContext, Waiting, Context

LEMMA ResetIs ==
  ASSUME NEW E, NEW x \in Context(E)
  PROVE  ResetContext(x) \in Waiting
<1>1. Cleared(x.packet) \in Blank
  BY ClearedIsBlank DEF Context
<1> QED
  BY <1>1 DEF ResetContext, Waiting, Context, Blank

(* A pool gives one of its elements or a new one.                          *)
LEMMA PoolParts ==
  ASSUME NEW S, NEW pool \in Seq(S), NEW new \in S
  PROVE  Top(pool, new) \in S /\ Rest(pool) \in Seq(S)
<1>1. CASE pool = <<>>
  BY <1>1, EmptySeq DEF Top, Rest
<1>2. CASE pool # <<>>
  <2>1. Len(pool) \in Nat /\ Len(pool) # 0 /\ Last(pool) = pool[Len(pool)] /\ pool[Len(pool)] \in S
    BY <1>2 DEF Last
  <2> DEFINE m == Len(pool) - 1
             front == [i \in 1..m |-> pool[i]]
  <2>2. m \in Nat /\ front \in [1..m -> S]
    BY <2>1
  <2>3. Front(pool) = front
    BY <2>1 DEF Front
  <2> QED
    BY <1>2, <2>1, <2>2, <2>3, SeqDef DEF Top, Rest
<1> QED
  BY <1>1, <1>2
-----------------------------------------------------------------------------
(* ---- calls ------------------------------------------------------------ *)

Record(phase, mode, plan, count, one, job, stage, context, faulty, outcome, left) ==
  [phase |-> phase, mode |-> mode, plan |-> plan, count |-> count, one |-> one, job |-> job,
   stage |-> stage, context |-> context, faulty |-> faulty, outcome |-> outcome, left |-> left]

IsCall(r) ==
  /\ r = Record(r.phase, r.mode, r.plan, r.count, r.one, r.job, r.stage, r.context, r.faulty, r.outcome, r.left)
  /\ r.phase \in {"runs", "returns", "unwinds"} /\ r.mode \in Modes /\ r.plan \in Versions
  /\ r.count \in {1, 2} /\ r.one \in BOOLEAN /\ r.job \in Jobs
  /\ r.stage \in 1..(Len(Plans[r.plan].stages) + 1) /\ r.context \in Context({Static, r.job})
  /\ r.faulty \in BOOLEAN /\ r.outcome \in Outcome /\ r.left \in LeftKinds

LEMMA CallParts ==
  ASSUME NEW r \in Call
  PROVE  IsCall(r)
<1>1. r = Record(r.phase, r.mode, r.plan, r.count, r.one, r.job, r.stage, r.context, r.faulty, r.outcome, r.left)
  BY DEF Call, Record
<1>2. /\ r.phase \in {"runs", "returns", "unwinds"} /\ r.mode \in Modes /\ r.plan \in Versions
      /\ r.count \in {1, 2} /\ r.one \in BOOLEAN /\ r.job \in Jobs
      /\ r.faulty \in BOOLEAN /\ r.outcome \in Outcome /\ r.left \in LeftKinds
      /\ r.context \in Context({Static, r.job}) /\ r.stage \in 1..(Len(Plans[r.plan].stages) + 1)
  BY DEF Call, Stages
<1> QED
  BY <1>1, <1>2 DEF IsCall

LEMMA JobIs ==
  ASSUME NEW job \in Jobs
  PROVE  {Static, job} \subseteq Anyone
<1> QED
  BY JobsAssumption DEF Jobs, Anyone, Static

LEMMA CallMade ==
  ASSUME NEW r, IsCall(r)
  PROVE  r \in Call
<1>1. {Static, r.job} \subseteq Anyone
  BY JobIs DEF IsCall
<1>2. r.context \in Context(Anyone)
  BY <1>1, ContextMono DEF IsCall
<1>3. r.stage \in Nat
  <2>1. Len(Plans[r.plan].stages) \in Nat
    BY VersionParts, PlanParts DEF IsCall
  <2> QED
    BY <2>1 DEF IsCall
<1>4. r \in [phase : {"runs", "returns", "unwinds"}, mode : Modes, plan : Versions, count : {1, 2},
             one : BOOLEAN, job : Jobs, stage : Nat, context : Context(Anyone), faulty : BOOLEAN,
             outcome : Outcome, left : LeftKinds]
  BY <1>2, <1>3 DEF IsCall, Record
<1> QED
  BY <1>4 DEF Call, IsCall, Stages

LEMMA ContextParts ==
  ASSUME NEW E, NEW x \in Context(E)
  PROVE  /\ x.packet \in Packet(E) /\ x.scratch \in BOOLEAN /\ x.cancel \in BOOLEAN
         /\ x = [packet |-> x.packet, scratch |-> x.scratch, cancel |-> x.cancel]
<1> QED
  BY DEF Context

(* The updates of a call that steps make.                                  *)
LEMMA Ended ==
  ASSUME NEW r \in Call, NEW phase \in {"returns", "unwinds"}, NEW outcome \in Outcome
  PROVE  LET s == [r EXCEPT !.phase = phase, !.outcome = outcome]
         IN  /\ s \in Call
             /\ s = Record(phase, r.mode, r.plan, r.count, r.one, r.job, r.stage, r.context, r.faulty, outcome, r.left)
<1> DEFINE s == [r EXCEPT !.phase = phase, !.outcome = outcome]
           t == [r EXCEPT !.phase = phase]
<1>1. s = [t EXCEPT !.outcome = outcome]
  OBVIOUS
<1>2. IsCall(r)
  BY CallParts
<1>3. t = Record(phase, r.mode, r.plan, r.count, r.one, r.job, r.stage, r.context, r.faulty, r.outcome, r.left)
  BY <1>2 DEF IsCall, Record
<1> HIDE DEF t, s
<1>4. s = Record(phase, r.mode, r.plan, r.count, r.one, r.job, r.stage, r.context, r.faulty, outcome, r.left)
  BY <1>1, <1>3 DEF Record
<1>5. /\ s.phase = phase /\ s.mode = r.mode /\ s.plan = r.plan /\ s.count = r.count /\ s.one = r.one /\ s.job = r.job
      /\ s.stage = r.stage /\ s.context = r.context /\ s.faulty = r.faulty /\ s.outcome = outcome /\ s.left = r.left
  BY <1>4 DEF Record
<1>6. IsCall(s)
  BY <1>2, <1>4, <1>5 DEF IsCall
<1>7. s \in Call
  BY <1>6, CallMade
<1> QED
  BY <1>4, <1>7 DEF s

LEMMA Repacked ==
  ASSUME NEW r \in Call, NEW x \in Context({Static, r.job})
  PROVE  /\ [r EXCEPT !.context = x] \in Call
         /\ [r EXCEPT !.context = x]
              = Record(r.phase, r.mode, r.plan, r.count, r.one, r.job, r.stage, x, r.faulty, r.outcome, r.left)
<1> DEFINE s == [r EXCEPT !.context = x]
<1>2. IsCall(r)
  BY CallParts
<1>3. s = Record(r.phase, r.mode, r.plan, r.count, r.one, r.job, r.stage, x, r.faulty, r.outcome, r.left)
  BY <1>2 DEF IsCall, Record
<1> HIDE DEF s
<1>5. /\ s.phase = r.phase /\ s.mode = r.mode /\ s.plan = r.plan /\ s.count = r.count /\ s.one = r.one /\ s.job = r.job
      /\ s.stage = r.stage /\ s.context = x /\ s.faulty = r.faulty /\ s.outcome = r.outcome /\ s.left = r.left
  BY <1>3 DEF Record
<1>6. IsCall(s)
  BY <1>2, <1>3, <1>5 DEF IsCall
<1>7. s \in Call
  BY <1>6, CallMade
<1> QED
  BY <1>3, <1>7 DEF s

LEMMA Advanced ==
  ASSUME NEW r \in Call, r.stage <= Len(Stages(r))
  PROVE  /\ [r EXCEPT !.stage = @ + 1] \in Call
         /\ [r EXCEPT !.stage = @ + 1]
              = Record(r.phase, r.mode, r.plan, r.count, r.one, r.job, r.stage + 1, r.context, r.faulty, r.outcome, r.left)
<1> DEFINE s == [r EXCEPT !.stage = @ + 1]
<1>1. PICK stage : stage = r.stage + 1
  OBVIOUS
<1>2. IsCall(r)
  BY CallParts
<1>3. s = [r EXCEPT !.stage = stage]
  BY <1>1
<1>4. s = Record(r.phase, r.mode, r.plan, r.count, r.one, r.job, stage, r.context, r.faulty, r.outcome, r.left)
  BY <1>2, <1>3 DEF IsCall, Record
<1>5. stage \in 1..(Len(Plans[r.plan].stages) + 1)
  <2>1. Len(Plans[r.plan].stages) \in Nat
    BY <1>2, VersionParts, PlanParts DEF IsCall
  <2> QED
    BY <1>1, <1>2, <2>1 DEF IsCall, Stages
<1> HIDE DEF s
<1>6. /\ s.phase = r.phase /\ s.mode = r.mode /\ s.plan = r.plan /\ s.count = r.count /\ s.one = r.one /\ s.job = r.job
      /\ s.stage = stage /\ s.context = r.context /\ s.faulty = r.faulty /\ s.outcome = r.outcome /\ s.left = r.left
  BY <1>4 DEF Record
<1>7. IsCall(s)
  BY <1>2, <1>4, <1>5, <1>6 DEF IsCall
<1>8. s \in Call
  BY <1>7, CallMade
<1> QED
  BY <1>1, <1>4, <1>8 DEF s

LEMMA Blamed ==
  ASSUME NEW r \in Call, NEW faulty \in BOOLEAN
  PROVE  /\ [r EXCEPT !.faulty = faulty] \in Call
         /\ [r EXCEPT !.faulty = faulty]
              = Record(r.phase, r.mode, r.plan, r.count, r.one, r.job, r.stage, r.context, faulty, r.outcome, r.left)
<1> DEFINE s == [r EXCEPT !.faulty = faulty]
<1>2. IsCall(r)
  BY CallParts
<1>3. s = Record(r.phase, r.mode, r.plan, r.count, r.one, r.job, r.stage, r.context, faulty, r.outcome, r.left)
  BY <1>2 DEF IsCall, Record
<1> HIDE DEF s
<1>5. /\ s.phase = r.phase /\ s.mode = r.mode /\ s.plan = r.plan /\ s.count = r.count /\ s.one = r.one /\ s.job = r.job
      /\ s.stage = r.stage /\ s.context = r.context /\ s.faulty = faulty /\ s.outcome = r.outcome /\ s.left = r.left
  BY <1>3 DEF Record
<1>6. IsCall(s)
  BY <1>2, <1>3, <1>5 DEF IsCall
<1>7. s \in Call
  BY <1>6, CallMade
<1> QED
  BY <1>3, <1>7 DEF s
-----------------------------------------------------------------------------
(* ---- steps ------------------------------------------------------------ *)

LEMMA FailureIs ==
  ASSUME NEW error \in Errors
  PROVE  Failure(error) \in Outcome
<1> QED
  BY EmptySeq DEF Failure, NoValues, Outcome

LEMMA DecodedIs ==
  ASSUME NEW E, E \subseteq Anyone, NEW p \in Packet(E), NEW plan \in PlanType, NEW one \in BOOLEAN
  PROVE  Decoded(p, plan, one) \in Outcome
<1> DEFINE slot == plan.decode.slot
           error == SliceError(p, slot, plan.decode.kind)
           data == p.buffers[slot].data
<1>1. error \in Errors /\ (error = "none" => slot \in Slots(p))
  BY SliceErrorIs
<1>2. ASSUME slot \in Slots(p)
      PROVE  data \in Seq(SUBSET Anyone)
  <2>1. p \in Packet(Anyone)
    BY PacketMono
  <2>2. p.buffers[slot] \in Buffer(Anyone)
    BY <1>2, <2>1, PacketParts
  <2> QED
    BY <2>2, BufferParts
<1>3. Decoded(p, plan, one) =
        IF error # "none" THEN Failure(error)
        ELSE IF one /\ Len(data) # 1 THEN Failure("batch size") ELSE [error |-> "none", values |-> data]
  BY DEF Decoded
<1>4. Failure(error) \in Outcome /\ Failure("batch size") \in Outcome
  BY <1>1, FailureIs DEF Errors
<1> HIDE DEF error, data, slot
<1>5. CASE error = "none" /\ ~(one /\ Len(data) # 1)
  <2>1. Decoded(p, plan, one) = [error |-> "none", values |-> data]
    BY <1>3, <1>5
  <2>2. data \in Seq(SUBSET Anyone)
    BY <1>1, <1>2, <1>5
  <2> QED
    BY <2>1, <2>2 DEF Outcome, Errors
<1>6. CASE error # "none" \/ (one /\ Len(data) # 1)
  BY <1>3, <1>4, <1>6
<1> QED
  BY <1>5, <1>6

(* A call ends with an outcome; a packet may be cleared before.            *)
EndOf(s, r, outcome) ==
  /\ s \in Call /\ s.phase \in {"returns", "unwinds"} /\ s.outcome = outcome /\ s.faulty = r.faulty
  /\ s.plan = r.plan /\ s.count = r.count /\ s.one = r.one /\ s.job = r.job /\ s.left = r.left

EndsWith(c, r, outcome) == \E s : EndOf(s, r, outcome) /\ run' = [run EXCEPT ![c] = s]

LEMMA EndingIs ==
  ASSUME NEW c, NEW r \in Call, NEW phase \in {"returns", "unwinds"}, NEW outcome \in Outcome,
         Ending(c, r, phase, outcome)
  PROVE  EndsWith(c, r, outcome)
<1> DEFINE s == [r EXCEPT !.phase = phase, !.outcome = outcome]
<1>1. s \in Call
      /\ s = Record(phase, r.mode, r.plan, r.count, r.one, r.job, r.stage, r.context, r.faulty, outcome, r.left)
  BY Ended
<1>2. run' = [run EXCEPT ![c] = s]
  BY DEF Ending
<1> HIDE DEF s
<1>3. EndOf(s, r, outcome)
  BY <1>1 DEF EndOf, Record
<1> QED
  BY <1>2, <1>3 DEF EndsWith

LEMMA PanickedIs ==
  ASSUME NEW c, NEW r \in Call, Panicked(c, r)
  PROVE  EndsWith(c, r, Failure("panicked"))
<1>1. PICK phase \in {"returns", "unwinds"} : Ending(c, r, phase, Failure("panicked"))
  BY DEF Panicked
<1>2. Failure("panicked") \in Outcome
  BY FailureIs DEF Errors
<1> QED
  BY <1>1, <1>2, EndingIs

LEMMA StageFailedIs ==
  ASSUME NEW c, NEW r \in Call, NEW error \in Errors, StageFailed(c, r, error)
  PROVE  EndsWith(c, r, Failure(error))
<1> DEFINE p == Cleared(r.context.packet)
           x == [r.context EXCEPT !.packet = p]
           s == [r EXCEPT !.context.packet = p]
<1>1. Ending(c, s, "returns", Failure(error))
  BY DEF StageFailed, Returning
<1>2. s = [r EXCEPT !.context = x]
  OBVIOUS
<1>3. IsCall(r)
  BY CallParts
<1>4. r.context \in Context({Static, r.job})
  BY <1>3 DEF IsCall
<1>5. /\ r.context.packet \in Packet({Static, r.job})
      /\ r.context.scratch \in BOOLEAN /\ r.context.cancel \in BOOLEAN
      /\ r.context = [packet |-> r.context.packet, scratch |-> r.context.scratch, cancel |-> r.context.cancel]
  BY <1>4, ContextParts
<1>6. p \in Packet({})
  BY <1>5, ClearedIsBlank DEF Blank
<1> HIDE DEF p
<1>7. p \in Packet({Static, r.job})
  BY <1>6, PacketMono
<1>8. x \in Context({Static, r.job})
  <2>1. x = [packet |-> p, scratch |-> r.context.scratch, cancel |-> r.context.cancel]
    BY <1>5
  <2> QED
    BY <1>5, <1>7, <2>1 DEF Context
<1> HIDE DEF x
<1>9. s \in Call
      /\ s = Record(r.phase, r.mode, r.plan, r.count, r.one, r.job, r.stage, x, r.faulty, r.outcome, r.left)
  BY <1>2, <1>8, Repacked
<1> HIDE DEF s
<1>a. EndsWith(c, s, Failure(error))
  BY <1>1, <1>9, FailureIs, EndingIs
<1>b. /\ s.faulty = r.faulty /\ s.plan = r.plan /\ s.count = r.count /\ s.one = r.one
      /\ s.job = r.job /\ s.left = r.left
  BY <1>9 DEF Record
<1> QED
  BY <1>a, <1>b DEF EndsWith, EndOf

LEMMA PrefixIs ==
  ASSUME NEW S, NEW s \in Seq(S), NEW t \in Prefixes(s)
  PROVE  t \in Seq(S)
<1>1. PICK l \in 0..Len(s) : t = SubSeq(s, 1, l)
  BY DEF Prefixes
<1> QED
  BY <1>1

LEMMA TakenIs ==
  ASSUME Held, NEW c \in Callers, NEW mode \in Modes
  PROVE  Taken(c, mode) \in Context(Anyone)
<1>1. NewContext \in Waiting /\ NewPacket \in Blank
  BY NewContextIs, NewIsBlank
<1>2. \A x \in Waiting : x \in Context(Anyone)
  BY ContextMono DEF Waiting
<1>3. CASE mode = "async"
  <2>1. Top(packets, NewPacket) \in Blank
    BY <1>1, PoolParts DEF Held
  <2>2. Top(packets, NewPacket) \in Packet(Anyone)
    BY <2>1, PacketMono DEF Blank
  <2>3. NewContext \in Context({})
    BY <1>1 DEF Waiting
  <2>4. /\ NewContext.scratch \in BOOLEAN /\ NewContext.cancel \in BOOLEAN
        /\ NewContext = [packet |-> NewContext.packet, scratch |-> NewContext.scratch, cancel |-> NewContext.cancel]
    BY <2>3, ContextParts
  <2>5. Taken(c, mode) = [NewContext EXCEPT !.packet = Top(packets, NewPacket)]
    BY <1>3 DEF Taken, Pooled
  <2>6. Taken(c, mode)
          = [packet |-> Top(packets, NewPacket), scratch |-> NewContext.scratch, cancel |-> NewContext.cancel]
    BY <2>4, <2>5
  <2> QED
    BY <2>2, <2>4, <2>6 DEF Context
<1>4. CASE Pooled(mode)
  <2>1. Taken(c, mode) = Top(contexts, NewContext)
    BY <1>4 DEF Taken, Pooled
  <2>2. Top(contexts, NewContext) \in Waiting
    BY <1>1, PoolParts DEF Held
  <2> QED
    BY <1>2, <2>1, <2>2
<1>5. CASE mode = "own"
  <2>1. Taken(c, mode) = own[c]
    BY <1>5 DEF Taken, Pooled
  <2> QED
    BY <2>1 DEF Held
<1> QED
  BY <1>3, <1>4, <1>5 DEF Modes, Pooled

(* The packet that a call begins its stages with.                          *)
LEMMA LoadedFrom ==
  ASSUME NEW x \in Context(Anyone), NEW plan \in PlanType, NEW job \in Jobs
  PROVE  /\ Cleared(x.packet) \in Packet({Static, job})
         /\ LoadedStatics(Cleared(x.packet), plan) \in Packet({Static, job})
<1>1. Cleared(x.packet) \in Packet({})
  BY ClearedIsBlank DEF Context, Blank
<1>2. Cleared(x.packet) \in Packet({Static, job})
  BY <1>1, PacketMono
<1> QED
  BY <1>2, LoadedIs

(* What Start records of a call.                                           *)
Started(v, mode, count, one, job, x, fault, from) ==
  Record("runs", mode, v, count, one, job, 1, x, fault # "none", Failure("none"),
         [s \in Slots(from.packet) |-> from.packet.buffers[s].kind])

LEMMA LeftIs ==
  ASSUME NEW E, NEW p \in Packet(E)
  PROVE  [s \in Slots(p) |-> p.buffers[s].kind] \in LeftKinds
<1>a. Slots(p) \in SUBSET SlotId /\ p.buffers \in [Slots(p) -> Buffer(E)]
  BY PacketParts
<1>1. Slots(p) \in SUBSET SlotId /\ \A s \in Slots(p) : p.buffers[s].kind \in Kinds
  BY <1>a, BufferParts
<1> QED
  BY <1>1 DEF LeftKinds

LEMMA StartedIs ==
  ASSUME NEW v \in Versions, NEW mode \in Modes, NEW count \in {1, 2}, NEW one \in BOOLEAN, NEW job \in Jobs,
         NEW x \in Context({Static, job}), NEW fault, NEW from \in Context(Anyone)
  PROVE  Started(v, mode, count, one, job, x, fault, from) \in Call
<1> DEFINE left == [s \in Slots(from.packet) |-> from.packet.buffers[s].kind]
           faulty == fault # "none"
           outcome == Failure("none")
           r == Record("runs", mode, v, count, one, job, 1, x, faulty, outcome, left)
<1>0. from.packet \in Packet(Anyone)
  BY ContextParts
<1>1. left \in LeftKinds
  BY <1>0, LeftIs
<1>2. 1 \in 1..(Len(Plans[v].stages) + 1)
  <2>1. Len(Plans[v].stages) \in Nat
    BY VersionParts, PlanParts
  <2> QED
    BY <2>1
<1>3. faulty \in BOOLEAN
  OBVIOUS
<1>4. outcome \in Outcome
  BY FailureIs DEF Errors
<1> HIDE DEF left, faulty, outcome
<1>5. /\ r.phase = "runs" /\ r.mode = mode /\ r.plan = v /\ r.count = count /\ r.one = one /\ r.job = job
      /\ r.stage = 1 /\ r.context = x /\ r.faulty = faulty /\ r.outcome = outcome /\ r.left = left
  BY DEF Record
<1>6. r = Record("runs", mode, v, count, one, job, 1, x, faulty, outcome, left)
  OBVIOUS
<1> HIDE DEF r
<1>7. IsCall(r)
  BY <1>1, <1>2, <1>3, <1>4, <1>5, <1>6 DEF IsCall
<1>8. r \in Call
  BY <1>7, CallMade
<1> QED
  BY <1>8 DEF Started, r, left, faulty, outcome

(* Start, with the call that it records.                                   *)
Starts(c, v, mode, count, one, fault, items, x) ==
  LET plan == Plans[v]
      from == Taken(c, mode)
      r == Started(v, mode, count, one, jobs + 1, x, fault, from)
  IN  /\ jobs + 1 \in Jobs /\ jobs' = jobs + 1
      /\ from \in Context(Anyone)
      /\ fault = "none" => items = plan.encode
      /\ x = [packet |-> Encoded(LoadedStatics(Cleared(from.packet), plan), items, count, jobs + 1),
              scratch |-> fault # "none", cancel |-> FALSE]
      /\ r \in Call
      /\ packets' = IF mode = "async" THEN Rest(packets) ELSE packets
      /\ contexts' = IF Pooled(mode) THEN Rest(contexts) ELSE contexts
      /\ CASE fault = "error" -> Returning(c, r, Failure("encode"))
           [] fault = "panic" -> Panicked(c, r)
           [] fault = "none"  -> IF Refused(plan, x.packet) THEN Returning(c, r, Failure("refused"))
                                 ELSE run' = [run EXCEPT ![c] = r]
      /\ UNCHANGED <<debug, own>>

LEMMA StartParts ==
  ASSUME Held, NEW c \in Callers, NEW v \in Versions, NEW mode \in Modes, NEW count \in {1, 2},
         NEW one \in BOOLEAN, Start(c, v, mode, count, one)
  PROVE  \E fault \in {"none", "error", "panic"}, items \in Seq(ItemType), x \in Context({Static, jobs + 1}) :
           Starts(c, v, mode, count, one, fault, items, x)
<1> DEFINE plan == Plans[v]
           from == Taken(c, mode)
           job == jobs + 1
           loaded == LoadedStatics(Cleared(from.packet), plan)
           X(fault, items) == [packet |-> Encoded(loaded, items, count, job),
                               scratch |-> fault # "none", cancel |-> FlagCleared(from)]
           R(fault, items) == Started(v, mode, count, one, job, X(fault, items), fault, from)
<1>1. PICK fault \in {"none", "error", "panic"} :
        \E items \in IF fault = "none" THEN {plan.encode} ELSE Prefixes(plan.encode) :
          /\ run[c].phase = "idle" /\ jobs < MaxJobs
          /\ one => count = 1 /\ mode # "async"
          /\ jobs' = job
          /\ packets' = IF mode = "async" THEN Rest(packets) ELSE packets
          /\ contexts' = IF Pooled(mode) THEN Rest(contexts) ELSE contexts
          /\ CASE fault = "error" -> Returning(c, R(fault, items), Failure("encode"))
               [] fault = "panic" -> Panicked(c, R(fault, items))
               [] fault = "none"  -> IF Refused(plan, X(fault, items).packet)
                                     THEN Returning(c, R(fault, items), Failure("refused"))
                                     ELSE run' = [run EXCEPT ![c] = R(fault, items)]
          /\ UNCHANGED <<debug, own>>
  BY Zenon DEF Start, Started, Record
<1>2. PICK items \in IF fault = "none" THEN {plan.encode} ELSE Prefixes(plan.encode) :
          /\ run[c].phase = "idle" /\ jobs < MaxJobs
          /\ one => count = 1 /\ mode # "async"
          /\ jobs' = job
          /\ packets' = IF mode = "async" THEN Rest(packets) ELSE packets
          /\ contexts' = IF Pooled(mode) THEN Rest(contexts) ELSE contexts
          /\ CASE fault = "error" -> Returning(c, R(fault, items), Failure("encode"))
               [] fault = "panic" -> Panicked(c, R(fault, items))
               [] fault = "none"  -> IF Refused(plan, X(fault, items).packet)
                                     THEN Returning(c, R(fault, items), Failure("refused"))
                                     ELSE run' = [run EXCEPT ![c] = R(fault, items)]
          /\ UNCHANGED <<debug, own>>
  BY <1>1
<1>3. job \in Jobs
  BY <1>2, JobsAssumption DEF Held, Jobs
<1>4. from \in Context(Anyone)
  BY TakenIs
<1>5. plan \in PlanType /\ plan.encode \in Seq(ItemType)
  BY VersionParts, PlanParts
<1>6. items \in Seq(ItemType) /\ (fault = "none" => items = plan.encode)
  BY <1>2, <1>5, PrefixIs
<1> DEFINE x == X(fault, items)
<1>7. x = [packet |-> Encoded(loaded, items, count, job), scratch |-> fault # "none", cancel |-> FALSE]
  BY DEF FlagCleared
<1>8. loaded \in Packet({Static, job})
  BY <1>3, <1>4, <1>5, LoadedFrom
<1>9. Encoded(loaded, items, count, job) \in Packet({Static, job})
  BY <1>6, <1>8, EncodedIs
<1> HIDE DEF loaded, from, job, plan
<1>a. x \in Context({Static, job})
  BY <1>7, <1>9 DEF Context
<1> HIDE DEF X
<1>b. R(fault, items) \in Call
  BY <1>3, <1>4, <1>a, StartedIs
<1> HIDE DEF R
<1> DEFINE r == R(fault, items)
<1>c. r = Started(v, mode, count, one, job, x, fault, from)
  BY DEF R
<1> QED
  BY <1>2, <1>3, <1>4, <1>6, <1>7, <1>a, <1>b, <1>c, ZenonT(60) DEF Starts, loaded, from, job, plan

(* Stage and FaultyStage: the packet of a call after some kernels.         *)
LEMMA StageParts ==
  ASSUME NEW r \in Call, r.stage <= Len(Stages(r)), NEW kernels, NEW cancel \in BOOLEAN, NEW faulty \in BOOLEAN,
         kernels = Stages(r)[r.stage] \/ kernels \in Prefixes(Stages(r)[r.stage])
  PROVE  LET result == KernelsRun(r.context.packet, kernels, r.job)
             x == [packet |-> result.packet, scratch |-> r.context.scratch, cancel |-> cancel]
         IN  /\ result \in Step({Static, r.job})
             /\ x \in Context({Static, r.job})
             /\ [[r.context EXCEPT !.packet = result.packet] EXCEPT !.cancel = cancel] = x
             /\ cancel = r.context.cancel => [r.context EXCEPT !.packet = result.packet] = x
<1> DEFINE result == KernelsRun(r.context.packet, kernels, r.job)
<1>1. IsCall(r)
  BY CallParts
<1>2. r.context \in Context({Static, r.job}) /\ r.job \in {Static, r.job}
  BY <1>1 DEF IsCall
<1>3. /\ r.context.packet \in Packet({Static, r.job})
      /\ r.context.scratch \in BOOLEAN /\ r.context.cancel \in BOOLEAN
      /\ r.context = [packet |-> r.context.packet, scratch |-> r.context.scratch, cancel |-> r.context.cancel]
  BY <1>2, ContextParts
<1>4. kernels \in Seq(KernelType)
  <2>1. Plans[r.plan] \in PlanType
    BY <1>1, VersionParts DEF IsCall
  <2>2. Stages(r) \in Seq(Seq(KernelType))
    BY <2>1, PlanParts DEF Stages
  <2>3. r.stage \in 1..Len(Stages(r))
    <3>1. Len(Stages(r)) \in Nat
      BY <2>2
    <3> QED
      BY <1>1, <3>1 DEF IsCall, Stages
  <2>4. Stages(r)[r.stage] \in Seq(KernelType)
    BY <2>2, <2>3
  <2> QED
    BY <2>4, PrefixIs
<1>5. result \in Step({Static, r.job})
  BY <1>2, <1>3, <1>4, KernelsRunIs
<1> HIDE DEF result
<1>6. [r.context EXCEPT !.packet = result.packet]
        = [packet |-> result.packet, scratch |-> r.context.scratch, cancel |-> r.context.cancel]
  BY <1>3
<1>7. [packet |-> result.packet, scratch |-> r.context.scratch, cancel |-> cancel] \in Context({Static, r.job})
  BY <1>3, <1>5 DEF Context, Step
<1>8. \A y : y = [packet |-> result.packet, scratch |-> r.context.scratch, cancel |-> r.context.cancel]
               => [y EXCEPT !.cancel = cancel]
                    = [packet |-> result.packet, scratch |-> r.context.scratch, cancel |-> cancel]
  OBVIOUS
<1> QED
  BY <1>5, <1>6, <1>7, <1>8 DEF result

Continues(c, r, p) ==
  \E s \in Call :
    /\ run' = [run EXCEPT ![c] = s]
    /\ s = Record(r.phase, r.mode, r.plan, r.count, r.one, r.job, r.stage + 1,
                  [packet |-> p, scratch |-> r.context.scratch, cancel |-> r.context.cancel],
                  r.faulty, r.outcome, r.left)

LEMMA RunningIsCall ==
  ASSUME Held, NEW c \in Callers, run[c].phase # "idle"
  PROVE  run[c] \in Call
<1> QED
  BY DEF Held, Idle

(* The same call, apart from where it stands.                              *)
LEMMA EndsAs ==
  ASSUME NEW c, NEW r, NEW s, NEW outcome, EndsWith(c, s, outcome),
         s.faulty = r.faulty, s.plan = r.plan, s.count = r.count, s.one = r.one, s.job = r.job, s.left = r.left
  PROVE  EndsWith(c, r, outcome)
<1> QED
  BY DEF EndsWith, EndOf

LEMMA StageCases ==
  ASSUME Held, NEW c \in Callers, Stage(c)
  PROVE  LET r == run[c]
             result == KernelsRun(r.context.packet, Stages(r)[r.stage], r.job)
         IN  /\ r \in Call /\ r.phase = "runs" /\ r.stage <= Len(Stages(r))
             /\ result \in Step({Static, r.job})
             /\ \/ r.context.cancel = TRUE /\ EndsWith(c, r, Failure("cancelled"))
                \/ result.error # "none" /\ EndsWith(c, r, Failure(result.error))
                \/ result.error = "none" /\ Refused(Plans[r.plan], result.packet) /\ EndsWith(c, r, Failure("refused"))
                \/ result.error = "none" /\ ~Refused(Plans[r.plan], result.packet) /\ Continues(c, r, result.packet)
             /\ UNCHANGED <<debug, packets, contexts, own, jobs>>
<1> DEFINE r == run[c]
           result == KernelsRun(r.context.packet, Stages(r)[r.stage], r.job)
           after == [r EXCEPT !.context.packet = result.packet, !.stage = @ + 1]
           x == [packet |-> result.packet, scratch |-> r.context.scratch, cancel |-> r.context.cancel]
<1>1. /\ r.phase = "runs" /\ r.stage <= Len(Stages(r))
      /\ IF r.context.cancel THEN StageFailed(c, r, "cancelled")
         ELSE CASE result.error = "panicked" -> Panicked(c, after)
                [] result.error \notin {"none", "panicked"} -> StageFailed(c, after, result.error)
                [] result.error = "none" -> IF Refused(Plans[r.plan], result.packet)
                                            THEN StageFailed(c, after, "refused")
                                            ELSE run' = [run EXCEPT ![c] = after]
      /\ UNCHANGED <<debug, packets, contexts, own, jobs>>
  BY Zenon DEF Stage
<1>2. r \in Call
  BY <1>1, RunningIsCall
<1>3. IsCall(r)
  BY <1>2, CallParts
<1>4. r.context.cancel \in BOOLEAN
  BY <1>3, ContextParts DEF IsCall
<1>5. /\ result \in Step({Static, r.job})
      /\ x \in Context({Static, r.job})
      /\ [r.context EXCEPT !.packet = result.packet] = x
  <2>1. r \in Call /\ r.stage <= Len(Stages(r)) /\ r.context.cancel \in BOOLEAN /\ r.faulty \in BOOLEAN
    BY <1>1, <1>2, <1>3, <1>4 DEF IsCall
  <2> QED
    BY <2>1, StageParts, Zenon
<1> DEFINE s == [r EXCEPT !.context = x]
<1>6. after = [s EXCEPT !.stage = @ + 1]
  <2>1. after = [[r EXCEPT !.context = [r.context EXCEPT !.packet = result.packet]] EXCEPT !.stage = r.stage + 1]
    OBVIOUS
  <2>2. s.stage = r.stage
    BY <1>3 DEF IsCall, Record
  <2> QED
    BY <1>5, <2>1, <2>2
<1> HIDE DEF r, result, after, x
<1>7. /\ s \in Call
      /\ s = Record(r.phase, r.mode, r.plan, r.count, r.one, r.job, r.stage, x, r.faulty, r.outcome, r.left)
  BY <1>2, <1>5, Repacked
<1> HIDE DEF s
<1>8. /\ s.phase = r.phase /\ s.mode = r.mode /\ s.plan = r.plan /\ s.count = r.count /\ s.one = r.one
      /\ s.job = r.job /\ s.stage = r.stage /\ s.context = x /\ s.faulty = r.faulty
      /\ s.outcome = r.outcome /\ s.left = r.left
  BY <1>7 DEF Record
<1>9. s.stage <= Len(Stages(s))
  BY <1>1, <1>8 DEF Stages
<1>a. [s EXCEPT !.stage = @ + 1] \in Call
      /\ [s EXCEPT !.stage = @ + 1]
           = Record(s.phase, s.mode, s.plan, s.count, s.one, s.job, s.stage + 1, s.context, s.faulty, s.outcome, s.left)
  BY <1>7, <1>9, Advanced
<1>b. /\ after \in Call
      /\ after = Record(r.phase, r.mode, r.plan, r.count, r.one, r.job, r.stage + 1, x, r.faulty, r.outcome, r.left)
  BY <1>6, <1>8, <1>a
<1>c. /\ after.faulty = r.faulty /\ after.plan = r.plan /\ after.count = r.count /\ after.one = r.one
      /\ after.job = r.job /\ after.left = r.left
  BY <1>b DEF Record
<1>d. result.error \in Errors
  BY <1>5 DEF Step
<1>e. CASE r.context.cancel
  <2>1. StageFailed(c, r, "cancelled")
    BY <1>1, <1>e
  <2>2. EndsWith(c, r, Failure("cancelled"))
    BY <1>2, <2>1, StageFailedIs DEF Errors
  <2> QED
    BY <1>1, <1>2, <1>4, <1>5, <1>e, <2>2 DEF r, result
<1>f. CASE ~r.context.cancel /\ result.error = "panicked"
  <2>1. Panicked(c, after)
    BY <1>1, <1>f
  <2>2. EndsWith(c, r, Failure("panicked"))
    BY <1>b, <1>c, <2>1, PanickedIs, EndsAs
  <2> QED
    BY <1>1, <1>2, <1>5, <1>f, <2>2 DEF r, result
<1>g. CASE ~r.context.cancel /\ result.error \notin {"none", "panicked"}
  <2>1. StageFailed(c, after, result.error)
    BY <1>1, <1>g
  <2>2. EndsWith(c, after, Failure(result.error))
    BY <1>b, <1>d, <2>1, StageFailedIs
  <2>3. EndsWith(c, r, Failure(result.error))
    BY <1>c, <2>2, EndsAs
  <2> QED
    BY <1>1, <1>2, <1>5, <1>g, <2>3 DEF r, result
<1>h. CASE ~r.context.cancel /\ result.error = "none" /\ Refused(Plans[r.plan], result.packet)
  <2>1. StageFailed(c, after, "refused")
    BY <1>1, <1>h
  <2>2. EndsWith(c, after, Failure("refused"))
    BY <1>b, <2>1, StageFailedIs DEF Errors
  <2>3. EndsWith(c, r, Failure("refused"))
    BY <1>c, <2>2, EndsAs
  <2> QED
    BY <1>1, <1>2, <1>5, <1>h, <2>3 DEF r, result
<1>i. CASE ~r.context.cancel /\ result.error = "none" /\ ~Refused(Plans[r.plan], result.packet)
  <2>1. run' = [run EXCEPT ![c] = after]
    BY <1>1, <1>i
  <2>2. Continues(c, r, result.packet)
    BY <1>b, <2>1 DEF Continues, x
  <2> QED
    BY <1>1, <1>2, <1>5, <1>i, <2>2 DEF r, result
<1> QED
  BY <1>e, <1>f, <1>g, <1>h, <1>i

Changes(c) == \E s \in Call : run' = [run EXCEPT ![c] = s]

Blames(c) == \E s \in Call : s.faulty /\ run' = [run EXCEPT ![c] = s]

LEMMA FaultyStageCases ==
  ASSUME Held, NEW c \in Callers, FaultyStage(c)
  PROVE  Blames(c) /\ UNCHANGED <<debug, packets, contexts, own, jobs>>
<1> DEFINE r == run[c]
           R(kernels) == KernelsRun(r.context.packet, kernels, r.job)
           After(kernels, fault) == [r EXCEPT !.context.packet = R(kernels).packet, !.faulty = TRUE,
                                              !.context.cancel = (fault = "cancel"), !.stage = @ + 1]
<1>1. PICK fault \in {"error", "panic", "cancel"} :
        /\ r.phase = "runs" /\ r.stage <= Len(Stages(r))
        /\ \E kernels \in Prefixes(Stages(r)[r.stage]) :
             \/ StageFailed(c, After(kernels, fault), "kernel")
             \/ Panicked(c, After(kernels, fault))
             \/ StageFailed(c, After(kernels, fault), "cancelled")
             \/ StageFailed(c, After(kernels, fault), "refused")
             \/ run' = [run EXCEPT ![c] = After(kernels, fault)]
        /\ UNCHANGED <<debug, packets, contexts, own, jobs>>
  <2>1. PICK fault \in {"error", "panic", "cancel"} :
          /\ r.phase = "runs" /\ r.stage <= Len(Stages(r))
          /\ \E kernels \in Prefixes(Stages(r)[r.stage]) :
               LET result == R(kernels)
                   after == After(kernels, fault)
                   all == kernels = Stages(r)[r.stage]
               IN  CASE fault = "error" -> ~all /\ StageFailed(c, after, "kernel")
                     [] fault = "panic" -> ~all /\ Panicked(c, after)
                     [] fault = "cancel" -> IF ~all THEN kernels # <<>> /\ StageFailed(c, after, "cancelled")
                                            ELSE IF Refused(Plans[r.plan], result.packet)
                                            THEN StageFailed(c, after, "refused")
                                            ELSE run' = [run EXCEPT ![c] = after]
          /\ UNCHANGED <<debug, packets, contexts, own, jobs>>
    BY Zenon DEF FaultyStage
  <2> HIDE DEF R, After
  <2> QED
    BY <2>1
<1>2. PICK kernels \in Prefixes(Stages(r)[r.stage]) :
        \/ StageFailed(c, After(kernels, fault), "kernel")
        \/ Panicked(c, After(kernels, fault))
        \/ StageFailed(c, After(kernels, fault), "cancelled")
        \/ StageFailed(c, After(kernels, fault), "refused")
        \/ run' = [run EXCEPT ![c] = After(kernels, fault)]
  BY <1>1
<1> DEFINE cancel == fault = "cancel"
           packet == R(kernels).packet
           x == [packet |-> packet, scratch |-> r.context.scratch, cancel |-> cancel]
           after == After(kernels, fault)
           s == [r EXCEPT !.context = x]
           t == [s EXCEPT !.faulty = TRUE]
<1>3. r \in Call
  BY <1>1, RunningIsCall
<1>4. IsCall(r)
  BY <1>3, CallParts
<1>5. /\ R(kernels) \in Step({Static, r.job})
      /\ x \in Context({Static, r.job})
      /\ [[r.context EXCEPT !.packet = packet] EXCEPT !.cancel = cancel] = x
  BY <1>1, <1>3, StageParts
<1>6. after = [t EXCEPT !.stage = @ + 1]
  <2>1. after = [[[[r EXCEPT !.context = [r.context EXCEPT !.packet = packet]] EXCEPT !.faulty = TRUE]
                   EXCEPT !.context = [@ EXCEPT !.cancel = cancel]] EXCEPT !.stage = r.stage + 1]
    BY <1>4 DEF IsCall, Record
  <2> DEFINE y == [r.context EXCEPT !.packet = packet]
             stage == r.stage + 1
  <2> HIDE DEF y, stage
  <2>2. [[[[r EXCEPT !.context = y] EXCEPT !.faulty = TRUE]
            EXCEPT !.context = [@ EXCEPT !.cancel = cancel]] EXCEPT !.stage = stage]
         = [[[r EXCEPT !.context = [y EXCEPT !.cancel = cancel]] EXCEPT !.faulty = TRUE] EXCEPT !.stage = stage]
    BY <1>4 DEF IsCall, Record
  <2>3. t.stage = r.stage
    BY <1>4 DEF IsCall, Record
  <2> QED
    BY <1>5, <2>1, <2>2, <2>3 DEF y, stage
<1> HIDE DEF r, R, x, after
<1>7. /\ s \in Call
      /\ s = Record(r.phase, r.mode, r.plan, r.count, r.one, r.job, r.stage, x, r.faulty, r.outcome, r.left)
  BY <1>3, <1>5, Repacked
<1> HIDE DEF s
<1>8. /\ t \in Call
      /\ t = Record(s.phase, s.mode, s.plan, s.count, s.one, s.job, s.stage, s.context, TRUE, s.outcome, s.left)
  BY <1>7, Blamed
<1> HIDE DEF t
<1>9. s.plan = r.plan /\ s.stage = r.stage /\ t.plan = s.plan /\ t.stage = s.stage
  BY <1>7, <1>8 DEF Record
<1>a. t.stage <= Len(Stages(t))
  BY <1>1, <1>9 DEF Stages
<1>b. after \in Call /\ after.faulty = TRUE
  <2>1. /\ after \in Call
        /\ after = Record(t.phase, t.mode, t.plan, t.count, t.one, t.job, t.stage + 1, t.context, t.faulty, t.outcome,
                          t.left)
    BY <1>6, <1>8, <1>a, Advanced
  <2>2. t.faulty = TRUE
    BY <1>8 DEF Record
  <2> QED
    BY <2>1, <2>2 DEF Record
<1>c. ASSUME NEW outcome, EndsWith(c, after, outcome)
      PROVE  Blames(c)
  BY <1>b, <1>c DEF EndsWith, EndOf, Blames
<1>d. \/ StageFailed(c, after, "kernel") \/ Panicked(c, after) \/ StageFailed(c, after, "cancelled")
      \/ StageFailed(c, after, "refused") \/ run' = [run EXCEPT ![c] = after]
  BY <1>2 DEF after
<1>e. CASE \E error \in {"kernel", "cancelled", "refused"} : StageFailed(c, after, error)
  <2>1. PICK error \in {"kernel", "cancelled", "refused"} : StageFailed(c, after, error)
    BY <1>e
  <2>2. error \in Errors
    BY DEF Errors
  <2>3. EndsWith(c, after, Failure(error))
    BY <1>b, <2>1, <2>2, StageFailedIs
  <2> QED
    BY <1>1, <1>c, <2>3
<1>f. CASE Panicked(c, after)
  <2>1. EndsWith(c, after, Failure("panicked"))
    BY <1>b, <1>f, PanickedIs
  <2> QED
    BY <1>1, <1>c, <2>1
<1>g. CASE run' = [run EXCEPT ![c] = after]
  BY <1>1, <1>b, <1>g DEF Blames
<1> QED
  BY <1>d, <1>e, <1>f, <1>g

LEMMA DecodeCases ==
  ASSUME Held, NEW c \in Callers, Decode(c)
  PROVE  LET r == run[c]
         IN  /\ r \in Call /\ r.phase = "runs" /\ r.stage > Len(Stages(r))
             /\ \/ Blames(c)
                \/ r.context.cancel = TRUE /\ EndsWith(c, r, Failure("cancelled"))
                \/ EndsWith(c, r, Decoded(r.context.packet, Plans[r.plan], r.one))
             /\ UNCHANGED <<debug, packets, contexts, own, jobs>>
<1> DEFINE r == run[c]
           failed == [r EXCEPT !.faulty = TRUE]
           decoded == Decoded(r.context.packet, Plans[r.plan], r.one)
<1>1. PICK fault \in {"none", "error", "panic"} :
        /\ r.phase = "runs" /\ r.stage > Len(Stages(r))
        /\ CASE r.mode = "async" /\ r.context.cancel -> Returning(c, r, Failure("cancelled"))
             [] fault = "error" -> Returning(c, failed, Failure("decode"))
             [] fault = "panic" -> Panicked(c, failed)
             [] OTHER -> Returning(c, r, decoded)
        /\ UNCHANGED <<debug, packets, contexts, own, jobs>>
  BY Zenon DEF Decode
<1>2. r \in Call
  BY <1>1, RunningIsCall
<1>3. IsCall(r)
  BY <1>2, CallParts
<1>4. r.context.cancel \in BOOLEAN /\ r.context.packet \in Packet(Anyone)
  <2>1. r.context \in Context({Static, r.job}) /\ {Static, r.job} \subseteq Anyone
    BY <1>3, JobIs DEF IsCall
  <2> QED
    BY <2>1, ContextParts, PacketMono
<1>5. decoded \in Outcome
  BY <1>3, <1>4, VersionParts, DecodedIs DEF IsCall
<1>6. failed \in Call /\ failed.faulty = TRUE
  <2>1. /\ failed \in Call
        /\ failed = Record(r.phase, r.mode, r.plan, r.count, r.one, r.job, r.stage, r.context, TRUE, r.outcome, r.left)
    BY <1>2, Blamed
  <2> HIDE DEF failed, r
  <2> QED
    BY <2>1 DEF Record
<1>7. ASSUME NEW outcome, EndsWith(c, failed, outcome)
      PROVE  Blames(c)
  BY <1>6, <1>7 DEF EndsWith, EndOf, Blames
<1> HIDE DEF failed, decoded
<1>8. \/ r.context.cancel /\ Returning(c, r, Failure("cancelled"))
      \/ Returning(c, failed, Failure("decode"))
      \/ Panicked(c, failed)
      \/ Returning(c, r, decoded)
  BY <1>1
<1> HIDE DEF r
<1>a. CASE r.context.cancel /\ Returning(c, r, Failure("cancelled"))
  <2>1. EndsWith(c, r, Failure("cancelled"))
    BY <1>2, <1>a, FailureIs, EndingIs DEF Returning, Errors
  <2> QED
    BY <1>1, <1>2, <1>4, <1>a, <2>1 DEF r
<1>b. CASE Returning(c, failed, Failure("decode"))
  <2>1. EndsWith(c, failed, Failure("decode"))
    BY <1>6, <1>b, FailureIs, EndingIs DEF Returning, Errors
  <2> QED
    BY <1>1, <1>2, <1>7, <2>1 DEF r
<1>d. CASE Panicked(c, failed)
  <2>1. EndsWith(c, failed, Failure("panicked"))
    BY <1>6, <1>d, PanickedIs
  <2> QED
    BY <1>1, <1>2, <1>7, <2>1 DEF r
<1>e. CASE Returning(c, r, decoded)
  <2>1. EndsWith(c, r, decoded)
    BY <1>2, <1>5, <1>e, EndingIs DEF Returning
  <2> QED
    BY <1>1, <1>2, <2>1 DEF r, decoded
<1> QED
  BY <1>8, <1>a, <1>b, <1>d, <1>e

LEMMA EndsChanges ==
  ASSUME NEW c, NEW r, NEW outcome, EndsWith(c, r, outcome)
  PROVE  Changes(c)
<1> QED
  BY DEF EndsWith, EndOf, Changes

LEMMA StartChanges ==
  ASSUME Held, NEW c \in Callers, NEW v \in Versions, NEW mode \in Modes, NEW count \in {1, 2},
         NEW one \in BOOLEAN, Start(c, v, mode, count, one)
  PROVE  /\ Changes(c) /\ jobs' \in 0..MaxJobs
         /\ packets' = IF mode = "async" THEN Rest(packets) ELSE packets
         /\ contexts' = IF Pooled(mode) THEN Rest(contexts) ELSE contexts
         /\ UNCHANGED <<debug, own>>
<1> DEFINE plan == Plans[v]
<1>1. PICK fault \in {"none", "error", "panic"}, items \in Seq(ItemType), x \in Context({Static, jobs + 1}) :
        Starts(c, v, mode, count, one, fault, items, x)
  BY StartParts
<1> DEFINE r == Started(v, mode, count, one, jobs + 1, x, fault, Taken(c, mode))
<1>2. /\ jobs + 1 \in Jobs /\ jobs' = jobs + 1 /\ r \in Call
      /\ packets' = IF mode = "async" THEN Rest(packets) ELSE packets
      /\ contexts' = IF Pooled(mode) THEN Rest(contexts) ELSE contexts
      /\ UNCHANGED <<debug, own>>
      /\ CASE fault = "error" -> Returning(c, r, Failure("encode"))
           [] fault = "panic" -> Panicked(c, r)
           [] fault = "none"  -> IF Refused(plan, x.packet) THEN Returning(c, r, Failure("refused"))
                                 ELSE run' = [run EXCEPT ![c] = r]
  BY <1>1, Zenon DEF Starts
<1>3. \/ Returning(c, r, Failure("encode")) \/ Panicked(c, r) \/ Returning(c, r, Failure("refused"))
      \/ run' = [run EXCEPT ![c] = r]
  <2> HIDE DEF r
  <2>1. CASE fault = "error"
    BY <1>2, <2>1
  <2>2. CASE fault = "panic"
    BY <1>2, <2>2
  <2>3. CASE fault = "none"
    BY <1>2, <2>3
  <2> QED
    BY <2>1, <2>2, <2>3
<1> HIDE DEF r
<1>4. jobs' \in 0..MaxJobs
  BY <1>2, JobsAssumption DEF Jobs
<1>5. Changes(c)
  <2>1. ASSUME NEW error \in {"encode", "refused"}, Returning(c, r, Failure(error))
        PROVE  Changes(c)
    <3>1. Failure(error) \in Outcome
      BY FailureIs DEF Errors
    <3>2. EndsWith(c, r, Failure(error))
      BY <1>2, <2>1, <3>1, EndingIs DEF Returning
    <3> QED
      BY <3>2, EndsChanges
  <2>2. CASE Panicked(c, r)
    BY <1>2, <2>2, PanickedIs, EndsChanges
  <2>3. CASE run' = [run EXCEPT ![c] = r]
    BY <1>2, <2>3 DEF Changes
  <2> QED
    BY <1>3, <2>1, <2>2, <2>3
<1> QED
  BY <1>2, <1>4, <1>5

(* What a call gives back may wait in a pool.                              *)
LEMMA ReturnKeeps ==
  ASSUME Held, NEW c \in Callers, Return(c)
  PROVE  Held'
<1> DEFINE r == run[c]
<1>1. /\ r.phase \in {"returns", "unwinds"}
      /\ run' = [run EXCEPT ![c] = Idle]
      /\ packets' = IF r.phase = "returns" /\ r.mode = "async"
                    THEN Append(packets, Cleared(r.context.packet)) ELSE packets
      /\ contexts' = IF r.phase = "returns" /\ Pooled(r.mode) THEN Append(contexts, ResetContext(r.context)) ELSE contexts
      /\ own' = IF r.mode = "own" THEN [own EXCEPT ![c] = r.context] ELSE own
      /\ UNCHANGED <<debug, jobs>>
  BY DEF Return
<1>2. r \in Call
  BY <1>1, RunningIsCall
<1>3. r.context \in Context({Static, r.job}) /\ {Static, r.job} \subseteq Anyone
  BY <1>2, CallParts, JobIs DEF IsCall
<1>4. r.context \in Context(Anyone) /\ r.context.packet \in Packet({Static, r.job})
  BY <1>3, ContextMono, ContextParts
<1>5. Cleared(r.context.packet) \in Blank
  BY <1>4, ClearedIsBlank
<1>6. ResetContext(r.context) \in Waiting
  BY <1>3, ResetIs
<1> DEFINE packet == Cleared(r.context.packet)
           context == ResetContext(r.context)
<1> HIDE DEF r, packet, context
<1>7. packets' \in Seq(Blank)
  <2>1. packets \in Seq(Blank) /\ packet \in Blank
    BY <1>5 DEF Held, packet
  <2>2. packets' = Append(packets, packet) \/ packets' = packets
    BY <1>1 DEF packet
  <2> QED
    BY <2>1, <2>2, AppendProperties
<1>8. contexts' \in Seq(Waiting)
  <2>1. contexts \in Seq(Waiting) /\ context \in Waiting
    BY <1>6 DEF Held, context
  <2>2. contexts' = Append(contexts, context) \/ contexts' = contexts
    BY <1>1 DEF context
  <2> QED
    BY <2>1, <2>2, AppendProperties
<1>9. own' \in [Callers -> Context(Anyone)]
  BY <1>1, <1>4 DEF Held
<1>a. run' \in [Callers -> Call \cup {Idle}]
  BY <1>1 DEF Held
<1> QED
  BY <1>1, <1>7, <1>8, <1>9, <1>a DEF Held

LEMMA Flagged ==
  ASSUME NEW E, NEW x \in Context(E), NEW flag \in BOOLEAN
  PROVE  [x EXCEPT !.cancel = flag] \in Context(E)
<1> DEFINE p == x.packet
           scratch == x.scratch
           cancel == x.cancel
<1>1. /\ p \in Packet(E) /\ scratch \in BOOLEAN
      /\ x = [packet |-> p, scratch |-> scratch, cancel |-> cancel]
  BY ContextParts
<1> HIDE DEF p, scratch, cancel
<1>2. [x EXCEPT !.cancel = flag] = [packet |-> p, scratch |-> scratch, cancel |-> flag]
  BY <1>1
<1> QED
  BY <1>1, <1>2 DEF Context

LEMMA DirectKeeps ==
  ASSUME Held, NEW c \in Callers, NEW mode \in Modes, Direct(c, mode)
  PROVE  Held'
<1>1. NewContext \in Waiting
  BY NewContextIs
<1>2. /\ contexts' = IF Pooled(mode) /\ contexts = <<>> THEN <<NewContext>> ELSE contexts
      /\ own' = IF mode = "own" THEN [own EXCEPT ![c].cancel = FALSE] ELSE own
      /\ UNCHANGED <<debug, packets, run, jobs>>
  BY DEF Direct
<1>3. contexts' \in Seq(Waiting)
  <2>1. <<NewContext>> \in Seq(Waiting)
    BY <1>1
  <2> QED
    BY <1>2, <2>1 DEF Held
<1>4. own' \in [Callers -> Context(Anyone)]
  <2>1. own \in [Callers -> Context(Anyone)]
    BY DEF Held
  <2>2. [own[c] EXCEPT !.cancel = FALSE] \in Context(Anyone)
    <3>1. own[c] \in Context(Anyone) /\ FALSE \in BOOLEAN
      BY <2>1
    <3> QED
      BY <3>1, Flagged, Zenon
  <2>3. [own EXCEPT ![c].cancel = FALSE] = [own EXCEPT ![c] = [own[c] EXCEPT !.cancel = FALSE]]
    OBVIOUS
  <2> QED
    BY <1>2, <2>1, <2>2, <2>3
<1> QED
  BY <1>2, <1>3, <1>4 DEF Held

-----------------------------------------------------------------------------
(* ---- theorems --------------------------------------------------------- *)

LEMMA HeldInit == Init => Held
<1> SUFFICES ASSUME Init
             PROVE  Held
  OBVIOUS
<1>1. NewContext \in Context(Anyone)
  BY NewContextIs, ContextMono DEF Waiting
<1>2. <<>> \in Seq(Blank) /\ <<>> \in Seq(Waiting)
  BY EmptySeq
<1> QED
  BY <1>1, <1>2, JobsAssumption DEF Init, Held

LEMMA HeldNext == Held /\ [Next]_vars => Held'
<1> SUFFICES ASSUME Held, [Next]_vars
             PROVE  Held'
  OBVIOUS
<1>1. ASSUME NEW c \in Callers, Changes(c), jobs' \in 0..MaxJobs, packets' \in Seq(Blank),
             contexts' \in Seq(Waiting), UNCHANGED <<debug, own>>
      PROVE  Held'
  <2>1. PICK s \in Call : run' = [run EXCEPT ![c] = s]
    BY <1>1 DEF Changes
  <2>2. run' \in [Callers -> Call \cup {Idle}]
    BY <2>1 DEF Held
  <2> QED
    BY <1>1, <2>2 DEF Held
<1>2. ASSUME NEW c \in Callers, Changes(c), UNCHANGED <<debug, packets, contexts, own, jobs>>
      PROVE  Held'
  <2>1. jobs' \in 0..MaxJobs /\ packets' \in Seq(Blank) /\ contexts' \in Seq(Waiting) /\ UNCHANGED <<debug, own>>
    BY <1>2 DEF Held
  <2> QED
    BY <1>1, <1>2, <2>1
<1>3. ASSUME NEW c \in Callers, NEW v \in Versions, NEW mode \in Modes, NEW count \in {1, 2}, NEW one \in BOOLEAN,
             Start(c, v, mode, count, one)
      PROVE  Held'
  <2>1. /\ Changes(c) /\ jobs' \in 0..MaxJobs
        /\ packets' = IF mode = "async" THEN Rest(packets) ELSE packets
        /\ contexts' = IF Pooled(mode) THEN Rest(contexts) ELSE contexts
        /\ UNCHANGED <<debug, own>>
    BY <1>3, StartChanges
  <2>2. Rest(packets) \in Seq(Blank) /\ Rest(contexts) \in Seq(Waiting)
    BY NewIsBlank, NewContextIs, PoolParts DEF Held
  <2>3. packets' \in Seq(Blank) /\ contexts' \in Seq(Waiting)
    BY <2>1, <2>2 DEF Held
  <2> QED
    BY <1>1, <2>1, <2>3
<1>4. ASSUME NEW c \in Callers, Stage(c)
      PROVE  Held'
  <2>1. UNCHANGED <<debug, packets, contexts, own, jobs>>
    BY <1>4, StageCases
  <2>2. (\E outcome, r : EndsWith(c, r, outcome)) \/ (\E r, p : Continues(c, r, p))
    BY <1>4, StageCases
  <2>3. Changes(c)
    BY <2>2, EndsChanges DEF Continues, Changes
  <2> QED
    BY <1>2, <2>1, <2>3
<1>5. ASSUME NEW c \in Callers, FaultyStage(c)
      PROVE  Held'
  <2>1. Blames(c) /\ UNCHANGED <<debug, packets, contexts, own, jobs>>
    BY <1>5, FaultyStageCases
  <2>2. Changes(c)
    BY <2>1 DEF Blames, Changes
  <2> QED
    BY <1>2, <2>1, <2>2
<1>6. ASSUME NEW c \in Callers, Decode(c)
      PROVE  Held'
  <2>1. UNCHANGED <<debug, packets, contexts, own, jobs>>
    BY <1>6, DecodeCases
  <2>2. Blames(c) \/ \E outcome, r : EndsWith(c, r, outcome)
    BY <1>6, DecodeCases
  <2>3. Changes(c)
    BY <2>2, EndsChanges DEF Blames, Changes
  <2> QED
    BY <1>2, <2>1, <2>3
<1>7. CASE UNCHANGED vars
  <2> USE <1>7 DEF vars
  <2> QED
    BY DEF Held
<1>8. CASE Next
  BY <1>3, <1>4, <1>5, <1>6, <1>8, ReturnKeeps, DirectKeeps DEF Next
<1> QED
  BY <1>7, <1>8

THEOREM HeldAlways == Spec => []Held
<1> QED
  BY HeldInit, HeldNext, PTL DEF Spec

(* Every packet is one that Held knows.                                    *)
LEMMA EveryPacketIs == Held => EveryPacket \subseteq Packet(Anyone)
<1> SUFFICES ASSUME Held, NEW p \in EveryPacket
             PROVE  p \in Packet(Anyone)
  OBVIOUS
<1>1. CASE p \in ToSet(packets)
  <2>1. p \in Blank
    BY <1>1 DEF Held, ToSet
  <2> QED
    BY <2>1, PacketMono DEF Blank
<1>2. CASE \E x \in ToSet(contexts) : p = x.packet
  <2>1. PICK x \in ToSet(contexts) : p = x.packet
    BY <1>2
  <2>2. x \in Waiting
    BY <2>1 DEF Held, ToSet
  <2>3. p \in Packet({})
    BY <2>1, <2>2, ContextParts DEF Waiting
  <2> QED
    BY <2>3, PacketMono
<1>3. CASE \E c \in Callers : p = own[c].packet
  <2>1. PICK c \in Callers : p = own[c].packet
    BY <1>3
  <2>2. own[c] \in Context(Anyone)
    BY <2>1 DEF Held
  <2> QED
    BY <2>1, <2>2, ContextParts
<1>4. CASE \E c \in {d \in Callers : Active(d)} : p = run[c].context.packet
  <2>1. PICK c \in Callers : Active(c) /\ p = run[c].context.packet
    BY <1>4
  <2>2. run[c].context \in Context({Static, run[c].job}) /\ {Static, run[c].job} \subseteq Anyone
    BY <2>1, RunningIsCall, CallParts, JobIs DEF Active, IsCall
  <2>3. p \in Packet({Static, run[c].job})
    BY <2>1, <2>2, ContextParts
  <2> QED
    BY <2>2, <2>3, PacketMono
<1> QED
  BY <1>1, <1>2, <1>3, <1>4 DEF EveryPacket

LEMMA TypeFollows == Held => TypeOK
<1> SUFFICES ASSUME Held
             PROVE  TypeOK
  OBVIOUS
<1>1. ASSUME NEW p \in EveryPacket
      PROVE  /\ p.count \in Nat /\ p.dirty \in BOOLEAN
             /\ \A s \in Slots(p) : /\ p.buffers[s].kind \in Kinds
                                    /\ \A e \in ToSet(p.buffers[s].data) : e \subseteq 0..MaxJobs
  <2>1. p \in Packet(Anyone)
    BY EveryPacketIs
  <2>2. p.count \in Nat /\ p.dirty \in BOOLEAN /\ p.buffers \in [Slots(p) -> Buffer(Anyone)]
    BY <2>1, PacketParts
  <2>3. ASSUME NEW s \in Slots(p)
        PROVE  /\ p.buffers[s].kind \in Kinds
               /\ \A e \in ToSet(p.buffers[s].data) : e \subseteq 0..MaxJobs
    <3>1. p.buffers[s] \in Buffer(Anyone)
      BY <2>2
    <3>2. p.buffers[s].kind \in Kinds /\ DOMAIN p.buffers[s].data = 1..Len(p.buffers[s].data)
          /\ \A i \in 1..Len(p.buffers[s].data) : p.buffers[s].data[i] \in SUBSET Anyone
      BY <3>1, BufferParts
    <3> QED
      BY <3>2 DEF ToSet, Anyone
  <2> QED
    BY <2>2, <2>3
<1>2. ASSUME NEW c \in Callers, Active(c)
      PROVE  /\ run[c].mode \in Modes /\ run[c].outcome.error \in Errors
             /\ run[c].stage \in 1..(Len(Stages(run[c])) + 1)
             /\ IsInjective([i \in DOMAIN Plans[run[c].plan].specs |-> Plans[run[c].plan].specs[i].slot])
  <2>1. IsCall(run[c])
    BY <1>2, RunningIsCall, CallParts DEF Active
  <2>2. run[c].mode \in Modes /\ run[c].outcome \in Outcome /\ run[c].plan \in Versions
        /\ run[c].stage \in 1..(Len(Plans[run[c].plan].stages) + 1)
    BY <2>1 DEF IsCall
  <2>3. run[c].outcome.error \in Errors
    BY <2>2 DEF Outcome
  <2>4. ValidPlan(Plans[run[c].plan])
    BY <2>2, VersionParts
  <2>5. IsInjective([i \in DOMAIN Plans[run[c].plan].specs |-> Plans[run[c].plan].specs[i].slot])
    BY <2>4, Zenon DEF ValidPlan
  <2> QED
    BY <2>2, <2>3, <2>5 DEF Stages
<1>3. debug \in BOOLEAN /\ jobs \in 0..MaxJobs
  BY DEF Held
<1> QED
  BY <1>1, <1>2, <1>3, Zenon DEF TypeOK

(* A packet of no jobs, or not dirty, has no elements.                     *)
LEMMA ElementsOf ==
  ASSUME NEW E, NEW p \in Packet(E)
  PROVE  /\ \A e \in Elements(p) : e \subseteq E
         /\ ~p.dirty => Elements(p) = {}
<1>1. p.buffers \in [Slots(p) -> Buffer(E)] /\ (p.dirty \/ \A s \in Slots(p) : p.buffers[s].data = <<>>)
  BY PacketParts
<1>2. ASSUME NEW e \in Elements(p)
      PROVE  e \subseteq E /\ p.dirty
  <2>1. PICK s \in Slots(p) : e \in ToSet(p.buffers[s].data)
    BY DEF Elements
  <2>2. p.buffers[s] \in Buffer(E)
    BY <1>1
  <2>3. PICK n \in Nat : n = Len(p.buffers[s].data)
    BY <2>2, BufferParts
  <2>4. DOMAIN p.buffers[s].data = 1..n /\ \A i \in 1..n : p.buffers[s].data[i] \in SUBSET E
    BY <2>2, <2>3, BufferParts
  <2>5. PICK i \in 1..n : e = p.buffers[s].data[i]
    BY <2>1, <2>4 DEF ToSet
  <2>6. p.buffers[s].data # <<>>
    BY <2>3, <2>5
  <2> QED
    BY <1>1, <2>4, <2>5, <2>6
<1> QED
  BY <1>2

LEMMA IsolationFollows == Held => Isolated
<1> SUFFICES ASSUME Held
             PROVE  Isolated
  OBVIOUS
<1>1. ASSUME NEW c \in Callers, run[c].phase = "runs"
      PROVE  \A e \in Elements(run[c].context.packet) : e \subseteq {Static, run[c].job}
  <2>1. run[c].context \in Context({Static, run[c].job})
    BY <1>1, RunningIsCall, CallParts DEF IsCall
  <2> QED
    BY <2>1, ContextParts, ElementsOf
<1>2. \A p \in EveryPacket : ~p.dirty => Elements(p) = {}
  BY EveryPacketIs, ElementsOf
<1>3. ASSUME NEW p \in Blank
      PROVE  Elements(p) = {}
  BY ElementsOf DEF Blank
<1>4. \A p \in ToSet(packets) : Elements(p) = {}
  BY <1>3 DEF Held, ToSet
<1>5. ASSUME NEW x \in ToSet(contexts)
      PROVE  Elements(x.packet) = {} /\ ~x.scratch /\ ~x.cancel
  <2>1. x \in Waiting
    BY DEF Held, ToSet
  <2> QED
    BY <1>3, <2>1 DEF Waiting
<1> QED
  BY <1>1, <1>2, <1>4, <1>5 DEF Isolated

(* The types of PacketReuse: of every packet, wherever it is, and of every *)
(* call.                                                                   *)
THEOREM TypeCorrect == Spec => []TypeOK
<1> QED
  BY HeldAlways, TypeFollows, PTL

(* A packet is cleared before it serves another job, whichever way the job *)
(* before has ended (clear_for_reuse in src/src/job.rs, recycle_packet and *)
(* give_back in src/src/stack.rs): no job meets an element of another one, *)
(* what is not marked dirty is empty, and so is what waits in a pool.      *)
THEOREM PacketsIsolated == Spec => []Isolated
<1> QED
  BY HeldAlways, IsolationFollows, PTL
-----------------------------------------------------------------------------
(* ---- packets of another past ------------------------------------------ *)

(* A used packet p beside a new one f that went through the same: it has   *)
(* what f has, and emptied buffers where left had some and f has none.     *)
Alike(p, f, left) ==
  /\ p.count = f.count
  /\ Slots(p) = Slots(f) \cup DOMAIN left
  /\ \A s \in Slots(f) : p.buffers[s] = f.buffers[s]
  /\ \A s \in DOMAIN left : s \notin Slots(f) => p.buffers[s] = Emptied(left[s])

LEMMA AlikeEnsured ==
  ASSUME NEW E, NEW p \in Packet(E), NEW f \in Packet(E), NEW left, Alike(p, f, left),
         NEW slot \in SlotId, NEW kind \in Kinds, NEW len \in Nat
  PROVE  Alike(Ensured(p, slot, kind, len), Ensured(f, slot, kind, len), left)
<1> DEFINE q == Ensured(p, slot, kind, len)
           g == Ensured(f, slot, kind, len)
<1>1. IsEnsured(q, E, p, slot, kind, len) /\ IsEnsured(g, E, f, slot, kind, len)
  BY EnsuredIs, Zenon
<1>2. EnsuredSlot(p, slot, kind) = EnsuredSlot(f, slot, kind)
  <2>1. CASE slot \in Slots(f)
    BY <2>1 DEF EnsuredSlot, Alike
  <2>2. CASE slot \notin Slots(f)
    <3>1. EnsuredSlot(f, slot, kind) = Emptied(kind)
      BY <2>2 DEF EnsuredSlot, Emptied
    <3>2. slot \in Slots(p) => p.buffers[slot] = Emptied(left[slot])
      BY <2>2 DEF Alike
    <3>3. Emptied(left[slot]).kind = kind => Emptied(left[slot]) = Emptied(kind)
      BY DEF Emptied
    <3> QED
      BY <3>1, <3>2, <3>3 DEF EnsuredSlot, Emptied
  <2> QED
    BY <2>1, <2>2
<1> HIDE DEF q, g
<1>3. q.buffers[slot] = g.buffers[slot]
  BY <1>1, <1>2 DEF IsEnsured
<1>4. Slots(q) = Slots(g) \cup DOMAIN left /\ q.count = g.count
  BY <1>1 DEF IsEnsured, Alike
<1>5. ASSUME NEW s \in Slots(g)
      PROVE  q.buffers[s] = g.buffers[s]
  BY <1>1, <1>3 DEF IsEnsured, Alike
<1>6. ASSUME NEW s \in DOMAIN left, s \notin Slots(g)
      PROVE  q.buffers[s] = Emptied(left[s])
  BY <1>1, <1>6 DEF IsEnsured, Alike
<1> QED
  BY <1>4, <1>5, <1>6 DEF Alike, q, g

LEMMA AlikeWritten ==
  ASSUME NEW E, NEW p \in Packet(E), NEW f \in Packet(E), NEW left, Alike(p, f, left),
         NEW slot \in Slots(f), NEW data \in Seq(SUBSET E),
         p.dirty = TRUE \/ data = <<>>, f.dirty = TRUE \/ data = <<>>
  PROVE  Alike(Written(p, slot, data), Written(f, slot, data), left)
<1> DEFINE q == Written(p, slot, data)
           g == Written(f, slot, data)
<1>1. slot \in Slots(p) /\ p.buffers[slot] = f.buffers[slot]
  BY DEF Alike
<1>2. IsWritten(q, E, p, slot, data) /\ IsWritten(g, E, f, slot, data)
  BY <1>1, WrittenIs, Zenon
<1> HIDE DEF q, g
<1>3. q.buffers[slot] = g.buffers[slot]
  BY <1>1, <1>2 DEF IsWritten
<1>4. ASSUME NEW s \in Slots(g)
      PROVE  q.buffers[s] = g.buffers[s]
  BY <1>2, <1>3 DEF IsWritten, Alike
<1>5. ASSUME NEW s \in DOMAIN left, s \notin Slots(g)
      PROVE  q.buffers[s] = Emptied(left[s])
  BY <1>2, <1>5 DEF IsWritten, Alike
<1> QED
  BY <1>2, <1>4, <1>5 DEF IsWritten, Alike, q, g

LEMMA AlikeLoad ==
  ASSUME NEW E, Static \in E, NEW p \in Packet(E), NEW f \in Packet(E), NEW left, Alike(p, f, left),
         NEW b \in StaticType
  PROVE  Alike(LoadItem(p, b), LoadItem(f, b), left)
<1>1. b.slot \in SlotId /\ b.kind \in Kinds /\ b.data \in Seq({{Static}})
  BY DEF StaticType
<1>l. PICK len \in Nat : len = Len(b.data)
  BY <1>1
<1>2. b.data \in Seq(SUBSET E)
  <2>1. PICK n \in Nat : b.data \in [1..n -> {{Static}}]
    BY <1>1, SeqDef
  <2>2. b.data \in [1..n -> SUBSET E]
    BY <2>1
  <2> QED
    BY <2>2, SeqDef, <1>1
<1> DEFINE q == Ensured(p, b.slot, b.kind, len)
           g == Ensured(f, b.slot, b.kind, len)
<1>3. IsEnsured(q, E, p, b.slot, b.kind, len) /\ IsEnsured(g, E, f, b.slot, b.kind, len)
  BY <1>1, EnsuredIs, Zenon
<1>4. Alike(q, g, left)
  BY <1>1, AlikeEnsured, Zenon
<1> HIDE DEF q, g
<1>5. q \in Packet(E) /\ g \in Packet(E) /\ b.slot \in Slots(g) /\ q.dirty = TRUE /\ g.dirty = TRUE
  BY <1>3 DEF IsEnsured
<1>6. Alike(Written(q, b.slot, b.data), Written(g, b.slot, b.data), left)
  BY <1>2, <1>4, <1>5, AlikeWritten, Zenon
<1> QED
  BY <1>l, <1>6 DEF LoadItem, q, g

LEMMA AlikeEncode ==
  ASSUME NEW E, NEW p \in Packet(E), NEW f \in Packet(E), NEW left, Alike(p, f, left),
         NEW b \in ItemType, NEW count \in Nat, NEW job \in E
  PROVE  Alike(EncodeItem(p, b, count, job), EncodeItem(f, b, count, job), left)
<1>1. b.slot \in SlotId /\ b.kind \in Kinds /\ b.width \in Nat
  BY DEF ItemType
<1>2. PICK len \in Nat : len = count * b.width
  BY <1>1
<1> DEFINE q == Ensured(p, b.slot, b.kind, len)
           g == Ensured(f, b.slot, b.kind, len)
           data == [i \in 1..len |-> {job}]
<1>3. IsEnsured(q, E, p, b.slot, b.kind, len) /\ IsEnsured(g, E, f, b.slot, b.kind, len)
  BY <1>1, EnsuredIs, Zenon
<1>4. Alike(q, g, left)
  BY <1>1, AlikeEnsured, Zenon
<1>5. data \in Seq(SUBSET E)
  OBVIOUS
<1>6. /\ EncodeItem(p, b, count, job) = IF b.fills THEN Written(q, b.slot, data) ELSE q
      /\ EncodeItem(f, b, count, job) = IF b.fills THEN Written(g, b.slot, data) ELSE g
  BY <1>2 DEF EncodeItem
<1> HIDE DEF q, g, data
<1>7. q \in Packet(E) /\ g \in Packet(E) /\ b.slot \in Slots(g) /\ q.dirty = TRUE /\ g.dirty = TRUE
  BY <1>3 DEF IsEnsured
<1>8. Alike(Written(q, b.slot, data), Written(g, b.slot, data), left)
  BY <1>4, <1>5, <1>7, AlikeWritten, Zenon
<1> QED
  BY <1>4, <1>6, <1>8

Adds(n, E, s, slot) ==
  \A m \in 1..n : \A x \in Packet(E) : Slots(s[m][x]) = Slots(x) \cup {slot[m]}

Added(p, a, n, slot) == Slots(p) = Slots(a) \cup {slot[i] : i \in 1..n}

LEMMA SlotsGrow ==
  ASSUME NEW n \in Nat, NEW E, NEW a, NEW s, NEW g, NEW slot, IsChain(g, n, Packet(E), a, s), Adds(n, E, s, slot)
  PROVE  Added(g[n], a, n, slot)
<1> DEFINE T == {m \in Nat : m <= n => Slots(g[m]) = Slots(a) \cup {slot[i] : i \in 1..m}}
<1>1. 0 \in T
  BY DEF IsChain
<1>2. ASSUME NEW m \in Nat, m \in T
      PROVE  m + 1 \in T
  <2>1. SUFFICES ASSUME m + 1 <= n
                 PROVE  Slots(g[m + 1]) = Slots(a) \cup {slot[i] : i \in 1..(m + 1)}
    OBVIOUS
  <2> DEFINE k == m + 1
  <2>2. /\ k \in 1..n /\ k - 1 = m /\ m \in 0..n /\ 1..k = (1..m) \cup {k}
        /\ Slots(g[m]) = Slots(a) \cup {slot[i] : i \in 1..m}
    BY <1>2, <2>1
  <2> HIDE DEF k
  <2>3. g[k] = s[k][g[m]] /\ g[m] \in Packet(E)
    BY <2>2 DEF IsChain
  <2>4. Slots(g[k]) = Slots(g[m]) \cup {slot[k]}
    BY <2>2, <2>3 DEF Adds
  <2> QED
    BY <2>2, <2>4 DEF k
<1> HIDE DEF T
<1>3. Nat \subseteq T
  BY <1>1, <1>2, SetInduction
<1> QED
  BY <1>3 DEF T, Added

StaticSlots(plan) == {plan.statics[i].slot : i \in DOMAIN plan.statics}

ItemSlots(items) == {items[i].slot : i \in DOMAIN items}

LEMMA SlotsLoaded ==
  ASSUME NEW E, Static \in E, NEW p \in Packet(E), NEW plan \in PlanType
  PROVE  Slots(LoadedStatics(p, plan)) = Slots(p) \cup StaticSlots(plan)
<1>0. PICK n \in Nat : n = Len(plan.statics)
  BY PlanParts
<1> DEFINE step == LoadSteps(E, plan)
           slot == [i \in 1..n |-> plan.statics[i].slot]
<1>1. DOMAIN plan.statics = 1..n /\ \A i \in 1..n : plan.statics[i] \in StaticType
  BY <1>0, PlanParts
<1>2. PICK g : IsChain(g, n, Packet(E), p, step) /\ g[n] = LoadedStatics(p, plan)
  BY <1>0, LoadedChain DEF Chained
<1>3. \A m \in 1..n : \A x \in Packet(E) : step[m][x] = LoadItem(x, plan.statics[m])
  BY <1>0 DEF LoadSteps
<1>4. \A m \in 1..n : \A x \in Packet(E) : Slots(step[m][x]) = Slots(x) \cup {slot[m]}
  BY <1>1, <1>3, LoadItemIs
<1>5. {slot[i] : i \in 1..n} = StaticSlots(plan)
  BY <1>1 DEF StaticSlots
<1> HIDE DEF step, slot
<1>6. Slots(g[n]) = Slots(p) \cup {slot[i] : i \in 1..n}
  <2>1. IsChain(g, n, Packet(E), p, step) /\ Adds(n, E, step, slot)
    BY <1>2, <1>4 DEF Adds
  <2>2. Added(g[n], p, n, slot)
    BY <2>1, SlotsGrow, Zenon
  <2> QED
    BY <2>2 DEF Added
<1> QED
  BY <1>2, <1>5, <1>6

LEMMA SlotsEncoded ==
  ASSUME NEW E, NEW p \in Packet(E), NEW items \in Seq(ItemType), NEW count \in Nat, NEW job \in E
  PROVE  Slots(Encoded(p, items, count, job)) = Slots(p) \cup ItemSlots(items)
<1>0. PICK n \in Nat : n = Len(items)
  OBVIOUS
<1> DEFINE step == EncodeSteps(E, items, count, job)
           slot == [i \in 1..n |-> items[i].slot]
           base == [p EXCEPT !.count = count]
<1>1. DOMAIN items = 1..n /\ \A i \in 1..n : items[i] \in ItemType
  BY <1>0
<1>2. PICK g : IsChain(g, n, Packet(E), base, step) /\ g[n] = Encoded(p, items, count, job)
  BY <1>0, EncodedChain DEF Chained
<1>3. \A m \in 1..n : \A x \in Packet(E) : step[m][x] = EncodeItem(x, items[m], count, job)
  BY <1>0 DEF EncodeSteps
<1>4. \A m \in 1..n : \A x \in Packet(E) : Slots(step[m][x]) = Slots(x) \cup {slot[m]}
  <2> SUFFICES ASSUME NEW m \in 1..n, NEW x \in Packet(E)
               PROVE  Slots(step[m][x]) = Slots(x) \cup {slot[m]}
    OBVIOUS
  <2>1. PICK b \in ItemType : b = items[m]
    BY <1>1
  <2>2. slot[m] = b.slot
    BY <2>1
  <2> HIDE DEF slot, step, base
  <2>3. /\ EncodeItem(x, b, count, job) \in Packet(E)
        /\ Slots(EncodeItem(x, b, count, job)) = Slots(x) \cup {b.slot}
        /\ EncodeItem(x, b, count, job).count = x.count
    BY EncodeItemIs
  <2> QED
    BY <1>3, <2>1, <2>2, <2>3
<1>5. {slot[i] : i \in 1..n} = ItemSlots(items)
  BY <1>1 DEF ItemSlots
<1>7. Slots(base) = Slots(p)
  BY Counted DEF Slots
<1> HIDE DEF step, slot, base
<1>6. Slots(g[n]) = Slots(base) \cup {slot[i] : i \in 1..n}
  <2>1. IsChain(g, n, Packet(E), base, step) /\ Adds(n, E, step, slot)
    BY <1>2, <1>4 DEF Adds
  <2>2. Added(g[n], base, n, slot)
    BY <2>1, SlotsGrow, Zenon
  <2> QED
    BY <2>2 DEF Added
<1> QED
  BY <1>2, <1>5, <1>6, <1>7

LEMMA AlikeLoaded ==
  ASSUME NEW E, Static \in E, NEW p \in Packet(E), NEW f \in Packet(E), NEW left, Alike(p, f, left),
         NEW plan \in PlanType
  PROVE  Alike(LoadedStatics(p, plan), LoadedStatics(f, plan), left)
<1>0. PICK n \in Nat : n = Len(plan.statics)
  BY PlanParts
<1> DEFINE step == LoadSteps(E, plan)
           R == {z \in Packet(E) \X Packet(E) : Alike(z[1], z[2], left)}
<1>1. DOMAIN plan.statics = 1..n /\ \A i \in 1..n : plan.statics[i] \in StaticType
  BY <1>0, PlanParts
<1>2. PICK g : IsChain(g, n, Packet(E), p, step) /\ g[n] = LoadedStatics(p, plan)
  BY <1>0, LoadedChain DEF Chained
<1>3. PICK h : IsChain(h, n, Packet(E), f, step) /\ h[n] = LoadedStatics(f, plan)
  BY <1>0, LoadedChain DEF Chained
<1>4. \A m \in 1..n : \A x \in Packet(E) : step[m][x] = LoadItem(x, plan.statics[m])
  BY <1>0 DEF LoadSteps
<1>5. \A m \in 1..n : \A x \in Packet(E), y \in Packet(E) :
        Alike(x, y, left) => /\ Alike(step[m][x], step[m][y], left)
                             /\ step[m][x] \in Packet(E) /\ step[m][y] \in Packet(E)
  <2> SUFFICES ASSUME NEW m \in 1..n, NEW x \in Packet(E), NEW y \in Packet(E), Alike(x, y, left)
               PROVE  /\ Alike(step[m][x], step[m][y], left)
                      /\ step[m][x] \in Packet(E) /\ step[m][y] \in Packet(E)
    OBVIOUS
  <2> DEFINE b == plan.statics[m]
  <2>1. b \in StaticType /\ step[m][x] = LoadItem(x, b) /\ step[m][y] = LoadItem(y, b)
    BY <1>1, <1>4
  <2> HIDE DEF b, step
  <2>2. Alike(LoadItem(x, b), LoadItem(y, b), left)
    BY <2>1, AlikeLoad, Zenon
  <2>3. LoadItem(x, b) \in Packet(E) /\ LoadItem(y, b) \in Packet(E)
    BY <2>1, LoadItemIs
  <2> QED
    BY <2>1, <2>2, <2>3
<1>6. \A x, y : <<x, y>> \in R <=> x \in Packet(E) /\ y \in Packet(E) /\ Alike(x, y, left)
  OBVIOUS
<1> HIDE DEF step, R
<1>7. \A m \in 1..n : \A x \in Packet(E), y \in Packet(E) : <<x, y>> \in R => <<step[m][x], step[m][y]>> \in R
  BY <1>5, <1>6
<1>8. <<p, f>> \in R
  BY <1>6
<1>9. <<g[n], h[n]>> \in R
  <2>2. /\ IsChain(g, n, Packet(E), p, step) /\ IsChain(h, n, Packet(E), f, step) /\ n \in Nat
        /\ Relates(R, n, Packet(E), Packet(E), step, step)
    BY <1>2, <1>3, <1>7 DEF Relates
  <2>1. \A m \in 0..n : <<g[m], h[m]>> \in R
    BY <1>8, <2>2, ChainsRelate, Zenon
  <2> QED
    BY <2>1
<1> QED
  BY <1>2, <1>3, <1>6, <1>9

LEMMA AlikeEncoded ==
  ASSUME NEW E, NEW p \in Packet(E), NEW f \in Packet(E), NEW left, Alike(p, f, left),
         NEW items \in Seq(ItemType), NEW count \in Nat, NEW job \in E
  PROVE  Alike(Encoded(p, items, count, job), Encoded(f, items, count, job), left)
<1>0. PICK n \in Nat : n = Len(items)
  OBVIOUS
<1> DEFINE step == EncodeSteps(E, items, count, job)
           R == {z \in Packet(E) \X Packet(E) : Alike(z[1], z[2], left)}
           a == [p EXCEPT !.count = count]
           b == [f EXCEPT !.count = count]
<1>1. DOMAIN items = 1..n /\ \A i \in 1..n : items[i] \in ItemType
  BY <1>0
<1>2. PICK g : IsChain(g, n, Packet(E), a, step) /\ g[n] = Encoded(p, items, count, job)
  BY <1>0, EncodedChain DEF Chained
<1>3. PICK h : IsChain(h, n, Packet(E), b, step) /\ h[n] = Encoded(f, items, count, job)
  BY <1>0, EncodedChain DEF Chained
<1>4. \A m \in 1..n : \A x \in Packet(E) : step[m][x] = EncodeItem(x, items[m], count, job)
  BY <1>0 DEF EncodeSteps
<1>5. \A m \in 1..n : \A x \in Packet(E), y \in Packet(E) :
        Alike(x, y, left) => /\ Alike(step[m][x], step[m][y], left)
                             /\ step[m][x] \in Packet(E) /\ step[m][y] \in Packet(E)
  BY <1>1, <1>4, AlikeEncode, EncodeItemIs
<1>6. \A x, y : <<x, y>> \in R <=> x \in Packet(E) /\ y \in Packet(E) /\ Alike(x, y, left)
  OBVIOUS
<1>c. a \in Packet(E) /\ b \in Packet(E) /\ a.count = b.count /\ a.buffers = p.buffers /\ b.buffers = f.buffers
  <2>1. a \in Packet(E) /\ a.count = count /\ a.buffers = p.buffers
    BY Counted
  <2>2. b \in Packet(E) /\ b.count = count /\ b.buffers = f.buffers
    BY Counted
  <2> QED
    BY <2>1, <2>2
<1> HIDE DEF step, R, a, b
<1>7. \A m \in 1..n : \A x \in Packet(E), y \in Packet(E) : <<x, y>> \in R => <<step[m][x], step[m][y]>> \in R
  BY <1>5, <1>6
<1>8. <<a, b>> \in R
  BY <1>6, <1>c DEF Alike, Slots
<1>9. <<g[n], h[n]>> \in R
  <2>2. /\ IsChain(g, n, Packet(E), a, step) /\ IsChain(h, n, Packet(E), b, step) /\ n \in Nat
        /\ Relates(R, n, Packet(E), Packet(E), step, step)
    BY <1>2, <1>3, <1>7 DEF Relates
  <2>1. \A m \in 0..n : <<g[m], h[m]>> \in R
    BY <1>8, <2>2, ChainsRelate, Zenon
  <2> QED
    BY <2>1
<1> QED
  BY <1>2, <1>3, <1>6, <1>9

LEMMA CountEncoded ==
  ASSUME NEW E, NEW p \in Packet(E), NEW items \in Seq(ItemType), NEW count \in Nat, NEW job \in E
  PROVE  Encoded(p, items, count, job).count = count
<1>0. PICK n \in Nat : n = Len(items)
  OBVIOUS
<1> DEFINE step == EncodeSteps(E, items, count, job)
           R == {q \in Packet(E) : q.count = count}
           base == [p EXCEPT !.count = count]
<1>1. \A i \in 1..n : items[i] \in ItemType
  BY <1>0
<1>2. PICK g : IsChain(g, n, Packet(E), base, step) /\ g[n] = Encoded(p, items, count, job)
  BY <1>0, EncodedChain DEF Chained
<1>3. \A m \in 1..n : \A x \in Packet(E) : step[m][x] = EncodeItem(x, items[m], count, job)
  BY <1>0 DEF EncodeSteps
<1>4. Stays(R, n, Packet(E), step)
  <2>1. ASSUME NEW m \in 1..n, NEW x \in Packet(E), x.count = count
        PROVE  step[m][x] \in Packet(E) /\ step[m][x].count = count
    <3>1. items[m] \in ItemType /\ step[m][x] = EncodeItem(x, items[m], count, job)
      BY <1>1, <1>3
    <3>2. EncodeItem(x, items[m], count, job) \in Packet(E) /\ EncodeItem(x, items[m], count, job).count = x.count
      BY <3>1, EncodeItemIs
    <3> QED
      BY <2>1, <3>1, <3>2
  <2> HIDE DEF step
  <2> QED
    BY <2>1 DEF Stays
<1>5. base \in R
  <2>1. base \in Packet(E) /\ base.count = count
    BY Counted, Zenon
  <2> QED
    BY <2>1
<1> HIDE DEF step, base, R
<1>6. \A m \in 0..n : g[m] \in R
  BY <1>2, <1>4, <1>5, ChainStays, Zenon
<1> QED
  BY <1>2, <1>6 DEF R

LEMMA MinSubset ==
  ASSUME NEW S \in SUBSET Nat, NEW T \in SUBSET S, Min(S) \in T
  PROVE  Min(T) = Min(S)
<1>1. Min(S) \in S /\ \A x \in S : Min(S) <= x
  BY MinOf
<1>2. Min(T) \in T /\ \A x \in T : Min(T) <= x
  BY MinOf
<1>3. Min(T) \in Nat /\ Min(S) \in Nat /\ Min(S) <= Min(T) /\ Min(T) <= Min(S)
  BY <1>1, <1>2
<1> QED
  BY <1>3

SameOrMissing(a, b, n) == \A i \in 1..n : b[i] = a[i] \/ b[i] = "missing buffer"

LEMMA SameFirstError ==
  ASSUME NEW n \in Nat, NEW a \in [1..n -> Errors], NEW b \in [1..n -> Errors], SameOrMissing(a, b, n)
  PROVE  FirstError(b) = FirstError(a) \/ FirstError(b) = "missing buffer"
<1> DEFINE S == {i \in 1..n : b[i] # "none"}
           T == {i \in 1..n : a[i] # "none"}
<1>1. FirstError(b) = IF S = {} THEN "none" ELSE b[Min(S)]
  BY DEF FirstError
<1>2. FirstError(a) = IF T = {} THEN "none" ELSE a[Min(T)]
  BY DEF FirstError
<1>3. S \in SUBSET Nat /\ T \in SUBSET S
  <2>1. S \in SUBSET Nat
    <3>1. S \subseteq 1..n
      BY Zenon
    <3>2. 1..n \subseteq Nat
      OBVIOUS
    <3> QED
      BY <3>1, <3>2, Zenon
  <2>2. ASSUME NEW i \in 1..n, a[i] # "none"
        PROVE  b[i] # "none"
    <3>1. b[i] = a[i] \/ b[i] = "missing buffer"
      BY Zenon DEF SameOrMissing
    <3> QED
      BY <2>2, <3>1
  <2> QED
    BY <2>1, <2>2
<1>4. \A i \in S : i \in 1..n /\ b[i] # "none"
  OBVIOUS
<1>5. \A i \in S : a[i] # "none" => i \in T
  OBVIOUS
<1> HIDE DEF S, T
<1>6. CASE S = {}
  BY <1>1, <1>2, <1>3, <1>6
<1>7. CASE S # {}
  <2> DEFINE i == Min(S)
  <2>1. i \in S
    BY <1>3, <1>7, MinOf
  <2> HIDE DEF i
  <2>2. b[i] = a[i] \/ b[i] = "missing buffer"
    BY <1>4, <2>1, Zenon DEF SameOrMissing
  <2>3. CASE b[i] = a[i]
    <3>1. i \in T
      BY <1>4, <1>5, <2>1, <2>3
    <3>2. Min(T) = i
      BY <1>3, <3>1, MinSubset DEF i
    <3> QED
      BY <1>1, <1>2, <1>7, <2>3, <3>1, <3>2 DEF i
  <2>4. CASE b[i] = "missing buffer"
    BY <1>1, <1>7, <2>4 DEF i
  <2> QED
    BY <2>2, <2>3, <2>4
<1> QED
  BY <1>6, <1>7

(* A new packet may lack a buffer; otherwise a used one has the same.      *)
LEMMA SameKernelErrors ==
  ASSUME NEW p, NEW f, NEW left, Alike(p, f, left), NEW kernel \in KernelType
  PROVE  FirstError(KernelErrors(f, kernel)) \in {FirstError(KernelErrors(p, kernel)), "missing buffer"}
<1> DEFINE slots == kernel.slots
           kind == kernel.kind
           n == Len(kernel.slots)
<1>1. DOMAIN slots = 1..n /\ n \in Nat
  BY DEF KernelType
<1>2. ASSUME NEW s
      PROVE  SliceError(f, s, kind) = SliceError(p, s, kind) \/ SliceError(f, s, kind) = "missing buffer"
  BY DEF SliceError, Alike
<1>3. ASSUME NEW s
      PROVE  \/ GroupsError(f, s, kind, kernel.width) = GroupsError(p, s, kind, kernel.width)
             \/ GroupsError(f, s, kind, kernel.width) = "missing buffer"
  <2>1. CASE s \in Slots(f)
    <3>1. s \in Slots(p) /\ p.buffers[s] = f.buffers[s]
      BY <2>1 DEF Alike
    <3>2. SliceError(f, s, kind) = SliceError(p, s, kind)
      BY <2>1, <3>1 DEF SliceError
    <3> QED
      BY <3>1, <3>2 DEF GroupsError
  <2>2. CASE s \notin Slots(f)
    <3>1. SliceError(f, s, kind) = "missing buffer"
      BY <2>2 DEF SliceError
    <3> QED
      BY <3>1 DEF GroupsError
  <2> QED
    BY <2>1, <2>2
<1>4. SameOrMissing(KernelErrors(p, kernel), KernelErrors(f, kernel), n)
  <2> SUFFICES ASSUME NEW i \in 1..n
               PROVE  \/ KernelErrors(f, kernel)[i] = KernelErrors(p, kernel)[i]
                      \/ KernelErrors(f, kernel)[i] = "missing buffer"
    BY Zenon DEF SameOrMissing
  <2>1. \A q : SliceErrors(q, slots, kind)[i] =
                 IF slots[i] \notin Slots(q) THEN "missing buffer"
                 ELSE IF \E k \in 1..(i - 1) : slots[k] = slots[i] THEN "duplicate slot"
                 ELSE SliceError(q, slots[i], kind)
    BY <1>1 DEF SliceErrors
  <2>2. \A q : GroupErrors(q, slots, kind, kernel.width)[i] = GroupsError(q, slots[i], kind, kernel.width)
    BY <1>1 DEF GroupErrors
  <2>3. CASE kernel.access # "groups"
    <3>1. slots[i] \in Slots(f) => slots[i] \in Slots(p)
      BY DEF Alike
    <3> HIDE DEF slots, kind, n
    <3>2. \/ SliceErrors(f, slots, kind)[i] = SliceErrors(p, slots, kind)[i]
          \/ SliceErrors(f, slots, kind)[i] = "missing buffer"
      BY <1>2, <2>1, <3>1
    <3> QED
      BY <2>3, <3>2 DEF KernelErrors, slots, kind
  <2>4. CASE kernel.access = "groups"
    BY <1>3, <2>2, <2>4 DEF KernelErrors
  <2> QED
    BY <2>3, <2>4
<1>5. KernelErrors(f, kernel) \in [1..n -> Errors] /\ KernelErrors(p, kernel) \in [1..n -> Errors]
  BY KernelErrorsAre
<1> HIDE DEF n
<1>6. \/ FirstError(KernelErrors(f, kernel)) = FirstError(KernelErrors(p, kernel))
      \/ FirstError(KernelErrors(f, kernel)) = "missing buffer"
  BY <1>1, <1>4, <1>5, SameFirstError
<1> QED
  BY <1>6

(* Two runs of the same kernels, the second on a new packet.               *)
SameStep(r, s, left) == s.error = "missing buffer" \/ (r.error = s.error /\ Alike(r.packet, s.packet, left))

LEMMA AlikeWorking ==
  ASSUME NEW E, NEW p \in Packet(E), NEW f \in Packet(E), NEW left, Alike(p, f, left), NEW kernel \in KernelType
  PROVE  Alike(Working(p, kernel), Working(f, kernel), left)
<1>1. p.count = f.count /\ f.count \in Nat /\ kernel.width \in Nat
  BY PacketParts, KernelParts DEF Alike
<1>2. PICK len \in Nat : len = f.count * kernel.width
  BY <1>1
<1>3. Last(kernel.slots) \in SlotId /\ kernel.kind \in Kinds
  BY KernelParts
<1> DEFINE q == Ensured(p, Last(kernel.slots), kernel.kind, len)
           g == Ensured(f, Last(kernel.slots), kernel.kind, len)
<1>4. Alike(q, g, left)
  BY <1>3, AlikeEnsured, Zenon
<1>5. Working(p, kernel) = IF kernel.access = "grow" THEN q ELSE p
  BY <1>1, <1>2 DEF Working
<1>6. Working(f, kernel) = IF kernel.access = "grow" THEN g ELSE f
  BY <1>2 DEF Working
<1> HIDE DEF q, g
<1> QED
  BY <1>4, <1>5, <1>6

LEMMA AlikeKernel ==
  ASSUME NEW E, NEW p \in Packet(E), NEW f \in Packet(E), NEW left, Alike(p, f, left),
         NEW kernel \in KernelType, NEW job \in E
  PROVE  SameStep(KernelRun(p, kernel, job), KernelRun(f, kernel, job), left)
<1> DEFINE q == Working(p, kernel)
           g == Working(f, kernel)
           out == Last(kernel.slots)
           eq == FirstError(KernelErrors(q, kernel))
           eg == FirstError(KernelErrors(g, kernel))
<1>1. q \in Packet(E) /\ g \in Packet(E)
  BY WorkingIs
<1>2. Alike(q, g, left)
  BY AlikeWorking
<1> HIDE DEF q, g
<1>3. eg = eq \/ eg = "missing buffer"
  BY <1>2, SameKernelErrors
<1>4. KernelRun(p, kernel, job) =
        IF eq # "none" THEN [packet |-> q, error |-> eq]
        ELSE IF Outside(q, kernel) THEN [packet |-> q, error |-> "panicked"]
        ELSE [error |-> "none", packet |-> Marked(Written(q, out, Result(q, kernel, job)), kernel)]
  BY KernelRunParts, Zenon DEF q
<1>5. KernelRun(f, kernel, job) =
        IF eg # "none" THEN [packet |-> g, error |-> eg]
        ELSE IF Outside(g, kernel) THEN [packet |-> g, error |-> "panicked"]
        ELSE [error |-> "none", packet |-> Marked(Written(g, out, Result(g, kernel, job)), kernel)]
  BY KernelRunParts, Zenon DEF g
<1> HIDE DEF eq, eg
<1>6. CASE eg # "none"
  <2>1. KernelRun(f, kernel, job) = [packet |-> g, error |-> eg]
    BY <1>5, <1>6
  <2>2. CASE eg = "missing buffer"
    <3>1. KernelRun(f, kernel, job).error = eg
      BY <2>1
    <3> QED
      BY <2>2, <3>1 DEF SameStep
  <2>3. CASE eg = eq
    <3>1. KernelRun(p, kernel, job) = [packet |-> q, error |-> eq]
      BY <1>4, <1>6, <2>3
    <3> QED
      BY <1>2, <2>1, <2>3, <3>1 DEF SameStep
  <2> QED
    BY <1>3, <2>2, <2>3
<1>7. CASE eg = "none"
  <2>0. eq = "none"
    BY <1>3, <1>7
  <2>1. \A i \in 1..Len(kernel.slots) : kernel.slots[i] \in Slots(g)
    <3>1. Len(kernel.slots) \in Nat
      BY KernelParts
    <3>2. KernelErrors(g, kernel) \in [1..Len(kernel.slots) -> Errors]
          /\ \A i \in 1..Len(kernel.slots) :
               KernelErrors(g, kernel)[i] = "none" => kernel.slots[i] \in Slots(g)
      BY KernelErrorsAre
    <3>3. \A i \in 1..Len(kernel.slots) : KernelErrors(g, kernel)[i] = "none"
      BY <1>7, <3>1, <3>2, FirstErrorIs DEF eg
    <3> QED
      BY <3>2, <3>3
  <2>2. out \in Slots(g) /\ \A s \in Inputs(kernel) : s \in Slots(g)
    <3>1. PICK m \in Nat : m = Len(kernel.slots) /\ m # 0
      BY KernelParts
    <3>2. out = kernel.slots[m] /\ Inputs(kernel) = {kernel.slots[i] : i \in 1..(m - 1)}
      BY <3>1, KernelParts
    <3> HIDE DEF out
    <3> QED
      BY <2>1, <3>1, <3>2
  <2>3. q.buffers[out] = g.buffers[out] /\ \A s \in Inputs(kernel) : q.buffers[s] = g.buffers[s]
    BY <1>2, <2>2 DEF Alike
  <2>4. Outside(q, kernel) <=> Outside(g, kernel)
    BY <2>3 DEF Outside
  <2>5. Result(q, kernel, job) = Result(g, kernel, job)
    <3>1. \A i : {q.buffers[s].data[i] : s \in Inputs(kernel)} = {g.buffers[s].data[i] : s \in Inputs(kernel)}
      BY <2>3
    <3> QED
      BY <2>3, <3>1 DEF Result
  <2>6. CASE Outside(g, kernel)
    BY <1>2, <1>4, <1>5, <1>7, <2>0, <2>4, <2>6 DEF SameStep
  <2>7. CASE ~Outside(g, kernel)
    <3>1. /\ KernelRun(p, kernel, job) = [error |-> "none", packet |-> Marked(Written(q, out, Result(q, kernel, job)), kernel)]
          /\ KernelRun(f, kernel, job) = [error |-> "none", packet |-> Marked(Written(g, out, Result(g, kernel, job)), kernel)]
      BY <1>4, <1>5, <1>7, <2>0, <2>4, <2>7
    <3>2. Sound(q, E, kernel, job)
      BY <1>1, <2>0, <2>4, <2>7, ResultIs, Zenon DEF eq
    <3>3. Sound(g, E, kernel, job)
      BY <1>1, <1>7, <2>7, ResultIs, Zenon DEF eg
    <3> DEFINE data == Result(g, kernel, job)
               a == Written(q, out, data)
               b == Written(g, out, data)
    <3>4. data \in Seq(SUBSET E) /\ (q.dirty = TRUE \/ data = <<>>) /\ (g.dirty = TRUE \/ data = <<>>)
          /\ out \in Slots(q)
      BY <2>5, <3>2, <3>3 DEF Sound
    <3> HIDE DEF data, out
    <3>5. Alike(a, b, left)
      BY <1>1, <1>2, <2>2, <3>4, AlikeWritten, Zenon
    <3>6. a \in Packet(E) /\ b \in Packet(E)
      <4>1. IsWritten(a, E, q, out, data) /\ IsWritten(b, E, g, out, data)
        BY <1>1, <2>2, <3>4, WrittenIs, Zenon
      <4> QED
        BY <4>1 DEF IsWritten
    <3> HIDE DEF a, b
    <3>7. Alike(Marked(a, kernel), Marked(b, kernel), left)
      <4>1. /\ Marked(a, kernel).count = a.count /\ Marked(a, kernel).buffers = a.buffers
            /\ Marked(b, kernel).count = b.count /\ Marked(b, kernel).buffers = b.buffers
        BY <3>6, MarkedIs
      <4> QED
        BY <3>5, <4>1 DEF Alike, Slots
    <3>8. /\ KernelRun(p, kernel, job).error = KernelRun(f, kernel, job).error
          /\ KernelRun(p, kernel, job).packet = Marked(a, kernel)
          /\ KernelRun(f, kernel, job).packet = Marked(b, kernel)
      BY <2>5, <3>1 DEF data, a, b
    <3> QED
      BY <3>7, <3>8 DEF SameStep
  <2> QED
    BY <2>6, <2>7
<1> QED
  BY <1>6, <1>7

LEMMA AlikeRuns ==
  ASSUME NEW E, NEW p \in Packet(E), NEW f \in Packet(E), NEW left, Alike(p, f, left),
         NEW kernels \in Seq(KernelType), NEW job \in E
  PROVE  SameStep(KernelsRun(p, kernels, job), KernelsRun(f, kernels, job), left)
<1>0. PICK n \in Nat : n = Len(kernels)
  OBVIOUS
<1> DEFINE step == KernelSteps(E, kernels, job)
           R == {z \in Step(E) \X Step(E) : SameStep(z[1], z[2], left)}
           a == Begun(p)
           b == Begun(f)
<1>1. \A i \in 1..n : kernels[i] \in KernelType
  BY <1>0
<1>2. PICK g : IsChain(g, n, Step(E), a, step) /\ g[n] = KernelsRun(p, kernels, job)
  BY <1>0, KernelsChain DEF Chained
<1>3. PICK h : IsChain(h, n, Step(E), b, step) /\ h[n] = KernelsRun(f, kernels, job)
  BY <1>0, KernelsChain DEF Chained
<1>4. \A m \in 1..n : \A r \in Step(E) : step[m][r] = KernelStep(r, kernels[m], job)
  BY <1>0 DEF KernelSteps
<1>5. ASSUME NEW m \in 1..n, NEW x \in Step(E), NEW y \in Step(E), SameStep(x, y, left)
      PROVE  SameStep(step[m][x], step[m][y], left) /\ step[m][x] \in Step(E) /\ step[m][y] \in Step(E)
  <2> DEFINE kernel == kernels[m]
  <2>1. kernel \in KernelType /\ step[m][x] = KernelStep(x, kernel, job) /\ step[m][y] = KernelStep(y, kernel, job)
    BY <1>1, <1>4
  <2> HIDE DEF kernel, step
  <2>2. x.packet \in Packet(E) /\ y.packet \in Packet(E)
    BY DEF Step
  <2>3. KernelRun(x.packet, kernel, job) \in Step(E) /\ KernelRun(y.packet, kernel, job) \in Step(E)
    BY <2>1, <2>2, KernelRunIs
  <2>4. KernelStep(x, kernel, job) \in Step(E) /\ KernelStep(y, kernel, job) \in Step(E)
    BY <2>3 DEF KernelStep
  <2>5. CASE y.error # "none"
    <3>1. KernelStep(y, kernel, job) = y
      BY <2>5 DEF KernelStep
    <3>2. CASE y.error = "missing buffer"
      BY <2>1, <2>4, <3>1, <3>2 DEF SameStep
    <3>3. CASE x.error = y.error /\ Alike(x.packet, y.packet, left)
      <4>1. KernelStep(x, kernel, job) = x
        BY <2>5, <3>3 DEF KernelStep
      <4> QED
        BY <1>5, <2>1, <3>1, <4>1
    <3> QED
      BY <1>5, <3>2, <3>3 DEF SameStep
  <2>6. CASE y.error = "none"
    <3>1. x.error = y.error /\ Alike(x.packet, y.packet, left)
      BY <1>5, <2>6 DEF SameStep
    <3>2. /\ KernelStep(x, kernel, job) = KernelRun(x.packet, kernel, job)
          /\ KernelStep(y, kernel, job) = KernelRun(y.packet, kernel, job)
      BY <2>6, <3>1 DEF KernelStep
    <3>3. SameStep(KernelRun(x.packet, kernel, job), KernelRun(y.packet, kernel, job), left)
      BY <2>1, <2>2, <3>1, AlikeKernel, Zenon
    <3> QED
      BY <2>1, <2>4, <3>2, <3>3
  <2> QED
    BY <2>5, <2>6
<1>6. \A x, y : <<x, y>> \in R <=> x \in Step(E) /\ y \in Step(E) /\ SameStep(x, y, left)
  OBVIOUS
<1>7. a \in Step(E) /\ b \in Step(E) /\ SameStep(a, b, left)
  BY DEF Begun, Step, SameStep, Errors
<1> HIDE DEF step, R, a, b
<1>8. Relates(R, n, Step(E), Step(E), step, step)
  BY <1>5, <1>6 DEF Relates
<1>9. <<a, b>> \in R
  BY <1>6, <1>7
<1>a. \A m \in 0..n : <<g[m], h[m]>> \in R
  BY <1>2, <1>3, <1>8, <1>9, ChainsRelate, Zenon
<1>b. <<g[n], h[n]>> \in R
  BY <1>a
<1> QED
  BY <1>2, <1>3, <1>6, <1>b

(* What kernels leave has the slots and the count that they began with;    *)
(* with all of their slots there, none is missed.                          *)
KernelSlots(kernels) == UNION {ToSet(kernels[i].slots) : i \in DOMAIN kernels}

Extends(r, p) ==
  /\ Slots(p) \subseteq Slots(r.packet) /\ r.packet.count = p.count

LEMMA KernelFinds ==
  ASSUME NEW E, NEW p \in Packet(E), NEW kernel \in KernelType, NEW job \in E,
         ToSet(kernel.slots) \subseteq Slots(p)
  PROVE  KernelRun(p, kernel, job).error # "missing buffer"
<1> DEFINE q == Working(p, kernel)
           error == FirstError(KernelErrors(q, kernel))
           n == Len(kernel.slots)
<1>1. Slots(p) \subseteq Slots(q)
  BY WorkingIs
<1>2. n \in Nat /\ DOMAIN kernel.slots = 1..n
  BY DEF KernelType
<1>3. \A i \in 1..n : kernel.slots[i] \in Slots(q)
  BY <1>1, <1>2 DEF ToSet
<1> HIDE DEF q
<1>4. ASSUME NEW i \in 1..n
      PROVE  KernelErrors(q, kernel)[i] # "missing buffer"
  <2> DEFINE s == kernel.slots[i]
  <2>0. s \in Slots(q) /\ i \in DOMAIN kernel.slots
    BY <1>2, <1>3
  <2>1. SliceError(q, s, kernel.kind) # "missing buffer"
    BY <2>0 DEF SliceError
  <2>2. GroupsError(q, s, kernel.kind, kernel.width) # "missing buffer"
    BY <2>1 DEF GroupsError
  <2>3. SliceErrors(q, kernel.slots, kernel.kind)[i] # "missing buffer"
    BY <2>0, <2>1 DEF SliceErrors
  <2>4. GroupErrors(q, kernel.slots, kernel.kind, kernel.width)[i] # "missing buffer"
    BY <2>0, <2>2 DEF GroupErrors
  <2> QED
    BY <2>3, <2>4, Zenon DEF KernelErrors
<1>5. error # "missing buffer"
  <2>1. KernelErrors(q, kernel) \in [1..n -> Errors]
    BY KernelErrorsAre
  <2> HIDE DEF n
  <2>2. error = "none" \/ \E i \in 1..n : error = KernelErrors(q, kernel)[i]
    BY <1>2, <2>1, FirstErrorIs
  <2> QED
    BY <1>4, <2>2
<1>6. KernelRun(p, kernel, job) =
        IF error # "none" THEN [packet |-> q, error |-> error]
        ELSE IF Outside(q, kernel) THEN [packet |-> q, error |-> "panicked"]
        ELSE [error |-> "none",
              packet |-> Marked(Written(q, Last(kernel.slots), Result(q, kernel, job)), kernel)]
  BY KernelRunParts, Zenon DEF q
<1> HIDE DEF error
<1>7. KernelRun(p, kernel, job).error \in {error, "panicked", "none"}
  BY <1>6
<1> QED
  BY <1>5, <1>7

LEMMA RunsExtend ==
  ASSUME NEW E, NEW p \in Packet(E), NEW kernels \in Seq(KernelType), NEW job \in E
  PROVE  /\ Extends(KernelsRun(p, kernels, job), p)
         /\ KernelSlots(kernels) \subseteq Slots(p) => KernelsRun(p, kernels, job).error # "missing buffer"
<1>0. PICK n \in Nat : n = Len(kernels)
  OBVIOUS
<1> DEFINE step == KernelSteps(E, kernels, job)
           R == {r \in Step(E) : /\ Extends(r, p)
                                 /\ KernelSlots(kernels) \subseteq Slots(p) => r.error # "missing buffer"}
           a == Begun(p)
<1>1. DOMAIN kernels = 1..n /\ \A i \in 1..n : kernels[i] \in KernelType
  BY <1>0
<1>2. PICK g : IsChain(g, n, Step(E), a, step) /\ g[n] = KernelsRun(p, kernels, job)
  BY <1>0, KernelsChain DEF Chained
<1>4. \A m \in 1..n : \A r \in Step(E) : step[m][r] = KernelStep(r, kernels[m], job)
  BY <1>0 DEF KernelSteps
<1>5. ASSUME NEW m \in 1..n, NEW x \in Step(E), Extends(x, p),
             KernelSlots(kernels) \subseteq Slots(p) => x.error # "missing buffer"
      PROVE  /\ step[m][x] \in Step(E) /\ Extends(step[m][x], p)
             /\ KernelSlots(kernels) \subseteq Slots(p) => step[m][x].error # "missing buffer"
  <2> DEFINE kernel == kernels[m]
  <2>1. kernel \in KernelType /\ step[m][x] = KernelStep(x, kernel, job) /\ ToSet(kernel.slots) \subseteq KernelSlots(kernels)
    BY <1>1, <1>4 DEF KernelSlots
  <2> HIDE DEF kernel, step
  <2>2. x.packet \in Packet(E)
    BY DEF Step
  <2>3. /\ KernelRun(x.packet, kernel, job) \in Step(E)
        /\ Slots(x.packet) \subseteq Slots(KernelRun(x.packet, kernel, job).packet)
        /\ KernelRun(x.packet, kernel, job).packet.count = x.packet.count
    BY <2>1, <2>2, KernelRunIs
  <2>4. CASE x.error # "none"
    BY <1>5, <2>1, <2>4 DEF KernelStep
  <2>5. CASE x.error = "none"
    <3>1. step[m][x] = KernelRun(x.packet, kernel, job)
      BY <2>1, <2>5 DEF KernelStep
    <3>2. Extends(step[m][x], p)
      BY <1>5, <2>3, <3>1 DEF Extends
    <3>3. ASSUME KernelSlots(kernels) \subseteq Slots(p)
          PROVE  KernelRun(x.packet, kernel, job).error # "missing buffer"
      <4>1. ToSet(kernel.slots) \subseteq Slots(x.packet)
        BY <1>5, <2>1, <3>3 DEF Extends
      <4> QED
        BY <2>1, <2>2, <4>1, KernelFinds
    <3> QED
      BY <2>3, <3>1, <3>2, <3>3
  <2> QED
    BY <2>4, <2>5
<1>6. \A x : x \in R <=> /\ x \in Step(E) /\ Extends(x, p)
                         /\ KernelSlots(kernels) \subseteq Slots(p) => x.error # "missing buffer"
  OBVIOUS
<1>7. a \in R
  BY DEF Begun, Step, Extends, Errors
<1> HIDE DEF step, R, a
<1>8. Stays(R, n, Step(E), step)
  BY <1>5, <1>6 DEF Stays
<1>a. \A m \in 0..n : g[m] \in R
  BY <1>2, <1>7, <1>8, ChainStays, Zenon
<1>b. g[n] \in R
  BY <1>a
<1> QED
  BY <1>2, <1>6, <1>b
-----------------------------------------------------------------------------
(* ---- calls on a used packet beside a new one -------------------------- *)

LEMMA SetIs ==
  ASSUME NEW plan
  PROVE  Set(plan) = ItemSlots(plan.encode) \cup StaticSlots(plan)
<1> QED
  BY DEF Set, ItemSlots, StaticSlots

(* A buffer that a used packet has and a new one lacks passes validation   *)
(* if and only if the plan does not declare it, or declares it as it is.   *)
LEMMA SameValidation ==
  ASSUME NEW r, ~Leftover(r), NEW p, NEW f, Alike(p, f, r.left), f.count = r.count,
         Set(Plans[r.plan]) \subseteq Slots(f)
  PROVE  ValidPacket(Plans[r.plan], p) <=> ValidPacket(Plans[r.plan], f)
<1> DEFINE plan == Plans[r.plan]
           Fits(q, s) == IF s \notin Declared(plan) THEN q.buffers[s].data = <<>>
                         ELSE /\ SpecOf(plan, s).kind = q.buffers[s].kind
                              /\ LengthFits(SpecOf(plan, s), q.count, Len(q.buffers[s].data))
<1>1. \A q : ValidPacket(plan, q) <=> \A s \in Slots(q) : Fits(q, s)
  BY DEF ValidPacket
<1>2. p.count = f.count /\ Slots(p) = Slots(f) \cup DOMAIN r.left
  BY DEF Alike
<1>3. ASSUME NEW s \in Slots(f)
      PROVE  Fits(p, s) <=> Fits(f, s)
  <2>1. p.buffers[s] = f.buffers[s]
    BY DEF Alike
  <2> QED
    BY <1>2, <2>1
<1>4. ASSUME NEW s \in DOMAIN r.left, s \notin Slots(f)
      PROVE  Fits(p, s)
  <2>1. p.buffers[s] = Emptied(r.left[s])
    BY <1>4 DEF Alike
  <2>2. p.buffers[s].kind = r.left[s] /\ p.buffers[s].data = <<>> /\ Len(p.buffers[s].data) = 0
    BY <2>1 DEF Emptied
  <2>3. s \in Declared(plan) => SpecOf(plan, s).kind = r.left[s] /\ LengthFits(SpecOf(plan, s), r.count, 0)
    <3>1. s \notin Set(plan)
      BY <1>4
    <3> QED
      BY <3>1 DEF Leftover
  <2> QED
    BY <1>2, <2>2, <2>3
<1> HIDE DEF Fits, plan
<1> QED
  BY <1>1, <1>2, <1>3, <1>4 DEF plan

LEMMA LeftoverRefused ==
  ASSUME NEW r, Leftover(r), NEW p, NEW f, Alike(p, f, r.left), f.count = r.count,
         Slots(f) = Set(Plans[r.plan])
  PROVE  ~ValidPacket(Plans[r.plan], p)
<1> DEFINE plan == Plans[r.plan]
<1>1. PICK s \in DOMAIN r.left \cap (Declared(plan) \ Set(plan)) :
        SpecOf(plan, s).kind # r.left[s] \/ ~LengthFits(SpecOf(plan, s), r.count, 0)
  BY DEF Leftover
<1>2. p.buffers[s] = Emptied(r.left[s]) /\ s \in Slots(p) /\ p.count = r.count
  BY <1>1 DEF Alike
<1>3. p.buffers[s].kind = r.left[s] /\ p.buffers[s].data = <<>> /\ Len(p.buffers[s].data) = 0
  BY <1>2 DEF Emptied
<1>4. ~(/\ SpecOf(plan, s).kind = p.buffers[s].kind
        /\ LengthFits(SpecOf(plan, s), p.count, Len(p.buffers[s].data)))
  BY <1>1, <1>2, <1>3
<1> QED
  BY <1>1, <1>2, <1>4 DEF ValidPacket

(* The values that Reference goes through, for a build dbg.                *)
Check(dbg, plan, r) ==
  IF r.error = "none" /\ (dbg /\ ~ValidPacket(plan, r.packet)) THEN [r EXCEPT !.error = "refused"] ELSE r

Fresh(v, count, job) == Encoded(LoadedStatics(NewPacket, Plans[v]), Plans[v].encode, count, job)

RefBase(dbg, v, count, job) == Check(dbg, Plans[v], Begun(Fresh(v, count, job)))

RefStep(dbg, v, kernels, r, job) ==
  IF r.error = "none" THEN Check(dbg, Plans[v], KernelsRun(r.packet, kernels, job)) ELSE r

RefSteps(dbg, v, job) ==
  [i \in 1..Len(Plans[v].stages) |-> [r \in Step({Static, job}) |-> RefStep(dbg, v, Plans[v].stages[i], r, job)]]

IsReference(g, dbg, v, count, job) ==
  IsChain(g, Len(Plans[v].stages), Step({Static, job}), RefBase(dbg, v, count, job), RefSteps(dbg, v, job))

Conclusion(g, v, one) ==
  LET end == g[Len(Plans[v].stages)]
  IN  IF end.error = "none" THEN Decoded(end.packet, Plans[v], one) ELSE Failure(end.error)

LEMMA CheckIs ==
  ASSUME NEW E, NEW dbg, NEW plan, NEW r \in Step(E)
  PROVE  /\ Check(dbg, plan, r) \in Step(E) /\ Check(dbg, plan, r).packet = r.packet
         /\ Check(dbg, plan, r) = r \/ Check(dbg, plan, r).error = "refused"
         /\ r.error # "none" => Check(dbg, plan, r) = r
         /\ ~(dbg /\ ~ValidPacket(plan, r.packet)) => Check(dbg, plan, r) = r
         /\ r.error = "none" /\ dbg /\ ~ValidPacket(plan, r.packet) => Check(dbg, plan, r).error = "refused"
<1> DEFINE p == r.packet
           error == r.error
<1>1. p \in Packet(E) /\ error \in Errors /\ r = [packet |-> p, error |-> error]
  BY DEF Step
<1> HIDE DEF p, error
<1>2. [r EXCEPT !.error = "refused"] = [packet |-> p, error |-> "refused"]
  BY <1>1
<1>3. [packet |-> p, error |-> "refused"] \in Step(E)
  BY <1>1 DEF Step, Errors
<1>4. p = r.packet /\ error = r.error
  BY DEF p, error
<1>5. CASE r.error = "none" /\ dbg /\ ~ValidPacket(plan, r.packet)
  BY <1>2, <1>3, <1>4, <1>5 DEF Check
<1>6. CASE ~(r.error = "none" /\ dbg /\ ~ValidPacket(plan, r.packet))
  BY <1>6 DEF Check
<1> QED
  BY <1>5, <1>6

LEMMA FreshIs ==
  ASSUME NEW v \in Versions, NEW count \in {1, 2}, NEW job \in Jobs
  PROVE  /\ Fresh(v, count, job) \in Packet({Static, job})
         /\ Slots(Fresh(v, count, job)) = Set(Plans[v]) /\ Fresh(v, count, job).count = count
         /\ LoadedStatics(NewPacket, Plans[v]) \in Packet({Static, job})
<1> DEFINE plan == Plans[v]
           E == {Static, job}
           loaded == LoadedStatics(NewPacket, plan)
<1>1. plan \in PlanType /\ plan.encode \in Seq(ItemType) /\ count \in Nat /\ Static \in E /\ job \in E
  BY VersionParts, PlanParts
<1>2. NewPacket \in Packet(E) /\ Slots(NewPacket) = {}
  <2>1. NewPacket \in Packet({})
    BY NewIsBlank DEF Blank
  <2> QED
    BY <2>1, PacketMono DEF NewPacket, Slots
<1> HIDE DEF plan, E
<1>3. loaded \in Packet(E) /\ Slots(loaded) = StaticSlots(plan)
  <2>1. Slots(loaded) = Slots(NewPacket) \cup StaticSlots(plan)
    BY <1>1, <1>2, SlotsLoaded
  <2>2. loaded \in Packet(E)
    BY <1>1, <1>2, LoadedIs
  <2> QED
    BY <1>2, <2>1, <2>2
<1> HIDE DEF loaded
<1> DEFINE fresh == Encoded(loaded, plan.encode, count, job)
<1>4. fresh \in Packet(E) /\ Slots(fresh) = Slots(loaded) \cup ItemSlots(plan.encode) /\ fresh.count = count
  BY <1>1, <1>3, EncodedIs, SlotsEncoded, CountEncoded
<1> QED
  BY <1>3, <1>4, SetIs DEF Fresh, loaded, plan, E

LEMMA RefStepIs ==
  ASSUME NEW dbg, NEW v \in Versions, NEW job \in Jobs, NEW kernels \in Seq(KernelType), NEW r \in Step({Static, job})
  PROVE  RefStep(dbg, v, kernels, r, job) \in Step({Static, job})
<1> DEFINE E == {Static, job}
<1>1. job \in E /\ r.packet \in Packet(E)
  BY DEF Step
<1> HIDE DEF E
<1>2. KernelsRun(r.packet, kernels, job) \in Step(E)
  BY <1>1, KernelsRunIs
<1>3. Check(dbg, Plans[v], KernelsRun(r.packet, kernels, job)) \in Step(E)
  BY <1>2, CheckIs
<1> QED
  BY <1>3 DEF RefStep, E

LEMMA RefBaseIs ==
  ASSUME NEW dbg, NEW v \in Versions, NEW count \in {1, 2}, NEW job \in Jobs
  PROVE  RefBase(dbg, v, count, job) \in Step({Static, job}) /\ Begun(Fresh(v, count, job)) \in Step({Static, job})
<1>1. Fresh(v, count, job) \in Packet({Static, job})
  BY FreshIs
<1>2. Begun(Fresh(v, count, job)) \in Step({Static, job})
  BY <1>1 DEF Begun, Step, Errors
<1> QED
  BY <1>2, CheckIs DEF RefBase

(* Reference is where such a chain ends, and there is only one.            *)
LEMMA ReferenceChain ==
  ASSUME NEW v \in Versions, NEW count \in {1, 2}, NEW one \in BOOLEAN, NEW job \in Jobs
  PROVE  \E g : IsReference(g, debug, v, count, job) /\ Reference(v, count, one, job) = Conclusion(g, v, one)
<1> DEFINE plan == Plans[v]
           E == {Static, job}
           base == RefBase(debug, v, count, job)
           step == RefSteps(debug, v, job)
           h == CHOOSE f : f = [t \in SUBSET (DOMAIN plan.stages) |->
                                  IF t = {} THEN base
                                  ELSE RefStep(debug, v, plan.stages[Max(t)], f[t \ {Max(t)}], job)]
           end == h[DOMAIN plan.stages]
<1>p. plan \in PlanType /\ plan.stages \in Seq(Seq(KernelType))
  BY VersionParts, PlanParts
<1>0. PICK n \in Nat : n = Len(plan.stages)
  BY <1>p
<1>1. DOMAIN plan.stages = 1..n /\ (\A i \in 1..n : plan.stages[i] \in Seq(KernelType)) /\ base \in Step(E)
  <2>1. base \in Step(E)
    BY RefBaseIs, Zenon
  <2> HIDE DEF base, E, plan
  <2>2. DOMAIN plan.stages = 1..n /\ \A i \in 1..n : plan.stages[i] \in Seq(KernelType)
    BY <1>0, <1>p
  <2> QED
    BY <2>1, <2>2
<1>3. Reference(v, count, one, job)
        = IF end.error = "none" THEN Decoded(end.packet, plan, one) ELSE Failure(end.error)
  BY Zenon DEF Reference, Refused, FoldLeft, MapThenFoldSet, RefStep, RefBase, Check, Begun, Fresh
<1>a. \A i \in 1..n : \A r \in Step(E) : RefStep(debug, v, plan.stages[i], r, job) \in Step(E)
  BY <1>1, RefStepIs
<1>2. step \in [1..n -> [Step(E) -> Step(E)]]
      /\ \A i \in 1..n : \A r \in Step(E) : step[i][r] = RefStep(debug, v, plan.stages[i], r, job)
  BY <1>0, <1>a DEF RefSteps
<1> HIDE DEF step, base, E
<1>4. Folds(n, Step(E), base, step)
  BY <1>1, <1>2, FoldExists
<1>5. PICK f \in [SUBSET (1..n) -> Step(E)] : IsFold(f, n, base, step)
  BY <1>4 DEF Folds
<1>6. \A t \in SUBSET (1..n) : t # {} => Max(t) \in 1..n /\ t \ {Max(t)} \in SUBSET (1..n)
  BY <1>1, MaxOf
<1>7. f = [t \in SUBSET (1..n) |-> IF t = {} THEN base
                                   ELSE RefStep(debug, v, plan.stages[Max(t)], f[t \ {Max(t)}], job)]
  <2>1. ASSUME NEW t \in SUBSET (1..n)
        PROVE  f[t] = IF t = {} THEN base ELSE RefStep(debug, v, plan.stages[Max(t)], f[t \ {Max(t)}], job)
    BY <1>2, <1>5, <1>6 DEF IsFold
  <2> QED
    BY <1>5, <2>1
<1>8. h = [t \in SUBSET (1..n) |-> IF t = {} THEN base
                                   ELSE RefStep(debug, v, plan.stages[Max(t)], h[t \ {Max(t)}], job)]
  BY <1>1, <1>7
<1> HIDE DEF h
<1>9. h[{}] = base
  BY <1>8
<1>b. \A s \in SUBSET (1..n) : s # {} /\ h[s \ {Max(s)}] \in Step(E) => h[s] = step[Max(s)][h[s \ {Max(s)}]]
  <2> SUFFICES ASSUME NEW s \in SUBSET (1..n), s # {}, h[s \ {Max(s)}] \in Step(E)
               PROVE  h[s] = step[Max(s)][h[s \ {Max(s)}]]
    OBVIOUS
  <2> DEFINE m == Max(s)
             r == h[s \ {m}]
  <2>1. m \in 1..n
    BY <1>6
  <2>2. h[s] = RefStep(debug, v, plan.stages[m], r, job)
    BY <1>8
  <2> HIDE DEF m, r
  <2>3. step[m][r] = RefStep(debug, v, plan.stages[m], r, job)
    BY <1>2, <2>1 DEF m, r
  <2> QED
    BY <2>2, <2>3 DEF m, r
<1>c. base \in Step(E) /\ step \in [1..n -> [Step(E) -> Step(E)]]
  BY <1>1, <1>2
<1>d. Chained(h[1..n], n, Step(E), base, step)
  BY <1>9, <1>b, <1>c, FoldChain, Zenon
<1>e. PICK g : IsChain(g, n, Step(E), base, step) /\ g[n] = h[1..n]
  BY <1>d DEF Chained
<1>f. IsReference(g, debug, v, count, job)
  BY <1>0, <1>e DEF IsReference, base, step, E
<1>g. Reference(v, count, one, job) = Conclusion(g, v, one)
  BY <1>0, <1>1, <1>3, <1>e DEF Conclusion
<1> QED
  BY <1>f, <1>g

StageCount(v, n) == n \in Nat /\ n = Len(Plans[v].stages)

Replay(g, dbg, v, count, job, n) ==
  /\ \A m \in 0..n : g[m] \in Step({Static, job})
  /\ g[0] = RefBase(dbg, v, count, job)
  /\ \A m \in 1..n : g[m] = RefStep(dbg, v, Plans[v].stages[m], g[m - 1], job)

LEMMA ReferenceParts ==
  ASSUME NEW g, NEW dbg, NEW v \in Versions, NEW count, NEW job \in Jobs, IsReference(g, dbg, v, count, job),
         NEW n, StageCount(v, n)
  PROVE  Replay(g, dbg, v, count, job, n)
<1> DEFINE E == {Static, job}
           step == RefSteps(dbg, v, job)
<1>n. n \in Nat /\ n = Len(Plans[v].stages)
  BY DEF StageCount
<1>1. IsChain(g, n, Step(E), RefBase(dbg, v, count, job), step)
  BY <1>n DEF IsReference
<1>2. \A m \in 1..n : \A r \in Step(E) : step[m][r] = RefStep(dbg, v, Plans[v].stages[m], r, job)
  BY <1>n DEF RefSteps
<1> HIDE DEF E, step
<1>3. (\A m \in 0..n : g[m] \in Step(E)) /\ g[0] = RefBase(dbg, v, count, job)
      /\ \A m \in 1..n : g[m] = step[m][g[m - 1]]
  BY <1>1 DEF IsChain
<1>4. ASSUME NEW m \in 1..n
      PROVE  g[m] = RefStep(dbg, v, Plans[v].stages[m], g[m - 1], job)
  <2>1. m - 1 \in 0..n
    BY <1>n
  <2>2. g[m - 1] \in Step(E) /\ g[m] = step[m][g[m - 1]]
    BY <1>3, <2>1
  <2> QED
    BY <1>2, <2>2
<1> QED
  BY <1>3, <1>4 DEF E, Replay

LEMMA ReferenceUnique ==
  ASSUME NEW dbg, NEW v \in Versions, NEW count \in {1, 2}, NEW job \in Jobs,
         NEW g, IsReference(g, dbg, v, count, job), NEW h, IsReference(h, dbg, v, count, job)
  PROVE  g[Len(Plans[v].stages)] = h[Len(Plans[v].stages)]
<1>0. PICK n \in Nat : n = Len(Plans[v].stages)
  BY VersionParts, PlanParts
<1> DEFINE S == Step({Static, job})
           base == RefBase(dbg, v, count, job)
           step == RefSteps(dbg, v, job)
           R == {z \in S \X S : z[1] = z[2]}
<1>1. IsChain(g, n, S, base, step) /\ IsChain(h, n, S, base, step)
  BY <1>0 DEF IsReference
<1>2. \A m \in 1..n : \A r \in S : step[m][r] \in S
  <2>1. \A m \in 1..n : Plans[v].stages[m] \in Seq(KernelType)
    BY <1>0, VersionParts, PlanParts
  <2>2. \A m \in 1..n : \A r \in S : step[m][r] = RefStep(dbg, v, Plans[v].stages[m], r, job)
    BY <1>0 DEF RefSteps
  <2> QED
    <3> HIDE DEF step, S
    <3>1. ASSUME NEW m \in 1..n, NEW r \in S
          PROVE  step[m][r] \in S
      <4>1. RefStep(dbg, v, Plans[v].stages[m], r, job) \in S
        BY <2>1, RefStepIs DEF S
      <4> QED
        BY <2>2, <4>1
    <3> QED
      BY <3>1
<1>3. \A x, y : <<x, y>> \in R <=> x \in S /\ x = y
  OBVIOUS
<1>4. base \in S
  BY RefBaseIs
<1> HIDE DEF S, base, step, R
<1>5. Relates(R, n, S, S, step, step)
  BY <1>2, <1>3 DEF Relates
<1>6. <<base, base>> \in R
  BY <1>3, <1>4
<1>7. \A m \in 0..n : <<g[m], h[m]>> \in R
  BY <1>1, <1>5, <1>6, ChainsRelate, Zenon
<1>8. <<g[n], h[n]>> \in R
  BY <1>7
<1> QED
  BY <1>0, <1>3, <1>8

(* What fails stays as it is.                                              *)
LEMMA ErrorStays ==
  ASSUME NEW g, NEW dbg, NEW v \in Versions, NEW count, NEW job \in Jobs, IsReference(g, dbg, v, count, job),
         NEW n \in Nat, StageCount(v, n), NEW m \in 0..n, g[m].error # "none"
  PROVE  g[n] = g[m]
<1>1. \A i \in 1..n : g[i] = RefStep(dbg, v, Plans[v].stages[i], g[i - 1], job)
  <2>1. Replay(g, dbg, v, count, job, n)
    BY ReferenceParts, Zenon
  <2> QED
    BY <2>1 DEF Replay
<1> DEFINE T == {k \in Nat : m + k <= n => g[m + k] = g[m]}
<1>2. 0 \in T
  OBVIOUS
<1>3. ASSUME NEW k \in Nat, k \in T
      PROVE  k + 1 \in T
  <2>1. SUFFICES ASSUME m + (k + 1) <= n
                 PROVE  g[m + (k + 1)] = g[m]
    OBVIOUS
  <2> DEFINE i == m + (k + 1)
  <2>2. i \in 1..n /\ i - 1 = m + k /\ g[m + k] = g[m]
    BY <1>3, <2>1
  <2> HIDE DEF i, T
  <2>3. g[i] = RefStep(dbg, v, Plans[v].stages[i], g[m], job)
    BY <1>1, <2>2
  <2> QED
    BY <2>3 DEF RefStep, i
<1> HIDE DEF T
<1>4. Nat \subseteq T
  BY <1>2, <1>3, SetInduction
<1>5. n - m \in Nat /\ m + (n - m) = n
  OBVIOUS
<1>6. m + (n - m) <= n => g[m + (n - m)] = g[m]
  BY <1>4, <1>5 DEF T
<1> QED
  BY <1>5, <1>6

Fails(g, v, one, error) == Conclusion(g, v, one) = Failure(error)

LEMMA Concludes ==
  ASSUME NEW g, NEW dbg, NEW v \in Versions, NEW count, NEW one, NEW job \in Jobs, IsReference(g, dbg, v, count, job),
         NEW n \in Nat, StageCount(v, n), NEW m \in 0..n, g[m].error # "none"
  PROVE  Fails(g, v, one, g[m].error)
<1>1. g[n] = g[m]
  BY ErrorStays
<1> QED
  BY <1>1 DEF Conclusion, StageCount, Fails

(* What a running call has of the reference, and what an ended one says.   *)
Standing(p, r, s) ==
  \/ s.error = "missing buffer"
  \/ /\ s.error = "none" /\ Alike(p, s.packet, r.left)
     /\ Set(Plans[r.plan]) \subseteq Slots(s.packet) /\ s.packet.count = r.count

Tells(g, dbg, r, outcome) ==
  IF dbg /\ Leftover(r) THEN outcome = Failure("refused")
  ELSE outcome = Conclusion(g, r.plan, r.one) \/ Conclusion(g, r.plan, r.one).error = "missing buffer"

Faithful(dbg, r) ==
  \E g : /\ IsReference(g, dbg, r.plan, r.count, r.job)
         /\ IF r.phase = "runs"
            THEN ~r.context.cancel /\ ~(dbg /\ Leftover(r)) /\ Standing(r.context.packet, r, g[r.stage - 1])
            ELSE Tells(g, dbg, r, r.outcome)

(* How a stage ends, for a call that stands where the reference does.      *)
Matches(g, dbg, r, result) ==
  LET end == Conclusion(g, r.plan, r.one)
      refused == dbg /\ ~ValidPacket(Plans[r.plan], result.packet)
  IN  \/ end.error = "missing buffer" /\ g[r.stage].error = "missing buffer"
      \/ result.error # "none" /\ end = Failure(result.error)
      \/ result.error = "none" /\ refused /\ end = Failure("refused")
      \/ result.error = "none" /\ ~refused /\ Standing(result.packet, r, g[r.stage])

LEMMA ReferenceStep ==
  ASSUME NEW g, NEW dbg, NEW r \in Call, r.stage <= Len(Stages(r)),
         IsReference(g, dbg, r.plan, r.count, r.job), ~(dbg /\ Leftover(r)),
         Standing(r.context.packet, r, g[r.stage - 1])
  PROVE  Matches(g, dbg, r, KernelsRun(r.context.packet, Stages(r)[r.stage], r.job))
<1> DEFINE v == r.plan
           job == r.job
           m == r.stage
           p == r.context.packet
           kernels == Stages(r)[m]
           result == KernelsRun(p, kernels, job)
           E == {Static, job}
           s == g[m - 1]
           k == KernelsRun(s.packet, kernels, job)
           plan == Plans[v]
           end == Conclusion(g, v, r.one)
<1>1. IsCall(r)
  BY CallParts
<1>2. v \in Versions /\ job \in Jobs /\ r.context \in Context(E) /\ job \in E
  BY <1>1 DEF IsCall
<1>3. p \in Packet(E)
  BY <1>2, ContextParts
<1>4. PICK n \in Nat : n = Len(Stages(r))
  BY <1>2, VersionParts, PlanParts DEF Stages
<1>5. StageCount(v, n)
  BY <1>4 DEF StageCount, Stages
<1>6. m \in 1..n /\ m \in 0..n /\ m - 1 \in 0..n
  BY <1>1, <1>4 DEF IsCall, Stages
<1>7. Replay(g, dbg, v, r.count, job, n)
  BY <1>2, <1>5, ReferenceParts, Zenon
<1>8. s \in Step(E) /\ g[m] = RefStep(dbg, v, kernels, s, job)
  <2> HIDE DEF m, E
  <2>1. g[m - 1] \in Step({Static, job}) /\ g[m] = RefStep(dbg, v, Plans[v].stages[m], g[m - 1], job)
    BY <1>6, <1>7 DEF Replay
  <2> QED
    BY <2>1 DEF E, Stages
<1>9. kernels \in Seq(KernelType)
  <2>1. Stages(r) \in Seq(Seq(KernelType))
    BY <1>2, VersionParts, PlanParts DEF Stages
  <2> QED
    BY <1>4, <1>6, <2>1
<1>a. Standing(p, r, s) /\ IsReference(g, dbg, v, r.count, job)
  OBVIOUS
<1>r. Matches(g, dbg, r, result) <=>
        \/ end.error = "missing buffer" /\ g[m].error = "missing buffer"
        \/ result.error # "none" /\ end = Failure(result.error)
        \/ result.error = "none" /\ (dbg /\ ~ValidPacket(plan, result.packet)) /\ end = Failure("refused")
        \/ result.error = "none" /\ ~(dbg /\ ~ValidPacket(plan, result.packet)) /\ Standing(result.packet, r, g[m])
  BY Zenon DEF Matches
<1>t. \A q, t : Standing(q, r, t) <=>
        \/ t.error = "missing buffer"
        \/ /\ t.error = "none" /\ Alike(q, t.packet, r.left)
           /\ Set(plan) \subseteq Slots(t.packet) /\ t.packet.count = r.count
  BY Zenon DEF Standing
<1>f. g[m].error # "none" => end = Failure(g[m].error) /\ end.error = g[m].error
  <2> HIDE DEF v, job, m, end
  <2>1. ASSUME g[m].error # "none"
        PROVE  Fails(g, v, r.one, g[m].error)
    <3>1. v \in Versions /\ job \in Jobs /\ n \in Nat /\ StageCount(v, n) /\ m \in 0..n
          /\ IsReference(g, dbg, v, r.count, job) /\ g[m].error # "none"
      BY <1>2, <1>5, <1>6, <1>a, <2>1
    <3> QED
      BY <3>1, Concludes, Zenon
  <2> QED
    BY <2>1 DEF end, Fails, Failure
<1> HIDE DEF v, job, m, p, kernels, E, s, end, plan
<1>b. CASE s.error = "missing buffer"
  <2>1. g[m] = s
    BY <1>8, <1>b DEF RefStep
  <2> QED
    BY <1>b, <1>f, <1>r, <2>1 DEF result, p, kernels, m, job
<1>c. CASE s.error # "missing buffer"
  <2>1. /\ s.error = "none" /\ Alike(p, s.packet, r.left)
        /\ Set(plan) \subseteq Slots(s.packet) /\ s.packet.count = r.count
    BY <1>a, <1>c, <1>t
  <2>2. s.packet \in Packet(E)
    BY <1>8 DEF Step
  <2>3. result \in Step(E) /\ k \in Step(E)
    BY <1>2, <1>3, <1>9, <2>2, KernelsRunIs
  <2>4. SameStep(result, k, r.left)
    BY <1>2, <1>3, <1>9, <2>1, <2>2, AlikeRuns
  <2>5. Extends(k, s.packet)
    BY <1>2, <1>9, <2>2, RunsExtend
  <2>6. g[m] = Check(dbg, plan, k)
    BY <1>8, <2>1 DEF RefStep, plan
  <2> HIDE DEF result, k
  <2>7. /\ g[m].packet = k.packet
        /\ k.error # "none" => g[m] = k
        /\ ~(dbg /\ ~ValidPacket(plan, k.packet)) => g[m] = k
        /\ k.error = "none" /\ dbg /\ ~ValidPacket(plan, k.packet) => g[m].error = "refused"
    BY <2>3, <2>6, CheckIs
  <2>8. CASE k.error = "missing buffer"
    BY <1>f, <1>r, <2>7, <2>8 DEF result, p, kernels, m, job
  <2>9. CASE k.error # "missing buffer"
    <3>1. result.error = k.error /\ Alike(result.packet, k.packet, r.left)
      BY <2>4, <2>9 DEF SameStep
    <3>2. CASE k.error # "none"
      BY <1>f, <1>r, <2>7, <3>1, <3>2 DEF result, p, kernels, m, job
    <3>3. CASE k.error = "none"
      <4>1. Set(plan) \subseteq Slots(k.packet) /\ k.packet.count = r.count
        BY <2>1, <2>5 DEF Extends
      <4>2. dbg => (ValidPacket(plan, result.packet) <=> ValidPacket(plan, k.packet))
        BY <3>1, <4>1, SameValidation DEF plan, v
      <4>3. CASE dbg /\ ~ValidPacket(plan, result.packet)
        <5>1. g[m].error = "refused"
          BY <2>7, <3>3, <4>2, <4>3
        <5>2. end = Failure("refused")
          BY <1>f, <5>1
        <5> QED
          BY <1>r, <3>1, <3>3, <4>3, <5>2 DEF result, p, kernels, m, job
      <4>4. CASE ~(dbg /\ ~ValidPacket(plan, result.packet))
        <5>1. g[m] = k
          BY <2>7, <4>2, <4>4
        <5>2. Standing(result.packet, r, g[m])
          BY <1>t, <3>1, <3>3, <4>1, <5>1
        <5> QED
          BY <1>r, <3>1, <3>3, <4>4, <5>2 DEF result, p, kernels, m, job
      <4> QED
        BY <4>3, <4>4
    <3> QED
      BY <3>2, <3>3
  <2> QED
    BY <2>8, <2>9
<1> QED
  BY <1>b, <1>c

LEMMA EndsFaithfully ==
  ASSUME NEW g, NEW dbg, NEW r, IsReference(g, dbg, r.plan, r.count, r.job),
         NEW outcome, Tells(g, dbg, r, outcome), NEW s, EndOf(s, r, outcome)
  PROVE  Faithful(dbg, s)
<1>1. /\ s.phase # "runs" /\ s.outcome = outcome /\ s.plan = r.plan /\ s.count = r.count /\ s.one = r.one
      /\ s.job = r.job /\ s.left = r.left
  BY DEF EndOf
<1>2. Leftover(s) <=> Leftover(r)
  BY <1>1 DEF Leftover
<1>3. Tells(g, dbg, s, s.outcome)
  BY <1>1, <1>2 DEF Tells
<1> QED
  BY <1>1, <1>3 DEF Faithful

LEMMA FaithfulParts ==
  ASSUME NEW dbg, NEW r, Faithful(dbg, r), r.phase = "runs"
  PROVE  \E g : /\ IsReference(g, dbg, r.plan, r.count, r.job) /\ ~r.context.cancel /\ ~(dbg /\ Leftover(r))
                /\ Standing(r.context.packet, r, g[r.stage - 1])
<1> QED
  BY DEF Faithful

Replayed == \A c \in Callers : run[c].phase # "idle" /\ ~run[c].faulty => Faithful(debug, run[c])

(* One call changes.                                                       *)
LEMMA ReplayedKept ==
  ASSUME Held, Replayed, NEW c \in Callers, NEW s, run' = [run EXCEPT ![c] = s], debug' = debug,
         s.phase # "idle" /\ ~s.faulty => Faithful(debug, s)
  PROVE  Replayed'
<1> SUFFICES ASSUME NEW d \in Callers, run'[d].phase # "idle", ~run'[d].faulty
             PROVE  Faithful(debug', run'[d])
  BY DEF Replayed
<1>0. run'[d] = IF d = c THEN s ELSE run[d]
  BY DEF Held
<1>1. CASE d = c
  <2>1. run'[d] = s
    BY <1>0, <1>1
  <2>2. Faithful(debug, s)
    BY <2>1
  <2> QED
    BY <2>1, <2>2
<1>2. CASE d # c
  <2>1. run'[d] = run[d]
    BY <1>0, <1>2
  <2>2. Faithful(debug, run[d])
    BY <2>1 DEF Replayed
  <2> QED
    BY <2>1, <2>2
<1> QED
  BY <1>1, <1>2

LEMMA EndKept ==
  ASSUME Held, Replayed, NEW c \in Callers, debug' = debug, NEW r, NEW outcome, EndsWith(c, r, outcome),
         r.faulty \/ \E g : IsReference(g, debug, r.plan, r.count, r.job) /\ Tells(g, debug, r, outcome)
  PROVE  Replayed'
<1>1. PICK s : EndOf(s, r, outcome) /\ run' = [run EXCEPT ![c] = s]
  BY DEF EndsWith
<1>2. s.faulty = r.faulty
  BY <1>1 DEF EndOf
<1>3. ~s.faulty => Faithful(debug, s)
  BY <1>1, <1>2, EndsFaithfully
<1> QED
  BY <1>1, <1>3, ReplayedKept

LEMMA BlamesKept ==
  ASSUME Held, Replayed, NEW c \in Callers, debug' = debug, Blames(c)
  PROVE  Replayed'
<1>1. PICK s : s.faulty /\ run' = [run EXCEPT ![c] = s]
  BY DEF Blames
<1> QED
  BY <1>1, ReplayedKept

LEMMA StageNumber ==
  ASSUME NEW r \in Call
  PROVE  /\ (r.stage + 1) - 1 = r.stage
         /\ r.stage > Len(Stages(r)) => r.stage - 1 = Len(Stages(r))
<1>1. IsCall(r)
  BY CallParts
<1>2. PICK n \in Nat : n = Len(Plans[r.plan].stages)
  BY <1>1, VersionParts, PlanParts DEF IsCall
<1>3. PICK m \in 1..(n + 1) : m = r.stage
  BY <1>1, <1>2 DEF IsCall
<1>4. (m + 1) - 1 = m /\ (m > n => m - 1 = n)
  OBVIOUS
<1> QED
  BY <1>2, <1>3, <1>4 DEF Stages

LEMMA StageReplayed ==
  ASSUME Held, Replayed, NEW c \in Callers, Stage(c)
  PROVE  Replayed'
<1> DEFINE r == run[c]
           result == KernelsRun(r.context.packet, Stages(r)[r.stage], r.job)
           plan == Plans[r.plan]
<1>1. /\ r \in Call /\ r.phase = "runs" /\ r.stage <= Len(Stages(r))
      /\ result \in Step({Static, r.job})
      /\ \/ r.context.cancel = TRUE /\ EndsWith(c, r, Failure("cancelled"))
         \/ result.error # "none" /\ EndsWith(c, r, Failure(result.error))
         \/ result.error = "none" /\ Refused(plan, result.packet) /\ EndsWith(c, r, Failure("refused"))
         \/ result.error = "none" /\ ~Refused(plan, result.packet) /\ Continues(c, r, result.packet)
      /\ UNCHANGED <<debug, packets, contexts, own, jobs>>
  BY StageCases
<1>2. debug' = debug
  BY <1>1
<1>3. CASE r.faulty
  <2>1. ASSUME NEW outcome, EndsWith(c, r, outcome)
        PROVE  Replayed'
    BY <1>2, <1>3, <2>1, EndKept
  <2>2. ASSUME NEW p, Continues(c, r, p)
        PROVE  Replayed'
    <3>1. PICK s : /\ run' = [run EXCEPT ![c] = s]
                   /\ s = Record(r.phase, r.mode, r.plan, r.count, r.one, r.job, r.stage + 1,
                                 [packet |-> p, scratch |-> r.context.scratch, cancel |-> r.context.cancel],
                                 r.faulty, r.outcome, r.left)
      BY <2>2 DEF Continues
    <3>2. s.faulty = r.faulty
      BY <3>1 DEF Record
    <3> QED
      BY <1>2, <1>3, <3>1, <3>2, ReplayedKept
  <2> QED
    BY <1>1, <2>1, <2>2
<1>4. CASE ~r.faulty
  <2>1. Faithful(debug, r)
    BY <1>1, <1>4 DEF Replayed
  <2>2. PICK g : /\ IsReference(g, debug, r.plan, r.count, r.job) /\ ~r.context.cancel /\ ~(debug /\ Leftover(r))
                 /\ Standing(r.context.packet, r, g[r.stage - 1])
    BY <1>1, <2>1, FaithfulParts
  <2>3. Matches(g, debug, r, result)
    BY <1>1, <2>2, ReferenceStep
  <2> DEFINE end == Conclusion(g, r.plan, r.one)
  <2>4. Matches(g, debug, r, result) <=>
          \/ end.error = "missing buffer" /\ g[r.stage].error = "missing buffer"
          \/ result.error # "none" /\ end = Failure(result.error)
          \/ result.error = "none" /\ Refused(plan, result.packet) /\ end = Failure("refused")
          \/ result.error = "none" /\ ~Refused(plan, result.packet) /\ Standing(result.packet, r, g[r.stage])
    BY Zenon DEF Matches, Refused
  <2>5. \A outcome : outcome = end \/ end.error = "missing buffer" => Tells(g, debug, r, outcome)
    BY <2>2 DEF Tells
  <2>6. ASSUME NEW outcome, EndsWith(c, r, outcome), outcome = end \/ end.error = "missing buffer"
        PROVE  Replayed'
    <3>1. Tells(g, debug, r, outcome)
      BY <2>5, <2>6
    <3> HIDE DEF r
    <3> QED
      BY <1>2, <2>2, <2>6, <3>1, EndKept
  <2>7. ASSUME Standing(result.packet, r, g[r.stage]), Continues(c, r, result.packet)
        PROVE  Replayed'
    <3> DEFINE p == result.packet
               x == [packet |-> p, scratch |-> r.context.scratch, cancel |-> r.context.cancel]
               stage == r.stage + 1
    <3>1. PICK s : /\ run' = [run EXCEPT ![c] = s]
                   /\ s = Record(r.phase, r.mode, r.plan, r.count, r.one, r.job, stage, x, r.faulty, r.outcome, r.left)
      BY <2>7 DEF Continues
    <3>2. stage - 1 = r.stage
      BY <1>1, StageNumber
    <3> HIDE DEF stage, r, x, p, result
    <3>3. /\ s.phase = r.phase /\ s.plan = r.plan /\ s.count = r.count /\ s.one = r.one /\ s.job = r.job
          /\ s.stage = stage /\ s.context = x /\ s.left = r.left
      BY <3>1 DEF Record
    <3>4. s.context.packet = p /\ s.context.cancel = r.context.cancel
      BY <3>3 DEF x
    <3>5. Leftover(s) <=> Leftover(r)
      BY <3>3 DEF Leftover
    <3>6. Standing(s.context.packet, s, g[s.stage - 1])
      BY <2>7, <3>2, <3>3, <3>4 DEF Standing, p
    <3>7. Faithful(debug, s)
      BY <1>1, <2>2, <3>3, <3>4, <3>5, <3>6 DEF Faithful
    <3> QED
      BY <1>2, <3>1, <3>7, ReplayedKept
  <2>8. \A error : Failure(error) = end => end.error = error
    BY DEF Failure
  <2>9. CASE end.error = "missing buffer" /\ g[r.stage].error = "missing buffer"
    <3>1. Standing(result.packet, r, g[r.stage])
      BY <2>9 DEF Standing
    <3> QED
      BY <1>1, <2>6, <2>7, <2>9, <3>1
  <2>a. CASE result.error # "none" /\ end = Failure(result.error)
    BY <1>1, <2>2, <2>6, <2>a
  <2>b. CASE result.error = "none" /\ Refused(plan, result.packet) /\ end = Failure("refused")
    BY <1>1, <2>2, <2>6, <2>b
  <2>c. CASE result.error = "none" /\ ~Refused(plan, result.packet) /\ Standing(result.packet, r, g[r.stage])
    BY <1>1, <2>2, <2>7, <2>c
  <2> HIDE DEF r, result, plan, end
  <2> QED
    BY <2>3, <2>4, <2>9, <2>a, <2>b, <2>c
<1> QED
  BY <1>3, <1>4

LEMMA DecodedAlike ==
  ASSUME NEW p, NEW f, NEW left, Alike(p, f, left), NEW plan, NEW one
  PROVE  Decoded(f, plan, one) = Decoded(p, plan, one) \/ Decoded(f, plan, one) = Failure("missing buffer")
<1> DEFINE slot == plan.decode.slot
           kind == plan.decode.kind
<1>1. CASE slot \in Slots(f)
  <2>1. slot \in Slots(p) /\ p.buffers[slot] = f.buffers[slot]
    BY <1>1 DEF Alike
  <2>2. SliceError(p, slot, kind) = SliceError(f, slot, kind)
    BY <1>1, <2>1 DEF SliceError
  <2> QED
    BY <2>1, <2>2 DEF Decoded
<1>2. CASE slot \notin Slots(f)
  <2>1. SliceError(f, slot, kind) = "missing buffer"
    BY <1>2 DEF SliceError
  <2> QED
    BY <2>1 DEF Decoded
<1> QED
  BY <1>1, <1>2

LEMMA DecodingTells ==
  ASSUME NEW g, NEW dbg, NEW r \in Call, r.stage > Len(Stages(r)), ~(dbg /\ Leftover(r)),
         Standing(r.context.packet, r, g[r.stage - 1])
  PROVE  Tells(g, dbg, r, Decoded(r.context.packet, Plans[r.plan], r.one))
<1> DEFINE end == g[Len(Plans[r.plan].stages)]
           p == r.context.packet
           plan == Plans[r.plan]
           value == Conclusion(g, r.plan, r.one)
<1>1. Standing(p, r, end)
  BY StageNumber DEF Stages
<1>2. value = IF end.error = "none" THEN Decoded(end.packet, plan, r.one) ELSE Failure(end.error)
  BY DEF Conclusion
<1>3. value = Decoded(p, plan, r.one) \/ value.error = "missing buffer"
  <2> HIDE DEF end, p, plan, value
  <2>1. CASE end.error = "missing buffer"
    BY <1>2, <2>1 DEF Failure
  <2>2. CASE end.error # "missing buffer"
    <3>1. end.error = "none" /\ Alike(p, end.packet, r.left)
      BY <1>1, <2>2 DEF Standing
    <3>2. value = Decoded(end.packet, plan, r.one)
      BY <1>2, <3>1
    <3>3. value = Decoded(p, plan, r.one) \/ value = Failure("missing buffer")
      BY <3>1, <3>2, DecodedAlike
    <3>4. Failure("missing buffer").error = "missing buffer"
      BY DEF Failure
    <3> QED
      BY <3>3, <3>4, Zenon
  <2> QED
    BY <2>1, <2>2
<1> QED
  BY <1>3 DEF Tells

LEMMA DecodeReplayed ==
  ASSUME Held, Replayed, NEW c \in Callers, Decode(c)
  PROVE  Replayed'
<1> DEFINE r == run[c]
           decoded == Decoded(r.context.packet, Plans[r.plan], r.one)
<1>1. /\ r \in Call /\ r.phase = "runs" /\ r.stage > Len(Stages(r))
      /\ \/ Blames(c)
         \/ r.context.cancel = TRUE /\ EndsWith(c, r, Failure("cancelled"))
         \/ EndsWith(c, r, decoded)
      /\ UNCHANGED <<debug, packets, contexts, own, jobs>>
  BY DecodeCases
<1>2. debug' = debug
  BY <1>1
<1>3. CASE Blames(c)
  BY <1>2, <1>3, BlamesKept
<1>4. CASE r.faulty
  <2>1. ASSUME NEW outcome, EndsWith(c, r, outcome)
        PROVE  Replayed'
    BY <1>2, <1>4, <2>1, EndKept
  <2> QED
    BY <1>1, <1>3, <2>1
<1>5. CASE ~r.faulty
  <2>1. Faithful(debug, r)
    BY <1>1, <1>5 DEF Replayed
  <2>2. PICK g : /\ IsReference(g, debug, r.plan, r.count, r.job) /\ ~r.context.cancel /\ ~(debug /\ Leftover(r))
                 /\ Standing(r.context.packet, r, g[r.stage - 1])
    BY <1>1, <2>1, FaithfulParts
  <2>3. Tells(g, debug, r, decoded)
    BY <1>1, <2>2, DecodingTells
  <2>4. ASSUME EndsWith(c, r, decoded)
        PROVE  Replayed'
    <3> HIDE DEF r, decoded
    <3> QED
      BY <1>2, <2>2, <2>3, <2>4, EndKept
  <2> QED
    BY <1>1, <1>3, <2>2, <2>4
<1> QED
  BY <1>4, <1>5

LEMMA ClearedAlike ==
  ASSUME NEW E, NEW p \in Packet(E)
  PROVE  Alike(Cleared(p), NewPacket, [s \in Slots(p) |-> p.buffers[s].kind])
<1> DEFINE q == Cleared(p)
           left == [s \in Slots(p) |-> p.buffers[s].kind]
<1>1. /\ q \in Blank /\ Slots(q) = Slots(p) /\ q.count = 0
      /\ \A s \in Slots(p) : q.buffers[s].kind = p.buffers[s].kind /\ q.buffers[s].data = <<>>
  BY ClearedIsBlank
<1>2. NewPacket.count = 0 /\ Slots(NewPacket) = {}
  BY DEF NewPacket, Slots
<1>3. DOMAIN left = Slots(p) /\ \A s \in Slots(p) : left[s] = p.buffers[s].kind
  OBVIOUS
<1> HIDE DEF q, left
<1>4. ASSUME NEW s \in Slots(p)
      PROVE  q.buffers[s] = Emptied(left[s])
  <2>1. q \in Packet({})
    BY <1>1 DEF Blank
  <2>2. q.buffers[s] \in Buffer({})
    BY <1>1, <2>1, PacketParts
  <2>3. q.buffers[s] = [kind |-> q.buffers[s].kind, data |-> q.buffers[s].data]
    BY <2>2, BufferParts
  <2>4. q.buffers[s].kind = left[s] /\ q.buffers[s].data = <<>>
    BY <1>1, <1>3
  <2> QED
    BY <2>3, <2>4, Zenon DEF Emptied
<1>5. Alike(q, NewPacket, left)
  BY <1>1, <1>2, <1>3, <1>4 DEF Alike
<1> QED
  BY <1>5 DEF q, left

LEMMA FreshAlike ==
  ASSUME NEW v \in Versions, NEW count \in {1, 2}, NEW job \in Jobs, NEW x \in Context(Anyone)
  PROVE  Alike(Encoded(LoadedStatics(Cleared(x.packet), Plans[v]), Plans[v].encode, count, job),
               Fresh(v, count, job), [s \in Slots(x.packet) |-> x.packet.buffers[s].kind])
<1> DEFINE plan == Plans[v]
           E == {Static, job}
           p == Cleared(x.packet)
           left == [s \in Slots(x.packet) |-> x.packet.buffers[s].kind]
           loaded == LoadedStatics(p, plan)
           new == LoadedStatics(NewPacket, plan)
<1>1. plan \in PlanType /\ plan.encode \in Seq(ItemType) /\ count \in Nat /\ Static \in E /\ job \in E
  BY VersionParts, PlanParts
<1>2. p \in Packet(E) /\ loaded \in Packet(E)
  BY <1>1, LoadedFrom
<1>3. NewPacket \in Packet(E)
  <2>1. NewPacket \in Packet({})
    BY NewIsBlank DEF Blank
  <2> QED
    BY <2>1, PacketMono
<1>4. new \in Packet(E)
  BY FreshIs
<1>5. Alike(p, NewPacket, left)
  <2>1. x.packet \in Packet(Anyone)
    BY ContextParts
  <2> QED
    BY <2>1, ClearedAlike
<1>6. Fresh(v, count, job) = Encoded(new, plan.encode, count, job)
  BY DEF Fresh
<1> HIDE DEF plan, E, p, left
<1>7. Alike(loaded, new, left)
  BY <1>1, <1>2, <1>3, <1>5, AlikeLoaded
<1> HIDE DEF loaded, new
<1>8. Alike(Encoded(loaded, plan.encode, count, job), Encoded(new, plan.encode, count, job), left)
  BY <1>1, <1>2, <1>4, <1>7, AlikeEncoded
<1> QED
  BY <1>6, <1>8 DEF loaded, p, left, plan

(* A call that begins stands where the reference does, or ends as it does. *)
Begins(g, dbg, r, p) ==
  IF dbg /\ ~ValidPacket(Plans[r.plan], p) THEN Tells(g, dbg, r, Failure("refused"))
  ELSE ~(dbg /\ Leftover(r)) /\ Standing(p, r, g[0])

LEMMA ReferenceBegins ==
  ASSUME NEW g, NEW dbg, NEW r \in Call, IsReference(g, dbg, r.plan, r.count, r.job),
         NEW p, Alike(p, Fresh(r.plan, r.count, r.job), r.left)
  PROVE  Begins(g, dbg, r, p)
<1> DEFINE v == r.plan
           count == r.count
           job == r.job
           plan == Plans[v]
           f == Fresh(v, count, job)
           base == Begun(f)
           E == {Static, job}
<1>1. v \in Versions /\ count \in {1, 2} /\ job \in Jobs /\ r.one \in BOOLEAN
  <2>1. IsCall(r)
    BY CallParts
  <2> QED
    BY <2>1 DEF IsCall
<1>2. PICK n \in Nat : n = Len(plan.stages)
  BY <1>1, VersionParts, PlanParts
<1>3. StageCount(v, n) /\ 0 \in 0..n
  BY <1>2 DEF StageCount
<1>a. IsReference(g, dbg, v, count, job) /\ Alike(p, f, r.left) /\ plan = Plans[r.plan]
  OBVIOUS
<1>b. base.packet = f /\ base.error = "none"
  BY DEF Begun
<1>c. Begins(g, dbg, r, p) <=> IF dbg /\ ~ValidPacket(plan, p) THEN Tells(g, dbg, r, Failure("refused"))
                               ELSE ~(dbg /\ Leftover(r)) /\ Standing(p, r, g[0])
  BY DEF Begins
<1>d. \A q, t : Standing(q, r, t) <=>
        \/ t.error = "missing buffer"
        \/ /\ t.error = "none" /\ Alike(q, t.packet, r.left)
           /\ Set(plan) \subseteq Slots(t.packet) /\ t.packet.count = count
  BY Zenon DEF Standing
<1>e. \A outcome : Tells(g, dbg, r, outcome) <=>
        IF dbg /\ Leftover(r) THEN outcome = Failure("refused")
        ELSE outcome = Conclusion(g, v, r.one) \/ Conclusion(g, v, r.one).error = "missing buffer"
  BY DEF Tells
<1>f. f.count = r.count /\ Slots(f) = Set(plan) /\ f \in Packet(E) /\ count = r.count
  BY <1>1, FreshIs
<1>g. g[0] = Check(dbg, plan, base)
  <2>1. Replay(g, dbg, v, count, job, n)
    BY <1>1, <1>3, <1>a, ReferenceParts, Zenon
  <2> QED
    BY <2>1 DEF Replay, RefBase
<1>h. base \in Step(E)
  BY <1>1, RefBaseIs
<1>i. dbg /\ Leftover(r) => ~ValidPacket(plan, p)
  BY <1>a, <1>f, LeftoverRefused
<1>j. ~Leftover(r) => (ValidPacket(plan, p) <=> ValidPacket(plan, f))
  BY <1>a, <1>f, SameValidation
<1>k. g[0].error = "refused" => Conclusion(g, v, r.one) = Failure("refused")
  <2> HIDE DEF v, job, count
  <2>1. ASSUME g[0].error = "refused"
        PROVE  Fails(g, v, r.one, g[0].error)
    <3>1. v \in Versions /\ job \in Jobs /\ n \in Nat /\ StageCount(v, n) /\ 0 \in 0..n
          /\ IsReference(g, dbg, v, count, job) /\ g[0].error # "none"
      BY <1>1, <1>3, <1>a, <2>1
    <3> QED
      BY <3>1, Concludes, Zenon
  <2> QED
    BY <2>1 DEF Fails
<1> HIDE DEF v, count, job, plan, f, base, E
<1>l. /\ ~(dbg /\ ~ValidPacket(plan, f)) => g[0] = base
      /\ dbg /\ ~ValidPacket(plan, f) => g[0].error = "refused"
  BY <1>b, <1>g, <1>h, CheckIs
<1>m. CASE dbg /\ Leftover(r)
  BY <1>c, <1>e, <1>i, <1>m
<1>n. CASE ~(dbg /\ Leftover(r))
  <2>1. dbg => (ValidPacket(plan, p) <=> ValidPacket(plan, f))
    BY <1>j, <1>n
  <2>2. CASE dbg /\ ~ValidPacket(plan, p)
    BY <1>c, <1>e, <1>k, <1>l, <1>n, <2>1, <2>2
  <2>3. CASE ~(dbg /\ ~ValidPacket(plan, p))
    <3>1. g[0] = base
      BY <1>l, <2>1, <2>3
    <3>2. Standing(p, r, g[0])
      BY <1>a, <1>b, <1>d, <1>f, <3>1
    <3> QED
      BY <1>c, <1>n, <2>3, <3>2
  <2> QED
    BY <2>2, <2>3
<1> QED
  BY <1>m, <1>n

LEMMA StartReplayed ==
  ASSUME Held, Replayed, NEW c \in Callers, NEW v \in Versions, NEW mode \in Modes, NEW count \in {1, 2},
         NEW one \in BOOLEAN, Start(c, v, mode, count, one)
  PROVE  Replayed'
<1>1. PICK fault \in {"none", "error", "panic"}, items \in Seq(ItemType), x \in Context({Static, jobs + 1}) :
        Starts(c, v, mode, count, one, fault, items, x)
  BY StartParts
<1> DEFINE job == jobs + 1
           plan == Plans[v]
           from == Taken(c, mode)
           r == Started(v, mode, count, one, job, x, fault, from)
           left == [s \in Slots(from.packet) |-> from.packet.buffers[s].kind]
<1>2. /\ job \in Jobs /\ from \in Context(Anyone) /\ r \in Call
      /\ fault = "none" => items = plan.encode
      /\ x = [packet |-> Encoded(LoadedStatics(Cleared(from.packet), plan), items, count, job),
              scratch |-> fault # "none", cancel |-> FALSE]
      /\ CASE fault = "error" -> Returning(c, r, Failure("encode"))
           [] fault = "panic" -> Panicked(c, r)
           [] fault = "none"  -> IF Refused(plan, x.packet) THEN Returning(c, r, Failure("refused"))
                                 ELSE run' = [run EXCEPT ![c] = r]
      /\ debug' = debug
  BY <1>1 DEF Starts
<1>3. /\ r.phase = "runs" /\ r.plan = v /\ r.count = count /\ r.one = one /\ r.job = job /\ r.stage = 1
      /\ r.context = x /\ r.faulty = (fault # "none") /\ r.left = left
  BY DEF Started, Record
<1>4. \A error \in Errors : Returning(c, r, Failure(error)) => EndsWith(c, r, Failure(error))
  BY <1>2, EndingIs, FailureIs DEF Returning
<1>5. Panicked(c, r) => EndsWith(c, r, Failure("panicked"))
  BY <1>2, PanickedIs
<1> HIDE DEF r, from, left, job, plan
<1>6. CASE fault # "none"
  <2>1. \E outcome : EndsWith(c, r, outcome)
    BY <1>2, <1>4, <1>5, <1>6 DEF Errors
  <2> QED
    BY <1>2, <1>3, <1>6, <2>1, EndKept
<1>7. CASE fault = "none"
  <2>1. x.packet = Encoded(LoadedStatics(Cleared(from.packet), plan), plan.encode, count, job) /\ x.cancel = FALSE
    BY <1>2, <1>7
  <2>2. Alike(x.packet, Fresh(v, count, job), left)
    BY <1>2, <2>1, FreshAlike DEF left, plan
  <2>3. PICK g : IsReference(g, debug, v, count, job)
    BY <1>2, ReferenceChain
  <2>4. IsReference(g, debug, r.plan, r.count, r.job) /\ Alike(x.packet, Fresh(r.plan, r.count, r.job), r.left)
    BY <1>3, <2>2, <2>3
  <2>5. Begins(g, debug, r, x.packet)
    BY <1>2, <2>4, ReferenceBegins
  <2>6. Refused(plan, x.packet) <=> debug /\ ~ValidPacket(Plans[r.plan], x.packet)
    BY <1>3 DEF Refused, plan
  <2>7. CASE Refused(plan, x.packet)
    <3>1. Tells(g, debug, r, Failure("refused"))
      BY <2>5, <2>6, <2>7 DEF Begins
    <3>2. EndsWith(c, r, Failure("refused"))
      BY <1>2, <1>4, <1>7, <2>7 DEF Errors
    <3> QED
      BY <1>2, <2>4, <3>1, <3>2, EndKept
  <2>8. CASE ~Refused(plan, x.packet)
    <3>1. ~(debug /\ Leftover(r)) /\ Standing(x.packet, r, g[0])
      BY <2>5, <2>6, <2>8 DEF Begins
    <3>2. r.stage - 1 = 0 /\ ~r.context.cancel /\ r.context.packet = x.packet
      BY <1>3, <2>1
    <3>3. Standing(r.context.packet, r, g[r.stage - 1])
      BY <3>1, <3>2
    <3>4. Faithful(debug, r)
      BY <1>3, <2>4, <3>1, <3>2, <3>3 DEF Faithful
    <3>5. run' = [run EXCEPT ![c] = r]
      BY <1>2, <1>7, <2>8
    <3> QED
      BY <1>2, <3>4, <3>5, ReplayedKept
  <2> QED
    BY <2>7, <2>8
<1> QED
  BY <1>6, <1>7

LEMMA IdleReplayed ==
  ASSUME Held, Replayed, NEW c \in Callers, debug' = debug, run' = [run EXCEPT ![c] = Idle]
  PROVE  Replayed'
<1>1. Idle.phase = "idle"
  BY DEF Idle
<1> QED
  BY <1>1, ReplayedKept

LEMMA ReplayedInit == Init => Replayed
<1> SUFFICES ASSUME Init
             PROVE  Replayed
  OBVIOUS
<1>1. \A c \in Callers : run[c].phase = "idle"
  BY DEF Init, Idle
<1> QED
  BY <1>1 DEF Replayed

LEMMA ReplayedNext == Held /\ Replayed /\ [Next]_vars => Replayed'
<1> SUFFICES ASSUME Held, Replayed, [Next]_vars
             PROVE  Replayed'
  OBVIOUS
<1>1. ASSUME run' = run, debug' = debug
      PROVE  Replayed'
  BY <1>1 DEF Replayed
<1>2. CASE UNCHANGED vars
  BY <1>1, <1>2 DEF vars
<1>3. ASSUME NEW c \in Callers, NEW v \in Versions, NEW mode \in Modes, NEW count \in {1, 2}, NEW one \in BOOLEAN,
             Start(c, v, mode, count, one)
      PROVE  Replayed'
  BY <1>3, StartReplayed
<1>4. ASSUME NEW c \in Callers, Stage(c)
      PROVE  Replayed'
  BY <1>4, StageReplayed
<1>5. ASSUME NEW c \in Callers, FaultyStage(c)
      PROVE  Replayed'
  <2>1. Blames(c) /\ debug' = debug
    BY <1>5, FaultyStageCases
  <2> QED
    BY <2>1, BlamesKept
<1>6. ASSUME NEW c \in Callers, Decode(c)
      PROVE  Replayed'
  BY <1>6, DecodeReplayed
<1>7. ASSUME NEW c \in Callers, Return(c)
      PROVE  Replayed'
  <2>1. run' = [run EXCEPT ![c] = Idle] /\ debug' = debug
    BY <1>7 DEF Return
  <2> QED
    BY <2>1, IdleReplayed
<1>8. ASSUME NEW c \in Callers, NEW mode \in Modes, Direct(c, mode)
      PROVE  Replayed'
  <2>1. run' = run /\ debug' = debug
    BY <1>8 DEF Direct
  <2> QED
    BY <1>1, <2>1
<1> QED
  BY <1>2, <1>3, <1>4, <1>5, <1>6, <1>7, <1>8 DEF Next

(* A planner that sets every slot it declares or decodes misses none.      *)
SetsAll(plan) == Declared(plan) \cup {plan.decode.slot} \subseteq Set(plan)

Complete(plan, s) == s.error # "missing buffer" /\ Set(plan) \subseteq Slots(s.packet)

LEMMA CheckComplete ==
  ASSUME NEW E, NEW dbg, NEW plan, NEW s \in Step(E), Complete(plan, s)
  PROVE  Complete(plan, Check(dbg, plan, s))
<1>1. /\ Check(dbg, plan, s).packet = s.packet
      /\ Check(dbg, plan, s) = s \/ Check(dbg, plan, s).error = "refused"
  BY CheckIs
<1> QED
  BY <1>1 DEF Complete

LEMMA StepComplete ==
  ASSUME NEW dbg, NEW v \in Versions, NEW job \in Jobs, SetsAll(Plans[v]),
         NEW m \in DOMAIN Plans[v].stages, Plans[v].stages[m] \in Seq(KernelType),
         NEW s \in Step({Static, job}), Complete(Plans[v], s)
  PROVE  Complete(Plans[v], RefStep(dbg, v, Plans[v].stages[m], s, job))
<1> DEFINE plan == Plans[v]
           kernels == plan.stages[m]
           E == {Static, job}
           k == KernelsRun(s.packet, kernels, job)
<1>1. s.packet \in Packet(E) /\ job \in E /\ kernels \in Seq(KernelType)
  BY DEF Step
<1>2. KernelSlots(kernels) \subseteq Declared(plan)
  BY VersionParts DEF ValidPlan, KernelSlots
<1>3. Complete(plan, s) /\ SetsAll(plan)
  OBVIOUS
<1>4. RefStep(dbg, v, kernels, s, job) = IF s.error = "none" THEN Check(dbg, plan, k) ELSE s
  BY DEF RefStep
<1> HIDE DEF plan, kernels, E
<1>5. /\ k \in Step(E) /\ Extends(k, s.packet)
      /\ KernelSlots(kernels) \subseteq Slots(s.packet) => k.error # "missing buffer"
  BY <1>1, KernelsRunIs, RunsExtend
<1>6. Complete(plan, k)
  BY <1>2, <1>3, <1>5 DEF Complete, Extends, SetsAll
<1> HIDE DEF k
<1>7. Complete(plan, Check(dbg, plan, k))
  BY <1>5, <1>6, CheckComplete
<1> QED
  BY <1>3, <1>4, <1>7 DEF plan, kernels

LEMMA NeverMisses ==
  ASSUME NEW g, NEW dbg, NEW v \in Versions, NEW count \in {1, 2}, NEW one, NEW job \in Jobs,
         IsReference(g, dbg, v, count, job), SetsAll(Plans[v])
  PROVE  Conclusion(g, v, one).error # "missing buffer"
<1> DEFINE plan == Plans[v]
           S == Step({Static, job})
           base == RefBase(dbg, v, count, job)
           step == RefSteps(dbg, v, job)
           R == {s \in S : Complete(plan, s)}
           end == g[Len(plan.stages)]
<1>0. PICK n \in Nat : n = Len(plan.stages)
  BY VersionParts, PlanParts
<1>1. DOMAIN plan.stages = 1..n /\ \A m \in 1..n : plan.stages[m] \in Seq(KernelType)
  BY <1>0, VersionParts, PlanParts
<1>2. IsChain(g, n, S, base, step)
  BY <1>0 DEF IsReference
<1>3. base \in R
  <2>1. Begun(Fresh(v, count, job)) \in S /\ base \in S
    BY RefBaseIs
  <2>2. Complete(plan, Begun(Fresh(v, count, job)))
    BY FreshIs DEF Complete, Begun
  <2>3. Complete(plan, base)
    BY <2>1, <2>2, CheckComplete DEF RefBase
  <2> QED
    BY <2>1, <2>3
<1>4. \A m \in 1..n : \A s \in S : step[m][s] = RefStep(dbg, v, plan.stages[m], s, job)
  BY <1>0 DEF RefSteps
<1>5. ASSUME NEW m \in 1..n, NEW s \in S, s \in R
      PROVE  step[m][s] \in R
  <2> DEFINE t == RefStep(dbg, v, plan.stages[m], s, job)
  <2>1. t \in S
    BY <1>1, RefStepIs
  <2>2. Complete(plan, t)
    BY <1>1, <1>5, StepComplete
  <2>3. step[m][s] = t
    BY <1>4
  <2> QED
    BY <2>1, <2>2, <2>3
<1>6. \A s : s \in R <=> s \in S /\ Complete(plan, s)
  OBVIOUS
<1>7. Conclusion(g, v, one) = IF end.error = "none" THEN Decoded(end.packet, plan, one) ELSE Failure(end.error)
  BY DEF Conclusion
<1>8. plan.decode.slot \in Set(plan)
  BY DEF SetsAll
<1> HIDE DEF S, base, step, R, plan
<1>9. Stays(R, n, S, step)
  BY <1>5 DEF Stays
<1>a. \A m \in 0..n : g[m] \in R
  BY <1>2, <1>3, <1>9, ChainStays, Zenon
<1>b. Complete(plan, end)
  BY <1>0, <1>6, <1>a
<1> HIDE DEF end
<1>c. CASE end.error = "none"
  <2> DEFINE value == Decoded(end.packet, plan, one)
             error == SliceError(end.packet, plan.decode.slot, plan.decode.kind)
  <2>1. plan.decode.slot \in Slots(end.packet)
    BY <1>8, <1>b DEF Complete
  <2>2. error \in {"wrong type", "none"}
    BY <2>1 DEF SliceError
  <2> HIDE DEF error
  <2>3. value.error \in {error, "batch size", "none"}
    BY DEF Decoded, Failure, error
  <2> QED
    BY <1>7, <1>c, <2>2, <2>3
<1>d. CASE end.error # "none"
  <2>1. Failure(end.error).error = end.error
    BY DEF Failure
  <2> QED
    BY <1>7, <1>b, <1>d, <2>1 DEF Complete
<1> QED
  BY <1>c, <1>d

LEMMA TransparencyFollows == Held /\ Replayed => ReuseTransparent
<1> SUFFICES ASSUME Held, Replayed, NEW c \in Callers, run[c].phase \in {"returns", "unwinds"}, ~run[c].faulty
             PROVE  LET r == run[c]
                        plan == Plans[r.plan]
                        fresh == Reference(r.plan, r.count, r.one, r.job)
                    IN  /\ Declared(plan) \cup {plan.decode.slot} \subseteq Set(plan) => r.outcome = fresh
                        /\ IF debug /\ Leftover(r) THEN r.outcome = Failure("refused")
                           ELSE r.outcome = fresh \/ fresh.error = "missing buffer"
  BY DEF ReuseTransparent
<1> DEFINE r == run[c]
           plan == Plans[r.plan]
           fresh == Reference(r.plan, r.count, r.one, r.job)
<1>1. r \in Call /\ Faithful(debug, r)
  BY RunningIsCall DEF Replayed
<1>2. r.plan \in Versions /\ r.count \in {1, 2} /\ r.one \in BOOLEAN /\ r.job \in Jobs
  BY <1>1, CallParts DEF IsCall
<1>3. PICK g : IsReference(g, debug, r.plan, r.count, r.job) /\ Tells(g, debug, r, r.outcome)
  BY <1>1 DEF Faithful
<1>4. PICK h : IsReference(h, debug, r.plan, r.count, r.job) /\ fresh = Conclusion(h, r.plan, r.one)
  BY <1>2, ReferenceChain
<1>5. g[Len(plan.stages)] = h[Len(plan.stages)]
  BY <1>2, <1>3, <1>4, ReferenceUnique
<1>6. fresh = Conclusion(g, r.plan, r.one)
  BY <1>4, <1>5, Zenon DEF Conclusion
<1>7. IF debug /\ Leftover(r) THEN r.outcome = Failure("refused")
      ELSE r.outcome = fresh \/ fresh.error = "missing buffer"
  BY <1>3, <1>6 DEF Tells
<1>8. ASSUME SetsAll(plan)
      PROVE  r.outcome = fresh
  <2>1. fresh.error # "missing buffer"
    BY <1>2, <1>3, <1>6, <1>8, NeverMisses
  <2>2. ~Leftover(r)
    BY <1>8 DEF Leftover, SetsAll
  <2> QED
    BY <1>7, <2>1, <2>2
<1> QED
  BY <1>7, <1>8 DEF SetsAll

(* A call on a packet of any past returns what it would return on a new    *)
(* one, unless a new one lacks a buffer that is asked for or a debug build *)
(* refuses what an earlier job has left; neither happens to a planner that *)
(* sets every slot it declares or decodes (pipeline.rs:298-319,            *)
(* job.rs:101-110).                                                        *)
THEOREM ReuseIsTransparent == Spec => []ReuseTransparent
<1>1. Init => Held /\ Replayed
  BY HeldInit, ReplayedInit
<1>2. Held /\ Replayed /\ [Next]_vars => (Held /\ Replayed)'
  BY HeldNext, ReplayedNext
<1>3. Held /\ Replayed => ReuseTransparent
  BY TransparencyFollows
<1> QED
  BY <1>1, <1>2, <1>3, PTL DEF Spec
=============================================================================
