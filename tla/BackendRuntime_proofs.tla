------------------------ MODULE BackendRuntime_proofs ------------------------
(***************************************************************************)
(* Proofs about BackendRuntime, for any number of backends, lanes, tasks   *)
(* and threads.  The counters are compared with cardinalities, so the      *)
(* invariant has to know that the sets are finite, that a parked task is   *)
(* not wrapped and is parked once, and that a task is only parked while    *)
(* every lane is taken.                                                    *)
(***************************************************************************)
EXTENDS BackendRuntime, FiniteSetTheorems, SequenceTheorems, TLAPS

(* A task box is owned by one place: parked once, or wrapped, on its own   *)
(* backend.                                                                *)
Parked == \A b \in Backends :
  /\ \A i \in 1..Len(waiting[b]) : Home[waiting[b][i]] = b /\ waiting[b][i] \notin wrapped
  /\ \A i, j \in 1..Len(waiting[b]) : waiting[b][i] = waiting[b][j] => i = j

LaneLimit == \A b \in Backends : /\ lanes_in_use[b] <= LaneCount(b)
                                 /\ prepares_in_use[b] <= PrepareLaneCount(b)

FlagFirst == \A b \in Backends : closing[b] # "open" => shutdown

Inv == /\ TypeOK
       /\ IsFiniteSet(wrapped)
       /\ Parked
       /\ WorkConserving
       /\ LaneLimit
       /\ LanesAccounted
       /\ NoMissedPrepare
       /\ FlagFirst
       /\ ShutdownWakesPreparers

(* The clamping in register_backend_with_prepare_lanes: at least one lane, *)
(* and between one and all of them for prepares.                           *)
LEMMA LaneCounts ==
  ASSUME NEW b \in Backends
  PROVE  /\ LaneCount(b) \in Nat /\ LaneCount(b) >= 1
         /\ PrepareLaneCount(b) \in Nat
         /\ PrepareLaneCount(b) >= 1
         /\ PrepareLaneCount(b) <= LaneCount(b)
  BY LaneAssumption DEF LaneCount, PrepareLaneCount, AtLeastOne

(* Who holds a lane is a finite set, whatever the backend.                 *)
LEMMA HoldersFinite ==
  ASSUME Inv, NEW b \in Backends
  PROVE  /\ IsFiniteSet(Wrapped(b)) /\ Cardinality(Wrapped(b)) \in Nat
         /\ IsFiniteSet(Holders(b)) /\ Cardinality(Holders(b)) \in Nat
  <1>1. Wrapped(b) \subseteq wrapped /\ Holders(b) \subseteq Preparers
    BY DEF Wrapped, Holders
  <1> QED BY <1>1, FS_Subset, FS_CardinalityType, ThreadAssumption DEF Inv

LEMMA InitInv == Init => Inv
  <1> SUFFICES ASSUME Init PROVE Inv
    OBVIOUS
  <1>1. TypeOK
    <2>1. <<>> \in Seq(Task)
      OBVIOUS
    <2> QED BY <2>1 DEF Init, TypeOK
  <1>2. IsFiniteSet(wrapped)
    BY FS_EmptySet DEF Init
  <1>3. Parked /\ WorkConserving
    BY DEF Init, Parked, WorkConserving
  <1>4. LaneLimit
    BY LaneCounts DEF Init, LaneLimit
  <1>5. LanesAccounted
    <2> SUFFICES ASSUME NEW b \in Backends
                 PROVE  /\ lanes_in_use[b] = Cardinality(Wrapped(b)) + Cardinality(Holders(b))
                        /\ prepares_in_use[b] = Cardinality(Holders(b))
      BY DEF LanesAccounted
    <2>1. Wrapped(b) = {} /\ Holders(b) = {}
      BY DEF Init, Wrapped, Holders
    <2> QED BY <2>1, FS_EmptySet DEF Init
  <1>6. NoMissedPrepare /\ FlagFirst /\ ShutdownWakesPreparers
    BY HomeAssumption DEF Init, NoMissedPrepare, FlagFirst, ShutdownWakesPreparers
  <1> QED BY <1>1, <1>2, <1>3, <1>4, <1>5, <1>6 DEF Inv

(* The counters and the permits they count are untouched.                  *)
LEMMA SameHolders ==
  ASSUME LanesAccounted, LaneLimit,
         UNCHANGED <<lanes_in_use, prepares_in_use, wrapped>>,
         \A p \in Preparers : preparer'[p] = "holding" <=> preparer[p] = "holding"
  PROVE  LanesAccounted' /\ LaneLimit'
  <1>1. ASSUME NEW b \in Backends
        PROVE  Wrapped(b)' = Wrapped(b) /\ Holders(b)' = Holders(b)
    BY DEF Wrapped, Holders
  <1>2. LanesAccounted'
    BY <1>1 DEF LanesAccounted
  <1> QED BY <1>2 DEF LaneLimit

(* A thread that only changes where a prepare call stands, without putting *)
(* it to sleep, keeps the whole invariant.                                 *)
LEMMA PrepareStep ==
  ASSUME Inv,
         UNCHANGED <<lanes_in_use, prepares_in_use, waiting, wrapped, owing, shutdown, closing>>,
         preparer' \in [Preparers -> {"out", "trying", "asleep", "holding"}],
         \A p \in Preparers : /\ preparer'[p] = "holding" <=> preparer[p] = "holding"
                              /\ preparer'[p] = "asleep" => preparer[p] = "asleep"
  PROVE  Inv'
  <1>1. TypeOK' /\ IsFiniteSet(wrapped)' /\ Parked' /\ WorkConserving' /\ FlagFirst'
    BY DEF Inv, TypeOK, Parked, WorkConserving, FlagFirst
  <1>2. LanesAccounted' /\ LaneLimit'
    BY SameHolders DEF Inv
  <1>3. NoMissedPrepare' /\ ShutdownWakesPreparers'
    BY DEF Inv, NoMissedPrepare, ShutdownWakesPreparers, MayPrepare
  <1> QED BY <1>1, <1>2, <1>3 DEF Inv

LEMMA GrantInv == ASSUME Inv, NEW t \in Task, Grant(t) PROVE Inv'
  <1> DEFINE b == Home[t]
  <1>b. b \in Backends
    BY HomeAssumption
  <1>w. t \notin wrapped /\ t \notin Waiting(b)
    BY DEF Grant
  <1>0. lanes_in_use[b] \in Nat /\ prepares_in_use[b] \in Nat /\ LaneCount(b) \in Nat
        /\ lanes_in_use[b] < LaneCount(b)
    BY <1>b, LaneCounts DEF Inv, TypeOK, Grant
  <1>e. waiting[b] = <<>>
    BY <1>0, <1>b DEF Inv, WorkConserving
  <1>1. TypeOK'
    BY <1>0, <1>b DEF Inv, TypeOK, Grant
  <1>2. IsFiniteSet(wrapped)'
    BY FS_AddElement DEF Inv, Grant
  <1>3. Parked' /\ WorkConserving'
    BY <1>b, <1>e DEF Inv, TypeOK, Parked, WorkConserving, Grant
  <1>4. LaneLimit'
    BY <1>0, <1>b, LaneCounts DEF Inv, TypeOK, LaneLimit, Grant, LaneCount, PrepareLaneCount
  <1>5. LanesAccounted'
    <2> SUFFICES ASSUME NEW c \in Backends
                 PROVE  /\ lanes_in_use'[c] = Cardinality(Wrapped(c)') + Cardinality(Holders(c)')
                        /\ prepares_in_use'[c] = Cardinality(Holders(c)')
      BY DEF LanesAccounted
    <2>1. Holders(c)' = Holders(c)
      BY DEF Holders, Grant
    <2>2. CASE c = b
      <3>1. Wrapped(c)' = Wrapped(c) \cup {t} /\ t \notin Wrapped(c)
        BY <2>2, <1>w DEF Wrapped, Grant
      <3>2. Cardinality(Wrapped(c)') = Cardinality(Wrapped(c)) + 1
        BY <3>1, HoldersFinite, FS_AddElement
      <3> QED BY <2>1, <2>2, <3>2, HoldersFinite DEF Inv, TypeOK, LanesAccounted, Grant
    <2>3. CASE c # b
      <3>1. Wrapped(c)' = Wrapped(c)
        BY <2>3 DEF Wrapped, Grant
      <3> QED BY <2>1, <2>3, <3>1 DEF Inv, TypeOK, LanesAccounted, Grant
    <2> QED BY <2>2, <2>3
  <1>6. NoMissedPrepare'
    BY <1>0, <1>b, HomeAssumption, LaneCounts
       DEF Inv, TypeOK, NoMissedPrepare, MayPrepare, Grant, LaneCount, PrepareLaneCount
  <1>7. FlagFirst' /\ ShutdownWakesPreparers'
    BY DEF Inv, FlagFirst, ShutdownWakesPreparers, Grant
  <1> QED BY <1>1, <1>2, <1>3, <1>4, <1>5, <1>6, <1>7 DEF Inv

LEMMA EnqueueInv == ASSUME Inv, NEW t \in Task, Enqueue(t) PROVE Inv'
  <1> DEFINE b == Home[t]
  <1>b. b \in Backends
    BY HomeAssumption
  <1>0. /\ lanes_in_use[b] \in Nat /\ LaneCount(b) \in Nat
        /\ lanes_in_use[b] >= LaneCount(b)
        /\ waiting[b] \in Seq(Task)
    BY <1>b, LaneCounts DEF Inv, TypeOK, Enqueue
  <1>f. lanes_in_use[b] = LaneCount(b)
    BY <1>0, <1>b DEF Inv, LaneLimit
  <1>1. TypeOK'
    BY <1>0, <1>b, AppendProperties DEF Inv, TypeOK, Enqueue
  <1>3. Parked'
    <2> SUFFICES ASSUME NEW c \in Backends
                 PROVE  /\ \A i \in 1..Len(waiting'[c]) : /\ Home[waiting'[c][i]] = c
                                                          /\ waiting'[c][i] \notin wrapped'
                        /\ \A i, j \in 1..Len(waiting'[c]) :
                             waiting'[c][i] = waiting'[c][j] => i = j
      BY DEF Parked
    <2>1. CASE c # b
      BY <2>1 DEF Inv, TypeOK, Parked, Enqueue
    <2>2. CASE c = b
      <3> DEFINE n == Len(waiting[b])
      <3>1. /\ waiting'[b] = Append(waiting[b], t)
            /\ wrapped' = wrapped
            /\ t \notin wrapped
            /\ \A i \in 1..n : waiting[b][i] # t
        BY <1>b, <1>0 DEF Inv, TypeOK, Enqueue, Waiting
      <3>2. /\ n \in Nat
            /\ Len(waiting'[b]) = n + 1
            /\ \A i \in 1..n : waiting'[b][i] = waiting[b][i]
            /\ waiting'[b][n + 1] = t
        BY <3>1, <1>0, AppendProperties
      <3>3. /\ \A i \in 1..n : Home[waiting[b][i]] = b /\ waiting[b][i] \notin wrapped
            /\ \A i, j \in 1..n : waiting[b][i] = waiting[b][j] => i = j
        BY <1>b DEF Inv, Parked
      <3> HIDE DEF n
      <3>4. \A i \in 1..(n + 1) : i \in 1..n \/ i = n + 1
        BY <3>2
      <3> QED BY <2>2, <3>1, <3>2, <3>3, <3>4
    <2> QED BY <2>1, <2>2
  <1>4. WorkConserving'
    BY <1>f DEF Inv, WorkConserving, Enqueue
  <1>5. LanesAccounted' /\ LaneLimit'
    BY SameHolders DEF Inv, Enqueue
  <1>6. NoMissedPrepare'
    BY <1>0, <1>b, <1>f DEF Inv, TypeOK, NoMissedPrepare, MayPrepare, Enqueue
  <1>7. FlagFirst' /\ ShutdownWakesPreparers' /\ IsFiniteSet(wrapped)'
    BY DEF Inv, FlagFirst, ShutdownWakesPreparers, Enqueue
  <1> QED BY <1>1, <1>3, <1>4, <1>5, <1>6, <1>7 DEF Inv

(* Popping the head of a backend's `waiting` leaves every other task of it *)
(* parked once; the head was parked on this backend and not wrapped.       *)
LEMMA PopHead ==
  ASSUME Inv, NEW b \in Backends, waiting[b] # <<>>
  PROVE  LET h == Head(waiting[b])
             rest == Tail(waiting[b])
         IN /\ h \in Task /\ h \notin wrapped /\ Home[h] = b
            /\ rest \in Seq(Task)
            /\ \A i \in 1..Len(rest) : /\ Home[rest[i]] = b
                                       /\ rest[i] \notin wrapped \cup {h}
            /\ \A i, j \in 1..Len(rest) : rest[i] = rest[j] => i = j
  <1> DEFINE s == waiting[b]
  <1>1. s \in Seq(Task) /\ Len(s) \in Nat /\ Len(s) >= 1
    BY EmptySeq, LenProperties DEF Inv, TypeOK
  <1>2. /\ Head(s) = s[1] /\ Head(s) \in Task
        /\ Tail(s) \in Seq(Task)
        /\ Len(Tail(s)) = Len(s) - 1
        /\ \A i \in 1..Len(Tail(s)) : Tail(s)[i] = s[i + 1]
    BY <1>1, HeadTailProperties
  <1>3. /\ \A i \in 1..Len(s) : Home[s[i]] = b /\ s[i] \notin wrapped
        /\ \A i, j \in 1..Len(s) : s[i] = s[j] => i = j
    BY DEF Inv, Parked
  <1>4. \A i \in 1..Len(Tail(s)) : i + 1 \in 1..Len(s) /\ i + 1 # 1
    BY <1>1, <1>2
  <1>5. 1 \in 1..Len(s)
    BY <1>1
  <1> HIDE DEF s
  <1>6. \A i \in 1..Len(Tail(s)) : Home[Tail(s)[i]] = b /\ Tail(s)[i] \notin wrapped
    BY <1>2, <1>3, <1>4
  <1>7. \A i \in 1..Len(Tail(s)) : Tail(s)[i] # Head(s)
    BY <1>2, <1>3, <1>4, <1>5
  <1>8. \A i, j \in 1..Len(Tail(s)) : Tail(s)[i] = Tail(s)[j] => i = j
    BY <1>2, <1>3, <1>4
  <1> QED BY <1>2, <1>3, <1>5, <1>6, <1>7, <1>8 DEF s

LEMMA HandLaneInv == ASSUME Inv, NEW t \in Task, HandLane(t) PROVE Inv'
  <1> DEFINE b == Home[t]
             h == Head(waiting[b])
             rest == Tail(waiting[b])
  <1>b. b \in Backends
    BY HomeAssumption
  <1>0. /\ t \in wrapped /\ waiting[b] # <<>>
        /\ wrapped' = (wrapped \ {t}) \cup {h}
        /\ waiting' = [waiting EXCEPT ![b] = rest]
        /\ UNCHANGED <<lanes_in_use, prepares_in_use, preparer, owing, shutdown, closing>>
    BY DEF HandLane
  <1>p. /\ h \in Task /\ h \notin wrapped /\ Home[h] = b
        /\ rest \in Seq(Task)
        /\ \A i \in 1..Len(rest) : Home[rest[i]] = b /\ rest[i] \notin wrapped \cup {h}
        /\ \A i, j \in 1..Len(rest) : rest[i] = rest[j] => i = j
    BY <1>0, <1>b, PopHead
  <1>f. lanes_in_use[b] = LaneCount(b)
    BY <1>0, <1>b DEF Inv, WorkConserving
  <1> HIDE DEF h, rest
  <1>1. TypeOK'
    BY <1>0, <1>b, <1>p DEF Inv, TypeOK
  <1>2. IsFiniteSet(wrapped)'
    BY <1>0, FS_AddElement, FS_RemoveElement DEF Inv
  <1>3. Parked'
    <2> SUFFICES ASSUME NEW c \in Backends
                 PROVE  /\ \A i \in 1..Len(waiting'[c]) : /\ Home[waiting'[c][i]] = c
                                                          /\ waiting'[c][i] \notin wrapped'
                        /\ \A i, j \in 1..Len(waiting'[c]) :
                             waiting'[c][i] = waiting'[c][j] => i = j
      BY DEF Parked
    <2>1. CASE c # b
      BY <2>1, <1>0, <1>p DEF Inv, TypeOK, Parked
    <2>2. CASE c = b
      <3>1. waiting'[c] = rest
        BY <2>2, <1>0, <1>b DEF Inv, TypeOK
      <3> QED BY <3>1, <2>2, <1>0, <1>p
    <2> QED BY <2>1, <2>2
  <1>4. WorkConserving'
    BY <1>0, <1>f DEF Inv, TypeOK, WorkConserving
  <1>5. LanesAccounted'
    <2> SUFFICES ASSUME NEW c \in Backends
                 PROVE  Cardinality(Wrapped(c)') = Cardinality(Wrapped(c))
                        /\ Holders(c)' = Holders(c)
      BY <1>0 DEF Inv, LanesAccounted
    <2>1. Holders(c)' = Holders(c)
      BY <1>0 DEF Holders
    <2>2. CASE c # b
      <3>1. Wrapped(c)' = Wrapped(c)
        BY <2>2, <1>0, <1>p DEF Wrapped
      <3> QED BY <3>1, <2>1
    <2>3. CASE c = b
      <3>1. /\ Wrapped(c)' = (Wrapped(c) \ {t}) \cup {h}
            /\ t \in Wrapped(c)
            /\ h \notin Wrapped(c) \ {t}
        BY <2>3, <1>0, <1>p DEF Wrapped
      <3>2. /\ IsFiniteSet(Wrapped(c) \ {t})
            /\ Cardinality(Wrapped(c) \ {t}) = Cardinality(Wrapped(c)) - 1
        BY <3>1, HoldersFinite, FS_RemoveElement
      <3>3. Cardinality(Wrapped(c)') = Cardinality(Wrapped(c) \ {t}) + 1
        BY <3>1, <3>2, FS_AddElement
      <3> QED BY <2>1, <3>2, <3>3, HoldersFinite
    <2> QED BY <2>1, <2>2, <2>3
  <1>6. LaneLimit'
    BY <1>0 DEF Inv, LaneLimit
  <1>7. NoMissedPrepare'
    <2> SUFFICES ASSUME NEW p \in Preparers, preparer[p] = "asleep", MayPrepare(Home[p])'
                 PROVE  owing[Home[p]] # {}
      BY <1>0 DEF NoMissedPrepare
    <2>1. Home[p] \in Backends
      BY HomeAssumption
    <2>2. Home[p] # b
      BY <1>0, <1>b, <1>f, LaneCounts DEF MayPrepare
    <2>3. MayPrepare(Home[p])
      BY <2>1, <2>2, <1>0 DEF MayPrepare, Inv, TypeOK
    <2> QED BY <2>3 DEF Inv, NoMissedPrepare
  <1>8. FlagFirst' /\ ShutdownWakesPreparers'
    BY <1>0 DEF Inv, FlagFirst, ShutdownWakesPreparers
  <1> QED BY <1>1, <1>2, <1>3, <1>4, <1>5, <1>6, <1>7, <1>8 DEF Inv

LEMMA FreeLaneInv == ASSUME Inv, NEW t \in Task, NEW a \in Agents, FreeLane(t, a) PROVE Inv'
  <1> DEFINE b == Home[t]
  <1>b. b \in Backends
    BY HomeAssumption
  <1>0. /\ t \in wrapped /\ waiting[b] = <<>>
        /\ wrapped' = wrapped \ {t}
        /\ lanes_in_use' = [lanes_in_use EXCEPT ![b] = SaturatingDec(@)]
        /\ owing' = [owing EXCEPT ![b] = @ \cup {a}]
        /\ UNCHANGED <<prepares_in_use, waiting, preparer, shutdown, closing>>
    BY DEF FreeLane
  <1>c. \A c \in Backends : lanes_in_use[c] \in Nat /\ SaturatingDec(lanes_in_use[c]) \in Nat
    BY DEF Inv, TypeOK, SaturatingDec
  <1>1. TypeOK'
    BY <1>0, <1>b, <1>c DEF Inv, TypeOK
  <1>2. IsFiniteSet(wrapped)'
    BY <1>0, FS_RemoveElement DEF Inv
  <1>3. Parked' /\ WorkConserving'
    BY <1>0, <1>b DEF Inv, TypeOK, Parked, WorkConserving
  <1>4. LaneLimit'
    BY <1>0, <1>b, <1>c, LaneCounts
       DEF Inv, TypeOK, LaneLimit, SaturatingDec, LaneCount, PrepareLaneCount
  <1>5. LanesAccounted'
    <2> SUFFICES ASSUME NEW c \in Backends
                 PROVE  /\ lanes_in_use'[c] = Cardinality(Wrapped(c)') + Cardinality(Holders(c)')
                        /\ prepares_in_use'[c] = Cardinality(Holders(c)')
      BY DEF LanesAccounted
    <2>1. Holders(c)' = Holders(c)
      BY <1>0 DEF Holders
    <2>2. /\ lanes_in_use[c] = Cardinality(Wrapped(c)) + Cardinality(Holders(c))
          /\ prepares_in_use[c] = Cardinality(Holders(c))
      BY DEF Inv, LanesAccounted
    <2>3. CASE c # b
      <3>1. Wrapped(c)' = Wrapped(c) /\ lanes_in_use'[c] = lanes_in_use[c]
        BY <2>3, <1>0 DEF Wrapped, Inv, TypeOK
      <3> QED BY <3>1, <2>1, <2>2, <1>0
    <2>4. CASE c = b
      <3>1. Wrapped(c)' = Wrapped(c) \ {t} /\ t \in Wrapped(c)
        BY <2>4, <1>0 DEF Wrapped
      <3>2. Cardinality(Wrapped(c)') = Cardinality(Wrapped(c)) - 1
        BY <3>1, HoldersFinite, FS_RemoveElement
      <3>3. Cardinality(Wrapped(c)) # 0
        BY <3>1, HoldersFinite, FS_EmptySet
      <3>4. lanes_in_use'[c] = SaturatingDec(lanes_in_use[c])
        BY <2>4, <1>0, <1>b DEF Inv, TypeOK
      <3> QED BY <3>2, <3>3, <3>4, <2>1, <2>2, <1>0, HoldersFinite DEF SaturatingDec
    <2> QED BY <2>3, <2>4
  <1>6. NoMissedPrepare'
    <2> SUFFICES ASSUME NEW p \in Preparers, preparer[p] = "asleep", MayPrepare(Home[p])'
                 PROVE  owing'[Home[p]] # {}
      BY <1>0 DEF NoMissedPrepare
    <2>1. Home[p] \in Backends
      BY HomeAssumption
    <2>2. CASE Home[p] = b
      BY <2>2, <1>0, <1>b DEF Inv, TypeOK
    <2>3. CASE Home[p] # b
      <3>1. MayPrepare(Home[p])
        BY <2>1, <2>3, <1>0 DEF MayPrepare, Inv, TypeOK
      <3> QED BY <2>1, <2>3, <3>1, <1>0 DEF Inv, TypeOK, NoMissedPrepare
    <2> QED BY <2>2, <2>3
  <1>7. FlagFirst' /\ ShutdownWakesPreparers'
    BY <1>0 DEF Inv, FlagFirst, ShutdownWakesPreparers
  <1> QED BY <1>1, <1>2, <1>3, <1>4, <1>5, <1>6, <1>7 DEF Inv

LEMMA HoldPrepareInv == ASSUME Inv, NEW p \in Preparers, HoldPrepare(p) PROVE Inv'
  <1> DEFINE b == Home[p]
  <1>b. b \in Backends
    BY HomeAssumption
  <1>0. /\ preparer[p] = "trying" /\ ~shutdown
        /\ waiting[b] = <<>>
        /\ lanes_in_use[b] < LaneCount(b)
        /\ prepares_in_use[b] < PrepareLaneCount(b)
        /\ lanes_in_use' = [lanes_in_use EXCEPT ![b] = @ + 1]
        /\ prepares_in_use' = [prepares_in_use EXCEPT ![b] = @ + 1]
        /\ preparer' = [preparer EXCEPT ![p] = "holding"]
        /\ UNCHANGED <<waiting, wrapped, owing, shutdown, closing>>
    BY DEF HoldPrepare, MayPrepare
  <1>c. \A c \in Backends : lanes_in_use[c] \in Nat /\ prepares_in_use[c] \in Nat
    BY DEF Inv, TypeOK
  <1>1. TypeOK' /\ IsFiniteSet(wrapped)'
    BY <1>0, <1>b, <1>c DEF Inv, TypeOK
  <1>3. Parked' /\ WorkConserving'
    BY <1>0, <1>b DEF Inv, TypeOK, Parked, WorkConserving
  <1>4. LaneLimit'
    <2> SUFFICES ASSUME NEW c \in Backends
                 PROVE  /\ lanes_in_use'[c] <= LaneCount(c)
                        /\ prepares_in_use'[c] <= PrepareLaneCount(c)
      BY DEF LaneLimit, LaneCount, PrepareLaneCount
    <2> QED BY <1>0, <1>b, <1>c, LaneCounts DEF Inv, TypeOK, LaneLimit
  <1>5. LanesAccounted'
    <2> SUFFICES ASSUME NEW c \in Backends
                 PROVE  /\ lanes_in_use'[c] = Cardinality(Wrapped(c)') + Cardinality(Holders(c)')
                        /\ prepares_in_use'[c] = Cardinality(Holders(c)')
      BY DEF LanesAccounted
    <2>1. Wrapped(c)' = Wrapped(c)
      BY <1>0 DEF Wrapped
    <2>2. /\ lanes_in_use[c] = Cardinality(Wrapped(c)) + Cardinality(Holders(c))
          /\ prepares_in_use[c] = Cardinality(Holders(c))
      BY DEF Inv, LanesAccounted
    <2>3. CASE c # b
      <3>1. /\ Holders(c)' = Holders(c)
            /\ lanes_in_use'[c] = lanes_in_use[c] /\ prepares_in_use'[c] = prepares_in_use[c]
        BY <2>3, <1>0 DEF Holders, Inv, TypeOK
      <3> QED BY <3>1, <2>1, <2>2
    <2>4. CASE c = b
      <3>1. Holders(c)' = Holders(c) \cup {p} /\ p \notin Holders(c)
        BY <2>4, <1>0 DEF Holders, Inv, TypeOK
      <3>2. Cardinality(Holders(c)') = Cardinality(Holders(c)) + 1
        BY <3>1, HoldersFinite, FS_AddElement
      <3>4. /\ lanes_in_use'[c] = lanes_in_use[c] + 1
            /\ prepares_in_use'[c] = prepares_in_use[c] + 1
        BY <2>4, <1>0, <1>b DEF Inv, TypeOK
      <3> QED BY <3>2, <3>4, <2>1, <2>2, HoldersFinite
    <2> QED BY <2>3, <2>4
  <1>6. NoMissedPrepare'
    <2> SUFFICES ASSUME NEW q \in Preparers, preparer'[q] = "asleep", MayPrepare(Home[q])'
                 PROVE  owing[Home[q]] # {}
      BY <1>0 DEF NoMissedPrepare
    <2>1. Home[q] \in Backends /\ preparer[q] = "asleep"
      BY <1>0, HomeAssumption DEF Inv, TypeOK
    <2>2. MayPrepare(Home[q])
      BY <2>1, <1>0, <1>b, <1>c, LaneCounts
         DEF MayPrepare, Inv, TypeOK, LaneCount, PrepareLaneCount
    <2> QED BY <2>1, <2>2 DEF Inv, NoMissedPrepare
  <1>7. FlagFirst' /\ ShutdownWakesPreparers'
    BY <1>0 DEF Inv, TypeOK, FlagFirst, ShutdownWakesPreparers
  <1> QED BY <1>1, <1>3, <1>4, <1>5, <1>6, <1>7 DEF Inv

LEMMA SleepPrepareInv == ASSUME Inv, NEW p \in Preparers, SleepPrepare(p) PROVE Inv'
  <1>0. /\ preparer[p] = "trying" /\ ~shutdown /\ ~MayPrepare(Home[p])
        /\ preparer' = [preparer EXCEPT ![p] = "asleep"]
        /\ UNCHANGED <<lanes_in_use, prepares_in_use, waiting, wrapped, owing, shutdown, closing>>
    BY DEF SleepPrepare
  <1>1. TypeOK' /\ IsFiniteSet(wrapped)' /\ Parked' /\ WorkConserving' /\ FlagFirst'
    BY <1>0 DEF Inv, TypeOK, Parked, WorkConserving, FlagFirst
  <1>2. LanesAccounted' /\ LaneLimit'
    BY <1>0, SameHolders DEF Inv, TypeOK
  <1>3. NoMissedPrepare'
    BY <1>0 DEF Inv, TypeOK, NoMissedPrepare, MayPrepare
  <1>4. ShutdownWakesPreparers'
    BY <1>0, HomeAssumption DEF Inv, TypeOK, ShutdownWakesPreparers, FlagFirst
  <1> QED BY <1>1, <1>2, <1>3, <1>4 DEF Inv

(* A permit given back: its thread leaves Holders, whichever way the lane  *)
(* goes.                                                                   *)
LEMMA PermitReturned ==
  ASSUME Inv, NEW p \in Preparers, NEW b \in Backends, Home[p] = b,
         preparer[p] = "holding", preparer' = [preparer EXCEPT ![p] = "out"]
  PROVE  /\ \A c \in Backends : c # b => Holders(c)' = Holders(c)
         /\ Cardinality(Holders(b)) >= 1
         /\ Cardinality(Holders(b)') = Cardinality(Holders(b)) - 1
  <1>1. \A c \in Backends : c # b => Holders(c)' = Holders(c)
    BY DEF Holders, Inv, TypeOK
  <1>2. Holders(b)' = Holders(b) \ {p} /\ p \in Holders(b)
    BY DEF Holders, Inv, TypeOK
  <1>3. Cardinality(Holders(b) \ {p}) = Cardinality(Holders(b)) - 1
    BY <1>2, HoldersFinite, FS_RemoveElement
  <1>4. Cardinality(Holders(b)) # 0
    BY <1>2, HoldersFinite, FS_EmptySet
  <1> QED BY <1>1, <1>2, <1>3, <1>4, HoldersFinite

LEMMA FinishPrepareInv == ASSUME Inv, NEW p \in Preparers, FinishPrepare(p) PROVE Inv'
  <1> DEFINE b == Home[p]
             h == Head(waiting[b])
             rest == Tail(waiting[b])
             idle == waiting[b] = <<>>
  <1>b. b \in Backends
    BY HomeAssumption
  <1>0. /\ preparer[p] = "holding"
        /\ preparer' = [preparer EXCEPT ![p] = "out"]
        /\ prepares_in_use' = [prepares_in_use EXCEPT ![b] = SaturatingDec(@)]
        /\ lanes_in_use' = [lanes_in_use EXCEPT ![b] =
                              SaturatingDec(@) + (IF idle THEN 0 ELSE 1)]
        /\ waiting' = [waiting EXCEPT ![b] = IF @ = <<>> THEN @ ELSE Tail(@)]
        /\ idle => wrapped' = wrapped
        /\ ~idle => wrapped' = wrapped \cup {h}
        /\ owing' = [owing EXCEPT ![b] = @ \cup {p}]
        /\ UNCHANGED <<shutdown, closing>>
    BY DEF FinishPrepare
  <1>p. ~idle => /\ h \in Task /\ h \notin wrapped /\ Home[h] = b
                 /\ rest \in Seq(Task)
                 /\ \A i \in 1..Len(rest) : Home[rest[i]] = b /\ rest[i] \notin wrapped \cup {h}
                 /\ \A i, j \in 1..Len(rest) : rest[i] = rest[j] => i = j
    BY <1>b, PopHead
  <1>w. waiting' = [waiting EXCEPT ![b] = IF idle THEN waiting[b] ELSE rest]
    BY <1>0, <1>b DEF Inv, TypeOK
  <1>c. /\ \A c \in Backends : lanes_in_use[c] \in Nat /\ prepares_in_use[c] \in Nat
        /\ SaturatingDec(lanes_in_use[b]) \in Nat /\ SaturatingDec(prepares_in_use[b]) \in Nat
    BY <1>b DEF Inv, TypeOK, SaturatingDec
  <1>r. /\ \A c \in Backends : c # b => Holders(c)' = Holders(c)
        /\ Cardinality(Holders(b)) >= 1
        /\ Cardinality(Holders(b)') = Cardinality(Holders(b)) - 1
    BY <1>0, <1>b, PermitReturned
  <1>a. \A c \in Backends :
          /\ lanes_in_use[c] = Cardinality(Wrapped(c)) + Cardinality(Holders(c))
          /\ prepares_in_use[c] = Cardinality(Holders(c))
          /\ Cardinality(Wrapped(c)) \in Nat /\ Cardinality(Holders(c)) \in Nat
    BY HoldersFinite DEF Inv, LanesAccounted
  <1>d. /\ lanes_in_use'[b] = lanes_in_use[b] - (IF idle THEN 1 ELSE 0)
        /\ prepares_in_use'[b] = prepares_in_use[b] - 1
        /\ lanes_in_use[b] >= 1 /\ prepares_in_use[b] >= 1
    BY <1>0, <1>a, <1>b, <1>c, <1>r DEF Inv, TypeOK, SaturatingDec
  <1>e. \A c \in Backends : c # b => /\ lanes_in_use'[c] = lanes_in_use[c]
                                     /\ prepares_in_use'[c] = prepares_in_use[c]
                                     /\ waiting'[c] = waiting[c]
    BY <1>0, <1>w DEF Inv, TypeOK
  <1>f. waiting'[b] = IF idle THEN waiting[b] ELSE rest
    BY <1>w, <1>b DEF Inv, TypeOK
  <1> HIDE DEF h, rest, idle
  <1>1. TypeOK'
    <2>1. wrapped' \in SUBSET Task
      BY <1>0, <1>p DEF Inv, TypeOK
    <2>2. waiting' \in [Backends -> Seq(Task)]
      BY <1>w, <1>b, <1>p DEF Inv, TypeOK
    <2> QED BY <2>1, <2>2, <1>0, <1>b, <1>c DEF Inv, TypeOK
  <1>2. IsFiniteSet(wrapped)'
    BY <1>0, FS_AddElement DEF Inv
  <1>3. Parked'
    <2> SUFFICES ASSUME NEW c \in Backends
                 PROVE  /\ \A i \in 1..Len(waiting'[c]) : /\ Home[waiting'[c][i]] = c
                                                          /\ waiting'[c][i] \notin wrapped'
                        /\ \A i, j \in 1..Len(waiting'[c]) :
                             waiting'[c][i] = waiting'[c][j] => i = j
      BY DEF Parked
    <2>1. CASE c = b /\ ~idle
      BY <2>1, <1>0, <1>p, <1>f
    <2>2. CASE c # b \/ idle
      <3>1. waiting'[c] = waiting[c]
        BY <2>2, <1>e, <1>f
      <3>2. \A i \in 1..Len(waiting[c]) : Home[waiting[c][i]] = c /\ waiting[c][i] \notin wrapped'
        BY <2>2, <1>0, <1>p DEF Inv, Parked
      <3> QED BY <3>1, <3>2 DEF Inv, Parked
    <2> QED BY <2>1, <2>2
  <1>4. WorkConserving'
    <2> SUFFICES ASSUME NEW c \in Backends, waiting'[c] # <<>>
                 PROVE  lanes_in_use'[c] = LaneCount(c)
      BY DEF WorkConserving, LaneCount
    <2>1. CASE c # b
      BY <2>1, <1>e DEF Inv, WorkConserving
    <2>2. CASE c = b
      <3>1. ~idle
        BY <2>2, <1>f DEF idle
      <3> QED BY <2>2, <3>1, <1>c, <1>d DEF Inv, WorkConserving, idle
    <2> QED BY <2>1, <2>2
  <1>5. LaneLimit'
    <2> SUFFICES ASSUME NEW c \in Backends
                 PROVE  /\ lanes_in_use'[c] <= LaneCount(c)
                        /\ prepares_in_use'[c] <= PrepareLaneCount(c)
      BY DEF LaneLimit, LaneCount, PrepareLaneCount
    <2>1. /\ lanes_in_use[c] <= LaneCount(c) /\ prepares_in_use[c] <= PrepareLaneCount(c)
          /\ LaneCount(c) \in Nat /\ PrepareLaneCount(c) \in Nat
      BY LaneCounts DEF Inv, LaneLimit
    <2> QED BY <2>1, <1>c, <1>d, <1>e
  <1>6. LanesAccounted'
    <2> SUFFICES ASSUME NEW c \in Backends
                 PROVE  /\ lanes_in_use'[c] = Cardinality(Wrapped(c)') + Cardinality(Holders(c)')
                        /\ prepares_in_use'[c] = Cardinality(Holders(c)')
      BY DEF LanesAccounted
    <2>1. CASE c # b
      <3>1. Wrapped(c)' = Wrapped(c)
        BY <2>1, <1>0, <1>p DEF Wrapped
      <3> QED BY <2>1, <3>1, <1>a, <1>e, <1>r
    <2>2. CASE c = b /\ idle
      <3>1. Wrapped(c)' = Wrapped(c)
        BY <2>2, <1>0 DEF Wrapped
      <3> QED BY <2>2, <3>1, <1>a, <1>d, <1>r
    <2>3. CASE c = b /\ ~idle
      <3>1. Wrapped(c)' = Wrapped(c) \cup {h} /\ h \notin Wrapped(c)
        BY <2>3, <1>0, <1>p DEF Wrapped
      <3>2. Cardinality(Wrapped(c)') = Cardinality(Wrapped(c)) + 1
        BY <3>1, HoldersFinite, FS_AddElement
      <3> QED BY <2>3, <3>2, <1>a, <1>d, <1>r
    <2> QED BY <2>1, <2>2, <2>3
  <1>7. NoMissedPrepare'
    <2> SUFFICES ASSUME NEW q \in Preparers, preparer'[q] = "asleep", MayPrepare(Home[q])'
                 PROVE  owing'[Home[q]] # {}
      BY DEF NoMissedPrepare
    <2>1. Home[q] \in Backends /\ preparer[q] = "asleep"
      BY <1>0, HomeAssumption DEF Inv, TypeOK
    <2>2. CASE Home[q] = b
      BY <2>2, <1>0, <1>b DEF Inv, TypeOK
    <2>3. CASE Home[q] # b
      <3>1. MayPrepare(Home[q])
        BY <2>1, <2>3, <1>e DEF MayPrepare, LaneCount, PrepareLaneCount
      <3> QED BY <2>1, <2>3, <3>1, <1>0 DEF Inv, TypeOK, NoMissedPrepare
    <2> QED BY <2>2, <2>3
  <1>8. FlagFirst' /\ ShutdownWakesPreparers'
    BY <1>0 DEF Inv, TypeOK, FlagFirst, ShutdownWakesPreparers
  <1> QED BY <1>1, <1>2, <1>3, <1>4, <1>5, <1>6, <1>7, <1>8 DEF Inv

LEMMA NotifyInv ==
  ASSUME Inv, NEW b \in Backends, NEW a \in Agents \cup Preparers, NotifyPreparers(a, b)
  PROVE  Inv'
  <1>0. /\ owing' = [owing EXCEPT ![b] = @ \ {a}]
        /\ preparer' = Wake(b)
        /\ UNCHANGED <<lanes_in_use, prepares_in_use, waiting, wrapped, shutdown, closing>>
    BY DEF NotifyPreparers
  <1>1. TypeOK' /\ IsFiniteSet(wrapped)' /\ Parked' /\ WorkConserving' /\ FlagFirst'
    BY <1>0 DEF Inv, TypeOK, Parked, WorkConserving, FlagFirst, Wake
  <1>2. LanesAccounted' /\ LaneLimit'
    BY <1>0, SameHolders DEF Inv, TypeOK, Wake
  <1>3. NoMissedPrepare' /\ ShutdownWakesPreparers'
    BY <1>0, HomeAssumption
       DEF Inv, TypeOK, NoMissedPrepare, ShutdownWakesPreparers, MayPrepare, Wake
  <1> QED BY <1>1, <1>2, <1>3 DEF Inv

LEMMA SetShutdownInv == ASSUME Inv, SetShutdown PROVE Inv'
  <1>1. TypeOK' /\ IsFiniteSet(wrapped)' /\ Parked' /\ WorkConserving' /\ FlagFirst'
    BY DEF Inv, TypeOK, Parked, WorkConserving, FlagFirst, SetShutdown
  <1>2. LanesAccounted' /\ LaneLimit'
    BY SameHolders DEF Inv, SetShutdown
  <1>3. NoMissedPrepare' /\ ShutdownWakesPreparers'
    BY DEF Inv, NoMissedPrepare, ShutdownWakesPreparers, MayPrepare, SetShutdown
  <1> QED BY <1>1, <1>2, <1>3 DEF Inv

(* Draining can only empty a queue whose lanes are all taken, so it makes  *)
(* no sleeping prepare call eligible.                                      *)
LEMMA DrainInv == ASSUME Inv, NEW b \in Backends, Drain(b) PROVE Inv'
  <1>0. /\ shutdown /\ closing[b] = "open"
        /\ closing' = [closing EXCEPT ![b] = "drained"]
        /\ waiting' = [waiting EXCEPT ![b] = <<>>]
        /\ UNCHANGED <<lanes_in_use, prepares_in_use, wrapped, preparer, owing, shutdown>>
    BY DEF Drain
  <1>1. TypeOK'
    BY <1>0, EmptySeq DEF Inv, TypeOK
  <1>2. IsFiniteSet(wrapped)' /\ Parked' /\ WorkConserving' /\ FlagFirst'
    BY <1>0 DEF Inv, TypeOK, Parked, WorkConserving, FlagFirst
  <1>3. LanesAccounted' /\ LaneLimit'
    BY <1>0, SameHolders DEF Inv
  <1>4. NoMissedPrepare'
    <2> SUFFICES ASSUME NEW p \in Preparers, preparer[p] = "asleep", MayPrepare(Home[p])'
                 PROVE  owing[Home[p]] # {}
      BY <1>0 DEF NoMissedPrepare
    <2>1. Home[p] \in Backends /\ LaneCount(Home[p]) \in Nat /\ lanes_in_use[Home[p]] \in Nat
      BY HomeAssumption, LaneCounts DEF Inv, TypeOK
    <2>2. lanes_in_use[Home[p]] < LaneCount(Home[p])
      BY <1>0 DEF MayPrepare
    <2>3. waiting[Home[p]] = <<>>
      BY <2>1, <2>2 DEF Inv, WorkConserving
    <2>4. MayPrepare(Home[p])
      BY <1>0, <2>3 DEF MayPrepare
    <2> QED BY <2>4 DEF Inv, NoMissedPrepare
  <1>5. ShutdownWakesPreparers'
    BY <1>0, HomeAssumption DEF Inv, TypeOK, ShutdownWakesPreparers
  <1> QED BY <1>1, <1>2, <1>3, <1>4, <1>5 DEF Inv

LEMMA CloseBackendInv == ASSUME Inv, NEW b \in Backends, CloseBackend(b) PROVE Inv'
  <1>0. /\ closing[b] = "drained"
        /\ closing' = [closing EXCEPT ![b] = "closed"]
        /\ preparer' = Wake(b)
        /\ UNCHANGED <<lanes_in_use, prepares_in_use, waiting, wrapped, owing, shutdown>>
    BY DEF CloseBackend
  <1>1. TypeOK' /\ IsFiniteSet(wrapped)' /\ Parked' /\ WorkConserving' /\ FlagFirst'
    BY <1>0 DEF Inv, TypeOK, Parked, WorkConserving, FlagFirst, Wake
  <1>2. LanesAccounted' /\ LaneLimit'
    BY <1>0, SameHolders DEF Inv, TypeOK, Wake
  <1>3. NoMissedPrepare'
    BY <1>0 DEF Inv, TypeOK, NoMissedPrepare, MayPrepare, Wake
  <1>4. ShutdownWakesPreparers'
    BY <1>0, HomeAssumption DEF Inv, TypeOK, ShutdownWakesPreparers, Wake
  <1> QED BY <1>1, <1>2, <1>3, <1>4 DEF Inv

(* Every step keeps the invariant.                                         *)
LEMMA StepInv == Inv /\ [Next]_vars => Inv'
  <1> SUFFICES ASSUME Inv, [Next]_vars PROVE Inv'
    OBVIOUS
  <1>1. ASSUME NEW t \in Task, Grant(t) \/ Enqueue(t) PROVE Inv'
    BY <1>1, GrantInv, EnqueueInv
  <1>2. ASSUME NEW t \in Task, NEW a \in Agents, FinishLane(t, a) PROVE Inv'
    BY <1>2, HandLaneInv, FreeLaneInv DEF FinishLane
  <1>3. ASSUME NEW p \in Preparers, CallPrepare(p) \/ RefusePrepare(p) \/ SpuriousWake(p)
        PROVE  Inv'
    BY <1>3, PrepareStep DEF CallPrepare, RefusePrepare, SpuriousWake, Inv, TypeOK
  <1>4. ASSUME NEW p \in Preparers, AcquirePrepare(p) PROVE Inv'
    BY <1>3, <1>4, HoldPrepareInv, SleepPrepareInv DEF AcquirePrepare
  <1>5. ASSUME NEW p \in Preparers, FinishPrepare(p) PROVE Inv'
    BY <1>5, FinishPrepareInv
  <1>6. ASSUME NEW b \in Backends, NEW a \in Agents \cup Preparers, NotifyPreparers(a, b)
        PROVE  Inv'
    BY <1>6, NotifyInv
  <1>7. CASE SetShutdown
    BY <1>7, SetShutdownInv
  <1>8. ASSUME NEW b \in Backends, Drain(b) \/ CloseBackend(b) PROVE Inv'
    BY <1>8, DrainInv, CloseBackendInv
  <1>9. CASE UNCHANGED vars
    <2>1. LanesAccounted' /\ LaneLimit'
      BY <1>9, SameHolders DEF Inv, vars
    <2> QED BY <1>9, <2>1 DEF Inv, vars, TypeOK, Parked, WorkConserving, NoMissedPrepare,
                              MayPrepare, FlagFirst, ShutdownWakesPreparers
  <1> QED BY <1>1, <1>2, <1>3, <1>4, <1>5, <1>6, <1>7, <1>8, <1>9 DEF Next

THEOREM Invariance == Spec => []Inv
  BY InitInv, StepInv, PTL DEF Spec

(* The state of every registered backend stays well typed.                 *)
THEOREM TypeCorrect == Spec => []TypeOK
  <1>1. Inv => TypeOK
    BY DEF Inv
  <1> QED BY <1>1, Invariance, PTL

(* No path of schedule, finish_lane, finish_prepare or shutdown leaks a    *)
(* lane or frees one twice.                                                *)
THEOREM LanesAreAccounted == Spec => []LanesAccounted
  <1>1. Inv => LanesAccounted
    BY DEF Inv
  <1> QED BY <1>1, Invariance, PTL

(* The lane counts given at registration bound what runs on a backend.     *)
THEOREM LanesBounded == Spec => []LaneBudget
  <1>1. Inv => LaneBudget
    BY HoldersFinite, LaneCounts DEF Inv, LaneLimit, LanesAccounted, LaneBudget
  <1> QED BY <1>1, Invariance, PTL

(* No lane stays free while a stage task is parked for it.                 *)
THEOREM LanesConserved == Spec => []WorkConserving
  <1>1. Inv => WorkConserving
    BY DEF Inv
  <1> QED BY <1>1, Invariance, PTL

(* acquire_prepare loses no wakeup: neither to a lane that is freed nor to *)
(* a shutdown.                                                             *)
THEOREM PreparersWoken == Spec => []PreparersAwake
  <1>1. Inv => PreparersAwake
    BY DEF Inv, PreparersAwake
  <1> QED BY <1>1, Invariance, PTL

(* schedule, finish_lane and finish_prepare serve a backend's tasks in the *)
(* order they were parked.                                                 *)
THEOREM FirstComeFirstServed == Spec => NoOvertaking
  <1> DEFINE Fair == \A t \in wrapped' \ wrapped : \/ waiting[Home[t]] = <<>>
                                                   \/ t = Head(waiting[Home[t]])
  <1>1. Inv /\ [Next]_vars => [Fair]_vars
    <2> SUFFICES ASSUME Inv, Next, NEW t \in wrapped' \ wrapped
                 PROVE  waiting[Home[t]] = <<>> \/ t = Head(waiting[Home[t]])
      OBVIOUS
    <2>1. ASSUME NEW u \in Task, Grant(u) PROVE waiting[Home[t]] = <<>>
      <3>1. /\ t = u /\ Home[u] \in Backends
            /\ lanes_in_use[Home[u]] \in Nat /\ LaneCount(Home[u]) \in Nat
            /\ lanes_in_use[Home[u]] < LaneCount(Home[u])
        BY <2>1, HomeAssumption, LaneCounts DEF Grant, Inv, TypeOK
      <3> QED BY <3>1 DEF Inv, WorkConserving
    <2>2. ASSUME NEW u \in Task, HandLane(u) PROVE t = Head(waiting[Home[t]])
      <3>1. waiting[Home[u]] # <<>> /\ Home[u] \in Backends /\ t = Head(waiting[Home[u]])
        BY <2>2, HomeAssumption DEF HandLane
      <3> QED BY <3>1, PopHead
    <2>3. ASSUME NEW p \in Preparers, FinishPrepare(p) PROVE t = Head(waiting[Home[t]])
      <3>1. waiting[Home[p]] # <<>> /\ Home[p] \in Backends /\ t = Head(waiting[Home[p]])
        BY <2>3, HomeAssumption DEF FinishPrepare
      <3> QED BY <3>1, PopHead
    <2>4. ASSUME \/ \E u \in Task : Enqueue(u)
                 \/ \E u \in Task, a \in Agents : FreeLane(u, a)
                 \/ \E p \in Preparers : \/ CallPrepare(p) \/ AcquirePrepare(p)
                                         \/ SpuriousWake(p)
                 \/ \E b \in Backends, a \in Agents \cup Preparers : NotifyPreparers(a, b)
                 \/ SetShutdown
                 \/ \E b \in Backends : Drain(b) \/ CloseBackend(b)
          PROVE  FALSE
      BY <2>4 DEF Enqueue, FreeLane, CallPrepare, AcquirePrepare, RefusePrepare, HoldPrepare,
                  SleepPrepare, SpuriousWake, NotifyPreparers, SetShutdown, Drain, CloseBackend
    <2> QED BY <2>1, <2>2, <2>3, <2>4 DEF Next, FinishLane
  <1> QED BY <1>1, Invariance, PTL DEF Spec, NoOvertaking
=============================================================================
