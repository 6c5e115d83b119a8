------------------------- MODULE StackVersions_proofs -------------------------
(***************************************************************************)
(* Proofs about StackVersions, for any callers, jobs, changes and number   *)
(* of versions.                                                            *)
(***************************************************************************)
EXTENDS StackVersions, FiniteSetTheorems, SequenceTheorems, TLAPS

Places == {"out", "compiles", "pops", "prepares", "draws", "swaps", "gives back", "announces",
           "commits"}

(* Past the swap of the version.                                           *)
Swapped == {"gives back", "announces", "commits"}

(* The parts of TypeOK.                                                    *)
StateOK == /\ holder \in Callers \cup {Nobody} /\ poisoned \in BOOLEAN
           /\ state \in SUBSET Changes /\ edited \in BOOLEAN
CallsOK == /\ at \in [Callers -> Places] /\ updates \in SUBSET Callers
           /\ next \in [Callers -> SUBSET Changes]
           /\ hand \in [Callers -> Nat] /\ mine \in [Callers -> Nat]
SwapOK == /\ nextId \in Nat /\ writer \in Callers \cup {Nobody}
          /\ current \in Versions /\ announced \in Versions
          /\ content \in [Versions -> SUBSET Changes] /\ prepared \in [Versions -> Nat]
PoolOK == pool \in Seq(Nat) /\ spare \in Nat /\ made \in Nat
JobsOK == /\ phase \in [Jobs -> {"out", "asks", "runs", "drops", "over"}]
          /\ version \in [Jobs -> 0..MaxVersion] /\ reported \in [Jobs -> 0..MaxVersion]
          /\ floor \in [Jobs -> 0..MaxVersion]
HistOK == returned \in Versions /\ peak \in Nat

Typed == StateOK /\ CallsOK /\ SwapOK /\ PoolOK /\ JobsOK /\ HistOK

(* A caller in the middle of a call, and no other, holds the planner state *)
(* through it, and the version lock from its swap to the announcement.     *)
Locked ==
  \A c \in Callers : /\ at[c] # "out" <=> holder = c
                     /\ at[c] \in {"gives back", "announces"} <=> writer = c

(* The ids: drawn in order under the lock of the planner state, and so     *)
(* also put in place and announced in order.                               *)
Numbered ==
  /\ nextId <= MaxVersion + 1 /\ current < nextId
  /\ \A c \in Callers : /\ at[c] = "swaps" => current < mine[c] /\ mine[c] < nextId
                        /\ at[c] \in Swapped => mine[c] = current
  /\ announced <= current
  /\ writer = Nobody => announced = current
  /\ returned <= current

(* What a job has taken, been told and asked for.                          *)
Taken == \A j \in Jobs :
  /\ phase[j] \in {"runs", "drops"} <=> version[j] # 0
  /\ version[j] <= announced
  /\ floor[j] <= returned
  /\ version[j] # 0 => floor[j] <= version[j]
  /\ reported[j] # 0 => version[j] # 0 /\ version[j] <= reported[j]
  /\ phase[j] = "drops" => version[j] # current

(* What a caller compiles, and what it puts in place.                      *)
Served ==
  /\ \A c \in Callers : /\ at[c] # "out" /\ c \notin updates => next[c] = state
                        /\ at[c] \in Swapped => content[current] = next[c]
  /\ (\A c \in Callers : at[c] \notin Swapped) /\ ~edited => content[current] = state

Good == Typed /\ Locked /\ Numbered /\ Taken /\ Served

LEMMA VersionsAreNats == /\ MaxVersion \in Nat /\ 1 \in Versions /\ Versions \subseteq Nat
                         /\ Versions \subseteq 0..MaxVersion /\ 0 \in 0..MaxVersion
                         /\ \A v \in Nat : v # 0 /\ v < MaxVersion + 1 => v \in Versions
BY VersionAssumption DEF Versions

(* What a step leaves alone keeps its type.                                *)
LEMMA KeptTypes ==
  /\ StateOK /\ UNCHANGED stateVars => StateOK'
  /\ CallsOK /\ UNCHANGED callVars => CallsOK'
  /\ SwapOK /\ UNCHANGED swapVars => SwapOK'
  /\ PoolOK /\ UNCHANGED poolVars => PoolOK'
  /\ JobsOK /\ UNCHANGED jobVars => JobsOK'
  /\ HistOK /\ UNCHANGED histVars => HistOK'
<1>1. StateOK /\ UNCHANGED stateVars => StateOK'
  BY DEF StateOK, stateVars
<1>2. CallsOK /\ UNCHANGED callVars => CallsOK'
  BY DEF CallsOK, callVars
<1>3. SwapOK /\ UNCHANGED swapVars => SwapOK'
  BY DEF SwapOK, swapVars, Versions
<1>4. PoolOK /\ UNCHANGED poolVars => PoolOK'
  BY DEF PoolOK, poolVars
<1>5. JobsOK /\ UNCHANGED jobVars => JobsOK'
  BY DEF JobsOK, jobVars
<1>6. HistOK /\ UNCHANGED histVars => HistOK'
  BY DEF HistOK, histVars, Versions
<1> QED
  BY <1>1, <1>2, <1>3, <1>4, <1>5, <1>6

LEMMA InitGood == Init => Good
<1> SUFFICES ASSUME Init
             PROVE  Good
  OBVIOUS
<1>1. StateOK
  BY DEF Init, StateOK
<1>2. CallsOK
  BY DEF Init, CallsOK, Places
<1>3. SwapOK
  BY VersionsAreNats DEF Init, SwapOK
<1>4. PoolOK /\ HistOK
  BY VersionsAreNats DEF Init, PoolOK, HistOK
<1>5. JobsOK
  BY VersionsAreNats DEF Init, JobsOK
<1>6. Locked
  BY NobodyAssumption DEF Init, Locked
<1>7. Numbered
  BY VersionAssumption DEF Init, Numbered, Swapped
<1>8. Taken
  BY DEF Init, Taken
<1>9. Served
  BY VersionsAreNats DEF Init, Served, Swapped
<1> QED
  BY <1>1, <1>2, <1>3, <1>4, <1>5, <1>6, <1>7, <1>8, <1>9 DEF Good, Typed

(* Whoever holds the state is the only one in the middle of a call.        *)
LEMMA Alone ==
  ASSUME Typed, Locked
  PROVE  /\ holder = Nobody => \A d \in Callers : at[d] = "out"
         /\ \A c \in Callers : at[c] # "out" => \A d \in Callers : d # c => at[d] = "out"
BY NobodyAssumption DEF Locked, Typed

LEMMA EditStep ==
  ASSUME Good, NEW c \in Callers, NEW from \in SUBSET Changes, NEW changes \in SUBSET Changes,
         NEW failure, Edit(c, from, changes, failure)
  PROVE  Good'
<1>1. /\ at[c] = "out" /\ \A d \in Callers : at[d] = "out"
      /\ edited' /\ edited' \in BOOLEAN
      /\ UNCHANGED <<holder, callVars, swapVars, poolVars, jobVars, histVars>>
  BY Alone DEF Good, Edit, MayLock
<1>2. state' \in SUBSET Changes
  <2>1. CASE failure = "none"
    BY <2>1 DEF Edit
  <2>2. CASE failure # "none"
    BY <2>2 DEF Edit
  <2> QED
    BY <2>1, <2>2
<1>3. StateOK'
  BY <1>1, <1>2 DEF Good, Typed, StateOK, Edit
<1>4. Locked'
  BY <1>1 DEF Good, Locked, callVars, swapVars
<1>5. Numbered'
  BY <1>1 DEF Good, Numbered, callVars, swapVars, histVars
<1>6. Taken'
  BY <1>1 DEF Good, Taken, swapVars, jobVars, histVars
<1>7. Served'
  BY <1>1 DEF Good, Served, Swapped, callVars, swapVars
<1> QED
  BY <1>1, <1>3, <1>4, <1>5, <1>6, <1>7, KeptTypes DEF Good, Typed

(* recompile, and update, from the lock of the state on.                   *)
LEMMA BeginStep ==
  ASSUME Good, NEW c \in Callers, NEW planned \in SUBSET Changes,
         holder = Nobody, holder' = c,
         at' = [at EXCEPT ![c] = "compiles"],
         updates' \in SUBSET Callers, \A d \in Callers : d # c => (d \in updates' <=> d \in updates),
         next' = [next EXCEPT ![c] = planned],
         c \in updates' \/ planned = state,
         UNCHANGED <<poisoned, state, edited, hand, mine, swapVars, poolVars, jobVars, histVars>>
  PROVE  Good'
<1>1. \A d \in Callers : at[d] = "out"
  BY Alone DEF Good
<1>2. StateOK'
  BY DEF Good, Typed, StateOK
<1>3. CallsOK'
  BY DEF Good, Typed, CallsOK, Places
<1>4. at'[c] = "compiles" /\ next'[c] = planned /\ \A d \in Callers : d # c => at'[d] = "out"
  BY <1>1 DEF Good, Typed, CallsOK
<1>5. Locked'
  BY <1>1, <1>4, NobodyAssumption DEF Good, Locked, swapVars
<1>6. Numbered'
  BY <1>4 DEF Good, Numbered, Swapped, swapVars, histVars
<1>7. Taken'
  BY DEF Good, Taken, swapVars, jobVars, histVars
<1>8. Served'
  BY <1>1, <1>4 DEF Good, Served, Swapped, swapVars
<1> QED
  BY <1>2, <1>3, <1>5, <1>6, <1>7, <1>8, KeptTypes DEF Good, Typed

LEMMA FailStep ==
  ASSUME Good, NEW c \in Callers, NEW panic \in BOOLEAN,
         at[c] \in {"compiles", "prepares"}, Fail(c, panic), UNCHANGED spare
  PROVE  Good'
<1>1. /\ at[c] # "out" /\ writer # c /\ holder = c /\ holder' = Nobody
      /\ \A d \in Callers : d # c => at[d] = "out"
  BY Alone DEF Good, Locked, Fail
<1>2. StateOK'
  BY DEF Good, Typed, StateOK, Fail
<1>3. CallsOK'
  BY DEF Good, Typed, CallsOK, Places, Fail
<1>4. \A d \in Callers : at'[d] = "out"
  BY <1>1 DEF Good, Typed, CallsOK, Fail
<1>5. Locked'
  BY <1>1, <1>4, NobodyAssumption DEF Good, Locked, swapVars, Fail
<1>6. Numbered'
  BY <1>4 DEF Good, Numbered, Swapped, swapVars, histVars, Fail
<1>7. Taken'
  BY DEF Good, Taken, swapVars, jobVars, histVars, Fail
<1>8. Served'
  BY <1>1, <1>4 DEF Good, Served, Swapped, swapVars, Fail
<1>9. PoolOK'
  BY DEF Good, Typed, PoolOK, Fail
<1> QED
  BY <1>2, <1>3, <1>5, <1>6, <1>7, <1>8, <1>9, KeptTypes DEF Good, Typed, Fail

(* The pool and the scratches, with and without the new prepared state.    *)
LEMMA PrepareStep ==
  ASSUME Good, NEW c \in Callers, NEW from, NEW to,
         at[c] = from, at' = [at EXCEPT ![c] = to],
         \/ from \in {"compiles", "pops", "prepares"} /\ to \in {"pops", "prepares", "draws"}
         \/ from = "gives back" /\ to = "announces",
         hand' \in [Callers -> Nat], PoolOK',
         UNCHANGED <<stateVars, updates, next, mine, swapVars, jobVars, histVars>>
  PROVE  Good'
<1>1. CallsOK'
  BY DEF Good, Typed, CallsOK, Places
<1>2. at'[c] = to /\ \A d \in Callers : d # c => at'[d] = at[d]
  BY DEF Good, Typed, CallsOK
<1>3. Locked'
  BY <1>2 DEF Good, Locked, stateVars, swapVars
<1>4. Numbered'
  BY <1>2 DEF Good, Numbered, Swapped, swapVars, histVars
<1>5. Taken'
  BY DEF Good, Taken, swapVars, jobVars, histVars
<1>6. Served'
  BY <1>2 DEF Good, Served, Swapped, stateVars, swapVars
<1> QED
  BY <1>1, <1>3, <1>4, <1>5, <1>6, KeptTypes DEF Good, Typed

LEMMA DrawStep ==
  ASSUME Good, NEW c \in Callers, DrawId(c)
  PROVE  Good'
<1>1. /\ at[c] = "draws" /\ nextId \in Nat /\ current \in Nat /\ current < nextId
      /\ nextId <= MaxVersion /\ MaxVersion \in Nat
      /\ nextId' = nextId + 1 /\ current' = current /\ announced' = announced /\ writer' = writer
      /\ returned' = returned
      /\ \A d \in Callers : d # c => at[d] = "out"
  BY Alone, VersionsAreNats DEF Good, Typed, SwapOK, Numbered, histVars, DrawId
<1>2. at'[c] = "swaps" /\ mine'[c] = nextId /\ \A d \in Callers : d # c => at'[d] = "out"
  BY <1>1 DEF Good, Typed, CallsOK, DrawId
<1>3. CallsOK'
  BY <1>1 DEF Good, Typed, CallsOK, Places, DrawId
<1>4. SwapOK'
  BY <1>1 DEF Good, Typed, SwapOK, Versions, DrawId
<1>5. Locked'
  BY <1>1, <1>2 DEF Good, Locked, stateVars, DrawId
<1>6. Numbered'
  <2>1. \A d \in Callers : /\ at'[d] = "swaps" => current' < mine'[d] /\ mine'[d] < nextId'
                           /\ at'[d] \in Swapped => mine'[d] = current'
    <3>1. current' < mine'[c] /\ mine'[c] < nextId' /\ at'[c] \notin Swapped
      BY <1>1, <1>2 DEF Swapped
    <3>2. \A d \in Callers : d # c => at'[d] # "swaps" /\ at'[d] \notin Swapped
      BY <1>2 DEF Swapped
    <3> QED
      BY <3>1, <3>2
  <2>2. nextId' <= MaxVersion + 1 /\ current' < nextId'
    BY <1>1
  <2>3. /\ announced' <= current'
        /\ writer' = Nobody => announced' = current'
        /\ returned' <= current'
    BY <1>1 DEF Good, Numbered
  <2> QED
    BY <2>1, <2>2, <2>3 DEF Numbered
<1>7. Taken'
  BY DEF Good, Taken, jobVars, histVars, DrawId
<1>8. Served'
  BY <1>1, <1>2 DEF Good, Served, Swapped, stateVars, DrawId
<1> QED
  BY <1>3, <1>4, <1>5, <1>6, <1>7, <1>8, KeptTypes DEF Good, Typed, DrawId

(* The versions that jobs have are finitely many.                          *)
LEMMA AliveCounted ==
  ASSUME JobsOK, NEW v \in Versions
  PROVE  Cardinality({v} \cup Run \cup Dropped) \in Nat
<1>1. {v} \cup Run \cup Dropped \subseteq 0..MaxVersion
  BY VersionsAreNats DEF JobsOK, Run, Dropped
<1>2. IsFiniteSet(0..MaxVersion)
  BY VersionsAreNats, FS_Interval
<1>3. IsFiniteSet({v} \cup Run \cup Dropped)
  BY <1>1, <1>2, FS_Subset
<1> QED
  BY <1>3, FS_CardinalityType

LEMMA SwapStep ==
  ASSUME Good, NEW c \in Callers, Swap(c)
  PROVE  Good'
<1>1. /\ at[c] = "swaps" /\ holder = c /\ writer = Nobody
      /\ \A d \in Callers : d # c => at[d] = "out"
  BY Alone DEF Good, Locked, Swap
<1>2. /\ mine[c] \in Versions /\ current \in Nat /\ mine[c] \in Nat
      /\ current < mine[c] /\ mine[c] < nextId /\ announced = current
  <2>1. current \in Nat /\ mine[c] \in Nat /\ nextId \in Nat /\ MaxVersion \in Nat
    BY VersionsAreNats DEF Good, Typed, CallsOK, SwapOK
  <2>2. current < mine[c] /\ mine[c] < nextId /\ announced = current /\ nextId <= MaxVersion + 1
    BY <1>1 DEF Good, Numbered
  <2> QED
    BY <2>1, <2>2, VersionsAreNats
<1>3. at'[c] = "gives back" /\ \A d \in Callers : d # c => at'[d] = "out"
  BY <1>1 DEF Good, Typed, CallsOK, Swap
<1>4. CallsOK'
  <2>1. prepared[current] \in Nat
    BY DEF Good, Typed, SwapOK
  <2>2. hand' \in [Callers -> Nat]
    BY <2>1 DEF Good, Typed, CallsOK, Swap
  <2>3. at' \in [Callers -> Places]
    BY DEF Good, Typed, CallsOK, Places, Swap
  <2> QED
    BY <2>2, <2>3 DEF Good, Typed, CallsOK, Swap
<1>5. SwapOK'
  <2>1. content' \in [Versions -> SUBSET Changes]
    BY <1>2 DEF Good, Typed, CallsOK, SwapOK, Swap
  <2>2. prepared' \in [Versions -> Nat]
    BY <1>2 DEF Good, Typed, CallsOK, SwapOK, Swap
  <2> QED
    BY <1>2, <2>1, <2>2 DEF Good, Typed, SwapOK, Versions, Swap
<1>6. StateOK' /\ HistOK'
  <2>1. Cardinality({mine[c]} \cup Run \cup Dropped) \in Nat
    BY <1>2, AliveCounted DEF Good, Typed
  <2>2. HistOK'
    BY <2>1 DEF Good, Typed, HistOK, Versions, Swap
  <2> QED
    BY <2>2 DEF Good, Typed, StateOK, Swap
<1>7. Locked'
  BY <1>1, <1>3, NobodyAssumption DEF Good, Locked, Swap
<1>8. Numbered'
  <2>1. returned \in Nat /\ announced \in Nat
    BY VersionsAreNats DEF Good, Typed, SwapOK, HistOK
  <2>2. current' = mine[c] /\ mine' = mine /\ nextId' = nextId /\ announced' = announced /\ returned' = returned
    BY DEF Swap
  <2>3. writer' # Nobody
    BY NobodyAssumption DEF Swap
  <2>4. \A d \in Callers : /\ at'[d] = "swaps" => current' < mine'[d] /\ mine'[d] < nextId'
                           /\ at'[d] \in Swapped => mine'[d] = current'
    BY <1>3, <2>2 DEF Swapped
  <2>5. nextId <= MaxVersion + 1 /\ returned <= current
    BY DEF Good, Numbered
  <2>6. announced' <= current' /\ returned' <= current'
    BY <1>2, <2>1, <2>2, <2>5
  <2> QED
    BY <1>2, <2>2, <2>3, <2>4, <2>5, <2>6 DEF Numbered
<1>9. Taken'
  <2>1. \A j \in Jobs : version[j] \in Nat /\ version[j] # mine[c]
    BY <1>2, VersionsAreNats DEF Good, Typed, JobsOK, Taken
  <2> QED
    BY <2>1 DEF Good, Taken, jobVars, Swap
<1>s. Served'
  <2>1. content'[mine[c]] = next[c]
    BY <1>2 DEF Good, Typed, SwapOK, Swap
  <2> QED
    BY <1>1, <1>3, <2>1 DEF Good, Served, Swapped, Swap
<1> QED
  BY <1>4, <1>5, <1>6, <1>7, <1>8, <1>9, <1>s, KeptTypes DEF Good, Typed, Swap

LEMMA AnnounceStep ==
  ASSUME Good, NEW c \in Callers, Announce(c)
  PROVE  Good'
<1>1. /\ at[c] = "announces" /\ holder = c /\ writer = c /\ mine[c] = current
      /\ \A d \in Callers : d # c => at[d] = "out"
  BY Alone DEF Good, Locked, Numbered, Swapped, Announce
<1>2. at'[c] = "commits" /\ \A d \in Callers : d # c => at'[d] = "out"
  BY <1>1 DEF Good, Typed, CallsOK, Announce
<1>3. CallsOK'
  BY DEF Good, Typed, CallsOK, Places, Announce
<1>4. SwapOK'
  BY <1>1 DEF Good, Typed, SwapOK, Versions, Announce
<1>5. Locked'
  BY <1>1, <1>2, NobodyAssumption DEF Good, Locked, stateVars, Announce
<1>6. Numbered'
  <2>1. current \in Nat
    BY VersionsAreNats DEF Good, Typed, SwapOK
  <2>2. \A d \in Callers : /\ at'[d] = "swaps" => current' < mine'[d] /\ mine'[d] < nextId'
                           /\ at'[d] \in Swapped => mine'[d] = current'
    BY <1>1, <1>2 DEF Swapped, Announce
  <2>3. announced' = current' /\ announced' <= current'
    BY <1>1, <2>1 DEF Announce
  <2>4. nextId' <= MaxVersion + 1 /\ current' < nextId' /\ returned' <= current'
    BY DEF Good, Numbered, histVars, Announce
  <2> QED
    BY <2>2, <2>3, <2>4 DEF Numbered
<1>7. Taken'
  <2>1. \A j \in Jobs : version[j] <= current
    <3>1. \A j \in Jobs : version[j] \in Nat
      BY VersionsAreNats DEF Good, Typed, JobsOK
    <3>2. announced \in Nat /\ current \in Nat /\ announced <= current
      BY VersionsAreNats DEF Good, Typed, SwapOK, Numbered
    <3> QED
      BY <3>1, <3>2 DEF Good, Taken
  <2> QED
    BY <1>1, <2>1 DEF Good, Taken, jobVars, histVars, Announce
<1>8. Served'
  BY <1>1, <1>2 DEF Good, Served, Swapped, stateVars, Announce
<1> QED
  BY <1>3, <1>4, <1>5, <1>6, <1>7, <1>8, KeptTypes DEF Good, Typed, Announce

LEMMA CommitStep ==
  ASSUME Good, NEW c \in Callers, Commit(c)
  PROVE  Good'
<1>1. /\ at[c] = "commits" /\ holder = c /\ writer # c /\ mine[c] = current
      /\ content[current] = next[c]
      /\ \A d \in Callers : d # c => at[d] = "out"
      /\ c \notin updates => next[c] = state
  BY Alone DEF Good, Locked, Numbered, Served, Swapped, Commit
<1>2. \A d \in Callers : at'[d] = "out"
  BY <1>1 DEF Good, Typed, CallsOK, Commit
<1>3. CallsOK'
  BY DEF Good, Typed, CallsOK, Places, Commit
<1>4. StateOK'
  BY DEF Good, Typed, CallsOK, StateOK, Commit
<1>5. HistOK' /\ returned <= returned' /\ returned' <= current
  <2>1. current \in Versions /\ current \in Nat /\ returned \in Nat /\ returned <= current
    BY VersionsAreNats DEF Good, Typed, SwapOK, HistOK, Numbered
  <2> QED
    BY <1>1, <2>1 DEF Good, Typed, HistOK, Versions, Commit
<1>6. Locked'
  BY <1>1, <1>2, NobodyAssumption DEF Good, Locked, swapVars, Commit
<1>7. Numbered'
  BY <1>2, <1>5 DEF Good, Numbered, Swapped, swapVars, Commit
<1>8. Taken'
  <2>1. \A j \in Jobs : floor[j] \in Nat /\ returned \in Nat /\ returned' \in Nat
    BY <1>5, VersionsAreNats DEF Good, Typed, JobsOK, HistOK, Versions
  <2>2. \A j \in Jobs : floor[j] <= returned'
    BY <1>5, <2>1 DEF Good, Taken
  <2> QED
    BY <2>2 DEF Good, Taken, swapVars, jobVars, Commit
<1>9. Served'
  <2>1. state' = content[current]
    BY <1>1 DEF Commit
  <2> QED
    BY <1>2, <2>1 DEF Served, Swapped, swapVars, Commit
<1> QED
  BY <1>3, <1>4, <1>5, <1>6, <1>7, <1>8, <1>9, KeptTypes DEF Good, Typed, Commit

(* A job asks, takes, reads and lets go of its version.                    *)
LEMMA JobStep ==
  ASSUME Good, NEW j \in Jobs, Ask(j) \/ Take(j) \/ ReadId(j) \/ Release(j) \/ Drop(j)
  PROVE  Good'
<1>1. UNCHANGED <<stateVars, callVars, swapVars, histVars>>
  BY DEF Ask, Take, ReadId, Release, Drop
<1>2. Locked' /\ Numbered' /\ Served'
  <2>1. Locked'
    BY <1>1 DEF Good, Locked, stateVars, callVars, swapVars
  <2>2. Numbered'
    BY <1>1 DEF Good, Numbered, Swapped, callVars, swapVars, histVars
  <2>3. Served'
    BY <1>1 DEF Good, Served, Swapped, stateVars, callVars, swapVars
  <2> QED
    BY <2>1, <2>2, <2>3
<1>3. current \in Nat /\ returned \in Nat /\ announced \in Nat /\ returned <= current /\ current # 0
      /\ announced <= current
  BY VersionsAreNats DEF Good, Typed, SwapOK, HistOK, Numbered, Versions
<1>4. CASE Ask(j)
  <2>1. returned \in 0..MaxVersion
    BY VersionsAreNats DEF Good, Typed, HistOK
  <2>2. JobsOK'
    BY <1>4, <2>1 DEF Good, Typed, JobsOK, Ask
  <2>3. /\ version' = version /\ reported' = reported
        /\ floor'[j] = returned /\ phase'[j] = "asks" /\ phase[j] = "out"
        /\ \A k \in Jobs : k # j => phase'[k] = phase[k] /\ floor'[k] = floor[k]
    BY <1>4 DEF Good, Typed, JobsOK, Ask
  <2>4. Taken'
    BY <1>1, <1>3, <2>3 DEF Good, Taken, swapVars, histVars
  <2>5. PoolOK'
    BY <1>4, KeptTypes DEF Good, Typed, Ask
  <2> QED
    BY <1>1, <1>2, <2>2, <2>4, <2>5, KeptTypes DEF Good, Typed
<1>5. CASE Take(j)
  <2>1. current \in 0..MaxVersion
    BY VersionsAreNats DEF Good, Typed, SwapOK
  <2>2. JobsOK'
    BY <1>5, <2>1 DEF Good, Typed, JobsOK, Take
  <2>3. /\ floor' = floor /\ reported' = reported
        /\ version'[j] = current /\ phase'[j] = "runs" /\ phase[j] = "asks" /\ announced = current
        /\ \A k \in Jobs : k # j => phase'[k] = phase[k] /\ version'[k] = version[k]
    BY <1>5 DEF Good, Typed, JobsOK, Numbered, Take
  <2>4. \A k \in Jobs : floor[k] \in Nat
    BY VersionsAreNats DEF Good, Typed, JobsOK
  <2>5. Taken'
    BY <1>1, <1>3, <2>3, <2>4 DEF Good, Taken, swapVars, histVars
  <2>6. PoolOK'
    BY <1>5, KeptTypes DEF Good, Typed, Take
  <2> QED
    BY <1>1, <1>2, <2>2, <2>5, <2>6, KeptTypes DEF Good, Typed
<1>6. CASE ReadId(j)
  <2>1. announced \in 0..MaxVersion
    BY VersionsAreNats DEF Good, Typed, SwapOK
  <2>2. JobsOK'
    BY <1>6, <2>1 DEF Good, Typed, JobsOK, ReadId
  <2>3. /\ floor' = floor /\ version' = version /\ phase' = phase
        /\ reported'[j] = announced /\ phase[j] = "runs"
        /\ \A k \in Jobs : k # j => reported'[k] = reported[k]
    BY <1>6 DEF Good, Typed, JobsOK, ReadId
  <2>4. Taken'
    BY <1>1, <2>3 DEF Good, Taken, swapVars, histVars
  <2>5. PoolOK'
    BY <1>6, KeptTypes DEF Good, Typed, ReadId
  <2> QED
    BY <1>1, <1>2, <2>2, <2>4, <2>5, KeptTypes DEF Good, Typed
<1>7. ASSUME Forget(j)
      PROVE  JobsOK' /\ Taken'
  <2>1. JobsOK'
    BY <1>7, VersionsAreNats DEF Good, Typed, JobsOK, Forget
  <2>2. /\ phase'[j] = "over" /\ version'[j] = 0 /\ reported'[j] = 0 /\ floor'[j] = 0
        /\ \A k \in Jobs : k # j => /\ phase'[k] = phase[k] /\ version'[k] = version[k]
                                    /\ reported'[k] = reported[k] /\ floor'[k] = floor[k]
    BY <1>7 DEF Good, Typed, JobsOK, Forget
  <2>3. Taken'
    BY <1>1, <1>3, <2>2 DEF Good, Taken, swapVars, histVars
  <2> QED
    BY <2>1, <2>3
<1>8. CASE Release(j)
  <2>1. PoolOK'
    BY <1>8, KeptTypes DEF Good, Typed, Release
  <2>2. CASE Forget(j)
    BY <1>1, <1>2, <1>7, <2>1, <2>2, KeptTypes DEF Good, Typed
  <2>3. CASE ~Forget(j)
    <3>1. /\ phase[j] = "runs" /\ version[j] # current
          /\ phase' = [phase EXCEPT ![j] = "drops"]
          /\ UNCHANGED <<version, reported, floor>>
      BY <1>8, <2>3 DEF Release
    <3>2. JobsOK'
      BY <3>1 DEF Good, Typed, JobsOK
    <3>3. phase'[j] = "drops" /\ \A k \in Jobs : k # j => phase'[k] = phase[k]
      BY <3>1 DEF Good, Typed, JobsOK
    <3>4. Taken'
      BY <1>1, <3>1, <3>3 DEF Good, Taken, swapVars, histVars
    <3> QED
      BY <1>1, <1>2, <2>1, <3>2, <3>4, KeptTypes DEF Good, Typed
  <2> QED
    BY <2>2, <2>3
<1>9. CASE Drop(j)
  <2>1. version[j] \in Versions
    BY <1>9 DEF Good, Typed, JobsOK, Taken, Versions, Drop
  <2>2. prepared[version[j]] \in Nat
    BY <2>1 DEF Good, Typed, SwapOK
  <2>3. Append(pool, prepared[version[j]]) \in Seq(Nat)
    BY <2>2 DEF Good, Typed, PoolOK
  <2>4. PoolOK'
    BY <1>9, <2>3 DEF Good, Typed, PoolOK, Drop
  <2> QED
    BY <1>1, <1>2, <1>7, <1>9, <2>4, KeptTypes DEF Good, Typed, Drop
<1> QED
  BY <1>4, <1>5, <1>6, <1>8, <1>9

(* Every step of Next, in terms of the lemmas above.                       *)
LEMMA GoodStep == Good /\ [Next]_vars => Good'
<1> SUFFICES ASSUME Good, [Next]_vars
             PROVE  Good'
  OBVIOUS
<1>1. ASSUME NEW c \in Callers, Apply(c) \/ Replace(c)
      PROVE  Good'
  <2>1. {} \in SUBSET Changes /\ state \in SUBSET Changes
    BY DEF Good, Typed, StateOK
  <2> QED
    BY <1>1, <2>1, EditStep DEF Apply, Replace
<1>2. ASSUME NEW c \in Callers, Recompile(c) \/ Update(c)
      PROVE  Good'
  <2>1. CASE Recompile(c)
    <3>1. state \in SUBSET Changes /\ updates \ {c} \in SUBSET Callers
      BY DEF Good, Typed, StateOK, CallsOK
    <3> QED
      BY <2>1, <3>1, BeginStep DEF Recompile, MayLock
  <2>2. CASE Update(c)
    <3>1. PICK changes \in SUBSET Changes : next' = [next EXCEPT ![c] = state \cup changes]
      BY <2>2 DEF Update
    <3>2. state \cup changes \in SUBSET Changes /\ updates \cup {c} \in SUBSET Callers
      BY DEF Good, Typed, StateOK, CallsOK
    <3> QED
      BY <2>2, <3>1, <3>2, BeginStep DEF Update, MayLock
  <2> QED
    BY <1>2, <2>1, <2>2
<1>3. ASSUME NEW c \in Callers, CompileFails(c) \/ PrepareFails(c)
      PROVE  Good'
  BY <1>3, FailStep DEF CompileFails, PrepareFails
<1>4. ASSUME NEW c \in Callers, Compile(c) \/ Pop(c) \/ Prepare(c) \/ GiveBack(c)
      PROVE  Good'
  <2>1. hand \in [Callers -> Nat] /\ pool \in Seq(Nat) /\ spare \in Nat /\ made \in Nat
    BY DEF Good, Typed, CallsOK, PoolOK
  <2>2. CASE Compile(c)
    <3>1. hand' \in [Callers -> Nat] /\ PoolOK'
      BY <2>1, <2>2 DEF Compile, PoolOK
    <3>2. /\ at[c] = "compiles" /\ at' = [at EXCEPT ![c] = "pops"]
          /\ UNCHANGED <<stateVars, updates, next, mine, swapVars, jobVars, histVars>>
      BY <2>2 DEF Compile
    <3> QED
      BY <3>1, <3>2, PrepareStep
  <2>3. CASE Pop(c)
    <3>1. hand' \in [Callers -> Nat] /\ PoolOK'
      <4>1. CASE pool = <<>>
        BY <2>1, <2>3, <4>1 DEF Pop, PoolOK
      <4>2. CASE pool # <<>>
        <5>1. Len(pool) \in Nat \ {0} /\ pool[Len(pool)] \in Nat
          BY <2>1, <4>2
        <5>2. SubSeq(pool, 1, Len(pool) - 1) \in Seq(Nat)
          BY <2>1, <5>1
        <5> QED
          BY <2>1, <2>3, <4>2, <5>1, <5>2 DEF Pop, PoolOK
      <4> QED
        BY <4>1, <4>2
    <3> QED
      BY <2>3, <3>1, PrepareStep DEF Pop
  <2>4. CASE Prepare(c)
    <3>1. hand' \in [Callers -> Nat] /\ PoolOK'
      BY <2>1, <2>4 DEF Prepare, PoolOK
    <3> QED
      BY <2>4, <3>1, PrepareStep DEF Prepare
  <2>5. CASE GiveBack(c)
    <3>1. hand[c] \in Nat /\ Append(pool, hand[c]) \in Seq(Nat)
      BY <2>1
    <3>2. hand' \in [Callers -> Nat]
      BY <2>1, <2>5 DEF GiveBack
    <3>3. PoolOK'
      BY <2>1, <2>5, <3>1 DEF GiveBack, PoolOK
    <3> QED
      BY <2>5, <3>2, <3>3, PrepareStep DEF GiveBack
  <2> QED
    BY <1>4, <2>2, <2>3, <2>4, <2>5
<1>5. CASE UNCHANGED vars
  <2>1. UNCHANGED <<stateVars, callVars, swapVars, poolVars, jobVars, histVars>>
    BY <1>5 DEF vars
  <2>2. Typed'
    BY <2>1, KeptTypes DEF Good, Typed
  <2>3. Locked' /\ Numbered'
    BY <2>1 DEF Good, Locked, Numbered, Swapped, stateVars, callVars, swapVars, histVars
  <2>4. Taken' /\ Served'
    BY <2>1 DEF Good, Taken, Served, Swapped, stateVars, callVars, swapVars, jobVars, histVars
  <2> QED
    BY <2>2, <2>3, <2>4 DEF Good
<1> QED
  BY <1>1, <1>2, <1>3, <1>4, <1>5, DrawStep, SwapStep, AnnounceStep, CommitStep, JobStep
     DEF Next, CallerStep

LEMMA AlwaysGood == Spec => []Good
<1> QED
  BY InitGood, GoodStep, PTL DEF Spec
-----------------------------------------------------------------------------
(* PreparedExclusive, strengthened: prepared states are numbered as they   *)
(* are made, a caller has one only between Pop and GiveBack, and a version *)
(* that one job drops is no other job's.                                   *)
Counted == /\ \A v \in Alive : prepared[v] \in 1..made
           /\ Range(pool) \subseteq 1..made
           /\ \A c \in Callers : hand[c] \in 0..made
HandsAt == \A c \in Callers :
  /\ hand[c] # 0 => at[c] \in {"prepares", "draws", "swaps", "gives back"}
  /\ at[c] \in {"draws", "swaps"} => hand[c] # 0
LastToDrop == \A j, k \in Jobs :
  phase[j] = "drops" /\ j # k /\ phase[k] \in {"runs", "drops"} => version[k] # version[j]

Held == PreparedExclusive /\ Counted /\ HandsAt /\ LastToDrop

LEMMA InitHeld == Init => Held
<1> SUFFICES ASSUME Init
             PROVE  Held
  OBVIOUS
<1>1. Alive = {1} /\ prepared[1] = 1 /\ Range(pool) = {} /\ DOMAIN pool = {}
  BY VersionsAreNats DEF Init, Alive, Run, Dropped, Range
<1>2. PreparedExclusive /\ Counted
  BY <1>1 DEF Init, PreparedExclusive, Counted
<1>3. HandsAt /\ LastToDrop
  BY DEF Init, HandsAt, LastToDrop
<1> QED
  BY <1>2, <1>3 DEF Held

(* Nothing changes hands.                                                  *)
LEMMA NothingMoves ==
  ASSUME Held, UNCHANGED <<prepared, pool, made, hand>>, Alive' = Alive, HandsAt', LastToDrop'
  PROVE  Held'
<1>1. PreparedExclusive'
  BY DEF Held, PreparedExclusive, Range
<1>2. Counted'
  BY DEF Held, Counted, Range
<1> QED
  BY <1>1, <1>2 DEF Held

(* The jobs stay where they are.                                           *)
LEMMA JobsStay ==
  ASSUME Held, UNCHANGED jobVars
  PROVE  LastToDrop' /\ (UNCHANGED current => Alive' = Alive)
BY DEF Held, LastToDrop, Alive, Run, Dropped, jobVars

LEMMA CallerMovesHeld ==
  ASSUME Good, Held, NEW c \in Callers,
         \/ Apply(c) \/ Replace(c) \/ Recompile(c) \/ Update(c) \/ Compile(c) \/ DrawId(c)
         \/ Announce(c) \/ Commit(c)
  PROVE  Held'
<1>1. UNCHANGED <<prepared, pool, made, hand, current, jobVars>>
  BY DEF Apply, Replace, Edit, Recompile, Update, Compile, DrawId, Announce, Commit, callVars,
         swapVars, poolVars
<1>2. HandsAt'
  <2>1. /\ \A d \in Callers : d # c => at'[d] = at[d]
        /\ \/ at'[c] = at[c]
           \/ at[c] = "out" /\ at'[c] = "compiles"
           \/ at[c] = "compiles" /\ at'[c] = "pops"
           \/ at[c] = "draws" /\ at'[c] = "swaps"
           \/ at[c] = "announces" /\ at'[c] = "commits"
           \/ at[c] = "commits" /\ at'[c] = "out"
    BY DEF Good, Typed, CallsOK, Apply, Replace, Edit, Recompile, Update, Compile, DrawId, Announce,
           Commit, callVars
  <2> QED
    BY <1>1, <2>1 DEF Held, HandsAt
<1> QED
  BY <1>1, <1>2, JobsStay, NothingMoves

LEMMA FailHeld ==
  ASSUME Good, Held, NEW c \in Callers, CompileFails(c) \/ PrepareFails(c)
  PROVE  Held'
<1>1. /\ UNCHANGED <<prepared, pool, made, current, jobVars>>
      /\ hand' = [hand EXCEPT ![c] = 0] /\ at' = [at EXCEPT ![c] = "out"]
  BY DEF CompileFails, PrepareFails, Fail, swapVars
<1>2. /\ hand'[c] = 0 /\ at'[c] = "out"
      /\ \A d \in Callers : d # c => hand'[d] = hand[d] /\ at'[d] = at[d]
  BY <1>1 DEF Good, Typed, CallsOK
<1>3. Alive' = Alive /\ LastToDrop'
  BY <1>1, JobsStay
<1>4. HandsAt'
  BY <1>2 DEF Held, HandsAt
<1>5. PreparedExclusive'
  BY <1>1, <1>2, <1>3 DEF Held, PreparedExclusive, Range
<1>6. Counted'
  <2>1. made \in Nat
    BY DEF Good, Typed, PoolOK
  <2> QED
    BY <1>1, <1>2, <1>3, <2>1 DEF Held, Counted, Range
<1> QED
  BY <1>3, <1>4, <1>5, <1>6 DEF Held

LEMMA PopHeld ==
  ASSUME Good, Held, NEW c \in Callers, Pop(c)
  PROVE  Held'
<1>1. /\ UNCHANGED <<prepared, made, current, jobVars>>
      /\ at[c] = "pops" /\ at' = [at EXCEPT ![c] = "prepares"]
  BY DEF Pop, swapVars
<1>2. at'[c] = "prepares" /\ \A d \in Callers : d # c => at'[d] = at[d]
  BY <1>1 DEF Good, Typed, CallsOK
<1>3. Alive' = Alive /\ LastToDrop'
  BY <1>1, JobsStay
<1>4. CASE pool = <<>>
  <2>1. UNCHANGED <<pool, hand>>
    BY <1>4 DEF Pop
  <2>2. HandsAt'
    BY <1>2, <2>1 DEF Held, HandsAt
  <2> QED
    BY <1>1, <1>3, <2>1, <2>2, NothingMoves
<1>5. CASE pool # <<>>
  <2> DEFINE top == pool[Len(pool)]
  <2>1. pool \in Seq(Nat) /\ Len(pool) \in Nat \ {0}
    BY <1>5 DEF Good, Typed, PoolOK
  <2>2. /\ hand' = [hand EXCEPT ![c] = top] /\ pool' = SubSeq(pool, 1, Len(pool) - 1)
    BY <1>5 DEF Pop
  <2>3. /\ DOMAIN pool = 1..Len(pool) /\ DOMAIN pool' = 1..(Len(pool) - 1)
        /\ \A i \in 1..(Len(pool) - 1) : pool'[i] = pool[i]
    BY <2>1, <2>2
  <2>4. /\ hand'[c] = top /\ \A d \in Callers : d # c => hand'[d] = hand[d]
    BY <2>2 DEF Good, Typed, CallsOK
  <2>5. top \in Range(pool) /\ Range(pool') \subseteq Range(pool) /\ top \notin Range(pool')
    BY <2>1, <2>3, SMTT(40) DEF Held, PreparedExclusive, Range
  <2>6. top \in 1..made /\ top # 0 /\ made \in Nat
    BY <2>5 DEF Good, Typed, PoolOK, Held, Counted
  <2>7. HandsAt'
    BY <1>2, <2>4 DEF Held, HandsAt
  <2>8. Counted'
    BY <1>1, <1>3, <2>4, <2>5, <2>6 DEF Held, Counted
  <2>9. PreparedExclusive'
    <3>1. \A i, k \in DOMAIN pool' : pool'[i] = pool'[k] => i = k
      BY <2>1, <2>3, SMTT(40) DEF Held, PreparedExclusive
    <3>2. \A v, w \in Alive' : prepared'[v] = prepared'[w] => v = w
      BY <1>1, <1>3 DEF Held, PreparedExclusive
    <3>3. \A v \in Alive' : prepared'[v] \notin Range(pool') /\ prepared'[v] # top
      BY <1>1, <1>3, <2>5 DEF Held, PreparedExclusive
    <3>4. \A d \in Callers : d # c /\ hand[d] # 0 => hand[d] # top /\ hand[d] \notin Range(pool')
      BY <2>5 DEF Held, PreparedExclusive
    <3>5. \A d \in Callers : d # c /\ hand[d] # 0 => \A v \in Alive' : prepared'[v] # hand[d]
      BY <1>1, <1>3 DEF Held, PreparedExclusive
    <3>6. \A d, e \in Callers : d # e /\ d # c /\ e # c /\ hand[d] # 0 => hand[e] # hand[d]
      BY DEF Held, PreparedExclusive
    <3> QED
      BY <2>4, <2>5, <3>1, <3>2, <3>3, <3>4, <3>5, <3>6 DEF PreparedExclusive
  <2> QED
    BY <1>3, <2>7, <2>8, <2>9 DEF Held
<1> QED
  BY <1>4, <1>5

LEMMA PrepareHeld ==
  ASSUME Good, Held, NEW c \in Callers, Prepare(c)
  PROVE  Held'
<1>1. /\ UNCHANGED <<prepared, pool, current, jobVars>>
      /\ at[c] = "prepares" /\ at' = [at EXCEPT ![c] = "draws"]
  BY DEF Prepare, swapVars
<1>2. at'[c] = "draws" /\ \A d \in Callers : d # c => at'[d] = at[d]
  BY <1>1 DEF Good, Typed, CallsOK
<1>3. Alive' = Alive /\ LastToDrop'
  BY <1>1, JobsStay
<1>4. CASE hand[c] # 0
  <2>1. UNCHANGED <<hand, made>>
    BY <1>4 DEF Prepare
  <2>2. HandsAt'
    BY <1>2, <1>4, <2>1 DEF Held, HandsAt
  <2> QED
    BY <1>1, <1>3, <2>1, <2>2, NothingMoves
<1>5. CASE hand[c] = 0
  <2>1. made \in Nat /\ made' = made + 1 /\ hand' = [hand EXCEPT ![c] = made + 1]
    BY <1>5 DEF Good, Typed, PoolOK, Prepare
  <2>2. hand'[c] = made + 1 /\ \A d \in Callers : d # c => hand'[d] = hand[d]
    BY <2>1 DEF Good, Typed, CallsOK
  <2>3. /\ made + 1 \notin Range(pool) /\ \A v \in Alive : prepared[v] # made + 1
        /\ \A d \in Callers : hand[d] # made + 1
    BY <2>1 DEF Held, Counted
  <2>4. HandsAt'
    <3>1. at'[c] = "draws" /\ hand'[c] # 0
      BY <1>2, <2>1, <2>2
    <3> QED
      BY <1>2, <2>2, <3>1 DEF Held, HandsAt
  <2>5. Counted'
    <3>1. 1..made \subseteq 1..made' /\ 0..made \subseteq 0..made' /\ made + 1 \in 0..made'
      BY <2>1
    <3>2. Range(pool') = Range(pool)
      BY <1>1
    <3> QED
      BY <1>1, <1>3, <2>2, <3>1, <3>2 DEF Held, Counted
  <2>6. PreparedExclusive'
    <3>1. /\ \A i, k \in DOMAIN pool' : pool'[i] = pool'[k] => i = k
          /\ \A v, w \in Alive' : prepared'[v] = prepared'[w] => v = w
          /\ \A v \in Alive' : prepared'[v] \notin Range(pool')
      BY <1>1, <1>3 DEF Held, PreparedExclusive
    <3>2. \A d \in Callers : hand'[d] # 0 => hand'[d] \notin Range(pool')
      BY <1>1, <2>2, <2>3 DEF Held, PreparedExclusive
    <3>3. \A d \in Callers : hand'[d] # 0 => \A v \in Alive' : prepared'[v] # hand'[d]
      BY <1>1, <1>3, <2>2, <2>3 DEF Held, PreparedExclusive
    <3>4. \A d, e \in Callers : hand'[d] # 0 /\ e # d => hand'[e] # hand'[d]
      BY <2>2, <2>3 DEF Held, PreparedExclusive
    <3> QED
      BY <3>1, <3>2, <3>3, <3>4 DEF PreparedExclusive
  <2> QED
    BY <1>3, <2>4, <2>5, <2>6 DEF Held
<1> QED
  BY <1>4, <1>5

LEMMA SwapHeld ==
  ASSUME Good, Held, NEW c \in Callers, Swap(c)
  PROVE  Held'
<1> DEFINE old == prepared[current]
<1>1. /\ at[c] = "swaps" /\ at' = [at EXCEPT ![c] = "gives back"]
      /\ current' = mine[c] /\ UNCHANGED <<pool, made, jobVars>>
      /\ prepared' = [prepared EXCEPT ![mine[c]] = hand[c]]
      /\ hand' = [hand EXCEPT ![c] = IF current \in Run THEN 0 ELSE old]
  BY DEF Swap, poolVars
<1>2. at'[c] = "gives back" /\ \A d \in Callers : d # c => at'[d] = at[d]
  BY <1>1 DEF Good, Typed, CallsOK
<1>3. current \in Alive /\ \A v \in Alive : v \in Nat /\ v <= current
  <2>1. \A j \in Jobs : version[j] \in Nat /\ version[j] <= announced
    BY VersionsAreNats DEF Good, Typed, JobsOK, Taken
  <2>2. announced \in Nat /\ current \in Nat /\ announced <= current
    BY VersionsAreNats DEF Good, Typed, SwapOK, Numbered
  <2> QED
    BY <2>1, <2>2 DEF Alive, Run, Dropped
<1>4. mine[c] \in Versions /\ mine[c] \notin Alive
  <2>1. current \in Nat /\ mine[c] \in Nat /\ nextId \in Nat /\ MaxVersion \in Nat
    BY VersionsAreNats DEF Good, Typed, CallsOK, SwapOK
  <2>2. current < mine[c] /\ mine[c] < nextId /\ nextId <= MaxVersion + 1
    BY <1>1 DEF Good, Numbered
  <2> QED
    BY <1>3, <2>1, <2>2, VersionsAreNats
<1>5. /\ prepared'[mine[c]] = hand[c]
      /\ \A v \in Alive : v \in Versions /\ prepared'[v] = prepared[v]
  <2>1. Alive \subseteq Versions
    <3>1. \A j \in Jobs : phase[j] \in {"runs", "drops"} => version[j] \in Versions
      BY DEF Good, Typed, JobsOK, Taken, Versions
    <3> QED
      BY <3>1 DEF Good, Typed, SwapOK, Alive, Run, Dropped
  <2> QED
    BY <1>1, <1>4, <2>1 DEF Good, Typed, SwapOK
<1>6. Alive' \subseteq Alive \cup {mine[c]} /\ mine[c] \in Alive'
  BY <1>1 DEF Alive, Run, Dropped, jobVars
<1>7. current \notin Run => current \notin Alive'
  <2>1. current \notin Dropped /\ current # mine[c]
    BY <1>3, <1>4 DEF Good, Taken, Dropped
  <2> QED
    BY <1>1, <2>1 DEF Alive, Run, Dropped, jobVars
<1>8. /\ hand'[c] = IF current \in Run THEN 0 ELSE old
      /\ \A d \in Callers : d # c => hand'[d] = hand[d]
  BY <1>1 DEF Good, Typed, CallsOK
<1>9. hand[c] # 0
  BY <1>1 DEF Held, HandsAt
<1>a. HandsAt'
  BY <1>2, <1>8 DEF Held, HandsAt
<1>b. LastToDrop'
  BY <1>1, JobsStay
<1>c. Counted'
  <2>1. made \in Nat /\ hand[c] \in 1..made /\ old \in 1..made
    BY <1>3, <1>9 DEF Good, Typed, PoolOK, Held, Counted
  <2>2. \A v \in Alive' : prepared'[v] \in 1..made
    BY <1>5, <1>6, <2>1 DEF Held, Counted
  <2>3. \A d \in Callers : hand'[d] \in 0..made
    BY <1>8, <2>1 DEF Held, Counted
  <2> QED
    BY <1>1, <2>2, <2>3 DEF Held, Counted, Range
<1>d. PreparedExclusive'
  <2>1. \A i, k \in DOMAIN pool' : pool'[i] = pool'[k] => i = k
    BY <1>1 DEF Held, PreparedExclusive
  <2>2. \A v, w \in Alive' : prepared'[v] = prepared'[w] => v = w
    <3>1. \A v, w \in Alive : prepared'[v] = prepared'[w] => v = w
      BY <1>5 DEF Held, PreparedExclusive
    <3>2. \A v \in Alive : prepared'[v] # prepared'[mine[c]]
      BY <1>5, <1>9 DEF Held, PreparedExclusive
    <3> QED
      BY <1>6, <3>1, <3>2
  <2>3. \A v \in Alive' : prepared'[v] \notin Range(pool')
    <3>1. Range(pool') = Range(pool)
      BY <1>1
    <3>2. \A v \in Alive : prepared'[v] \notin Range(pool)
      BY <1>5 DEF Held, PreparedExclusive
    <3>3. prepared'[mine[c]] \notin Range(pool)
      BY <1>5, <1>9 DEF Held, PreparedExclusive
    <3> QED
      BY <1>6, <3>1, <3>2, <3>3
  <2>4. \A d \in Callers : hand'[d] # 0 => hand'[d] \notin Range(pool')
    <3>1. Range(pool') = Range(pool) /\ old \notin Range(pool)
      BY <1>1, <1>3 DEF Held, PreparedExclusive
    <3> QED
      BY <1>8, <3>1 DEF Held, PreparedExclusive
  <2>5. \A d \in Callers : hand'[d] # 0 => \A v \in Alive' : prepared'[v] # hand'[d]
    <3>1. \A d \in Callers : d # c /\ hand[d] # 0 => \A v \in Alive' : prepared'[v] # hand[d]
      <4>1. \A d \in Callers : d # c /\ hand[d] # 0 =>
              hand[c] # hand[d] /\ \A v \in Alive : prepared[v] # hand[d]
        BY DEF Held, PreparedExclusive
      <4> QED
        BY <1>5, <1>6, <4>1
    <3>2. ASSUME current \notin Run
          PROVE  \A v \in Alive' : prepared'[v] # old
      <4>1. \A v \in Alive : v # current => prepared'[v] # old
        BY <1>3, <1>5 DEF Held, PreparedExclusive
      <4>2. prepared'[mine[c]] # old
        BY <1>3, <1>5, <1>9 DEF Held, PreparedExclusive
      <4> QED
        BY <1>6, <1>7, <3>2, <4>1, <4>2
    <3> QED
      BY <1>8, <3>1, <3>2
  <2>6. \A d, e \in Callers : hand'[d] # 0 /\ e # d => hand'[e] # hand'[d]
    <3>1. \A d \in Callers : hand[d] # 0 => hand[d] # old
      BY <1>3 DEF Held, PreparedExclusive
    <3>2. \A d, e \in Callers : hand[d] # 0 /\ e # d => hand[e] # hand[d]
      BY DEF Held, PreparedExclusive
    <3> QED
      BY <1>8, <3>1, <3>2
  <2> QED
    BY <2>1, <2>2, <2>3, <2>4, <2>5, <2>6 DEF PreparedExclusive
<1> QED
  BY <1>a, <1>b, <1>c, <1>d DEF Held

LEMMA GiveBackHeld ==
  ASSUME Good, Held, NEW c \in Callers, GiveBack(c)
  PROVE  Held'
<1>1. /\ at[c] = "gives back" /\ at' = [at EXCEPT ![c] = "announces"]
      /\ UNCHANGED <<prepared, made, current, jobVars>>
      /\ pool' = IF hand[c] = 0 THEN pool ELSE Append(pool, hand[c])
      /\ hand' = [hand EXCEPT ![c] = 0]
  BY DEF GiveBack, swapVars
<1>2. /\ at'[c] = "announces" /\ \A d \in Callers : d # c => at'[d] = at[d]
      /\ hand'[c] = 0 /\ \A d \in Callers : d # c => hand'[d] = hand[d]
      /\ pool \in Seq(Nat) /\ made \in Nat /\ hand[c] \in Nat
  BY <1>1 DEF Good, Typed, CallsOK, PoolOK
<1>3. Alive' = Alive /\ LastToDrop'
  BY <1>1, JobsStay
<1>4. HandsAt'
  BY <1>2 DEF Held, HandsAt
<1>5. CASE hand[c] = 0
  <2>1. UNCHANGED <<prepared, pool, made>> /\ \A d \in Callers : hand'[d] = hand[d]
    BY <1>1, <1>2, <1>5
  <2>2. PreparedExclusive' /\ Counted'
    BY <1>3, <2>1 DEF Held, PreparedExclusive, Counted, Range
  <2> QED
    BY <1>3, <1>4, <2>2 DEF Held
<1>6. CASE hand[c] # 0
  <2>1. /\ DOMAIN pool = 1..Len(pool) /\ DOMAIN pool' = 1..(Len(pool) + 1) /\ Len(pool) \in Nat
        /\ pool'[Len(pool) + 1] = hand[c] /\ \A i \in DOMAIN pool : pool'[i] = pool[i]
    <3>1. pool' = Append(pool, hand[c])
      BY <1>1, <1>6
    <3> QED
      BY <1>2, <3>1
  <2>2. Range(pool') = Range(pool) \cup {hand[c]}
    BY <2>1 DEF Range
  <2>3. Counted'
    <3>1. hand[c] \in 1..made
      BY <1>2, <1>6 DEF Held, Counted
    <3>2. \A d \in Callers : hand'[d] \in 0..made
      BY <1>2 DEF Held, Counted
    <3> QED
      BY <1>1, <1>3, <2>2, <3>1, <3>2 DEF Held, Counted
  <2>4. \A i, k \in DOMAIN pool' : pool'[i] = pool'[k] => i = k
    <3>1. \A i, k \in DOMAIN pool : pool[i] = pool[k] => i = k
      BY DEF Held, PreparedExclusive
    <3>2. \A i \in DOMAIN pool : pool[i] # hand[c]
      BY <1>6 DEF Held, PreparedExclusive, Range
    <3> QED
      BY <2>1, <3>1, <3>2
  <2>5. \A v, w \in Alive' : prepared'[v] = prepared'[w] => v = w
    BY <1>1, <1>3 DEF Held, PreparedExclusive
  <2>6. \A v \in Alive' : prepared'[v] \notin Range(pool')
    BY <1>1, <1>3, <1>6, <2>2 DEF Held, PreparedExclusive
  <2>7. \A d \in Callers : hand'[d] # 0 => hand'[d] \notin Range(pool')
    <3>1. \A d \in Callers : d # c /\ hand[d] # 0 => hand[d] \notin Range(pool) /\ hand[d] # hand[c]
      BY DEF Held, PreparedExclusive
    <3> QED
      BY <1>2, <2>2, <3>1
  <2>8. \A d \in Callers : hand'[d] # 0 => \A v \in Alive' : prepared'[v] # hand'[d]
    <3>1. \A d \in Callers : d # c /\ hand[d] # 0 => \A v \in Alive : prepared[v] # hand[d]
      BY DEF Held, PreparedExclusive
    <3> QED
      BY <1>1, <1>2, <1>3, <3>1, ZenonT(40)
  <2>9. \A d, e \in Callers : hand'[d] # 0 /\ e # d => hand'[e] # hand'[d]
    BY <1>2 DEF Held, PreparedExclusive
  <2> QED
    BY <1>3, <1>4, <2>3, <2>4, <2>5, <2>6, <2>7, <2>8, <2>9 DEF Held, PreparedExclusive
<1> QED
  BY <1>5, <1>6

LEMMA JobHeld ==
  ASSUME Good, Held, NEW j \in Jobs, Ask(j) \/ Take(j) \/ ReadId(j) \/ Release(j) \/ Drop(j)
  PROVE  Held'
<1>1. UNCHANGED <<at, hand, current, prepared, made>>
  BY DEF Ask, Take, ReadId, Release, Drop, callVars, swapVars, poolVars
<1>2. HandsAt'
  BY <1>1 DEF Held, HandsAt
<1>3. ASSUME NEW k \in Jobs, phase[k] = "drops"
      PROVE  version[k] # current
  BY <1>3 DEF Good, Taken
<1>4. CASE Ask(j)
  <2>1. /\ version' = version /\ phase[j] = "out" /\ phase'[j] = "asks" /\ pool' = pool
        /\ \A k \in Jobs : k # j => phase'[k] = phase[k]
    BY <1>4 DEF Good, Typed, JobsOK, Ask, poolVars
  <2>2. Alive' = Alive /\ LastToDrop'
    BY <1>1, <2>1 DEF Held, LastToDrop, Alive, Run, Dropped
  <2> QED
    BY <1>1, <1>2, <2>1, <2>2, NothingMoves
<1>5. CASE Take(j)
  <2>1. /\ phase[j] = "asks" /\ phase'[j] = "runs" /\ version'[j] = current /\ pool' = pool
        /\ \A k \in Jobs : k # j => phase'[k] = phase[k] /\ version'[k] = version[k]
    BY <1>5 DEF Good, Typed, JobsOK, Take, poolVars
  <2>2. Alive' = Alive
    BY <1>1, <2>1 DEF Alive, Run, Dropped
  <2>3. LastToDrop'
    BY <1>3, <2>1 DEF Held, LastToDrop
  <2> QED
    BY <1>1, <1>2, <2>1, <2>2, <2>3, NothingMoves
<1>6. CASE ReadId(j)
  <2>1. UNCHANGED <<phase, version, pool>>
    BY <1>6 DEF ReadId, poolVars
  <2>2. Alive' = Alive /\ LastToDrop'
    BY <1>1, <2>1 DEF Held, LastToDrop, Alive, Run, Dropped
  <2> QED
    BY <1>1, <1>2, <2>1, <2>2, NothingMoves
<1>7. ASSUME Forget(j)
      PROVE  /\ phase'[j] = "over" /\ LastToDrop'
             /\ \A k \in Jobs : k # j => phase'[k] = phase[k] /\ version'[k] = version[k]
  <2>1. /\ phase'[j] = "over"
        /\ \A k \in Jobs : k # j => phase'[k] = phase[k] /\ version'[k] = version[k]
    BY <1>7 DEF Good, Typed, JobsOK, Forget
  <2> QED
    BY <2>1 DEF Held, LastToDrop
<1>8. CASE Release(j)
  <2>1. phase[j] = "runs" /\ pool' = pool
    BY <1>8 DEF Release, poolVars
  <2>2. CASE version[j] = current \/ \E k \in Jobs \ {j} : phase[k] = "runs" /\ version[k] = version[j]
    <3>1. Forget(j)
      BY <1>8, <2>2 DEF Release
    <3>2. Alive' = Alive
      BY <1>1, <1>7, <2>1, <2>2, <3>1 DEF Alive, Run, Dropped
    <3> QED
      BY <1>1, <1>2, <1>7, <2>1, <3>1, <3>2, NothingMoves
  <2>3. CASE ~(version[j] = current \/ \E k \in Jobs \ {j} : phase[k] = "runs" /\ version[k] = version[j])
    <3>1. /\ phase'[j] = "drops" /\ version' = version
          /\ \A k \in Jobs : k # j => phase'[k] = phase[k]
      BY <1>8, <2>3 DEF Good, Typed, JobsOK, Release
    <3>2. Alive' = Alive
      BY <1>1, <2>1, <3>1 DEF Alive, Run, Dropped
    <3>3. \A k \in Jobs : k # j /\ phase[k] \in {"runs", "drops"} => version[k] # version[j]
      BY <2>1, <2>3 DEF Held, LastToDrop
    <3>4. LastToDrop'
      BY <3>1, <3>3 DEF Held, LastToDrop
    <3> QED
      BY <1>1, <1>2, <2>1, <3>2, <3>4, NothingMoves
  <2> QED
    BY <2>2, <2>3
<1>9. CASE Drop(j)
  <2> DEFINE v0 == version[j]
  <2>1. phase[j] = "drops" /\ Forget(j) /\ pool' = Append(pool, prepared[v0]) /\ v0 # current
    BY <1>3, <1>9 DEF Drop
  <2>2. Alive' = Alive \ {v0} /\ v0 \in Alive
    BY <1>1, <1>7, <2>1 DEF Held, LastToDrop, Alive, Run, Dropped
  <2>3. /\ pool \in Seq(Nat) /\ made \in Nat /\ prepared[v0] \in 1..made
    BY <2>2 DEF Good, Typed, PoolOK, Held, Counted
  <2>4. /\ DOMAIN pool = 1..Len(pool) /\ DOMAIN pool' = 1..(Len(pool) + 1) /\ Len(pool) \in Nat
        /\ pool'[Len(pool) + 1] = prepared[v0] /\ \A i \in DOMAIN pool : pool'[i] = pool[i]
    BY <2>1, <2>3
  <2>5. Range(pool') = Range(pool) \cup {prepared[v0]}
    BY <2>4 DEF Range
  <2>6. Counted'
    BY <1>1, <2>2, <2>3, <2>5 DEF Held, Counted
  <2>7. \A i, k \in DOMAIN pool' : pool'[i] = pool'[k] => i = k
    <3>1. \A i, k \in DOMAIN pool : pool[i] = pool[k] => i = k
      BY DEF Held, PreparedExclusive
    <3>2. \A i \in DOMAIN pool : pool[i] # prepared[v0]
      BY <2>2 DEF Held, PreparedExclusive, Range
    <3> QED
      BY <2>4, <3>1, <3>2
  <2>8. \A v, w \in Alive' : prepared'[v] = prepared'[w] => v = w
    BY <1>1, <2>2 DEF Held, PreparedExclusive
  <2>9. \A v \in Alive' : prepared'[v] \notin Range(pool')
    BY <1>1, <2>2, <2>5 DEF Held, PreparedExclusive
  <2>a. \A d \in Callers : hand'[d] # 0 => hand'[d] \notin Range(pool')
    BY <1>1, <2>2, <2>5 DEF Held, PreparedExclusive
  <2>b. \A d \in Callers : hand'[d] # 0 => \A v \in Alive' : prepared'[v] # hand'[d]
    BY <1>1, <2>2 DEF Held, PreparedExclusive
  <2>c. \A d, e \in Callers : hand'[d] # 0 /\ e # d => hand'[e] # hand'[d]
    BY <1>1 DEF Held, PreparedExclusive
  <2>d. PreparedExclusive'
    BY <2>7, <2>8, <2>9, <2>a, <2>b, <2>c DEF PreparedExclusive
  <2> QED
    BY <1>2, <1>7, <2>1, <2>6, <2>d DEF Held
<1> QED
  BY <1>4, <1>5, <1>6, <1>8, <1>9

LEMMA HeldStep == Good /\ Held /\ [Next]_vars => Held'
<1> SUFFICES ASSUME Good, Held, [Next]_vars
             PROVE  Held'
  OBVIOUS
<1>1. CASE UNCHANGED vars
  <2>1. UNCHANGED <<at, hand, current, jobVars, prepared, pool, made>>
    BY <1>1 DEF vars, callVars, swapVars, poolVars
  <2>2. HandsAt'
    BY <2>1 DEF Held, HandsAt
  <2> QED
    BY <2>1, <2>2, JobsStay, NothingMoves
<1> QED
  BY <1>1, CallerMovesHeld, FailHeld, PopHeld, PrepareHeld, SwapHeld, GiveBackHeld, JobHeld
     DEF Next, CallerStep
-----------------------------------------------------------------------------
(* The stack's state keeps its types.                                      *)
THEOREM TypeCorrect == Spec => []TypeOK
<1>1. Good => TypeOK
  BY DEF Good, Typed, StateOK, CallsOK, SwapOK, PoolOK, JobsOK, HistOK, Places, TypeOK
<1> QED
  BY <1>1, AlwaysGood, PTL

(* Whoever dispatches after an update has returned gets its version or a   *)
(* later one, and current_version_id names no older one after that         *)
(* (stack.rs:224-232, 824-836).                                            *)
THEOREM VersionsFresh == Spec => []FreshVersions
<1>1. Good => FreshVersions
  BY DEF Good, Taken, FreshVersions
<1> QED
  BY <1>1, AlwaysGood, PTL

(* Between calls the version that is served was compiled from the planner  *)
(* state, unless that was edited since (stack.rs:205-219).                 *)
THEOREM ServedIsState == Spec => []ServedMatchesState
<1>1. Good => ServedMatchesState
  BY Alone DEF Good, Served, Swapped, ServedMatchesState
<1> QED
  BY <1>1, AlwaysGood, PTL

(* A version that is published is newer than the one it replaces           *)
(* (stack.rs:824-836).                                                     *)
THEOREM VersionsGoForward == Spec => NoVersionGoesBack
<1>1. Good /\ [Next]_vars => [current' >= current]_vars
  <2> SUFFICES ASSUME Good, [Next]_vars
               PROVE  [current' >= current]_vars
    OBVIOUS
  <2>1. current \in Nat
    BY VersionsAreNats DEF Good, Typed, SwapOK
  <2>2. ASSUME NEW c \in Callers, Swap(c)
        PROVE  current' >= current
    <3>1. current < mine[c] /\ current' = mine[c] /\ mine[c] \in Nat
      BY <2>2 DEF Good, Typed, CallsOK, Numbered, Swap
    <3> QED
      BY <2>1, <3>1
  <2>3. (\E c \in Callers : Swap(c)) \/ UNCHANGED current
    BY DEF Next, CallerStep, Apply, Replace, Edit, Recompile, Update, CompileFails, Compile,
           PrepareFails, Prepare, Fail, Pop, DrawId, GiveBack, Announce, Commit, Ask, Take, ReadId,
           Release, Drop, swapVars, vars
  <2> QED
    BY <2>1, <2>2, <2>3
<1> QED
  BY <1>1, AlwaysGood, PTL DEF Spec, NoVersionGoesBack

(* No prepared state is ever in two places: none is reused while a version *)
(* that a job runs with still refers to it (version.rs:18-35,              *)
(* stack.rs:810-816).                                                      *)
THEOREM PreparedUsedOnce == Spec => []PreparedExclusive
<1>1. Held => PreparedExclusive
  BY DEF Held
<1>2. Spec => []Held
  BY InitHeld, HeldStep, AlwaysGood, PTL DEF Spec
<1> QED
  BY <1>1, <1>2, PTL
-----------------------------------------------------------------------------
(* PreparedBounded, strengthened: the versions alive are within the peak,  *)
(* and a caller that is about to make a prepared state does so while those *)
(* kept elsewhere are within it, too: it has found the pool empty.         *)
Handed == {c \in Callers : hand[c] # 0}
Kept == Len(pool) + Cardinality(Alive)
Scarce == /\ Cardinality(Alive) <= peak
          /\ \A c \in Callers : at[c] = "prepares" /\ hand[c] = 0 => Kept <= peak
          /\ Kept + Cardinality(Handed) <= peak + 1

(* One caller at a time has a prepared state in its hands.                 *)
LEMMA HandCount ==
  ASSUME NEW h, NEW c \in Callers, \A d \in Callers : d # c => h[d] = 0
  PROVE  Cardinality({d \in Callers : h[d] # 0}) = IF h[c] # 0 THEN 1 ELSE 0
<1>1. CASE h[c] # 0
  <2>1. {d \in Callers : h[d] # 0} = {c}
    BY <1>1
  <2> QED
    BY <1>1, <2>1, FS_Singleton
<1>2. CASE h[c] = 0
  <2>1. {d \in Callers : h[d] # 0} = {}
    BY <1>2
  <2> QED
    BY <1>2, <2>1, FS_EmptySet
<1> QED
  BY <1>1, <1>2

(* What pushing to and popping from the pool makes of its length.          *)
LEMMA PoolLength ==
  ASSUME NEW s \in Seq(Nat), NEW e \in Nat
  PROVE  /\ Len(s) \in Nat /\ Len(Append(s, e)) = Len(s) + 1
         /\ s # <<>> => Len(SubSeq(s, 1, Len(s) - 1)) = Len(s) - 1 /\ Len(s) - 1 \in Nat
<1>1. Len(s) \in Nat /\ Len(Append(s, e)) = Len(s) + 1
  OBVIOUS
<1>2. ASSUME s # <<>>
      PROVE  Len(SubSeq(s, 1, Len(s) - 1)) = Len(s) - 1 /\ Len(s) - 1 \in Nat
  <2>1. Len(s) \in Nat \ {0}
    BY <1>2
  <2> DEFINE n == Len(s) - 1
  <2>2. n \in Int /\ \A i \in 1..n : s[i] \in Nat
    BY <2>1
  <2> HIDE DEF n
  <2>3. Len(SubSeq(s, 1, n)) = IF 1 <= n THEN n - 1 + 1 ELSE 0
    BY <2>2, SubSeqProperties
  <2>4. n \in Nat
    BY <2>1 DEF n
  <2>5. Len(SubSeq(s, 1, n)) = n
    BY <2>3, <2>4
  <2> QED
    BY <2>4, <2>5 DEF n
<1> QED
  BY <1>1, <1>2

LEMMA OthersEmptyHanded ==
  ASSUME Good, Held, NEW c \in Callers, at[c] # "out"
  PROVE  \A d \in Callers : d # c => hand[d] = 0 /\ at[d] = "out"
BY Alone DEF Good, Held, HandsAt

LEMMA AliveFinite ==
  ASSUME Good
  PROVE  /\ IsFiniteSet(Alive) /\ Cardinality(Alive) \in Nat /\ current \in Alive
         /\ Len(pool) \in Nat /\ peak \in Nat /\ Kept \in Nat
<1>1. Alive \subseteq 0..MaxVersion
  BY VersionsAreNats DEF Good, Typed, SwapOK, JobsOK, Alive, Run, Dropped
<1>2. IsFiniteSet(0..MaxVersion)
  BY VersionsAreNats, FS_Interval
<1>3. IsFiniteSet(Alive) /\ Cardinality(Alive) \in Nat
  BY <1>1, <1>2, FS_Subset, FS_CardinalityType
<1>4. Len(pool) \in Nat /\ peak \in Nat /\ current \in Alive
  BY DEF Good, Typed, PoolOK, HistOK, Alive
<1> QED
  BY <1>3, <1>4 DEF Kept

LEMMA InitScarce == Init => Scarce
<1> SUFFICES ASSUME Init
             PROVE  Scarce
  OBVIOUS
<1>a. Alive = {1}
  BY DEF Init, Alive, Run, Dropped
<1>1. Cardinality(Alive) = 1
  BY <1>a, FS_Singleton
<1>2. Handed = {} /\ Cardinality(Handed) = 0
  BY FS_EmptySet DEF Init, Handed
<1>3. Kept = 1
  BY <1>1 DEF Init, Kept
<1> QED
  BY <1>1, <1>2, <1>3 DEF Init, Scarce

(* What changes none of the counted things.                                *)
LEMMA NothingCounted ==
  ASSUME Scarce, UNCHANGED <<pool, hand, peak>>, Alive' = Alive,
         \A c \in Callers : at'[c] = "prepares" => at[c] = "prepares"
  PROVE  Scarce'
<1>1. Kept' = Kept /\ Handed' = Handed
  BY DEF Kept, Handed
<1> QED
  BY <1>1 DEF Scarce

(* The steps of a call but for Swap: it moves at most one prepared state   *)
(* between the pool and its hands, or makes one while there are few.       *)
LEMMA HandMoves ==
  ASSUME Good, Held, Scarce, NEW c \in Callers, at[c] # "out",
         UNCHANGED <<jobVars, current, peak>>,
         \A d \in Callers : d # c => hand'[d] = hand[d] /\ at'[d] = at[d],
         Len(pool') \in Nat,
         \/ at'[c] # "prepares" /\ hand'[c] = 0 /\ hand[c] # 0 /\ Len(pool') <= Len(pool) + 1
         \/ at'[c] # "prepares" /\ hand'[c] = 0 /\ Len(pool') = Len(pool)
         \/ hand'[c] # 0 /\ hand[c] = 0 /\ Len(pool') = Len(pool) - 1
         \/ hand'[c] # 0 /\ hand[c] # 0 /\ Len(pool') = Len(pool)
         \/ hand'[c] = 0 /\ hand[c] = 0 /\ Len(pool') = 0 /\ Len(pool) = 0
         \/ hand'[c] # 0 /\ at[c] = "prepares" /\ Len(pool') = Len(pool)
  PROVE  Scarce'
<1>1. /\ \A d \in Callers : d # c => hand[d] = 0 /\ hand'[d] = 0 /\ at'[d] = "out"
  BY OthersEmptyHanded
<1>2. Cardinality(Handed) = IF hand[c] # 0 THEN 1 ELSE 0
  BY <1>1, HandCount DEF Handed
<1>3. Cardinality(Handed') = IF hand'[c] # 0 THEN 1 ELSE 0
  BY <1>1, HandCount DEF Handed
<1>4. Alive' = Alive
  BY JobsStay
<1> DEFINE n == Cardinality(Alive)
           h == Cardinality(Handed)
           g == Cardinality(Handed')
<1>5. n \in Nat /\ Len(pool) \in Nat /\ peak \in Nat
  BY AliveFinite
<1>6. n <= peak /\ Len(pool) + n + h <= peak + 1
      /\ (at[c] = "prepares" /\ hand[c] = 0 => Len(pool) + n <= peak)
  BY DEF Scarce, Kept
<1>7. Kept' = Len(pool') + n /\ peak' = peak
  BY <1>4 DEF Kept
<1> HIDE DEF n, h, g
<1>8. Len(pool') + n + g <= peak + 1
  BY <1>2, <1>3, <1>5, <1>6 DEF h, g
<1>9. at'[c] = "prepares" /\ hand'[c] = 0 => Len(pool') + n <= peak
  BY <1>5, <1>6
<1> QED
  BY <1>1, <1>4, <1>6, <1>7, <1>8, <1>9 DEF Scarce, n, g

LEMMA FailScarce ==
  ASSUME Good, Held, Scarce, NEW c \in Callers, CompileFails(c) \/ PrepareFails(c)
  PROVE  Scarce'
<1>1. /\ at[c] # "out" /\ UNCHANGED <<pool, jobVars, current, peak>>
      /\ hand' = [hand EXCEPT ![c] = 0] /\ at' = [at EXCEPT ![c] = "out"]
  BY DEF CompileFails, PrepareFails, Fail, swapVars, histVars
<1>2. /\ hand'[c] = 0 /\ at'[c] # "prepares"
      /\ \A d \in Callers : d # c => hand'[d] = hand[d] /\ at'[d] = at[d]
  BY <1>1 DEF Good, Typed, CallsOK
<1>3. Len(pool') \in Nat /\ Len(pool') = Len(pool)
  BY <1>1, AliveFinite
<1> QED
  BY <1>1, <1>2, <1>3, HandMoves

LEMMA PopScarce ==
  ASSUME Good, Held, Scarce, NEW c \in Callers, Pop(c)
  PROVE  Scarce'
<1>1. /\ at[c] = "pops" /\ at' = [at EXCEPT ![c] = "prepares"]
      /\ UNCHANGED <<jobVars, current, peak>>
  BY DEF Pop, swapVars, histVars
<1>2. hand[c] = 0 /\ at'[c] = "prepares" /\ \A d \in Callers : d # c => at'[d] = at[d]
  BY <1>1 DEF Good, Typed, CallsOK, Held, HandsAt
<1>3. CASE pool = <<>>
  <2>1. UNCHANGED <<pool, hand>> /\ Len(pool) = 0 /\ Len(pool') = 0
    BY <1>3 DEF Pop
  <2> QED
    BY <1>1, <1>2, <2>1, HandMoves
<1>4. CASE pool # <<>>
  <2> DEFINE top == pool[Len(pool)]
  <2>1. pool \in Seq(Nat) /\ Len(pool) \in Nat \ {0}
    BY <1>4 DEF Good, Typed, PoolOK
  <2>2. hand' = [hand EXCEPT ![c] = top] /\ pool' = SubSeq(pool, 1, Len(pool) - 1)
    BY <1>4 DEF Pop
  <2>3. Len(pool') = Len(pool) - 1 /\ Len(pool') \in Nat
    BY <1>4, <2>1, <2>2, PoolLength
  <2>4. top \in Range(pool)
    BY <2>1 DEF Range
  <2>5. top # 0
    BY <2>4 DEF Good, Typed, PoolOK, Held, Counted
  <2>6. hand'[c] # 0 /\ \A d \in Callers : d # c => hand'[d] = hand[d]
    BY <2>2, <2>5 DEF Good, Typed, CallsOK
  <2> QED
    BY <1>1, <1>2, <2>3, <2>6, HandMoves
<1> QED
  BY <1>3, <1>4

LEMMA PrepareScarce ==
  ASSUME Good, Held, Scarce, NEW c \in Callers, Prepare(c)
  PROVE  Scarce'
<1>1. /\ at[c] = "prepares" /\ at' = [at EXCEPT ![c] = "draws"]
      /\ UNCHANGED <<pool, jobVars, current, peak>>
  BY DEF Prepare, swapVars, histVars
<1>2. hand'[c] # 0 /\ \A d \in Callers : d # c => hand'[d] = hand[d] /\ at'[d] = at[d]
  BY <1>1 DEF Good, Typed, CallsOK, PoolOK, Prepare
<1>3. Len(pool') \in Nat /\ Len(pool') = Len(pool)
  BY <1>1, AliveFinite
<1> QED
  BY <1>1, <1>2, <1>3, HandMoves

LEMMA GiveBackScarce ==
  ASSUME Good, Held, Scarce, NEW c \in Callers, GiveBack(c)
  PROVE  Scarce'
<1>1. /\ at[c] = "gives back" /\ at' = [at EXCEPT ![c] = "announces"]
      /\ UNCHANGED <<jobVars, current, peak>>
      /\ pool' = IF hand[c] = 0 THEN pool ELSE Append(pool, hand[c])
      /\ hand' = [hand EXCEPT ![c] = 0]
  BY DEF GiveBack, swapVars, histVars
<1>2. /\ hand'[c] = 0 /\ at'[c] # "prepares" /\ hand[c] \in Nat /\ pool \in Seq(Nat)
      /\ \A d \in Callers : d # c => hand'[d] = hand[d] /\ at'[d] = at[d]
  BY <1>1 DEF Good, Typed, CallsOK, PoolOK
<1>3. /\ Len(pool') \in Nat
      /\ IF hand[c] = 0 THEN Len(pool') = Len(pool) ELSE Len(pool') = Len(pool) + 1
  <2>1. CASE hand[c] = 0
    BY <1>1, <2>1, AliveFinite
  <2>2. CASE hand[c] # 0
    <3>1. pool' = Append(pool, hand[c])
      BY <1>1, <2>2
    <3>2. Len(pool') = Len(pool) + 1 /\ Len(pool) \in Nat
      BY <1>2, <3>1, PoolLength
    <3> QED
      BY <2>2, <3>2
  <2> QED
    BY <2>1, <2>2
<1>4. Len(pool') <= Len(pool) + 1 \/ hand[c] = 0
  BY <1>2, <1>3
<1> QED
  BY <1>1, <1>2, <1>3, <1>4, HandMoves

(* A swap makes a version and counts what is alive then; the old one stays *)
(* with its jobs, or its prepared state comes into the hands of the caller.*)
LEMMA SwapScarce ==
  ASSUME Good, Held, Scarce, NEW c \in Callers, Swap(c)
  PROVE  Scarce'
<1> DEFINE alive == {mine[c]} \cup Run \cup Dropped
<1>1. /\ at[c] = "swaps" /\ at' = [at EXCEPT ![c] = "gives back"]
      /\ current' = mine[c] /\ UNCHANGED <<pool, jobVars>>
      /\ hand' = [hand EXCEPT ![c] = IF current \in Run THEN 0 ELSE prepared[current]]
      /\ peak' = IF Cardinality(alive) > peak THEN Cardinality(alive) ELSE peak
  BY DEF Swap, poolVars
<1>2. /\ hand[c] # 0 /\ \A d \in Callers : d # c => hand[d] = 0 /\ at[d] = "out"
      /\ \A d \in Callers : d # c => hand'[d] = 0 /\ at'[d] = "out"
      /\ at'[c] = "gives back"
      /\ hand'[c] = IF current \in Run THEN 0 ELSE prepared[current]
  BY <1>1, OthersEmptyHanded DEF Good, Typed, CallsOK, Held, HandsAt
<1>3. /\ Cardinality(Handed) = 1
      /\ Cardinality(Handed') = IF hand'[c] # 0 THEN 1 ELSE 0
  BY <1>2, HandCount DEF Handed
<1>4. Alive' = alive
  BY <1>1 DEF Alive, Run, Dropped, jobVars
<1>5. mine[c] \notin Alive /\ current \notin Dropped
  <2>1. \A j \in Jobs : version[j] \in Nat /\ version[j] <= announced
    BY VersionsAreNats DEF Good, Typed, JobsOK, Taken
  <2>2. announced \in Nat /\ current \in Nat /\ mine[c] \in Nat
    BY VersionsAreNats DEF Good, Typed, CallsOK, SwapOK
  <2>3. announced <= current /\ current < mine[c]
    BY <1>1 DEF Good, Numbered
  <2>4. \A v \in Alive : v \in Nat /\ v <= current
    BY <2>1, <2>2, <2>3 DEF Alive, Run, Dropped
  <2> QED
    BY <2>2, <2>3, <2>4 DEF Good, Taken, Dropped
<1> DEFINE n == Cardinality(Alive)
           m == Cardinality(alive)
<1>6. /\ IsFiniteSet(Alive) /\ n \in Nat /\ current \in Alive /\ Len(pool) \in Nat /\ peak \in Nat
  BY AliveFinite
<1>7. n <= peak /\ Len(pool) + n + 1 <= peak + 1
  BY <1>3 DEF Scarce, Kept
<1>8. m = IF current \in Run THEN n + 1 ELSE n
  <2>1. CASE current \in Run
    <3>1. alive = Alive \cup {mine[c]}
      BY <2>1 DEF Alive
    <3> QED
      BY <1>5, <1>6, <2>1, <3>1, FS_AddElement
  <2>2. CASE current \notin Run
    <3>1. alive = (Alive \ {current}) \cup {mine[c]} /\ mine[c] \notin Alive \ {current}
      BY <1>5, <2>2 DEF Alive
    <3>2. IsFiniteSet(Alive \ {current}) /\ Cardinality(Alive \ {current}) = n - 1
      BY <1>6, FS_RemoveElement
    <3>3. m = (n - 1) + 1
      BY <3>1, <3>2, FS_AddElement
    <3> QED
      BY <1>6, <2>2, <3>3
  <2> QED
    BY <2>1, <2>2
<1>9. current \in Run => hand'[c] = 0
  BY <1>2
<1>a. /\ Kept' = Len(pool) + m /\ Cardinality(Alive') = m
      /\ peak' = IF m > peak THEN m ELSE peak
  BY <1>1, <1>4 DEF Kept
<1> HIDE DEF n, m
<1>b. m \in Nat /\ m <= peak' /\ peak <= peak' /\ peak' \in Nat
  BY <1>6, <1>8, <1>a
<1>c. Len(pool) + m + Cardinality(Handed') <= peak' + 1
  <2>1. CASE current \in Run
    <3>1. Cardinality(Handed') = 0 /\ m = n + 1
      BY <1>3, <1>8, <1>9, <2>1
    <3> QED
      BY <1>6, <1>7, <1>b, <3>1
  <2>2. CASE current \notin Run
    <3>1. Cardinality(Handed') \in 0..1 /\ m = n
      BY <1>3, <1>8, <2>2
    <3> QED
      BY <1>6, <1>7, <1>b, <3>1
  <2> QED
    BY <2>1, <2>2
<1> QED
  BY <1>2, <1>a, <1>b, <1>c DEF Scarce

(* A job takes the version that is current, and lets go of one that is, or *)
(* that others have; the last to have it moves its prepared state into the *)
(* pool.                                                                   *)
LEMMA JobScarce ==
  ASSUME Good, Held, Scarce, NEW j \in Jobs,
         Ask(j) \/ Take(j) \/ ReadId(j) \/ Release(j) \/ Drop(j)
  PROVE  Scarce'
<1>1. UNCHANGED <<at, hand, current, prepared, peak>>
  BY DEF Ask, Take, ReadId, Release, Drop, callVars, swapVars, poolVars, histVars
<1>2. CASE Ask(j)
  <2>1. /\ version' = version /\ phase[j] = "out" /\ phase'[j] = "asks" /\ pool' = pool
        /\ \A k \in Jobs : k # j => phase'[k] = phase[k]
    BY <1>2 DEF Good, Typed, JobsOK, Ask, poolVars
  <2>2. Alive' = Alive
    BY <1>1, <2>1 DEF Alive, Run, Dropped
  <2> QED
    BY <1>1, <2>1, <2>2, NothingCounted
<1>3. CASE Take(j)
  <2>1. /\ phase[j] = "asks" /\ phase'[j] = "runs" /\ version'[j] = current /\ pool' = pool
        /\ \A k \in Jobs : k # j => phase'[k] = phase[k] /\ version'[k] = version[k]
    BY <1>3 DEF Good, Typed, JobsOK, Take, poolVars
  <2>2. Alive' = Alive
    BY <1>1, <2>1 DEF Alive, Run, Dropped
  <2> QED
    BY <1>1, <2>1, <2>2, NothingCounted
<1>4. CASE ReadId(j)
  <2>1. UNCHANGED <<phase, version, pool>>
    BY <1>4 DEF ReadId, poolVars
  <2>2. Alive' = Alive
    BY <1>1, <2>1 DEF Alive, Run, Dropped
  <2> QED
    BY <1>1, <2>1, <2>2, NothingCounted
<1>5. ASSUME Forget(j)
      PROVE  /\ phase'[j] = "over"
             /\ \A k \in Jobs : k # j => phase'[k] = phase[k] /\ version'[k] = version[k]
  BY <1>5 DEF Good, Typed, JobsOK, Forget
<1>6. CASE Release(j)
  <2> DEFINE Others == \E k \in Jobs \ {j} : phase[k] = "runs" /\ version[k] = version[j]
  <2>1. phase[j] = "runs" /\ pool' = pool
    BY <1>6 DEF Release, poolVars
  <2>2. CASE version[j] = current \/ Others
    <3>1. Forget(j)
      BY <1>6, <2>2 DEF Release
    <3>2. Alive' = Alive
      BY <1>1, <1>5, <2>1, <2>2, <3>1 DEF Alive, Run, Dropped
    <3> QED
      BY <1>1, <2>1, <3>2, NothingCounted
  <2>3. CASE ~(version[j] = current \/ Others)
    <3>1. /\ phase'[j] = "drops" /\ version' = version
          /\ \A k \in Jobs : k # j => phase'[k] = phase[k]
      BY <1>6, <2>3 DEF Good, Typed, JobsOK, Release
    <3>2. Alive' = Alive
      BY <1>1, <2>1, <3>1 DEF Alive, Run, Dropped
    <3> QED
      BY <1>1, <2>1, <3>2, NothingCounted
  <2> QED
    BY <2>2, <2>3
<1>7. CASE Drop(j)
  <2> DEFINE v0 == version[j]
             n == Cardinality(Alive)
             h == Cardinality(Handed)
  <2>1. phase[j] = "drops" /\ Forget(j) /\ pool' = Append(pool, prepared[v0]) /\ v0 # current
    BY <1>7 DEF Drop, Good, Taken
  <2>2. Alive' = Alive \ {v0} /\ v0 \in Alive
    BY <1>1, <1>5, <2>1 DEF Held, LastToDrop, Alive, Run, Dropped
  <2>3. pool \in Seq(Nat) /\ prepared[v0] \in Nat /\ made \in Nat
    BY <2>2 DEF Good, Typed, PoolOK, Held, Counted
  <2>4. Len(pool') = Len(pool) + 1 /\ Len(pool) \in Nat
    BY <2>1, <2>3
  <2>5. IsFiniteSet(Alive) /\ n \in Nat /\ peak \in Nat
    BY AliveFinite
  <2>6. Cardinality(Alive') = n - 1
    BY <2>2, <2>5, FS_RemoveElement
  <2>7. Kept' = Kept /\ Handed' = Handed
    BY <1>1, <2>4, <2>5, <2>6 DEF Kept, Handed
  <2>8. Cardinality(Alive') <= peak
    <3>1. n <= peak
      BY DEF Scarce
    <3> HIDE DEF n
    <3> QED
      BY <2>5, <2>6, <3>1
  <2> QED
    BY <1>1, <2>7, <2>8 DEF Scarce
<1> QED
  BY <1>2, <1>3, <1>4, <1>6, <1>7

LEMMA ScarceStep == Good /\ Held /\ Scarce /\ [Next]_vars => Scarce'
<1> SUFFICES ASSUME Good, Held, Scarce, [Next]_vars
             PROVE  Scarce'
  OBVIOUS
<1>1. ASSUME NEW c \in Callers,
             \/ Apply(c) \/ Replace(c) \/ Recompile(c) \/ Update(c) \/ Compile(c) \/ DrawId(c)
             \/ Announce(c) \/ Commit(c)
      PROVE  Scarce'
  <2>1. UNCHANGED <<pool, hand, current, jobVars, peak>>
    BY <1>1 DEF Apply, Replace, Edit, Recompile, Update, Compile, DrawId, Announce, Commit, callVars,
                swapVars, poolVars, histVars
  <2>2. \A d \in Callers : at'[d] = "prepares" => at[d] = "prepares"
    BY <1>1 DEF Good, Typed, CallsOK, Apply, Replace, Edit, Recompile, Update, Compile, DrawId,
                Announce, Commit, callVars
  <2> QED
    BY <2>1, <2>2, JobsStay, NothingCounted
<1>2. CASE UNCHANGED vars
  <2>1. UNCHANGED <<at, pool, hand, current, jobVars, peak>>
    BY <1>2 DEF vars, callVars, swapVars, poolVars, histVars
  <2> QED
    BY <2>1, JobsStay, NothingCounted
<1> QED
  BY <1>1, <1>2, FailScarce, PopScarce, PrepareScarce, GiveBackScarce, SwapScarce, JobScarce
     DEF Next, CallerStep

(* There are never more prepared states than versions were alive at once,  *)
(* and one that is being prepared: the pool feeds every compilation, and a *)
(* failed one can only lose a state (stack.rs:810-816, version.rs:18-35).  *)
THEOREM PreparedStatesBounded == Spec => []PreparedBounded
<1>1. Good /\ Scarce => PreparedBounded
  <2> SUFFICES ASSUME Good, Scarce
               PROVE  PreparedBounded
    OBVIOUS
  <2>1. Handed = {c \in Callers : hand[c] # 0}
    BY DEF Handed
  <2> QED
    BY <2>1 DEF Scarce, Kept, PreparedBounded
<1>2. Spec => []Held
  BY InitHeld, HeldStep, AlwaysGood, PTL DEF Spec
<1>3. Spec => []Scarce
  BY <1>2, InitScarce, ScarceStep, AlwaysGood, PTL DEF Spec
<1> QED
  BY <1>1, <1>3, AlwaysGood, PTL
=============================================================================
