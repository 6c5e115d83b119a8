---------------------------- MODULE StackVersions ----------------------------
(***************************************************************************)
(* The versions of a stack (src/src/stack.rs, src/src/version.rs): the     *)
(* mutable planner state behind StackInner.state, the current frozen       *)
(* version behind the lock current_version, and the prepared states that   *)
(* dropped versions give back to a pool for the next compilation.          *)
(*                                                                         *)
(* A caller holds StackInner.state through a whole apply, replace,         *)
(* recompile or update, also while the backend prepares; a job takes the   *)
(* current version at its dispatch and holds it to its end.  A planner     *)
(* that panics poisons StackInner.state.  What the planner makes of        *)
(* changes is abstracted to the set of changes a planner state contains.   *)
(***************************************************************************)
EXTENDS Naturals, Sequences, FiniteSets, Functions

CONSTANTS
  Callers,     (* threads that change the stack                            *)
  Jobs,        (* each dispatched, or resolved inline, once                *)
  Changes,     (* planner changes                                          *)
  MaxVersion,  (* bound on the version ids                                 *)
  Nobody       (* no caller                                                *)

ASSUME NobodyAssumption == Nobody \notin Callers
ASSUME VersionAssumption == MaxVersion \in Nat \ {0}

VARIABLES
  holder,    (* who holds StackInner.state                                 *)
  poisoned,  (* StackInner.state is poisoned                               *)
  state,     (* StackInner.state                                           *)
  at,        (* where each caller stands                                   *)
  updates,   (* callers whose call is an update, not a recompile           *)
  next,      (* the planner state that a caller compiles                   *)
  hand,      (* the prepared state that a caller holds, or 0               *)
  mine,      (* the version id that a caller has drawn                     *)
  nextId,    (* next_version_id                                            *)
  writer,    (* who holds current_version for writing                      *)
  current,   (* id of the version in current_version                       *)
  announced, (* current_version_id                                         *)
  content,   (* the planner state each version was compiled from           *)
  prepared,  (* FrozenStackVersion.prepared                                *)
  pool,      (* prepared_pool, the top last                                *)
  spare,     (* compute scratches in compute_scratch_pool                  *)
  made,      (* prepared states made without reuse                         *)
  phase,     (* where each job stands                                      *)
  version,   (* the version each job has taken                             *)
  reported,  (* what current_version_id told the job after that            *)
  returned,  (* history: the latest version a finished call has returned   *)
  floor,     (* history: returned, when each job asked for a version       *)
  edited,    (* history: state changed since it was compiled last          *)
  peak       (* history: most versions alive when one was published        *)

stateVars == <<holder, poisoned, state, edited>>
callVars == <<at, updates, next, hand, mine>>
swapVars == <<nextId, writer, current, announced, content, prepared>>
poolVars == <<pool, spare, made>>
jobVars == <<phase, version, reported, floor>>
histVars == <<returned, peak>>
vars == <<stateVars, callVars, swapVars, poolVars, jobVars, histVars>>

Versions == 1..MaxVersion

(* The versions that jobs have an Arc of, or as the last one to drop.      *)
Run == {version[j] : j \in {k \in Jobs : phase[k] = "runs"}}
Dropped == {version[j] : j \in {k \in Jobs : phase[k] = "drops"}}

Alive == {current} \cup Run \cup Dropped

(* Slip: the planner state is copied and its lock released.                *)
CopyState(c) == ~poisoned

(* StackInner.state is locked.                                             *)
MayLock(c) == /\ holder = Nobody
              /\ ~poisoned

Init == /\ holder = Nobody
        /\ poisoned = FALSE
        /\ state = {}
        /\ at = [c \in Callers |-> "out"]
        /\ updates = {}
        /\ next = [c \in Callers |-> {}]
        /\ hand = [c \in Callers |-> 0]
        /\ mine = [c \in Callers |-> 0]
        /\ nextId = 2
        /\ writer = Nobody
        /\ current = 1
        /\ announced = 1
        /\ content = [v \in Versions |-> {}]
        /\ prepared = [v \in Versions |-> IF v = 1 THEN 1 ELSE 0]
        /\ pool = <<>>
        /\ spare = 0
        /\ made = 1
        /\ phase = [j \in Jobs |-> "out"]
        /\ version = [j \in Jobs |-> 0]
        /\ reported = [j \in Jobs |-> 0]
        /\ returned = 1
        /\ floor = [j \in Jobs |-> 0]
        /\ edited = FALSE
        /\ peak = 1
-----------------------------------------------------------------------------
(* apply lets the planner change the state in place: all of the changes,   *)
(* or some before an error or a panic; replace the same from scratch.      *)
Edit(c, from, changes, failure) ==
  /\ at[c] = "out" /\ MayLock(c)
  /\ failure \in {"none", "error", "panic"}
  /\ state' \in IF failure = "none" THEN {from \cup changes}
                ELSE {from \cup some : some \in SUBSET changes}
  /\ poisoned' = (failure = "panic")
  /\ edited' = TRUE
  /\ UNCHANGED <<holder, callVars, swapVars, poolVars, jobVars, histVars>>

Apply(c) == \E changes \in SUBSET Changes, failure \in {"none", "error", "panic"} :
  Edit(c, state, changes, failure)

Replace(c) == \E changes \in SUBSET Changes, failure \in {"none", "error", "panic"} :
  Edit(c, {}, changes, failure)

(* recompile compiles the state itself ...                                 *)
Recompile(c) ==
  /\ at[c] = "out" /\ MayLock(c) /\ nextId <= MaxVersion
  /\ holder' = c
  /\ at' = [at EXCEPT ![c] = "compiles"]
  /\ updates' = updates \ {c}
  /\ next' = [next EXCEPT ![c] = state]
  /\ UNCHANGED <<poisoned, state, edited, hand, mine, swapVars, poolVars, jobVars, histVars>>

(* Slip: the changes are applied in place.                                 *)
UpdateInPlace(c) == \E changes \in SUBSET Changes :
  /\ at[c] = "out" /\ MayLock(c) /\ nextId <= MaxVersion
  /\ holder' = c
  /\ at' = [at EXCEPT ![c] = "compiles"]
  /\ updates' = updates \cup {c}
  /\ next' = [next EXCEPT ![c] = state \cup changes]
  /\ state' = state \cup changes
  /\ UNCHANGED <<poisoned, edited, hand, mine, swapVars, poolVars, jobVars, histVars>>

(* ... and update a changed copy of it.                                    *)
Update(c) == \E changes \in SUBSET Changes :
  /\ at[c] = "out" /\ MayLock(c) /\ nextId <= MaxVersion
  /\ holder' = c
  /\ at' = [at EXCEPT ![c] = "compiles"]
  /\ updates' = updates \cup {c}
  /\ next' = [next EXCEPT ![c] = state \cup changes]
  /\ UNCHANGED <<poisoned, state, edited, hand, mine, swapVars, poolVars, jobVars, histVars>>

(* A failed call drops what it holds and unlocks the state, poisoned after *)
(* a panic.                                                                *)
Fail(c, panic) ==
  /\ at' = [at EXCEPT ![c] = "out"]
  /\ hand' = [hand EXCEPT ![c] = 0]
  /\ next' = [next EXCEPT ![c] = {}]
  /\ updates' = updates \ {c}
  /\ holder' = Nobody
  /\ poisoned' = (poisoned \/ panic)
  /\ UNCHANGED <<state, edited, mine, swapVars, pool, made, jobVars, histVars>>

(* The planner refuses the changes, or compile or validate fails: no       *)
(* scratch of the backend is out yet.                                      *)
CompileFails(c) == \E panic \in BOOLEAN :
  /\ at[c] = "compiles"
  /\ Fail(c, panic)
  /\ UNCHANGED spare

(* The plan is ready: a compute scratch is checked out ...                 *)
Compile(c) ==
  /\ at[c] = "compiles"
  /\ at' = [at EXCEPT ![c] = "pops"]
  /\ spare' = IF spare = 0 THEN 0 ELSE spare - 1
  /\ UNCHANGED <<stateVars, updates, next, hand, mine, swapVars, pool, made, jobVars, histVars>>

(* Slip: nothing is reused.                                                *)
PopNothing(c) ==
  /\ at[c] = "pops"
  /\ at' = [at EXCEPT ![c] = "prepares"]
  /\ UNCHANGED <<stateVars, updates, next, hand, mine, swapVars, poolVars, jobVars, histVars>>

(* ... and a prepared state popped, when there is one.                     *)
Pop(c) ==
  /\ at[c] = "pops"
  /\ at' = [at EXCEPT ![c] = "prepares"]
  /\ \/ pool = <<>> /\ UNCHANGED <<pool, hand>>
     \/ /\ pool # <<>>
        /\ hand' = [hand EXCEPT ![c] = pool[Len(pool)]]
        /\ pool' = SubSeq(pool, 1, Len(pool) - 1)
  /\ UNCHANGED <<stateVars, updates, next, mine, swapVars, spare, made, jobVars, histVars>>

(* prepare_blocking: the prepared state and the scratch are gone with it.  *)
PrepareFails(c) == \E panic \in BOOLEAN :
  /\ at[c] = "prepares"
  /\ Fail(c, panic)
  /\ UNCHANGED spare

Prepare(c) ==
  /\ at[c] = "prepares"
  /\ at' = [at EXCEPT ![c] = "draws"]
  /\ spare' = spare + 1
  /\ \/ hand[c] # 0 /\ UNCHANGED <<hand, made>>
     \/ hand[c] = 0 /\ made' = made + 1 /\ hand' = [hand EXCEPT ![c] = made']
  /\ UNCHANGED <<stateVars, updates, next, mine, swapVars, pool, jobVars, histVars>>

(* next_version_id.fetch_add.                                              *)
DrawId(c) ==
  /\ at[c] = "draws" /\ nextId <= MaxVersion
  /\ at' = [at EXCEPT ![c] = "swaps"]
  /\ mine' = [mine EXCEPT ![c] = nextId]
  /\ nextId' = nextId + 1
  /\ UNCHANGED <<stateVars, updates, next, hand, writer, current, announced, content, prepared,
                 poolVars, jobVars, histVars>>

(* Slip: the prepared state of the old version is given back at the swap,  *)
(* whoever still runs with it.                                             *)
SwapAndReclaim(c) ==
  /\ at[c] = "swaps" /\ writer = Nobody
  /\ at' = [at EXCEPT ![c] = "gives back"]
  /\ writer' = c
  /\ current' = mine[c]
  /\ content' = [content EXCEPT ![mine[c]] = next[c]]
  /\ prepared' = [prepared EXCEPT ![mine[c]] = hand[c]]
  /\ hand' = [hand EXCEPT ![c] = prepared[current]]
  /\ edited' = FALSE
  /\ peak' = peak
  /\ UNCHANGED <<holder, poisoned, state, updates, next, mine, nextId, announced, poolVars, jobVars,
                 returned>>

(* The new version goes where the old one was.  The old one is dropped     *)
(* there when no job has it.                                               *)
Swap(c) ==
  /\ at[c] = "swaps" /\ writer = Nobody
  /\ at' = [at EXCEPT ![c] = "gives back"]
  /\ writer' = c
  /\ current' = mine[c]
  /\ content' = [content EXCEPT ![mine[c]] = next[c]]
  /\ prepared' = [prepared EXCEPT ![mine[c]] = hand[c]]
  /\ hand' = [hand EXCEPT ![c] = IF current \in Run THEN 0 ELSE prepared[current]]
  /\ edited' = FALSE
  /\ LET alive == Cardinality({mine[c]} \cup Run \cup Dropped)
     IN  peak' = IF alive > peak THEN alive ELSE peak
  /\ UNCHANGED <<holder, poisoned, state, updates, next, mine, nextId, announced, poolVars, jobVars,
                 returned>>

(* FrozenStackVersion::drop.                                               *)
GiveBack(c) ==
  /\ at[c] = "gives back"
  /\ at' = [at EXCEPT ![c] = "announces"]
  /\ pool' = IF hand[c] = 0 THEN pool ELSE Append(pool, hand[c])
  /\ hand' = [hand EXCEPT ![c] = 0]
  /\ UNCHANGED <<stateVars, updates, next, mine, swapVars, spare, made, jobVars, histVars>>

(* Slip: next_version_id is announced.                                     *)
AnnounceNext(c) ==
  /\ at[c] = "announces"
  /\ at' = [at EXCEPT ![c] = "commits"]
  /\ announced' = nextId
  /\ writer' = Nobody
  /\ UNCHANGED <<stateVars, updates, next, hand, mine, nextId, current, content, prepared,
                 poolVars, jobVars, histVars>>

(* current_version_id.store, and the write lock is released.               *)
Announce(c) ==
  /\ at[c] = "announces"
  /\ at' = [at EXCEPT ![c] = "commits"]
  /\ announced' = mine[c]
  /\ writer' = Nobody
  /\ UNCHANGED <<stateVars, updates, next, hand, mine, nextId, current, content, prepared,
                 poolVars, jobVars, histVars>>

(* update keeps the state it compiled; the lock of the state is released.  *)
Commit(c) ==
  /\ at[c] = "commits"
  /\ at' = [at EXCEPT ![c] = "out"]
  /\ state' = IF c \in updates THEN next[c] ELSE state
  /\ holder' = Nobody
  /\ returned' = IF mine[c] > returned THEN mine[c] ELSE returned
  /\ mine' = [mine EXCEPT ![c] = 0]
  /\ next' = [next EXCEPT ![c] = {}]
  /\ updates' = updates \ {c}
  /\ UNCHANGED <<poisoned, edited, hand, swapVars, poolVars, jobVars, peak>>
-----------------------------------------------------------------------------
(* A dispatch, or an inline resolution, begins ...                         *)
Ask(j) ==
  /\ phase[j] = "out"
  /\ phase' = [phase EXCEPT ![j] = "asks"]
  /\ floor' = [floor EXCEPT ![j] = returned]
  /\ UNCHANGED <<stateVars, callVars, swapVars, poolVars, version, reported, histVars>>

(* Slip: a dispatch looks at the planner state, too.                       *)
TakeUnderState(j) ==
  /\ phase[j] = "asks" /\ writer = Nobody /\ holder = Nobody
  /\ phase' = [phase EXCEPT ![j] = "runs"]
  /\ version' = [version EXCEPT ![j] = current]
  /\ UNCHANGED <<stateVars, callVars, swapVars, poolVars, reported, floor, histVars>>

(* ... and clones the current version under its read lock.                 *)
Take(j) ==
  /\ phase[j] = "asks" /\ writer = Nobody
  /\ phase' = [phase EXCEPT ![j] = "runs"]
  /\ version' = [version EXCEPT ![j] = current]
  /\ UNCHANGED <<stateVars, callVars, swapVars, poolVars, reported, floor, histVars>>

(* The caller asks current_version_id after its dispatch.                  *)
ReadId(j) ==
  /\ phase[j] = "runs" /\ reported[j] = 0
  /\ reported' = [reported EXCEPT ![j] = announced]
  /\ UNCHANGED <<stateVars, callVars, swapVars, poolVars, phase, version, floor, histVars>>

Forget(j) == /\ phase' = [phase EXCEPT ![j] = "over"]
             /\ version' = [version EXCEPT ![j] = 0]
             /\ reported' = [reported EXCEPT ![j] = 0]
             /\ floor' = [floor EXCEPT ![j] = 0]

(* The job lets go of its version; the last one to do so drops it ...      *)
Release(j) ==
  /\ phase[j] = "runs"
  /\ IF version[j] = current \/ \E k \in Jobs \ {j} : phase[k] = "runs" /\ version[k] = version[j]
     THEN Forget(j)
     ELSE phase' = [phase EXCEPT ![j] = "drops"] /\ UNCHANGED <<version, reported, floor>>
  /\ UNCHANGED <<stateVars, callVars, swapVars, poolVars, histVars>>

(* ... which gives the prepared state back.                                *)
Drop(j) ==
  /\ phase[j] = "drops"
  /\ Forget(j)
  /\ pool' = Append(pool, prepared[version[j]])
  /\ UNCHANGED <<stateVars, callVars, swapVars, spare, made, histVars>>

CallerStep(c) == \/ Pop(c) \/ DrawId(c) \/ Swap(c) \/ GiveBack(c) \/ Announce(c) \/ Commit(c)

Next == \/ \E c \in Callers : \/ Apply(c) \/ Replace(c) \/ Recompile(c) \/ Update(c)
                              \/ CompileFails(c) \/ Compile(c) \/ PrepareFails(c) \/ Prepare(c)
                              \/ CallerStep(c)
        \/ \E j \in Jobs : Ask(j) \/ Take(j) \/ ReadId(j) \/ Release(j) \/ Drop(j)

Spec == Init /\ [][Next]_vars

(* A caller goes on once the planner and the backend are done with their   *)
(* part, which nothing makes them be; a job gets the read lock although    *)
(* writers come in between.                                                *)
FairSpec == /\ Spec
            /\ \A c \in Callers : WF_vars(CallerStep(c))
            /\ \A j \in Jobs : SF_vars(Take(j))
-----------------------------------------------------------------------------
TypeOK ==
  /\ holder \in Callers \cup {Nobody} /\ writer \in Callers \cup {Nobody}
  /\ poisoned \in BOOLEAN /\ edited \in BOOLEAN
  /\ state \subseteq Changes /\ next \in [Callers -> SUBSET Changes]
  /\ at \in [Callers -> {"out", "compiles", "pops", "prepares", "draws", "swaps", "gives back",
                         "announces", "commits"}]
  /\ updates \subseteq Callers
  /\ hand \in [Callers -> Nat] /\ mine \in [Callers -> Nat]
  /\ nextId \in Nat /\ current \in Versions /\ announced \in Versions
  /\ content \in [Versions -> SUBSET Changes] /\ prepared \in [Versions -> Nat]
  /\ pool \in Seq(Nat) /\ spare \in Nat /\ made \in Nat
  /\ phase \in [Jobs -> {"out", "asks", "runs", "drops", "over"}]
  /\ version \in [Jobs -> 0..MaxVersion] /\ reported \in [Jobs -> 0..MaxVersion]
  /\ returned \in Versions /\ floor \in [Jobs -> 0..MaxVersion] /\ peak \in Nat

(* A prepared state is in one place only: in the pool, in one version that *)
(* is alive, or in the hands of one caller.  In particular none is reused  *)
(* while a job still runs with it (version.rs:23-34, stack.rs:810-816).    *)
PreparedExclusive ==
  /\ \A v, w \in Alive : prepared[v] = prepared[w] => v = w
  /\ \A i, k \in DOMAIN pool : pool[i] = pool[k] => i = k
  /\ \A v \in Alive : prepared[v] \notin Range(pool)
  /\ \A c \in Callers : hand[c] # 0 => /\ hand[c] \notin Range(pool)
                                       /\ \A v \in Alive : prepared[v] # hand[c]
                                       /\ \A d \in Callers \ {c} : hand[d] # hand[c]

(* However many versions are compiled, there are never more prepared       *)
(* states than versions were alive at once, and one that is being prepared *)
(* (stack.rs:810-816: the pool feeds every compilation).                   *)
PreparedBounded ==
  Len(pool) + Cardinality(Alive) + Cardinality({c \in Callers : hand[c] # 0}) <= peak + 1

(* What is served is what the planner state says, unless the state has     *)
(* been edited since: an update that fails at any point, or panics, leaves *)
(* both as they were, and one that succeeds changes both                   *)
(* (stack.rs:205-219, tests: failed_update_rolls_back_state).              *)
ServedMatchesState == holder = Nobody /\ ~edited => content[current] = state

(* Whoever dispatches after a recompile or update has returned runs with   *)
(* that version or a later one, and current_version_id, asked after that,  *)
(* names no older one than he runs with (stack.rs:224-232, 450-452,        *)
(* 826-834).                                                               *)
FreshVersions == \A j \in Jobs : /\ version[j] # 0 => version[j] >= floor[j]
                                 /\ reported[j] # 0 => reported[j] >= version[j]

(* A newer version is never replaced by an older one (stack.rs:820-833).   *)
NoVersionGoesBack == [][current' >= current]_vars

(* A dispatch gets a version however long a planner compiles or a backend  *)
(* prepares the next one, and also after either panicked (stack.rs:224).   *)
DispatchNotStalled == \A j \in Jobs : phase[j] = "asks" ~> phase[j] = "runs"
=============================================================================
