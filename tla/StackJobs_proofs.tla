-------------------------- MODULE StackJobs_proofs --------------------------
(***************************************************************************)
(* Proofs about StackJobs, for any jobs and any number of collects.        *)
(***************************************************************************)
EXTENDS StackJobs, TLAPS

(* A collect has a job from the moment it has found the record, and an     *)
(* outcome from the moment it has taken it.                                *)
Calls == \A c \in Collectors :
  /\ call[c] = "out" => target[c] = None
  /\ call[c] # "out" => target[c] \in Jobs /\ at[target[c]] = "returned"
  /\ call[c] \in {"out", "found", "asleep"} => got[c] = "nothing"
  /\ call[c] = "taken" => got[c] # "unknown"

(* A job moves once its first task is accepted, and the Option of its      *)
(* record is Some at most while it is completed or failed.                 *)
Records == \A j \in Jobs :
  /\ at[j] \in {"out", "inserted"} <=> status[j] = "absent"
  /\ at[j] = "refused" <=> status[j] = "refused"
  /\ payload[j] => status[j] \in {"completed", "failed"}
  /\ j \in twice => status[j] = "failed"

Inv == TypeOK /\ Calls /\ Records /\ NoSleepOnEnded /\ ValuesOnce /\ TableIsUncollected

LEMMA InitInv == Init => Inv
  BY NoneAssumption
  DEF Init, Inv, TypeOK, Calls, Records, NoSleepOnEnded, ValuesOnce, TableIsUncollected,
      Receivers, Collected, Lifecycle!Init, Unfinished, Lifecycle!Unfinished, Ended

(* ---------------------------------------------------------------------- *)
(* Steps that touch no collect: Receivers and Collected stay as they are.  *)
LEMMA SameCallers ==
  ASSUME UNCHANGED callVars, NEW j \in Jobs
  PROVE  Receivers(j)' = Receivers(j) /\ Collected(j)' = Collected(j)
  BY DEF callVars, Receivers, Collected

(* A wakeup changes neither, and moves sleepers only.                      *)
LEMMA AwakeCallers ==
  ASSUME Inv, NEW j \in Jobs, call' = Awake(j), UNCHANGED <<target, got>>
  PROVE  /\ \A i \in Jobs : Receivers(i)' = Receivers(i) /\ Collected(i)' = Collected(i)
         /\ \A c \in Collectors : call'[c] = call[c]
                                  \/ (call[c] = "asleep" /\ call'[c] = "found")
         /\ \A c \in Collectors : call'[c] = "asleep" => target[c] # j
         /\ call' \in [Collectors -> {"out", "found", "asleep", "taken", "done"}]
  <1>1. \A c \in Collectors : call'[c] = IF call[c] = "asleep" /\ target[c] = j
                                         THEN "found" ELSE call[c]
    BY DEF Awake
  <1>2. \A i \in Jobs : Receivers(i)' = Receivers(i)
    BY DEF Receivers
  <1>3. \A i \in Jobs : Collected(i)' = Collected(i)
    BY <1>1 DEF Collected
  <1>4. call' \in [Collectors -> {"out", "found", "asleep", "taken", "done"}]
    BY <1>1 DEF Awake, Inv, TypeOK
  <1>5. \A c \in Collectors : call'[c] = call[c] \/ (call[c] = "asleep" /\ call'[c] = "found")
    BY <1>1
  <1>6. \A c \in Collectors : call'[c] = "asleep" => target[c] # j
    BY <1>1
  <1> QED BY <1>2, <1>3, <1>4, <1>5, <1>6

LEMMA DispatchInv == ASSUME Inv, NEW j \in Jobs, DispatchStep(j) PROVE Inv'
  <1>0. UNCHANGED <<payload, twice, callVars>>
    BY DEF DispatchStep, Insert, Accept, Return, Refuse, jobVars
  <1>1. TypeOK' /\ Records'
    <2>1. CASE Insert(j)
      BY <2>1 DEF Inv, TypeOK, Records, Insert, jobVars, callVars
    <2>2. CASE Accept(j)
      BY <2>2 DEF Inv, TypeOK, Records, Accept, callVars, Lifecycle!Dispatch, Lifecycle!Move,
                  Unfinished, Lifecycle!Unfinished
    <2>3. CASE Return(j)
      BY <2>3 DEF Inv, TypeOK, Records, Return, jobVars, callVars
    <2>4. CASE Refuse(j)
      BY <2>4 DEF Inv, TypeOK, Records, Refuse, callVars, Lifecycle!Refuse, Lifecycle!Move
    <2> QED BY <2>1, <2>2, <2>3, <2>4 DEF DispatchStep
  <1>2. /\ at[j] # "returned"
        /\ \A i \in Jobs \ {j} : at'[i] = at[i] /\ status'[i] = status[i]
        /\ at'[j] # "out"
        /\ status'[j] = status[j]
           \/ (status[j] = "absent" /\ status'[j] \in {"queued", "refused"})
    <2>1. CASE Insert(j)
      BY <2>1 DEF Insert, Inv, TypeOK, jobVars
    <2>2. CASE Accept(j)
      BY <2>2 DEF Accept, Inv, TypeOK, Lifecycle!Dispatch, Lifecycle!Move
    <2>3. CASE Return(j)
      BY <2>3 DEF Return, Inv, TypeOK, jobVars
    <2>4. CASE Refuse(j)
      BY <2>4 DEF Refuse, Inv, TypeOK, Lifecycle!Refuse, Lifecycle!Move
    <2> QED BY <2>1, <2>2, <2>3, <2>4 DEF DispatchStep
  <1>3. \A c \in Collectors : target[c] # j
    <2> SUFFICES ASSUME NEW c \in Collectors PROVE target[c] # j
      OBVIOUS
    <2>1. CASE call[c] = "out"
      BY <2>1, NoneAssumption DEF Inv, Calls
    <2>2. CASE call[c] # "out"
      BY <2>2, <1>2 DEF Inv, Calls
    <2> QED BY <2>1, <2>2
  <1>4. Calls' /\ NoSleepOnEnded'
    BY <1>0, <1>2, <1>3 DEF Inv, Calls, NoSleepOnEnded, callVars
  <1>5. ValuesOnce'
    BY <1>0, <1>2, SameCallers DEF Inv, ValuesOnce
  <1>6. TableIsUncollected'
    <2>1. ~Collected(j)
      BY <1>3 DEF Collected
    <2> QED BY <1>0, <2>1, SameCallers
            DEF DispatchStep, Insert, Accept, Return, Refuse, Inv, TypeOK, TableIsUncollected
  <1> QED BY <1>1, <1>4, <1>5, <1>6 DEF Inv

LEMMA WorkerInv == ASSUME Inv, NEW j \in Jobs, WorkerStep(j) PROVE Inv'
  <1>0. call' = Awake(j) /\ UNCHANGED <<at, table, target, got>>
    BY DEF WorkerStep, MarkRunning, FinishCompleted, FinishFailed, FinishFailedAgain,
           FinishCancelled
  <1>1. TypeOK' /\ Records'
    <2>0. call' \in [Collectors -> {"out", "found", "asleep", "taken", "done"}]
      BY <1>0, AwakeCallers
    <2>1. CASE MarkRunning(j)
      BY <1>0, <2>0, <2>1 DEF Inv, TypeOK, Records, MarkRunning, Lifecycle!Start, Lifecycle!Move,
                         Unfinished, Lifecycle!Unfinished
    <2>2. CASE FinishCompleted(j)
      BY <1>0, <2>0, <2>2 DEF Inv, TypeOK, Records, FinishCompleted, Lifecycle!Complete,
                         Lifecycle!Move, Ended
    <2>3. CASE FinishFailed(j)
      BY <1>0, <2>0, <2>3 DEF Inv, TypeOK, Records, FinishFailed, Lifecycle!Fail,
                         Lifecycle!Move, Lifecycle!Unfinished, Ended
    <2>4. CASE FinishFailedAgain(j)
      BY <1>0, <2>0, <2>4 DEF Inv, TypeOK, Records, FinishFailedAgain
    <2>5. CASE FinishCancelled(j)
      BY <1>0, <2>0, <2>5 DEF Inv, TypeOK, Records, FinishCancelled, Lifecycle!Quit,
                         Lifecycle!Move, Lifecycle!Unfinished, Ended
    <2> QED BY <2>1, <2>2, <2>3, <2>4, <2>5 DEF WorkerStep
  <1>2. /\ \A i \in Jobs \ {j} : status'[i] = status[i] /\ payload'[i] = payload[i]
        /\ status[j] # "completed"
        /\ status'[j] = "completed" => payload'[j]
    <2>1. CASE MarkRunning(j)
      BY <2>1 DEF Inv, TypeOK, MarkRunning, Lifecycle!Start, Lifecycle!Move
    <2>2. CASE FinishCompleted(j)
      BY <2>2 DEF Inv, TypeOK, FinishCompleted, Lifecycle!Complete, Lifecycle!Move
    <2>3. CASE FinishFailed(j)
      BY <2>3 DEF Inv, TypeOK, FinishFailed, Lifecycle!Fail, Lifecycle!Move,
                  Lifecycle!Unfinished
    <2>4. CASE FinishFailedAgain(j)
      BY <2>4 DEF Inv, TypeOK, Records, FinishFailedAgain
    <2>5. CASE FinishCancelled(j)
      BY <2>5 DEF Inv, TypeOK, FinishCancelled, Lifecycle!Quit, Lifecycle!Move,
                  Lifecycle!Unfinished
    <2> QED BY <2>1, <2>2, <2>3, <2>4, <2>5 DEF WorkerStep
  <1>3. Calls'
    BY <1>0, AwakeCallers DEF Inv, Calls
  <1>4. NoSleepOnEnded'
    <2> SUFFICES ASSUME NEW c \in Collectors, call'[c] = "asleep"
                 PROVE  status'[target[c]] \in Unfinished
      BY <1>0 DEF NoSleepOnEnded, Unfinished, Lifecycle!Unfinished
    <2>1. call[c] = "asleep" /\ target[c] # j
      BY <1>0, AwakeCallers
    <2> QED BY <2>1, <1>2 DEF Inv, NoSleepOnEnded, Calls
  <1>5. ValuesOnce'
    <2> SUFFICES ASSUME NEW i \in Jobs
                 PROVE  (IF status[i] = "completed" /\ ~payload[i]
                         THEN \E c \in Collectors : Receivers(i) = {c}
                         ELSE Receivers(i) = {})'
      BY DEF ValuesOnce
    <2>1. Receivers(i)' = Receivers(i)
      BY <1>0, AwakeCallers
    <2>2. CASE i = j
      BY <2>1, <2>2, <1>2 DEF Inv, ValuesOnce
    <2>3. CASE i # j
      BY <2>1, <2>3, <1>2 DEF Inv, ValuesOnce
    <2> QED BY <2>2, <2>3
  <1>6. TableIsUncollected'
    <2>1. \A i \in Jobs : Collected(i)' = Collected(i)
      BY <1>0, AwakeCallers
    <2> QED BY <1>0, <2>1 DEF Inv, TableIsUncollected
  <1> QED BY <1>1, <1>3, <1>4, <1>5, <1>6 DEF Inv

LEMMA CancelInv == ASSUME Inv, NEW j \in Jobs, Cancel(j) PROVE Inv'
  <1>0. UNCHANGED <<status, payload, twice, at, table, callVars>> /\ cancel' \in [Jobs -> BOOLEAN]
    BY DEF Cancel, Lifecycle!Cancel, Inv, TypeOK
  <1>1. TypeOK' /\ Calls' /\ Records'
    BY <1>0 DEF Inv, TypeOK, Calls, Records, callVars
  <1>3. NoSleepOnEnded'
    BY <1>0 DEF Inv, NoSleepOnEnded, callVars, Unfinished, Lifecycle!Unfinished
  <1>2. ValuesOnce' /\ TableIsUncollected'
    BY <1>0, SameCallers DEF Inv, ValuesOnce, TableIsUncollected
  <1> QED BY <1>1, <1>2, <1>3 DEF Inv

(* ---------------------------------------------------------------------- *)
(* A collect's own steps.                                                  *)
LEMMA FindInv == ASSUME Inv, NEW c \in Collectors, NEW j \in Jobs, Find(c, j) PROVE Inv'
  <1>3. got[c] = "nothing" /\ call[c] = "out"
    BY DEF Find, Inv, Calls
  <1>1. TypeOK'
    BY DEF Find, Inv, TypeOK, jobVars
  <1>2. Records'
    BY DEF Find, Inv, Records, jobVars
  <1>6. \A d \in Collectors \ {c} : call'[d] = call[d] /\ target'[d] = target[d] /\ got'[d] = got[d]
    BY DEF Find, Inv, TypeOK
  <1>7. call'[c] = "found" /\ target'[c] = j /\ at[j] = "returned" /\ at' = at
    BY DEF Find, Inv, TypeOK
  <1>8. Calls'
    <2> SUFFICES ASSUME NEW d \in Collectors
                 PROVE  /\ call'[d] = "out" => target'[d] = None
                        /\ call'[d] # "out" => target'[d] \in Jobs /\ at'[target'[d]] = "returned"
                        /\ call'[d] \in {"out", "found", "asleep"} => got'[d] = "nothing"
                        /\ call'[d] = "taken" => got'[d] # "unknown"
      BY DEF Calls
    <2>1. CASE d = c
      BY <2>1, <1>3, <1>7 DEF Find
    <2>2. CASE d # c
      BY <2>2, <1>6, <1>7 DEF Inv, Calls
    <2> QED BY <2>1, <2>2
  <1>9. NoSleepOnEnded'
    BY <1>6, <1>7 DEF Find, Inv, NoSleepOnEnded, jobVars, Unfinished, Lifecycle!Unfinished
  <1>4. \A i \in Jobs : Receivers(i)' = Receivers(i) /\ Collected(i)' = Collected(i)
    BY <1>3 DEF Find, Inv, TypeOK, Receivers, Collected
  <1>5. ValuesOnce' /\ TableIsUncollected'
    BY <1>4 DEF Find, Inv, ValuesOnce, TableIsUncollected, jobVars
  <1> QED BY <1>1, <1>2, <1>5, <1>8, <1>9 DEF Inv

LEMMA FindNothingInv ==
  ASSUME Inv, NEW c \in Collectors, NEW j \in Jobs, FindNothing(c, j) PROVE Inv'
  <1>3. got[c] = "nothing" /\ call[c] = "out"
    BY DEF FindNothing, Inv, Calls
  <1>1. TypeOK'
    BY DEF FindNothing, Inv, TypeOK, jobVars
  <1>2. Records'
    BY DEF FindNothing, Inv, Records, jobVars
  <1>6. \A d \in Collectors \ {c} : call'[d] = call[d] /\ target'[d] = target[d] /\ got'[d] = got[d]
    BY DEF FindNothing, Inv, TypeOK
  <1>7. call'[c] = "done" /\ target'[c] = j /\ at[j] = "returned" /\ at' = at
    BY DEF FindNothing, Inv, TypeOK
  <1>8. Calls'
    <2> SUFFICES ASSUME NEW d \in Collectors
                 PROVE  /\ call'[d] = "out" => target'[d] = None
                        /\ call'[d] # "out" => target'[d] \in Jobs /\ at'[target'[d]] = "returned"
                        /\ call'[d] \in {"out", "found", "asleep"} => got'[d] = "nothing"
                        /\ call'[d] = "taken" => got'[d] # "unknown"
      BY DEF Calls
    <2>1. CASE d = c
      BY <2>1, <1>3, <1>7 DEF FindNothing
    <2>2. CASE d # c
      BY <2>2, <1>6, <1>7 DEF Inv, Calls
    <2> QED BY <2>1, <2>2
  <1>9. NoSleepOnEnded'
    BY <1>6, <1>7 DEF FindNothing, Inv, NoSleepOnEnded, jobVars, Unfinished, Lifecycle!Unfinished
  <1>4. \A i \in Jobs : Receivers(i)' = Receivers(i) /\ Collected(i)' = Collected(i)
    BY <1>3 DEF FindNothing, Inv, TypeOK, Receivers, Collected
  <1>5. ValuesOnce' /\ TableIsUncollected'
    BY <1>4 DEF FindNothing, Inv, ValuesOnce, TableIsUncollected, jobVars
  <1> QED BY <1>1, <1>2, <1>5, <1>8, <1>9 DEF Inv

(* Going to sleep and waking up: call changes between "found" and "asleep".*)
LEMMA WaitInv == ASSUME Inv, NEW c \in Collectors, Wait(c) \/ SpuriousWake(c) PROVE Inv'
  <1>0. UNCHANGED <<jobVars, at, table, target, got>>
    BY DEF Wait, SpuriousWake
  <1>1. /\ call[c] \in {"found", "asleep"}
        /\ call'[c] \in {"found", "asleep"}
        /\ call'[c] = "asleep" => status[target[c]] \in Unfinished
        /\ \A d \in Collectors \ {c} : call'[d] = call[d]
        /\ call' \in [Collectors -> {"out", "found", "asleep", "taken", "done"}]
    <2>1. CASE Wait(c)
      BY <2>1 DEF Wait, Inv, TypeOK
    <2>2. CASE SpuriousWake(c)
      BY <2>2 DEF SpuriousWake, Inv, TypeOK
    <2> QED BY <2>1, <2>2
  <1>2. TypeOK'
    BY <1>0, <1>1 DEF Inv, TypeOK, jobVars
  <1>3. Records'
    BY <1>0 DEF Inv, Records, jobVars
  <1>4. Calls'
    BY <1>0, <1>1 DEF Inv, Calls
  <1>5. NoSleepOnEnded'
    BY <1>0, <1>1 DEF Inv, NoSleepOnEnded, jobVars, Unfinished, Lifecycle!Unfinished
  <1>6. \A i \in Jobs : Receivers(i)' = Receivers(i)
    BY <1>0 DEF Receivers
  <1>7. \A i \in Jobs : Collected(i)' = Collected(i)
    <2>1. \A d \in Collectors : call'[d] = "done" <=> call[d] = "done"
      BY <1>1
    <2> QED BY <1>0, <2>1 DEF Collected
  <1>8. ValuesOnce' /\ TableIsUncollected'
    BY <1>0, <1>6, <1>7 DEF Inv, ValuesOnce, TableIsUncollected, jobVars
  <1> QED BY <1>2, <1>3, <1>4, <1>5, <1>8 DEF Inv

(* The values go to the collect that empties the Option of a completed job.*)
LEMMA TakeInv == ASSUME Inv, NEW c \in Collectors, Take(c) PROVE Inv'
  <1> DEFINE j == target[c]
  <1>0. j \in Jobs /\ status[j] \in Ended /\ call[c] = "found" /\ got[c] = "nothing"
    BY DEF Take, Inv, Calls
  <1>1. Outcome(j) \in {"values", "empty", "error", "job failed", "cancelled"}
        /\ (Outcome(j) = "values" <=> status[j] = "completed" /\ payload[j])
    BY <1>0 DEF Outcome, Ended, Inv, TypeOK
  <1>2. /\ UNCHANGED <<status, cancel, twice, at, table, target>>
        /\ call' = [call EXCEPT ![c] = "taken"]
        /\ got' = [got EXCEPT ![c] = Outcome(j)]
        /\ payload' = [payload EXCEPT ![j] = FALSE]
    BY DEF Take, TakenFrom
  <1>3. TypeOK'
    BY <1>0, <1>1, <1>2 DEF Inv, TypeOK
  <1>7. Records'
    BY <1>0, <1>2 DEF Inv, TypeOK, Records
  <1>8. Calls'
    <2>1. call'[c] = "taken" /\ got'[c] # "unknown"
      BY <1>1, <1>2 DEF Inv, TypeOK
    <2>2. \A d \in Collectors \ {c} : call'[d] = call[d] /\ got'[d] = got[d]
      BY <1>2 DEF Inv, TypeOK
    <2> QED BY <1>0, <1>2, <2>1, <2>2 DEF Inv, Calls
  <1>4. NoSleepOnEnded'
    BY <1>2 DEF Inv, TypeOK, NoSleepOnEnded, Unfinished, Lifecycle!Unfinished
  <1>5. TableIsUncollected'
    <2>1. \A i \in Jobs : Collected(i)' = Collected(i)
      BY <1>0, <1>2 DEF Inv, TypeOK, Collected
    <2> QED BY <1>2, <2>1 DEF Inv, TableIsUncollected
  <1>6. ValuesOnce'
    <2> SUFFICES ASSUME NEW i \in Jobs
                 PROVE  (IF status[i] = "completed" /\ ~payload[i]
                         THEN \E d \in Collectors : Receivers(i) = {d}
                         ELSE Receivers(i) = {})'
      BY DEF ValuesOnce
    <2>1. CASE i # j
      <3>1. Receivers(i)' = Receivers(i)
        BY <1>2, <2>1 DEF Inv, TypeOK, Receivers
      <3> QED BY <2>1, <3>1, <1>2, <1>0 DEF Inv, TypeOK, ValuesOnce
    <2>2. CASE i = j /\ status[j] = "completed" /\ payload[j]
      <3>1. Receivers(j) = {}
        BY <1>0, <2>2 DEF Inv, ValuesOnce
      <3>2. Receivers(j)' = {c}
        BY <1>1, <1>2, <2>2, <3>1 DEF Inv, TypeOK, Receivers
      <3> QED BY <1>0, <1>2, <2>2, <3>2 DEF Inv, TypeOK
    <2>3. CASE i = j /\ ~(status[j] = "completed" /\ payload[j])
      <3>1. Receivers(j)' = Receivers(j)
        BY <1>0, <1>1, <1>2, <2>3 DEF Inv, TypeOK, Receivers
      <3> QED BY <1>0, <1>2, <2>3, <3>1 DEF Inv, TypeOK, ValuesOnce
    <2> QED BY <2>1, <2>2, <2>3
  <1> QED BY <1>3, <1>4, <1>5, <1>6, <1>7, <1>8 DEF Inv

(* Removing a record that another collect has removed changes nothing.     *)
LEMMA RemoveInv == ASSUME Inv, NEW c \in Collectors, Remove(c) PROVE Inv'
  <1>1. TypeOK'
    BY DEF Remove, Inv, TypeOK, jobVars
  <1>7. Records'
    BY DEF Remove, Inv, Records, jobVars
  <1>8. Calls' /\ NoSleepOnEnded'
    <2>1. call[c] = "taken" /\ call'[c] = "done"
      BY DEF Remove, Inv, TypeOK
    <2>2. \A d \in Collectors \ {c} : call'[d] = call[d]
      BY DEF Remove, Inv, TypeOK
    <2>3. UNCHANGED <<status, at, target, got>>
      BY DEF Remove, jobVars
    <2>4. Calls'
      BY <2>1, <2>2, <2>3 DEF Inv, Calls
    <2>5. NoSleepOnEnded'
      BY <2>1, <2>2, <2>3 DEF Inv, NoSleepOnEnded, Unfinished, Lifecycle!Unfinished
    <2> QED BY <2>4, <2>5
  <1>2. \A i \in Jobs : Receivers(i)' = Receivers(i)
    BY DEF Remove, Receivers
  <1>3. ValuesOnce'
    BY <1>2 DEF Remove, Inv, ValuesOnce, jobVars
  <1>4. target[c] \in Jobs /\ got[c] # "unknown" /\ call[c] = "taken"
    BY DEF Remove, Inv, Calls
  <1>5. \A i \in Jobs : Collected(i)' <=> Collected(i) \/ i = target[c]
    BY <1>4 DEF Remove, Inv, TypeOK, Collected
  <1>6. TableIsUncollected'
    BY <1>5 DEF Remove, Inv, TableIsUncollected
  <1> QED BY <1>1, <1>3, <1>6, <1>7, <1>8 DEF Inv

LEMMA StepInv == Inv /\ [Next]_vars => Inv'
  <1> SUFFICES ASSUME Inv, [Next]_vars PROVE Inv'
    OBVIOUS
  <1>1. CASE \E j \in Jobs : DispatchStep(j) \/ Cancel(j) \/ WorkerStep(j)
    BY <1>1, DispatchInv, CancelInv, WorkerInv
  <1>2. CASE \E c \in Collectors, j \in Jobs : Find(c, j) \/ FindNothing(c, j)
    BY <1>2, FindInv, FindNothingInv
  <1>3. CASE \E c \in Collectors : CollectStep(c) \/ SpuriousWake(c)
    BY <1>3, WaitInv, TakeInv, RemoveInv DEF CollectStep
  <1>4. CASE UNCHANGED vars
    <2>1. TypeOK' /\ Calls' /\ Records'
      BY <1>4 DEF vars, Inv, TypeOK, Calls, Records
    <2>2. NoSleepOnEnded'
      BY <1>4 DEF vars, Inv, NoSleepOnEnded, Unfinished, Lifecycle!Unfinished
    <2>3. ValuesOnce' /\ TableIsUncollected'
      BY <1>4, SameCallers DEF vars, callVars, Inv, ValuesOnce, TableIsUncollected
    <2> QED BY <2>1, <2>2, <2>3 DEF Inv
  <1> QED BY <1>1, <1>2, <1>3, <1>4 DEF Next

(* The inductive invariant of the job table.                               *)
THEOREM Invariance == Spec => []Inv
  BY InitInv, StepInv, PTL DEF Spec

(* The records, the table and the collects stay well typed.                *)
THEOREM TypeCorrect == Spec => []TypeOK
  <1>1. Inv => TypeOK
    BY DEF Inv
  <1> QED BY <1>1, Invariance, PTL

(* However many collects wait for a job, the notify_all of the step that   *)
(* ends it leaves none asleep, and none falls asleep afterwards.           *)
THEOREM CollectorsWoken == Spec => []NoSleepOnEnded
  <1>1. Inv => NoSleepOnEnded
    BY DEF Inv
  <1> QED BY <1>1, Invariance, PTL

(* Concurrent collects of one job get its values exactly once.             *)
THEOREM ValuesHandedOutOnce == Spec => []ValuesOnce
  <1>1. Inv => ValuesOnce
    BY DEF Inv
  <1> QED BY <1>1, Invariance, PTL

(* dispatch and collect keep the table exact: no record is forgotten before*)
(* it is collected, none stays behind.                                     *)
THEOREM TableExact == Spec => []TableIsUncollected
  <1>1. Inv => TableIsUncollected
    BY DEF Inv
  <1> QED BY <1>1, Invariance, PTL
=============================================================================
