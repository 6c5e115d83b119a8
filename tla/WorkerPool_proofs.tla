-------------------------- MODULE WorkerPool_proofs --------------------------
(***************************************************************************)
(* Proofs about WorkerPool, for any number of workers, outside threads and *)
(* tasks.  The wakeup accounting compares the length of the queue with the *)
(* number of workers and submitters still on their way, so each action is  *)
(* followed through the sets Idle and Notified.                            *)
(***************************************************************************)
EXTENDS WorkerPool, FiniteSetTheorems, SequenceTheorems, TLAPS

(* A worker submits only from inside the task it runs, a thread between    *)
(* the flag test and the push holds a task it may submit, and a worker     *)
(* that shuts down is the last owner: nobody is about to push.             *)
Submitting ==
  /\ \A w \in Workers : submit[w] # "out" => worker[w] = "busy"
  /\ \A th \in Threads : IF submit[th] = "admitted"
                         THEN hand[th] \in Task /\ th \in Submitters[hand[th]]
                         ELSE hand[th] = None

LastOwnerQuiet == closer \in Workers =>
  shutdown /\ queue = <<>> /\ \A th \in Threads : submit[th] # "admitted"

(* A task from a worker stays in the queue only while a worker is left.    *)
SomebodyLeft == \A t \in Queued :
  Submitters[t] \cap Outsiders = {} => \E w \in Workers : worker[w] # "exited"

AllJoined == stopping = "joined" =>
  closer \in Threads /\ \A w \in Workers \ {closer} : worker[w] = "exited"

Inv == /\ TypeOK
       /\ Submitting
       /\ DozingAlone
       /\ NoSleepOnWork
       /\ OneOwner
       /\ LastOwnerQuiet
       /\ SomebodyLeft
       /\ AllJoined
       /\ stopping # "open" => shutdown /\ closer \in Threads
       /\ stopping = "open" => closer = None

(* ---------------------------------------------------------------------- *)
(* The counts behind NoSleepOnWork.                                        *)
LEMMA Counts ==
  /\ IsFiniteSet(Threads) /\ Workers \subseteq Threads
  /\ IsFiniteSet(Idle) /\ Cardinality(Idle) \in Nat
  /\ IsFiniteSet(Notified) /\ Cardinality(Notified) \in Nat
  <1>1. IsFiniteSet(Threads) /\ Workers \subseteq Threads
    BY WorkerAssumption, OutsiderAssumption, FS_Union DEF Threads
  <1>2. Idle \subseteq Workers /\ Notified \subseteq Threads
    BY DEF Idle, Notified
  <1> QED BY <1>1, <1>2, FS_Subset, FS_CardinalityType, WorkerAssumption

LEMMA OneMoreIdle ==
  ASSUME TypeOK, NEW w \in Workers, worker[w] # "idle",
         worker' = [worker EXCEPT ![w] = "idle"]
  PROVE  Cardinality(Idle') = Cardinality(Idle) + 1
  <1>1. Idle' = Idle \cup {w} /\ w \notin Idle
    BY DEF Idle, TypeOK
  <1> QED BY <1>1, Counts, FS_AddElement

LEMMA OneLessIdle ==
  ASSUME TypeOK, NEW w \in Workers, NEW s, worker[w] = "idle", s # "idle",
         worker' = [worker EXCEPT ![w] = s]
  PROVE  Cardinality(Idle') = Cardinality(Idle) - 1
  <1>1. Idle' = Idle \ {w} /\ w \in Idle
    BY DEF Idle, TypeOK
  <1> QED BY <1>1, Counts, FS_RemoveElement

LEMMA OneMoreNotified ==
  ASSUME TypeOK, NEW th \in Threads, submit[th] = "admitted",
         submit' = [submit EXCEPT ![th] = "pushed"]
  PROVE  Cardinality(Notified') = Cardinality(Notified) + 1
  <1>1. Notified' = Notified \cup {th} /\ th \notin Notified
    BY DEF Notified, TypeOK
  <1> QED BY <1>1, Counts, FS_AddElement

LEMMA OneLessNotified ==
  ASSUME TypeOK, NEW th \in Threads, submit[th] = "pushed",
         submit' = [submit EXCEPT ![th] = "out"]
  PROVE  Cardinality(Notified') = Cardinality(Notified) - 1
  <1>1. Notified' = Notified \ {th} /\ th \in Notified
    BY DEF Notified, TypeOK
  <1> QED BY <1>1, Counts, FS_RemoveElement

LEMMA SameOwners ==
  ASSUME OneOwner, UNCHANGED <<queue, hand, cur>>
  PROVE  OneOwner'
  <1>1. Queued' = Queued
    BY DEF Queued
  <1> QED BY <1>1 DEF OneOwner, QueuedOnce, QueueApart, HandsApart, RunApart

(* What pop_front does to a queue whose boxes are distinct.                *)
LEMMA PopFront ==
  ASSUME queue \in Seq(Task), queue # <<>>,
         \A i, j \in DOMAIN queue : queue[i] = queue[j] => i = j
  PROVE  /\ Head(queue) \in Task /\ Head(queue) \in Queued
         /\ Tail(queue) \in Seq(Task)
         /\ Len(Tail(queue)) = Len(queue) - 1
         /\ \A i, j \in DOMAIN Tail(queue) : Tail(queue)[i] = Tail(queue)[j] => i = j
         /\ \A i \in DOMAIN Tail(queue) : /\ Tail(queue)[i] \in Queued
                                          /\ Tail(queue)[i] # Head(queue)
  <1>1. Len(queue) \in Nat /\ Len(queue) >= 1 /\ DOMAIN queue = 1..Len(queue)
    BY EmptySeq, LenProperties
  <1>2. /\ Head(queue) = queue[1] /\ Head(queue) \in Task
        /\ Tail(queue) \in Seq(Task)
        /\ Len(Tail(queue)) = Len(queue) - 1
        /\ \A i \in 1..Len(Tail(queue)) : Tail(queue)[i] = queue[i + 1]
    BY <1>1, HeadTailProperties
  <1>3. DOMAIN Tail(queue) = 1..(Len(queue) - 1)
    BY <1>2, LenProperties
  <1>4. \A i \in DOMAIN Tail(queue) : /\ i + 1 \in DOMAIN queue /\ i + 1 # 1
                                      /\ Tail(queue)[i] = queue[i + 1]
    BY <1>1, <1>2, <1>3
  <1>5. 1 \in DOMAIN queue
    BY <1>1
  <1>6. \A i, j \in DOMAIN Tail(queue) : Tail(queue)[i] = Tail(queue)[j] => i = j
    BY <1>3, <1>4
  <1>7. \A i \in DOMAIN Tail(queue) : /\ Tail(queue)[i] \in Queued
                                      /\ Tail(queue)[i] # Head(queue)
    BY <1>2, <1>4, <1>5 DEF Queued
  <1> QED BY <1>2, <1>5, <1>6, <1>7 DEF Queued

(* What push_back does.                                                    *)
LEMMA PushBack ==
  ASSUME queue \in Seq(Task), NEW t \in Task, t \notin Queued,
         \A i, j \in DOMAIN queue : queue[i] = queue[j] => i = j
  PROVE  LET q == Append(queue, t)
         IN /\ q \in Seq(Task) /\ q # <<>>
            /\ Len(q) = Len(queue) + 1
            /\ \A i, j \in DOMAIN q : q[i] = q[j] => i = j
            /\ {q[i] : i \in DOMAIN q} = Queued \cup {t}
  <1> DEFINE q == Append(queue, t)
             n == Len(queue)
  <1>1. /\ q \in Seq(Task) /\ q # <<>>
        /\ Len(q) = n + 1 /\ n \in Nat
        /\ \A i \in 1..n : q[i] = queue[i]
        /\ q[n + 1] = t
    BY AppendProperties, LenProperties
  <1>2. DOMAIN q = 1..(n + 1) /\ DOMAIN queue = 1..n
    BY <1>1, LenProperties
  <1> HIDE DEF q, n
  <1>3. \A i \in DOMAIN q : i \in 1..n \/ i = n + 1
    BY <1>1, <1>2
  <1>4. \A i \in 1..n : q[i] \in Queued /\ q[i] # t
    BY <1>1, <1>2 DEF Queued
  <1>5. \A i, j \in DOMAIN q : q[i] = q[j] => i = j
    BY <1>1, <1>2, <1>3, <1>4
  <1>6. {q[i] : i \in DOMAIN q} = Queued \cup {t}
    <2>1. {q[i] : i \in DOMAIN q} \subseteq Queued \cup {t}
      BY <1>1, <1>3, <1>4
    <2>2. \A i \in 1..n : queue[i] \in {q[k] : k \in DOMAIN q}
      BY <1>1, <1>2
    <2>3. t \in {q[k] : k \in DOMAIN q}
      BY <1>1, <1>2
    <2> QED BY <2>1, <2>2, <2>3, <1>2 DEF Queued
  <1> QED BY <1>1, <1>5, <1>6 DEF q, n

LEMMA InitInv == Init => Inv
  <1> SUFFICES ASSUME Init PROVE Inv
    OBVIOUS
  <1>1. TypeOK
    BY EmptySeq DEF Init, TypeOK
  <1>2. Queued = {}
    BY DEF Init, Queued
  <1>5. Submitting /\ DozingAlone /\ SomebodyLeft
    BY <1>2, Counts DEF Init, Submitting, DozingAlone, SomebodyLeft
  <1>6. OneOwner
    BY <1>2 DEF Init, OneOwner, QueuedOnce, QueueApart, HandsApart, RunApart
  <1>3. NoSleepOnWork
    BY DEF Init, NoSleepOnWork
  <1>4. LastOwnerQuiet /\ AllJoined
    BY NoneAssumption DEF Init, LastOwnerQuiet, AllJoined, Threads
  <1> QED BY <1>1, <1>3, <1>4, <1>5, <1>6 DEF Init, Inv

(* ---------------------------------------------------------------------- *)
(* One lemma per action.                                                   *)
LEMMA AdmitInv ==
  ASSUME Inv, NEW t \in Task, NEW th \in Submitters[t], Admit(th, t)
  PROVE  Inv'
  <1>0. /\ th \in Threads
        /\ th \in Workers => worker[th] = "busy"
        /\ submit[th] = "out" /\ ~shutdown
        /\ t \notin Queued
        /\ \A u \in Threads : hand[u] # t
        /\ \A w \in Workers : cur[w] # t
        /\ submit' = [submit EXCEPT ![th] = "admitted"]
        /\ hand' = [hand EXCEPT ![th] = t]
        /\ UNCHANGED <<queue, shutdown, worker, cur, stopping, closer>>
    BY SubmitAssumption DEF Admit, Active, Unowned
  <1>1. TypeOK' /\ DozingAlone' /\ SomebodyLeft' /\ AllJoined'
    BY <1>0 DEF Inv, TypeOK, DozingAlone, SomebodyLeft, Queued, AllJoined
  <1>2. Submitting'
    BY <1>0, NoneAssumption DEF Inv, TypeOK, Submitting
  <1>3. NoSleepOnWork'
    <2>1. Notified' = Notified /\ Idle' = Idle
      BY <1>0 DEF Inv, TypeOK, Notified, Idle
    <2> QED BY <2>1, <1>0 DEF Inv, NoSleepOnWork
  <1>4. OneOwner'
    <2>1. Queued' = Queued /\ QueuedOnce'
      BY <1>0 DEF Queued, Inv, OneOwner, QueuedOnce
    <2>2. QueueApart' /\ RunApart'
      BY <1>0, <2>1 DEF Inv, TypeOK, OneOwner, QueueApart, RunApart
    <2>3. HandsApart'
      BY <1>0, NoneAssumption DEF Inv, TypeOK, OneOwner, HandsApart
    <2> QED BY <2>1, <2>2, <2>3 DEF OneOwner
  <1>5. LastOwnerQuiet'
    BY <1>0 DEF Inv, LastOwnerQuiet
  <1> QED BY <1>0, <1>1, <1>2, <1>3, <1>4, <1>5 DEF Inv

LEMMA PushInv == ASSUME Inv, NEW th \in Threads, Push(th) PROVE Inv'
  <1> DEFINE t == hand[th]
  <1>0. /\ submit[th] = "admitted"
        /\ t \in Task /\ th \in Submitters[t]
        /\ \A w \in Workers : worker[w] # "dozing"
        /\ queue' = Append(queue, t)
        /\ submit' = [submit EXCEPT ![th] = "pushed"]
        /\ hand' = [hand EXCEPT ![th] = None]
        /\ UNCHANGED <<shutdown, worker, cur, stopping, closer>>
    BY DEF Push, QueueLockFree, Inv, Submitting
  <1>1. /\ t \notin Queued
        /\ \A u \in Threads \ {th} : hand[u] # t
        /\ \A w \in Workers : cur[w] # t
    BY <1>0, NoneAssumption DEF Inv, OneOwner, QueueApart, HandsApart
  <1>2. /\ queue' \in Seq(Task)
        /\ Len(queue') = Len(queue) + 1 /\ Len(queue) \in Nat
        /\ \A i, j \in DOMAIN queue' : queue'[i] = queue'[j] => i = j
        /\ Queued' = Queued \cup {t}
    <2>1. queue \in Seq(Task) /\ \A i, j \in DOMAIN queue : queue[i] = queue[j] => i = j
      BY DEF Inv, TypeOK, OneOwner, QueuedOnce
    <2>2. Len(queue) \in Nat
      BY <2>1, LenProperties
    <2> HIDE DEF t
    <2> QED BY <1>0, <1>1, <2>1, <2>2, PushBack DEF Queued
  <1>3. TypeOK' /\ DozingAlone' /\ AllJoined'
    BY <1>0, <1>2 DEF Inv, TypeOK, DozingAlone, AllJoined
  <1>4. Submitting'
    BY <1>0 DEF Inv, TypeOK, Submitting
  <1>5. NoSleepOnWork'
    <2>1. Idle' = Idle /\ Cardinality(Notified') = Cardinality(Notified) + 1
      BY <1>0, OneMoreNotified DEF Inv, Idle
    <2> QED BY <2>1, <1>0, <1>2, Counts DEF Inv, NoSleepOnWork
  <1>6. OneOwner'
    <2>1. QueuedOnce'
      BY <1>2 DEF QueuedOnce
    <2>2. QueueApart'
      <3>1. \A u \in Threads : hand'[u] = IF u = th THEN None ELSE hand[u]
        BY <1>0 DEF Inv, TypeOK
      <3>2. \A x \in Queued' : x # None
        BY <1>0, <1>2, NoneAssumption, LenProperties DEF Queued, Inv, TypeOK
      <3> QED BY <1>0, <1>1, <1>2, <3>1, <3>2 DEF Inv, OneOwner, QueueApart
    <2>3. HandsApart' /\ RunApart'
      BY <1>0 DEF Inv, TypeOK, OneOwner, HandsApart, RunApart
    <2> QED BY <2>1, <2>2, <2>3 DEF OneOwner
  <1>7. LastOwnerQuiet'
    BY <1>0 DEF Inv, LastOwnerQuiet
  <1>8. SomebodyLeft'
    <2>1. Submitters[t] \cap Outsiders = {} => th \in Workers /\ worker[th] = "busy"
      BY <1>0 DEF Threads, Inv, Submitting
    <2> QED BY <2>1, <1>0, <1>2 DEF Inv, SomebodyLeft
  <1> QED BY <1>0, <1>3, <1>4, <1>5, <1>6, <1>7, <1>8 DEF Inv

LEMMA NotifyOneInv == ASSUME Inv, NEW th \in Threads, NotifyOne(th) PROVE Inv'
  <1>0. /\ submit[th] = "pushed"
        /\ submit' = [submit EXCEPT ![th] = "out"]
        /\ UNCHANGED <<queue, shutdown, cur, hand, stopping, closer>>
    BY DEF NotifyOne
  <1>n. Cardinality(Notified') = Cardinality(Notified) - 1
    BY <1>0, OneLessNotified DEF Inv
  <1>q. Len(queue) \in Nat /\ (queue = <<>> => Len(queue) = 0)
    BY EmptySeq, LenProperties DEF Inv, TypeOK
  <1>1. CASE \E w \in Workers : /\ worker[w] = "asleep"
                                /\ worker' = [worker EXCEPT ![w] = "idle"]
    <2>1. PICK w \in Workers : worker[w] = "asleep" /\ worker' = [worker EXCEPT ![w] = "idle"]
      BY <1>1
    <2>2. TypeOK' /\ DozingAlone' /\ LastOwnerQuiet'
      BY <1>0, <2>1 DEF Inv, TypeOK, DozingAlone, LastOwnerQuiet
    <2>3. Submitting'
      BY <1>0, <2>1 DEF Inv, TypeOK, Submitting
    <2>4. NoSleepOnWork'
      <3>1. Cardinality(Idle') = Cardinality(Idle) + 1
        BY <2>1, OneMoreIdle DEF Inv
      <3> QED BY <3>1, <2>1, <1>0, <1>n, <1>q, Counts DEF Inv, TypeOK, NoSleepOnWork
    <2>5. OneOwner'
      BY <1>0, SameOwners DEF Inv
    <2>6. SomebodyLeft' /\ AllJoined'
      BY <1>0, <2>1 DEF Inv, TypeOK, SomebodyLeft, Queued, AllJoined
    <2> QED BY <1>0, <2>2, <2>3, <2>4, <2>5, <2>6 DEF Inv
  <1>2. CASE (\A w \in Workers : worker[w] # "asleep") /\ UNCHANGED worker
    <2>1. TypeOK' /\ DozingAlone' /\ LastOwnerQuiet' /\ Submitting'
      BY <1>0, <1>2 DEF Inv, TypeOK, DozingAlone, LastOwnerQuiet, Submitting
    <2>2. NoSleepOnWork'
      <3> SUFFICES ASSUME NEW w \in Workers, worker[w] \in {"dozing", "asleep"}
                   PROVE  Len(queue) <= Cardinality(Idle') + Cardinality(Notified')
        BY <1>0, <1>2 DEF NoSleepOnWork
      <3>1. Len(queue) = 0
        BY <1>2, <1>q DEF Inv, DozingAlone
      <3>2. Cardinality(Idle') \in Nat /\ Cardinality(Notified') \in Nat
        <4>1. Idle' \subseteq Threads /\ Notified' \subseteq Threads
          BY Counts DEF Idle, Notified
        <4> QED BY <4>1, Counts, FS_Subset, FS_CardinalityType
      <3> QED BY <3>1, <3>2
    <2>3. OneOwner' /\ SomebodyLeft' /\ AllJoined'
      BY <1>0, <1>2, SameOwners DEF Inv, SomebodyLeft, Queued, AllJoined
    <2> QED BY <1>0, <2>1, <2>2, <2>3 DEF Inv
  <1> QED BY <1>1, <1>2 DEF NotifyOne

LEMMA TakeInv == ASSUME Inv, NEW w \in Workers, Take(w) PROVE Inv'
  <1> DEFINE h == Head(queue)
  <1>0. /\ worker[w] = "idle" /\ queue # <<>>
        /\ \A v \in Workers : worker[v] # "dozing"
        /\ queue' = Tail(queue)
        /\ cur' = [cur EXCEPT ![w] = h]
        /\ worker' = [worker EXCEPT ![w] = "busy"]
        /\ UNCHANGED <<shutdown, submit, hand, stopping, closer>>
    BY DEF Take, QueueLockFree
  <1>1. /\ h \in Task /\ h \in Queued
        /\ queue' \in Seq(Task)
        /\ Len(queue') = Len(queue) - 1 /\ Len(queue) \in Nat
        /\ \A i, j \in DOMAIN queue' : queue'[i] = queue'[j] => i = j
        /\ Queued' \subseteq Queued /\ h \notin Queued'
    BY <1>0, PopFront, LenProperties DEF Inv, TypeOK, OneOwner, QueuedOnce, Queued
  <1>2. TypeOK' /\ DozingAlone'
    BY <1>0, <1>1 DEF Inv, TypeOK, DozingAlone
  <1>3. Submitting'
    BY <1>0 DEF Inv, TypeOK, Submitting
  <1>4. NoSleepOnWork'
    <2>1. Cardinality(Idle') = Cardinality(Idle) - 1 /\ Notified' = Notified
      BY <1>0, OneLessIdle DEF Inv, Notified
    <2> QED BY <2>1, <1>0, <1>1, Counts DEF Inv, TypeOK, NoSleepOnWork
  <1>5. OneOwner'
    <2>1. QueuedOnce'
      BY <1>1 DEF QueuedOnce
    <2>2. QueueApart'
      BY <1>0, <1>1 DEF Inv, TypeOK, OneOwner, QueueApart
    <2>3. HandsApart'
      BY <1>0, <1>1 DEF Inv, TypeOK, OneOwner, QueueApart, HandsApart
    <2>4. RunApart'
      BY <1>0, <1>1 DEF Inv, TypeOK, OneOwner, QueueApart, RunApart
    <2> QED BY <2>1, <2>2, <2>3, <2>4 DEF OneOwner
  <1>6. LastOwnerQuiet' /\ SomebodyLeft'
    BY <1>0, <1>1 DEF Inv, TypeOK, LastOwnerQuiet, SomebodyLeft
  <1>7. AllJoined'
    <2>1. stopping = "joined" => \A v \in Workers \ {closer} : v # w
      BY <1>0 DEF Inv, AllJoined
    <2> QED BY <2>1, <1>0 DEF Inv, TypeOK, AllJoined
  <1> QED BY <1>0, <1>2, <1>3, <1>4, <1>5, <1>6, <1>7 DEF Inv

(* The queue is empty while a worker goes to sleep or exits.               *)
LEMMA EmptyQueueInv ==
  ASSUME Inv, NEW w \in Workers, Doze(w) \/ FallAsleep(w) \/ Exit(w)
  PROVE  Inv'
  <1>0. /\ worker[w] \in {"idle", "dozing"}
        /\ queue = <<>>
        /\ worker' \in {[worker EXCEPT ![w] = s] : s \in {"dozing", "asleep", "exited"}}
        /\ worker'[w] = "dozing" => \A v \in Workers : worker[v] # "dozing"
        /\ UNCHANGED <<queue, shutdown, cur, submit, hand, stopping, closer>>
    BY DEF Doze, FallAsleep, Exit, QueueLockFree, Inv, TypeOK, DozingAlone
  <1>1. PICK s \in {"dozing", "asleep", "exited"} : worker' = [worker EXCEPT ![w] = s]
    BY <1>0
  <1>2. TypeOK' /\ DozingAlone'
    BY <1>0, <1>1 DEF Inv, TypeOK, DozingAlone
  <1>3. Submitting'
    BY <1>0, <1>1 DEF Inv, TypeOK, Submitting
  <1>4. NoSleepOnWork'
    <2>1. Len(queue) = 0
      BY <1>0, EmptySeq
    <2>2. Cardinality(Idle') \in Nat /\ Cardinality(Notified') \in Nat
      <3>1. Idle' \subseteq Threads /\ Notified' \subseteq Threads
        BY Counts DEF Idle, Notified
      <3> QED BY <3>1, Counts, FS_Subset, FS_CardinalityType
    <2> QED BY <2>1, <2>2, <1>0 DEF NoSleepOnWork
  <1>5. OneOwner' /\ LastOwnerQuiet'
    BY <1>0, SameOwners DEF Inv, LastOwnerQuiet
  <1>6. SomebodyLeft'
    BY <1>0 DEF SomebodyLeft, Queued
  <1>7. AllJoined'
    BY <1>0, <1>1 DEF Inv, TypeOK, AllJoined
  <1> QED BY <1>0, <1>2, <1>3, <1>4, <1>5, <1>6, <1>7 DEF Inv

LEMMA BackToLoopInv ==
  ASSUME Inv, NEW w \in Workers, SpuriousWake(w) \/ Finish(w)
  PROVE  Inv'
  <1>0. /\ worker[w] \in {"asleep", "busy"}
        /\ submit[w] = "out"
        /\ worker' = [worker EXCEPT ![w] = "idle"]
        /\ cur' = cur \/ cur' = [cur EXCEPT ![w] = None]
        /\ UNCHANGED <<queue, shutdown, submit, hand, stopping, closer>>
    <2>1. submit[w] \in {"out", "admitted", "pushed"}
      BY Counts DEF Inv, TypeOK
    <2> QED BY <2>1 DEF SpuriousWake, Finish, Inv, Submitting
  <1>1. TypeOK' /\ DozingAlone'
    BY <1>0 DEF Inv, TypeOK, DozingAlone
  <1>2. Submitting'
    BY <1>0 DEF Inv, TypeOK, Submitting
  <1>3. NoSleepOnWork'
    <2>1. Cardinality(Idle') = Cardinality(Idle) + 1 /\ Notified' = Notified
      BY <1>0, OneMoreIdle DEF Inv, Notified
    <2>2. Len(queue) \in Nat
      BY LenProperties DEF Inv, TypeOK
    <2> QED BY <2>1, <2>2, <1>0, Counts DEF Inv, TypeOK, NoSleepOnWork
  <1>4. OneOwner'
    <2>1. Queued' = Queued /\ QueuedOnce'
      BY <1>0 DEF Queued, Inv, OneOwner, QueuedOnce
    <2>2. \A v \in Workers : cur'[v] = cur[v] \/ cur'[v] = None
      BY <1>0 DEF Inv, TypeOK
    <2>3. QueueApart'
      <3>1. \A t \in Queued : t \in Task
        BY LenProperties DEF Queued, Inv, TypeOK
      <3> QED BY <1>0, <2>1, <2>2, <3>1, NoneAssumption DEF Inv, OneOwner, QueueApart
    <2>4. HandsApart' /\ RunApart'
      BY <1>0, <2>2 DEF Inv, OneOwner, HandsApart, RunApart
    <2> QED BY <2>1, <2>3, <2>4 DEF OneOwner
  <1>5. LastOwnerQuiet' /\ SomebodyLeft'
    BY <1>0 DEF Inv, TypeOK, LastOwnerQuiet, SomebodyLeft, Queued
  <1>6. AllJoined'
    BY <1>0 DEF Inv, TypeOK, AllJoined
  <1> QED BY <1>0, <1>1, <1>2, <1>3, <1>4, <1>5, <1>6 DEF Inv

LEMMA ShutdownInv ==
  ASSUME Inv, (\E th \in Threads : BeginShutdown(th)) \/ NotifyAll \/ Join
  PROVE  Inv'
  <1>1. ASSUME NEW th \in Threads, BeginShutdown(th) PROVE Inv'
    <2>0. /\ ~shutdown /\ shutdown' = TRUE /\ stopping' = "flagged" /\ closer' = th
          /\ UNCHANGED <<queue, worker, cur, submit, hand>>
          /\ th \in Workers => LastOwner(th)
      BY <1>1 DEF BeginShutdown
    <2>1. TypeOK' /\ Submitting' /\ DozingAlone' /\ OneOwner' /\ SomebodyLeft'
      BY <2>0, SameOwners DEF Inv, TypeOK, Submitting, DozingAlone, SomebodyLeft, Queued
    <2>2. NoSleepOnWork'
      BY <2>0 DEF Inv, NoSleepOnWork, Idle, Notified
    <2>3. LastOwnerQuiet'
      <3> SUFFICES ASSUME th \in Workers
                   PROVE  queue = <<>> /\ \A u \in Threads : submit[u] # "admitted"
        BY <2>0 DEF LastOwnerQuiet
      <3> QED BY <2>0 DEF LastOwner, Inv, Submitting, Threads
    <2>4. AllJoined'
      BY <2>0 DEF AllJoined
    <2> QED BY <2>0, <2>1, <2>2, <2>3, <2>4 DEF Inv
  <1>2. CASE NotifyAll
    <2>0. /\ stopping = "flagged" /\ stopping' = "notified"
          /\ worker' = [w \in Workers |-> IF worker[w] = "asleep" THEN "idle" ELSE worker[w]]
          /\ UNCHANGED <<queue, shutdown, cur, submit, hand, closer>>
      BY <1>2 DEF NotifyAll
    <2>1. TypeOK' /\ DozingAlone' /\ OneOwner' /\ LastOwnerQuiet' /\ AllJoined'
      BY <2>0, SameOwners DEF Inv, TypeOK, DozingAlone, LastOwnerQuiet, AllJoined
    <2>2. Submitting' /\ SomebodyLeft'
      BY <2>0 DEF Inv, TypeOK, Submitting, SomebodyLeft, Queued
    <2>3. NoSleepOnWork'
      <3> SUFFICES ASSUME NEW w \in Workers, worker'[w] \in {"dozing", "asleep"}
                   PROVE  Len(queue) <= Cardinality(Idle') + Cardinality(Notified')
        BY <2>0 DEF NoSleepOnWork
      <3>1. worker[w] = "dozing"
        BY <2>0
      <3>2. Len(queue) = 0
        BY <3>1, EmptySeq DEF Inv, DozingAlone
      <3>3. Idle' \subseteq Threads /\ Notified' \subseteq Threads
        BY Counts DEF Idle, Notified
      <3>4. Cardinality(Idle') \in Nat /\ Cardinality(Notified') \in Nat
        BY <3>3, Counts, FS_Subset, FS_CardinalityType
      <3> QED BY <3>2, <3>4
    <2> QED BY <2>0, <2>1, <2>2, <2>3 DEF Inv
  <1>3. CASE Join
    <2>0. /\ stopping = "notified" /\ stopping' = "joined"
          /\ \A w \in Workers \ {closer} : worker[w] = "exited"
          /\ UNCHANGED <<queue, shutdown, worker, cur, submit, hand, closer>>
      BY <1>3 DEF Join
    <2>1. TypeOK' /\ DozingAlone' /\ OneOwner' /\ LastOwnerQuiet'
      BY <2>0, SameOwners DEF Inv, TypeOK, DozingAlone, LastOwnerQuiet
    <2>3. Submitting' /\ SomebodyLeft'
      BY <2>0 DEF Inv, Submitting, SomebodyLeft, Queued
    <2>2. NoSleepOnWork' /\ AllJoined'
      BY <2>0 DEF Inv, NoSleepOnWork, Idle, Notified, AllJoined
    <2> QED BY <2>0, <2>1, <2>2, <2>3 DEF Inv
  <1> QED BY <1>1, <1>2, <1>3

LEMMA StutterInv == ASSUME Inv, UNCHANGED vars PROVE Inv'
  <1>1. TypeOK' /\ Submitting' /\ DozingAlone' /\ LastOwnerQuiet' /\ AllJoined'
    BY DEF vars, Inv, TypeOK, Submitting, DozingAlone, LastOwnerQuiet, AllJoined
  <1>2. NoSleepOnWork' /\ OneOwner' /\ SomebodyLeft'
    BY SameOwners DEF vars, Inv, NoSleepOnWork, Idle, Notified, SomebodyLeft, Queued
  <1> QED BY <1>1, <1>2 DEF vars, Inv

LEMMA StepInv == Inv /\ [Next]_vars => Inv'
  <1> SUFFICES ASSUME Inv, [Next]_vars PROVE Inv'
    OBVIOUS
  <1>1. ASSUME NEW t \in Task, NEW th \in Submitters[t], Admit(th, t) \/ Refuse(th, t)
        PROVE  Inv'
    BY <1>1, AdmitInv, StutterInv DEF Refuse
  <1>2. ASSUME NEW th \in Threads, Push(th) \/ NotifyOne(th) \/ BeginShutdown(th)
        PROVE  Inv'
    BY <1>2, PushInv, NotifyOneInv, ShutdownInv
  <1>3. ASSUME NEW w \in Workers, Loop(w) \/ SpuriousWake(w) PROVE Inv'
    BY <1>3, TakeInv, EmptyQueueInv, BackToLoopInv DEF Loop
  <1>4. CASE NotifyAll \/ Join
    BY <1>4, ShutdownInv
  <1> QED BY <1>1, <1>2, <1>3, <1>4, StutterInv DEF Next

THEOREM Invariance == Spec => []Inv
  BY InitInv, StepInv, PTL DEF Spec

(* The queue, the workers and the submitters stay well typed.              *)
THEOREM TypeCorrect == Spec => []TypeOK
  <1>1. Inv => TypeOK
    BY DEF Inv
  <1> QED BY <1>1, Invariance, PTL

(* submit_boxed's notify_one after the unlock loses no wakeup, whatever    *)
(* the number of workers and submitters.                                   *)
THEOREM NoLostWakeup == Spec => [](NoSleepOnWork /\ DozingAlone)
  <1>1. Inv => NoSleepOnWork /\ DozingAlone
    BY DEF Inv
  <1> QED BY <1>1, Invariance, PTL

(* No task box is run twice.                                               *)
THEOREM TasksHaveOneOwner == Spec => []OneOwner
  <1>1. Inv => OneOwner
    BY DEF Inv
  <1> QED BY <1>1, Invariance, PTL

(* When BraidExecutor::shutdown returns, every other worker has left       *)
(* worker_loop, and only tasks submitted from outside can be left behind.  *)
THEOREM ShutdownDrainsWorkers == Spec => []StoppedMeansDrained
  <1>1. Inv => StoppedMeansDrained
    <2> SUFFICES ASSUME Inv, stopping = "joined"
                 PROVE  /\ \A w \in Workers \ {closer} : worker[w] = "exited"
                        /\ \A t \in Queued : Submitters[t] \cap Outsiders # {}
      BY DEF StoppedMeansDrained
    <2>1. closer \in Threads /\ \A w \in Workers \ {closer} : worker[w] = "exited"
      BY DEF Inv, AllJoined
    <2>2. CASE closer \in Workers
      BY <2>1, <2>2 DEF Inv, LastOwnerQuiet, Queued
    <2>3. CASE closer \notin Workers
      BY <2>1, <2>3 DEF Inv, SomebodyLeft
    <2> QED BY <2>1, <2>2, <2>3
  <1> QED BY <1>1, Invariance, PTL
=============================================================================
