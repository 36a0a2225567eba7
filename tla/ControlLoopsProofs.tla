------------------------- MODULE ControlLoopsProofs -------------------------
(***************************************************************************)
(* Proofs about ControlLoops, for any number of sensors, algorithms and    *)
(* tasks.  What concerns the lock alone is taken from the proofs about     *)
(* PriorityMutex, of which the algorithms are the threads.                 *)
(***************************************************************************)
EXTENDS ControlLoops, TLAPS

LockP == INSTANCE PriorityMutexProofs WITH Threads <- Algorithms

(* The priorities that main hands out are what the mutex assumes of them. *)
LEMMA Priority == Prio \in [Algorithms -> Nat \ {0}]
  BY LoopsAssumption DEF Prio, Algorithms

(* The instance that the model uses and that of the proofs are one. *)
LEMMA SameInv == Mutex!IInv <=> LockP!IInv
  BY DEF Mutex!IInv, Mutex!TypeOK, Mutex!QueueInv, Mutex!HolderInv, Mutex!Priorities,
         Mutex!Place, Mutex!Waiting, Mutex!Holders, Mutex!MutualExclusion,
         LockP!IInv, LockP!TypeOK, LockP!QueueInv, LockP!HolderInv, LockP!Priorities,
         LockP!Place, LockP!Waiting, LockP!Holders, LockP!MutualExclusion

LEMMA SameInvNext == Mutex!IInv' <=> LockP!IInv'
  BY SameInv, PTL

LEMMA SameInit == Mutex!Init <=> LockP!Init
  BY DEF Mutex!Init, Mutex!Priorities, LockP!Init, LockP!Priorities

LEMMA SameSteps ==
  ASSUME NEW i \in Algorithms
  PROVE  /\ Mutex!LockFree(i) <=> LockP!LockFree(i)
         /\ Mutex!LockBusy(i) <=> LockP!LockBusy(i)
         /\ Mutex!Resume(i) <=> LockP!Resume(i)
         /\ Mutex!Unlock(i) <=> LockP!Unlock(i)
<1>1. Mutex!LockFree(i) <=> LockP!LockFree(i)
  BY DEF Mutex!LockFree, LockP!LockFree
<1>2. Mutex!LockBusy(i) <=> LockP!LockBusy(i)
  BY DEF Mutex!LockBusy, LockP!LockBusy, Mutex!Waiting, LockP!Waiting
<1>3. Mutex!Resume(i) <=> LockP!Resume(i)
  BY DEF Mutex!Resume, LockP!Resume
<1>4. Mutex!Occupied = LockP!Occupied
  BY DEF Mutex!Occupied, LockP!Occupied, Mutex!Priorities, LockP!Priorities,
         Mutex!Levels, LockP!Levels
<1>5. \A p : Mutex!HandOver(i, p) <=> LockP!HandOver(i, p)
  BY DEF Mutex!HandOver, LockP!HandOver
<1>6. Mutex!Unlock(i) <=> LockP!Unlock(i)
  BY <1>4, <1>5 DEF Mutex!Unlock, LockP!Unlock
<1> QED BY <1>1, <1>2, <1>3, <1>6

LEMMA MutexInit == Mutex!Init => Mutex!IInv
  BY Priority, SameInit, SameInv, LockP!InvInit

LEMMA MutexSame ==
  ASSUME Mutex!IInv, UNCHANGED lock PROVE Mutex!IInv'
<1>1. UNCHANGED LockP!vars
  BY DEF lock, LockP!vars
<1> QED BY <1>1, Priority, SameInv, SameInvNext, LockP!InvStep

LEMMA MutexStep ==
  ASSUME Mutex!IInv, NEW i \in Algorithms,
         Mutex!LockFree(i) \/ Mutex!LockBusy(i) \/ Mutex!Resume(i) \/ Mutex!Unlock(i)
  PROVE  Mutex!IInv'
<1>1. LockP!LockFree(i) \/ LockP!LockBusy(i) \/ LockP!Resume(i) \/ LockP!Unlock(i)
  BY SameSteps
<1>2. LockP!Next
  BY <1>1 DEF LockP!Next
<1> QED BY <1>2, Priority, SameInv, SameInvNext, LockP!InvStep

(* What the loops need to know of the lock: where each algorithm is, and   *)
(* that one at most has it;                                                *)
LEMMA LockFacts ==
  ASSUME Mutex!IInv
  PROVE  /\ at \in [Algorithms -> {"out", "waiting", "woken", "in"}]
         /\ \A i, j \in Algorithms : at[i] = "in" /\ at[j] = "in" => i = j
<1>1. at \in [Algorithms -> {"out", "waiting", "woken", "in"}]
  BY DEF Mutex!IInv, Mutex!TypeOK, Mutex!Place
<1>2. Mutex!MutualExclusion
  BY DEF Mutex!IInv, Mutex!HolderInv
<1> QED BY <1>1, <1>2 DEF Mutex!MutualExclusion, Mutex!Holders

(* Unlock leaves the lock, and brings no other algorithm into its queue or *)
(* out of it.                                                              *)
LEMMA UnlockFacts ==
  ASSUME Mutex!IInv, NEW i \in Algorithms, Mutex!Unlock(i)
  PROVE  /\ at[i] = "in" /\ at'[i] = "out"
         /\ \A j \in Algorithms \ {i} : at[j] # "out" <=> at'[j] # "out"
<1>0. at \in [Algorithms -> {"out", "waiting", "woken", "in"}] /\ at[i] = "in"
  BY LockFacts DEF Mutex!Unlock
<1>1. CASE at' = [at EXCEPT ![i] = "out"]
  BY <1>0, <1>1
<1>2. ASSUME NEW p \in Mutex!Occupied, Mutex!HandOver(i, p)
      PROVE  /\ at'[i] = "out"
             /\ \A j \in Algorithms \ {i} : at[j] # "out" <=> at'[j] # "out"
  <2> DEFINE s == waitQueue[p]
             w == Head(s)
  <2>1. p \in Mutex!Priorities /\ s \in Seq(Algorithms) /\ s # <<>>
    BY DEF Mutex!Occupied, Mutex!IInv, Mutex!TypeOK
  <2>2. w = s[1] /\ w \in Algorithms /\ 1 \in 1 .. Len(s)
    <3> HIDE DEF s
    <3> QED BY <2>1
  <2>3. at[w] = "waiting"
    BY <2>1, <2>2 DEF Mutex!IInv, Mutex!QueueInv
  <2>4. at' = [at EXCEPT ![i] = "out", ![w] = "woken"]
    BY <1>2 DEF Mutex!HandOver
  <2> HIDE DEF w, s
  <2> QED BY <1>0, <2>2, <2>3, <2>4
<1> QED BY <1>0, <1>1, <1>2 DEF Mutex!Unlock
-----------------------------------------------------------------------------
(* THE PARTS OF THE INVARIANT *)

Places == {"new", "gone", "receive", "rest", "send", "work"}

(* An algorithm and its place in the lock agree. *)
Agree(i) ==
  /\ at[i] # "out" <=> loop[i] \in {"send", "work"}
  /\ loop[i] # "gone" => i <= Len(algorithms)
  /\ loop[i] \notin {"new", "gone"} =>
       i <= Len(sensors) /\ algorithms[i] \in {"pilot", "obstacle_avoidance"}
  /\ loop[i] \in {"receive", "send"} => algorithms[i] = "obstacle_avoidance"

(* The inductive part; that one algorithm at most offers a task follows. *)
Core ==
  /\ TypeOK /\ Mutex!IInv
  /\ \A i \in Algorithms : Agree(i)
  /\ main \in {"returning", "ended"} => requested

LEMMA CoreImplies == Core => IInv
<1>1. Core => \A i, j \in Algorithms : at[i] = "in" /\ at[j] = "in" => i = j
  BY LockFacts DEF Core
<1> QED BY <1>1 DEF Core, IInv, Agree

LEMMA CoreInit == Init => Core
<1> SUFFICES ASSUME Init PROVE Core
  OBVIOUS
<1>1. Mutex!IInv
  BY MutexInit DEF Init
<1>2. TypeOK
  <2>1. sensor \in [1 .. Len(sensors) -> {"new", "running", "gone"}]
    BY DEF Init
  <2>2. loop \in [Algorithms -> {"new", "gone", "receive", "rest", "send", "work"}]
    BY DEF Init
  <2>3. tasks \in 0 .. MaxTasks
    BY LoopsAssumption DEF Init
  <2> QED BY <2>1, <2>2, <2>3 DEF Init, TypeOK
<1>3. \A i \in Algorithms : at[i] = "out"
  BY DEF Init, Mutex!Init
<1>4. \A i \in Algorithms : Agree(i)
  BY <1>3 DEF Init, Agree
<1>5. main \in {"returning", "ended"} => requested
  BY DEF Init
<1> QED BY <1>1, <1>2, <1>4, <1>5 DEF Core

(* A step of one algorithm disturbs only its own agreement. *)
LEMMA OneMoves ==
  ASSUME Core, NEW i \in Algorithms, NEW p \in Places,
         loop' = [loop EXCEPT ![i] = p], UNCHANGED <<config, main, requested, sensor>>,
         tasks' \in 0 .. MaxTasks, Mutex!IInv',
         \A j \in Algorithms \ {i} : at[j] # "out" <=> at'[j] # "out",
         at'[i] # "out" <=> p \in {"send", "work"},
         p # "gone" => i <= Len(algorithms),
         p \notin {"new", "gone"} =>
           i <= Len(sensors) /\ algorithms[i] \in {"pilot", "obstacle_avoidance"},
         p \in {"receive", "send"} => algorithms[i] = "obstacle_avoidance"
  PROVE  Core'
<1>1. loop \in [Algorithms -> Places]
  BY DEF Core, TypeOK, Places
<1>2. TypeOK'
  <2>1. loop' \in [Algorithms -> Places]
    BY <1>1
  <2> QED BY <2>1, Zenon DEF Core, TypeOK, Places, config
<1>3. ASSUME NEW j \in Algorithms PROVE Agree(j)'
  <2>1. CASE j = i
    BY <1>1, <2>1 DEF Agree, config
  <2>2. CASE j # i
    <3>1. loop'[j] = loop[j] /\ (at[j] # "out" <=> at'[j] # "out") /\ Agree(j)
      BY <1>1, <2>2 DEF Core
    <3> QED BY <3>1 DEF Agree, config
  <2> QED BY <2>1, <2>2
<1> QED BY <1>2, <1>3 DEF Core

(* A step of the others that leaves the algorithms where they are. *)
LEMMA NoneMoves ==
  ASSUME Core, UNCHANGED <<config, loop, lock>>, TypeOK',
         main' \in {"returning", "ended"} => requested'
  PROVE  Core'
<1>1. Mutex!IInv'
  BY MutexSame DEF Core
<1>2. \A i \in Algorithms : Agree(i)'
  BY DEF Core, Agree, config, lock
<1> QED BY <1>1, <1>2 DEF Core
-----------------------------------------------------------------------------
(* THE STEPS *)

LEMMA StartSensorStep ==
  ASSUME Core, NEW i \in 1 .. MaxSensors, StartSensor(i) PROVE Core'
<1>1. After(Call(SensorParameters(sensors[i]), <<"Device", "channels">>), "running")
        \in {"running", "gone"}
  BY DEF After
<1>2. sensor' \in [1 .. Len(sensors) -> {"new", "running", "gone"}]
  BY <1>1 DEF StartSensor, Core, TypeOK
<1>3. /\ UNCHANGED <<config, requested, loop, tasks, lock>>
      /\ main' \in {main, "crashed"}
  BY DEF StartSensor
<1>4. TypeOK'
  BY <1>2, <1>3, Zenon DEF Core, TypeOK, config
<1> QED BY <1>3, <1>4, NoneMoves DEF Core

(* Only a known algorithm runs: the others are an error or a panic. *)
LEMMA OnlyKnown ==
  ASSUME NEW name, NEW inputs,
         Call(ControlParameters(name), inputs) = "runs"
  PROVE  name \in {"pilot", "obstacle_avoidance"}
  BY DEF Call, ControlParameters

LEMMA StartAlgorithmStep ==
  ASSUME Core, NEW i \in Algorithms, StartAlgorithm(i) PROVE Core'
<1> DEFINE outcome == Call(ControlParameters(algorithms[i]),
                           <<"Config", "int", "PriorityMutex", "channel", "tasks">>)
           p == After(outcome, IF algorithms[i] = "pilot" THEN "rest" ELSE "receive")
<1>1. /\ UNCHANGED <<config, main, requested, sensor, tasks, lock>>
      /\ loop[i] = "new"
  BY DEF StartAlgorithm
<1>2. i <= Len(algorithms) /\ at[i] = "out"
  BY <1>1, LockFacts DEF Core, Agree
<1>3. Mutex!IInv' /\ tasks' \in 0 .. MaxTasks
  BY <1>1, MutexSame DEF Core, TypeOK
<1>4. \A j \in Algorithms : at'[j] = at[j]
  BY <1>1 DEF lock
<1>5. CASE loop' = [loop EXCEPT ![i] = "gone"]
  BY <1>1, <1>2, <1>3, <1>4, <1>5, OneMoves DEF Places
<1>6. CASE i <= Len(sensors) /\ loop' = [loop EXCEPT ![i] = p]
  <2>1. outcome = "runs" => algorithms[i] \in {"pilot", "obstacle_avoidance"}
    BY OnlyKnown
  <2>2. /\ p \in {"gone", "rest", "receive"}
        /\ p # "gone" => outcome = "runs"
        /\ p = "receive" => algorithms[i] # "pilot"
    <3> HIDE DEF outcome
    <3> QED BY DEF After
  <2> HIDE DEF p, outcome
  <2> QED BY <1>1, <1>2, <1>3, <1>4, <1>6, <2>1, <2>2, OneMoves DEF Places
<1> QED BY <1>5, <1>6 DEF StartAlgorithm

LEMMA EventStep ==
  ASSUME Core, NEW i \in Algorithms, Event(i) PROVE Core'
<1>1. /\ UNCHANGED <<config, main, requested, sensor, tasks, lock>>
      /\ loop[i] = "receive" /\ loop' = [loop EXCEPT ![i] = "rest"]
  BY DEF Event
<1>2. /\ i <= Len(algorithms) /\ i <= Len(sensors)
      /\ algorithms[i] \in {"pilot", "obstacle_avoidance"} /\ at[i] = "out"
  BY <1>1, LockFacts DEF Core, Agree
<1>3. Mutex!IInv' /\ tasks' \in 0 .. MaxTasks
  BY <1>1, MutexSame DEF Core, TypeOK
<1>4. \A j \in Algorithms : at'[j] = at[j]
  BY <1>1 DEF lock
<1> QED BY <1>1, <1>2, <1>3, <1>4, OneMoves DEF Places

LEMMA LockStep ==
  ASSUME Core, NEW i \in Algorithms, Lock(i) PROVE Core'
<1> DEFINE p == IF algorithms[i] = "pilot" THEN "work" ELSE "send"
<1>1. /\ UNCHANGED <<config, main, requested, sensor, tasks>>
      /\ loop[i] = "rest" /\ loop' = [loop EXCEPT ![i] = p]
      /\ Mutex!LockFree(i) \/ Mutex!LockBusy(i)
  BY DEF Lock
<1>2. /\ i <= Len(algorithms) /\ i <= Len(sensors)
      /\ algorithms[i] \in {"pilot", "obstacle_avoidance"}
      /\ at \in [Algorithms -> {"out", "waiting", "woken", "in"}]
  BY <1>1, LockFacts DEF Core, Agree
<1>3. Mutex!IInv' /\ tasks' \in 0 .. MaxTasks
  BY <1>1, MutexStep DEF Core, TypeOK
<1>4. \E x \in {"in", "waiting"} : at' = [at EXCEPT ![i] = x]
  BY <1>1 DEF Mutex!LockFree, Mutex!LockBusy
<1>5. at'[i] # "out" /\ \A j \in Algorithms \ {i} : at'[j] = at[j]
  BY <1>2, <1>4
<1> QED BY <1>1, <1>2, <1>3, <1>5, OneMoves DEF Places

LEMMA ResumeStep ==
  ASSUME Core, NEW i \in Algorithms, Resume(i) PROVE Core'
<1>1. /\ UNCHANGED <<config, main, requested, sensor, loop, tasks>>
      /\ Mutex!Resume(i)
  BY DEF Resume
<1>2. /\ at \in [Algorithms -> {"out", "waiting", "woken", "in"}]
      /\ at[i] = "woken" /\ at' = [at EXCEPT ![i] = "in"]
  BY <1>1, LockFacts DEF Core, Mutex!Resume
<1>3. Mutex!IInv'
  BY <1>1, MutexStep DEF Core
<1>4. \A j \in Algorithms : at'[j] # "out" <=> at[j] # "out"
  BY <1>2
<1>5. \A j \in Algorithms : Agree(j)'
  BY <1>1, <1>4 DEF Core, Agree, config
<1>6. TypeOK'
  BY <1>1, Zenon DEF Core, TypeOK, config
<1> QED BY <1>1, <1>3, <1>5, <1>6 DEF Core

LEMMA UnlockStep ==
  ASSUME Core, NEW i \in Algorithms, Unlock(i) PROVE Core'
<1>1. /\ UNCHANGED <<config, main, requested, sensor, tasks>>
      /\ loop[i] = "work" /\ Mutex!Unlock(i)
      /\ loop' = [loop EXCEPT ![i] = IF algorithms[i] = "pilot" THEN "rest" ELSE "receive"]
  BY DEF Unlock
<1>2. /\ i <= Len(algorithms) /\ i <= Len(sensors)
      /\ algorithms[i] \in {"pilot", "obstacle_avoidance"}
  BY <1>1 DEF Core, Agree
<1>3. Mutex!IInv' /\ tasks' \in 0 .. MaxTasks
  BY <1>1, MutexStep DEF Core, TypeOK
<1>4. at'[i] = "out" /\ \A j \in Algorithms \ {i} : at[j] # "out" <=> at'[j] # "out"
  BY <1>1, UnlockFacts DEF Core
<1> QED BY <1>1, <1>2, <1>3, <1>4, OneMoves DEF Places

LEMMA ReceiveStep ==
  ASSUME Core, NEW i \in Algorithms, Receive(i) PROVE Core'
<1>1. /\ UNCHANGED <<config, main, requested, sensor, lock>>
      /\ loop[i] = "send" /\ at[i] = "in" /\ loop' = [loop EXCEPT ![i] = "work"]
      /\ tasks' = IF tasks < MaxTasks THEN tasks + 1 ELSE tasks
  BY DEF Receive
<1>2. /\ i <= Len(algorithms) /\ i <= Len(sensors)
      /\ algorithms[i] \in {"pilot", "obstacle_avoidance"}
  BY <1>1 DEF Core, Agree
<1>3. Mutex!IInv'
  BY <1>1, MutexSame DEF Core
<1>4. tasks' \in 0 .. MaxTasks
  BY <1>1, LoopsAssumption DEF Core, TypeOK
<1>5. \A j \in Algorithms : at'[j] = at[j]
  BY <1>1 DEF lock
<1> QED BY <1>1, <1>2, <1>3, <1>4, <1>5, OneMoves DEF Places

LEMMA DispatchStep == ASSUME Core, Dispatch PROVE Core'
<1>1. /\ UNCHANGED <<config, requested, sensor, loop, lock>>
      /\ main' \in {main, "crashed"} /\ tasks > 0 /\ tasks' = tasks - 1
  BY DEF Dispatch
<1>2. tasks' \in 0 .. MaxTasks
  BY <1>1, LoopsAssumption DEF Core, TypeOK
<1>3. TypeOK'
  BY <1>1, <1>2, Zenon DEF Core, TypeOK, config
<1> QED BY <1>1, <1>3, NoneMoves DEF Core

LEMMA MainStep == ASSUME Core, Signal \/ Return \/ End PROVE Core'
<1>1. /\ UNCHANGED <<config, sensor, loop, tasks, lock>>
      /\ main' \in {main, "returning", "ended"} /\ requested' \in BOOLEAN
      /\ main' \in {"returning", "ended"} => requested'
  BY DEF Signal, Return, End, Core, TypeOK
<1>2. TypeOK'
  BY <1>1 DEF Core, TypeOK, config
<1> QED BY <1>1, <1>2, NoneMoves

LEMMA CoreStep == Core /\ [Next]_vars => Core'
<1> SUFFICES ASSUME Core, [Next]_vars PROVE Core'
  OBVIOUS
<1>1. ASSUME NEW i \in 1 .. MaxSensors, StartSensor(i) PROVE Core'
  BY <1>1, StartSensorStep
<1>2. ASSUME NEW i \in Algorithms,
             \/ StartAlgorithm(i) \/ Event(i) \/ Lock(i) \/ Resume(i) \/ Unlock(i)
             \/ Receive(i)
      PROVE  Core'
  BY <1>2, StartAlgorithmStep, EventStep, LockStep, ResumeStep, UnlockStep, ReceiveStep
<1>3. CASE Dispatch
  BY <1>3, DispatchStep
<1>4. CASE Signal \/ Return \/ End
  BY <1>4, MainStep
<1>5. CASE UNCHANGED vars
  <2>1. UNCHANGED <<config, main, requested, sensor, loop, tasks, lock>>
    BY <1>5 DEF vars
  <2>2. TypeOK'
    BY <2>1, Zenon DEF Core, TypeOK, config
  <2> QED BY <2>1, <2>2, NoneMoves DEF Core
<1> QED BY <1>1, <1>2, <1>3, <1>4, <1>5 DEF Next

(* For any number of sensors and algorithms: a task is offered and a       *)
(* critical section worked in only with the lock or in its queue, no two   *)
(* algorithms offer one at once, and an algorithm that runs has a channel  *)
(* of its index (obstacle_avoidance/main.go, drone/main.go).               *)
THEOREM Invariance == Spec => []IInv
<1>1. Spec => []Core
  BY CoreInit, CoreStep, PTL DEF Spec
<1> QED BY <1>1, CoreImplies, PTL
=============================================================================
