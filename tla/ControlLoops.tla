---------------------------- MODULE ControlLoops ----------------------------
(***************************************************************************)
(* What main of the drone starts last (cmd/drone/main.go): a goroutine per *)
(* configured sensor, one per control algorithm, and the main loop that    *)
(* takes their tasks.  Plug-ins are called by name through reflection,     *)
(* which panics when the inputs do not fit.  The algorithms share the      *)
(* priority mutex; obstacle_avoidance sends its task while it holds it,    *)
(* on a channel that only the main loop receives from.  Nobody but the     *)
(* main loop looks at the context.                                         *)
(***************************************************************************)
EXTENDS Naturals, Sequences

CONSTANTS
  SensorNames, ControlNames,    \* the names of plug-ins that are configured
  MaxSensors, MaxAlgorithms,    \* bounds: devices and algorithms configured
  MaxTasks                      \* bound: goroutines for tasks that are counted

ASSUME LoopsAssumption == MaxSensors \in Nat /\ MaxAlgorithms \in Nat /\ MaxTasks \in Nat

Algorithms == 1 .. MaxAlgorithms

(* index+1 is the priority of an algorithm *)
Prio == [i \in Algorithms |-> i]

VARIABLES
  sensors, algorithms,          \* the configuration: names of plug-ins
  main, requested,              \* the main loop, and the context
  sensor,                       \* the goroutines of the sensors
  loop,                         \* where each algorithm is
  tasks,                        \* goroutines that are to call a motor
  isLocked, waitQueue, at, ahead

Mutex == INSTANCE PriorityMutex WITH Threads <- Algorithms

lock == <<isLocked, waitQueue, at, ahead>>
config == <<sensors, algorithms>>
vars == <<config, main, requested, sensor, loop, tasks, lock>>
-----------------------------------------------------------------------------
(* CALLING BY NAME *)

SensorParameters(name) ==
  CASE name = "frienda_obstacle_431S" -> <<"Context", "Device", "channels">>
    [] name \in {"GT_U7", "HC_SR04", "MPU_6050"} -> <<"Context", "Device", "channel">>
    [] OTHER -> <<>>

ControlParameters(name) ==
  IF name \in {"pilot", "obstacle_avoidance"}
  THEN <<"Context", "Config", "int", "PriorityMutex", "channel", "tasks">>
  ELSE <<>>

MotorParameters(name) ==
  IF name \in {"hawks_work_ESC", "MG90S"} THEN <<"Context", "Device", "tasks">> ELSE <<>>

(* CallFunctionByName: an unknown name is an error, inputs that do not fit *)
(* are a panic of reflect that nobody recovers.                            *)
Call(parameters, inputs) ==
  CASE parameters = <<>> -> "error"
    [] parameters = <<"Context">> \o inputs -> "runs"
    [] OTHER -> "panic"

UpTo(S, n) == UNION {[1 .. k -> S] : k \in 0 .. n}

Init ==
  /\ sensors \in UpTo(SensorNames, MaxSensors)
  /\ algorithms \in UpTo(ControlNames, MaxAlgorithms)
  /\ main = "select" /\ requested = FALSE
  /\ sensor = [i \in 1 .. Len(sensors) |-> "new"]
  /\ loop = [i \in Algorithms |-> IF i <= Len(algorithms) THEN "new" ELSE "gone"]
  /\ tasks = 0
  /\ Mutex!Init

(* The process lives until main has returned or a goroutine has panicked. *)
Alive == main \in {"select", "returning"}

After(outcome, running) == IF outcome = "runs" THEN running ELSE "gone"

StartSensor(i) ==
  LET outcome == Call(SensorParameters(sensors[i]), <<"Device", "channels">>) IN
  /\ Alive /\ i \in 1 .. Len(sensors) /\ sensor[i] = "new"
  /\ sensor' = [sensor EXCEPT ![i] = After(outcome, "running")]
  /\ main' = IF outcome = "panic" THEN "crashed" ELSE main
  /\ UNCHANGED <<config, requested, loop, tasks, lock>>

(* An algorithm needs the channel of its index; Run of the realtime        *)
(* runtime may refuse it; pilot begins with a sleep, obstacle_avoidance    *)
(* waits for an event.                                                     *)
StartAlgorithm(i) ==
  LET outcome == Call(ControlParameters(algorithms[i]),
                      <<"Config", "int", "PriorityMutex", "channel", "tasks">>) IN
  /\ Alive /\ loop[i] = "new"
  /\ \/ loop' = [loop EXCEPT ![i] = "gone"]
     \/ /\ i <= Len(sensors)
        /\ loop' = [loop EXCEPT ![i] =
                      After(outcome, IF algorithms[i] = "pilot" THEN "rest" ELSE "receive")]
  /\ UNCHANGED <<config, main, requested, sensor, tasks, lock>>
-----------------------------------------------------------------------------
(* THE ALGORITHMS *)

(* Mutant: the task is sent before the lock is taken. *)
EventUnlocked(i) ==
  /\ Alive /\ loop[i] = "receive"
  /\ loop' = [loop EXCEPT ![i] = "send"]
  /\ UNCHANGED <<config, main, requested, sensor, tasks, lock>>

(* An event of a sensor arrives.  *)
Event(i) ==
  /\ Alive /\ loop[i] = "receive"
  /\ loop' = [loop EXCEPT ![i] = "rest"]
  /\ UNCHANGED <<config, main, requested, sensor, tasks, lock>>

(* Lock is called: it returns at once, or the goroutine queues up. *)
Lock(i) ==
  /\ Alive /\ loop[i] = "rest"
  /\ Mutex!LockFree(i) \/ Mutex!LockBusy(i)
  /\ loop' = [loop EXCEPT ![i] = IF algorithms[i] = "pilot" THEN "work" ELSE "send"]
  /\ UNCHANGED <<config, main, requested, sensor, tasks>>

(* The lock has been handed over. *)
Resume(i) ==
  /\ Alive /\ Mutex!Resume(i)
  /\ UNCHANGED <<config, main, requested, sensor, loop, tasks>>

(* The end of the sleep in the critical section. *)
Unlock(i) ==
  /\ Alive /\ loop[i] = "work" /\ Mutex!Unlock(i)
  /\ loop' = [loop EXCEPT ![i] = IF algorithms[i] = "pilot" THEN "rest" ELSE "receive"]
  /\ UNCHANGED <<config, main, requested, sensor, tasks>>
-----------------------------------------------------------------------------
(* THE MAIN LOOP *)

(* Mutant: the task is handled before the next is received. *)
ReceiveInTurn(i) ==
  /\ main = "select" /\ tasks = 0
  /\ loop[i] = "send" /\ at[i] = "in"
  /\ loop' = [loop EXCEPT ![i] = "work"]
  /\ tasks' = tasks + 1
  /\ UNCHANGED <<config, main, requested, sensor, lock>>

(* A task is received, and a goroutine made for it. *)
Receive(i) ==
  /\ main = "select"
  /\ loop[i] = "send" /\ at[i] = "in"
  /\ loop' = [loop EXCEPT ![i] = "work"]
  /\ tasks' = IF tasks < MaxTasks THEN tasks + 1 ELSE tasks
  /\ UNCHANGED <<config, main, requested, sensor, lock>>

(* The goroutine calls the motor of the task, with the whole configuration *)
(* where the motors take a device.                                         *)
Dispatch ==
  /\ Alive /\ tasks > 0
  /\ tasks' = tasks - 1
  /\ main' = IF Call(MotorParameters("hawks_work_ESC"), <<"Config", "tasks">>) = "panic"
             THEN "crashed" ELSE main
  /\ UNCHANGED <<config, requested, sensor, loop, lock>>

(* SIGINT or SIGTERM ends the context. *)
Signal ==
  /\ Alive /\ ~requested
  /\ requested' = TRUE
  /\ UNCHANGED <<config, main, sensor, loop, tasks, lock>>

(* The main loop sees the context and returns; the deferred function lasts *)
(* a while, in which the other goroutines go on.                           *)
Return ==
  /\ main = "select" /\ requested
  /\ main' = "returning"
  /\ UNCHANGED <<config, requested, sensor, loop, tasks, lock>>

End ==
  /\ main = "returning"
  /\ main' = "ended"
  /\ UNCHANGED <<config, requested, sensor, loop, tasks, lock>>

Next ==
  \/ \E i \in 1 .. MaxSensors : StartSensor(i)
  \/ \E i \in Algorithms :
       \/ StartAlgorithm(i) \/ Event(i) \/ Lock(i) \/ Resume(i) \/ Unlock(i) \/ Receive(i)
  \/ Dispatch \/ Signal \/ Return \/ End

Spec == Init /\ [][Next]_vars

(* A goroutine that can run does run, sleeps end, and select, which has a  *)
(* random choice, takes a case that stays ready.  Sensors owe no event,    *)
(* and nothing relies on the panic of a dispatch.                          *)
Fairness ==
  /\ \A i \in Algorithms : WF_vars(Resume(i)) /\ WF_vars(Unlock(i)) /\ WF_vars(Receive(i))
  /\ WF_vars(Return) /\ WF_vars(End)

FairSpec == Spec /\ Fairness
-----------------------------------------------------------------------------
TypeOK ==
  /\ sensors \in UpTo(SensorNames, MaxSensors)
  /\ algorithms \in UpTo(ControlNames, MaxAlgorithms)
  /\ main \in {"select", "returning", "ended", "crashed"} /\ requested \in BOOLEAN
  /\ sensor \in [1 .. Len(sensors) -> {"new", "running", "gone"}]
  /\ loop \in [Algorithms -> {"new", "gone", "receive", "rest", "send", "work"}]
  /\ tasks \in 0 .. MaxTasks

(* A task is offered, and a critical section worked in, only with the lock *)
(* or in its queue (obstacle_avoidance/main.go:34-43), so that no two      *)
(* algorithms offer a task at once; an algorithm runs only if there is a   *)
(* channel of its index, and what is below it in the list, started or not, *)
(* keeps its priority (drone/main.go:601-618).                             *)
IInv ==
  /\ TypeOK /\ Mutex!IInv
  /\ \A i \in Algorithms :
       /\ at[i] # "out" <=> loop[i] \in {"send", "work"}
       /\ loop[i] # "gone" => i <= Len(algorithms)
       /\ loop[i] \notin {"new", "gone"} =>
            i <= Len(sensors) /\ algorithms[i] \in {"pilot", "obstacle_avoidance"}
       /\ loop[i] \in {"receive", "send"} => algorithms[i] = "obstacle_avoidance"
  /\ \A i, j \in Algorithms :
       loop[i] = "send" /\ at[i] = "in" /\ loop[j] \in {"send", "work"} /\ at[j] = "in" => i = j
  /\ main \in {"returning", "ended"} => requested

(* Sending a task on the unbuffered queue with the lock held blocks        *)
(* nobody for ever (obstacle_avoidance/main.go:34-43): whoever holds the   *)
(* lock gives it up, or the process is over; and the process is over soon  *)
(* after a signal, also when an algorithm is blocked in its send and none  *)
(* looks at the context (drone/main.go:634-636).                           *)
NothingHangs ==
  /\ \A i \in Algorithms : at[i] \in {"woken", "in"} ~> (at[i] = "out" \/ ~Alive)
  /\ requested ~> ~Alive
=============================================================================
