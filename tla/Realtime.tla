------------------------------ MODULE Realtime ------------------------------
(***************************************************************************)
(* The realtime runtime (internal/realtime/realtime_linux.go) and the gate *)
(* it is to the start of the drone (cmd/drone/main.go).  Run borrows an OS *)
(* thread, changes its CPU affinity and its scheduler, calls a function    *)
(* and puts both back.  Every system call may fail.  The main goroutine    *)
(* runs it once with an empty function, as a preflight; then each control  *)
(* algorithm runs it.  Threads belong to the Go scheduler: the one that    *)
(* Run leaves is the next one's.                                           *)
(***************************************************************************)
EXTENDS Integers

CONSTANTS
  Threads,              \* the OS threads there can be
  NoThread,
  Main,                 \* the main goroutine
  Algorithms,           \* the goroutines of the control algorithms
  Environments,         \* the DRONEOS_RT_* settings considered
  Kernels               \* what the kernel's two sources may say

(* A setting is unset, unusable or a value; kernel sources say "yes" or    *)
(* "no", or are unreadable or unusable ("none").                           *)
Bools == {"unset", "bad", "true", "false"}
EnvironmentType ==
  [enable : Bools, strict : Bools, mlock : Bools,
   policy : {"unset", "bad", "fifo", "rr"},
   priority : {"unset", "bad", "set"}, priorityValue : Int,
   cpu : {"unset", "bad", "set"}, cpuValue : Int]
KernelType == [sysfs : {"yes", "no", "none"}, bootConfig : {"yes", "no", "none"}]

ASSUME RealtimeAssumption ==
  /\ NoThread \notin Threads
  /\ Main \notin Algorithms
  /\ Environments \subseteq EnvironmentType
  /\ Kernels \subseteq KernelType

Runners == {Main} \cup Algorithms

VARIABLES
  env, kernel,          \* inputs, fixed from the start
  startup,              \* how far main has come
  memoryLocked,
  alive,                \* the threads that exist
  attr,                 \* per thread: its scheduler and its CPU, -1 for all
  pc, on,               \* per goroutine: where it is in Run, and its thread
  saved,                \* per goroutine: threadState
  failed,               \* per goroutine: Run is going to return an error
  tainted,              \* history: threads a restoring call has failed on
  proved                \* history: the preflight applied all the settings

vars == <<env, kernel, startup, memoryLocked, alive, attr, pc, on, saved,
          failed, tainted, proved>>
inputs == <<env, kernel>>

Attributes == [sched : {"other", "fifo", "rr"}, cpu : Int]
Untouched == [sched |-> "other", cpu |-> -1]

NothingSaved == [attributes |-> Untouched, restoreScheduler |-> FALSE, restoreAffinity |-> FALSE]

SavedType == [attributes : Attributes, restoreScheduler : BOOLEAN, restoreAffinity : BOOLEAN]

Steps == {"idle", "setup", "undo", "callback", "restore", "plain", "done"}

TypeOK ==
  /\ env \in Environments /\ kernel \in Kernels
  /\ startup \in {"load", "kernel", "prepare", "preflight", "launched", "exited"}
  /\ memoryLocked \in BOOLEAN
  /\ alive \subseteq Threads /\ tainted \subseteq Threads
  /\ attr \in [Threads -> Attributes]
  /\ pc \in [Runners -> Steps]
  /\ on \in [Runners -> Threads \cup {NoThread}]
  /\ saved \in [Runners -> SavedType]
  /\ failed \in [Runners -> BOOLEAN]
  /\ proved \in BOOLEAN
-----------------------------------------------------------------------------
(* The configuration that the settings give; the defaults are those of     *)
(* parseConfig.                                                            *)
Enabled == env.enable = "true"
Strict == env.strict = "true"
Mlock == env.mlock = "true"
Policy == IF env.policy = "rr" THEN "rr" ELSE "fifo"
Priority == IF env.priority = "set" THEN env.priorityValue ELSE 20
Cpu == IF env.cpu = "set" THEN env.cpuValue ELSE -1

Accepted ==
  /\ "bad" \notin {env.enable, env.strict, env.mlock, env.policy, env.priority, env.cpu}
  /\ Priority \in 1 .. 99
  /\ Cpu >= -1

(* sysfs if it says anything, else the configuration of the running        *)
(* release; "none" if neither does.                                        *)
DetectKernelRealtime == IF kernel.sysfs # "none" THEN kernel.sysfs ELSE kernel.bootConfig

Init ==
  /\ env \in Environments
  /\ kernel \in Kernels
  /\ startup = "load"
  /\ memoryLocked = FALSE
  /\ \E t \in Threads : alive = {t}
  /\ attr = [t \in Threads |-> Untouched]
  /\ pc = [r \in Runners |-> "idle"]
  /\ on = [r \in Runners |-> NoThread]
  /\ saved = [r \in Runners |-> NothingSaved]
  /\ failed = [r \in Runners |-> FALSE]
  /\ tainted = {}
  /\ proved = FALSE
-----------------------------------------------------------------------------
(* THE START OF THE DRONE *)

(* LoadConfig and New: settings that do not validate end the process. *)
LoadConfig ==
  /\ startup = "load"
  /\ startup' = IF Accepted THEN "kernel" ELSE "exited"
  /\ UNCHANGED <<inputs, memoryLocked, alive, attr, pc, on, saved, failed, tainted, proved>>

(* Mutant: an unknown kernel passes in strict mode. *)
CheckKernelUnknownPasses ==
  /\ startup = "kernel"
  /\ startup' = IF Enabled /\ Strict /\ DetectKernelRealtime = "no"
                THEN "exited" ELSE "prepare"
  /\ UNCHANGED <<inputs, memoryLocked, alive, attr, pc, on, saved, failed, tainted, proved>>

(* In strict mode the kernel must be known to be a realtime one. *)
CheckKernel ==
  /\ startup = "kernel"
  /\ startup' = IF Enabled /\ Strict /\ DetectKernelRealtime # "yes"
                THEN "exited" ELSE "prepare"
  /\ UNCHANGED <<inputs, memoryLocked, alive, attr, pc, on, saved, failed, tainted, proved>>

(* Mutant: the strictness of the settings is not looked at. *)
PrepareAlwaysFatal(ok) ==
  /\ startup = "prepare"
  /\ memoryLocked' = (Enabled /\ Mlock /\ ok)
  /\ startup' = IF Enabled /\ Mlock /\ ~ok THEN "exited" ELSE "preflight"
  /\ UNCHANGED <<inputs, alive, attr, pc, on, saved, failed, tainted, proved>>

(* Prepare: mlockall, if asked for.  Its failure ends the process in       *)
(* strict mode and is reported otherwise.  main calls it once.             *)
Prepare(ok) ==
  /\ startup = "prepare"
  /\ memoryLocked' = (Enabled /\ Mlock /\ ok)
  /\ startup' = IF Enabled /\ Mlock /\ ~ok /\ Strict THEN "exited" ELSE "preflight"
  /\ UNCHANGED <<inputs, alive, attr, pc, on, saved, failed, tainted, proved>>

(* Mutant: a failed preflight is waited for to succeed. *)
DecideOnSuccess ==
  /\ startup = "preflight" /\ pc[Main] = "done" /\ ~failed[Main]
  /\ startup' = "launched"
  /\ UNCHANGED <<inputs, memoryLocked, alive, attr, pc, on, saved, failed, tainted, proved>>

(* main looks at the preflight's error and launches the controls, or not. *)
Decide ==
  /\ startup = "preflight" /\ pc[Main] = "done"
  /\ startup' = IF failed[Main] THEN "exited" ELSE "launched"
  /\ UNCHANGED <<inputs, memoryLocked, alive, attr, pc, on, saved, failed, tainted, proved>>
-----------------------------------------------------------------------------
(* Run *)

Locked == {on[r] : r \in Runners} \ {NoThread}

MayStart(r) ==
  /\ pc[r] = "idle"
  /\ startup = IF r = Main THEN "preflight" ELSE "launched"

(* Realtime is not enabled: the callback runs where it is. *)
RunPlain(r) ==
  /\ MayStart(r) /\ ~Enabled
  /\ pc' = [pc EXCEPT ![r] = "plain"]
  /\ UNCHANGED <<inputs, startup, memoryLocked, alive, attr, on, saved, failed, tainted, proved>>

(* LockOSThread: the goroutine keeps the thread it happens to be on. *)
LockOSThread(r, t) ==
  /\ MayStart(r) /\ Enabled
  /\ t \in alive \ Locked
  /\ on' = [on EXCEPT ![r] = t]
  /\ pc' = [pc EXCEPT ![r] = "setup"]
  /\ UNCHANGED <<inputs, startup, memoryLocked, alive, attr, saved, failed, tainted, proved>>

(* The calls of setupThread, in order; the one about the affinity are made *)
(* only if a CPU is configured.                                            *)
Calls == {"getattr", "getaffinity", "setaffinity", "setattr"}

(* Mutant: what was changed before the failure is not remembered. *)
SetupForgetsPartial(r, failing) ==
  LET t == on[r]
      pinned == Cpu >= 0 /\ failing \in {"none", "setattr"}
  IN
  /\ pc[r] = "setup"
  /\ failing \in {"getaffinity", "setaffinity"} => Cpu >= 0
  /\ attr' = [attr EXCEPT ![t] =
       [sched |-> IF failing = "none" THEN Policy ELSE @.sched,
        cpu   |-> IF pinned THEN Cpu ELSE @.cpu]]
  /\ saved' = [saved EXCEPT ![r] =
       [attributes |-> attr[t], restoreScheduler |-> failing = "none",
        restoreAffinity |-> pinned /\ failing = "none"]]
  /\ pc' = [pc EXCEPT ![r] = IF failing = "none" THEN "callback" ELSE "undo"]
  /\ proved' = (proved \/ (r = Main /\ failing = "none"))
  /\ UNCHANGED <<inputs, startup, memoryLocked, alive, on, failed, tainted>>

(* setupThread, with the call that fails, or none: the affinity first,     *)
(* then the scheduler, and a note of which of them has been changed.       *)
SetupThread(r, failing) ==
  LET t == on[r]
      pinned == Cpu >= 0 /\ failing \in {"none", "setattr"}
  IN
  /\ pc[r] = "setup"
  /\ failing \in {"getaffinity", "setaffinity"} => Cpu >= 0
  /\ attr' = [attr EXCEPT ![t] =
       [sched |-> IF failing = "none" THEN Policy ELSE @.sched,
        cpu   |-> IF pinned THEN Cpu ELSE @.cpu]]
  /\ saved' = [saved EXCEPT ![r] =
       [attributes |-> attr[t], restoreScheduler |-> failing = "none",
        restoreAffinity |-> pinned]]
  /\ pc' = [pc EXCEPT ![r] = IF failing = "none" THEN "callback" ELSE "undo"]
  /\ proved' = (proved \/ (r = Main /\ failing = "none"))
  /\ UNCHANGED <<inputs, startup, memoryLocked, alive, on, failed, tainted>>

RestoreFails(r, schedFails, cpuFails) ==
  \/ saved[r].restoreScheduler /\ schedFails
  \/ saved[r].restoreAffinity /\ cpuFails

(* Mutant: the affinity is left as it is. *)
RestoreSchedulerOnly(r, schedFails, cpuFails) ==
  LET s == saved[r] IN
  /\ attr' = [attr EXCEPT ![on[r]] =
       [sched |-> IF s.restoreScheduler /\ ~schedFails THEN s.attributes.sched ELSE @.sched,
        cpu   |-> @.cpu]]
  /\ tainted' = tainted \cup {t \in {on[r]} : RestoreFails(r, schedFails, cpuFails)}

(* restore: each of the two calls is made if setupThread made its like,    *)
(* the second whether or not the first fails.                              *)
RestoreThread(r, schedFails, cpuFails) ==
  LET s == saved[r] IN
  /\ attr' = [attr EXCEPT ![on[r]] =
       [sched |-> IF s.restoreScheduler /\ ~schedFails THEN s.attributes.sched ELSE @.sched,
        cpu   |-> IF s.restoreAffinity /\ ~cpuFails THEN s.attributes.cpu ELSE @.cpu]]
  /\ tainted' = tainted \cup {t \in {on[r]} : RestoreFails(r, schedFails, cpuFails)}

(* Run returns: an error or nil, and UnlockOSThread. *)
Return(r, error) ==
  /\ failed' = [failed EXCEPT ![r] = error]
  /\ on' = [on EXCEPT ![r] = NoThread]
  /\ pc' = [pc EXCEPT ![r] = "done"]

(* Mutant: the callback runs after a failed setup in strict mode as well. *)
UndoAlwaysContinues(r, schedFails, cpuFails) ==
  /\ pc[r] = "undo"
  /\ RestoreThread(r, schedFails, cpuFails)
  /\ pc' = [pc EXCEPT ![r] = "callback"]
  /\ failed' = [failed EXCEPT ![r] = RestoreFails(r, schedFails, cpuFails)]
  /\ saved' = [saved EXCEPT ![r] = NothingSaved]
  /\ UNCHANGED <<inputs, startup, memoryLocked, alive, on, proved>>

(* Setup has failed: what it did is undone.  In strict mode Run returns    *)
(* the errors; otherwise they are reported and the callback runs without   *)
(* the settings, a failed undo being returned after it.                    *)
Undo(r, schedFails, cpuFails) ==
  /\ pc[r] = "undo"
  /\ RestoreThread(r, schedFails, cpuFails)
  /\ \/ /\ Strict
        /\ Return(r, TRUE)
        /\ UNCHANGED saved
     \/ /\ ~Strict
        /\ pc' = [pc EXCEPT ![r] = "callback"]
        /\ failed' = [failed EXCEPT ![r] = RestoreFails(r, schedFails, cpuFails)]
        /\ saved' = [saved EXCEPT ![r] = NothingSaved]
        /\ UNCHANGED on
  /\ UNCHANGED <<inputs, startup, memoryLocked, alive, proved>>

(* The callback returns.  The preflight's is empty; an algorithm's returns *)
(* an error when its name is not in the function map.                      *)
CallbackEnds(r, error) ==
  /\ pc[r] \in {"callback", "plain"}
  /\ r = Main => ~error
  /\ pc' = [pc EXCEPT ![r] = IF @ = "plain" THEN "done" ELSE "restore"]
  /\ failed' = [failed EXCEPT ![r] = @ \/ error]
  /\ UNCHANGED <<inputs, startup, memoryLocked, alive, attr, on, saved, tainted, proved>>

(* What was changed is put back, the errors are joined and the thread is   *)
(* unlocked, restored or not.                                              *)
Restore(r, schedFails, cpuFails) ==
  /\ pc[r] = "restore"
  /\ RestoreThread(r, schedFails, cpuFails)
  /\ Return(r, failed[r] \/ RestoreFails(r, schedFails, cpuFails))
  /\ UNCHANGED <<inputs, startup, memoryLocked, alive, saved, proved>>

(* The Go scheduler starts a thread: a clone of an unlocked one, with its  *)
(* attributes, or of the template thread it keeps for when the current one *)
(* is locked.                                                              *)
SpawnThread(t) ==
  /\ startup # "exited"
  /\ t \notin alive
  /\ alive' = alive \cup {t}
  /\ \/ \E u \in alive \ Locked :
          /\ attr' = [attr EXCEPT ![t] = attr[u]]
          /\ tainted' = tainted \cup {v \in {t} : u \in tainted}
     \/ UNCHANGED <<attr, tainted>>
  /\ UNCHANGED <<inputs, startup, memoryLocked, pc, on, saved, failed, proved>>
-----------------------------------------------------------------------------
RunStep(r) ==
  \/ RunPlain(r)
  \/ \E t \in Threads : LockOSThread(r, t)
  \/ \E failing \in Calls \cup {"none"} : SetupThread(r, failing)
  \/ \E schedFails, cpuFails \in BOOLEAN :
       Undo(r, schedFails, cpuFails) \/ Restore(r, schedFails, cpuFails)
  \/ \E error \in BOOLEAN : CallbackEnds(r, error)

MainStep ==
  LoadConfig \/ CheckKernel \/ (\E ok \in BOOLEAN : Prepare(ok)) \/ Decide \/ RunStep(Main)

Next ==
  \/ MainStep
  \/ \E r \in Algorithms : RunStep(r)
  \/ \E t \in Threads : SpawnThread(t)

Spec == Init /\ [][Next]_vars

(* The main goroutine runs: none of its calls blocks. *)
Fairness == WF_vars(MainStep)

FairSpec == Spec /\ Fairness
-----------------------------------------------------------------------------
(* "Strict mode exits instead of launching controls when kernel            *)
(* verification, memory locking, or scheduler preflight fails"             *)
(* (README.md:147): controls that were launched are past all three.        *)
StrictGate ==
  startup = "launched" /\ Enabled /\ Strict
    => /\ DetectKernelRealtime = "yes"
       /\ Mlock => memoryLocked
       /\ proved

(* A thread of the pool is as it was started, whatever Run has failed at,  *)
(* unless a restoring call failed on it or on the thread it is cloned from *)
(* (realtime_linux.go:197, 213 and 266).                                   *)
CleanPool ==
  \A t \in alive \ Locked : t \in tainted \/ attr[t] = Untouched

(* In strict mode no control algorithm runs without the settings that were *)
(* asked for, on whatever thread it is (realtime_linux.go:199-204).        *)
StrictControls ==
  \A r \in Runners :
    pc[r] = "callback" /\ Strict
      => /\ attr[on[r]].sched = Policy
         /\ Cpu >= 0 => attr[on[r]].cpu = Cpu

(* "`DRONEOS_RT_STRICT=0` permits startup when permissions or kernel       *)
(* support are unavailable" (README.md:149): without strict mode the drone *)
(* gives up for unusable settings, or when a change it did make cannot be  *)
(* taken back.                                                             *)
LenientStarts ==
  startup = "exited" => ~Accepted \/ (Enabled /\ (Strict \/ tainted # {}))

(* The start of the drone comes to a decision. *)
StartupDecides == <>(startup \in {"launched", "exited"})
-----------------------------------------------------------------------------
(* THE INDUCTIVE INVARIANT *)

HasThread(r) == pc[r] \in {"setup", "undo", "callback", "restore"}

(* A thread is locked by one goroutine, from LockOSThread to Run's return. *)
LockInv ==
  /\ \A r \in Runners : on[r] \in alive <=> HasThread(r)
  /\ \A r \in Runners : ~HasThread(r) => on[r] = NoThread
  /\ \A r, s \in Runners : HasThread(r) /\ on[r] = on[s] => r = s

(* What a thread is like once Run has put back what it remembers. *)
Back(r) ==
  LET a == attr[on[r]] IN
  [sched |-> IF saved[r].restoreScheduler THEN saved[r].attributes.sched ELSE a.sched,
   cpu   |-> IF saved[r].restoreAffinity THEN saved[r].attributes.cpu ELSE a.cpu]

(* Putting back leads to the untouched thread; one whose setup has not yet *)
(* begun is untouched as it is; so is one that does not exist.             *)
ThreadInv ==
  /\ CleanPool
  /\ \A t \in Threads \ alive : attr[t] = Untouched
  /\ \A r \in Runners :
       HasThread(r) /\ on[r] \notin tainted
         => IF pc[r] = "setup" THEN attr[on[r]] = Untouched ELSE Back(r) = Untouched

(* What each stage of the start has established. *)
GateInv ==
  /\ startup \in {"load", "kernel", "prepare"} => pc[Main] = "idle"
  /\ startup = "launched" => pc[Main] = "done"
  /\ \A r \in Algorithms : pc[r] # "idle" => startup = "launched"
  /\ startup \in {"kernel", "prepare", "preflight", "launched"} => Accepted
  /\ startup \in {"prepare", "preflight", "launched"} /\ Enabled /\ Strict
       => DetectKernelRealtime = "yes"
  /\ startup \in {"preflight", "launched"} /\ Enabled /\ Strict /\ Mlock => memoryLocked
  /\ pc[Main] \in {"callback", "restore"} /\ Strict => proved
  /\ pc[Main] = "done" /\ Enabled /\ Strict /\ ~failed[Main] => proved
  /\ startup = "launched" => ~failed[Main]
  /\ \A r \in Runners : pc[r] = "plain" => ~Enabled
  /\ \A r \in Runners : HasThread(r) => Enabled

(* Without strict mode only a failed restore makes the preflight fail. *)
LenientInv ==
  /\ LenientStarts
  /\ failed[Main] => Enabled /\ (Strict \/ tainted # {})

IInv == TypeOK /\ LockInv /\ ThreadInv /\ GateInv /\ LenientInv /\ StrictControls
=============================================================================
