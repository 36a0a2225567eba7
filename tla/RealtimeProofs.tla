---------------------------- MODULE RealtimeProofs ----------------------------
(* Proofs about Realtime, for any threads, algorithms, settings and kernels. *)
EXTENDS Realtime, TLAPS

(* The settings and what is derived from them never change. *)
LEMMA SameInputs ==
  ASSUME UNCHANGED inputs
  PROVE  /\ env' = env /\ kernel' = kernel
         /\ Enabled' = Enabled /\ Strict' = Strict /\ Mlock' = Mlock
         /\ Policy' = Policy /\ Cpu' = Cpu /\ Accepted' = Accepted
         /\ DetectKernelRealtime' = DetectKernelRealtime
BY DEF inputs, Enabled, Strict, Mlock, Policy, Cpu, Accepted, Priority, DetectKernelRealtime

LEMMA InputTypes ==
  ASSUME TypeOK
  PROVE  /\ Enabled \in BOOLEAN /\ Strict \in BOOLEAN /\ Mlock \in BOOLEAN
         /\ Policy \in {"fifo", "rr"} /\ Cpu \in Int
<1>1. env \in EnvironmentType
  BY RealtimeAssumption DEF TypeOK
<1> QED BY <1>1 DEF EnvironmentType, Enabled, Strict, Mlock, Policy, Cpu

LEMMA InvInit == Init => IInv
<1> SUFFICES ASSUME Init PROVE IInv
  OBVIOUS
<1>0. Untouched \in Attributes /\ NothingSaved \in SavedType
  BY DEF Attributes, Untouched, NothingSaved, SavedType
<1>1. TypeOK
  BY <1>0 DEF Init, TypeOK, Steps
<1>2. LockInv /\ ThreadInv /\ GateInv /\ LenientInv /\ StrictControls
  BY RealtimeAssumption DEF Init, LockInv, ThreadInv, GateInv, LenientInv, LenientStarts,
     StrictControls, HasThread, CleanPool, Locked, Runners
<1> QED BY <1>1, <1>2 DEF IInv
-----------------------------------------------------------------------------
(* The steps of the start touch no thread. *)
StartStep == LoadConfig \/ CheckKernel \/ (\E ok \in BOOLEAN : Prepare(ok)) \/ Decide

LEMMA StartKeeps ==
  ASSUME IInv, StartStep
  PROVE  IInv'
<1> USE DEF StartStep, LoadConfig, CheckKernel, Prepare, Decide
<1>1. UNCHANGED <<inputs, alive, attr, pc, on, saved, failed, tainted, proved>>
  OBVIOUS
<1>2. TypeOK' /\ Main \in Runners
  BY <1>1, SameInputs DEF IInv, TypeOK, Runners
<1>3. LockInv' /\ ThreadInv' /\ StrictControls'
  BY <1>1, SameInputs DEF IInv, LockInv, ThreadInv, StrictControls, HasThread, CleanPool, Locked, Back
<1>4. GateInv'
  BY <1>1, SameInputs DEF IInv, GateInv, HasThread
<1>5. LenientInv'
  BY <1>1, SameInputs DEF IInv, GateInv, LenientInv, LenientStarts
<1> QED BY <1>2, <1>3, <1>4, <1>5 DEF IInv

LEMMA SpawnKeeps ==
  ASSUME IInv, NEW t \in Threads, SpawnThread(t)
  PROVE  IInv'
<1> USE DEF SpawnThread
<1>1. UNCHANGED <<inputs, startup, memoryLocked, pc, on, saved, failed, proved>>
  OBVIOUS
<1>2. TypeOK'
  BY <1>1, SameInputs DEF IInv, TypeOK
<1>3. LockInv'
  BY <1>1, RealtimeAssumption DEF IInv, LockInv, TypeOK, HasThread
<1>4. \A r \in Runners : HasThread(r) => on[r] # t /\ attr'[on[r]] = attr[on[r]]
  BY DEF IInv, LockInv, TypeOK
<1>5. CleanPool'
  BY <1>1 DEF IInv, ThreadInv, CleanPool, Locked, TypeOK
<1>6. ThreadInv'
  BY <1>1, <1>4, <1>5 DEF IInv, ThreadInv, TypeOK, HasThread, Back
<1>7. GateInv' /\ LenientInv' /\ StrictControls'
  BY <1>1, <1>4, SameInputs DEF IInv, GateInv, LenientInv, LenientStarts, StrictControls, HasThread
<1> QED BY <1>2, <1>3, <1>6, <1>7 DEF IInv
-----------------------------------------------------------------------------
(* Steps of Run that touch no thread. *)
LEMMA RunPlainKeeps ==
  ASSUME IInv, NEW r \in Runners, RunPlain(r)
  PROVE  IInv'
<1> USE DEF RunPlain, MayStart
<1>1. UNCHANGED <<inputs, startup, memoryLocked, alive, attr, on, saved, failed, tainted, proved>>
  OBVIOUS
<1>2. TypeOK'
  BY <1>1, SameInputs DEF IInv, TypeOK, Steps
<1>3. \A q \in Runners : pc[q] # pc'[q] => q = r /\ pc[q] = "idle" /\ pc'[q] = "plain"
  BY DEF IInv, TypeOK
<1>4. LockInv' /\ ThreadInv' /\ StrictControls'
  BY <1>1, <1>3, SameInputs DEF IInv, LockInv, ThreadInv, StrictControls, HasThread, CleanPool, Locked, Back
<1>5. GateInv' /\ LenientInv'
  BY <1>1, <1>3, SameInputs, RealtimeAssumption
     DEF IInv, GateInv, LenientInv, LenientStarts, HasThread, Runners
<1> QED BY <1>2, <1>4, <1>5 DEF IInv

LEMMA LockOSThreadKeeps ==
  ASSUME IInv, NEW r \in Runners, NEW t \in Threads, LockOSThread(r, t)
  PROVE  IInv'
<1> USE DEF LockOSThread, MayStart
<1>1. UNCHANGED <<inputs, startup, memoryLocked, alive, attr, saved, failed, tainted, proved>>
  OBVIOUS
<1>2. TypeOK'
  BY <1>1, SameInputs DEF IInv, TypeOK, Steps
<1>3. /\ pc[r] = "idle" /\ pc'[r] = "setup" /\ on'[r] = t
      /\ \A q \in Runners \ {r} : pc'[q] = pc[q] /\ on'[q] = on[q] /\ on[q] # t
  BY RealtimeAssumption DEF IInv, TypeOK, Locked
<1>4. LockInv'
  BY <1>1, <1>3, RealtimeAssumption DEF IInv, LockInv, HasThread
<1>5. t \in tainted \/ attr[t] = Untouched
  BY DEF IInv, ThreadInv, CleanPool
<1>6. CleanPool'
  BY <1>1, <1>3 DEF IInv, ThreadInv, LockInv, HasThread, CleanPool, Locked, TypeOK
<1>7. ThreadInv'
  BY <1>1, <1>3, <1>5, <1>6 DEF IInv, ThreadInv, HasThread, Back
<1>8. StrictControls'
  BY <1>1, <1>3, SameInputs DEF IInv, StrictControls
<1>9. GateInv' /\ LenientInv'
  BY <1>1, <1>3, SameInputs, RealtimeAssumption
     DEF IInv, GateInv, LenientInv, LenientStarts, HasThread, Runners
<1> QED BY <1>2, <1>4, <1>7, <1>8, <1>9 DEF IInv

LEMMA CallbackEndsKeeps ==
  ASSUME IInv, NEW r \in Runners, NEW error \in BOOLEAN, CallbackEnds(r, error)
  PROVE  IInv'
<1> USE DEF CallbackEnds
<1>1. UNCHANGED <<inputs, startup, memoryLocked, alive, attr, on, saved, tainted, proved>>
  OBVIOUS
<1>2. TypeOK'
  <2>1. pc' \in [Runners -> Steps]
    BY DEF IInv, TypeOK, Steps
  <2>2. failed' \in [Runners -> BOOLEAN]
    BY DEF IInv, TypeOK
  <2> QED BY <1>1, <2>1, <2>2, SameInputs DEF IInv, TypeOK
<1>3. /\ pc[r] \in {"callback", "plain"}
      /\ pc'[r] = IF pc[r] = "plain" THEN "done" ELSE "restore"
      /\ \A q \in Runners \ {r} : pc'[q] = pc[q] /\ failed'[q] = failed[q]
  BY DEF IInv, TypeOK
<1>4. r = Main => failed' = failed
  BY Zenon DEF IInv, TypeOK
<1>5. LockInv' /\ ThreadInv' /\ StrictControls'
  BY <1>1, <1>3, SameInputs
     DEF IInv, LockInv, ThreadInv, StrictControls, HasThread, CleanPool, Locked, Back
<1>6. GateInv' /\ LenientInv'
  BY <1>1, <1>3, <1>4, SameInputs, RealtimeAssumption
     DEF IInv, GateInv, LenientInv, LenientStarts, HasThread, Runners
<1> QED BY <1>2, <1>5, <1>6 DEF IInv
-----------------------------------------------------------------------------
LEMMA SetupThreadKeeps ==
  ASSUME IInv, NEW r \in Runners, NEW failing \in Calls \cup {"none"}, SetupThread(r, failing)
  PROVE  IInv'
<1> DEFINE t == on[r]
           pinned == Cpu >= 0 /\ failing \in {"none", "setattr"}
           old == attr[t]
           new == [sched |-> IF failing = "none" THEN Policy ELSE old.sched,
                   cpu   |-> IF pinned THEN Cpu ELSE old.cpu]
           note == [attributes |-> old, restoreScheduler |-> failing = "none",
                    restoreAffinity |-> pinned]
<1>1. /\ UNCHANGED <<inputs, startup, memoryLocked, alive, on, failed, tainted>>
      /\ pc[r] = "setup"
      /\ attr' = [attr EXCEPT ![t] = new] /\ saved' = [saved EXCEPT ![r] = note]
      /\ pc' = [pc EXCEPT ![r] = IF failing = "none" THEN "callback" ELSE "undo"]
      /\ proved' = (proved \/ (r = Main /\ failing = "none"))
  BY Zenon DEF SetupThread
<1>2. t \in alive /\ t \in Threads /\ old \in Attributes
  BY <1>1 DEF IInv, LockInv, HasThread, TypeOK
<1>3. new \in Attributes /\ note \in SavedType
  <2>1. Policy \in {"fifo", "rr"} /\ Cpu \in Int
    BY InputTypes DEF IInv
  <2>2. new \in Attributes
    BY <2>1, <1>2 DEF Attributes
  <2>3. pinned \in BOOLEAN /\ (failing = "none") \in BOOLEAN
    OBVIOUS
  <2>4. note \in SavedType
    BY <2>3, <1>2 DEF SavedType
  <2> QED BY <2>2, <2>4
<1> HIDE DEF new, note, old
<1>4. TypeOK'
  <2>1. attr' \in [Threads -> Attributes] /\ saved' \in [Runners -> SavedType]
    BY <1>1, <1>2, <1>3 DEF IInv, TypeOK
  <2>2. pc' \in [Runners -> Steps] /\ proved' \in BOOLEAN
    BY <1>1 DEF IInv, TypeOK, Steps
  <2> QED BY <1>1, <2>1, <2>2, SameInputs DEF IInv, TypeOK
<1>5. /\ attr'[t] = new /\ saved'[r] = note
      /\ pc'[r] = IF failing = "none" THEN "callback" ELSE "undo"
      /\ \A q \in Runners \ {r} : pc'[q] = pc[q] /\ saved'[q] = saved[q]
      /\ \A u \in Threads \ {t} : attr'[u] = attr[u]
  BY <1>1, <1>2 DEF IInv, TypeOK
<1>6. \A q \in Runners \ {r} : HasThread(q) => on[q] \in Threads \ {t}
  BY <1>1 DEF IInv, LockInv, HasThread, TypeOK
<1>7. LockInv'
  BY <1>1, <1>5 DEF IInv, LockInv, HasThread
<1>8. ThreadInv'
  <2>1. CleanPool' /\ \A u \in (Threads \ alive)' : attr'[u] = Untouched
    <3>1. Locked' = Locked /\ t \in Locked
      BY <1>1, <1>2, RealtimeAssumption DEF Locked
    <3>2. alive' = alive /\ tainted' = tainted
      BY <1>1
    <3> QED BY <1>2, <1>5, <3>1, <3>2 DEF IInv, ThreadInv, CleanPool, TypeOK
  <2>2. t \notin tainted => old = Untouched
    BY <1>1 DEF old, IInv, ThreadInv, HasThread
  <2>3. Back(r)' = old
    <3>1. Back(r)' = [sched |-> IF note.restoreScheduler THEN note.attributes.sched ELSE new.sched,
                      cpu   |-> IF note.restoreAffinity THEN note.attributes.cpu ELSE new.cpu]
      BY <1>1, <1>5 DEF Back
    <3>2. Back(r)' = [sched |-> old.sched, cpu |-> old.cpu]
      BY <3>1 DEF new, note
    <3> QED BY <3>2, <1>2 DEF Attributes
  <2>4. ASSUME NEW q \in Runners, HasThread(q)', on'[q] \notin tainted'
        PROVE  (IF pc[q] = "setup" THEN attr[on[q]] = Untouched ELSE Back(q) = Untouched)'
    <3>1. CASE q = r
      BY <3>1, <2>2, <2>3, <2>4, <1>1, <1>5
    <3>2. CASE q # r
      BY <3>2, <2>4, <1>1, <1>5, <1>6 DEF IInv, ThreadInv, HasThread, Back
    <3> QED BY <3>1, <3>2
  <2> QED BY <2>1, <2>4 DEF ThreadInv
<1>9. StrictControls'
  <2>1. failing = "none" => new.sched = Policy /\ (Cpu >= 0 => new.cpu = Cpu)
    BY DEF new
  <2>2. ASSUME NEW q \in Runners, pc'[q] = "callback", Strict
        PROVE  attr'[on[q]].sched = Policy /\ (Cpu >= 0 => attr'[on[q]].cpu = Cpu)
    <3>1. CASE q = r
      BY <3>1, <2>1, <2>2, <1>5
    <3>2. CASE q # r
      BY <3>2, <2>2, <1>5, <1>6 DEF IInv, StrictControls, HasThread
    <3> QED BY <3>1, <3>2
  <2> QED BY <2>2, <1>1, SameInputs DEF StrictControls
<1>10. LenientInv'
  BY <1>1, SameInputs DEF IInv, LenientInv, LenientStarts
<1>11. GateInv'
  <2>1. /\ pc[r] = "setup" /\ pc'[r] \in {"callback", "undo"} /\ Enabled
        /\ pc'[r] = "callback" => failing = "none"
    BY <1>1, <1>5 DEF IInv, GateInv, HasThread
  <2>2. proved => proved'
    BY <1>1
  <2>3. pc'[Main] \in {"callback", "restore"} /\ Strict => proved'
    BY <2>1, <2>2, <1>1, <1>5, RealtimeAssumption DEF IInv, GateInv, Runners
  <2> QED BY <2>1, <2>2, <2>3, <1>1, <1>5, SameInputs, RealtimeAssumption
          DEF IInv, GateInv, HasThread, Runners
<1> QED BY <1>4, <1>7, <1>8, <1>9, <1>10, <1>11 DEF IInv
-----------------------------------------------------------------------------
(* The attributes a thread has after the two restoring calls. *)
Restored(r, schedFails, cpuFails) ==
  [sched |-> IF saved[r].restoreScheduler /\ ~schedFails
             THEN saved[r].attributes.sched ELSE attr[on[r]].sched,
   cpu   |-> IF saved[r].restoreAffinity /\ ~cpuFails
             THEN saved[r].attributes.cpu ELSE attr[on[r]].cpu]

(* Restoring changes the goroutine's own thread, and only it; unless one of *)
(* the calls failed, the thread is what it should be.                       *)
LEMMA RestoreFacts ==
  ASSUME IInv, NEW r \in Runners, NEW schedFails \in BOOLEAN, NEW cpuFails \in BOOLEAN,
         pc[r] \in {"undo", "restore"}, RestoreThread(r, schedFails, cpuFails)
  PROVE  /\ on[r] \in alive /\ on[r] \in Threads /\ on[r] \in Locked
         /\ attr' \in [Threads -> Attributes]
         /\ attr'[on[r]] = Restored(r, schedFails, cpuFails)
         /\ \A u \in Threads \ {on[r]} : attr'[u] = attr[u]
         /\ tainted' \subseteq Threads /\ tainted \subseteq tainted'
         /\ tainted' \subseteq tainted \cup {on[r]}
         /\ RestoreFails(r, schedFails, cpuFails) => on[r] \in tainted'
         /\ on[r] \notin tainted' => attr'[on[r]] = Untouched
<1> DEFINE new == Restored(r, schedFails, cpuFails)
<1>1. on[r] \in alive /\ on[r] \in Threads /\ HasThread(r) /\ pc[r] # "setup"
  BY DEF IInv, LockInv, HasThread, TypeOK
<1>2. on[r] \in Locked
  BY <1>1, RealtimeAssumption DEF Locked
<1>3. /\ attr' = [attr EXCEPT ![on[r]] = new]
      /\ tainted' = tainted \cup {t \in {on[r]} : RestoreFails(r, schedFails, cpuFails)}
  BY DEF RestoreThread, Restored
<1>4. saved[r] \in SavedType /\ attr[on[r]] \in Attributes
  BY <1>1 DEF IInv, TypeOK
<1>5. new \in Attributes
  BY <1>4 DEF Restored, SavedType, Attributes
<1>6. ASSUME on[r] \notin tainted'
      PROVE  new = Untouched
  <2>1. Back(r) = Untouched /\ ~RestoreFails(r, schedFails, cpuFails)
    BY <1>1, <1>3, <1>6 DEF IInv, ThreadInv
  <2>2. /\ saved[r].restoreScheduler => ~schedFails
        /\ saved[r].restoreAffinity => ~cpuFails
    BY <2>1 DEF RestoreFails
  <2>3. new = Back(r)
    BY <2>2 DEF Restored, Back
  <2> QED BY <2>1, <2>3
<1> HIDE DEF new
<1>7. /\ attr' \in [Threads -> Attributes] /\ attr'[on[r]] = new
      /\ \A u \in Threads \ {on[r]} : attr'[u] = attr[u]
  BY <1>1, <1>3, <1>5 DEF IInv, TypeOK
<1>8. /\ tainted' \subseteq Threads /\ tainted \subseteq tainted'
      /\ tainted' \subseteq tainted \cup {on[r]}
      /\ RestoreFails(r, schedFails, cpuFails) => on[r] \in tainted'
  BY <1>1, <1>3 DEF IInv, TypeOK
<1> QED BY <1>1, <1>2, <1>6, <1>7, <1>8 DEF new

(* What the step of one goroutine leaves of the others' invariant. *)
LEMMA OthersKeep ==
  ASSUME IInv, NEW r \in Runners, NEW schedFails \in BOOLEAN, NEW cpuFails \in BOOLEAN,
         pc[r] \in {"undo", "restore"}, RestoreThread(r, schedFails, cpuFails),
         NEW q \in Runners \ {r}, HasThread(q)
  PROVE  /\ on[q] \in Threads /\ on[q] # on[r] /\ attr'[on[q]] = attr[on[q]]
         /\ on[q] \in tainted' => on[q] \in tainted
<1>1. on[q] \in Threads /\ on[q] # on[r] /\ on[q] \in alive
  BY DEF IInv, LockInv, HasThread, TypeOK
<1> QED BY <1>1, RestoreFacts

LEMMA UndoKeeps ==
  ASSUME IInv, NEW r \in Runners, NEW schedFails \in BOOLEAN, NEW cpuFails \in BOOLEAN,
         Undo(r, schedFails, cpuFails)
  PROVE  IInv'
<1>0. /\ UNCHANGED <<inputs, startup, memoryLocked, alive, proved>>
      /\ pc[r] = "undo" /\ RestoreThread(r, schedFails, cpuFails)
  BY DEF Undo
<1>1. /\ on[r] \in alive /\ on[r] \in Threads /\ on[r] \in Locked
      /\ attr' \in [Threads -> Attributes]
      /\ \A u \in Threads \ {on[r]} : attr'[u] = attr[u]
      /\ tainted' \subseteq Threads /\ tainted \subseteq tainted'
      /\ tainted' \subseteq tainted \cup {on[r]}
      /\ RestoreFails(r, schedFails, cpuFails) => on[r] \in tainted'
      /\ on[r] \notin tainted' => attr'[on[r]] = Untouched
  BY <1>0, RestoreFacts
<1>2. \A q \in Runners \ {r} : HasThread(q) =>
        /\ on[q] \in Threads /\ on[q] # on[r] /\ attr'[on[q]] = attr[on[q]]
        /\ on[q] \in tainted' => on[q] \in tainted
  BY <1>0, OthersKeep
<1>3. RestoreFails(r, schedFails, cpuFails) \in BOOLEAN
  BY DEF RestoreFails, IInv, TypeOK, SavedType
<1>4. Enabled /\ on[r] # NoThread
  BY <1>0, <1>1, RealtimeAssumption DEF IInv, GateInv, HasThread
<1>5. CASE Strict /\ Return(r, TRUE) /\ UNCHANGED saved
  <2>1. /\ pc'[r] = "done" /\ on'[r] = NoThread /\ failed'[r] = TRUE
        /\ \A q \in Runners \ {r} : pc'[q] = pc[q] /\ on'[q] = on[q] /\ failed'[q] = failed[q]
    BY <1>5 DEF Return, IInv, TypeOK
  <2>2. TypeOK'
    <3>1. pc' \in [Runners -> Steps] /\ on' \in [Runners -> Threads \cup {NoThread}]
      BY <1>5 DEF Return, IInv, TypeOK, Steps
    <3>2. failed' \in [Runners -> BOOLEAN] /\ saved' = saved
      BY <1>5 DEF Return, IInv, TypeOK
    <3> QED BY <1>0, <1>1, <3>1, <3>2, SameInputs DEF IInv, TypeOK
  <2>3. LockInv'
    BY <1>0, <1>4, <2>1, RealtimeAssumption DEF IInv, LockInv, HasThread, TypeOK
  <2>4. \A t \in Threads \ {on[r]} : t \in Locked' <=> t \in Locked
    BY <2>1, <1>4, RealtimeAssumption DEF Locked
  <2>5. CleanPool'
    BY <1>0, <1>1, <2>4 DEF IInv, ThreadInv, CleanPool, TypeOK
  <2>6. ThreadInv'
    BY <1>0, <1>1, <1>2, <1>5, <2>1, <2>5 DEF IInv, ThreadInv, HasThread, Back, TypeOK
  <2>7. GateInv'
    BY <1>0, <1>5, <2>1, SameInputs, RealtimeAssumption DEF IInv, GateInv, HasThread, Runners
  <2>8. LenientInv'
    BY <1>0, <1>1, <1>4, <1>5, <2>1, SameInputs, RealtimeAssumption
       DEF IInv, GateInv, LenientInv, LenientStarts, Runners
  <2>9. StrictControls'
    <3>1. ASSUME NEW q \in Runners, pc'[q] = "callback"
          PROVE  q \in Runners \ {r} /\ pc[q] = "callback" /\ HasThread(q)
      BY <3>1, <2>1 DEF HasThread
    <3>2. ASSUME NEW q \in Runners, pc'[q] = "callback"
          PROVE  pc[q] = "callback" /\ attr'[on'[q]] = attr[on[q]]
      BY <3>1, <3>2, <1>2, <2>1
    <3> QED BY <3>2, <1>0, SameInputs DEF IInv, StrictControls
  <2> QED BY <2>2, <2>3, <2>6, <2>7, <2>8, <2>9 DEF IInv
<1>6. CASE /\ ~Strict
           /\ pc' = [pc EXCEPT ![r] = "callback"]
           /\ failed' = [failed EXCEPT ![r] = RestoreFails(r, schedFails, cpuFails)]
           /\ saved' = [saved EXCEPT ![r] = NothingSaved]
           /\ UNCHANGED on
  <2>1. /\ pc'[r] = "callback" /\ failed'[r] = RestoreFails(r, schedFails, cpuFails)
        /\ saved'[r] = NothingSaved /\ on' = on
        /\ \A q \in Runners \ {r} : pc'[q] = pc[q] /\ saved'[q] = saved[q] /\ failed'[q] = failed[q]
    BY <1>6 DEF IInv, TypeOK
  <2>2. TypeOK'
    <3>0. NothingSaved \in SavedType
      BY DEF Attributes, Untouched, NothingSaved, SavedType
    <3>1. pc' \in [Runners -> Steps] /\ saved' \in [Runners -> SavedType] /\ on' = on
      BY <1>6, <3>0 DEF IInv, TypeOK, Steps
    <3>2. failed' \in [Runners -> BOOLEAN]
      BY <1>3, <1>6 DEF IInv, TypeOK
    <3> QED BY <1>0, <1>1, <3>1, <3>2, SameInputs DEF IInv, TypeOK
  <2>3. LockInv'
    BY <1>0, <2>1 DEF IInv, LockInv, HasThread
  <2>4. Locked' = Locked
    BY <2>1 DEF Locked
  <2>5. CleanPool'
    BY <1>0, <1>1, <2>4 DEF IInv, ThreadInv, CleanPool, TypeOK
  <2>6. on[r] \notin tainted' => Back(r)' = Untouched
    BY <1>1, <2>1 DEF Back, NothingSaved, Untouched
  <2>7. ThreadInv'
    <3>1. ASSUME NEW q \in Runners, HasThread(q)', on'[q] \notin tainted'
          PROVE  (IF pc[q] = "setup" THEN attr[on[q]] = Untouched ELSE Back(q) = Untouched)'
      <4>1. CASE q = r
        BY <4>1, <3>1, <2>1, <2>6
      <4>2. CASE q # r
        BY <4>2, <3>1, <1>0, <1>1, <1>2, <2>1 DEF IInv, ThreadInv, HasThread, Back
      <4> QED BY <4>1, <4>2
    <3>2. \A t \in (Threads \ alive)' : attr'[t] = Untouched
      BY <1>0, <1>1 DEF IInv, ThreadInv
    <3> QED BY <2>5, <3>1, <3>2 DEF ThreadInv
  <2>8. GateInv'
    <3>1. startup = "launched" => r # Main /\ ~failed'[Main]
      BY <1>0, <2>1, RealtimeAssumption DEF IInv, GateInv, Runners
    <3>2. startup \in {"load", "kernel", "prepare"} => pc'[Main] = "idle"
      BY <1>0, <2>1, RealtimeAssumption DEF IInv, GateInv, Runners
    <3>3. Main \in Runners /\ Strict' = Strict /\ ~Strict
      BY <1>0, <1>6, SameInputs DEF Runners
    <3> QED BY <1>0, <1>4, <2>1, <3>1, <3>2, <3>3, SameInputs, RealtimeAssumption
            DEF IInv, GateInv, HasThread, Runners
  <2>9. LenientInv'
    BY <1>0, <1>1, <1>4, <2>1, SameInputs, RealtimeAssumption
       DEF IInv, LenientInv, LenientStarts, Runners
  <2>10. StrictControls'
    BY <1>0, <1>6, SameInputs DEF StrictControls
  <2> QED BY <2>2, <2>3, <2>7, <2>8, <2>9, <2>10 DEF IInv
<1> QED BY <1>5, <1>6 DEF Undo

LEMMA RestoreKeeps ==
  ASSUME IInv, NEW r \in Runners, NEW schedFails \in BOOLEAN, NEW cpuFails \in BOOLEAN,
         Restore(r, schedFails, cpuFails)
  PROVE  IInv'
<1> DEFINE error == failed[r] \/ RestoreFails(r, schedFails, cpuFails)
<1>0. /\ UNCHANGED <<inputs, startup, memoryLocked, alive, saved, proved>>
      /\ pc[r] = "restore" /\ RestoreThread(r, schedFails, cpuFails) /\ Return(r, error)
  BY DEF Restore
<1>1. /\ on[r] \in alive /\ on[r] \in Threads /\ on[r] \in Locked
      /\ attr' \in [Threads -> Attributes]
      /\ \A u \in Threads \ {on[r]} : attr'[u] = attr[u]
      /\ tainted' \subseteq Threads /\ tainted \subseteq tainted'
      /\ tainted' \subseteq tainted \cup {on[r]}
      /\ RestoreFails(r, schedFails, cpuFails) => on[r] \in tainted'
      /\ on[r] \notin tainted' => attr'[on[r]] = Untouched
  BY <1>0, RestoreFacts
<1>2. \A q \in Runners \ {r} : HasThread(q) =>
        /\ on[q] \in Threads /\ on[q] # on[r] /\ attr'[on[q]] = attr[on[q]]
        /\ on[q] \in tainted' => on[q] \in tainted
  BY <1>0, OthersKeep
<1>3. error \in BOOLEAN
  BY DEF RestoreFails, IInv, TypeOK, SavedType
<1>4. Enabled /\ on[r] # NoThread
  BY <1>0, <1>1, RealtimeAssumption DEF IInv, GateInv, HasThread
<1>5. error => failed[r] \/ on[r] \in tainted'
  BY <1>1
<1> HIDE DEF error
<1>6. /\ pc'[r] = "done" /\ on'[r] = NoThread /\ failed'[r] = error
      /\ \A q \in Runners \ {r} : pc'[q] = pc[q] /\ on'[q] = on[q] /\ failed'[q] = failed[q]
  BY <1>0 DEF Return, IInv, TypeOK
<1>7. TypeOK'
  <2>1. pc' \in [Runners -> Steps] /\ on' \in [Runners -> Threads \cup {NoThread}]
    BY <1>0 DEF Return, IInv, TypeOK, Steps
  <2>2. failed' \in [Runners -> BOOLEAN]
    BY <1>0, <1>3 DEF Return, IInv, TypeOK
  <2> QED BY <1>0, <1>1, <2>1, <2>2, SameInputs DEF IInv, TypeOK
<1>8. LockInv'
  BY <1>0, <1>4, <1>6, RealtimeAssumption DEF IInv, LockInv, HasThread, TypeOK
<1>9. \A t \in Threads \ {on[r]} : t \in Locked' <=> t \in Locked
  BY <1>6, <1>4, RealtimeAssumption DEF Locked
<1>10. CleanPool'
  BY <1>0, <1>1, <1>9 DEF IInv, ThreadInv, CleanPool, TypeOK
<1>11. ThreadInv'
  BY <1>0, <1>1, <1>2, <1>6, <1>10 DEF IInv, ThreadInv, HasThread, Back, TypeOK
<1>12. GateInv'
  <2>1. pc[r] = "restore" /\ HasThread(r) /\ Main \in Runners
    BY <1>0 DEF HasThread, Runners
  <2>2. startup \in {"load", "kernel", "prepare", "launched"} => r # Main
    BY <2>1 DEF IInv, GateInv
  <2>3. pc'[Main] \in {"callback", "restore"} => pc[Main] = pc'[Main]
    BY <1>6, <2>1
  <2>4. pc'[Main] = "done" /\ Strict /\ ~failed'[Main] => proved
    BY <1>4, <1>6, <2>1 DEF IInv, GateInv
  <2>5. startup = "launched" => ~failed'[Main] /\ pc'[Main] = "done"
    BY <1>6, <2>1, <2>2 DEF IInv, GateInv
  <2>6. startup \in {"load", "kernel", "prepare"} => pc'[Main] = "idle"
    BY <1>6, <2>1, <2>2 DEF IInv, GateInv
  <2>7. /\ \A a \in Algorithms : pc'[a] # "idle" => startup = "launched"
        /\ \A q \in Runners : pc'[q] = "plain" => ~Enabled
    BY <1>4, <1>6, <2>1 DEF IInv, GateInv, Runners
  <2> QED BY <1>0, <1>4, <2>3, <2>4, <2>5, <2>6, <2>7, SameInputs DEF IInv, GateInv
<1>13. LenientInv'
  BY <1>0, <1>1, <1>4, <1>5, <1>6, SameInputs, RealtimeAssumption
     DEF IInv, LenientInv, LenientStarts, Runners
<1>14. StrictControls'
  <2>1. ASSUME NEW q \in Runners, pc'[q] = "callback"
        PROVE  q \in Runners \ {r} /\ pc[q] = "callback" /\ HasThread(q)
    BY <2>1, <1>6 DEF HasThread
  <2>2. ASSUME NEW q \in Runners, pc'[q] = "callback"
        PROVE  pc[q] = "callback" /\ attr'[on'[q]] = attr[on[q]]
    BY <2>1, <2>2, <1>2, <1>6
  <2> QED BY <2>2, <1>0, SameInputs DEF IInv, StrictControls
<1> QED BY <1>7, <1>8, <1>11, <1>12, <1>13, <1>14 DEF IInv
-----------------------------------------------------------------------------
LEMMA NextKeeps == IInv /\ [Next]_vars => IInv'
<1> SUFFICES ASSUME IInv, [Next]_vars PROVE IInv'
  OBVIOUS
<1>1. CASE StartStep
  BY <1>1, StartKeeps
<1>2. ASSUME NEW r \in Runners, RunStep(r)
      PROVE  IInv'
  BY <1>2, RunPlainKeeps, LockOSThreadKeeps, SetupThreadKeeps, UndoKeeps, RestoreKeeps,
     CallbackEndsKeeps DEF RunStep
<1>3. CASE \E t \in Threads : SpawnThread(t)
  BY <1>3, SpawnKeeps
<1>4. CASE UNCHANGED vars
  <2>1. UNCHANGED <<inputs, startup, memoryLocked, alive, attr, pc, on, saved, failed, tainted, proved>>
    BY <1>4 DEF vars, inputs
  <2> QED BY <2>1, SameInputs
      DEF IInv, TypeOK, LockInv, ThreadInv, GateInv, LenientInv, LenientStarts, StrictControls,
          HasThread, CleanPool, Locked, Back
<1> QED BY <1>1, <1>2, <1>3, <1>4 DEF Next, MainStep, StartStep, Runners

(* The inductive invariant: a locked thread has one goroutine, and putting  *)
(* back what that goroutine remembers leads to the untouched thread.        *)
THEOREM Invariance == Spec => []IInv
BY InvInit, NextKeeps, PTL DEF Spec

(* Strict mode launches no controls unless kernel, memory and preflight are *)
(* all as asked (README.md:147).                                            *)
THEOREM StrictGateHolds == Spec => []StrictGate
<1>1. IInv => StrictGate
  BY DEF IInv, GateInv, StrictGate
<1> QED BY <1>1, Invariance, PTL

(* No thread goes back to the pool changed, unless restoring failed on it.  *)
THEOREM CleanPoolHolds == Spec => []CleanPool
<1>1. IInv => CleanPool
  BY DEF IInv, ThreadInv
<1> QED BY <1>1, Invariance, PTL

(* A strict callback has the settings that were asked for.                  *)
THEOREM StrictControlsHold == Spec => []StrictControls
<1>1. IInv => StrictControls
  BY DEF IInv
<1> QED BY <1>1, Invariance, PTL

(* Without strict mode, only unusable settings or a change that cannot be   *)
(* taken back keep the drone from starting (README.md:149).                 *)
THEOREM LenientStartsHolds == Spec => []LenientStarts
<1>1. IInv => LenientStarts
  BY DEF IInv, LenientInv
<1> QED BY <1>1, Invariance, PTL
=============================================================================
