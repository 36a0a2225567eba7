---------------------------- MODULE PriorityMutex ----------------------------
(***************************************************************************)
(* The lock that the control algorithms of the drone share                 *)
(* (internal/drone/control/main.go), and their use of it: Lock, a critical *)
(* section, Unlock, over and over (control/pilot/main.go).  Lock and       *)
(* Unlock run under an internal sync.Mutex, so each is one step, except    *)
(* that a goroutine that finds the lock held goes on to block on a channel *)
(* of its own until Unlock closes it.                                      *)
(***************************************************************************)
EXTENDS Naturals, Sequences

CONSTANTS
  Threads,              \* the goroutines of the control algorithms
  Prio                  \* the priority each passes to Lock, 1 is the highest

ASSUME PrioAssumption == Prio \in [Threads -> Nat \ {0}]

(* The levels that Unlock looks at; the loop's bounds are literals. *)
Levels == 1 .. 10

Priorities == {Prio[t] : t \in Threads}

VARIABLES
  isLocked,
  waitQueue,            \* per priority, the goroutines blocked in Lock
  at,                   \* where each goroutine is
  ahead                 \* history: who of those waiting was there before

vars == <<isLocked, waitQueue, at, ahead>>

(* "out": outside; "waiting": blocked on its channel; "woken": the channel *)
(* is closed but the goroutine has not run yet; "in": Lock has returned.   *)
Place == {"out", "waiting", "woken", "in"}

TypeOK ==
  /\ isLocked \in BOOLEAN
  /\ waitQueue \in [Priorities -> Seq(Threads)]
  /\ at \in [Threads -> Place]
  /\ ahead \in [Threads -> SUBSET Threads]

Waiting == {t \in Threads : at[t] = "waiting"}

Holders == {t \in Threads : at[t] \in {"woken", "in"}}

Init ==
  /\ isLocked = FALSE
  /\ waitQueue = [p \in Priorities |-> <<>>]
  /\ at = [t \in Threads |-> "out"]
  /\ ahead = [t \in Threads |-> {}]

(* Lock finds the lock free. *)
LockFree(t) ==
  /\ at[t] = "out"
  /\ ~isLocked
  /\ isLocked' = TRUE
  /\ at' = [at EXCEPT ![t] = "in"]
  /\ UNCHANGED <<waitQueue, ahead>>

(* Mutant: a new waiter goes to the front of its queue. *)
LockBusyAtFront(t) ==
  /\ at[t] = "out"
  /\ isLocked
  /\ waitQueue' = [waitQueue EXCEPT ![Prio[t]] = <<t>> \o @]
  /\ at' = [at EXCEPT ![t] = "waiting"]
  /\ ahead' = [ahead EXCEPT ![t] = Waiting]
  /\ UNCHANGED isLocked

(* Lock finds the lock held: the goroutine queues up and blocks. *)
LockBusy(t) ==
  /\ at[t] = "out"
  /\ isLocked
  /\ waitQueue' = [waitQueue EXCEPT ![Prio[t]] = Append(@, t)]
  /\ at' = [at EXCEPT ![t] = "waiting"]
  /\ ahead' = [ahead EXCEPT ![t] = Waiting]
  /\ UNCHANGED isLocked

(* The receive from the closed channel returns, and Lock with it. *)
Resume(t) ==
  /\ at[t] = "woken"
  /\ at' = [at EXCEPT ![t] = "in"]
  /\ UNCHANGED <<isLocked, waitQueue, ahead>>

(* The first goroutine of level p leaves its queue and owns the lock. *)
HandOver(t, p) ==
  LET w == Head(waitQueue[p]) IN
  /\ waitQueue' = [waitQueue EXCEPT ![p] = Tail(@)]
  /\ at' = [at EXCEPT ![t] = "out", ![w] = "woken"]
  /\ ahead' = [u \in Threads |-> IF u = w THEN {} ELSE ahead[u] \ {w}]
  /\ isLocked' = TRUE

(* The levels of Unlock's scan that hold a waiter. *)
Occupied == {p \in Levels \cap Priorities : waitQueue[p] # <<>>}

(* Mutant: Unlock hands the lock over and marks it free as well. *)
UnlockForgetsLock(t) ==
  /\ at[t] = "in"
  /\ \/ \E p \in Occupied :
          /\ \A q \in Occupied : p <= q
          /\ waitQueue' = [waitQueue EXCEPT ![p] = Tail(@)]
          /\ at' = [at EXCEPT ![t] = "out", ![Head(waitQueue[p])] = "woken"]
     \/ Occupied = {} /\ at' = [at EXCEPT ![t] = "out"] /\ UNCHANGED waitQueue
  /\ isLocked' = FALSE
  /\ UNCHANGED ahead

(* Mutant: the scan stops one level early. *)
UnlockShortScan(t) ==
  /\ at[t] = "in"
  /\ \/ \E p \in Occupied \ {10} : (\A q \in Occupied : p <= q) /\ HandOver(t, p)
     \/ /\ Occupied \ {10} = {}
        /\ isLocked' = FALSE
        /\ at' = [at EXCEPT ![t] = "out"]
        /\ UNCHANGED <<waitQueue, ahead>>

(* Mutant: the scan starts at the lowest priority. *)
UnlockLowestFirst(t) ==
  /\ at[t] = "in"
  /\ \/ \E p \in Occupied : (\A q \in Occupied : q <= p) /\ HandOver(t, p)
     \/ /\ Occupied = {}
        /\ isLocked' = FALSE
        /\ at' = [at EXCEPT ![t] = "out"]
        /\ UNCHANGED <<waitQueue, ahead>>

(* Unlock: the lock passes to the first waiter of the first level that has *)
(* one; with none in levels 1 to 10 it is left free.                       *)
Unlock(t) ==
  /\ at[t] = "in"
  /\ \/ \E p \in Occupied : (\A q \in Occupied : p <= q) /\ HandOver(t, p)
     \/ /\ Occupied = {}
        /\ isLocked' = FALSE
        /\ at' = [at EXCEPT ![t] = "out"]
        /\ UNCHANGED <<waitQueue, ahead>>

Next == \E t \in Threads : LockFree(t) \/ LockBusy(t) \/ Resume(t) \/ Unlock(t)

Spec == Init /\ [][Next]_vars

(* A goroutine that can run does run, and the critical sections end: pilot *)
(* only sleeps in its own.  Nobody is obliged to ask for the lock.         *)
Fairness == \A t \in Threads : WF_vars(Resume(t)) /\ WF_vars(Unlock(t))

FairSpec == Spec /\ Fairness
-----------------------------------------------------------------------------
(* No two control algorithms are in their critical sections at once, nor   *)
(* does one enter while the lock is on its way to another.                 *)
MutualExclusion == \A t, u \in Holders : t = u

(* When Unlock leaves the lock free, nobody waits for it ("Find the        *)
(* highest priority level with waiting goroutines", control/main.go:48):   *)
(* a waiter left behind is woken by no later Lock.                         *)
NoStrandedWaiter == ~isLocked => Waiting = {}

InOrder ==
  \A t, u \in Threads :
    at[t] = "waiting" /\ at'[t] # "waiting" /\ at[u] = "waiting" /\ u # t
      => \/ Prio[t] < Prio[u]
         \/ Prio[t] = Prio[u] /\ u \notin ahead[t]

(* The lock goes to a waiter of the highest priority, and among those of   *)
(* one priority to the one that has waited longest (control/main.go:49-52).*)
HandOverInOrder == [][InOrder]_vars

(* A waiter that nobody outranks gets the lock. *)
BestServed ==
  \A t \in Threads :
    (\A u \in Threads : Prio[t] <= Prio[u])
      => (at[t] = "waiting" ~> at[t] = "in")
-----------------------------------------------------------------------------
(* THE INDUCTIVE INVARIANT *)

(* The queues hold the waiting goroutines, each once and at its priority,  *)
(* in the order in which they came.                                        *)
QueueInv ==
  /\ \A p \in Priorities : \A i \in 1 .. Len(waitQueue[p]) :
       /\ at[waitQueue[p][i]] = "waiting"
       /\ Prio[waitQueue[p][i]] = p
       /\ \A j \in 1 .. Len(waitQueue[p]) :
            i < j => /\ waitQueue[p][i] # waitQueue[p][j]
                     /\ waitQueue[p][j] \notin ahead[waitQueue[p][i]]
  /\ \A t \in Waiting : \E i \in 1 .. Len(waitQueue[Prio[t]]) : waitQueue[Prio[t]][i] = t
  /\ \A t \in Threads : ahead[t] \subseteq Waiting \ {t}

(* The lock is held by one goroutine or none. *)
HolderInv ==
  /\ MutualExclusion
  /\ isLocked <=> Holders # {}

IInv == TypeOK /\ QueueInv /\ HolderInv
=============================================================================
