------------------------- MODULE PriorityMutexProofs -------------------------
(***************************************************************************)
(* Proofs about PriorityMutex, for any goroutines and any priorities.      *)
(***************************************************************************)
EXTENDS PriorityMutex, TLAPS

(* What Append does to the positions of a queue of goroutines, *)
LEMMA AppendFacts ==
  ASSUME NEW s \in Seq(Threads), NEW t \in Threads
  PROVE  /\ Append(s, t) \in Seq(Threads)
         /\ Len(s) \in Nat /\ Len(Append(s, t)) = Len(s) + 1
         /\ \A i \in 1 .. Len(s) : Append(s, t)[i] = s[i] /\ s[i] \in Threads
         /\ Append(s, t)[Len(s) + 1] = t
  OBVIOUS

(* and what Tail does. *)
LEMMA TailFacts ==
  ASSUME NEW s \in Seq(Threads), s # <<>>
  PROVE  /\ Tail(s) \in Seq(Threads) /\ Len(s) \in Nat \ {0}
         /\ Head(s) = s[1] /\ Head(s) \in Threads
         /\ Len(Tail(s)) = Len(s) - 1
         /\ \A i \in 1 .. Len(Tail(s)) : i + 1 \in 1 .. Len(s) /\ Tail(s)[i] = s[i + 1]
  OBVIOUS

LEMMA InvInit == Init => IInv
<1> SUFFICES ASSUME Init PROVE IInv
  OBVIOUS
<1>1. <<>> \in Seq(Threads) /\ Len(<<>>) = 0
  OBVIOUS
<1>2. TypeOK
  BY <1>1, Zenon DEF Init, TypeOK, Place
<1>3. \A p \in Priorities : waitQueue[p] = <<>> /\ 1 .. Len(waitQueue[p]) = {}
  BY <1>1 DEF Init
<1>4. QueueInv
  BY <1>3 DEF Init, QueueInv, Waiting
<1>5. Holders = {} /\ ~isLocked
  BY DEF Init, Holders
<1>6. HolderInv
  BY <1>5, Zenon DEF HolderInv, MutualExclusion
<1> QED BY <1>2, <1>4, <1>6 DEF IInv

LEMMA LockFreeStep ==
  ASSUME IInv, NEW t \in Threads, LockFree(t) PROVE IInv'
<1>1. /\ at \in [Threads -> Place] /\ at[t] = "out" /\ at' = [at EXCEPT ![t] = "in"]
      /\ waitQueue' = waitQueue /\ ahead' = ahead
  BY DEF IInv, TypeOK, LockFree
<1>2. ~isLocked /\ isLocked'
  BY Zenon DEF LockFree
<1>3. Holders = {} /\ Holders' = {t}
  <2>1. Holders = {}
    BY <1>2 DEF IInv, HolderInv
  <2> QED BY <1>1, <2>1 DEF Holders
<1>4. HolderInv'
  BY <1>2, <1>3, Zenon DEF HolderInv, MutualExclusion
<1>5. Waiting' = Waiting
  BY <1>1 DEF Waiting
<1>6. at' \in [Threads -> Place]
  BY <1>1 DEF Place
<1>7. TypeOK'
  BY <1>1, <1>2, <1>6, Zenon DEF IInv, TypeOK
<1>8. QueueInv'
  <2>1. \A u \in Threads : at[u] = "waiting" => at'[u] = "waiting"
    BY <1>1
  <2>2. \A p \in Priorities : \A i \in 1 .. Len(waitQueue[p]) : waitQueue[p][i] \in Threads
    BY DEF IInv, TypeOK
  <2> QED BY <1>1, <1>5, <2>1, <2>2 DEF IInv, QueueInv
<1> QED BY <1>4, <1>7, <1>8 DEF IInv

LEMMA LockBusyStep ==
  ASSUME IInv, NEW t \in Threads, LockBusy(t) PROVE IInv'
<1> DEFINE p == Prio[t]
<1>1. /\ at \in [Threads -> Place] /\ at[t] = "out" /\ at' = [at EXCEPT ![t] = "waiting"]
      /\ waitQueue \in [Priorities -> Seq(Threads)] /\ p \in Priorities
      /\ waitQueue' = [waitQueue EXCEPT ![p] = Append(waitQueue[p], t)]
      /\ ahead \in [Threads -> SUBSET Threads] /\ ahead' = [ahead EXCEPT ![t] = Waiting]
  BY DEF IInv, TypeOK, LockBusy, Priorities
<1>2. isLocked' = isLocked /\ isLocked \in BOOLEAN
  BY Zenon DEF LockBusy, IInv, TypeOK
<1>3. Holders' = Holders
  BY <1>1 DEF Holders
<1>4. HolderInv'
  BY <1>2, <1>3 DEF IInv, HolderInv, MutualExclusion
<1>5. Waiting' = Waiting \cup {t} /\ t \notin Waiting /\ Waiting \subseteq Threads
  BY <1>1 DEF Waiting
<1>6. /\ waitQueue'[p] = Append(waitQueue[p], t)
      /\ \A q \in Priorities \ {p} : waitQueue'[q] = waitQueue[q]
  BY <1>1
<1>7. /\ Len(waitQueue[p]) \in Nat /\ Len(waitQueue'[p]) = Len(waitQueue[p]) + 1
      /\ \A i \in 1 .. Len(waitQueue[p]) : waitQueue'[p][i] = waitQueue[p][i]
      /\ waitQueue'[p][Len(waitQueue[p]) + 1] = t
      /\ waitQueue'[p] \in Seq(Threads)
  <2> HIDE DEF p
  <2>1. waitQueue[p] \in Seq(Threads)
    BY <1>1
  <2> QED BY <1>6, <2>1, AppendFacts
<1>8. TypeOK'
  <2>1. at' \in [Threads -> Place]
    BY <1>1 DEF Place
  <2>2. waitQueue' \in [Priorities -> Seq(Threads)]
    BY <1>1, <1>7
  <2>3. ahead' \in [Threads -> SUBSET Threads]
    BY <1>1, <1>5
  <2> QED BY <1>2, <2>1, <2>2, <2>3, Zenon DEF TypeOK
<1>9. QueueInv'
  <2>1. \A q \in Priorities : \A i \in 1 .. Len(waitQueue[q]) :
          /\ waitQueue[q][i] \in Threads \ {t} /\ waitQueue[q][i] \in Waiting
          /\ ahead'[waitQueue[q][i]] = ahead[waitQueue[q][i]]
          /\ t \notin ahead[waitQueue[q][i]]
    <3> SUFFICES ASSUME NEW q \in Priorities, NEW i \in 1 .. Len(waitQueue[q])
                 PROVE  /\ waitQueue[q][i] \in Threads \ {t} /\ waitQueue[q][i] \in Waiting
                        /\ ahead'[waitQueue[q][i]] = ahead[waitQueue[q][i]]
                        /\ t \notin ahead[waitQueue[q][i]]
      OBVIOUS
    <3>1. waitQueue[q][i] \in Threads /\ at[waitQueue[q][i]] = "waiting"
      BY <1>1 DEF IInv, QueueInv
    <3>2. ahead[waitQueue[q][i]] \subseteq Waiting
      BY <3>1 DEF IInv, QueueInv
    <3> QED BY <1>1, <1>5, <3>1, <3>2 DEF Waiting
  <2>2. ASSUME NEW q \in Priorities, NEW i \in 1 .. Len(waitQueue'[q])
        PROVE  /\ at'[waitQueue'[q][i]] = "waiting"
               /\ Prio[waitQueue'[q][i]] = q
               /\ \A j \in 1 .. Len(waitQueue'[q]) :
                    i < j => /\ waitQueue'[q][i] # waitQueue'[q][j]
                             /\ waitQueue'[q][j] \notin ahead'[waitQueue'[q][i]]
    <3>1. CASE q # p
      BY <1>1, <1>6, <2>1, <3>1 DEF IInv, QueueInv
    <3>2. CASE q = p /\ i \in 1 .. Len(waitQueue[p])
      <4>1. at'[waitQueue'[q][i]] = "waiting" /\ Prio[waitQueue'[q][i]] = q
        BY <1>1, <1>7, <2>1, <3>2 DEF IInv, QueueInv
      <4>2. ASSUME NEW j \in 1 .. Len(waitQueue'[q]), i < j
            PROVE  /\ waitQueue'[q][i] # waitQueue'[q][j]
                   /\ waitQueue'[q][j] \notin ahead'[waitQueue'[q][i]]
        <5>1. CASE j \in 1 .. Len(waitQueue[p])
          BY <1>7, <2>1, <3>2, <4>2, <5>1 DEF IInv, QueueInv
        <5>2. CASE j = Len(waitQueue[p]) + 1
          BY <1>7, <2>1, <3>2, <5>2
        <5> QED BY <1>7, <3>2, <5>1, <5>2
      <4> QED BY <4>1, <4>2
    <3>3. CASE q = p /\ i = Len(waitQueue[p]) + 1
      BY <1>1, <1>7, <3>3
    <3> QED BY <1>7, <3>1, <3>2, <3>3
  <2>3. ASSUME NEW u \in Waiting'
        PROVE  \E i \in 1 .. Len(waitQueue'[Prio[u]]) : waitQueue'[Prio[u]][i] = u
    <3>1. CASE u = t
      BY <1>7, <3>1
    <3>2. CASE u # t
      <4>1. u \in Waiting
        BY <1>5, <3>2
      <4>2. PICK i \in 1 .. Len(waitQueue[Prio[u]]) : waitQueue[Prio[u]][i] = u
        BY <4>1 DEF IInv, QueueInv
      <4>3. Prio[u] \in Priorities
        BY <1>5, <4>1 DEF Priorities
      <4>4. i \in 1 .. Len(waitQueue'[Prio[u]]) /\ waitQueue'[Prio[u]][i] = u
        <5>1. CASE Prio[u] = p
          <6> HIDE DEF p
          <6>1. i \in 1 .. Len(waitQueue[p]) /\ waitQueue[p][i] = u
            BY <4>2, <5>1
          <6>2. i \in 1 .. Len(waitQueue'[p]) /\ waitQueue'[p][i] = u
            BY <1>7, <6>1
          <6> QED BY <5>1, <6>2
        <5>2. CASE Prio[u] # p
          <6>1. waitQueue'[Prio[u]] = waitQueue[Prio[u]]
            BY <1>6, <4>3, <5>2
          <6> QED BY <4>2, <6>1
        <5> QED BY <5>1, <5>2
      <4> QED BY <4>4
    <3> QED BY <3>1, <3>2
  <2>4. \A u \in Threads : ahead'[u] \subseteq Waiting' \ {u}
    BY <1>1, <1>5 DEF IInv, QueueInv
  <2> QED BY <2>2, <2>3, <2>4 DEF QueueInv
<1> QED BY <1>4, <1>8, <1>9 DEF IInv

LEMMA ResumeStep ==
  ASSUME IInv, NEW t \in Threads, Resume(t) PROVE IInv'
<1>1. /\ at \in [Threads -> Place] /\ at[t] = "woken" /\ at' = [at EXCEPT ![t] = "in"]
      /\ waitQueue' = waitQueue /\ ahead' = ahead
  BY DEF IInv, TypeOK, Resume
<1>2. isLocked' = isLocked
  BY DEF Resume
<1>3. Holders' = Holders /\ Waiting' = Waiting
  BY <1>1 DEF Holders, Waiting
<1>4. HolderInv'
  BY <1>2, <1>3 DEF IInv, HolderInv, MutualExclusion
<1>5. TypeOK'
  <2>1. at' \in [Threads -> Place]
    BY <1>1 DEF Place
  <2> QED BY <1>1, <1>2, <2>1, Zenon DEF IInv, TypeOK
<1>6. QueueInv'
  <2>1. \A u \in Threads : at[u] = "waiting" => at'[u] = "waiting"
    BY <1>1
  <2>2. \A p \in Priorities : \A i \in 1 .. Len(waitQueue[p]) : waitQueue[p][i] \in Threads
    BY DEF IInv, TypeOK
  <2> QED BY <1>1, <1>3, <2>1, <2>2 DEF IInv, QueueInv
<1> QED BY <1>4, <1>5, <1>6 DEF IInv

LEMMA UnlockStep ==
  ASSUME IInv, NEW t \in Threads, Unlock(t) PROVE IInv'
<1>0. /\ at \in [Threads -> Place] /\ at[t] = "in"
      /\ waitQueue \in [Priorities -> Seq(Threads)]
      /\ ahead \in [Threads -> SUBSET Threads]
  BY DEF IInv, TypeOK, Unlock
<1>a. Holders = {t}
  BY <1>0 DEF IInv, HolderInv, MutualExclusion, Holders
<1>1. CASE /\ Occupied = {} /\ isLocked' = FALSE /\ at' = [at EXCEPT ![t] = "out"]
           /\ UNCHANGED <<waitQueue, ahead>>
  <2>1. Holders' = {} /\ Waiting' = Waiting
    BY <1>0, <1>1, <1>a DEF Holders, Waiting
  <2>2. HolderInv'
    BY <1>1, <2>1, Zenon DEF HolderInv, MutualExclusion
  <2>3. TypeOK'
    <3>1. at' \in [Threads -> Place]
      BY <1>0, <1>1 DEF Place
    <3> QED BY <1>0, <1>1, <3>1, Zenon DEF TypeOK
  <2>4. QueueInv'
    <3>1. \A u \in Threads : at[u] = "waiting" => at'[u] = "waiting"
      BY <1>0, <1>1
    <3>2. \A p \in Priorities : \A i \in 1 .. Len(waitQueue[p]) : waitQueue[p][i] \in Threads
      BY <1>0
    <3> QED BY <1>1, <2>1, <3>1, <3>2 DEF IInv, QueueInv
  <2> QED BY <2>2, <2>3, <2>4 DEF IInv
<1>2. ASSUME NEW p \in Occupied, HandOver(t, p) PROVE IInv'
  <2> DEFINE s == waitQueue[p]
             w == Head(s)
  <2>1. p \in Priorities /\ s \in Seq(Threads) /\ s # <<>>
    BY <1>0 DEF Occupied
  <2>2. /\ Tail(s) \in Seq(Threads) /\ Len(s) \in Nat \ {0}
        /\ w = s[1] /\ w \in Threads /\ Len(Tail(s)) = Len(s) - 1
        /\ \A i \in 1 .. Len(Tail(s)) : i + 1 \in 1 .. Len(s) /\ Tail(s)[i] = s[i + 1]
    <3> HIDE DEF s
    <3> QED BY <2>1, TailFacts
  <2>3. at[w] = "waiting" /\ Prio[w] = p /\ w # t
    BY <1>0, <2>1, <2>2 DEF IInv, QueueInv
  <2>4. /\ waitQueue' = [waitQueue EXCEPT ![p] = Tail(s)]
        /\ at' = [at EXCEPT ![t] = "out", ![w] = "woken"]
        /\ ahead' = [u \in Threads |-> IF u = w THEN {} ELSE ahead[u] \ {w}]
    BY <1>2 DEF HandOver
  <2>5. isLocked'
    BY <1>2, Zenon DEF HandOver
  <2>6. /\ waitQueue'[p] = Tail(s)
        /\ \A q \in Priorities \ {p} : waitQueue'[q] = waitQueue[q]
    BY <1>0, <2>1, <2>4
  <2> HIDE DEF w, s
  <2>7. Holders' = {w} /\ Waiting' = Waiting \ {w} /\ w \in Waiting
    <3>1. at'[w] = "woken" /\ at'[t] = "out"
      BY <1>0, <2>2, <2>3, <2>4
    <3>2. \A u \in Threads \ {t, w} : at'[u] = at[u]
      BY <1>0, <2>2, <2>4
    <3>3. Holders' = {w}
      BY <1>a, <2>2, <2>3, <3>1, <3>2 DEF Holders
    <3>4. Waiting' = Waiting \ {w} /\ w \in Waiting
      BY <1>0, <2>2, <2>3, <3>1, <3>2 DEF Waiting
    <3> QED BY <3>3, <3>4
  <2>8. HolderInv'
    BY <2>5, <2>7, Zenon DEF HolderInv, MutualExclusion
  <2>9. TypeOK'
    <3>1. at' \in [Threads -> Place]
      BY <1>0, <2>2, <2>4 DEF Place
    <3>2. waitQueue' \in [Priorities -> Seq(Threads)]
      BY <1>0, <2>2, <2>4
    <3>3. ahead' \in [Threads -> SUBSET Threads]
      BY <1>0, <2>4
    <3> QED BY <2>5, <3>1, <3>2, <3>3, Zenon DEF TypeOK
  <2>10. \A u \in Threads \ {w} : at[u] = "waiting" => at'[u] = "waiting"
    BY <1>0, <2>4
  <2>11. ASSUME NEW q \in Priorities, NEW i \in 1 .. Len(waitQueue'[q])
         PROVE  /\ at'[waitQueue'[q][i]] = "waiting"
                /\ Prio[waitQueue'[q][i]] = q
                /\ \A j \in 1 .. Len(waitQueue'[q]) :
                     i < j => /\ waitQueue'[q][i] # waitQueue'[q][j]
                              /\ waitQueue'[q][j] \notin ahead'[waitQueue'[q][i]]
    <3>1. CASE q # p
      <4>1. waitQueue'[q] = waitQueue[q] /\ waitQueue[q] \in Seq(Threads)
        BY <1>0, <2>6, <3>1
      <4>2. /\ waitQueue[q][i] \in Threads /\ at[waitQueue[q][i]] = "waiting"
            /\ Prio[waitQueue[q][i]] = q
            /\ \A j \in 1 .. Len(waitQueue[q]) :
                 i < j => /\ waitQueue[q][i] # waitQueue[q][j]
                          /\ waitQueue[q][j] \notin ahead[waitQueue[q][i]]
        BY <4>1 DEF IInv, QueueInv
      <4>3. waitQueue[q][i] # w
        BY <2>3, <3>1, <4>2
      <4>4. ahead'[waitQueue[q][i]] \subseteq ahead[waitQueue[q][i]]
        BY <2>4, <4>2
      <4>5. waitQueue'[q][i] = waitQueue[q][i] /\ Len(waitQueue'[q]) = Len(waitQueue[q])
        BY <4>1
      <4> QED BY <2>10, <4>1, <4>2, <4>3, <4>4, <4>5
    <3>2. CASE q = p
      <4>0. waitQueue'[q] = Tail(s) /\ i \in 1 .. Len(Tail(s)) /\ i \in Nat /\ i >= 1
        <5>1. waitQueue'[q] = Tail(s)  BY <2>6, <3>2
        <5>2. i \in 1 .. Len(Tail(s))  BY <5>1
        <5> QED BY <2>2, <5>1, <5>2
      <4>1. /\ i + 1 \in 1 .. Len(s) /\ waitQueue'[q][i] = s[i + 1]
            /\ \A j \in 1 .. Len(waitQueue'[q]) :
                 j + 1 \in 1 .. Len(s) /\ waitQueue'[q][j] = s[j + 1]
            /\ 1 \in 1 .. Len(s) /\ 1 < i + 1
        <5>1. \A j \in 1 .. Len(Tail(s)) : j + 1 \in 1 .. Len(s) /\ Tail(s)[j] = s[j + 1]
          BY <2>2
        <5>2. 1 \in 1 .. Len(s) /\ 1 < i + 1
          BY <2>2, <4>0
        <5> QED BY <4>0, <5>1, <5>2, Zenon
      <4>2. \A k \in 1 .. Len(s) :
              /\ at[s[k]] = "waiting" /\ Prio[s[k]] = p /\ s[k] \in Threads
              /\ \A j \in 1 .. Len(s) : k < j => s[k] # s[j] /\ s[j] \notin ahead[s[k]]
        BY <2>1 DEF IInv, QueueInv, s
      <4>3. s[i + 1] # w
        BY <2>2, <4>1, <4>2
      <4>4. ahead'[s[i + 1]] \subseteq ahead[s[i + 1]]
        BY <2>4, <4>1, <4>2
      <4>5. \A j \in 1 .. Len(waitQueue'[q]) :
              i < j => s[i + 1] # s[j + 1] /\ s[j + 1] \notin ahead[s[i + 1]]
        <5> SUFFICES ASSUME NEW j \in 1 .. Len(waitQueue'[q]), i < j
                     PROVE  s[i + 1] # s[j + 1] /\ s[j + 1] \notin ahead[s[i + 1]]
          OBVIOUS
        <5>1. i + 1 < j + 1 /\ j + 1 \in 1 .. Len(s)
          BY <4>1
        <5> QED BY <4>1, <4>2, <5>1
      <4> QED BY <2>10, <3>2, <4>1, <4>2, <4>3, <4>4, <4>5
    <3> QED BY <3>1, <3>2
  <2>12. ASSUME NEW u \in Waiting'
         PROVE  \E i \in 1 .. Len(waitQueue'[Prio[u]]) : waitQueue'[Prio[u]][i] = u
    <3>1. u \in Waiting /\ u # w /\ u \in Threads /\ Prio[u] \in Priorities
      BY <2>7 DEF Waiting, Priorities
    <3>2. PICK i \in 1 .. Len(waitQueue[Prio[u]]) : waitQueue[Prio[u]][i] = u
      BY <3>1 DEF IInv, QueueInv
    <3>3. CASE Prio[u] # p
      BY <2>6, <3>1, <3>2, <3>3
    <3>4. CASE Prio[u] = p
      <4>1. i \in 1 .. Len(s) /\ s[i] = u /\ i # 1
        BY <2>2, <3>1, <3>2, <3>4 DEF s
      <4>2. i - 1 \in 1 .. Len(Tail(s)) /\ (i - 1) + 1 = i
        BY <2>2, <4>1
      <4>3. Tail(s)[i - 1] = u
        BY <2>2, <4>1, <4>2
      <4> QED BY <2>6, <3>4, <4>2, <4>3
    <3> QED BY <3>3, <3>4
  <2>13. \A u \in Threads : ahead'[u] \subseteq Waiting' \ {u}
    BY <2>4, <2>7 DEF IInv, QueueInv
  <2>14. QueueInv'
    BY <2>11, <2>12, <2>13 DEF QueueInv
  <2> QED BY <2>8, <2>9, <2>14 DEF IInv
<1> QED BY <1>1, <1>2 DEF Unlock

LEMMA InvStep == IInv /\ [Next]_vars => IInv'
<1> SUFFICES ASSUME IInv, [Next]_vars PROVE IInv'
  OBVIOUS
<1>1. CASE UNCHANGED vars
  BY <1>1 DEF vars, IInv, TypeOK, QueueInv, HolderInv, MutualExclusion, Holders, Waiting
<1> QED BY <1>1, LockFreeStep, LockBusyStep, ResumeStep, UnlockStep DEF Next

(* The inductive invariant holds for any goroutines and any priorities. *)
THEOREM Invariance == Spec => []IInv
  BY InvInit, InvStep, PTL DEF Spec

(* At most one control algorithm holds the lock (Lock, Unlock). *)
THEOREM Exclusion == Spec => []MutualExclusion
<1>1. IInv => MutualExclusion
  BY DEF IInv, HolderInv
<1> QED BY <1>1, Invariance, PTL
-----------------------------------------------------------------------------
(* NoStrandedWaiter needs what the code does not enforce: that the scan of *)
(* Unlock reaches every priority in use.                                   *)
LEMMA NoStrandStep ==
  ASSUME Priorities \subseteq Levels, IInv, NoStrandedWaiter, [Next]_vars
  PROVE  NoStrandedWaiter'
<1>0. at \in [Threads -> Place] /\ isLocked \in BOOLEAN
  BY Zenon DEF IInv, TypeOK
<1>1. ASSUME NEW t \in Threads, LockFree(t) PROVE NoStrandedWaiter'
  BY <1>1, Zenon DEF LockFree, NoStrandedWaiter
<1>2. ASSUME NEW t \in Threads, LockBusy(t) PROVE NoStrandedWaiter'
  BY <1>2, Zenon DEF LockBusy, NoStrandedWaiter
<1>3. ASSUME NEW t \in Threads, Resume(t) PROVE NoStrandedWaiter'
  <2>1. Waiting' \subseteq Waiting
    BY <1>0, <1>3 DEF Resume, Waiting
  <2>2. isLocked' = isLocked
    BY <1>3 DEF Resume
  <2> QED BY <2>1, <2>2 DEF NoStrandedWaiter
<1>4. ASSUME NEW t \in Threads, Unlock(t) PROVE NoStrandedWaiter'
  <2>1. CASE Occupied = {} /\ at' = [at EXCEPT ![t] = "out"]
    <3>1. Waiting = {}
      <4> SUFFICES ASSUME NEW u \in Waiting PROVE FALSE
        OBVIOUS
      <4>1. PICK i \in 1 .. Len(waitQueue[Prio[u]]) : waitQueue[Prio[u]][i] = u
        BY DEF IInv, QueueInv
      <4>2. Prio[u] \in Levels \cap Priorities
        BY DEF Waiting, Priorities
      <4>3. waitQueue[Prio[u]] # <<>>
        BY <4>1
      <4> QED BY <2>1, <4>2, <4>3 DEF Occupied
    <3>2. Waiting' \subseteq Waiting
      BY <1>0, <2>1 DEF Waiting
    <3> QED BY <3>1, <3>2 DEF NoStrandedWaiter
  <2>2. CASE isLocked'
    BY <2>2, Zenon DEF NoStrandedWaiter
  <2> QED BY <1>4, <2>1, <2>2, Zenon DEF Unlock, HandOver
<1>5. CASE UNCHANGED vars
  BY <1>5, Zenon DEF vars, NoStrandedWaiter, Waiting
<1> QED BY <1>1, <1>2, <1>3, <1>4, <1>5 DEF Next

(* With at most ten control algorithms no goroutine is left behind when    *)
(* the lock becomes free (Unlock, index + 1 in cmd/drone/main.go).         *)
THEOREM NobodyStranded ==
  ASSUME Priorities \subseteq Levels
  PROVE  Spec => []NoStrandedWaiter
<1>1. Init => NoStrandedWaiter
  BY DEF Init, NoStrandedWaiter, Waiting
<1>2. IInv /\ NoStrandedWaiter /\ [Next]_vars => NoStrandedWaiter'
  BY NoStrandStep
<1> QED BY <1>1, <1>2, Invariance, PTL DEF Spec

(* One hand-over takes the right waiter. *)
LEMMA HandOverPicksFirst ==
  ASSUME IInv, NEW s \in Threads, Unlock(s), Priorities \subseteq Levels,
         NEW t \in Threads, at[t] = "waiting", at'[t] # "waiting",
         NEW u \in Threads, at[u] = "waiting", u # t
  PROVE  Prio[t] < Prio[u] \/ (Prio[t] = Prio[u] /\ u \notin ahead[t])
<1>0. /\ at \in [Threads -> Place] /\ at[s] = "in"
      /\ waitQueue \in [Priorities -> Seq(Threads)]
  BY DEF IInv, TypeOK, Unlock
<1>1. PICK p \in Occupied : (\A q \in Occupied : p <= q) /\ HandOver(s, p)
  BY <1>0 DEF Unlock
<1>2. /\ p \in Priorities /\ waitQueue[p] \in Seq(Threads) /\ waitQueue[p] # <<>>
  BY <1>0, <1>1 DEF Occupied
<1>3. /\ Head(waitQueue[p]) = waitQueue[p][1] /\ Head(waitQueue[p]) \in Threads
      /\ 1 \in 1 .. Len(waitQueue[p]) /\ Len(waitQueue[p]) \in Nat
  BY <1>2, TailFacts
<1>4. t = Head(waitQueue[p])
  BY <1>0, <1>1, <1>3 DEF HandOver
<1>5. Prio[t] = p
  BY <1>2, <1>3, <1>4 DEF IInv, QueueInv
<1>6. PICK i \in 1 .. Len(waitQueue[Prio[u]]) : waitQueue[Prio[u]][i] = u
  BY DEF IInv, QueueInv, Waiting
<1>7. Prio[u] \in Occupied
  <2>1. Prio[u] \in Priorities /\ waitQueue[Prio[u]] # <<>>
    BY <1>6 DEF Priorities
  <2> QED BY <2>1 DEF Occupied
<1>8. p <= Prio[u] /\ p \in Nat /\ Prio[u] \in Nat
  BY <1>1, <1>7 DEF Occupied, Levels
<1>9. CASE Prio[u] = p
  <2>1. waitQueue[p][i] = u /\ i \in 1 .. Len(waitQueue[p]) /\ 1 < i
    BY <1>3, <1>4, <1>6, <1>9
  <2>2. u \notin ahead[t]
    BY <1>2, <1>3, <1>4, <2>1 DEF IInv, QueueInv
  <2> QED BY <1>5, <1>9, <2>2
<1>10. CASE Prio[u] # p
  BY <1>5, <1>8, <1>10
<1> QED BY <1>9, <1>10

(* The lock goes to the highest priority first, and in order of arrival    *)
(* within a priority, for any set of goroutines with priorities up to 10.  *)
THEOREM OrderlyHandOver ==
  ASSUME Priorities \subseteq Levels
  PROVE  Spec => HandOverInOrder
<1>1. IInv /\ [Next]_vars => [InOrder]_vars
  <2> SUFFICES ASSUME IInv, [Next]_vars,
                      NEW t \in Threads, at[t] = "waiting", at'[t] # "waiting",
                      NEW u \in Threads, at[u] = "waiting", u # t
               PROVE  Prio[t] < Prio[u] \/ (Prio[t] = Prio[u] /\ u \notin ahead[t])
    BY DEF InOrder
  <2>0. at \in [Threads -> Place]
    BY DEF IInv, TypeOK
  <2>1. PICK s \in Threads : LockFree(s) \/ LockBusy(s) \/ Resume(s) \/ Unlock(s)
    BY DEF Next, vars
  <2>2. Unlock(s)
    BY <2>0, <2>1 DEF LockFree, LockBusy, Resume
  <2> QED BY <2>2, HandOverPicksFirst
<1> QED BY <1>1, Invariance, PTL DEF Spec, HandOverInOrder
=============================================================================
