------------------------- MODULE RadioKeepaliveProofs -------------------------
(* Proofs about RadioKeepalive, for any number of requests. *)
EXTENDS RadioKeepalive, FiniteSetTheorems, TLAPS

(* What Append does to the commands of the requests. *)
LEMMA AppendReqs ==
  ASSUME NEW S, NEW s \in Seq(S), NEW x \in S
  PROVE  /\ Append(s, x) \in Seq(S)
         /\ Len(Append(s, x)) = Len(s) + 1
         /\ Len(s) \in Nat
         /\ \A i \in 1 .. Len(s) : Append(s, x)[i] = s[i]
         /\ Append(s, x)[Len(s) + 1] = x
OBVIOUS

(* Sizes of sets of requests. *)
LEMMA SubsetSize ==
  ASSUME NEW k \in Nat, NEW T, T \subseteq 1 .. k, NEW S, S \subseteq T
  PROVE  /\ IsFiniteSet(S) /\ IsFiniteSet(T)
         /\ Cardinality(S) \in Nat /\ Cardinality(T) \in Nat
         /\ Cardinality(S) <= Cardinality(T)
<1>1. IsFiniteSet(1 .. k)
  BY FS_Interval
<1>2. IsFiniteSet(T)
  BY <1>1, FS_Subset
<1>3. IsFiniteSet(S) /\ Cardinality(S) <= Cardinality(T)
  BY <1>2, FS_Subset
<1> QED BY <1>2, <1>3, FS_CardinalityType

LEMMA AddSize ==
  ASSUME NEW k \in Nat, NEW S, S \subseteq 1 .. k, NEW n
  PROVE  /\ Cardinality(S) \in Nat
         /\ Cardinality(S \cup {n}) = IF n \in S THEN Cardinality(S) ELSE Cardinality(S) + 1
<1>1. IsFiniteSet(S) /\ Cardinality(S) \in Nat
  BY SubsetSize
<1> QED BY <1>1, FS_AddElement

LEMMA RemoveSize ==
  ASSUME NEW k \in Nat, NEW S, S \subseteq 1 .. k, NEW n \in S
  PROVE  /\ Cardinality(S) \in Nat /\ Cardinality(S \ {n}) \in Nat
         /\ Cardinality(S \ {n}) = Cardinality(S) - 1
<1>1. IsFiniteSet(S) /\ Cardinality(S) \in Nat
  BY SubsetSize
<1>2. Cardinality(S \ {n}) \in Nat
  BY SubsetSize, S \ {n} \subseteq S
<1> QED BY <1>1, <1>2, FS_RemoveElement
-----------------------------------------------------------------------------
LEMMA InvInit == Init => IInv
<1> SUFFICES ASSUME Init PROVE IInv
  OBVIOUS
<1>1. Len(reqs) = 0 /\ Sent = {}
  BY DEF Init, Sent
<1>2. TypeOK
  BY <1>1, SendsAssumption DEF Init, TypeOK, WaitingOK
<1>3. PlaceInv /\ AnsweredInv
  BY <1>1 DEF Init, PlaceInv, AnsweredInv
<1>4. Backlog = {} /\ {n \in decoded : reqs[n] = "debug_log"} = {}
  BY DEF Init, Backlog
<1>5. BacklogBounded /\ ConfirmedInv
  BY <1>4, FS_EmptySet DEF Init, BacklogBounded, ConfirmedInv, Waiting
<1> QED BY <1>2, <1>3, <1>5 DEF IInv
-----------------------------------------------------------------------------
(* A request is transmitted: Sent grows by one, which was nowhere yet. *)
LEMMA TransmitFacts ==
  ASSUME TypeOK, NEW cmd \in {"ping", "debug_log"}, Transmit(cmd)
  PROVE  /\ reqs' \in Seq({"ping", "debug_log"}) /\ Len(reqs') = Len(reqs) + 1
         /\ Len(reqs) \in Nat /\ Len(reqs') <= MaxSends
         /\ Sent' = Sent \cup {Len(reqs')} /\ Len(reqs') \notin Sent
         /\ Sent \subseteq Sent'
         /\ \A n \in Sent : reqs'[n] = reqs[n]
         /\ up' = up \cup {Len(reqs')}
         /\ WaitingOK'
<1>1. reqs \in Seq({"ping", "debug_log"}) /\ Len(reqs) <= MaxSends
  BY DEF TypeOK
<1>2. reqs' = Append(reqs, cmd) /\ up' = up \cup {Len(reqs) + 1} /\ Len(reqs) < MaxSends
  BY DEF Transmit
<1>3. /\ reqs' \in Seq({"ping", "debug_log"}) /\ Len(reqs') = Len(reqs) + 1
      /\ Len(reqs) \in Nat /\ \A n \in Sent : reqs'[n] = reqs[n]
  BY <1>1, <1>2, AppendReqs DEF Sent
<1>4. WaitingOK'
  BY DEF Transmit, WaitingOK
<1> QED BY <1>2, <1>3, <1>4, SendsAssumption DEF Sent

(* The steps that are no step of the link and none that sends or decodes:  *)
(* either the round ends with a failed Send, or it goes on as it is.       *)
Idles == SkipTick \/ Cancelled \/ Undecodable \/ ReceiveNothing
           \/ CheckDeadline \/ DeadlinePasses

LEMMA IdleFacts ==
  ASSUME TypeOK, Idles
  PROVE  /\ WaitingOK'
         /\ UNCHANGED <<reqs, up, down, logged, replied, decoded, confirmed>>
         /\ \/ phase' = "idle" /\ failed' = failed + 1
            \/ UNCHANGED <<phase, failed>>
<1>1. CASE SkipTick
  BY <1>1 DEF SkipTick, vars, waiting, baseVars, TypeOK, WaitingOK
<1>2. CASE Cancelled \/ Undecodable
  BY <1>2 DEF Cancelled, Undecodable, Receives, Fails, Returns, baseVars, TypeOK, WaitingOK
<1>3. CASE ReceiveNothing \/ DeadlinePasses
  BY <1>3 DEF ReceiveNothing, DeadlinePasses, Receives, baseVars, TypeOK, WaitingOK
<1>4. CASE CheckDeadline
  <2>1. CASE deadline = "past"
    BY <1>4, <2>1 DEF CheckDeadline, Fails, Returns, baseVars, TypeOK, WaitingOK
  <2>2. CASE deadline # "past"
    BY <1>4, <2>2 DEF CheckDeadline, Waits, baseVars, TypeOK, WaitingOK
  <2> QED BY <2>1, <2>2
<1> QED BY <1>1, <1>2, <1>3, <1>4 DEF Idles

(* Every step is one of these, of the exchange, or of the link. *)
LEMMA Steps ==
  ASSUME [Next]_vars
  PROVE  \/ SendPing
         \/ \E n \in Sent : ReadPong(n) \/ ReadOk(n) \/ ReadMismatch(n)
         \/ Idles
         \/ \E n \in Sent : Serve(n) \/ Lose(n)
         \/ UNCHANGED vars
BY DEF Next, Receive, Idles

LEMMA TypeStep == TypeOK /\ [Next]_vars => TypeOK'
<1> SUFFICES ASSUME TypeOK, [Next]_vars PROVE TypeOK'
  OBVIOUS
<1>0. Len(reqs) \in Nat /\ Sent = 1 .. Len(reqs)
  BY DEF TypeOK, Sent
<1>1. CASE SendPing
  <2>1. Transmit("ping")
    BY <1>1 DEF SendPing
  <2> QED BY <1>1, <2>1, TransmitFacts DEF SendPing, TypeOK, baseVars
<1>2. ASSUME NEW n \in Sent, ReadPong(n) PROVE TypeOK'
  <2>1. decoded' \in SUBSET Sent /\ down' \in SUBSET Sent
    BY <1>2 DEF ReadPong, Decode, TypeOK
  <2>2. CASE Transmit("debug_log") /\ phase' = "confirm" /\ UNCHANGED failed
    BY <1>2, <2>1, <2>2, TransmitFacts DEF ReadPong, TypeOK, baseVars
  <2>3. CASE Fails
    BY <1>2, <2>1, <2>3 DEF ReadPong, Fails, Returns, TypeOK, WaitingOK, baseVars, Sent
  <2> QED BY <1>2, <2>2, <2>3 DEF ReadPong
<1>3. ASSUME NEW n \in Sent, ReadOk(n) \/ ReadMismatch(n) PROVE TypeOK'
  <2>1. /\ reqs' = reqs /\ Sent' = Sent /\ up' = up /\ logged' = logged /\ replied' = replied
        /\ phase' = "idle" /\ down' = down \ {n} /\ decoded' = decoded \cup {n}
    BY <1>3 DEF ReadOk, ReadMismatch, Decode, Fails, Returns, baseVars, Sent
  <2>2. confirmed' \in Nat /\ failed' \in Nat /\ WaitingOK'
    BY <1>3 DEF ReadOk, ReadMismatch, Fails, Returns, TypeOK, WaitingOK
  <2> QED BY <2>1, <2>2 DEF TypeOK
<1>4. CASE Idles
  <2>1. /\ WaitingOK' /\ Sent' = Sent
        /\ UNCHANGED <<reqs, up, down, logged, replied, decoded, confirmed>>
    BY <1>4, IdleFacts DEF Sent
  <2>2. phase' \in {phase, "idle"} /\ failed' \in {failed, failed + 1}
    BY <1>4, IdleFacts
  <2> QED BY <2>1, <2>2 DEF TypeOK
<1>5. ASSUME NEW n \in Sent, Serve(n) \/ Lose(n) PROVE TypeOK'
  BY <1>5 DEF Serve, Lose, TypeOK, WaitingOK, waiting, baseVars, Sent
<1>6. CASE UNCHANGED vars
  BY <1>6 DEF vars, waiting, baseVars, TypeOK, WaitingOK, Sent
<1> QED BY <1>1, <1>2, <1>3, <1>4, <1>5, <1>6, Steps

LEMMA PlaceStep == TypeOK /\ PlaceInv /\ [Next]_vars => PlaceInv'
<1> SUFFICES ASSUME TypeOK, PlaceInv, [Next]_vars PROVE PlaceInv'
  OBVIOUS
<1>0. /\ Len(reqs) \in Nat /\ Sent = 1 .. Len(reqs)
      /\ up \subseteq Sent /\ down \subseteq Sent /\ decoded \subseteq Sent /\ logged \subseteq Sent
  BY DEF TypeOK, Sent
<1>1. CASE SendPing
  <2>1. Transmit("ping")
    BY <1>1 DEF SendPing
  <2>2. up' = up \cup {Len(reqs')} /\ Len(reqs') \notin Sent /\ Sent' # {}
    BY <2>1, TransmitFacts
  <2> QED BY <1>0, <1>1, <2>2 DEF SendPing, PlaceInv, baseVars
<1>2. ASSUME NEW n \in Sent, ReadPong(n) PROVE PlaceInv'
  <2>1. n \in down /\ down' = down \ {n} /\ decoded' = decoded \cup {n}
    BY <1>2 DEF ReadPong, Decode, First
  <2>2. CASE Transmit("debug_log") /\ phase' = "confirm" /\ UNCHANGED failed
    <3>1. up' = up \cup {Len(reqs')} /\ Len(reqs') \notin Sent /\ Sent' # {}
      BY <2>2, TransmitFacts
    <3> QED BY <1>0, <1>2, <2>1, <3>1 DEF ReadPong, PlaceInv, baseVars
  <2>3. CASE Fails
    BY <1>0, <1>2, <2>1, <2>3 DEF ReadPong, Fails, Returns, PlaceInv, Sent, baseVars
  <2> QED BY <1>2, <2>2, <2>3 DEF ReadPong
<1>3. ASSUME NEW n \in Sent, ReadOk(n) \/ ReadMismatch(n) PROVE PlaceInv'
  BY <1>0, <1>3 DEF ReadOk, ReadMismatch, Fails, Returns, Decode, First, PlaceInv, Sent, baseVars
<1>4. CASE Idles
  BY <1>4, IdleFacts DEF PlaceInv, Sent, baseVars
<1>5. ASSUME NEW n \in Sent, Serve(n) \/ Lose(n) PROVE PlaceInv'
  <2>1. Sent' = Sent
    BY <1>5 DEF Serve, Lose, Sent
  <2> QED BY <1>5, <2>1 DEF Serve, Lose, First, PlaceInv, baseVars
<1>6. CASE UNCHANGED vars
  BY <1>6 DEF vars, baseVars, PlaceInv, Sent
<1> QED BY <1>1, <1>2, <1>3, <1>4, <1>5, <1>6, Steps

LEMMA AnsweredStep == IInv /\ [Next]_vars => AnsweredInv'
<1> SUFFICES ASSUME IInv, [Next]_vars, failed' = 0,
                    NEW k \in Sent'
             PROVE  k \in decoded' \/ (phase' # "idle" /\ k = Len(reqs'))
  BY DEF AnsweredInv
<1>0. /\ Len(reqs) \in Nat /\ Sent = 1 .. Len(reqs) /\ failed \in Nat
      /\ down \subseteq Sent /\ down \cap decoded = {} /\ TypeOK
  BY DEF IInv, TypeOK, PlaceInv, Sent
<1>1. CASE SendPing
  <2>1. Transmit("ping") /\ phase' = "ping" /\ phase = "idle" /\ failed = 0 /\ decoded' = decoded
    BY <1>1 DEF SendPing
  <2>2. k \in Sent \/ k = Len(reqs')
    BY <1>0, <2>1, TransmitFacts
  <2> QED BY <2>1, <2>2 DEF IInv, AnsweredInv
<1>2. ASSUME NEW n \in Sent, ReadPong(n)
      PROVE k \in decoded' \/ (phase' # "idle" /\ k = Len(reqs'))
  <2>1. n \in down /\ decoded' = decoded \cup {n}
    BY <1>2 DEF ReadPong, Decode, First
  <2>2. Transmit("debug_log") /\ phase' = "confirm" /\ failed = 0
    BY <1>0, <1>2 DEF ReadPong, Fails
  <2>3. n = Len(reqs)
    BY <1>0, <2>1, <2>2 DEF IInv, AnsweredInv
  <2>4. k \in Sent \/ k = Len(reqs')
    BY <1>0, <2>2, TransmitFacts
  <2> QED BY <2>1, <2>2, <2>3, <2>4 DEF IInv, AnsweredInv
<1>3. ASSUME NEW n \in Sent, ReadOk(n)
      PROVE k \in decoded' \/ (phase' # "idle" /\ k = Len(reqs'))
  <2>1. n \in down /\ decoded' = decoded \cup {n} /\ reqs' = reqs /\ failed = 0
    BY <1>3 DEF ReadOk, Decode, First
  <2>2. n = Len(reqs) /\ k \in Sent
    BY <1>0, <2>1 DEF IInv, AnsweredInv, Sent
  <2> QED BY <2>1, <2>2 DEF IInv, AnsweredInv
<1>4. ASSUME NEW n \in Sent, ReadMismatch(n) PROVE FALSE
  BY <1>0, <1>4 DEF ReadMismatch, Fails
<1>5. CASE Idles
  <2>1. UNCHANGED <<phase, failed, reqs, decoded>>
    BY <1>0, <1>5, IdleFacts
  <2> QED BY <2>1 DEF IInv, AnsweredInv, Sent
<1>6. ASSUME NEW n \in Sent, Serve(n) \/ Lose(n)
      PROVE k \in decoded' \/ (phase' # "idle" /\ k = Len(reqs'))
  <2>1. reqs' = reqs /\ phase' = phase /\ decoded' = decoded /\ failed = 0 /\ k \in Sent
    BY <1>0, <1>6 DEF Serve, Lose, Sent
  <2> QED BY <2>1 DEF IInv, AnsweredInv
<1>7. CASE UNCHANGED vars
  <2>1. reqs' = reqs /\ phase' = phase /\ decoded' = decoded /\ failed = 0 /\ k \in Sent
    BY <1>0, <1>7 DEF vars, Sent
  <2> QED BY <2>1 DEF IInv, AnsweredInv
<1> QED BY <1>1, <1>2, <1>3, <1>4, <1>5, <1>6, <1>7, Steps

LEMMA BacklogStep == IInv /\ [Next]_vars => BacklogBounded'
<1> SUFFICES ASSUME IInv, [Next]_vars PROVE BacklogBounded'
  OBVIOUS
<1>0. /\ TypeOK /\ Len(reqs) \in Nat /\ Backlog \subseteq 1 .. Len(reqs) /\ failed \in Nat
      /\ up \subseteq Sent /\ down \subseteq Sent /\ Sent = 1 .. Len(reqs)
      /\ up \cap down = {}
      /\ Cardinality(Backlog) <= failed + Waiting
  BY DEF IInv, TypeOK, PlaceInv, BacklogBounded, Backlog, Sent
<1>a. Cardinality(Backlog) \in Nat
  BY <1>0, SubsetSize
<1>1. CASE SendPing
  <2>1. Transmit("ping") /\ phase' = "ping" /\ phase = "idle" /\ failed' = failed /\ down' = down
    BY <1>1 DEF SendPing
  <2>2. Backlog' = Backlog \cup {Len(reqs')}
    BY <1>0, <2>1, TransmitFacts DEF Backlog
  <2>3. Cardinality(Backlog \cup {Len(reqs')})
          = IF Len(reqs') \in Backlog THEN Cardinality(Backlog) ELSE Cardinality(Backlog) + 1
    BY <1>0, AddSize
  <2>4. Cardinality(Backlog') <= Cardinality(Backlog) + 1 /\ Cardinality(Backlog') \in Nat
    BY <1>a, <2>2, <2>3
  <2> QED BY <1>0, <1>a, <2>1, <2>4 DEF BacklogBounded, Waiting
<1>2. ASSUME NEW n \in Sent, ReadPong(n) PROVE BacklogBounded'
  <2>1. n \in down /\ n \in Backlog /\ down' = down \ {n} /\ phase = "ping"
    BY <1>2 DEF ReadPong, Decode, First, Backlog
  <2>2. /\ Cardinality(Backlog \ {n}) = Cardinality(Backlog) - 1
        /\ Cardinality(Backlog \ {n}) \in Nat
    BY <1>0, <2>1, RemoveSize
  <2>3. CASE Transmit("debug_log") /\ phase' = "confirm" /\ UNCHANGED failed
    <3>1. Backlog' = (Backlog \ {n}) \cup {Len(reqs')}
      BY <1>0, <2>1, <2>3, TransmitFacts DEF Backlog
    <3>a. Backlog \ {n} \subseteq 1 .. Len(reqs)
      BY <1>0
    <3>b. Cardinality((Backlog \ {n}) \cup {Len(reqs')})
            = IF Len(reqs') \in Backlog \ {n} THEN Cardinality(Backlog \ {n})
                                              ELSE Cardinality(Backlog \ {n}) + 1
      BY <1>0, <3>a, AddSize
    <3>2. /\ Cardinality(Backlog') <= Cardinality(Backlog \ {n}) + 1
          /\ Cardinality(Backlog') \in Nat
      BY <2>2, <3>1, <3>b
    <3> QED BY <1>0, <1>a, <2>1, <2>2, <2>3, <3>2 DEF BacklogBounded, Waiting
  <2>4. CASE Fails
    <3>1. Backlog' = Backlog \ {n}
      BY <1>0, <2>1, <2>4 DEF Fails, Backlog
    <3>2. phase' = "idle" /\ failed' = failed + 1
      BY <2>4 DEF Fails, Returns
    <3> QED BY <1>0, <1>a, <2>1, <2>2, <3>1, <3>2 DEF BacklogBounded, Waiting
  <2> QED BY <1>2, <2>3, <2>4 DEF ReadPong
<1>3. ASSUME NEW n \in Sent, ReadOk(n) \/ ReadMismatch(n) PROVE BacklogBounded'
  <2>1. /\ n \in Backlog /\ Backlog' = Backlog \ {n} /\ phase # "idle" /\ phase' = "idle"
        /\ failed' \in {failed, failed + 1}
    BY <1>0, <1>3 DEF ReadOk, ReadMismatch, Fails, Returns, Decode, First, Backlog
  <2>2. /\ Cardinality(Backlog') = Cardinality(Backlog) - 1
        /\ Cardinality(Backlog') \in Nat
    BY <1>0, <2>1, RemoveSize
  <2> QED BY <1>0, <1>a, <2>1, <2>2 DEF BacklogBounded, Waiting
<1>4. CASE Idles
  <2>1. Backlog' = Backlog
    BY <1>0, <1>4, IdleFacts DEF Backlog
  <2>2. \/ phase' = "idle" /\ failed' = failed + 1
        \/ UNCHANGED <<phase, failed>>
    BY <1>0, <1>4, IdleFacts
  <2> QED BY <1>0, <1>a, <2>1, <2>2 DEF BacklogBounded, Waiting
<1>5. ASSUME NEW n \in Sent, Serve(n) \/ Lose(n) PROVE BacklogBounded'
  <2>1. Backlog' \subseteq Backlog /\ failed' = failed /\ phase' = phase
    BY <1>5 DEF Serve, Lose, First, Backlog
  <2>2. Cardinality(Backlog') <= Cardinality(Backlog) /\ Cardinality(Backlog') \in Nat
    BY <1>0, <2>1, SubsetSize
  <2> QED BY <1>0, <1>a, <2>1, <2>2 DEF BacklogBounded, Waiting
<1>6. CASE UNCHANGED vars
  BY <1>0, <1>6 DEF vars, BacklogBounded, Backlog, Waiting
<1> QED BY <1>1, <1>2, <1>3, <1>4, <1>5, <1>6, Steps

LEMMA ConfirmedStep == IInv /\ [Next]_vars => ConfirmedInv'
<1> DEFINE C == {n \in decoded : reqs[n] = "debug_log"}
<1> SUFFICES ASSUME IInv, [Next]_vars PROVE ConfirmedInv'
  OBVIOUS
<1>b. confirmed <= Cardinality(C)
  BY DEF IInv, ConfirmedInv
<1>0. /\ TypeOK /\ Len(reqs) \in Nat /\ C \subseteq 1 .. Len(reqs) /\ confirmed \in Nat
      /\ decoded \subseteq Sent /\ Sent = 1 .. Len(reqs) /\ down \cap decoded = {}
      /\ confirmed <= Cardinality(C)
  <2> HIDE DEF C
  <2>1. C \subseteq decoded
    BY DEF C
  <2> QED BY <1>b, <2>1 DEF IInv, TypeOK, PlaceInv, Sent
<1>a. Cardinality(C) \in Nat
  BY <1>0, SubsetSize
<1>1. CASE SendPing
  <2>1. Transmit("ping") /\ decoded' = decoded /\ confirmed' = confirmed
    BY <1>1 DEF SendPing
  <2>2. C' = C
    BY <1>0, <2>1, TransmitFacts
  <2> QED BY <1>0, <2>1, <2>2 DEF ConfirmedInv
<1>2. ASSUME NEW n \in Sent, ReadPong(n) PROVE ConfirmedInv'
  <2>1. /\ decoded' = decoded \cup {n} /\ reqs[n] = "ping" /\ confirmed' = confirmed
        /\ Transmit("debug_log") \/ reqs' = reqs
    BY <1>2 DEF ReadPong, Fails, Decode
  <2>2. \A m \in Sent : reqs'[m] = reqs[m]
    BY <1>0, <2>1, TransmitFacts
  <2>3. C' = C
    BY <1>0, <2>1, <2>2
  <2> QED BY <1>0, <2>1, <2>3 DEF ConfirmedInv
<1>3. ASSUME NEW n \in Sent, ReadOk(n) PROVE ConfirmedInv'
  <2>1. /\ n \in down /\ decoded' = decoded \cup {n} /\ reqs[n] = "debug_log"
        /\ reqs' = reqs /\ confirmed' = confirmed + 1
    BY <1>3 DEF ReadOk, Decode, First
  <2>2. C' = C \cup {n} /\ n \notin C
    BY <1>0, <2>1
  <2>3. Cardinality(C') = Cardinality(C) + 1
    BY <1>0, <2>2, AddSize
  <2> QED BY <1>0, <1>a, <2>1, <2>3 DEF ConfirmedInv
<1>4. ASSUME NEW n \in Sent, ReadMismatch(n) PROVE ConfirmedInv'
  <2>1. decoded' = decoded \cup {n} /\ reqs' = reqs /\ confirmed' = confirmed
    BY <1>4 DEF ReadMismatch, Fails, Decode
  <2>2. C \subseteq C' /\ C' \subseteq 1 .. Len(reqs)
    BY <1>0, <2>1
  <2>3. Cardinality(C) <= Cardinality(C') /\ Cardinality(C') \in Nat
    BY <1>0, <2>2, SubsetSize
  <2> QED BY <1>0, <1>a, <2>1, <2>3 DEF ConfirmedInv
<1>5. CASE Idles
  BY <1>0, <1>5, IdleFacts DEF ConfirmedInv
<1>6. ASSUME NEW n \in Sent, Serve(n) \/ Lose(n) PROVE ConfirmedInv'
  BY <1>0, <1>6 DEF Serve, Lose, ConfirmedInv
<1>7. CASE UNCHANGED vars
  BY <1>0, <1>7 DEF vars, ConfirmedInv
<1> QED BY <1>1, <1>2, <1>3, <1>4, <1>5, <1>6, <1>7, Steps
-----------------------------------------------------------------------------
(* The inductive invariant holds for any number of requests. *)
THEOREM Invariance == Spec => []IInv
<1>1. IInv /\ [Next]_vars => IInv'
  BY TypeStep, PlaceStep, AnsweredStep, BacklogStep, ConfirmedStep DEF IInv
<1> QED BY InvInit, <1>1, PTL DEF Spec

(* However long the keepalive runs, late answers come from failed Sends. *)
THEOREM BoundedBacklog == Spec => []BacklogBounded
<1>1. IInv => BacklogBounded
  BY DEF IInv
<1> QED BY <1>1, Invariance, PTL

(* As long as no Send has failed, the debug_log request in the base's log  *)
(* proves that the drone decoded the pong before it.                       *)
THEOREM CausalProof == Spec => []CausalUntilFailure
<1>1. IInv => CausalUntilFailure
  <2> SUFFICES ASSUME IInv, failed = 0, NEW n \in Sent, NEW m \in Sent, ConfirmsPing(n, m)
               PROVE  m \in decoded
    BY DEF CausalUntilFailure, ProofIsCausal
  <2>1. m < n /\ n \in 1 .. Len(reqs) /\ Len(reqs) \in Nat
    BY DEF IInv, TypeOK, Sent, ConfirmsPing
  <2> QED BY <2>1 DEF IInv, AnsweredInv, Sent
<1> QED BY <1>1, Invariance, PTL

(* No round is confirmed without a debug_log of its own at the base. *)
THEOREM LoggedConfirmations == Spec => []ConfirmedAreLogged
<1>1. IInv => ConfirmedAreLogged
  <2> SUFFICES ASSUME IInv PROVE ConfirmedAreLogged
    OBVIOUS
  <2> DEFINE C == {n \in decoded : reqs[n] = "debug_log"}
             L == {n \in logged : reqs[n] = "debug_log"}
  <2>a. confirmed <= Cardinality(C)
    BY DEF IInv, ConfirmedInv
  <2>b. /\ decoded \subseteq logged /\ logged \subseteq 1 .. Len(reqs) /\ Len(reqs) \in Nat
        /\ confirmed \in Nat
    BY DEF IInv, TypeOK, PlaceInv, Sent
  <2>1. /\ C \subseteq L /\ L \subseteq 1 .. Len(reqs) /\ Len(reqs) \in Nat
        /\ confirmed \in Nat
    BY <2>b
  <2>2. /\ Cardinality(C) <= Cardinality(L)
        /\ Cardinality(C) \in Nat /\ Cardinality(L) \in Nat
    BY <2>1, SubsetSize
  <2> QED BY <2>a, <2>1, <2>2 DEF ConfirmedAreLogged
<1> QED BY <1>1, Invariance, PTL
=============================================================================
