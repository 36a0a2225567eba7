-------------------------- MODULE CommandPathProofs --------------------------
(***************************************************************************)
(* Proofs about CommandDelivery, ControllerSource and their composition    *)
(* CommandPath, for every number of connections and commands, every queue  *)
(* capacity, every pad and every number of faults and restarts.            *)
(***************************************************************************)
EXTENDS CommandPath, SequenceTheorems, FiniteSetTheorems, TLAPS

(* A sequence of commands holds commands. *)
LEMMA SeqFacts ==
  ASSUME NEW s \in Seq(Command)
  PROVE  /\ DOMAIN s = 1 .. Len(s) /\ Len(s) \in Nat
         /\ \A i \in DOMAIN s : s[i] \in Command
  OBVIOUS

(* What Tail does to the positions of a sequence. *)
LEMMA TailFacts ==
  ASSUME NEW s \in Seq(Command), s # <<>>
  PROVE  /\ Head(s) \in Command /\ Head(s) = s[1]
         /\ Tail(s) \in Seq(Command) /\ Len(Tail(s)) = Len(s) - 1
         /\ \A i \in 1 .. Len(Tail(s)) : i + 1 \in 1 .. Len(s) /\ Tail(s)[i] = s[i + 1]
  OBVIOUS

(* What Append does to the positions of a sequence. *)
LEMMA AppendFacts ==
  ASSUME NEW s \in Seq(Command), NEW e \in Command
  PROVE  /\ Append(s, e) \in Seq(Command) /\ Len(Append(s, e)) = Len(s) + 1
         /\ \A i \in 1 .. Len(s) : Append(s, e)[i] = s[i]
         /\ Append(s, e)[Len(s) + 1] = e
  OBVIOUS

(* The connection table keeps its type when one entry is replaced. *)
LEMMA ConnUpdate ==
  ASSUME NEW f \in [Conns -> Connection], NEW c \in Conns, NEW r \in Connection
  PROVE  [f EXCEPT ![c] = r] \in [Conns -> Connection]
  OBVIOUS

LEMMA IdleType == Idle \in Connection
  BY DeliveryAssumption DEF Idle, Connection, Stage

(* Hanging up keeps the types of what it changes. *)
LEMMA HangUpType ==
  ASSUME TypeOK, cur \in Conns, HangUp
  PROVE  /\ conn' \in [Conns -> Connection]
         /\ cur' \in Conns \cup {NoConn} /\ suspect' \in BOOLEAN
  BY IdleType DEF TypeOK, HangUp

(* Dialling keeps the types of what it changes. *)
LEMMA DialType ==
  ASSUME TypeOK, NEW c \in Conns, NEW cmd \in {"next_command", "controller_ack"},
         NEW arg \in 0 .. MaxCommands, Dial(c, cmd, arg)
  PROVE  /\ conn' \in [Conns -> Connection]
         /\ cur' \in Conns \cup {NoConn} /\ suspect' \in BOOLEAN
<1>1. [stage |-> "decode", cmd |-> cmd, arg |-> arg] \in Connection
  BY DEF Connection, Stage
<1> QED BY <1>1 DEF TypeOK, Dial

LEMMA TypeInit == Init => TypeOK
<1> SUFFICES ASSUME Init PROVE TypeOK
  OBVIOUS
<1>1. conn \in [Conns -> Connection]
  BY IdleType DEF Init
<1>2. <<>> \in Seq(Command) /\ Len(<<>>) = 0
  OBVIOUS
<1>3. Len(queue) <= QueueCap
  BY <1>2, DeliveryAssumption DEF Init
<1>4. 0 \in 0 .. MaxCommands /\ 0 \in 0 .. MaxRestarts /\ 0 \in Nat
  BY DeliveryAssumption
<1> QED BY <1>1, <1>2, <1>3, <1>4, Zenon DEF Init, TypeOK

(* A handler's entry keeps its type when its stage, its argument or both   *)
(* change.                                                                 *)
LEMMA ConnStep ==
  ASSUME TypeOK, NEW c \in Conns, NEW st \in Stage, NEW a \in 0 .. MaxCommands
  PROVE  /\ [conn EXCEPT ![c].stage = st] \in [Conns -> Connection]
         /\ [conn EXCEPT ![c].stage = st, ![c].arg = a] \in [Conns -> Connection]
<1>1. conn[c] \in Connection
  BY DEF TypeOK
<1>2. /\ [conn[c] EXCEPT !.stage = st] \in Connection
      /\ [conn[c] EXCEPT !.stage = st, !.arg = a] \in Connection
  BY <1>1 DEF Connection
<1>3. /\ [conn EXCEPT ![c].stage = st] = [conn EXCEPT ![c] = [conn[c] EXCEPT !.stage = st]]
      /\ [conn EXCEPT ![c].stage = st, ![c].arg = a]
           = [conn EXCEPT ![c] = [conn[c] EXCEPT !.stage = st, !.arg = a]]
  BY DEF TypeOK
<1> QED BY <1>2, <1>3 DEF TypeOK

LEMMA TypeStep == TypeOK /\ PollerInv /\ [Next]_vars => TypeOK'
<1> SUFFICES ASSUME TypeOK, PollerInv, [Next]_vars PROVE TypeOK'
  OBVIOUS
<1> USE DeliveryAssumption
<1>0. Stage = {"free", "decode", "select", "write", "sent", "closed"}
  BY DEF Stage
<1>1. CASE EnqueueControllerCommand
  <2>1. issued' \in 0 .. MaxCommands /\ issued + 1 \in Command
    BY <1>1 DEF TypeOK, EnqueueControllerCommand, Command
  <2>2. queue' \in Seq(Command) /\ Len(queue') <= QueueCap /\ dropped' \subseteq Command
    <3>1. CASE Len(queue) < QueueCap
      <4>1. queue' = Append(queue, issued + 1) /\ dropped' = dropped
        BY <1>1, <3>1 DEF TypeOK, EnqueueControllerCommand
      <4> QED BY <2>1, <3>1, <4>1, AppendFacts DEF TypeOK
    <3>2. CASE Len(queue) >= QueueCap
      <4>1. queue' = queue /\ dropped' = dropped \cup {issued + 1}
        BY <1>1, <3>2 DEF TypeOK, EnqueueControllerCommand
      <4> QED BY <2>1, <4>1 DEF TypeOK
    <3> QED BY <1>1, <3>1, <3>2 DEF EnqueueControllerCommand
  <2> QED BY <1>1, <2>1, <2>2, Zenon DEF TypeOK, EnqueueControllerCommand, pollerVars
<1>2. ASSUME NEW c \in Conns, HandleRequest(c) PROVE TypeOK'
  <2>1. conn' \in [Conns -> Connection]
    <3>1. /\ [conn EXCEPT ![c].stage = "select"] \in [Conns -> Connection]
          /\ [conn EXCEPT ![c].stage = "write", ![c].arg = 0] \in [Conns -> Connection]
      BY ConnStep, <1>0, 0 \in 0 .. MaxCommands
    <3> QED BY <1>2, <3>1, Zenon DEF HandleRequest
  <2>2. ackLog' \in Seq(Command)
    <3>1. conn[c] \in Connection
      BY DEF TypeOK
    <3>2. CASE conn[c].cmd = "controller_ack"
      <4>1. conn[c].arg \in Command
        BY <1>2, <3>1, <3>2 DEF PollerInv, HandleRequest, Connection, Command
      <4>2. ackLog' = Append(ackLog, conn[c].arg)
        BY <1>2, <3>2 DEF HandleRequest
      <4> QED BY <4>1, <4>2, AppendFacts, Zenon DEF TypeOK
    <3> QED BY <1>2, <3>2 DEF TypeOK, HandleRequest
  <2> QED BY <1>2, <2>1, <2>2, Zenon DEF TypeOK, HandleRequest, pollerVars
<1>3. ASSUME NEW c \in Conns, DecodeFails(c) PROVE TypeOK'
  <2>1. conn' \in [Conns -> Connection]
    BY <1>3, IdleType DEF TypeOK, DecodeFails
  <2> QED BY <1>3, <2>1, Zenon DEF TypeOK, DecodeFails, baseVars, pollerVars
<1>4. ASSUME NEW c \in Conns, NextControllerCommand(c) PROVE TypeOK'
  <2>1. /\ Head(queue) \in Command
        /\ queue' \in Seq(Command) /\ Len(queue') <= QueueCap
    BY <1>4, TailFacts DEF TypeOK, NextControllerCommand
  <2>2. (IF Head(queue) \in Unmarshalable THEN 0 ELSE Head(queue)) \in 0 .. MaxCommands
    BY <2>1 DEF Command
  <2>3. conn' \in [Conns -> Connection]
    BY <1>4, <2>2, ConnStep, <1>0 DEF NextControllerCommand
  <2> QED BY <1>4, <2>1, <2>3, Zenon DEF TypeOK, NextControllerCommand, pollerVars
<1>5. ASSUME NEW c \in Conns, LongPollEnds(c) PROVE TypeOK'
  <2>1. conn' \in [Conns -> Connection]
    BY <1>5, ConnStep, <1>0, 0 \in 0 .. MaxCommands DEF LongPollEnds
  <2> QED BY <1>5, <2>1, Zenon DEF TypeOK, LongPollEnds, baseVars, pollerVars
<1>6. ASSUME NEW c \in Conns, WriteReply(c) PROVE TypeOK'
  <2>1. (IF conn[c].arg \in Oversized THEN "closed" ELSE "sent") \in Stage
    BY <1>0
  <2>2. conn' \in [Conns -> Connection]
    <3>1. CASE conn' = [conn EXCEPT ![c] = Idle]
      BY <3>1, IdleType DEF TypeOK
    <3>2. CASE conn' = [conn EXCEPT ![c].stage = IF conn[c].arg \in Oversized
                                                 THEN "closed" ELSE "sent"]
      BY <3>2, <2>1, ConnStep, 0 \in 0 .. MaxCommands
    <3> QED BY <1>6, <3>1, <3>2, Zenon DEF WriteReply
  <2> QED BY <1>6, <2>2, Zenon DEF TypeOK, WriteReply, baseVars, pollerVars
<1>7. ASSUME NEW c \in Conns, PollNextCommand(c) PROVE TypeOK'
  <2>1. /\ conn' \in [Conns -> Connection]
        /\ cur' \in Conns \cup {NoConn} /\ suspect' \in BOOLEAN
    BY <1>7, DialType DEF PollNextCommand
  <2> QED BY <1>7, <2>1, Zenon DEF TypeOK, PollNextCommand, baseVars
<1>8. ASSUME NEW c \in Conns, SendAck(c) PROVE TypeOK'
  <2>1. /\ conn' \in [Conns -> Connection]
        /\ cur' \in Conns \cup {NoConn} /\ suspect' \in BOOLEAN
    BY <1>8, DialType DEF SendAck, TypeOK
  <2> QED BY <1>8, <2>1, Zenon DEF TypeOK, SendAck, baseVars
<1>9. CASE RestartBase
  <2>1. conn' \in [Conns -> Connection]
    <3>1. ASSUME NEW c \in Conns
          PROVE  [conn[c] EXCEPT !.stage = "closed"] \in Connection
      BY DEF TypeOK, Connection, Stage
    <3> QED BY <1>9, <3>1, IdleType DEF RestartBase
  <2>2. queue' \in Seq(Command) /\ Len(queue') <= QueueCap
    BY <1>9 DEF RestartBase
  <2>3. baseRestarts' \in 0 .. MaxRestarts
    BY <1>9 DEF RestartBase, TypeOK
  <2> QED BY <1>9, <2>1, <2>2, <2>3, Zenon DEF TypeOK, RestartBase, pollerVars
<1>10. CASE ReadReply
  <2>1. cur \in Conns /\ conn[cur] \in Connection
    BY <1>10 DEF TypeOK, PollerInv, ReadReply
  <2>2. /\ conn' \in [Conns -> Connection]
        /\ cur' \in Conns \cup {NoConn} /\ suspect' \in BOOLEAN
    BY <1>10, <2>1, HangUpType DEF ReadReply
  <2>3. received' \in Seq(Command) /\ taken' \in 0 .. MaxCommands
    <3>1. CASE conn[cur].arg = 0
      BY <1>10, <3>1 DEF ReadReply, TypeOK
    <3>2. CASE conn[cur].arg # 0
      <4>1. conn[cur].arg \in Command /\ conn[cur].arg \in 0 .. MaxCommands
        BY <2>1, <3>2 DEF Connection, Command
      <4>2. received' = Append(received, conn[cur].arg) /\ taken' = conn[cur].arg
        BY <1>10, <3>2 DEF ReadReply
      <4> QED BY <4>1, <4>2, AppendFacts DEF TypeOK
    <3> QED BY <3>1, <3>2
  <2>4. poller' \in {"poll", "await", "ack", "ackwait"}
    BY <1>10 DEF ReadReply
  <2> QED BY <1>10, <2>2, <2>3, <2>4, Zenon DEF TypeOK, ReadReply, baseVars
<1>11. CASE PollFails
  <2>1. cur \in Conns
    BY <1>11 DEF TypeOK, PollerInv, PollFails
  <2>2. /\ conn' \in [Conns -> Connection]
        /\ cur' \in Conns \cup {NoConn} /\ suspect' \in BOOLEAN
    BY <1>11, <2>1, HangUpType DEF PollFails
  <2>3. abandoned' \in Nat
    BY <1>11 DEF PollFails, TypeOK
  <2> QED BY <1>11, <2>2, <2>3, Zenon DEF TypeOK, PollFails, baseVars
<1>12. CASE AckDialFails
  BY <1>12, 0 \in 0 .. MaxCommands, Zenon DEF TypeOK, AckDialFails, baseVars
<1>13. CASE AckEnds
  <2>1. cur \in Conns
    BY <1>13 DEF TypeOK, PollerInv, AckEnds
  <2>2. /\ conn' \in [Conns -> Connection]
        /\ cur' \in Conns \cup {NoConn} /\ suspect' \in BOOLEAN
    BY <1>13, <2>1, HangUpType DEF AckEnds
  <2> QED BY <1>13, <2>2, 0 \in 0 .. MaxCommands, Zenon DEF TypeOK, AckEnds, baseVars
<1>14. CASE CheckWiFi \/ StoreStatus
  <2>1. check' \in {"none", "good", "suspect"}
    BY <1>14 DEF CheckWiFi, StoreStatus
  <2>2. status' \in BOOLEAN
    BY <1>14, Zenon DEF CheckWiFi, StoreStatus, TypeOK
  <2> QED BY <1>14, <2>1, <2>2, Zenon DEF TypeOK, CheckWiFi, StoreStatus, baseVars, pollerVars
<1>15. CASE RestartDrone
  <2>1. /\ conn' \in [Conns -> Connection]
        /\ cur' \in Conns \cup {NoConn} /\ suspect' \in BOOLEAN
    <3>1. CASE cur # NoConn /\ HangUp
      BY <3>1, HangUpType DEF TypeOK
    <3>2. CASE cur = NoConn /\ UNCHANGED <<conn, cur, suspect>>
      BY <3>2, Zenon DEF TypeOK
    <3> QED BY <1>15, <3>1, <3>2 DEF RestartDrone
  <2>2. abandoned' \in Nat /\ droneRestarts' \in 0 .. MaxRestarts
    BY <1>15 DEF RestartDrone, TypeOK
  <2> QED BY <1>15, <2>1, <2>2, 0 \in 0 .. MaxCommands, Zenon DEF TypeOK, RestartDrone, baseVars
<1>16. CASE LinkFails
  <2>1. suspect' \in BOOLEAN
    BY <1>16, Zenon DEF LinkFails
  <2>2. check' \in {"none", "good", "suspect"}
    BY <1>16 DEF LinkFails
  <2> QED BY <1>16, <2>1, <2>2, Zenon DEF TypeOK, LinkFails, baseVars
<1>17. CASE LinkRecovers
  BY <1>17, Zenon DEF TypeOK, LinkRecovers, baseVars, pollerVars
<1>18. CASE UNCHANGED vars
  BY <1>18, Zenon DEF TypeOK, vars, baseVars, pollerVars
<1> QED
  BY <1>1, <1>2, <1>3, <1>4, <1>5, <1>6, <1>7, <1>8, <1>9, <1>10, <1>11, <1>12,
     <1>13, <1>14, <1>15, <1>16, <1>17, <1>18 DEF Next

LEMMA PollerStep == TypeOK /\ PollerInv /\ [Next]_vars => PollerInv'
<1> SUFFICES ASSUME TypeOK, PollerInv, [Next]_vars PROVE PollerInv'
  OBVIOUS
<1>0. /\ conn \in [Conns -> Connection] /\ NoConn \notin Conns
      /\ cur \in Conns \cup {NoConn}
      /\ poller \in {"poll", "await", "ack", "ackwait"}
  BY DeliveryAssumption DEF TypeOK
<1> USE <1>0 DEF PollerInv
<1>1. CASE EnqueueControllerCommand
  BY <1>1 DEF EnqueueControllerCommand, pollerVars
<1>2. ASSUME NEW c \in Conns, HandleRequest(c) PROVE PollerInv'
  <2>1. CASE conn[c].cmd = "next_command"
    <3>1. conn' = [conn EXCEPT ![c].stage = "select"]
      BY <1>2, <2>1 DEF HandleRequest
    <3> QED BY <1>2, <2>1, <3>1 DEF HandleRequest, pollerVars
  <2>2. CASE conn[c].cmd = "controller_ack"
    <3>1. conn' = [conn EXCEPT ![c].stage = "write", ![c].arg = 0]
      BY <1>2, <2>2 DEF HandleRequest
    <3> QED BY <1>2, <2>2, <3>1 DEF HandleRequest, pollerVars
  <2> QED BY <1>2, <2>1, <2>2 DEF HandleRequest
<1>3. ASSUME NEW c \in Conns, DecodeFails(c) PROVE PollerInv'
  BY <1>3 DEF DecodeFails, pollerVars, Idle
<1>4. ASSUME NEW c \in Conns, NextControllerCommand(c) PROVE PollerInv'
  BY <1>4 DEF NextControllerCommand, pollerVars
<1>5. ASSUME NEW c \in Conns, LongPollEnds(c) PROVE PollerInv'
  BY <1>5 DEF LongPollEnds, pollerVars
<1>6. ASSUME NEW c \in Conns, WriteReply(c) PROVE PollerInv'
  <2>1. CASE c # cur
    BY <1>6, <2>1 DEF WriteReply, pollerVars, Idle
  <2>2. CASE c = cur
    <3>1. PICK st \in {"closed", "sent"} : conn' = [conn EXCEPT ![c].stage = st]
      BY <1>6, <2>2 DEF WriteReply
    <3> QED BY <1>6, <2>2, <3>1 DEF WriteReply, pollerVars
  <2> QED BY <2>1, <2>2
<1>7. ASSUME NEW c \in Conns, PollNextCommand(c) PROVE PollerInv'
  BY <1>7 DEF PollNextCommand, Dial
<1>8. ASSUME NEW c \in Conns, SendAck(c) PROVE PollerInv'
  BY <1>8 DEF SendAck, Dial
<1>9. CASE RestartBase
  BY <1>9 DEF RestartBase, pollerVars, Idle
<1>10. CASE ReadReply
  BY <1>10 DEF ReadReply, HangUp, Idle
<1>11. CASE PollFails
  BY <1>11 DEF PollFails, HangUp, Idle
<1>12. CASE AckDialFails
  BY <1>12 DEF AckDialFails
<1>13. CASE AckEnds
  BY <1>13 DEF AckEnds, HangUp, Idle
<1>14. CASE CheckWiFi \/ StoreStatus
  BY <1>14 DEF CheckWiFi, StoreStatus, pollerVars
<1>15. CASE RestartDrone
  BY <1>15 DEF RestartDrone, HangUp, Idle
<1>16. CASE LinkFails
  BY <1>16 DEF LinkFails
<1>17. CASE LinkRecovers
  BY <1>17 DEF LinkRecovers, pollerVars
<1>18. CASE UNCHANGED vars
  BY <1>18 DEF vars, pollerVars
<1> QED
  BY <1>1, <1>2, <1>3, <1>4, <1>5, <1>6, <1>7, <1>8, <1>9, <1>10, <1>11, <1>12,
     <1>13, <1>14, <1>15, <1>16, <1>17, <1>18 DEF Next

(* A step that brings no new command into a reply keeps the order. *)
LEMMA OrderFrame ==
  ASSUME OrderInv, UNCHANGED <<queue, received, issued>>, InReply' \subseteq InReply
  PROVE  OrderInv'
  BY DEF OrderInv, Increasing

(* Without a connection, or on one just dialled or closed, there is no reply. *)
LEMMA NoReply ==
  /\ cur = NoConn => InReply = {}
  /\ (cur # NoConn /\ conn[cur].stage \in {"free", "decode", "select", "closed"})
       => InReply = {}
  BY DEF InReply

LEMMA InReplyType == ASSUME TypeOK PROVE InReply \subseteq Command
<1>1. CASE cur = NoConn
  BY <1>1, NoReply
<1>2. CASE cur # NoConn
  <2>1. conn[cur] \in Connection
    BY <1>2 DEF TypeOK
  <2> QED BY <2>1 DEF InReply, Connection, Command
<1> QED BY <1>1, <1>2

(* Handling a request puts no command into a reply, *)
LEMMA ReplyOfHandleRequest ==
  ASSUME TypeOK, NEW c \in Conns, HandleRequest(c)
  PROVE  InReply' \subseteq InReply
<1>0. conn \in [Conns -> Connection] /\ cur \in Conns \cup {NoConn}
  BY DEF TypeOK
<1>1. CASE c = cur
  <2>1. conn[c].cmd = "next_command" => conn' = [conn EXCEPT ![c].stage = "select"]
    BY DEF HandleRequest
  <2>2. conn[c].cmd = "controller_ack"
          => conn' = [conn EXCEPT ![c].stage = "write", ![c].arg = 0]
    BY DEF HandleRequest
  <2>3. conn[c].cmd \in {"next_command", "controller_ack"} /\ cur' = cur
    BY <1>0 DEF Connection, HandleRequest, pollerVars
  <2>4. CASE conn[c].cmd = "next_command"
    <3>1. conn'[c].stage = "select"
      BY <1>0, <2>1, <2>4 DEF Connection
    <3> QED BY <1>1, <2>3, <3>1 DEF InReply
  <2>5. CASE conn[c].cmd = "controller_ack"
    <3>1. conn'[c].cmd = "controller_ack"
      BY <1>0, <2>2, <2>5 DEF Connection
    <3> QED BY <1>1, <2>3, <3>1 DEF InReply
  <2> QED BY <2>3, <2>4, <2>5
<1>2. CASE c # cur
  BY <1>0, <1>2 DEF HandleRequest, pollerVars, InReply
<1> QED BY <1>1, <1>2

(* nor does writing the reply, *)
LEMMA ReplyOfWriteReply ==
  ASSUME TypeOK, NEW c \in Conns, WriteReply(c)
  PROVE  InReply' \subseteq InReply
<1>0. conn \in [Conns -> Connection] /\ cur \in Conns \cup {NoConn}
  BY DEF TypeOK
<1>1. CASE c # cur
  BY <1>0, <1>1 DEF WriteReply, pollerVars, InReply
<1>2. CASE c = cur
  <2>1. PICK st \in {"closed", "sent"} : conn' = [conn EXCEPT ![c].stage = st]
    BY <1>2 DEF WriteReply
  <2> QED BY <1>0, <1>2, <2>1 DEF WriteReply, pollerVars, InReply
<1> QED BY <1>1, <1>2

(* and taking a command puts at most that one there. *)
LEMMA ReplyOfNextCommand ==
  ASSUME TypeOK, NEW c \in Conns, NextControllerCommand(c)
  PROVE  InReply' \subseteq InReply \cup {Head(queue)}
<1>0. conn \in [Conns -> Connection] /\ cur \in Conns \cup {NoConn}
  BY DEF TypeOK
<1>1. CASE c = cur
  <2>1. conn'[c].arg \in {0, Head(queue)} /\ cur' = cur
    BY <1>0 DEF NextControllerCommand, pollerVars, Connection
  <2> QED BY <1>1, <2>1 DEF InReply
<1>2. CASE c # cur
  BY <1>0, <1>2 DEF NextControllerCommand, pollerVars, InReply
<1> QED BY <1>1, <1>2

LEMMA OrderStep == TypeOK /\ PollerInv /\ OrderInv /\ [Next]_vars => OrderInv'
<1> SUFFICES ASSUME TypeOK, PollerInv, OrderInv, [Next]_vars PROVE OrderInv'
  OBVIOUS
<1>0. /\ conn \in [Conns -> Connection] /\ NoConn \notin Conns
      /\ cur \in Conns \cup {NoConn}
      /\ queue \in Seq(Command) /\ received \in Seq(Command) /\ issued \in Nat
      /\ Command \subseteq Nat
  BY DeliveryAssumption DEF TypeOK, Command
<1>a. /\ \A i \in DOMAIN queue : queue[i] \in Nat
      /\ \A i \in DOMAIN received : received[i] \in Nat
      /\ \A n \in InReply : n \in Nat
  BY <1>0, InReplyType, SeqFacts
<1> USE <1>0
<1>1. CASE EnqueueControllerCommand
  <2>1. InReply' = InReply /\ received' = received /\ issued' = issued + 1
    BY <1>1 DEF EnqueueControllerCommand, pollerVars, InReply
  <2>2. CASE queue' = queue
    BY <1>a, <2>1, <2>2 DEF OrderInv, Increasing
  <2>3. CASE queue' = Append(queue, issued + 1)
    <3>1. issued + 1 \in Command
      BY <1>1, DeliveryAssumption DEF EnqueueControllerCommand, TypeOK, Command
    <3>2. /\ DOMAIN queue' = 1 .. Len(queue) + 1 /\ DOMAIN queue = 1 .. Len(queue)
          /\ queue'[Len(queue) + 1] = issued + 1
          /\ \A i \in 1 .. Len(queue) : queue'[i] = queue[i] /\ queue'[i] <= issued
          /\ Len(queue) \in Nat
      BY <2>3, <3>1, AppendFacts DEF OrderInv
    <3>3. Increasing(queue)'
      BY <1>a, <3>2 DEF OrderInv, Increasing
    <3>4. /\ \A i \in DOMAIN queue' : queue'[i] <= issued'
          /\ \A i \in DOMAIN received, j \in DOMAIN queue' : received[i] < queue'[j]
          /\ \A n \in InReply, j \in DOMAIN queue' : n < queue'[j]
      <4>1. ASSUME NEW j \in DOMAIN queue'
            PROVE  /\ queue'[j] <= issued'
                   /\ \A i \in DOMAIN received : received[i] < queue'[j]
                   /\ \A n \in InReply : n < queue'[j]
        <5>1. CASE j \in 1 .. Len(queue)
          BY <1>a, <2>1, <3>2, <5>1 DEF OrderInv
        <5>2. CASE j = Len(queue) + 1
          BY <1>a, <2>1, <3>2, <5>2 DEF OrderInv
        <5> QED BY <3>2, <5>1, <5>2
      <4> QED BY <4>1
    <3> QED BY <1>a, <2>1, <3>3, <3>4 DEF OrderInv, Increasing
  <2> QED BY <1>1, <2>2, <2>3 DEF EnqueueControllerCommand
<1>2. ASSUME NEW c \in Conns, HandleRequest(c) PROVE OrderInv'
  <2>1. InReply' \subseteq InReply
    BY <1>2, ReplyOfHandleRequest
  <2> QED BY <1>2, <2>1, OrderFrame DEF HandleRequest, pollerVars
<1>3. ASSUME NEW c \in Conns, DecodeFails(c) PROVE OrderInv'
  <2>1. InReply' \subseteq InReply
    BY <1>3 DEF DecodeFails, pollerVars, InReply
  <2> QED BY <1>3, <2>1, OrderFrame DEF DecodeFails, baseVars, pollerVars
<1>4. ASSUME NEW c \in Conns, NextControllerCommand(c) PROVE OrderInv'
  <2>1. /\ queue' \in Seq(Command) /\ Head(queue) = queue[1] /\ Head(queue) \in Command
        /\ DOMAIN queue' = 1 .. Len(queue) - 1 /\ DOMAIN queue = 1 .. Len(queue)
        /\ \A i \in DOMAIN queue' : i + 1 \in DOMAIN queue /\ queue'[i] = queue[i + 1]
        /\ 1 \in DOMAIN queue
        /\ received' = received /\ issued' = issued
    BY <1>4, TailFacts DEF NextControllerCommand, pollerVars
  <2>2. \A i \in DOMAIN queue' : Head(queue) < queue'[i]
    BY <2>1 DEF OrderInv, Increasing
  <2>3. Increasing(queue)'
    BY <2>1 DEF OrderInv, Increasing
  <2>4. InReply' \subseteq InReply \cup {Head(queue)}
    BY <1>4, ReplyOfNextCommand
  <2>5. \A j \in DOMAIN queue' : \A n \in InReply : n < queue'[j]
    BY <2>1 DEF OrderInv
  <2>6. \A n \in InReply' : /\ n <= issued
                            /\ \A i \in DOMAIN received : received[i] < n
                            /\ \A j \in DOMAIN queue' : n < queue'[j]
    BY <2>1, <2>2, <2>4, <2>5 DEF OrderInv
  <2> QED BY <2>1, <2>3, <2>6 DEF OrderInv, Increasing
<1>5. ASSUME NEW c \in Conns, LongPollEnds(c) PROVE OrderInv'
  <2>1. InReply' \subseteq InReply
    BY <1>5 DEF LongPollEnds, pollerVars, InReply, PollerInv
  <2> QED BY <1>5, <2>1, OrderFrame DEF LongPollEnds, baseVars, pollerVars
<1>6. ASSUME NEW c \in Conns, WriteReply(c) PROVE OrderInv'
  <2>1. InReply' \subseteq InReply
    BY <1>6, ReplyOfWriteReply
  <2> QED BY <1>6, <2>1, OrderFrame DEF WriteReply, baseVars, pollerVars
<1>7. ASSUME NEW c \in Conns, PollNextCommand(c) PROVE OrderInv'
  <2>1. InReply' = {}
    BY <1>7 DEF PollNextCommand, Dial, InReply
  <2> QED BY <1>7, <2>1, OrderFrame DEF PollNextCommand, baseVars
<1>8. ASSUME NEW c \in Conns, SendAck(c) PROVE OrderInv'
  <2>1. InReply' = {}
    BY <1>8 DEF SendAck, Dial, InReply
  <2> QED BY <1>8, <2>1, OrderFrame DEF SendAck, baseVars
<1>9. CASE RestartBase
  <2>1. InReply' = {} /\ queue' = <<>> /\ DOMAIN queue' = {}
    BY <1>9 DEF RestartBase, pollerVars, InReply
  <2> QED BY <1>9, <2>1 DEF RestartBase, pollerVars, OrderInv, Increasing
<1>10. CASE ReadReply
  <2>1. InReply' = {} /\ queue' = queue /\ issued' = issued
    BY <1>10 DEF ReadReply, HangUp, InReply, baseVars
  <2>2. CASE received' = received
    BY <2>1, <2>2, OrderFrame
  <2>3. CASE conn[cur].arg # 0 /\ received' = Append(received, conn[cur].arg)
    <3> DEFINE n == conn[cur].arg
    <3>1. n \in InReply
      BY <1>10, <2>3 DEF ReadReply, InReply, PollerInv
    <3>2. /\ DOMAIN received' = 1 .. Len(received) + 1
          /\ DOMAIN received = 1 .. Len(received) /\ Len(received) \in Nat
          /\ \A i \in 1 .. Len(received) : received'[i] = received[i]
          /\ received'[Len(received) + 1] = n
          /\ n \in Nat
      <4>1. n \in Command /\ n \in Nat
        BY <3>1, InReplyType
      <4>2. received' = Append(received, n)
        BY <2>3
      <4> HIDE DEF n
      <4> QED BY <4>1, <4>2, AppendFacts
    <3>3. /\ \A i \in 1 .. Len(received) : received[i] < n
          /\ \A j \in DOMAIN queue : n < queue[j]
          /\ n <= issued
      BY <3>1, <3>2 DEF OrderInv
    <3> HIDE DEF n
    <3>4. Increasing(received)'
      BY <3>2, <3>3 DEF OrderInv, Increasing
    <3>5. /\ \A i \in DOMAIN received' : received'[i] <= issued
          /\ \A i \in DOMAIN received', j \in DOMAIN queue : received'[i] < queue[j]
      <4>1. ASSUME NEW i \in DOMAIN received'
            PROVE  received'[i] <= issued /\ \A j \in DOMAIN queue : received'[i] < queue[j]
        <5>1. CASE i \in 1 .. Len(received)
          BY <3>2, <5>1 DEF OrderInv
        <5>2. CASE i = Len(received) + 1
          BY <3>2, <3>3, <5>2
        <5> QED BY <3>2, <5>1, <5>2
      <4> QED BY <4>1
    <3> QED BY <2>1, <3>4, <3>5 DEF OrderInv, Increasing
  <2> QED BY <1>10, <2>2, <2>3 DEF ReadReply
<1>11. CASE PollFails
  <2>1. InReply' = {}
    BY <1>11 DEF PollFails, HangUp, InReply
  <2> QED BY <1>11, <2>1, OrderFrame DEF PollFails, baseVars
<1>12. CASE AckDialFails
  <2>1. InReply' = InReply
    BY <1>12 DEF AckDialFails, InReply
  <2> QED BY <1>12, <2>1, OrderFrame DEF AckDialFails, baseVars
<1>13. CASE AckEnds
  <2>1. InReply' = {}
    BY <1>13 DEF AckEnds, HangUp, InReply
  <2> QED BY <1>13, <2>1, OrderFrame DEF AckEnds, baseVars
<1>14. CASE CheckWiFi \/ StoreStatus
  <2>1. InReply' = InReply
    BY <1>14 DEF CheckWiFi, StoreStatus, pollerVars, InReply
  <2> QED BY <1>14, <2>1, OrderFrame DEF CheckWiFi, StoreStatus, baseVars, pollerVars
<1>15. CASE RestartDrone
  <2>1. InReply' = {}
    BY <1>15 DEF RestartDrone, HangUp, InReply
  <2> QED BY <1>15, <2>1, OrderFrame DEF RestartDrone, baseVars
<1>16. CASE LinkFails
  <2>1. InReply' = InReply
    BY <1>16 DEF LinkFails, InReply
  <2> QED BY <1>16, <2>1, OrderFrame DEF LinkFails, baseVars
<1>17. CASE LinkRecovers
  <2>1. InReply' = InReply
    BY <1>17 DEF LinkRecovers, pollerVars, InReply
  <2> QED BY <1>17, <2>1, OrderFrame DEF LinkRecovers, baseVars, pollerVars
<1>18. CASE UNCHANGED vars
  <2>1. InReply' = InReply
    BY <1>18 DEF vars, pollerVars, InReply
  <2> QED BY <1>18, <2>1, OrderFrame DEF vars, baseVars, pollerVars
<1> QED
  BY <1>1, <1>2, <1>3, <1>4, <1>5, <1>6, <1>7, <1>8, <1>9, <1>10, <1>11, <1>12,
     <1>13, <1>14, <1>15, <1>16, <1>17, <1>18 DEF Next

(* A step that starts no acknowledgement and takes no command keeps AckInv. *)
LEMMA AckFrame ==
  ASSUME AckInv, UNCHANGED <<received, ackLog, taken>>,
         poller' = "ack" => poller = "ack",
         \A c \in Conns : AckPending(c)' => AckPending(c) /\ conn'[c].arg = conn[c].arg
  PROVE  AckInv'
<1>1. \A n : Unlogged(n)' <=> Unlogged(n)
  BY DEF Unlogged, SeqRange
<1>2. AckSound'
  BY DEF AckInv, AckSound, SeqRange
<1>3. \A c \in Conns : AckPending(c)' => Unlogged(conn[c].arg)
  BY DEF AckInv
<1> QED BY <1>1, <1>2, <1>3 DEF AckInv

LEMMA AckStep == TypeOK /\ PollerInv /\ OrderInv /\ AckInv /\ [Next]_vars => AckInv'
<1> SUFFICES ASSUME TypeOK, PollerInv, OrderInv, AckInv, [Next]_vars PROVE AckInv'
  OBVIOUS
<1>0. /\ conn \in [Conns -> Connection] /\ NoConn \notin Conns
      /\ cur \in Conns \cup {NoConn}
      /\ poller \in {"poll", "await", "ack", "ackwait"}
  BY DeliveryAssumption DEF TypeOK
<1>a. /\ received \in Seq(Command) /\ ackLog \in Seq(Command) /\ Command \subseteq Nat
  BY DEF TypeOK, Command
<1>b. /\ DOMAIN received = 1 .. Len(received) /\ Len(received) \in Nat
      /\ DOMAIN ackLog = 1 .. Len(ackLog) /\ Len(ackLog) \in Nat
  BY <1>a, SeqFacts
<1> USE <1>0
<1>1. CASE EnqueueControllerCommand
  BY <1>1, AckFrame DEF EnqueueControllerCommand, pollerVars, AckPending
<1>2. ASSUME NEW c \in Conns, HandleRequest(c) PROVE AckInv'
  <2>1. CASE conn[c].cmd = "next_command"
    <3>1. conn' = [conn EXCEPT ![c].stage = "select"] /\ ackLog' = ackLog
      BY <1>2, <2>1 DEF HandleRequest
    <3>2. \A d \in Conns : AckPending(d)' => AckPending(d) /\ conn'[d].arg = conn[d].arg
      BY <2>1, <3>1 DEF AckPending
    <3> QED BY <1>2, <3>1, <3>2, AckFrame DEF HandleRequest, pollerVars
  <2>2. CASE conn[c].cmd = "controller_ack"
    <3>0. PICK n : n = conn[c].arg
      OBVIOUS
    <3>1. conn' = [conn EXCEPT ![c].stage = "write", ![c].arg = 0] /\ ackLog' = Append(ackLog, n)
      BY <3>0, <1>2, <2>2 DEF HandleRequest
    <3>2. AckPending(c) /\ Unlogged(n)
      BY <3>0, <1>2, <2>2 DEF HandleRequest, AckPending, AckInv
    <3>3. ~AckPending(c)' /\ \A d \in Conns \ {c} : conn'[d] = conn[d]
      BY <2>2, <3>1 DEF AckPending
    <3>4. received' = received /\ poller' = poller /\ taken' = taken
      BY <1>2 DEF HandleRequest, pollerVars
    <3>5. n \in Command
      BY <1>a, <1>b, <3>2, SeqFacts DEF Unlogged, SeqRange
    <3>6. /\ DOMAIN ackLog' = 1 .. Len(ackLog) + 1
          /\ \A i \in 1 .. Len(ackLog) : ackLog'[i] = ackLog[i]
          /\ ackLog'[Len(ackLog) + 1] = n
      BY <1>a, <3>1, <3>5, AppendFacts
    <3>7. \A m : Unlogged(m) /\ m # n => Unlogged(m)'
      BY <1>b, <3>4, <3>6 DEF Unlogged, SeqRange
    <3>8. AckSound'
      <4>1. \A i \in 1 .. Len(ackLog) : ackLog[i] # n /\ ackLog[i] \in SeqRange(received)
        BY <1>b, <3>2 DEF Unlogged, SeqRange, AckInv, AckSound
      <4>2. n \in SeqRange(received)
        BY <3>2 DEF Unlogged
      <4>3. SeqRange(ackLog') \subseteq SeqRange(received)
        BY <3>6, <4>1, <4>2 DEF SeqRange
      <4>4. \A i, j \in DOMAIN ackLog' : ackLog'[i] = ackLog'[j] => i = j
        BY <1>b, <3>6, <4>1 DEF AckInv, AckSound
      <4> QED BY <3>4, <4>3, <4>4 DEF AckSound, SeqRange
    <3>9. \A d \in Conns : AckPending(d)' => /\ d # c /\ AckPending(d)
                                             /\ conn'[d] = conn[d] /\ conn[d].arg # n
      BY <3>0, <3>2, <3>3 DEF AckPending, AckInv
    <3>10. poller = "ack" => taken # n
      BY <3>0, <3>2 DEF AckInv
    <3> QED BY <3>4, <3>7, <3>8, <3>9, <3>10 DEF AckInv
  <2> QED BY <1>2, <2>1, <2>2 DEF HandleRequest
<1>3. ASSUME NEW c \in Conns, DecodeFails(c) PROVE AckInv'
  BY <1>3, AckFrame DEF DecodeFails, baseVars, pollerVars, AckPending, Idle
<1>4. ASSUME NEW c \in Conns, NextControllerCommand(c) PROVE AckInv'
  BY <1>4, AckFrame DEF NextControllerCommand, pollerVars, AckPending
<1>5. ASSUME NEW c \in Conns, LongPollEnds(c) PROVE AckInv'
  BY <1>5, AckFrame DEF LongPollEnds, baseVars, pollerVars, AckPending
<1>6. ASSUME NEW c \in Conns, WriteReply(c) PROVE AckInv'
  <2>1. \A d \in Conns : AckPending(d)' => AckPending(d) /\ conn'[d].arg = conn[d].arg
    <3>1. CASE c # cur
      BY <1>6, <3>1 DEF WriteReply, AckPending, Idle
    <3>2. CASE c = cur
      <4>1. PICK st \in {"closed", "sent"} : conn' = [conn EXCEPT ![c].stage = st]
        BY <1>6, <3>2 DEF WriteReply
      <4> QED BY <1>6, <4>1 DEF WriteReply, AckPending
    <3> QED BY <3>1, <3>2
  <2> QED BY <1>6, <2>1, AckFrame DEF WriteReply, baseVars, pollerVars
<1>7. ASSUME NEW c \in Conns, PollNextCommand(c) PROVE AckInv'
  BY <1>7, AckFrame DEF PollNextCommand, Dial, baseVars, AckPending
<1>8. ASSUME NEW c \in Conns, SendAck(c) PROVE AckInv'
  <2>1. /\ conn'[c].cmd = "controller_ack" /\ conn'[c].stage = "decode" /\ conn'[c].arg = taken
        /\ \A d \in Conns \ {c} : conn'[d] = conn[d]
        /\ UNCHANGED <<received, ackLog, taken>>
        /\ poller = "ack" /\ poller' = "ackwait"
    BY <1>8 DEF SendAck, Dial, baseVars
  <2>2. \A n : Unlogged(n)' <=> Unlogged(n)
    BY <2>1 DEF Unlogged, SeqRange
  <2>3. AckSound'
    BY <2>1 DEF AckInv, AckSound, SeqRange
  <2>4. Unlogged(taken) /\ \A d \in Conns : AckPending(d) => conn[d].arg # taken
    BY <2>1 DEF AckInv
  <2>5. \A d \in Conns \ {c} : AckPending(d)' => AckPending(d) /\ conn'[d].arg = conn[d].arg
    BY <2>1 DEF AckPending
  <2>6. \A d \in Conns : AckPending(d)' => conn'[d].arg \in SeqRange(received) \ SeqRange(ackLog)
    BY <2>1, <2>4, <2>5 DEF AckInv, Unlogged
  <2>7. \A d, e \in Conns : AckPending(d)' /\ AckPending(e)' /\ conn'[d].arg = conn'[e].arg => d = e
    BY <2>1, <2>4, <2>5 DEF AckInv
  <2> QED BY <2>1, <2>3, <2>6, <2>7 DEF AckInv, Unlogged, SeqRange
<1>9. CASE RestartBase
  BY <1>9, AckFrame DEF RestartBase, pollerVars, AckPending, Idle
<1>10. CASE ReadReply
  <2>1. /\ ackLog' = ackLog
        /\ \A d \in Conns : AckPending(d)' => AckPending(d) /\ conn'[d].arg = conn[d].arg
    BY <1>10 DEF ReadReply, HangUp, baseVars, AckPending, Idle
  <2>2. CASE poller' = "poll" /\ UNCHANGED <<taken, received>>
    BY <2>1, <2>2, AckFrame
  <2>3. CASE /\ conn[cur].arg # 0 /\ taken' = conn[cur].arg
             /\ received' = Append(received, conn[cur].arg)
    <3>0. PICK n : n = conn[cur].arg
      OBVIOUS
    <3>1. n \in InReply
      BY <1>10, <2>3, <3>0 DEF ReadReply, InReply, PollerInv
    <3>2. n \in Command
      BY <3>1, InReplyType
    <3>3. /\ DOMAIN received' = 1 .. Len(received) + 1
          /\ \A i \in 1 .. Len(received) : received'[i] = received[i]
          /\ received'[Len(received) + 1] = n
      <4>1. received' = Append(received, n)
        BY <2>3, <3>0
      <4> QED BY <1>a, <3>2, <4>1, AppendFacts
    <3>4. n \notin SeqRange(received)
      <4>1. \A i \in DOMAIN received : received[i] < n /\ received[i] \in Nat
        BY <1>a, <3>1, SeqFacts DEF OrderInv
      <4> QED BY <1>a, <3>2, <4>1 DEF SeqRange
    <3>5. SeqRange(received') = SeqRange(received) \cup {n}
      BY <1>b, <3>3 DEF SeqRange
    <3>6. AckSound'
      BY <2>1, <3>5 DEF AckInv, AckSound, SeqRange
    <3>7. \A m : Unlogged(m) => Unlogged(m)' /\ m # n
      BY <2>1, <3>4, <3>5 DEF Unlogged, SeqRange
    <3>8. Unlogged(n)'
      BY <2>1, <3>4, <3>5 DEF Unlogged, AckInv, AckSound, SeqRange
    <3>9. taken' = n
      BY <2>3, <3>0
    <3>10. \A d \in Conns : AckPending(d)' =>
             /\ conn'[d].arg \in SeqRange(received') \ SeqRange(ackLog')
             /\ conn'[d].arg # n
      BY <2>1, <3>7 DEF AckInv, Unlogged
    <3>11. \A d, e \in Conns :
             AckPending(d)' /\ AckPending(e)' /\ conn'[d].arg = conn'[e].arg => d = e
      BY <2>1 DEF AckInv
    <3> QED BY <3>6, <3>8, <3>9, <3>10, <3>11 DEF AckInv, Unlogged
  <2> QED BY <1>10, <2>2, <2>3 DEF ReadReply
<1>11. CASE PollFails
  BY <1>11, AckFrame DEF PollFails, HangUp, baseVars, AckPending, Idle
<1>12. CASE AckDialFails
  <2>1. /\ UNCHANGED <<received, ackLog>> /\ poller' = "poll" /\ conn' = conn
    BY <1>12 DEF AckDialFails, baseVars
  <2> QED BY <2>1 DEF AckInv, AckSound, Unlogged, AckPending, SeqRange
<1>13. CASE AckEnds
  <2>1. /\ UNCHANGED <<received, ackLog>> /\ poller' = "poll"
        /\ \A d \in Conns : AckPending(d)' => AckPending(d) /\ conn'[d].arg = conn[d].arg
    BY <1>13 DEF AckEnds, HangUp, baseVars, AckPending, Idle
  <2> QED BY <2>1 DEF AckInv, AckSound, Unlogged, SeqRange
<1>14. CASE CheckWiFi \/ StoreStatus
  BY <1>14, AckFrame DEF CheckWiFi, StoreStatus, baseVars, pollerVars, AckPending
<1>15. CASE RestartDrone
  <2>1. /\ UNCHANGED <<received, ackLog>> /\ poller' = "poll"
        /\ \A d \in Conns : AckPending(d)' => AckPending(d) /\ conn'[d].arg = conn[d].arg
    BY <1>15 DEF RestartDrone, HangUp, baseVars, AckPending, Idle
  <2> QED BY <2>1 DEF AckInv, AckSound, Unlogged, SeqRange
<1>16. CASE LinkFails
  BY <1>16, AckFrame DEF LinkFails, baseVars, AckPending
<1>17. CASE LinkRecovers
  BY <1>17, AckFrame DEF LinkRecovers, baseVars, pollerVars, AckPending
<1>18. CASE UNCHANGED vars
  BY <1>18, AckFrame DEF vars, baseVars, pollerVars, AckPending
<1> QED
  BY <1>1, <1>2, <1>3, <1>4, <1>5, <1>6, <1>7, <1>8, <1>9, <1>10, <1>11, <1>12,
     <1>13, <1>14, <1>15, <1>16, <1>17, <1>18 DEF Next

-----------------------------------------------------------------------------
(* THE LOSSES.  What is counted is finite; what a step may do to the two   *)
(* counts and the bound.                                                   *)
LEMMA CountsFinite ==
  ASSUME TypeOK
  PROVE  /\ IsFiniteSet(Wasted) /\ Cardinality(Wasted) \in Nat
         /\ IsFiniteSet(Stale) /\ Cardinality(Stale) \in Nat
         /\ abandoned \in Nat /\ CutOff \in 0 .. 1 /\ baseRestarts * QueueCap \in Nat
         /\ Allowance \in Nat
<1>1. issued \in Int
  BY DeliveryAssumption DEF TypeOK
<1>2. IsFiniteSet(Wasted)
  <2>1. Wasted \subseteq 1 .. issued
    BY DEF Wasted, Lost
  <2>2. IsFiniteSet(1 .. issued)
    BY <1>1, FS_Interval
  <2> QED BY <2>1, <2>2, FS_Subset
<1>3. IsFiniteSet(Stale)
  BY DeliveryAssumption, FS_Subset DEF Stale
<1>4. abandoned \in Nat /\ CutOff \in 0 .. 1
  BY DEF TypeOK, CutOff
<1>5. baseRestarts * QueueCap \in Nat
  <2>1. baseRestarts \in Nat /\ QueueCap \in Nat
    BY DeliveryAssumption DEF TypeOK
  <2> QED BY <2>1
<1>6. Allowance \in Nat
  BY <1>4, <1>5 DEF Allowance
<1> QED BY <1>2, <1>3, <1>4, <1>5, <1>6, FS_CardinalityType

(* What may be lost grows with each poll that fails, unless it was cut off *)
(* before.                                                                 *)
LEMMA AllowanceStep ==
  ASSUME TypeOK, UNCHANGED baseRestarts
  PROVE  /\ abandoned' = abandoned /\ CutOff = 0 => Allowance' >= Allowance /\ Allowance' \in Nat
         /\ abandoned' = abandoned /\ CutOff' = CutOff => Allowance' = Allowance
         /\ abandoned' = abandoned + 1 => Allowance' >= Allowance /\ Allowance' \in Nat
         /\ abandoned' = abandoned + 1 /\ CutOff = 0 => Allowance' >= Allowance + 1 /\ Allowance' \in Nat
<1> DEFINE queues == baseRestarts * QueueCap
<1>1. /\ abandoned \in Nat /\ CutOff \in 0 .. 1 /\ CutOff' \in 0 .. 1 /\ queues \in Nat
      /\ Allowance = abandoned + CutOff + queues /\ Allowance' = abandoned' + CutOff' + queues
  BY CountsFinite DEF CutOff, Allowance
<1> HIDE DEF queues
<1> QED BY <1>1

(* The union of two finite sets has at most the members of both. *)
LEMMA UnionCount ==
  ASSUME NEW S, NEW T, IsFiniteSet(S), IsFiniteSet(T)
  PROVE  /\ IsFiniteSet(S \cup T)
         /\ Cardinality(S \cup T) <= Cardinality(S) + Cardinality(T)
<1>1. /\ IsFiniteSet(S \cup T)
      /\ Cardinality(S \cup T) = Cardinality(S) + Cardinality(T) - Cardinality(S \cap T)
  BY FS_Union
<1>2. Cardinality(S \cap T) \in Nat /\ Cardinality(S) \in Nat /\ Cardinality(T) \in Nat
  BY FS_Intersection, FS_CardinalityType
<1> QED BY <1>1, <1>2

(* Nothing is lost and nobody left behind; *)
LEMMA NothingWasted ==
  ASSUME TypeOK, LossInv, Wasted' \subseteq Wasted, Stale' \subseteq Stale,
         UNCHANGED baseRestarts,
         \/ abandoned' = abandoned /\ (CutOff = 0 \/ CutOff' = CutOff)
         \/ abandoned' = abandoned + 1
  PROVE  LossInv'
<1>1. Cardinality(Wasted') \in Nat /\ Cardinality(Wasted') <= Cardinality(Wasted)
  BY CountsFinite, FS_Subset, FS_CardinalityType
<1>2. Cardinality(Stale') \in Nat /\ Cardinality(Stale') <= Cardinality(Stale)
  BY CountsFinite, FS_Subset, FS_CardinalityType
<1>3. Allowance' >= Allowance /\ Allowance' \in Nat
  BY CountsFinite, AllowanceStep
<1> QED BY <1>1, <1>2, <1>3, CountsFinite DEF LossInv

(* a handler that was left behind takes a command; *)
LEMMA WastedByStale ==
  ASSUME TypeOK, LossInv, NEW n, NEW c \in Stale,
         Wasted' \subseteq Wasted \cup {n}, Stale' \subseteq Stale \ {c},
         UNCHANGED <<abandoned, baseRestarts>>, CutOff' = CutOff
  PROVE  LossInv'
<1>1. Cardinality(Wasted') \in Nat /\ Cardinality(Wasted') <= Cardinality(Wasted) + 1
  <2>1. /\ IsFiniteSet(Wasted \cup {n})
        /\ Cardinality(Wasted \cup {n}) \in {Cardinality(Wasted), Cardinality(Wasted) + 1}
    BY CountsFinite, FS_AddElement
  <2>2. /\ IsFiniteSet(Wasted') /\ Cardinality(Wasted') <= Cardinality(Wasted \cup {n})
    BY <2>1, FS_Subset
  <2>3. Cardinality(Wasted') \in Nat
    BY <2>2, FS_CardinalityType
  <2> QED BY <2>1, <2>2, <2>3, CountsFinite
<1>2. Cardinality(Stale') \in Nat /\ Cardinality(Stale') <= Cardinality(Stale) - 1
  <2>1. IsFiniteSet(Stale \ {c}) /\ Cardinality(Stale \ {c}) = Cardinality(Stale) - 1
    BY CountsFinite, FS_RemoveElement
  <2>2. IsFiniteSet(Stale') /\ Cardinality(Stale') <= Cardinality(Stale \ {c})
    BY <2>1, FS_Subset
  <2>3. Cardinality(Stale') \in Nat
    BY <2>2, FS_CardinalityType
  <2> QED BY <2>1, <2>2, <2>3
<1>3. Allowance' = Allowance
  BY AllowanceStep
<1> QED BY <1>1, <1>2, <1>3, CountsFinite DEF LossInv

(* a poll fails, with a command in its reply or none yet.                  *)
LEMMA PollWasted ==
  ASSUME TypeOK, LossInv, abandoned' = abandoned + 1, UNCHANGED baseRestarts,
         CutOff = 0, NEW x,
         \/ Wasted' \subseteq Wasted \cup {x} /\ Stale' \subseteq Stale
         \/ Wasted' \subseteq Wasted /\ Stale' \subseteq Stale \cup {x}
  PROVE  LossInv'
<1>1. ASSUME NEW S, NEW T, IsFiniteSet(S), T \subseteq S \cup {x}
      PROVE  Cardinality(T) \in Nat /\ Cardinality(T) <= Cardinality(S) + 1
  <2>1. /\ IsFiniteSet(S \cup {x}) /\ Cardinality(S) \in Nat
        /\ Cardinality(S \cup {x}) \in {Cardinality(S), Cardinality(S) + 1}
    BY <1>1, FS_AddElement, FS_CardinalityType
  <2>2. IsFiniteSet(T) /\ Cardinality(T) <= Cardinality(S \cup {x})
    BY <1>1, <2>1, FS_Subset
  <2>3. Cardinality(T) \in Nat
    BY <2>2, FS_CardinalityType
  <2> QED BY <2>1, <2>2, <2>3
<1>2. ASSUME NEW S, NEW T, IsFiniteSet(S), T \subseteq S
      PROVE  Cardinality(T) \in Nat /\ Cardinality(T) <= Cardinality(S)
  BY <1>2, FS_Subset, FS_CardinalityType
<1>a. Allowance' >= Allowance + 1 /\ Allowance' \in Nat
  BY AllowanceStep
<1>3. CASE Wasted' \subseteq Wasted \cup {x} /\ Stale' \subseteq Stale
  <2>1. Cardinality(Wasted') \in Nat /\ Cardinality(Wasted') <= Cardinality(Wasted) + 1
    BY <1>1, <1>3, CountsFinite
  <2>2. Cardinality(Stale') \in Nat /\ Cardinality(Stale') <= Cardinality(Stale)
    BY <1>2, <1>3, CountsFinite
  <2> QED BY <1>a, <2>1, <2>2, CountsFinite DEF LossInv
<1>4. CASE Wasted' \subseteq Wasted /\ Stale' \subseteq Stale \cup {x}
  <2>1. Cardinality(Wasted') \in Nat /\ Cardinality(Wasted') <= Cardinality(Wasted)
    BY <1>2, <1>4, CountsFinite
  <2>2. Cardinality(Stale') \in Nat /\ Cardinality(Stale') <= Cardinality(Stale) + 1
    BY <1>1, <1>4, CountsFinite
  <2> QED BY <1>a, <2>1, <2>2, CountsFinite DEF LossInv
<1> QED BY <1>3, <1>4

(* A command that leaves no place where it may still be taken from stays   *)
(* accounted for, *)
LEMMA WastedFrame ==
  ASSUME NEW X, UNCHANGED <<issued, dropped>>,
         SeqRange(queue) \subseteq SeqRange(queue') \cup X,
         SeqRange(received) \subseteq SeqRange(received'),
         InReply \subseteq InReply' \cup SeqRange(received') \cup X
  PROVE  Wasted' \subseteq Wasted \cup X
  BY DEF Wasted, Lost, InTransit

(* and so does one that is not delivered because it cannot be.             *)
LEMMA UndeliverableFrame ==
  ASSUME UNCHANGED <<issued, dropped, queue, received>>,
         InReply \subseteq InReply' \cup Unmarshalable \cup Oversized
  PROVE  Wasted' \subseteq Wasted
  BY DEF Wasted, Lost, InTransit, SeqRange

(* The end of the outstanding request.                                     *)
LEMMA HangUpFacts ==
  ASSUME TypeOK, cur \in Conns, HangUp
  PROVE  /\ cur' = NoConn /\ InReply' = {}
         /\ \A c \in Conns \ {cur} : conn'[c] = conn[c]
         /\ conn[cur].stage \in {"sent", "closed"} => conn'[cur] = Idle
         /\ conn[cur].stage \notin {"sent", "closed"} => conn'[cur] = conn[cur]
  BY DEF TypeOK, HangUp, InReply

LEMMA StaleAfterHangUp ==
  ASSUME TypeOK, PollerInv, cur \in Conns, HangUp
  PROVE  /\ Stale' \subseteq Stale \cup {cur}
         /\ conn[cur].cmd = "controller_ack" => Stale' \subseteq Stale
         /\ conn[cur].stage \notin {"decode", "select"} => Stale' \subseteq Stale
<1>1. \A c \in Conns \ {cur} : StaleHandler(c)' => StaleHandler(c)
  BY HangUpFacts DEF StaleHandler
<1>2. Stale' \subseteq Stale \cup {cur}
  BY <1>1 DEF Stale
<1>3. ASSUME conn'[cur].cmd = "next_command", conn'[cur].stage \in {"decode", "select"}
      PROVE  conn[cur].cmd # "controller_ack" /\ conn[cur].stage \in {"decode", "select"}
  <2>1. CASE conn[cur].stage \in {"sent", "closed"}
    <3>1. conn'[cur].stage = "free"
      BY <2>1, HangUpFacts DEF Idle
    <3> QED BY <1>3, <3>1
  <2>2. CASE conn[cur].stage \notin {"sent", "closed"}
    BY <1>3, <2>2, HangUpFacts
  <2> QED BY <2>1, <2>2
<1>4. ASSUME cur \in Stale'
      PROVE  conn[cur].cmd # "controller_ack" /\ conn[cur].stage \in {"decode", "select"}
  <2>1. conn'[cur].cmd = "next_command" /\ conn'[cur].stage \in {"decode", "select"}
    BY <1>4 DEF Stale, StaleHandler
  <2> QED BY <2>1, <1>3
<1> QED BY <1>2, <1>4, <1>1 DEF Stale

(* A poll that ends without an answer, by its deadline or with the drone.  *)
LEMMA PollLost ==
  ASSUME TypeOK, PollerInv, LossInv, poller = "await", HangUp,
         UNCHANGED <<issued, dropped, queue, received, baseRestarts>>,
         abandoned' = abandoned + 1
  PROVE  LossInv'
<1>1. /\ cur \in Conns /\ cur # NoConn /\ conn[cur].cmd = "next_command"
      /\ conn[cur].stage # "free"
  BY DeliveryAssumption DEF PollerInv, TypeOK
<1>2. SeqRange(queue') = SeqRange(queue) /\ SeqRange(received') = SeqRange(received)
  BY DEF SeqRange
<1>6. conn[cur].stage # "closed" => CutOff = 0
  BY DEF CutOff
<1>3. CASE conn[cur].stage \in {"decode", "select", "closed"}
  <2>1. InReply = {}
    BY <1>1, <1>3, NoReply
  <2>2. Wasted' \subseteq Wasted
    <3>1. Wasted' \subseteq Wasted \cup {}
      BY <1>2, <2>1, WastedFrame
    <3> QED BY <3>1
  <2>3. Stale' \subseteq Stale \cup {cur}
    BY <1>1, StaleAfterHangUp
  <2>4. CASE conn[cur].stage = "closed"
    <3>1. Stale' \subseteq Stale
      BY <1>1, <2>4, StaleAfterHangUp
    <3> QED BY <2>2, <3>1, NothingWasted
  <2>5. CASE conn[cur].stage # "closed"
    BY <1>6, <2>2, <2>3, <2>5, PollWasted
  <2> QED BY <2>4, <2>5
<1>4. CASE conn[cur].stage \in {"write", "sent"}
  <2>1. InReply \subseteq {conn[cur].arg}
    BY DEF InReply
  <2>2. Wasted' \subseteq Wasted \cup {conn[cur].arg}
    BY <1>2, <2>1, WastedFrame
  <2>3. Stale' \subseteq Stale
    BY <1>1, <1>4, StaleAfterHangUp
  <2> QED BY <1>4, <1>6, <2>2, <2>3, PollWasted
<1>5. conn[cur] \in Connection
  BY <1>1 DEF TypeOK
<1> QED BY <1>1, <1>3, <1>4, <1>5 DEF Connection, Stage

(* A restart of the base wastes what the queue held, and the reply of the  *)
(* poll that it cuts off.                                                  *)
LEMMA SeqRangeCount ==
  ASSUME NEW s \in Seq(Command)
  PROVE  IsFiniteSet(SeqRange(s)) /\ Cardinality(SeqRange(s)) <= Len(s)
<1>1. DOMAIN s = 1 .. Len(s) /\ Len(s) \in Nat
  BY SeqFacts
<1>2. IsFiniteSet(1 .. Len(s)) /\ Cardinality(1 .. Len(s)) = Len(s)
  BY <1>1, FS_Interval
<1>3. [i \in 1 .. Len(s) |-> s[i]] \in Surjection(1 .. Len(s), SeqRange(s))
  BY <1>1 DEF Surjection, SeqRange
<1> QED BY <1>2, <1>3, FS_Surjection

LEMMA RestartWasted ==
  ASSUME TypeOK, LossInv, RestartBase
  PROVE  LossInv'
<1>1. /\ queue \in Seq(Command) /\ Len(queue) \in Nat /\ Len(queue) <= QueueCap
      /\ queue' = <<>> /\ baseRestarts' = baseRestarts + 1
      /\ UNCHANGED <<issued, dropped, received, cur, abandoned>>
      /\ conn \in [Conns -> Connection] /\ NoConn \notin Conns /\ cur \in Conns \cup {NoConn}
  BY DeliveryAssumption DEF TypeOK, RestartBase, pollerVars
<1>2. /\ cur \in Conns => conn'[cur].stage = "closed" /\ conn'[cur].cmd = conn[cur].cmd
      /\ \A c \in Conns : c # cur => conn'[c].stage = "free"
  BY <1>1 DEF RestartBase, Idle
<1>3. Stale' = {}
  BY <1>1, <1>2 DEF Stale, StaleHandler
<1>4. CutOff <= CutOff' /\ (InReply # {} => CutOff = 0 /\ CutOff' = 1)
  BY <1>1, <1>2 DEF CutOff, InReply
<1>5. Wasted' \subseteq Wasted \cup SeqRange(queue) \cup InReply
  <2>1. SeqRange(received') = SeqRange(received)
    BY <1>1 DEF SeqRange
  <2> QED BY <1>1, <2>1 DEF Wasted, Lost, InTransit
<1>6. /\ IsFiniteSet(InReply) /\ Cardinality(InReply) \in Nat
      /\ Cardinality(InReply) + CutOff <= CutOff'
  <2>1. CASE InReply = {}
    BY <1>4, <2>1, FS_EmptySet, CountsFinite DEF CutOff
  <2>2. CASE InReply # {}
    <3>1. PICK n : InReply = {n}
      BY <2>2 DEF InReply
    <3>2. IsFiniteSet(InReply) /\ Cardinality(InReply) = 1
      BY <3>1, FS_Singleton
    <3> QED BY <1>4, <2>2, <3>2
  <2> QED BY <2>1, <2>2
<1>7. /\ IsFiniteSet(Wasted') /\ Cardinality(Wasted') \in Nat
      /\ Cardinality(Wasted') <= Cardinality(Wasted) + Cardinality(SeqRange(queue)) + Cardinality(InReply)
  <2>1. IsFiniteSet(Wasted) /\ IsFiniteSet(SeqRange(queue))
    BY <1>1, CountsFinite, SeqRangeCount
  <2>2. /\ IsFiniteSet(Wasted \cup SeqRange(queue))
        /\ Cardinality(Wasted \cup SeqRange(queue)) <= Cardinality(Wasted) + Cardinality(SeqRange(queue))
    BY <2>1, UnionCount
  <2>3. /\ IsFiniteSet(Wasted \cup SeqRange(queue) \cup InReply)
        /\ Cardinality(Wasted \cup SeqRange(queue) \cup InReply)
             <= Cardinality(Wasted \cup SeqRange(queue)) + Cardinality(InReply)
    BY <1>6, <2>2, UnionCount
  <2>4. IsFiniteSet(Wasted') /\ Cardinality(Wasted') <= Cardinality(Wasted \cup SeqRange(queue) \cup InReply)
    BY <1>5, <2>3, FS_Subset
  <2>5. /\ Cardinality(Wasted) \in Nat /\ Cardinality(SeqRange(queue)) \in Nat
        /\ Cardinality(Wasted \cup SeqRange(queue)) \in Nat /\ Cardinality(Wasted') \in Nat
        /\ Cardinality(Wasted \cup SeqRange(queue) \cup InReply) \in Nat
    BY <2>1, <2>2, <2>3, <2>4, FS_CardinalityType
  <2> QED BY <1>6, <2>2, <2>3, <2>4, <2>5
<1>8. Allowance' = abandoned + CutOff' + baseRestarts * QueueCap + QueueCap
  <2>1. baseRestarts \in Nat /\ QueueCap \in Nat
    BY DeliveryAssumption DEF TypeOK
  <2>2. baseRestarts' * QueueCap = baseRestarts * QueueCap + QueueCap
    BY <1>1, <2>1
  <2>3. abandoned \in Nat /\ CutOff' \in 0 .. 1 /\ baseRestarts * QueueCap \in Nat
    BY CountsFinite DEF CutOff
  <2> QED BY <1>1, <2>1, <2>2, <2>3 DEF Allowance
<1>9. Cardinality(Stale') = 0
  BY <1>3, FS_EmptySet
<1>10. Cardinality(SeqRange(queue)) <= QueueCap /\ Cardinality(SeqRange(queue)) \in Nat
  <2>1. Cardinality(SeqRange(queue)) \in Nat /\ Cardinality(SeqRange(queue)) <= Len(queue)
    BY <1>1, SeqRangeCount, FS_CardinalityType
  <2> QED BY <1>1, <2>1, DeliveryAssumption
<1> QED
  <2> DEFINE queues == baseRestarts * QueueCap
  <2>1. /\ queues \in Nat /\ QueueCap \in Nat /\ abandoned \in Nat
        /\ CutOff \in 0 .. 1 /\ CutOff' \in 0 .. 1
        /\ Allowance = abandoned + CutOff + queues
        /\ Allowance' = abandoned + CutOff' + queues + QueueCap
    BY <1>8, CountsFinite, DeliveryAssumption DEF Allowance, CutOff
  <2>2. Cardinality(Wasted) + Cardinality(Stale) <= Allowance
    BY DEF LossInv
  <2>3. Cardinality(Wasted) \in Nat /\ Cardinality(Stale) \in Nat
    BY CountsFinite
  <2> HIDE DEF queues
  <2>4. Cardinality(Wasted') + 0 <= Allowance'
    BY <1>6, <1>7, <1>10, <2>1, <2>2, <2>3
  <2> QED BY <1>9, <2>4 DEF LossInv

LEMMA LossStep == TypeOK /\ PollerInv /\ LossInv /\ [Next]_vars => LossInv'
<1> SUFFICES ASSUME TypeOK, PollerInv, LossInv, [Next]_vars PROVE LossInv'
  OBVIOUS
<1>0. /\ conn \in [Conns -> Connection] /\ NoConn \notin Conns
      /\ cur \in Conns \cup {NoConn}
      /\ queue \in Seq(Command) /\ received \in Seq(Command) /\ issued \in Nat
  BY DeliveryAssumption DEF TypeOK
<1>a. \A X : X \cup {} = X
  OBVIOUS
<1> USE <1>0
<1>1. CASE EnqueueControllerCommand
  <2>1. /\ InReply' = InReply /\ received' = received /\ issued' = issued + 1
        /\ Stale' = Stale /\ abandoned' = abandoned /\ baseRestarts' = baseRestarts
        /\ CutOff' = CutOff
    BY <1>1 DEF EnqueueControllerCommand, pollerVars, InReply, Stale, StaleHandler, CutOff
  <2>2. \/ queue' = queue /\ dropped' = dropped \cup {issued + 1}
        \/ queue' = Append(queue, issued + 1) /\ dropped' = dropped
    BY <1>1 DEF EnqueueControllerCommand
  <2>3. Wasted' \subseteq Wasted
    <3>1. CASE queue' = queue /\ dropped' = dropped \cup {issued + 1}
      BY <2>1, <3>1 DEF Wasted, Lost, InTransit, SeqRange
    <3>2. CASE queue' = Append(queue, issued + 1) /\ dropped' = dropped
      <4>1. issued + 1 \in Command
        BY <1>1, DeliveryAssumption DEF EnqueueControllerCommand, Command
      <4>2. /\ DOMAIN queue' = 1 .. Len(queue) + 1 /\ DOMAIN queue = 1 .. Len(queue)
            /\ \A i \in 1 .. Len(queue) : queue'[i] = queue[i]
            /\ queue'[Len(queue) + 1] = issued + 1 /\ Len(queue) \in Nat
        BY <3>2, <4>1, AppendFacts
      <4>3. SeqRange(queue') = SeqRange(queue) \cup {issued + 1}
        BY <4>2 DEF SeqRange
      <4>4. SeqRange(received') = SeqRange(received)
        BY <2>1 DEF SeqRange
      <4> QED BY <2>1, <3>2, <4>3, <4>4 DEF Wasted, Lost, InTransit
    <3> QED BY <2>2, <3>1, <3>2
  <2> QED BY <2>1, <2>3, NothingWasted
<1>2. ASSUME NEW c \in Conns, HandleRequest(c) PROVE LossInv'
  <2>1. UNCHANGED <<issued, dropped, queue, received, cur, abandoned, baseRestarts>>
    BY <1>2 DEF HandleRequest, pollerVars
  <2>2. InReply \subseteq InReply'
    BY <1>2 DEF HandleRequest, InReply, pollerVars
  <2>3. Stale' \subseteq Stale
    <3>1. ASSUME NEW d \in Conns, StaleHandler(d)' PROVE StaleHandler(d)
      <4>1. CASE d # c
        <5>1. conn'[d] = conn[d]
          <6>1. CASE conn' = [conn EXCEPT ![c].stage = "select"]
            BY <4>1, <6>1
          <6>2. CASE conn' = [conn EXCEPT ![c].stage = "write", ![c].arg = 0]
            BY <4>1, <6>2
          <6> QED BY <1>2, <6>1, <6>2 DEF HandleRequest
        <5> QED BY <2>1, <3>1, <5>1 DEF StaleHandler
      <4>2. CASE d = c
        <5>1. conn'[c].cmd = conn[c].cmd /\ conn[c].stage = "decode"
          <6>1. CASE conn' = [conn EXCEPT ![c].stage = "select"]
            BY <1>2, <6>1 DEF HandleRequest
          <6>2. CASE conn' = [conn EXCEPT ![c].stage = "write", ![c].arg = 0]
            BY <1>2, <6>2 DEF HandleRequest
          <6> QED BY <1>2, <6>1, <6>2 DEF HandleRequest
        <5> QED BY <2>1, <3>1, <4>2, <5>1 DEF StaleHandler
      <4> QED BY <4>1, <4>2
    <3> QED BY <3>1 DEF Stale
  <2>4. Wasted' \subseteq Wasted
    BY <2>1, <2>2, UndeliverableFrame
  <2>5. CutOff = 0 \/ CutOff' = CutOff
    BY <1>2, <2>1 DEF HandleRequest, CutOff
  <2> QED BY <2>1, <2>3, <2>4, <2>5, NothingWasted
<1>3. ASSUME NEW c \in Conns, DecodeFails(c) PROVE LossInv'
  <2>1. /\ UNCHANGED <<issued, dropped, queue, received, cur, abandoned, baseRestarts>>
        /\ InReply' = InReply /\ Stale' \subseteq Stale /\ CutOff' = CutOff
    BY <1>3 DEF DecodeFails, baseVars, pollerVars, InReply, Stale, StaleHandler, Idle, CutOff
  <2>2. Wasted' \subseteq Wasted
    BY <2>1, UndeliverableFrame
  <2> QED BY <2>1, <2>2, NothingWasted
<1>4. ASSUME NEW c \in Conns, NextControllerCommand(c) PROVE LossInv'
  <2> DEFINE n == Head(queue)
  <2>1. /\ UNCHANGED <<issued, dropped, received, cur, abandoned, baseRestarts>>
        /\ conn[c].stage = "select" /\ conn[c].cmd = "next_command" /\ conn[c].arg = 0
        /\ queue # <<>> /\ queue' = Tail(queue)
    BY <1>4 DEF NextControllerCommand, pollerVars, PollerInv, Connection
  <2>2. SeqRange(queue) \subseteq SeqRange(queue') \cup {n} /\ n \in Command
    <3>1. /\ n \in Command /\ n = queue[1] /\ Len(Tail(queue)) = Len(queue) - 1
          /\ \A i \in 1 .. Len(Tail(queue)) : Tail(queue)[i] = queue[i + 1]
          /\ Len(queue) \in Nat
      BY <2>1, TailFacts
    <3>2. Tail(queue) \in Seq(Command) /\ DOMAIN queue' = 1 .. Len(queue) - 1
      BY <2>1, <3>1, TailFacts, SeqFacts
    <3>3. \A i \in DOMAIN queue : i = 1 \/ (i - 1 \in DOMAIN queue' /\ (i - 1) + 1 = i)
      BY <3>1, <3>2
    <3>4. \A i \in DOMAIN queue : queue[i] = n \/ queue[i] \in SeqRange(queue')
      BY <2>1, <3>1, <3>2, <3>3 DEF SeqRange
    <3> QED BY <3>1, <3>4 DEF SeqRange
  <2>3. Stale' \subseteq Stale \ {c}
    BY <1>4, <2>1 DEF NextControllerCommand, Stale, StaleHandler
  <2>6. IF c = cur THEN CutOff = 0 ELSE CutOff' = CutOff
    BY <1>4, <2>1 DEF NextControllerCommand, CutOff
  <2>4. CASE c = cur
    <3>1. InReply = {}
      BY <2>1, <2>4, NoReply
    <3>2. n \in InReply' \/ n \in Unmarshalable
      <4>1. /\ conn'[c].stage = "write" /\ conn'[c].cmd = "next_command"
            /\ conn'[c].arg = IF n \in Unmarshalable THEN 0 ELSE n
        BY <1>4, <2>1 DEF NextControllerCommand, Connection
      <4>2. n # 0
        BY <2>2 DEF Command
      <4> QED BY <2>1, <2>4, <4>1, <4>2 DEF InReply
    <3>3. SeqRange(received') = SeqRange(received)
      BY <2>1 DEF SeqRange
    <3>4. Wasted' \subseteq Wasted
      BY <2>1, <2>2, <3>1, <3>2, <3>3 DEF Wasted, Lost, InTransit
    <3> QED BY <2>1, <2>3, <2>4, <2>6, <3>4, NothingWasted
  <2>5. CASE c # cur
    <3>1. c \in Stale
      BY <2>1, <2>5 DEF Stale, StaleHandler
    <3>2. InReply' = InReply
      BY <1>4, <2>1, <2>5 DEF NextControllerCommand, InReply
    <3>3. SeqRange(received') = SeqRange(received)
      BY <2>1 DEF SeqRange
    <3>4. Wasted' \subseteq Wasted \cup {n}
      BY <2>1, <2>2, <3>2, <3>3, WastedFrame
    <3> QED BY <2>1, <2>3, <2>5, <2>6, <3>1, <3>4, WastedByStale
  <2> QED BY <2>4, <2>5
<1>5. ASSUME NEW c \in Conns, LongPollEnds(c) PROVE LossInv'
  <2>1. /\ UNCHANGED <<issued, dropped, queue, received, cur, abandoned, baseRestarts>>
        /\ InReply \subseteq InReply' /\ Stale' \subseteq Stale
    BY <1>5 DEF LongPollEnds, baseVars, pollerVars, InReply, Stale, StaleHandler
  <2>2. Wasted' \subseteq Wasted
    BY <2>1, UndeliverableFrame
  <2>3. CutOff = 0 \/ CutOff' = CutOff
    BY <1>5, <2>1 DEF LongPollEnds, CutOff
  <2> QED BY <2>1, <2>2, <2>3, NothingWasted
<1>6. ASSUME NEW c \in Conns, WriteReply(c) PROVE LossInv'
  <2>1. UNCHANGED <<issued, dropped, queue, received, cur, abandoned, baseRestarts>>
    BY <1>6 DEF WriteReply, baseVars, pollerVars
  <2>2. CASE c # cur /\ conn' = [conn EXCEPT ![c] = Idle]
    <3>1. InReply' = InReply /\ Stale' \subseteq Stale /\ CutOff' = CutOff
      BY <2>1, <2>2 DEF InReply, Stale, StaleHandler, Idle, CutOff
    <3>2. Wasted' \subseteq Wasted
      BY <2>1, <3>1, UndeliverableFrame
    <3> QED BY <2>1, <3>1, <3>2, NothingWasted
  <2>3. CASE /\ c = cur
             /\ conn' = [conn EXCEPT ![c].stage = IF conn[c].arg \in Oversized
                                                  THEN "closed" ELSE "sent"]
    <3>1. /\ conn'[c].stage = IF conn[c].arg \in Oversized THEN "closed" ELSE "sent"
          /\ conn'[c].arg = conn[c].arg /\ conn'[c].cmd = conn[c].cmd
          /\ \A d \in Conns \ {c} : conn'[d] = conn[d]
      BY <2>3
    <3>2. InReply \subseteq InReply' \cup Oversized
      BY <2>1, <2>3, <3>1 DEF InReply
    <3>3. Stale' \subseteq Stale
      BY <2>1, <2>3, <3>1 DEF Stale, StaleHandler
    <3>4. Wasted' \subseteq Wasted
      BY <2>1, <3>2, UndeliverableFrame
    <3>5. CutOff = 0
      BY <1>6, <2>3 DEF WriteReply, CutOff
    <3> QED BY <2>1, <3>3, <3>4, <3>5, NothingWasted
  <2> QED BY <1>6, <2>2, <2>3 DEF WriteReply
<1>7. ASSUME NEW c \in Conns, PollNextCommand(c) \/ SendAck(c) PROVE LossInv'
  <2>1. /\ UNCHANGED <<issued, dropped, queue, received, abandoned, baseRestarts>>
        /\ cur = NoConn /\ cur' = c
        /\ \A d \in Conns \ {c} : conn'[d] = conn[d]
    BY <1>7 DEF PollNextCommand, SendAck, Dial, baseVars, PollerInv
  <2>2. InReply = {}
    BY <2>1, NoReply
  <2>3. Stale' \subseteq Stale
    BY <2>1 DEF Stale, StaleHandler
  <2>4. Wasted' \subseteq Wasted
    BY <2>1, <2>2, UndeliverableFrame
  <2>5. CutOff = 0
    BY <2>1 DEF CutOff
  <2> QED BY <2>1, <2>3, <2>4, <2>5, NothingWasted
<1>8. CASE RestartBase
  BY <1>8, RestartWasted
<1>9. CASE ReadReply
  <2>1. /\ cur \in Conns /\ conn[cur].stage = "sent" /\ conn[cur].cmd = "next_command"
        /\ HangUp /\ UNCHANGED <<issued, dropped, queue, abandoned, baseRestarts>>
    BY <1>9 DEF ReadReply, PollerInv, baseVars
  <2>2. Stale' \subseteq Stale
    BY <2>1, StaleAfterHangUp
  <2>3. /\ SeqRange(received) \subseteq SeqRange(received')
        /\ InReply \subseteq SeqRange(received')
    <3>1. CASE conn[cur].arg = 0
      BY <1>9, <3>1 DEF ReadReply, InReply, SeqRange
    <3>2. CASE conn[cur].arg # 0
      <4>1. PICK n : n = conn[cur].arg
        OBVIOUS
      <4>2. n \in Command /\ received' = Append(received, n) /\ InReply \subseteq {n}
        BY <1>9, <2>1, <3>2, <4>1 DEF ReadReply, Connection, Command, InReply
      <4>3. /\ DOMAIN received' = 1 .. Len(received) + 1 /\ DOMAIN received = 1 .. Len(received)
            /\ \A i \in 1 .. Len(received) : received'[i] = received[i]
            /\ received'[Len(received) + 1] = n /\ Len(received) \in Nat
        BY <4>2, AppendFacts
      <4>4. SeqRange(received') = SeqRange(received) \cup {n}
        BY <4>3 DEF SeqRange
      <4> QED BY <4>2, <4>4
    <3> QED BY <3>1, <3>2
  <2>4. SeqRange(queue') = SeqRange(queue)
    BY <2>1 DEF SeqRange
  <2>5. Wasted' \subseteq Wasted
    BY <2>1, <2>3, <2>4 DEF Wasted, Lost, InTransit
  <2>6. CutOff = 0
    BY <2>1 DEF CutOff
  <2> QED BY <2>1, <2>2, <2>5, <2>6, NothingWasted
<1>10. CASE PollFails
  BY <1>10, PollLost DEF PollFails, baseVars
<1>11. CASE AckEnds
  <2>1. /\ cur \in Conns /\ conn[cur].cmd = "controller_ack" /\ HangUp
        /\ UNCHANGED <<issued, dropped, queue, received, abandoned, baseRestarts>>
    BY <1>11 DEF AckEnds, PollerInv, baseVars
  <2>2. InReply = {}
    BY <2>1 DEF InReply
  <2>3. Wasted' \subseteq Wasted
    BY <2>1, <2>2, UndeliverableFrame
  <2>4. Stale' \subseteq Stale
    BY <2>1, StaleAfterHangUp
  <2>5. CutOff = 0
    BY <2>1 DEF CutOff
  <2> QED BY <2>1, <2>3, <2>4, <2>5, NothingWasted
<1>12. CASE RestartDrone
  <2>1. UNCHANGED <<issued, dropped, queue, received, baseRestarts>>
    BY <1>12 DEF RestartDrone, baseVars
  <2>2. CASE poller = "await"
    <3>1. HangUp /\ abandoned' = abandoned + 1
      BY <1>12, <2>2 DEF RestartDrone, PollerInv
    <3> QED BY <2>1, <2>2, <3>1, PollLost
  <2>3. CASE poller = "ackwait"
    <3>1. /\ cur \in Conns /\ conn[cur].cmd = "controller_ack" /\ HangUp /\ abandoned' = abandoned
      BY <1>12, <2>3 DEF RestartDrone, PollerInv
    <3>2. InReply = {}
      BY <3>1 DEF InReply
    <3>3. Wasted' \subseteq Wasted
      BY <2>1, <3>2, UndeliverableFrame
    <3>4. Stale' \subseteq Stale
      BY <3>1, StaleAfterHangUp
    <3>5. CutOff = 0
      BY <3>1 DEF CutOff
    <3> QED BY <2>1, <3>1, <3>3, <3>4, <3>5, NothingWasted
  <2>4. CASE poller \notin {"await", "ackwait"}
    <3>1. UNCHANGED <<conn, cur, abandoned>> /\ cur = NoConn
      BY <1>12, <2>4 DEF RestartDrone, PollerInv
    <3>2. InReply = {} /\ Stale' = Stale /\ CutOff = 0
      BY <3>1, NoReply DEF Stale, StaleHandler, CutOff
    <3>3. Wasted' \subseteq Wasted
      BY <2>1, <3>2, UndeliverableFrame
    <3> QED BY <2>1, <3>1, <3>2, <3>3, NothingWasted
  <2> QED BY <2>2, <2>3, <2>4
<1>13. ASSUME UNCHANGED <<issued, dropped, queue, conn, cur, received, abandoned, baseRestarts>>
       PROVE  LossInv'
  <2>1. InReply' = InReply /\ Stale' = Stale /\ CutOff' = CutOff
    BY <1>13 DEF InReply, Stale, StaleHandler, CutOff
  <2>2. Wasted' \subseteq Wasted
    BY <1>13, <2>1, UndeliverableFrame
  <2> QED BY <1>13, <2>1, <2>2, NothingWasted
<1>14. CASE AckDialFails \/ CheckWiFi \/ StoreStatus \/ LinkFails \/ LinkRecovers
  BY <1>13, <1>14 DEF AckDialFails, CheckWiFi, StoreStatus, LinkFails, LinkRecovers,
                      baseVars, pollerVars
<1>15. CASE UNCHANGED vars
  BY <1>13, <1>15 DEF vars, baseVars, pollerVars
<1> QED
  BY <1>1, <1>2, <1>3, <1>4, <1>5, <1>6, <1>7, <1>8, <1>9, <1>10, <1>11, <1>12,
     <1>14, <1>15 DEF Next
-----------------------------------------------------------------------------
LEMMA InvInit == Init => IInv
<1> SUFFICES ASSUME Init PROVE IInv
  OBVIOUS
<1>1. TypeOK
  BY TypeInit
<1>2. /\ received = <<>> /\ queue = <<>> /\ ackLog = <<>> /\ cur = NoConn /\ poller = "poll"
      /\ conn = [c \in Conns |-> Idle]
      /\ DOMAIN <<>> = {}
  BY DEF Init
<1>3. PollerInv
  BY <1>2 DEF PollerInv, Idle
<1>4. OrderInv
  BY <1>2 DEF OrderInv, Increasing, InReply
<1>5. AckInv
  BY <1>2 DEF AckInv, AckSound, AckPending, SeqRange, Idle
<1>6. Wasted = {} /\ Stale = {}
  BY <1>2 DEF Init, Wasted, Lost, Stale, StaleHandler, Idle
<1>7. LossInv
  <2>1. TypeOK /\ Cardinality(Wasted) = 0 /\ Cardinality(Stale) = 0
    BY <1>1, <1>6, FS_EmptySet
  <2> QED BY <2>1, CountsFinite DEF LossInv
<1> QED BY <1>1, <1>3, <1>4, <1>5, <1>7 DEF IInv

LEMMA InvStep == IInv /\ [Next]_vars => IInv'
  BY TypeStep, PollerStep, OrderStep, AckStep, LossStep DEF IInv

(* The inductive invariant holds for any number of connections, commands,  *)
(* faults and any capacity of the queue.                                   *)
THEOREM Invariance == Spec => []IInv
  BY InvInit, InvStep, PTL DEF Spec

(* Every variable keeps its type; in particular the queue never holds more *)
(* than QueueCap commands.                                                 *)
THEOREM TypeCorrect == Spec => []TypeOK
<1>1. IInv => TypeOK
  BY DEF IInv
<1> QED BY <1>1, Invariance, PTL

(* The drone takes no command twice and none after a newer one, whatever   *)
(* polls are abandoned and processes restarted (startControllerPoller,     *)
(* nextControllerCommand).                                                 *)
THEOREM InOrderDelivery == Spec => []DeliveredInOrder
<1>1. IInv => DeliveredInOrder
  BY DEF IInv, OrderInv, DeliveredInOrder
<1> QED BY <1>1, Invariance, PTL

(* What the base logs as acknowledged was taken, and is logged once        *)
(* (controllerAck).                                                        *)
THEOREM AckSoundness == Spec => []AckSound
<1>1. IInv => AckSound
  BY DEF IInv, AckInv
<1> QED BY <1>1, Invariance, PTL

(* The commands that were accepted, could be sent and will never arrive    *)
(* are no more than the polls that failed or were cut off and a queue for  *)
(* every restart of the base (nextControllerCommand, WiFiTransport.Send).  *)
THEOREM BoundedLoss == Spec => []LossBounded
<1>1. IInv => LossBounded
  <2> SUFFICES ASSUME IInv PROVE LossBounded
    OBVIOUS
  <2> QED BY CountsFinite DEF IInv, LossInv, LossBounded
<1> QED BY <1>1, Invariance, PTL
-----------------------------------------------------------------------------
(* The refinement: a step that moves no command out of the queue, a reply  *)
(* or the operator's hand is a stutter or a loss in the channel.           *)
LEMMA ChannelFrame ==
  ASSUME UNCHANGED <<issued, received>>, InTransit' \subseteq InTransit
  PROVE  Channel!Next
  BY DEF Channel!Next, Channel!Lose

LEMMA ChannelStep == IInv /\ [Next]_vars => [Channel!Next]_Channel!channelVars
<1> SUFFICES ASSUME IInv, [Next]_vars PROVE [Channel!Next]_Channel!channelVars
  OBVIOUS
<1>0. /\ conn \in [Conns -> Connection] /\ NoConn \notin Conns
      /\ cur \in Conns \cup {NoConn} /\ TypeOK /\ PollerInv /\ OrderInv
      /\ queue \in Seq(Command) /\ received \in Seq(Command) /\ issued \in Nat
  BY DeliveryAssumption DEF IInv, TypeOK
<1> USE <1>0
<1>1. CASE EnqueueControllerCommand
  <2>1. /\ InReply' = InReply /\ received' = received /\ issued' = issued + 1
        /\ issued < MaxCommands
    BY <1>1 DEF EnqueueControllerCommand, pollerVars, InReply
  <2>2. CASE queue' = queue
    <3>1. InTransit' = InTransit
      BY <2>1, <2>2 DEF InTransit, SeqRange
    <3> QED BY <2>1, <3>1 DEF Channel!Next, Channel!Issue
  <2>3. CASE queue' = Append(queue, issued + 1)
    <3>1. issued + 1 \in Command
      BY <2>1, DeliveryAssumption DEF Command
    <3>2. SeqRange(queue') = SeqRange(queue) \cup {issued + 1}
      <4>1. /\ DOMAIN queue' = 1 .. Len(queue) + 1 /\ DOMAIN queue = 1 .. Len(queue)
            /\ \A i \in 1 .. Len(queue) : queue'[i] = queue[i]
            /\ queue'[Len(queue) + 1] = issued + 1 /\ Len(queue) \in Nat
        BY <2>3, <3>1, AppendFacts
      <4>2. SeqRange(queue') = {queue'[i] : i \in 1 .. Len(queue) + 1}
        BY <4>1 DEF SeqRange
      <4>3. SeqRange(queue) = {queue[i] : i \in 1 .. Len(queue)}
        BY <4>1 DEF SeqRange
      <4>4. \A i : i \in 1 .. Len(queue) + 1 <=> i \in 1 .. Len(queue) \/ i = Len(queue) + 1
        BY <4>1
      <4> QED BY <4>1, <4>2, <4>3, <4>4, Zenon
    <3>3. InTransit' = InTransit \cup {issued + 1}
      BY <2>1, <3>2 DEF InTransit
    <3> QED BY <2>1, <3>3 DEF Channel!Next, Channel!Issue
  <2> QED BY <1>1, <2>2, <2>3 DEF EnqueueControllerCommand
<1>2. ASSUME NEW c \in Conns, HandleRequest(c) PROVE Channel!Next
  <2>1. InReply' \subseteq InReply
    BY <1>2, ReplyOfHandleRequest
  <2> QED BY <1>2, <2>1, ChannelFrame DEF HandleRequest, pollerVars, InTransit, SeqRange
<1>3. ASSUME NEW c \in Conns, DecodeFails(c) PROVE Channel!Next
  <2>1. InReply' \subseteq InReply
    BY <1>3 DEF DecodeFails, pollerVars, InReply
  <2> QED BY <1>3, <2>1, ChannelFrame DEF DecodeFails, baseVars, pollerVars, InTransit, SeqRange
<1>4. ASSUME NEW c \in Conns, NextControllerCommand(c) PROVE Channel!Next
  <2>1. InReply' \subseteq InReply \cup {Head(queue)}
    BY <1>4, ReplyOfNextCommand
  <2>2. /\ SeqRange(queue') \subseteq SeqRange(queue) /\ Head(queue) \in SeqRange(queue)
    BY <1>4, SeqFacts, TailFacts DEF NextControllerCommand, SeqRange
  <2> QED BY <1>4, <2>1, <2>2, ChannelFrame DEF NextControllerCommand, pollerVars, InTransit
<1>5. ASSUME NEW c \in Conns, LongPollEnds(c) PROVE Channel!Next
  <2>1. InReply' \subseteq InReply
    BY <1>5 DEF LongPollEnds, pollerVars, InReply, PollerInv
  <2> QED BY <1>5, <2>1, ChannelFrame DEF LongPollEnds, baseVars, pollerVars, InTransit, SeqRange
<1>6. ASSUME NEW c \in Conns, WriteReply(c) PROVE Channel!Next
  <2>1. InReply' \subseteq InReply
    BY <1>6, ReplyOfWriteReply
  <2> QED BY <1>6, <2>1, ChannelFrame DEF WriteReply, baseVars, pollerVars, InTransit, SeqRange
<1>7. ASSUME NEW c \in Conns, PollNextCommand(c) PROVE Channel!Next
  <2>1. InReply' = {}
    BY <1>7 DEF PollNextCommand, Dial, InReply
  <2> QED BY <1>7, <2>1, ChannelFrame DEF PollNextCommand, baseVars, InTransit, SeqRange
<1>8. ASSUME NEW c \in Conns, SendAck(c) PROVE Channel!Next
  <2>1. InReply' = {}
    BY <1>8 DEF SendAck, Dial, InReply
  <2> QED BY <1>8, <2>1, ChannelFrame DEF SendAck, baseVars, InTransit, SeqRange
<1>9. CASE RestartBase
  <2>1. InReply' = {} /\ SeqRange(queue') = {}
    BY <1>9 DEF RestartBase, pollerVars, InReply, SeqRange
  <2> QED BY <1>9, <2>1, ChannelFrame DEF RestartBase, pollerVars, InTransit
<1>10. CASE ReadReply
  <2>1. InReply' = {} /\ queue' = queue /\ issued' = issued
    BY <1>10 DEF ReadReply, HangUp, InReply, baseVars
  <2>2. CASE received' = received
    BY <2>1, <2>2, ChannelFrame DEF InTransit, SeqRange
  <2>3. CASE conn[cur].arg # 0 /\ received' = Append(received, conn[cur].arg)
    <3>1. PICK n : n = conn[cur].arg
      OBVIOUS
    <3>2. n \in InReply /\ InReply = {n}
      BY <1>10, <2>3, <3>1 DEF ReadReply, InReply, PollerInv
    <3>3. n \in InTransit
      BY <3>2 DEF InTransit
    <3>4. \A m \in SeqRange(queue) : m > n
      BY <3>2 DEF OrderInv, SeqRange
    <3>5. InTransit' = {m \in InTransit : m > n}
      <4>1. n \in Nat /\ ~(n > n)
        BY <3>2, InReplyType DEF Command
      <4> QED BY <2>1, <3>2, <3>4, <4>1 DEF InTransit, SeqRange
    <3>6. Channel!Receive(n)
      BY <2>1, <2>3, <3>1, <3>3, <3>5 DEF Channel!Receive
    <3> QED BY <3>3, <3>6 DEF Channel!Next
  <2> QED BY <1>10, <2>2, <2>3 DEF ReadReply
<1>11. CASE PollFails
  <2>1. InReply' = {}
    BY <1>11 DEF PollFails, HangUp, InReply
  <2> QED BY <1>11, <2>1, ChannelFrame DEF PollFails, baseVars, InTransit, SeqRange
<1>12. CASE AckDialFails
  BY <1>12, ChannelFrame DEF AckDialFails, baseVars, InTransit, InReply, SeqRange
<1>13. CASE AckEnds
  <2>1. InReply' = {}
    BY <1>13 DEF AckEnds, HangUp, InReply
  <2> QED BY <1>13, <2>1, ChannelFrame DEF AckEnds, baseVars, InTransit, SeqRange
<1>14. CASE CheckWiFi \/ StoreStatus
  BY <1>14, ChannelFrame DEF CheckWiFi, StoreStatus, baseVars, pollerVars, InTransit, InReply, SeqRange
<1>15. CASE RestartDrone
  <2>1. InReply' = {}
    BY <1>15 DEF RestartDrone, HangUp, InReply
  <2> QED BY <1>15, <2>1, ChannelFrame DEF RestartDrone, baseVars, InTransit, SeqRange
<1>16. CASE LinkFails
  BY <1>16, ChannelFrame DEF LinkFails, baseVars, InTransit, InReply, SeqRange
<1>17. CASE LinkRecovers
  BY <1>17, ChannelFrame DEF LinkRecovers, baseVars, pollerVars, InTransit, InReply, SeqRange
<1>18. CASE UNCHANGED vars
  BY <1>18, ChannelFrame DEF vars, baseVars, pollerVars, InTransit, InReply, SeqRange
<1> QED
  BY <1>1, <1>2, <1>3, <1>4, <1>5, <1>6, <1>7, <1>8, <1>9, <1>10, <1>11, <1>12,
     <1>13, <1>14, <1>15, <1>16, <1>17, <1>18 DEF Next

(* The queue, the handlers, the transport and the poller together are no   *)
(* worse than a lossy channel that delivers at most once and in order.     *)
THEOREM Refinement == Spec => RefinesChannel
<1>1. Init => Channel!Init
  <2> SUFFICES ASSUME Init PROVE Channel!Init
    OBVIOUS
  <2>1. SeqRange(queue) = {} /\ InReply = {}
    BY DEF Init, SeqRange, InReply
  <2> QED BY <2>1 DEF Init, Channel!Init, InTransit
<1> QED BY <1>1, ChannelStep, Invariance, PTL DEF Spec, RefinesChannel, Channel!Spec
-----------------------------------------------------------------------------
(* THE SOURCE OF THE COMMANDS *)

LEMMA Int16 == minInt16 = -32768 /\ maxInt16 = 32767
  BY DEF minInt16, maxInt16

(* Whatever an axis reports, what is sent for it fits in 16 bits. *)
LEMMA ClampFits ==
  ASSUME NEW value \in Int
  PROVE  ClampInt32ToInt16(value) \in minInt16 .. maxInt16
<1>1. minInt16 \in Int /\ maxInt16 \in Int /\ minInt16 < maxInt16
  BY Int16
<1> QED BY <1>1 DEF ClampInt32ToInt16

(* Events of the pad become something that can be sent, which is never     *)
(* taken for nothing.                                                      *)
LEMMA ActionFits ==
  ASSUME NEW ev \in Inputs, NEW p \in Nat \ {0}
  PROVE  /\ [at |-> p, act |-> ActionOf(ev)] \in Sendable
         /\ [at |-> p, act |-> ActionOf(ev)] # Nothing
<1>1. ev \in PadEvents /\ ev.value \in Int
  BY SourceAssumption DEF PadEvents
<1>2. ClampInt32ToInt16(ev.value) \in minInt16 .. maxInt16
  BY <1>1, ClampFits
<1>3. 1 \in minInt16 .. maxInt16
  BY Int16
<1>4. ActionOf(ev) \in [action : {"none", "TAKEOFF", "LAND", "MOVE_X"},
                        payload : minInt16 .. maxInt16]
  BY <1>2, <1>3 DEF ActionOf
<1> QED BY <1>4 DEF Sendable, Nothing

LEMMA NothingFits == Nothing \in Sendable /\ Nothing.at = 0
  BY Int16 DEF Nothing, Sendable

(* What Append does to a history. *)
LEMMA HistoryAppend ==
  ASSUME NEW S, NEW s \in Seq(S), NEW e \in S
  PROVE  /\ Len(s) \in Nat /\ Append(s, e) \in Seq(S) /\ Len(Append(s, e)) = Len(s) + 1
         /\ \A i \in 1 .. Len(s) : s[i] \in S /\ Append(s, e)[i] = s[i]
         /\ Append(s, e)[Len(s) + 1] = e
  OBVIOUS

LEMMA SourceInvInit == SourceInit => SourceInv
<1> SUFFICES ASSUME SourceInit PROVE SourceInv
  OBVIOUS
<1>1. SourceTypeOK
  <2>1. events \in Seq(Inputs) /\ offered \in Seq(Sendable) /\ Len(events) = 0
    BY DEF SourceInit
  <2>2. /\ unplugs \in 0 .. MaxUnplugs /\ faults \in 0 .. MaxFaults /\ starts \in 0 .. MaxStarts
        /\ opened \in 0 .. 1 /\ Len(events) <= MaxEvents
    BY <2>1, SourceAssumption DEF SourceInit
  <2> QED BY <2>1, <2>2, NothingFits DEF SourceInit, SourceTypeOK
<1>2. DeviceInv
  BY DEF SourceInit, DeviceInv
<1>3. OfferInv
  <2>1. Len(events) = 0 /\ Len(offered) = 0 /\ hand = Nothing /\ forgotten = {} /\ starts = 0
    BY DEF SourceInit
  <2> QED BY <2>1, FS_EmptySet DEF OfferInv, Sent
<1> QED BY <1>1, <1>2, <1>3 DEF SourceInv

(* Most steps change no history. *)
HistoryKept == UNCHANGED <<events, offered, hand, lives>>

LEMMA OfferFrame == OfferInv /\ HistoryKept => OfferInv'
  BY DEF OfferInv, HistoryKept, lives, Sent

(* The steps of the reader and of the world that keep all histories. *)
Quiet ==
  \/ Scan \/ Open \/ SleepOrDone \/ CheckContext \/ ReadTimesOut \/ ReadFails
  \/ ForwarderEnds \/ Signal \/ CloseListener \/ Return \/ Kill \/ Unplug \/ Plug
  \/ UNCHANGED sourceVars

LEMMA SourceSteps ==
  ASSUME [SourceNext]_sourceVars
  PROVE  \/ Quiet \/ Forward \/ Start
         \/ \E ev \in Inputs : ReadEvent(ev)
  BY Zenon DEF SourceNext, Reader, Quiet

LEMMA QuietKeeps == Quiet => HistoryKept
  BY DEF Quiet, HistoryKept, sourceVars, lives, Scan, Open, SleepOrDone, CheckContext,
         ReadTimesOut, ReadFails, ForwarderEnds, Signal, CloseListener, Return, Kill,
         Unplug, Plug

(* One device is open while it is read, in every step that keeps the       *)
(* histories.                                                              *)
LEMMA QuietStep ==
  ASSUME SourceTypeOK, DeviceInv, Quiet
  PROVE  SourceTypeOK' /\ DeviceInv'
<1> USE SourceAssumption
<1>1. CASE Scan
  BY <1>1 DEF SourceTypeOK, DeviceInv, Scan, Goes, Fault, world, ends, lives
<1>2. CASE Open
  BY <1>2 DEF SourceTypeOK, DeviceInv, Open, Goes, Fault, world, ends, lives
<1>3. CASE SleepOrDone
  BY <1>3 DEF SourceTypeOK, DeviceInv, SleepOrDone, Goes, world, ends, lives
<1>4. CASE CheckContext
  BY <1>4 DEF SourceTypeOK, DeviceInv, CheckContext, Goes, Close, world, ends, lives
<1>5. CASE ReadTimesOut
  BY <1>5 DEF SourceTypeOK, DeviceInv, ReadTimesOut, Goes, world, ends, lives
<1>6. CASE ReadFails
  BY <1>6 DEF SourceTypeOK, DeviceInv, ReadFails, Goes, Fault, Close, world, ends, lives
<1>7. CASE ForwarderEnds \/ Signal \/ CloseListener \/ Return \/ Kill
  BY <1>7 DEF SourceTypeOK, DeviceInv, ForwarderEnds, Signal, CloseListener, Return, Kill,
              Alive, world, ends, lives
<1>8. CASE Unplug \/ Plug
  BY <1>8 DEF SourceTypeOK, DeviceInv, Unplug, Plug, Alive, ends, lives
<1>9. CASE UNCHANGED sourceVars
  BY <1>9 DEF SourceTypeOK, DeviceInv, sourceVars, world, ends, lives
<1> QED BY <1>1, <1>2, <1>3, <1>4, <1>5, <1>6, <1>7, <1>8, <1>9 DEF Quiet

(* An event that is read goes to the end of the history, and to the hand   *)
(* if it has an action: it is newer than everything that was offered.      *)
LEMMA ReadStep ==
  ASSUME SourceInv, NEW ev \in Inputs, ReadEvent(ev)
  PROVE  SourceInv'
<1>0. Len(events) \in Nat
  BY DEF SourceInv, SourceTypeOK
<1> PICK p \in Nat \ {0} : p = Len(events) + 1
  BY <1>0
<1> DEFINE held == [at |-> p, act |-> ActionOf(ev)]
<1>1. /\ Len(events) \in Nat /\ p = Len(events) + 1 /\ Len(events) < MaxEvents
      /\ events' = Append(events, ev) /\ events' \in Seq(Inputs) /\ Len(events') = p
      /\ \A i \in 1 .. Len(events) : events'[i] = events[i]
      /\ events'[p] = ev
  <2>1. events \in Seq(Inputs) /\ events' = Append(events, ev) /\ Len(events) < MaxEvents
    BY DEF SourceInv, SourceTypeOK, ReadEvent
  <2> QED BY <2>1, HistoryAppend
<1>2. /\ reader = "read" /\ hand = Nothing /\ offered' = offered /\ lives' = lives
      /\ forgotten' = forgotten /\ starts' = starts
  BY DEF SourceInv, DeviceInv, ReadEvent, Goes, lives
<1>3. /\ Acts(ev) => reader' = "send" /\ hand' = held
      /\ ~Acts(ev) => reader' = "loop" /\ hand' = hand
  BY Zenon DEF ReadEvent, Goes
<1>4. held \in Sendable /\ held # Nothing
  BY <1>1, ActionFits
<1>5. SourceTypeOK'
  <2>1. hand' \in Sendable /\ reader' \in {"loop", "send"}
    BY <1>3, <1>4 DEF SourceInv, SourceTypeOK
  <2>2. Len(events') <= MaxEvents
    BY <1>1, SourceAssumption
  <2> HIDE DEF held
  <2> QED BY <1>1, <1>2, <2>1, <2>2 DEF SourceInv, SourceTypeOK, ReadEvent, world, ends
<1>6. DeviceInv'
  <2> HIDE DEF held
  <2> QED BY <1>2, <1>3, <1>4 DEF SourceInv, DeviceInv, ReadEvent, Goes, Alive, ends
<1>7. \A q \in 1 .. Len(events) : Sent(q)' <=> Sent(q)
  <2> QED BY <1>1 DEF Sent
<1>8. OfferInv'
  <2>0. Len(offered) \in Nat /\ \A k \in 1 .. Len(offered) : Sent(offered[k].at)
    BY DEF SourceInv, SourceTypeOK, OfferInv
  <2>1. \A k \in 1 .. Len(offered) : offered[k].at \in 1 .. Len(events)
    BY <2>0 DEF Sent
  <2>2. ASSUME NEW k \in 1 .. Len(offered)
        PROVE  /\ Sent(offered[k].at)' /\ offered[k].act = ActionOf(events'[offered[k].at])
               /\ \A m \in 1 .. Len(offered) : k < m => offered[k].at < offered[m].at
    <3>1. /\ offered[k].act = ActionOf(events[offered[k].at])
          /\ \A m \in 1 .. Len(offered) : k < m => offered[k].at < offered[m].at
      BY DEF SourceInv, OfferInv
    <3>2. events'[offered[k].at] = events[offered[k].at]
      BY <1>1, <2>1
    <3>3. Sent(offered[k].at)'
      <4>1. PICK q \in 1 .. Len(events) : q = offered[k].at /\ Sent(q)
        BY <2>0, <2>1
      <4>2. Sent(q)'
        BY <1>7, <4>1
      <4>3. offered[k].at' = q
        BY <1>2, <4>1
      <4> QED BY <4>2, <4>3 DEF Sent
    <3> QED BY <3>1, <3>2, <3>3
  <2>3. hand' # Nothing =>
          /\ hand'.at = Len(events') /\ Sent(hand.at)' /\ hand'.act = ActionOf(events'[hand'.at])
          /\ \A k \in 1 .. Len(offered) : offered[k].at < hand'.at
    <3>1. CASE Acts(ev)
      <4>1. hand'.at = p /\ hand'.act = ActionOf(ev)
        BY <1>3, <3>1
      <4>2. p \in 1 .. Len(events') /\ Acts(events'[p])
        BY <1>1, <3>1
      <4>3. Sent(hand.at)'
        BY <4>1, <4>2 DEF Sent
      <4>4. \A k \in 1 .. Len(offered) : offered[k].at < p
        BY <2>1, <1>1
      <4> QED BY <1>1, <4>1, <4>3, <4>4
    <3>2. CASE ~Acts(ev)
      BY <1>2, <1>3, <3>2
    <3> QED BY <3>1, <3>2
  <2>4. ASSUME NEW q \in 1 .. Len(events'), Sent(q)'
        PROVE  q \in forgotten \cup {hand'.at} \cup {offered[k].at : k \in 1 .. Len(offered)}
    <3>1. CASE q = p
      <4>1. Acts(ev)
        BY <1>1, <2>4, <3>1 DEF Sent
      <4>2. hand'.at = p
        BY <1>3, <4>1
      <4> QED BY <3>1, <4>2
    <3>2. CASE q # p
      <4>1. q \in 1 .. Len(events) /\ Sent(q)
        BY <1>1, <1>7, <2>4, <3>2
      <4>2. q \in forgotten \cup {hand.at} \cup {offered[k].at : k \in 1 .. Len(offered)}
        BY <4>1 DEF SourceInv, OfferInv
      <4>3. q # hand.at
        BY <1>2, <4>1, NothingFits
      <4> QED BY <4>2, <4>3
    <3> QED BY <3>1, <3>2
  <2>5. forgotten \subseteq 1 .. Len(events') /\ Cardinality(forgotten) <= starts
    BY <1>1 DEF SourceInv, OfferInv
  <2> HIDE DEF held
  <2> QED BY <1>2, <2>2, <2>3, <2>4, <2>5, Zenon DEF OfferInv
<1> QED BY <1>5, <1>6, <1>8 DEF SourceInv

(* What is offered is what was in hand, and newer than the rest.           *)
LEMMA ForwardStep ==
  ASSUME SourceInv, Forward
  PROVE  SourceInv'
<1> DEFINE n == Len(offered) + 1
<1>1. /\ Len(offered) \in Nat /\ n \in Nat
      /\ offered' \in Seq(Sendable) /\ Len(offered') = n
      /\ \A k \in 1 .. Len(offered) : offered'[k] = offered[k]
      /\ offered'[n] = hand
  <2>1. offered \in Seq(Sendable) /\ offered' = Append(offered, hand) /\ hand \in Sendable
    BY DEF SourceInv, SourceTypeOK, Forward
  <2> QED BY <2>1, HistoryAppend
<1>2. /\ reader = "send" /\ reader' = "loop" /\ hand # Nothing /\ hand' = Nothing
      /\ events' = events /\ forgotten' = forgotten /\ starts' = starts
  BY DEF SourceInv, DeviceInv, Forward, Goes, lives
<1> HIDE DEF n
<1>3. SourceTypeOK'
  BY <1>1, <1>2, NothingFits DEF SourceInv, SourceTypeOK, Forward, world, ends
<1>4. DeviceInv'
  BY <1>2 DEF SourceInv, DeviceInv, Forward, ends
<1>5. OfferInv'
  <2>0. \A q : Sent(q)' <=> Sent(q)
    BY <1>2 DEF Sent
  <2>1. /\ hand.at = Len(events) /\ Sent(hand.at) /\ hand.act = ActionOf(events[hand.at])
        /\ \A k \in 1 .. Len(offered) : offered[k].at < hand.at
    BY <1>2 DEF SourceInv, OfferInv
  <2>2. ASSUME NEW k \in 1 .. n
        PROVE  /\ Sent(offered'[k].at) /\ offered'[k].act = ActionOf(events[offered'[k].at])
               /\ \A m \in 1 .. n : k < m => offered'[k].at < offered'[m].at
    <3>1. CASE k = n
      <4>1. \A m \in 1 .. n : ~(k < m)
        BY <1>1, <3>1
      <4> QED BY <1>1, <2>1, <3>1, <4>1
    <3>2. CASE k # n
      <4>1. k \in 1 .. Len(offered) /\ offered'[k] = offered[k]
        BY <1>1, <3>2 DEF n
      <4>2. /\ Sent(offered[k].at) /\ offered[k].act = ActionOf(events[offered[k].at])
            /\ \A m \in 1 .. Len(offered) : k < m => offered[k].at < offered[m].at
        BY <4>1 DEF SourceInv, OfferInv
      <4>3. ASSUME NEW m \in 1 .. n, k < m PROVE offered'[k].at < offered'[m].at
        <5>1. CASE m = n
          BY <1>1, <2>1, <4>1, <5>1
        <5>2. CASE m # n
          <6>1. m \in 1 .. Len(offered) /\ offered'[m] = offered[m]
            BY <1>1, <5>2 DEF n
          <6> QED BY <4>1, <4>2, <4>3, <6>1
        <5> QED BY <5>1, <5>2
      <4> QED BY <4>1, <4>2, <4>3
    <3> QED BY <3>1, <3>2
  <2>3. ASSUME NEW q \in 1 .. Len(events), Sent(q)
        PROVE  q \in forgotten \cup {hand'.at} \cup {offered'[k].at : k \in 1 .. n}
    <3>1. q \in forgotten \cup {hand.at} \cup {offered[k].at : k \in 1 .. Len(offered)}
      BY <2>3 DEF SourceInv, OfferInv
    <3>2. CASE q = hand.at
      <4>1. n \in 1 .. n /\ q = offered'[n].at
        BY <1>1, <3>2 DEF n
      <4> QED BY <4>1
    <3>3. ASSUME NEW k \in 1 .. Len(offered), q = offered[k].at
          PROVE  q \in {offered'[j].at : j \in 1 .. n}
      <4>1. k \in 1 .. n /\ q = offered'[k].at
        BY <1>1, <3>3 DEF n
      <4> QED BY <4>1
    <3> QED BY <3>1, <3>2, <3>3
  <2>4. forgotten \subseteq 1 .. Len(events) /\ Cardinality(forgotten) <= starts
    BY DEF SourceInv, OfferInv
  <2> QED BY <1>1, <1>2, <2>0, <2>2, <2>3, <2>4, Zenon DEF OfferInv
<1> QED BY <1>3, <1>4, <1>5 DEF SourceInv

(* A base that starts again forgets at most the event in hand.             *)
LEMMA StartStep ==
  ASSUME SourceInv, Start
  PROVE  SourceInv'
<1>1. /\ hand' = Nothing /\ events' = events /\ offered' = offered
      /\ forgotten' = forgotten \cup ({hand.at} \ {0})
      /\ starts' = starts + 1 /\ starts < MaxStarts /\ starts \in Nat
  BY DEF SourceInv, SourceTypeOK, Start
<1>2. SourceTypeOK'
  <2>1. starts' \in 0 .. MaxStarts /\ 0 \in 0 .. 1
    BY <1>1, SourceAssumption
  <2>2. UNCHANGED <<pad, unplugs, events, offered, faults>>
    BY DEF Start, world
  <2> QED BY <1>1, <2>1, <2>2, NothingFits DEF SourceInv, SourceTypeOK, Start
<1>3. DeviceInv'
  BY DEF DeviceInv, Start
<1>4. OfferInv'
  <2>0. \A q : Sent(q)' <=> Sent(q)
    BY <1>1 DEF Sent
  <2>1. IsFiniteSet(forgotten) /\ Cardinality(forgotten) \in Nat
    <3>1. Len(events) \in Nat /\ forgotten \subseteq 1 .. Len(events)
      BY DEF SourceInv, SourceTypeOK, OfferInv
    <3>2. IsFiniteSet(1 .. Len(events))
      BY <3>1, FS_Interval
    <3> QED BY <3>1, <3>2, FS_Subset, FS_CardinalityType
  <2>2. CASE hand = Nothing
    <3>1. forgotten' = forgotten
      BY <1>1, <2>2, NothingFits
    <3>2. Cardinality(forgotten) <= starts'
      BY <1>1, <2>1 DEF SourceInv, OfferInv
    <3>3. forgotten' \subseteq 1 .. Len(events)
      BY <3>1 DEF SourceInv, OfferInv
    <3>4. \A k \in 1 .. Len(offered) :
            /\ Sent(offered[k].at)' /\ offered[k].act = ActionOf(events[offered[k].at])
            /\ \A m \in 1 .. Len(offered) : k < m => offered[k].at < offered[m].at
      <4>1. \A k \in 1 .. Len(offered) : Sent(offered[k].at)' <=> Sent(offered[k].at)
        BY <1>1 DEF Sent
      <4> QED BY <4>1 DEF SourceInv, OfferInv
    <3>5. hand' = hand
      BY <1>1, <2>2
    <3>6. \A q \in 1 .. Len(events) :
            Sent(q) => q \in forgotten' \cup {hand'.at} \cup {offered[k].at : k \in 1 .. Len(offered)}
      BY <3>1, <3>5 DEF SourceInv, OfferInv
    <3>7. \A q \in 1 .. Len(events) :
            Sent(q)' => q \in forgotten' \cup {hand'.at} \cup {offered[k].at : k \in 1 .. Len(offered)}
      BY <2>0, <3>6
    <3>8. Cardinality(forgotten') <= starts'
      BY <3>1, <3>2
    <3>9. (\A k \in 1 .. Len(offered) :
             /\ Sent(offered[k].at) /\ offered[k].act = ActionOf(events[offered[k].at])
             /\ \A m \in 1 .. Len(offered) : k < m => offered[k].at < offered[m].at)'
      BY <1>1, <3>4, Zenon
    <3>10. (\A q \in 1 .. Len(events) :
             Sent(q) => q \in forgotten \cup {hand.at} \cup {offered[k].at : k \in 1 .. Len(offered)})'
      BY <1>1, <3>7, Zenon
    <3>11. (forgotten \subseteq 1 .. Len(events) /\ Cardinality(forgotten) <= starts)'
      BY <1>1, <3>3, <3>8, Zenon
    <3>12. (hand # Nothing => /\ hand.at = Len(events) /\ Sent(hand.at)
                              /\ hand.act = ActionOf(events[hand.at])
                              /\ \A k \in 1 .. Len(offered) : offered[k].at < hand.at)'
      BY <1>1, Zenon
    <3> QED BY <3>9, <3>10, <3>11, <3>12, Zenon DEF OfferInv
  <2>3. CASE hand # Nothing
    <3>1. hand.at \in 1 .. Len(events)
      BY <2>3 DEF SourceInv, OfferInv, Sent
    <3>2. Cardinality(forgotten \cup {hand.at}) <= Cardinality(forgotten) + 1
      BY <2>1, FS_AddElement
    <3>3. forgotten' = forgotten \cup {hand.at} /\ forgotten' \subseteq 1 .. Len(events)
      <4>1. hand.at # 0 /\ forgotten \subseteq 1 .. Len(events)
        BY <3>1 DEF SourceInv, OfferInv
      <4> QED BY <1>1, <3>1, <4>1
    <3>4. Cardinality(forgotten') <= starts'
      <4>1. Cardinality(forgotten) <= starts
        BY DEF SourceInv, OfferInv
      <4>2. Cardinality(forgotten \cup {hand.at}) \in Nat
        BY <2>1, FS_AddElement, FS_CardinalityType
      <4>3. /\ Cardinality(forgotten') \in Nat
            /\ Cardinality(forgotten') <= Cardinality(forgotten) + 1
        BY <3>2, <3>3, <4>2
      <4>4. Cardinality(forgotten) \in Nat /\ starts \in Nat /\ starts' = starts + 1
        BY <1>1, <2>1
      <4> QED BY <4>1, <4>3, <4>4
    <3>5. \A q \in 1 .. Len(events) :
            Sent(q) => q \in forgotten' \cup {hand'.at} \cup {offered[k].at : k \in 1 .. Len(offered)}
      BY <3>3 DEF SourceInv, OfferInv
    <3>6. \A k \in 1 .. Len(offered) :
            /\ Sent(offered[k].at)' /\ offered[k].act = ActionOf(events[offered[k].at])
            /\ \A m \in 1 .. Len(offered) : k < m => offered[k].at < offered[m].at
      <4>1. \A k \in 1 .. Len(offered) : Sent(offered[k].at)' <=> Sent(offered[k].at)
        BY <1>1 DEF Sent
      <4> QED BY <4>1 DEF SourceInv, OfferInv
    <3>7. \A q \in 1 .. Len(events) :
            Sent(q)' => q \in forgotten' \cup {hand'.at} \cup {offered[k].at : k \in 1 .. Len(offered)}
      BY <2>0, <3>5
    <3>8. (\A k \in 1 .. Len(offered) :
             /\ Sent(offered[k].at) /\ offered[k].act = ActionOf(events[offered[k].at])
             /\ \A m \in 1 .. Len(offered) : k < m => offered[k].at < offered[m].at)'
      BY <1>1, <3>6, Zenon
    <3>9. (\A q \in 1 .. Len(events) :
             Sent(q) => q \in forgotten \cup {hand.at} \cup {offered[k].at : k \in 1 .. Len(offered)})'
      BY <1>1, <3>7, Zenon
    <3>10. (forgotten \subseteq 1 .. Len(events) /\ Cardinality(forgotten) <= starts)'
      BY <1>1, <3>3, <3>4, Zenon
    <3>11. (hand # Nothing => /\ hand.at = Len(events) /\ Sent(hand.at)
                              /\ hand.act = ActionOf(events[hand.at])
                              /\ \A k \in 1 .. Len(offered) : offered[k].at < hand.at)'
      BY <1>1, Zenon
    <3> QED BY <3>8, <3>9, <3>10, <3>11, Zenon DEF OfferInv
  <2> QED BY <2>2, <2>3
<1> QED BY <1>2, <1>3, <1>4 DEF SourceInv

LEMMA SourceInvStep == SourceInv /\ [SourceNext]_sourceVars => SourceInv'
<1> SUFFICES ASSUME SourceInv, [SourceNext]_sourceVars PROVE SourceInv'
  OBVIOUS
<1>1. CASE Quiet
  <2>1. SourceTypeOK' /\ DeviceInv'
    BY <1>1, QuietStep DEF SourceInv
  <2>2. OfferInv'
    BY <1>1, QuietKeeps, OfferFrame DEF SourceInv
  <2> QED BY <2>1, <2>2 DEF SourceInv
<1>2. CASE Forward
  BY <1>2, ForwardStep
<1>3. CASE Start
  BY <1>3, StartStep
<1>4. CASE \E ev \in Inputs : ReadEvent(ev)
  BY <1>4, ReadStep
<1> QED BY <1>1, <1>2, <1>3, <1>4, SourceSteps

(* Whatever the pad reports and however often it is pulled out, reads fail *)
(* and the base ends and starts again: one device is open while it is read *)
(* and none otherwise, and every event with an action is offered to the    *)
(* queue once, in order and within 16 bits, or is one of those in hand     *)
(* when a base ended (internal/controller/xbox360.go).                     *)
THEOREM SourceInvariance == SourceSpec => []SourceInv
<1>1. SourceInit => SourceInv
  BY SourceInvInit
<1>2. SourceInv /\ [SourceNext]_sourceVars => SourceInv'
  BY SourceInvStep
<1> QED BY <1>1, <1>2, PTL DEF SourceSpec
-----------------------------------------------------------------------------
(* THE WHOLE WAY.  A step of the whole is a step of each part, or leaves   *)
(* it alone.                                                               *)

LEMMA PathSteps ==
  ASSUME [PathNext]_pathVars
  PROVE  [SourceNext]_sourceVars /\ [Next]_vars
<1>1. CASE ReadPad
  BY <1>1, Zenon DEF ReadPad, SourceNext
<1>2. CASE Submit
  BY <1>2, Zenon DEF Submit, SourceNext, Next
<1>3. CASE BaseEnds
  BY <1>3, Zenon DEF BaseEnds, SourceNext, Next
<1>4. CASE BaseStarts
  BY <1>4, Zenon DEF BaseStarts, SourceNext, Next
<1>5. CASE Serve
  BY <1>5, Zenon DEF Serve, Next
<1>6. CASE Connect
  BY <1>6, Zenon DEF Connect, Next
<1>7. CASE DroneGoesOn
  BY <1>7, Zenon DEF DroneGoesOn, Next
<1>8. CASE LinkChanges
  BY <1>8, Zenon DEF LinkChanges, Next
<1>9. CASE UNCHANGED pathVars
  BY <1>9, Zenon DEF pathVars
<1> QED BY <1>1, <1>2, <1>3, <1>4, <1>5, <1>6, <1>7, <1>8, <1>9 DEF PathNext

(* What is true of the source and of the delivery alone is true of them    *)
(* together: neither does to the other what the other does not know.       *)
THEOREM Composition == PathSpec => SourceSpec /\ Spec
<1>1. PathInit => SourceInit /\ Init
  BY DEF PathInit
<1>2. [PathNext]_pathVars => [SourceNext]_sourceVars /\ [Next]_vars
  BY PathSteps
<1> QED BY <1>1, <1>2, PTL DEF PathSpec, SourceSpec, Spec


LEMMA SourceKeeps ==
  ASSUME Reader \/ ForwarderEnds \/ Signal \/ Unplug \/ Plug
  PROVE  UNCHANGED <<offered, starts, main>>
<1>1. CASE Reader
  <2>1. ASSUME NEW ev \in Inputs, ReadEvent(ev) PROVE UNCHANGED <<offered, starts, main>>
    BY <2>1 DEF ReadEvent, ends, lives
  <2> QED
    BY <1>1, <2>1 DEF Reader, Scan, Open, SleepOrDone, CheckContext, ReadTimesOut, ReadFails,
       ends, lives
<1>2. CASE ForwarderEnds \/ Signal \/ Unplug \/ Plug
  BY <1>2 DEF ForwarderEnds, Signal, Unplug, Plug, ends, lives
<1> QED BY <1>1, <1>2

LEMMA DeliveryKeeps ==
  ASSUME \/ DroneGoesOn \/ Connect \/ Serve
  PROVE  UNCHANGED <<issued, baseRestarts, linkGood>>
<1>1. CASE DroneGoesOn
  BY <1>1, Zenon DEF DroneGoesOn, ReadReply, PollFails, AckDialFails, AckEnds, CheckWiFi, StoreStatus,
              RestartDrone, baseVars
<1>2. CASE Connect
  BY <1>2, Zenon DEF Connect, PollNextCommand, SendAck, baseVars
<1>3. CASE Serve
  BY <1>3, Zenon DEF Serve, HandleRequest, DecodeFails, NextControllerCommand, LongPollEnds,
              WriteReply, baseVars
<1> QED BY <1>1, <1>2, <1>3

LEMMA JointStep ==
  ASSUME SourceInv, IInv, JointInv, [PathNext]_pathVars
  PROVE  JointInv'
<1>0. offered \in Seq(Sendable) /\ hand \in Sendable /\ issued \in Nat
  BY DeliveryAssumption DEF SourceInv, SourceTypeOK, IInv, TypeOK
<1>1. CASE ReadPad
  BY <1>1, SourceKeeps DEF ReadPad, JointInv, vars, baseVars
<1>2. CASE Submit
  <2>1. Len(offered') = Len(offered) + 1 /\ issued' = issued + 1
    BY <1>0, <1>2, HistoryAppend DEF Submit, Forward, EnqueueControllerCommand
  <2>2. UNCHANGED <<starts, baseRestarts, linkGood, main>>
    BY <1>2 DEF Submit, Forward, EnqueueControllerCommand, lives, ends
  <2> QED BY <2>1, <2>2 DEF JointInv
<1>3. CASE BaseEnds
  <2>1. ~linkGood' /\ UNCHANGED <<issued, baseRestarts>>
    <3>1. CASE LinkFails
      BY <3>1 DEF LinkFails, baseVars
    <3>2. CASE ~linkGood /\ UNCHANGED vars
      BY <3>2 DEF vars, baseVars
    <3> QED BY <1>3, <3>1, <3>2 DEF BaseEnds
  <2>2. UNCHANGED <<offered, starts>>
    BY <1>3 DEF BaseEnds, CloseListener, Return, Kill, lives
  <2> QED BY <2>1, <2>2 DEF JointInv
<1>4. CASE BaseStarts
  <2>1. main' = "serving" /\ starts' = starts + 1 /\ offered' = offered
    BY <1>4 DEF BaseStarts, Start
  <2>2. baseRestarts' = baseRestarts + 1 /\ issued' = issued
    BY <1>4 DEF BaseStarts, RestartBase
  <2> QED BY <2>1, <2>2 DEF JointInv
<1>5. CASE Serve \/ Connect \/ DroneGoesOn
  <2>1. UNCHANGED sourceVars
    BY <1>5 DEF Serve, Connect, DroneGoesOn
  <2> QED BY <1>5, <2>1, DeliveryKeeps DEF JointInv, sourceVars, ends, lives
<1>6. CASE LinkChanges
  BY <1>6 DEF LinkChanges, LinkFails, LinkRecovers, JointInv, sourceVars, ends, lives, baseVars
<1>7. CASE UNCHANGED pathVars
  BY <1>7 DEF pathVars, JointInv, sourceVars, vars, baseVars, ends, lives
<1> QED BY <1>1, <1>2, <1>3, <1>4, <1>5, <1>6, <1>7 DEF PathNext

(* The invariants of both parts hold of the whole, and the two agree: the  *)
(* commands are numbered as the events were offered, both count the same   *)
(* restarts, and a base that can be reached accepts connections.           *)
THEOREM PathInvariance == PathSpec => []PathInv
<1>1. PathInit => PathInv
  <2>1. ASSUME PathInit PROVE JointInv
    BY <2>1 DEF PathInit, SourceInit, Init, JointInv
  <2> QED BY <2>1, SourceInvInit, InvInit DEF PathInit, PathInv
<1>2. PathInv /\ [PathNext]_pathVars => PathInv'
  BY PathSteps, SourceInvStep, InvStep, JointStep DEF PathInv
<1> QED BY <1>1, <1>2, PTL DEF PathSpec

(* The drone takes what the pilot did on the pad, in that order and each   *)
(* thing at most once, whatever happens to the pad, the link, the base and *)
(* the drone (xbox360.go, cmd/base/main.go, startControllerPoller).        *)
THEOREM EndToEndOrder == PathSpec => []TakenAsPressed
<1>1. ASSUME PathInv PROVE TakenAsPressed
  <2>1. /\ \A i \in 1 .. Len(received) : received[i] \in 1 .. Len(offered)
        /\ \A i, j \in 1 .. Len(received) : i < j => received[i] < received[j]
    <3>1. received \in Seq(Command) /\ issued = Len(offered) /\ issued \in Nat
      BY <1>1, DeliveryAssumption DEF PathInv, IInv, TypeOK, JointInv
    <3>2. DOMAIN received = 1 .. Len(received) /\ \A i \in DOMAIN received : received[i] \in Command
      BY <3>1, SeqFacts
    <3>3. Increasing(received) /\ \A i \in DOMAIN received : received[i] <= issued
      BY <1>1 DEF PathInv, IInv, OrderInv
    <3>4. \A i \in 1 .. Len(received) : received[i] \in Nat /\ 1 <= received[i]
      BY <3>2, DeliveryAssumption DEF Command
    <3>5. \A i \in 1 .. Len(received) : received[i] <= Len(offered)
      BY <3>1, <3>2, <3>3
    <3>6. Len(offered) \in Nat
      BY <3>1
    <3>7. \A i, j \in 1 .. Len(received) : i < j => received[i] < received[j]
      BY <3>2, <3>3, Zenon DEF Increasing
    <3>8. \A i \in 1 .. Len(received) : received[i] \in 1 .. Len(offered)
      BY <3>4, <3>5, <3>6
    <3> QED BY <3>7, <3>8
  <2>2. \A k \in 1 .. Len(offered) :
          /\ Sent(offered[k].at) /\ offered[k].act = ActionOf(events[offered[k].at])
          /\ \A m \in 1 .. Len(offered) : k < m => offered[k].at < offered[m].at
    BY <1>1 DEF PathInv, SourceInv, OfferInv
  <2> QED BY <2>1, <2>2 DEF TakenAsPressed
<1> QED BY <1>1, PathInvariance, PTL

(* An event that is lost went with a base, or its command is one that was  *)
(* wasted.                                                                 *)
LEMMA LostPress ==
  ASSUME PathInv, NEW p \in LostPresses
  PROVE  p \in forgotten \/ \E n \in Wasted : p = offered[n].at
<1>1. /\ p \in 1 .. Len(events) /\ Sent(p) /\ p # hand.at
      /\ \A n \in 1 .. issued :
           n \in SeqRange(received) \cup dropped \cup InTransit \cup Unmarshalable \cup Oversized
             => p # offered[n].at
  BY Zenon DEF LostPresses, Presses
<1>2. SUFFICES ASSUME p \notin forgotten PROVE \E n \in Wasted : p = offered[n].at
  OBVIOUS
<1>3. PICK k \in 1 .. Len(offered) : p = offered[k].at
  BY <1>1, <1>2 DEF PathInv, SourceInv, OfferInv
<1>4. k \in 1 .. issued
  BY <1>3 DEF PathInv, JointInv
<1>5. k \in Wasted
  BY <1>1, <1>3, <1>4, Zenon DEF Wasted, Lost
<1> QED BY <1>3, <1>5

(* The events of the pilot that are lost on the way are no more than the   *)
(* polls of the drone that failed or were cut off, and for every restart   *)
(* of the base a queue of them and the one in hand: the pad, the reader    *)
(* and the link lose none by themselves.                                   *)
THEOREM EndToEndLoss == PathSpec => []PressLossBounded
<1>1. ASSUME PathInv PROVE Cardinality(LostPresses) <= Allowance + starts
  <2> DEFINE places == {offered[n].at : n \in Wasted}
             place == [n \in Wasted |-> offered[n].at]
  <2>0. TypeOK /\ LossInv /\ starts \in Nat
    BY <1>1 DEF PathInv, IInv, SourceInv, SourceTypeOK
  <2>1. /\ IsFiniteSet(Wasted) /\ Cardinality(Wasted) \in Nat /\ Allowance \in Nat
        /\ Cardinality(Wasted) <= Allowance
    BY <2>0, CountsFinite DEF LossInv
  <2>2. place \in Surjection(Wasted, places)
    BY DEF Surjection
  <2>3. IsFiniteSet(places) /\ Cardinality(places) <= Cardinality(Wasted)
    BY <2>1, <2>2, FS_Surjection
  <2>4. IsFiniteSet(forgotten) /\ Cardinality(forgotten) <= starts
    <3>1. /\ Len(events) \in Nat /\ forgotten \subseteq 1 .. Len(events)
          /\ Cardinality(forgotten) <= starts
      BY <1>1 DEF PathInv, SourceInv, SourceTypeOK, OfferInv
    <3>2. IsFiniteSet(1 .. Len(events))
      BY <3>1, FS_Interval
    <3> QED BY <3>1, <3>2, FS_Subset
  <2>5. LostPresses \subseteq places \cup forgotten
    BY <1>1, LostPress
  <2> HIDE DEF places, place
  <2>6. /\ IsFiniteSet(places \cup forgotten)
        /\ Cardinality(places \cup forgotten) <= Cardinality(places) + Cardinality(forgotten)
    BY <2>3, <2>4, UnionCount
  <2>7. IsFiniteSet(LostPresses) /\ Cardinality(LostPresses) <= Cardinality(places \cup forgotten)
    BY <2>5, <2>6, FS_Subset
  <2>8. /\ Cardinality(places) \in Nat /\ Cardinality(forgotten) \in Nat
        /\ Cardinality(places \cup forgotten) \in Nat /\ Cardinality(LostPresses) \in Nat
    BY <2>3, <2>4, <2>6, <2>7, FS_CardinalityType
  <2> QED BY <2>0, <2>1, <2>3, <2>4, <2>6, <2>7, <2>8
<1>2. PathInv => PressLossBounded
  BY <1>1 DEF PressLossBounded
<1> QED BY <1>2, PathInvariance, PTL
=============================================================================
