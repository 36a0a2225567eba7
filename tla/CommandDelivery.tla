--------------------------- MODULE CommandDelivery ---------------------------
(***************************************************************************)
(* The way of an operator command from the base's controller queue to the  *)
(* drone: EnqueueControllerCommand, nextControllerCommand and TCPHandler   *)
(* on the base (internal/protocol), WiFiTransport.Send and the controller  *)
(* poller on the drone (cmd/drone/main.go), the acknowledgement that goes  *)
(* back, and the flag with which the WiFi poller switches polling on.      *)
(*                                                                         *)
(* Every request has a TCP connection of its own.  The goroutine that      *)
(* serves it does not notice that its client has gone: it goes on to take  *)
(* a command from the queue and finds nobody to give it to.                *)
(***************************************************************************)
EXTENDS Naturals, Sequences, FiniteSets

CONSTANTS
  Conns,                \* connections that can exist at one time
  NoConn,               \* the poller has no request outstanding
  QueueCap,             \* capacity of controllerQueue (100 in the code)
  MaxCommands,          \* bound: commands the operator issues
  MaxAbandoned,         \* bound: polls given up because the deadline passed
  MaxRestarts,          \* bound: restarts of the base, and of the drone
  Unmarshalable,        \* commands whose payload json.Marshal refuses
  Oversized             \* commands whose reply exceeds the 64 KiB payload

ASSUME DeliveryAssumption ==
  /\ NoConn \notin Conns
  /\ IsFiniteSet(Conns)
  /\ QueueCap \in Nat
  /\ MaxCommands \in Nat
  /\ MaxAbandoned \in Nat
  /\ MaxRestarts \in Nat

VARIABLES
  issued,               \* commands issued; command n is the n-th of them
  dropped,              \* commands refused because the queue was full
  queue,                \* controllerQueue
  conn,                 \* per connection: how far its TCPHandler has come
  poller,               \* where startControllerPoller's goroutine stands
  cur,                  \* the connection the poller waits on
  taken,                \* the command being acknowledged, 0 if none
  status,               \* wifiConnected, the flag shared with the WiFi poller
  check,                \* a ping of the WiFi poller: none, over a good link, suspect
  linkGood,             \* the base is reachable and answers in time
  suspect,              \* the outstanding request may miss its deadline
  received,             \* commands the drone took ("controller action received")
  ackLog,               \* commands whose acknowledgement the base logged
  abandoned,            \* polls that ended without an answer
  baseRestarts, droneRestarts

baseVars == <<issued, dropped, queue, ackLog, baseRestarts>>
pollerVars == <<poller, cur, taken, suspect, received, abandoned>>
vars == <<baseVars, conn, pollerVars, status, check, linkGood, droneRestarts>>

Command == 1 .. MaxCommands

(* The stages of a connection.  "sent": the handler has written its reply  *)
(* and returned; "closed": it has returned without a reply.                *)
Stage == {"free", "decode", "select", "write", "sent", "closed"}

(* arg is the command an acknowledgement names, or the one a reply carries *)
(* (0: the Data field is empty).                                           *)
Connection ==
  [stage : Stage, cmd : {"next_command", "controller_ack"}, arg : 0 .. MaxCommands]

Idle == [stage |-> "free", cmd |-> "next_command", arg |-> 0]

TypeOK ==
  /\ issued \in 0 .. MaxCommands
  /\ dropped \subseteq Command
  /\ queue \in Seq(Command) /\ Len(queue) <= QueueCap
  /\ conn \in [Conns -> Connection]
  /\ poller \in {"poll", "await", "ack", "ackwait"}
  /\ cur \in Conns \cup {NoConn}
  /\ taken \in 0 .. MaxCommands
  /\ check \in {"none", "good", "suspect"}
  /\ status \in BOOLEAN /\ linkGood \in BOOLEAN /\ suspect \in BOOLEAN
  /\ received \in Seq(Command)
  /\ ackLog \in Seq(Command)
  /\ abandoned \in Nat
  /\ baseRestarts \in 0 .. MaxRestarts /\ droneRestarts \in 0 .. MaxRestarts

Init ==
  /\ issued = 0 /\ dropped = {} /\ queue = <<>> /\ ackLog = <<>>
  /\ conn = [c \in Conns |-> Idle]
  /\ poller = "poll" /\ cur = NoConn /\ taken = 0
  /\ check = "none"
  /\ status = FALSE /\ linkGood = TRUE /\ suspect = FALSE
  /\ received = <<>> /\ abandoned = 0
  /\ baseRestarts = 0 /\ droneRestarts = 0
-----------------------------------------------------------------------------
(* THE BASE *)

(* Mutant: the oldest command makes room when the queue is full. *)
EnqueueDroppingOldest ==
  /\ issued < MaxCommands
  /\ issued' = issued + 1
  /\ queue' = Append(IF Len(queue) >= QueueCap /\ queue # <<>>
                     THEN Tail(queue) ELSE queue, issued + 1)
  /\ UNCHANGED <<dropped, conn, pollerVars, status, check, linkGood, ackLog,
                 baseRestarts, droneRestarts>>

(* A controller event reaches the goroutine that queues it; when the       *)
(* buffered channel is full the select falls through to default and the    *)
(* newest command is dropped.                                              *)
EnqueueControllerCommand ==
  /\ issued < MaxCommands
  /\ issued' = issued + 1
  /\ \/ /\ Len(queue) < QueueCap
        /\ queue' = Append(queue, issued + 1)
        /\ UNCHANGED dropped
     \/ /\ Len(queue) >= QueueCap
        /\ dropped' = dropped \cup {issued + 1}
        /\ UNCHANGED queue
  /\ UNCHANGED <<conn, pollerVars, status, check, linkGood, ackLog,
                 baseRestarts, droneRestarts>>

(* DecodeMessage has the whole request and the command is looked up in     *)
(* FuncMap; the read has no deadline, so this happens whether or not the   *)
(* client still waits.  controllerAck only logs.                           *)
HandleRequest(c) ==
  /\ conn[c].stage = "decode"
  /\ \/ /\ conn[c].cmd = "next_command"
        /\ conn' = [conn EXCEPT ![c].stage = "select"]
        /\ UNCHANGED ackLog
     \/ /\ conn[c].cmd = "controller_ack"
        /\ ackLog' = Append(ackLog, conn[c].arg)
        /\ conn' = [conn EXCEPT ![c].stage = "write", ![c].arg = 0]
  /\ UNCHANGED <<issued, dropped, queue, baseRestarts,
                 pollerVars, status, check, linkGood, droneRestarts>>

(* The client closed before its request had arrived: DecodeMessage fails.  *)
DecodeFails(c) ==
  /\ conn[c].stage = "decode"
  /\ c # cur
  /\ conn' = [conn EXCEPT ![c] = Idle]
  /\ UNCHANGED <<baseVars, pollerVars, status, check, linkGood, droneRestarts>>

(* Mutant: the command stays in the queue after it was handed out. *)
NextCommandPeeks(c) ==
  /\ conn[c].stage = "select"
  /\ queue # <<>>
  /\ conn' = [conn EXCEPT ![c].stage = "write", ![c].arg = Head(queue)]
  /\ UNCHANGED <<baseVars, pollerVars, status, check, linkGood, droneRestarts>>

(* Mutant: the newest command is handed out first. *)
NextCommandNewestFirst(c) ==
  /\ conn[c].stage = "select"
  /\ queue # <<>>
  /\ queue' = SubSeq(queue, 1, Len(queue) - 1)
  /\ conn' = [conn EXCEPT ![c].stage = "write", ![c].arg = queue[Len(queue)]]
  /\ UNCHANGED <<issued, dropped, ackLog, baseRestarts,
                 pollerVars, status, check, linkGood, droneRestarts>>

(* nextControllerCommand: the head of the queue leaves it for good; if it  *)
(* cannot be marshalled the reply is as empty as after a timeout.          *)
NextControllerCommand(c) ==
  /\ conn[c].stage = "select"
  /\ queue # <<>>
  /\ queue' = Tail(queue)
  /\ conn' = [conn EXCEPT ![c].stage = "write",
                          ![c].arg = IF Head(queue) \in Unmarshalable
                                     THEN 0 ELSE Head(queue)]
  /\ UNCHANGED <<issued, dropped, ackLog, baseRestarts,
                 pollerVars, status, check, linkGood, droneRestarts>>

(* Mutant: only the shutdown of the base ends a long poll. *)
LongPollWithoutTimer(c) ==
  /\ conn[c].stage = "select"
  /\ baseRestarts < MaxRestarts /\ ~linkGood
  /\ conn' = [conn EXCEPT ![c].stage = "write"]
  /\ UNCHANGED <<baseVars, pollerVars, status, check, linkGood, droneRestarts>>

(* nextControllerCommand: two seconds have passed, or the base shuts down. *)
LongPollEnds(c) ==
  /\ conn[c].stage = "select"
  /\ conn' = [conn EXCEPT ![c].stage = "write"]
  /\ UNCHANGED <<baseVars, pollerVars, status, check, linkGood, droneRestarts>>

(* The end of TCPHandler: EncodeMessage refuses a payload that is too long *)
(* and the connection is closed without a reply; otherwise the reply is    *)
(* written, for nobody if the client has gone.                             *)
WriteReply(c) ==
  /\ conn[c].stage = "write"
  /\ \/ c # cur /\ conn' = [conn EXCEPT ![c] = Idle]
     \/ /\ c = cur
        /\ conn' = [conn EXCEPT ![c].stage = IF conn[c].arg \in Oversized
                                             THEN "closed" ELSE "sent"]
  /\ UNCHANGED <<baseVars, pollerVars, status, check, linkGood, droneRestarts>>

(* The base process ends and starts again: the queue is in memory only,    *)
(* and every connection is reset.                                          *)
RestartBase ==
  /\ ~linkGood
  /\ baseRestarts < MaxRestarts
  /\ baseRestarts' = baseRestarts + 1
  /\ queue' = <<>>
  /\ conn' = [c \in Conns |-> IF c = cur THEN [conn[c] EXCEPT !.stage = "closed"]
                                         ELSE Idle]
  /\ UNCHANGED <<issued, dropped, ackLog, pollerVars,
                 status, check, linkGood, droneRestarts>>
-----------------------------------------------------------------------------
(* THE DRONE *)

(* WiFiTransport.Send up to the request on its way: a connection is dialled *)
(* and its deadline set.                                                   *)
Dial(c, cmd, arg) ==
  /\ conn[c].stage = "free"
  /\ conn' = [conn EXCEPT ![c] = [stage |-> "decode", cmd |-> cmd, arg |-> arg]]
  /\ cur' = c
  /\ suspect' = ~linkGood

(* WiFiTransport.Send returns and closes its connection: an answered one   *)
(* is gone, an abandoned one leaves its handler behind.                    *)
HangUp ==
  /\ conn' = [conn EXCEPT ![cur] = IF conn[cur].stage \in {"sent", "closed"}
                                   THEN Idle ELSE conn[cur]]
  /\ cur' = NoConn
  /\ suspect' = FALSE

(* The poller sends next_command when the flag says that WiFi is up.  (A   *)
(* dial that fails changes nothing: the poller sleeps and tries again.)    *)
PollNextCommand(c) ==
  /\ poller = "poll"
  /\ status
  /\ Dial(c, "next_command", 0)
  /\ poller' = "await"
  /\ UNCHANGED <<baseVars, taken, received, abandoned,
                 status, check, linkGood, droneRestarts>>

(* The reply is read: an empty one sends the poller back to its loop, a    *)
(* command is taken.                                                       *)
ReadReply ==
  /\ poller = "await"
  /\ conn[cur].stage = "sent"
  /\ HangUp
  /\ \/ conn[cur].arg = 0 /\ poller' = "poll" /\ UNCHANGED <<taken, received>>
     \/ /\ conn[cur].arg # 0
        /\ received' = Append(received, conn[cur].arg)
        /\ taken' = conn[cur].arg
        /\ poller' = "ack"
  /\ UNCHANGED <<baseVars, abandoned, status, check, linkGood, droneRestarts>>

(* The poll ends in an error: the connection was closed without a reply,   *)
(* or the deadline has passed.                                             *)
PollFails ==
  /\ poller = "await"
  /\ \/ conn[cur].stage = "closed"
     \/ suspect /\ abandoned < MaxAbandoned
  /\ HangUp
  /\ abandoned' = abandoned + 1
  /\ poller' = "poll"
  /\ UNCHANGED <<baseVars, taken, received, status, check, linkGood, droneRestarts>>

(* The command is acknowledged on a connection of its own. *)
SendAck(c) ==
  /\ poller = "ack"
  /\ Dial(c, "controller_ack", taken)
  /\ poller' = "ackwait"
  /\ UNCHANGED <<baseVars, taken, received, abandoned,
                 status, check, linkGood, droneRestarts>>

(* The acknowledgement cannot be sent; the error is logged, that is all. *)
AckDialFails ==
  /\ poller = "ack"
  /\ ~linkGood
  /\ poller' = "poll" /\ taken' = 0
  /\ UNCHANGED <<baseVars, conn, cur, suspect, received, abandoned,
                 status, check, linkGood, droneRestarts>>

(* Mutant: an acknowledgement that got no answer is sent again. *)
AckRetried ==
  /\ poller = "ackwait"
  /\ conn[cur].stage \in {"sent", "closed"} \/ suspect
  /\ HangUp
  /\ IF conn[cur].stage = "sent" THEN poller' = "poll" /\ taken' = 0
                                 ELSE poller' = "ack" /\ UNCHANGED taken
  /\ UNCHANGED <<baseVars, received, abandoned, status, check, linkGood, droneRestarts>>

(* The acknowledgement is answered or given up; the poller treats both alike. *)
AckEnds ==
  /\ poller = "ackwait"
  /\ conn[cur].stage \in {"sent", "closed"} \/ suspect
  /\ HangUp
  /\ poller' = "poll" /\ taken' = 0
  /\ UNCHANGED <<baseVars, received, abandoned, status, check, linkGood, droneRestarts>>

(* A tick of the WiFi poller: CheckWiFi sends a ping. *)
CheckWiFi ==
  /\ check = "none"
  /\ check' = IF linkGood THEN "good" ELSE "suspect"
  /\ UNCHANGED <<baseVars, conn, pollerVars, status, linkGood, droneRestarts>>

(* Mutant: a check that succeeds does not store its outcome. *)
StoreOnlyFailure ==
  /\ check # "none"
  /\ \/ check = "good" /\ UNCHANGED status
     \/ check = "suspect" /\ status' = FALSE
  /\ check' = "none"
  /\ UNCHANGED <<baseVars, conn, pollerVars, linkGood, droneRestarts>>

(* The outcome of CheckWiFi becomes the flag; by now the link may have     *)
(* failed, or recovered.                                                   *)
StoreStatus ==
  /\ check # "none"
  /\ \/ check = "good" /\ status' = TRUE
     \/ check = "suspect" /\ status' \in BOOLEAN
  /\ check' = "none"
  /\ UNCHANGED <<baseVars, conn, pollerVars, linkGood, droneRestarts>>

(* The drone process ends and starts again, with the flag cleared. *)
RestartDrone ==
  /\ droneRestarts < MaxRestarts
  /\ droneRestarts' = droneRestarts + 1
  /\ \/ cur # NoConn /\ HangUp
     \/ cur = NoConn /\ UNCHANGED <<conn, cur, suspect>>
  /\ abandoned' = IF poller = "await" THEN abandoned + 1 ELSE abandoned
  /\ poller' = "poll" /\ taken' = 0 /\ status' = FALSE /\ check' = "none"
  /\ UNCHANGED <<baseVars, received, linkGood>>
-----------------------------------------------------------------------------
(* THE LINK.  While it is good no deadline passes; a request that was      *)
(* under way at any moment when it was not may still miss its deadline.    *)

LinkFails ==
  /\ linkGood
  /\ linkGood' = FALSE
  /\ suspect' = (cur # NoConn)
  /\ check' = IF check = "none" THEN "none" ELSE "suspect"
  /\ UNCHANGED <<baseVars, conn, poller, cur, taken, received, abandoned,
                 status, droneRestarts>>

LinkRecovers ==
  /\ ~linkGood
  /\ linkGood' = TRUE
  /\ UNCHANGED <<baseVars, conn, pollerVars, status, check, droneRestarts>>

Next ==
  \/ EnqueueControllerCommand
  \/ \E c \in Conns : \/ HandleRequest(c) \/ DecodeFails(c)
                      \/ NextControllerCommand(c) \/ LongPollEnds(c)
                      \/ WriteReply(c)
                      \/ PollNextCommand(c) \/ SendAck(c)
  \/ RestartBase
  \/ ReadReply \/ PollFails \/ AckDialFails \/ AckEnds
  \/ CheckWiFi \/ StoreStatus \/ RestartDrone
  \/ LinkFails \/ LinkRecovers

Spec == Init /\ [][Next]_vars

(* Goroutines that can run do run, timers fire, sockets deliver.  Between  *)
(* two ready cases select chooses at random, so a case that is ready again *)
(* and again is chosen in the end: strong fairness.  The operator, the     *)
(* link and restarts are under no obligation.                              *)
Fairness ==
  /\ \A c \in Conns : /\ WF_vars(HandleRequest(c) \/ DecodeFails(c))
                      /\ SF_vars(NextControllerCommand(c))
                      /\ WF_vars(NextControllerCommand(c) \/ LongPollEnds(c))
                      /\ WF_vars(WriteReply(c))
  /\ WF_vars(\E c \in Conns : PollNextCommand(c))
  /\ WF_vars(\E c \in Conns : SendAck(c))
  /\ WF_vars(ReadReply) /\ WF_vars(PollFails) /\ WF_vars(AckEnds)
  /\ WF_vars(CheckWiFi) /\ WF_vars(StoreStatus)

FairSpec == Spec /\ Fairness
-----------------------------------------------------------------------------
SeqRange(s) == {s[i] : i \in DOMAIN s}

Increasing(s) == \A i, j \in DOMAIN s : i < j => s[i] < s[j]

(* The command a reply to the waiting poller carries, if any. *)
InReply ==
  IF /\ cur # NoConn
     /\ conn[cur].cmd = "next_command"
     /\ conn[cur].stage \in {"write", "sent"}
  THEN {conn[cur].arg} \ {0} ELSE {}

InTransit == SeqRange(queue) \cup InReply

Lost == ((1 .. issued) \ dropped) \ (InTransit \cup SeqRange(received))

(* A handler that can still take a command for a client that has gone. *)
StaleHandler(c) ==
  /\ c # cur
  /\ conn[c].cmd = "next_command"
  /\ conn[c].stage \in {"decode", "select"}

(* The drone takes each command at most once and in the order of issue,    *)
(* whatever polls are abandoned, connections reset and processes restarted.*)
DeliveredInOrder == Increasing(received)

(* The base logs an acknowledgement only for a command the drone took, and *)
(* never twice: the poller does not retry, and an acknowledgement that was *)
(* given up is at most late.                                               *)
AckSound ==
  /\ SeqRange(ackLog) \subseteq SeqRange(received)
  /\ \A i, j \in DOMAIN ackLog : ackLog[i] = ackLog[j] => i = j

Wasted == Lost \ (Unmarshalable \cup Oversized)

(* What may have been lost: one command for every poll that failed, or is  *)
(* about to because it was cut off, and a queue for every restart.         *)
CutOff ==
  IF cur # NoConn /\ conn[cur].cmd = "next_command" /\ conn[cur].stage = "closed"
  THEN 1 ELSE 0

Allowance == abandoned + CutOff + baseRestarts * QueueCap

(* Every poll that fails costs at most one accepted command, every restart *)
(* of the base at most a queue of them, and nothing else loses one: the    *)
(* queue forgets no command by itself.                                     *)
LossBounded == Cardinality(Wasted) <= Allowance

(* The path implements the lossy, ordered, at-most-once channel. *)
Channel == INSTANCE CommandChannel WITH inTransit <- InTransit

RefinesChannel == Channel!Spec

(* A command that waits in the queue while the link is good and no         *)
(* handler is left over from an abandoned poll reaches the drone, unless   *)
(* the link fails or the drone restarts first.                             *)
Delivers(n, k) ==
  /\ n \in SeqRange(queue) \ (Unmarshalable \cup Oversized)
  /\ linkGood /\ ~suspect /\ droneRestarts = k
  /\ \A c \in Conns : ~StaleHandler(c)

DeliveredWhileLinkGood ==
  \A n \in Command, k \in 0 .. MaxRestarts :
    Delivers(n, k) ~> \/ n \in SeqRange(received)
                      \/ ~linkGood \/ droneRestarts # k

(* No handler that decoded its request stays behind for ever: the long     *)
(* poll is bounded and the reply of a client that has gone is discarded.   *)
HandlersEnd ==
  \A c \in Conns : conn[c].stage = "select" ~> conn[c].stage \in {"free", "sent", "closed"}
-----------------------------------------------------------------------------
(* THE INDUCTIVE INVARIANT.  DeliveredInOrder alone is not inductive: that *)
(* the next command taken is newer than the last follows from where every  *)
(* command is, in the queue, in a reply, or with the drone.                *)

(* The poller waits exactly while it has a connection, and for what it asked. *)
PollerInv ==
  /\ poller \in {"await", "ackwait"} <=> cur # NoConn
  /\ poller = "await" => conn[cur].cmd = "next_command" /\ conn[cur].stage # "free"
  /\ poller = "ackwait" => conn[cur].cmd = "controller_ack" /\ conn[cur].stage # "free"
  /\ poller = "ack" => taken # 0
  /\ \A c \in Conns :
       /\ conn[c].cmd = "next_command" /\ conn[c].stage \in {"decode", "select"}
            => conn[c].arg = 0
       /\ conn[c].cmd = "controller_ack" /\ conn[c].stage = "decode"
            => conn[c].arg # 0
       /\ conn[c].cmd = "controller_ack" => conn[c].stage # "select"

(* Every command with the drone is older than one in a reply, and both are *)
(* older than those in the queue.                                          *)
OrderInv ==
  /\ Increasing(queue) /\ Increasing(received)
  /\ \A i \in DOMAIN queue : queue[i] <= issued
  /\ \A i \in DOMAIN received : received[i] <= issued
  /\ \A i \in DOMAIN received, j \in DOMAIN queue : received[i] < queue[j]
  /\ \A n \in InReply : /\ n <= issued
                        /\ \A i \in DOMAIN received : received[i] < n
                        /\ \A j \in DOMAIN queue : n < queue[j]

(* An acknowledgement under way is for a command the drone took; it is the *)
(* only one for it and has not been logged.                                *)
AckPending(c) == conn[c].cmd = "controller_ack" /\ conn[c].stage = "decode"

Unlogged(n) ==
  /\ n \in SeqRange(received) /\ n \notin SeqRange(ackLog)

AckInv ==
  /\ AckSound
  /\ \A c \in Conns : AckPending(c) => Unlogged(conn[c].arg)
  /\ \A c, d \in Conns : AckPending(c) /\ AckPending(d) /\ conn[c].arg = conn[d].arg => c = d
  /\ poller = "ack" => /\ Unlogged(taken)
                       /\ \A c \in Conns : AckPending(c) => conn[c].arg # taken

(* Each poll that failed has cost a command, or left a handler behind that *)
(* may still take one; handlers do not survive a restart.                  *)
Stale == {c \in Conns : StaleHandler(c)}

LossInv == Cardinality(Wasted) + Cardinality(Stale) <= Allowance

IInv == TypeOK /\ PollerInv /\ OrderInv /\ AckInv /\ LossInv
=============================================================================
