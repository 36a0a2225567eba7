----------------------------- MODULE CommandPath -----------------------------
(***************************************************************************)
(* The way of a command from the pad to the drone: ControllerSource and    *)
(* CommandDelivery put together.  They meet where the forwarder of the     *)
(* base hands an event to EnqueueControllerCommand (cmd/base/main.go), and *)
(* they live and die together: when the base ends it is out of reach, and  *)
(* its handlers, its queue and the event in hand are gone.                 *)
(***************************************************************************)
EXTENDS ControllerSource, CommandDelivery

pathVars == <<sourceVars, vars>>

PathInit == SourceInit /\ Init

(* The goroutines of the base that read the pad and wait for its end. *)
ReadPad ==
  /\ Reader \/ ForwarderEnds \/ Signal \/ Unplug \/ Plug
  /\ UNCHANGED vars

(* Mutant: what is pressed while nobody can be reached is thrown away. *)
SubmitWhenReachable ==
  /\ Forward
  /\ IF linkGood THEN EnqueueControllerCommand ELSE UNCHANGED vars

(* The forwarder receives an event and enqueues it. *)
Submit == Forward /\ EnqueueControllerCommand

(* The base accepts nobody any more, or ends, asked or not: it is out of  *)
(* reach, and a request under way may be answered or not.                  *)
BaseEnds ==
  /\ CloseListener \/ Return \/ Kill
  /\ LinkFails \/ (~linkGood /\ UNCHANGED vars)

(* It is started again. *)
BaseStarts == Start /\ RestartBase

(* A TCPHandler goes on; handlers are goroutines of the base. *)
Serve ==
  /\ Alive
  /\ \E c \in Conns : \/ HandleRequest(c) \/ DecodeFails(c) \/ NextControllerCommand(c)
                      \/ LongPollEnds(c) \/ WriteReply(c)
  /\ UNCHANGED sourceVars

(* A connection needs a base that accepts it. *)
Connect ==
  /\ main = "serving"
  /\ \E c \in Conns : PollNextCommand(c) \/ SendAck(c)
  /\ UNCHANGED sourceVars

(* What the drone does by itself. *)
DroneGoesOn ==
  /\ ReadReply \/ PollFails \/ AckDialFails \/ AckEnds \/ CheckWiFi \/ StoreStatus
     \/ RestartDrone
  /\ UNCHANGED sourceVars

LinkChanges ==
  /\ LinkFails \/ (LinkRecovers /\ main = "serving")
  /\ UNCHANGED sourceVars

PathNext ==
  \/ ReadPad \/ Submit \/ BaseEnds \/ BaseStarts
  \/ Serve \/ Connect \/ DroneGoesOn \/ LinkChanges

PathSpec == PathInit /\ [][PathNext]_pathVars
-----------------------------------------------------------------------------
(* The drone takes what the pilot did, in the order in which he did it and *)
(* each thing at most once, whatever happens to the pad, to the link and   *)
(* to the two processes; a command it takes is of an event of the pad.     *)
TakenAsPressed ==
  \A i \in 1 .. Len(received) :
    /\ received[i] \in 1 .. Len(offered)
    /\ LET command == offered[received[i]] IN
       /\ Sent(command.at) /\ command.act = ActionOf(events[command.at])
       /\ \A j \in 1 .. Len(received) : i < j => command.at < offered[received[j]].at

(* The events whose command is neither with the drone nor known to be      *)
(* refused, under way or impossible to send.                               *)
Presses(commands) == {offered[n].at : n \in commands \cap (1 .. issued)}

LostPresses ==
  {p \in 1 .. Len(events) : Sent(p)}
    \ ({hand.at} \cup Presses(SeqRange(received) \cup dropped \cup InTransit
                                                \cup Unmarshalable \cup Oversized))

(* Each poll that fails costs the pilot at most one event, each restart of *)
(* the base at most a queue of them and the one in hand; what else the     *)
(* pad, the reader, the link and the drone go through costs none.          *)
PressLossBounded == Cardinality(LostPresses) <= Allowance + starts

(* Commands are numbered as the events are offered, and the base accepts   *)
(* connections while it can be reached.                                    *)
JointInv ==
  /\ issued = Len(offered) /\ starts = baseRestarts
  /\ linkGood => main = "serving"

PathInv == SourceInv /\ IInv /\ JointInv
=============================================================================
