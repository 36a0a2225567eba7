-------------------------- MODULE ControllerSource --------------------------
(***************************************************************************)
(* Where the commands of the base come from: the goroutine that looks for  *)
(* an Xbox pad, opens it, reads its events and looks again when it is gone *)
(* (internal/controller/xbox360.go), and the one that receives the events  *)
(* from an unbuffered channel and hands them to EnqueueControllerCommand   *)
(* (cmd/base/main.go), whose queue is the subject of CommandDelivery.  The *)
(* pad may be pulled out and put back at any time, a signal may end the    *)
(* base or it may die of something else, and it may be started again.      *)
(***************************************************************************)
EXTENDS Integers, Sequences, FiniteSets

CONSTANTS
  Inputs,               \* what the pad reports
  MaxEvents,            \* bound: events read from the pad
  MaxUnplugs,           \* bound: how often the pad is pulled out
  MaxFaults,            \* bound: scans, opens and reads that fail by themselves
  MaxStarts             \* bound: how often the base is started again

VARIABLES
  pad,                  \* the pad: "in" or "out"
  handle, opened,       \* the handle in use, and how many there are
  reader,               \* where Xbox360Interface is
  hand,                 \* the event that sendEvent holds
  forwarder,            \* the goroutine that enqueues
  requested, main,      \* the context, and the main goroutine of the base
  events, offered,      \* history: events read, events enqueued or refused
  forgotten,            \* history: the places of the events that ended with the base
  unplugs, faults, starts

world == <<pad, unplugs>>
ends == <<requested, main>>
lives == <<forgotten, starts>>
sourceVars ==
  <<world, handle, opened, reader, hand, forwarder, ends, events, offered, lives, faults>>
-----------------------------------------------------------------------------
maxInt16 == 2 ^ 15 - 1
minInt16 == -(2 ^ 15)

(* What a pad can report: buttons and their release, axes with values      *)
(* wider than 16 bits, codes that nobody knows, and EV_SYN.                *)
PadEvents ==
  [kind : {"key", "abs", "syn"}, code : {"A", "B", "X", "other"}, value : Int]

ASSUME SourceAssumption ==
  /\ \A ev \in Inputs : ev \in PadEvents
  /\ MaxEvents \in Nat /\ MaxUnplugs \in Nat /\ MaxFaults \in Nat /\ MaxStarts \in Nat

ClampInt32ToInt16(value) ==
  IF value > maxInt16 THEN maxInt16 ELSE IF value < minInt16 THEN minInt16 ELSE value

(* The event of the program that one of the pad becomes, if any; all axes  *)
(* are treated alike.                                                      *)
Acts(ev) ==
  \/ ev.kind = "key" /\ ev.value # 0 /\ ev.code \in {"A", "B"}
  \/ ev.kind = "abs" /\ ev.code = "X"

ActionOf(ev) ==
  CASE ev.code = "A" -> [action |-> "TAKEOFF", payload |-> 1]
    [] ev.code = "B" -> [action |-> "LAND", payload |-> 1]
    [] OTHER -> [action |-> "MOVE_X", payload |-> ClampInt32ToInt16(ev.value)]

(* What is sent for the event at a place; the place itself stays here.     *)
Nothing == [at |-> 0, act |-> [action |-> "none", payload |-> 0]]

SourceInit ==
  /\ pad \in {"in", "out"} /\ unplugs = 0 /\ faults = 0 /\ starts = 0
  /\ handle = "none" /\ opened = 0
  /\ reader = "scan" /\ hand = Nothing
  /\ forwarder = "select"
  /\ requested = FALSE /\ main = "serving"
  /\ events = <<>> /\ offered = <<>> /\ forgotten = {}

Alive == main \in {"serving", "closed"}

Goes(from, to) == Alive /\ reader = from /\ reader' = to

Fault == faults < MaxFaults /\ faults' = faults + 1
-----------------------------------------------------------------------------
(* THE READER *)

(* FindXpadDevices: a pad, none, or an error; the last two are slept over. *)
Scan ==
  /\ \/ pad = "in" /\ Goes("scan", "open") /\ UNCHANGED faults
     \/ pad = "out" /\ Goes("scan", "sleep") /\ UNCHANGED faults
     \/ Fault /\ Goes("scan", "sleep")
  /\ UNCHANGED <<world, handle, opened, hand, forwarder, ends, events, offered, lives>>

(* OpenDevice: the pad may be gone again, or not be opened. *)
Open ==
  /\ \/ /\ pad = "in" /\ Goes("open", "loop")
        /\ handle' = "good" /\ opened' = opened + 1
        /\ UNCHANGED faults
     \/ /\ Goes("open", "sleep")
        /\ IF pad = "in" THEN Fault ELSE UNCHANGED faults
        /\ UNCHANGED <<handle, opened>>
  /\ UNCHANGED <<world, hand, forwarder, ends, events, offered, lives>>

(* sleepOrDone: the timer, or the end of the context, which ends the       *)
(* reader and with it the goroutine of the base.                           *)
SleepOrDone ==
  /\ Goes("sleep", "scan") \/ (requested /\ Goes("sleep", "ended"))
  /\ UNCHANGED <<world, handle, opened, hand, forwarder, ends, events, offered, lives, faults>>

Close == handle' = "none" /\ opened' = opened - 1

(* The context is looked at before every read; the error closes the device *)
(* and is passed up.                                                       *)
CheckContext ==
  /\ \/ requested /\ Goes("loop", "ended") /\ Close
     \/ ~requested /\ Goes("loop", "read") /\ UNCHANGED <<handle, opened>>
  /\ UNCHANGED <<world, hand, forwarder, ends, events, offered, lives, faults>>

(* ReadEvent returns an event, which is sent on, or has no action. *)
ReadEvent(ev) ==
  /\ handle = "good" /\ Len(events) < MaxEvents
  /\ events' = Append(events, ev)
  /\ IF Acts(ev) THEN Goes("read", "send") /\ hand' = [at |-> Len(events) + 1, act |-> ActionOf(ev)]
                 ELSE Goes("read", "loop") /\ UNCHANGED hand
  /\ UNCHANGED <<world, handle, opened, forwarder, ends, offered, lives, faults>>

ReadTimesOut ==
  /\ handle = "good" /\ Goes("read", "loop")
  /\ UNCHANGED <<world, handle, opened, hand, forwarder, ends, events, offered, lives, faults>>

(* Mutant: the device is not closed. *)
ReadFailsOpen ==
  /\ Goes("read", "scan")
  /\ IF handle = "good" THEN Fault ELSE UNCHANGED faults
  /\ handle' = "none" /\ UNCHANGED opened
  /\ UNCHANGED <<world, hand, forwarder, ends, events, offered, lives>>

(* Mutant: an error is treated as a timeout. *)
ReadFailsAgain ==
  /\ Goes("read", "loop")
  /\ IF handle = "good" THEN Fault ELSE UNCHANGED faults
  /\ UNCHANGED <<world, handle, opened, hand, forwarder, ends, events, offered, lives>>

(* Any other error closes the device, and the search begins anew, without  *)
(* a sleep.                                                                *)
ReadFails ==
  /\ Goes("read", "scan")
  /\ IF handle = "good" THEN Fault ELSE UNCHANGED faults
  /\ Close
  /\ UNCHANGED <<world, hand, forwarder, ends, events, offered, lives>>
-----------------------------------------------------------------------------
(* THE BASE *)

(* sendEvent and the select of the forwarder meet; the event is enqueued,  *)
(* or refused by a full queue.                                             *)
Forward ==
  /\ Goes("send", "loop") /\ forwarder = "select"
  /\ offered' = Append(offered, hand)
  /\ hand' = Nothing
  /\ UNCHANGED <<world, handle, opened, forwarder, ends, events, lives, faults>>

ForwarderEnds ==
  /\ Alive /\ requested /\ forwarder = "select"
  /\ forwarder' = "ended"
  /\ UNCHANGED <<world, handle, opened, reader, hand, ends, events, offered, lives, faults>>

Signal ==
  /\ Alive /\ ~requested
  /\ requested' = TRUE
  /\ UNCHANGED <<world, handle, opened, reader, hand, forwarder, main, events, offered, lives, faults>>

(* The context closes the listener; Accept fails, and main returns. *)
CloseListener ==
  /\ requested /\ main = "serving"
  /\ main' = "closed"
  /\ UNCHANGED <<world, handle, opened, reader, hand, forwarder, requested, events, offered, lives, faults>>

Return ==
  /\ main = "closed"
  /\ main' = "ended"
  /\ UNCHANGED <<world, handle, opened, reader, hand, forwarder, requested, events, offered, lives, faults>>

(* The base dies in any other way. *)
Kill ==
  /\ Alive /\ main' = "killed"
  /\ UNCHANGED <<world, handle, opened, reader, hand, forwarder, requested, events, offered, lives, faults>>

(* It is started again and begins at the beginning, without the event that *)
(* the reader held.                                                        *)
Start ==
  /\ ~Alive /\ starts < MaxStarts
  /\ handle' = "none" /\ opened' = 0 /\ reader' = "scan" /\ hand' = Nothing
  /\ forwarder' = "select" /\ requested' = FALSE /\ main' = "serving"
  /\ forgotten' = forgotten \cup ({hand.at} \ {0})
  /\ starts' = starts + 1
  /\ UNCHANGED <<world, events, offered, faults>>

Unplug ==
  /\ Alive /\ pad = "in" /\ unplugs < MaxUnplugs
  /\ pad' = "out" /\ unplugs' = unplugs + 1
  /\ handle' = IF handle = "good" THEN "stale" ELSE handle
  /\ UNCHANGED <<opened, reader, hand, forwarder, ends, events, offered, lives, faults>>

Plug ==
  /\ Alive /\ pad = "out"
  /\ pad' = "in"
  /\ UNCHANGED <<unplugs, handle, opened, reader, hand, forwarder, ends, events, offered, lives, faults>>

Reader ==
  \/ Scan \/ Open \/ SleepOrDone \/ CheckContext
  \/ (\E ev \in Inputs : ReadEvent(ev)) \/ ReadTimesOut \/ ReadFails

SourceNext ==
  \/ Reader \/ Forward \/ ForwarderEnds
  \/ Signal \/ CloseListener \/ Return \/ Kill \/ Start \/ Unplug \/ Plug

SourceSpec == SourceInit /\ [][SourceNext]_sourceVars

(* Goroutines that can run do run, timers fire and reads return; the pad   *)
(* owes nothing.                                                           *)
SourceFairness ==
  /\ WF_sourceVars(Reader) /\ WF_sourceVars(Forward) /\ WF_sourceVars(ForwarderEnds)
  /\ WF_sourceVars(CloseListener) /\ WF_sourceVars(Return)

FairSourceSpec == SourceSpec /\ SourceFairness
-----------------------------------------------------------------------------
Sendable == [at : Nat, act : [action : {"none", "TAKEOFF", "LAND", "MOVE_X"}, payload : minInt16 .. maxInt16]]

SourceTypeOK ==
  /\ pad \in {"in", "out"} /\ unplugs \in 0 .. MaxUnplugs /\ faults \in 0 .. MaxFaults
  /\ handle \in {"none", "good", "stale"} /\ opened \in 0 .. 1
  /\ reader \in {"scan", "sleep", "open", "loop", "read", "send", "ended"}
  /\ hand \in Sendable
  /\ forwarder \in {"select", "ended"}
  /\ requested \in BOOLEAN /\ main \in {"serving", "closed", "ended", "killed"}
  /\ events \in Seq(Inputs) /\ Len(events) <= MaxEvents
  /\ offered \in Seq(Sendable)
  /\ starts \in 0 .. MaxStarts

(* Across any number of disconnections there is one device open while it   *)
(* is read and none otherwise, however the reading ends                    *)
(* (xbox360.go:45-54).                                                     *)
DeviceInv ==
  /\ opened = IF reader \in {"loop", "read", "send"} THEN 1 ELSE 0
  /\ handle = "none" <=> opened = 0
  /\ hand # Nothing <=> reader = "send"
  /\ reader = "ended" \/ forwarder = "ended" \/ main \in {"closed", "ended"} => requested

Sent(p) == p \in 1 .. Len(events) /\ Acts(events[p])

(* Every event that has an action is offered to the queue once, in order   *)
(* and within 16 bits, but for the one in hand and those that were in hand *)
(* when a base ended (xbox360.go:89-123).                                  *)
OfferInv ==
  /\ \A k \in 1 .. Len(offered) :
       /\ Sent(offered[k].at) /\ offered[k].act = ActionOf(events[offered[k].at])
       /\ \A m \in 1 .. Len(offered) : k < m => offered[k].at < offered[m].at
  /\ hand # Nothing =>
       /\ hand.at = Len(events) /\ Sent(hand.at) /\ hand.act = ActionOf(events[hand.at])
       /\ \A k \in 1 .. Len(offered) : offered[k].at < hand.at
  /\ \A p \in 1 .. Len(events) :
       Sent(p) => p \in forgotten \cup {hand.at} \cup {offered[k].at : k \in 1 .. Len(offered)}
  /\ forgotten \subseteq 1 .. Len(events) /\ Cardinality(forgotten) <= starts

SourceInv == SourceTypeOK /\ DeviceInv /\ OfferInv

(* A pad that stays is read again, whatever happened to the handle before  *)
(* ("xpad device disconnected, retrying", xbox360.go:50-53); an event is   *)
(* stuck in sendEvent only when the base is ending, and then the base does *)
(* end, with the reader blocked or not (xbox360.go:118).                   *)
SourceRecovers ==
  /\ pad = "in" ~> (handle = "good" \/ pad = "out" \/ requested \/ ~Alive)
  /\ reader = "send" ~> (reader # "send" \/ requested \/ ~Alive)
  /\ requested ~> ~Alive
=============================================================================
