--------------------------- MODULE CommandChannel ---------------------------
(***************************************************************************)
(* What the path from the operator's controller to the drone promises, and *)
(* nothing of how it is built: commands are numbered in the order in which *)
(* the operator issues them; a command may be lost at any time before it   *)
(* arrives; those that do arrive arrive once each, in the order of issue.  *)
(***************************************************************************)
EXTENDS Naturals, Sequences

CONSTANT MaxCommands            \* bound: commands the operator issues

VARIABLES
  issued,                       \* number of commands issued so far
  inTransit,                    \* the commands that may still arrive
  received                      \* the commands the drone took, in order

channelVars == <<issued, inTransit, received>>

Init ==
  /\ issued = 0
  /\ inTransit = {}
  /\ received = <<>>

(* A new command enters the channel, or is refused on the spot. *)
Issue ==
  /\ issued < MaxCommands
  /\ issued' = issued + 1
  /\ inTransit' \in {inTransit, inTransit \cup {issued + 1}}
  /\ UNCHANGED received

(* Some of the commands on their way will never arrive. *)
Lose ==
  /\ inTransit' \in SUBSET inTransit
  /\ UNCHANGED <<issued, received>>

(* A command arrives; nothing issued before it can arrive after it. *)
Receive(n) ==
  /\ n \in inTransit
  /\ received' = Append(received, n)
  /\ inTransit' = {m \in inTransit : m > n}
  /\ UNCHANGED issued

Next == Issue \/ Lose \/ \E n \in inTransit : Receive(n)

Spec == Init /\ [][Next]_channelVars
=============================================================================
