---------------------------- MODULE RadioKeepalive ----------------------------
(***************************************************************************)
(* The radio keepalive: the drone pings the base every five seconds        *)
(* (cmd/drone/main.go), and when it has decoded a pong it says so with a   *)
(* debug_log request; the base answers whatever it can decode              *)
(* (ServeRadio), and RadioTransport.Send takes the next frame that arrives *)
(* for the answer to what it has just sent.  The messages carry no number: *)
(* the n of the n-th request is the model's.  The link is half duplex and  *)
(* keeps the order of the frames, but loses them and delays them.          *)
(***************************************************************************)
EXTENDS Naturals, Sequences, FiniteSets

CONSTANTS
  MaxSends,             \* bound: requests the drone sends
  Disturbed             \* the drone may restart, and noise look like a frame

ASSUME SendsAssumption == MaxSends \in Nat /\ Disturbed \in BOOLEAN

VARIABLES
  phase,                \* what the keepalive goroutine waits for, or "idle"
  deadline,             \* of the Send under way: "ahead" or "past"
  got,                  \* what its last Receive brought if no frame, else "none"
  reqs,                 \* the requests sent: reqs[n] is the command of the n-th
  up,                   \* requests on their way to the base
  down,                 \* answers on their way, or in the drone's buffer
  logged,               \* requests the base logged ("radio request received")
  replied,              \* answers the base logged ("radio response sent")
  decoded,              \* requests whose answer the drone decoded
  confirmed,            \* rounds logged "radio ping round trip confirmed"
  failed                \* Sends without a decodable answer, or with a wrong one

baseVars == <<logged, replied>>
waiting == <<deadline, got>>
vars == <<phase, waiting, reqs, up, down, baseVars, decoded, confirmed, failed>>

Sent == 1 .. Len(reqs)

WaitingOK == deadline \in {"ahead", "past"} /\ got \in {"none", "error", "empty"}

TypeOK ==
  /\ phase \in {"idle", "ping", "confirm"}
  /\ WaitingOK
  /\ reqs \in Seq({"ping", "debug_log"})
  /\ Len(reqs) <= MaxSends
  /\ up \in SUBSET Sent
  /\ down \in SUBSET Sent
  /\ logged \in SUBSET Sent
  /\ replied \in SUBSET Sent
  /\ decoded \in SUBSET Sent
  /\ confirmed \in Nat
  /\ failed \in Nat

Init ==
  /\ phase = "idle" /\ deadline = "ahead" /\ got = "none"
  /\ reqs = <<>>
  /\ up = {} /\ down = {}
  /\ logged = {} /\ replied = {} /\ decoded = {}
  /\ confirmed = 0 /\ failed = 0

(* The first of a set of frames: the link keeps their order. *)
First(n, frames) == n \in frames /\ \A m \in frames : n <= m
-----------------------------------------------------------------------------
(* THE DRONE *)

(* RadioTransport.Send up to its loop: the frame is written to the serial  *)
(* port and the deadline set.                                              *)
Transmit(cmd) ==
  /\ Len(reqs) < MaxSends
  /\ reqs' = Append(reqs, cmd)
  /\ up' = up \cup {Len(reqs) + 1}
  /\ deadline' = "ahead" /\ got' = "none"

(* Send returns and the round is over. *)
Returns == phase' = "idle" /\ deadline' = "ahead" /\ got' = "none"

(* Send returns an error: an answer may still be on its way. *)
Fails ==
  /\ Returns
  /\ failed' = failed + 1
  /\ UNCHANGED <<reqs, up>>

(* The round goes on as it is. *)
Waits == UNCHANGED <<phase, deadline, failed, reqs, up>>

(* A tick of the keepalive. *)
SendPing ==
  /\ phase = "idle"
  /\ Transmit("ping")
  /\ phase' = "ping"
  /\ UNCHANGED <<down, baseVars, decoded, confirmed, failed>>

(* A tick is skipped because WiFi is up, or the ping cannot be written. *)
SkipTick == phase = "idle" /\ UNCHANGED vars

(* The loop of Send is at its head, or in Receive. *)
Receives == phase # "idle" /\ got = "none"

(* The context is done at the head of the loop: the drone ends, and the    *)
(* next ping is that of another process.  One that is killed stops         *)
(* anywhere, which is the same to the link.                                *)
Cancelled == Disturbed /\ Receives /\ Fails /\ UNCHANGED <<down, baseVars, decoded, confirmed>>

(* Receive fails, or has no whole frame by its own timeout: the one that   *)
(* is on its way may not have arrived yet.                                 *)
ReceiveNothing ==
  /\ Receives
  /\ got' \in {"error", "empty"}
  /\ UNCHANGED <<phase, deadline, reqs, up, down, baseVars, decoded, confirmed, failed>>

(* Mutant: the deadline is not looked at when Receive has nothing. *)
CheckErrorOnly ==
  /\ got # "none"
  /\ IF deadline = "past" /\ got = "error" THEN Fails ELSE Waits /\ got' = "none"
  /\ UNCHANGED <<down, baseVars, decoded, confirmed>>

(* Mutant: a Send that waits in vain transmits its request once more. *)
CheckRetries ==
  /\ got # "none"
  /\ \/ deadline = "past" /\ Fails
     \/ deadline = "past" /\ Transmit(IF phase = "ping" THEN "ping" ELSE "debug_log") /\ UNCHANGED <<phase, failed>>
     \/ deadline = "ahead" /\ Waits /\ got' = "none"
  /\ UNCHANGED <<down, baseVars, decoded, confirmed>>

(* Only then is the deadline looked at; before it, Send sleeps and goes    *)
(* back to the head of its loop.                                           *)
CheckDeadline ==
  /\ got # "none"
  /\ IF deadline = "past" THEN Fails ELSE Waits /\ got' = "none"
  /\ UNCHANGED <<down, baseVars, decoded, confirmed>>

(* What Receive brings does not decode: Send ends whatever the time. *)
Undecodable == Disturbed /\ Receives /\ Fails /\ UNCHANGED <<down, baseVars, decoded, confirmed>>

(* The next frame is decoded: Send does not compare it with its request,   *)
(* its caller compares the command and the data.                           *)
Decode(n) ==
  /\ got = "none"
  /\ First(n, down)
  /\ down' = down \ {n}
  /\ decoded' = decoded \cup {n}

(* A pong: the confirmation is sent, or cannot be written. *)
ReadPong(n) ==
  /\ phase = "ping"
  /\ Decode(n)
  /\ reqs[n] = "ping"
  /\ \/ Transmit("debug_log") /\ phase' = "confirm" /\ UNCHANGED failed
     \/ Fails
  /\ UNCHANGED <<baseVars, confirmed>>

(* Mutant: any answer to the confirmation will do. *)
ReadOkUnchecked(n) ==
  /\ phase = "confirm"
  /\ Decode(n)
  /\ confirmed' = confirmed + 1
  /\ Returns
  /\ UNCHANGED <<reqs, up, baseVars, failed>>

(* The answer to a debug_log: the round is confirmed. *)
ReadOk(n) ==
  /\ phase = "confirm"
  /\ Decode(n)
  /\ reqs[n] = "debug_log"
  /\ confirmed' = confirmed + 1
  /\ Returns
  /\ UNCHANGED <<reqs, up, baseVars, failed>>

(* An answer to another command than the one sent ends the round. *)
ReadMismatch(n) ==
  /\ \/ phase = "ping" /\ reqs[n] # "ping"
     \/ phase = "confirm" /\ reqs[n] # "debug_log"
  /\ Decode(n)
  /\ Fails
  /\ UNCHANGED <<baseVars, confirmed>>

(* Time passes. *)
DeadlinePasses ==
  /\ phase # "idle" /\ deadline = "ahead"
  /\ deadline' = "past"
  /\ UNCHANGED <<phase, got, reqs, up, down, baseVars, decoded, confirmed, failed>>
-----------------------------------------------------------------------------
(* THE BASE AND THE LINK *)

(* Mutant: every request is answered twice. *)
ServeTwice(n) ==
  /\ First(n, up)
  /\ logged' = logged \cup {n}
  /\ down' = down \cup {n}
  /\ replied' = replied \cup {n}
  /\ up' = IF n \in logged THEN up \ {n} ELSE up
  /\ UNCHANGED <<phase, waiting, reqs, decoded, confirmed, failed>>

(* ServeRadio: the next request is logged, handled and answered; the       *)
(* answer may fail to be written.                                          *)
Serve(n) ==
  /\ First(n, up)
  /\ up' = up \ {n}
  /\ logged' = logged \cup {n}
  /\ \/ down' = down \cup {n} /\ replied' = replied \cup {n}
     \/ UNCHANGED <<down, replied>>
  /\ UNCHANGED <<phase, waiting, reqs, decoded, confirmed, failed>>

(* A frame is lost, on the air, to noise or with the buffer of a process   *)
(* that restarts.                                                          *)
Lose(n) ==
  /\ n \in up \cup down
  /\ up' = up \ {n} /\ down' = down \ {n}
  /\ UNCHANGED <<phase, waiting, reqs, baseVars, decoded, confirmed, failed>>

(* One call of Receive, whatever it brings. *)
Receive ==
  \/ ReceiveNothing \/ Undecodable
  \/ \E n \in Sent : ReadPong(n) \/ ReadOk(n) \/ ReadMismatch(n)

Next ==
  \/ SendPing \/ SkipTick \/ Cancelled
  \/ Receive \/ CheckDeadline \/ DeadlinePasses
  \/ \E n \in Sent : Serve(n) \/ Lose(n)

Spec == Init /\ [][Next]_vars

(* The goroutine of the keepalive runs: a call of Receive returns, since   *)
(* the port has a timeout, and what follows it is done.  Time passes.      *)
(* Nothing makes a Receive fail or bring what does not decode.             *)
Fairness == WF_vars(Receive) /\ WF_vars(CheckDeadline) /\ WF_vars(DeadlinePasses)

FairSpec == Spec /\ Fairness
-----------------------------------------------------------------------------
Waiting == IF phase = "idle" THEN 0 ELSE 1

(* The frames between the two: what Send may take for its answer. *)
Backlog == up \cup down

(* No request is outstanding twice and none without a reason: apart from   *)
(* the request being waited for, there are at most as many frames in the   *)
(* link as Sends have failed.  Nothing else makes answers late.            *)
BacklogBounded == Cardinality(Backlog) <= failed + Waiting

(* Ping m is the last one the base has answered before debug_log n. *)
ConfirmsPing(n, m) ==
  /\ n \in logged /\ reqs[n] = "debug_log"
  /\ m \in replied /\ reqs[m] = "ping" /\ m < n
  /\ \A k \in replied : m < k /\ k < n => reqs[k] # "ping"

(* What the README concludes from the logs of the base (README.md:376):    *)
(* the debug_log request "is sent only after the drone decoded the         *)
(* returned pong".                                                         *)
ProofIsCausal == \A n, m \in Sent : ConfirmsPing(n, m) => m \in decoded

(* The conclusion is right as long as no Send has failed: a single answer  *)
(* that comes after the deadline is taken for the next one.                *)
CausalUntilFailure == failed = 0 => ProofIsCausal

(* Each confirmed round rests on a confirmation of its own that the base   *)
(* logged, if not on the one the round sent.                               *)
ConfirmedAreLogged ==
  confirmed <= Cardinality({n \in logged : reqs[n] = "debug_log"})

(* The keepalive does not get stuck in a Send: the deadline is looked at   *)
(* only after a Receive without a frame, and that must be often enough,    *)
(* whatever the link does (transport.go:76-104).                           *)
RoundEnds == phase # "idle" ~> phase = "idle"
-----------------------------------------------------------------------------
(* THE INDUCTIVE INVARIANT *)

(* A request is in one place at a time, and what was answered was logged. *)
PlaceInv ==
  /\ up \cap (down \cup decoded \cup logged) = {}
  /\ down \cap decoded = {}
  /\ down \cup decoded \subseteq logged
  /\ phase # "idle" => Sent # {}

(* While no Send has failed, every request but the one being waited for    *)
(* has its answer decoded.                                                 *)
AnsweredInv ==
  failed = 0 => \A n \in Sent : n \in decoded \/ (phase # "idle" /\ n = Len(reqs))

(* The rounds confirmed are at most the confirmations answered. *)
ConfirmedInv == confirmed <= Cardinality({n \in decoded : reqs[n] = "debug_log"})

IInv == TypeOK /\ PlaceInv /\ AnsweredInv /\ BacklogBounded /\ ConfirmedInv
=============================================================================
