----------------------------- MODULE SerialRunner -----------------------------
(***************************************************************************)
(* The exec and upload modes of the serial tool (cmd/dev/pi_runner): a     *)
(* host that types lines into a console it shares with nobody, and looks   *)
(* for markers in what comes back.  It logs in, turns the echo off, and    *)
(* either runs a command or streams a file into a here-document, which the *)
(* target verifies and moves into place.  A write may stop anywhere, a     *)
(* wait may time out, and the target works through the lines later.        *)
(***************************************************************************)
EXTENDS Integers, Sequences

CONSTANTS
  Lines,                \* the lines of base64 that the file makes
  MaxFaults             \* bound: writes that fail

ASSUME SerialAssumption == Lines \in Nat /\ MaxFaults \in Nat

VARIABLES
  mode, creds,          \* inputs: "exec" or "upload"; what login is given
  (* the host *)
  pc, result,
  heredocOpen, restoreNeeded,
  left,                 \* lines still to be streamed
  held,                 \* what base64LineWriter keeps: nothing, a line or a part
  recent,               \* what has been read since the last reset
  faulty,               \* history: the texts whose writing failed
  (* the line *)
  fragment,             \* text written without its end of line
  typed,                \* lines the target has not looked at
  output,               \* what the target has written, not yet read
  (* the target *)
  tty,                  \* who reads: login, a shell, a here-document, or
                        \* a command that waits for its end
  who, echo,
  sttyFailed,           \* history: stty has failed to turn the echo on
  doc,                  \* lines in the here-document, or Spoiled
  temp, dest,           \* the two files
  ran                   \* how often the command has been run

inputs == <<mode, creds>>
host == <<pc, result, heredocOpen, restoreNeeded, left, held, recent>>
target == <<tty, who, echo, sttyFailed, doc, temp, dest, ran>>
vars == <<inputs, host, faulty, fragment, typed, output, target>>

Spoiled == -1

Texts == {"wake", "user", "password", "confirm", "setup", "header", "data", "flush",
          "delimiter", "finish", "command", "cleanup"}
Markers == {"login", "Password", "prompt", "confirmed", "ready", "refused",
            "template", "exit0", "exit1"}

Init ==
  /\ mode \in {"exec", "upload"}
  /\ creds \in {"right", "wrong", "nouser", "nopassword"}
  /\ pc = "wake" /\ result = "none"
  /\ heredocOpen = FALSE /\ restoreNeeded = FALSE
  /\ left = Lines /\ held = "none"
  /\ recent = {} /\ faulty = <<>>
  /\ fragment = "none" /\ typed = <<>> /\ output = <<>>
  /\ tty \in {"login", "password", "shell"} /\ who \in {"user", "other"}
  /\ echo = TRUE /\ sttyFailed = FALSE
  /\ doc = 0 /\ temp = "absent" /\ dest = "old" /\ ran = 0
-----------------------------------------------------------------------------
(* WRITING *)

(* What the terminal echoes of a line, as far as expect looks for it: the  *)
(* confirmation holds its marker as it is; the last line holds the exit    *)
(* marker before a format, not a number; the markers of setup are split.   *)
EchoOf(text) ==
  CASE ~echo \/ tty = "password" -> <<>>
    [] text = "confirm" -> <<"confirmed">>
    [] text \in {"finish", "command"} -> <<"template">>
    [] OTHER -> <<>>

(* write: all of the line arrives, or a part of it and no end of line, or  *)
(* nothing.  What follows a part is joined to it.                          *)
Write(text, outcome) ==
  \/ /\ outcome = "whole"
     /\ typed' = Append(typed, [text |-> text, after |-> fragment])
     /\ fragment' = "none"
     /\ output' = output \o EchoOf(text)
     /\ UNCHANGED faulty
  \/ /\ outcome # "whole" /\ Len(faulty) < MaxFaults
     /\ outcome = "part" => text # "wake"
     /\ fragment' = IF outcome = "part" /\ fragment = "none" THEN text ELSE fragment
     /\ faulty' = Append(faulty, text)
     /\ UNCHANGED <<typed, output>>

Outcomes == {"whole", "part", "nothing"}

(* An error: the deferred function of the mode begins; login has none. *)
Fail(open, restore) ==
  /\ heredocOpen' = open /\ restoreNeeded' = restore
  /\ result' = "failure"
  /\ pc' = IF open THEN "deferClose" ELSE IF restore THEN "deferCleanup" ELSE "done"

Proceed(to, open, restore) ==
  /\ heredocOpen' = open /\ restoreNeeded' = restore
  /\ pc' = to
  /\ UNCHANGED result

(* A line is typed at one place of the program, and the next one reached.  *)
Types(from, text, to, outcome, open, restore) ==
  /\ pc = from
  /\ Write(text, outcome)
  /\ IF outcome = "whole" THEN Proceed(to, open, restore) ELSE Fail(open, restore)
  /\ UNCHANGED <<inputs, left, held, target>>

LastLine == IF mode = "exec" THEN "command" ELSE "finish"
-----------------------------------------------------------------------------
(* EXPECTING *)

Needles ==
  CASE pc = "prompt" -> {"login", "Password", "prompt"}
    [] pc = "askPassword" -> {"Password"}
    [] pc = "confirming" -> {"confirmed"}
    [] pc = "ready" -> {"ready", "refused"}
    [] pc = "exit" -> {"exit0", "exit1"}
    [] OTHER -> {}

Found(needle) == needle \in Needles \cap recent
Waiting == Needles # {} /\ Needles \cap recent = {}

(* expect and waitExitStatus read on until they have what they look for. *)
Read ==
  /\ Waiting /\ output # <<>>
  /\ recent' = recent \cup {Head(output)}
  /\ output' = Tail(output)
  /\ UNCHANGED <<inputs, pc, result, heredocOpen, restoreNeeded, left, held, faulty,
                 fragment, typed, target>>

(* Mutant: the last line is typed again. *)
TimeoutRetypes ==
  /\ Waiting
  /\ \/ pc = "exit" /\ Proceed("last", heredocOpen, restoreNeeded)
     \/ pc # "exit" /\ Fail(heredocOpen, restoreNeeded)
  /\ UNCHANGED <<inputs, left, held, recent, faulty, fragment, typed, output, target>>

(* Mutant: only the login has a deadline. *)
TimeoutAtLoginOnly ==
  /\ Waiting /\ pc \in {"prompt", "askPassword", "confirming"}
  /\ Fail(heredocOpen, restoreNeeded)
  /\ UNCHANGED <<inputs, left, held, recent, faulty, fragment, typed, output, target>>

(* The context ends or the port fails. *)
Timeout ==
  /\ Waiting
  /\ Fail(heredocOpen, restoreNeeded)
  /\ UNCHANGED <<inputs, left, held, recent, faulty, fragment, typed, output, target>>
-----------------------------------------------------------------------------
(* LOGIN *)

Wake(outcome) ==
  /\ Types("wake", "wake", "prompt", outcome, FALSE, FALSE)
  /\ UNCHANGED recent

(* A shell prompt is confirmed; the login prompt needs a user.  A password *)
(* prompt is enough for the password.                                      *)
AtPrompt ==
  /\ pc = "prompt" /\ ~Waiting
  /\ \/ Found("prompt") /\ Proceed("confirm", FALSE, FALSE)
     \/ /\ ~Found("prompt") /\ Found("login")
        /\ IF creds = "nouser" THEN Fail(FALSE, FALSE) ELSE Proceed("user", FALSE, FALSE)
     \/ /\ ~Found("prompt") /\ ~Found("login")
        /\ IF creds = "nopassword" THEN Fail(FALSE, FALSE) ELSE Proceed("password", FALSE, FALSE)
  /\ UNCHANGED <<inputs, left, held, recent, faulty, fragment, typed, output, target>>

TypeUser(outcome) ==
  /\ Types("user", "user", "askPassword", outcome, FALSE, FALSE)
  /\ UNCHANGED recent

AtPassword ==
  /\ pc = "askPassword" /\ Found("Password")
  /\ IF creds = "nopassword" THEN Fail(FALSE, FALSE) ELSE Proceed("password", FALSE, FALSE)
  /\ UNCHANGED <<inputs, left, held, recent, faulty, fragment, typed, output, target>>

TypePassword(outcome) ==
  /\ Types("password", "password", "confirm", outcome, FALSE, FALSE)
  /\ UNCHANGED recent

TypeConfirm(outcome) ==
  /\ Types("confirm", "confirm", "confirming", outcome, FALSE, FALSE)
  /\ UNCHANGED recent

(* The marker has been seen, echoed or printed: login returns. *)
Confirmed ==
  /\ pc = "confirming" /\ Found("confirmed")
  /\ Proceed("setup", FALSE, FALSE) /\ recent' = {}
  /\ UNCHANGED <<inputs, left, held, faulty, fragment, typed, output, target>>
-----------------------------------------------------------------------------
(* EXEC AND UPLOAD *)

TypeSetup(outcome) ==
  /\ Types("setup", "setup", "ready", outcome, FALSE, TRUE)
  /\ UNCHANGED recent

(* The terminal answers whether the echo is off. *)
Ready ==
  /\ pc = "ready" /\ ~Waiting
  /\ \/ Found("refused") /\ Fail(FALSE, FALSE) /\ UNCHANGED recent
     \/ /\ ~Found("refused")
        /\ Proceed(IF mode = "exec" THEN "last" ELSE "header", FALSE, TRUE)
        /\ recent' = {}
  /\ UNCHANGED <<inputs, left, held, faulty, fragment, typed, output, target>>

TypeHeader(outcome) ==
  /\ Types("header", "header", IF left = 0 THEN "delimiter" ELSE "stream",
           outcome, TRUE, TRUE)
  /\ UNCHANGED recent

(* Mutant: a line that could not be written is forgotten. *)
StreamForgets(outcome) ==
  /\ pc = "stream"
  /\ Write("data", outcome)
  /\ \/ /\ outcome = "whole"
        /\ left' = left - 1
        /\ pc' = IF left' = 0 THEN "delimiter" ELSE "stream"
        /\ UNCHANGED held
     \/ /\ outcome # "whole"
        /\ held' = "none" /\ pc' = "close"
        /\ UNCHANGED left
  /\ UNCHANGED <<inputs, result, heredocOpen, restoreNeeded, recent, target>>

(* A line of the file; one that could not be written stays with            *)
(* base64LineWriter.  The context is not looked at meanwhile.              *)
Stream(outcome) ==
  /\ pc = "stream"
  /\ Write("data", outcome)
  /\ \/ /\ outcome = "whole"
        /\ left' = left - 1
        /\ pc' = IF left' = 0 THEN "delimiter" ELSE "stream"
        /\ UNCHANGED held
     \/ /\ outcome # "whole"
        /\ held' = "data" /\ pc' = "close"
        /\ UNCHANGED left
  /\ UNCHANGED <<inputs, result, heredocOpen, restoreNeeded, recent, target>>

(* Reading the file fails: what is encoded of the line is kept. *)
SourceFails ==
  /\ pc = "stream"
  /\ held' \in {"none", "flush"}
  /\ pc' = "close"
  /\ UNCHANGED <<inputs, result, heredocOpen, restoreNeeded, left, recent, faulty,
                 fragment, typed, output, target>>

(* base64LineWriter.Close: what is kept is written, from its beginning. *)
CloseLines(from, to, outcome) ==
  /\ pc = from
  /\ IF held = "none"
     THEN outcome = "whole" /\ UNCHANGED <<held, faulty, fragment, typed, output>>
     ELSE /\ Write(held, outcome)
          /\ held' = IF outcome = "whole" THEN "none" ELSE held
  /\ pc' = to /\ result' = "failure"
  /\ UNCHANGED <<inputs, heredocOpen, restoreNeeded, left, recent, target>>

TypeDelimiter(outcome) ==
  /\ Types("delimiter", "delimiter", "last",
           outcome, outcome # "whole", TRUE)
  /\ UNCHANGED recent

TypeLast(outcome) ==
  /\ Types("last", LastLine, "exit", outcome, FALSE, TRUE)
  /\ UNCHANGED recent

(* The exit status has been read; only zero leaves nothing to be undone,   *)
(* if exec can still print what the command has written.                   *)
Exit ==
  /\ pc = "exit" /\ ~Waiting
  /\ \/ /\ Found("exit0")
        /\ pc' = "done" /\ result' = "success"
        /\ UNCHANGED <<heredocOpen, restoreNeeded>>
     \/ /\ ~Found("exit0") \/ mode = "exec"
        /\ Fail(heredocOpen, restoreNeeded)
  /\ UNCHANGED <<inputs, left, held, recent, faulty, fragment, typed, output, target>>

(* The deferred function; its errors are ignored. *)
Deferred(from, text, to, outcome) ==
  /\ pc = from
  /\ Write(text, outcome)
  /\ pc' = to
  /\ UNCHANGED <<inputs, result, heredocOpen, restoreNeeded, left, held, recent, target>>
-----------------------------------------------------------------------------
(* THE TARGET *)

Prints(markers) == output' = output \o markers

(* One line is taken from the terminal by whoever reads. *)
Reads(text, after) ==
  /\ typed # <<>>
  /\ Head(typed) = [text |-> text, after |-> after]
  /\ typed' = Tail(typed)
  /\ UNCHANGED <<inputs, host, faulty, fragment>>

(* getty and login take any line for a name, then any for its password. *)
Login(text, after) ==
  /\ Reads(text, after)
  /\ \/ /\ tty = "login" /\ text = "wake"
        /\ Prints(<<"login">>)
        /\ UNCHANGED <<tty, who, echo>>
     \/ /\ tty = "login" /\ text # "wake"
        /\ tty' = "password"
        /\ who' = IF text = "user" /\ after = "none" THEN "user" ELSE "other"
        /\ Prints(<<"Password">>)
        /\ UNCHANGED echo
     \/ /\ tty = "password"
        /\ IF who = "user" /\ creds = "right" /\ text = "password" /\ after = "none"
           THEN tty' = "shell" /\ echo' = TRUE /\ Prints(<<"prompt">>)
           ELSE tty' = "login" /\ UNCHANGED echo /\ Prints(<<"login">>)
        /\ UNCHANGED who
  /\ UNCHANGED <<sttyFailed, doc, temp, dest, ran>>

(* A line that the shell does not know, or one it answers at once. *)
Answer(text) ==
  /\ tty = "shell" /\ Reads(text, "none")
  /\ text \in {"wake", "confirm", "user", "password", "data", "flush", "delimiter"}
  /\ Prints(IF text = "wake" THEN <<"prompt">> ELSE IF text = "confirm" THEN <<"confirmed">>
            ELSE <<>>)
  /\ UNCHANGED target

(* stty -echo, and the marker that says whether it worked. *)
RunSetup(ok) ==
  /\ tty = "shell" /\ Reads("setup", "none")
  /\ echo' = (echo /\ ~ok)
  /\ Prints(IF ok THEN <<"ready">> ELSE <<"refused">>)
  /\ UNCHANGED <<tty, who, sttyFailed, doc, temp, dest, ran>>

(* base64 -d > temp << delimiter: what follows is data. *)
RunHeader ==
  /\ tty = "shell" /\ Reads("header", "none")
  /\ tty' = "heredoc" /\ doc' = 0
  /\ UNCHANGED <<output, who, echo, sttyFailed, temp, dest, ran>>

(* The delimiter, on a line of its own, ends the data, and the file is     *)
(* written, wholly if there is space.  Any other line is data, which noise *)
(* may spoil.                                                              *)
HereDocument(text, after, ok) ==
  /\ tty = "heredoc" /\ Reads(text, after)
  /\ \/ /\ text = "delimiter" /\ after = "none"
        /\ tty' = "shell"
        /\ temp' = IF doc = Lines /\ ok THEN "good" ELSE "bad"
        /\ UNCHANGED doc
     \/ /\ text # "delimiter" \/ after # "none"
        /\ doc' = IF text = "data" /\ after = "none" /\ ok /\ doc # Spoiled THEN doc + 1 ELSE Spoiled
        /\ UNCHANGED <<tty, temp>>
  /\ UNCHANGED <<output, who, echo, sttyFailed, dest, ran>>

(* stty echo at the end of a command. *)
EchoOn(ok) ==
  /\ echo' = (echo \/ ok)
  /\ sttyFailed' = (sttyFailed \/ ~ok)

(* Mutant: the file is moved without looking at its digest. *)
InstallUnverified(installs, sttyOk) ==
  /\ IF temp # "absent" /\ installs THEN dest' = temp ELSE UNCHANGED dest
  /\ temp' = "absent"
  /\ EchoOn(sttyOk)
  /\ Prints(IF temp # "absent" /\ installs /\ sttyOk THEN <<"exit0">> ELSE <<"exit1">>)
  /\ UNCHANGED <<tty, who, doc, ran>>

(* Mutant: the file is copied, and its removal left to the failure. *)
InstallByCopy(installs, sttyOk) ==
  /\ IF temp = "good" /\ installs THEN dest' = temp /\ UNCHANGED temp
                                  ELSE temp' = "absent" /\ UNCHANGED dest
  /\ EchoOn(sttyOk)
  /\ Prints(IF temp = "good" /\ installs /\ sttyOk THEN <<"exit0">> ELSE <<"exit1">>)
  /\ UNCHANGED <<tty, who, doc, ran>>

(* Mutant: the status does not tell that the echo is still off. *)
InstallForgetsEcho(installs, sttyOk) ==
  /\ IF temp = "good" /\ installs THEN dest' = temp ELSE UNCHANGED dest
  /\ temp' = "absent"
  /\ EchoOn(sttyOk)
  /\ Prints(IF temp = "good" /\ installs THEN <<"exit0">> ELSE <<"exit1">>)
  /\ UNCHANGED <<tty, who, doc, ran>>

(* uploadFinishCommand: the digest, the mode and the move, or the removal; *)
(* then the echo, whose failure is a status of its own.                    *)
Install(installs, sttyOk) ==
  /\ IF temp = "good" /\ installs THEN dest' = temp ELSE UNCHANGED dest
  /\ temp' = "absent"
  /\ EchoOn(sttyOk)
  /\ Prints(IF temp = "good" /\ installs /\ sttyOk THEN <<"exit0">> ELSE <<"exit1">>)
  /\ UNCHANGED <<tty, who, doc, ran>>

(* The command of exec, and its status. *)
Execute(succeeds, sttyOk) ==
  /\ ran' = ran + 1
  /\ EchoOn(sttyOk)
  /\ Prints(IF succeeds /\ sttyOk THEN <<"exit0">> ELSE <<"exit1">>)
  /\ UNCHANGED <<tty, who, doc, temp, dest>>

RunLast(ok, sttyOk) ==
  /\ tty = "shell" /\ Reads(LastLine, "none")
  /\ IF mode = "exec" THEN Execute(ok, sttyOk) ELSE Install(ok, sttyOk)

RunCleanup(sttyOk) ==
  /\ tty = "shell" /\ Reads("cleanup", "none")
  /\ temp' = IF mode = "upload" THEN "absent" ELSE temp
  /\ EchoOn(sttyOk)
  /\ UNCHANGED <<output, tty, who, doc, dest, ran>>

(* A part of a line and the line behind it are one.  The shell refuses it, *)
(* or waits for the end of a quote, an if or a here-document that will not *)
(* come; a part of the header may have made the file; the last line may be *)
(* there but for its end.                                                  *)
Merged(text, after, ok, sttyOk) ==
  /\ tty = "shell" /\ after # "none" /\ Reads(text, after)
  /\ \/ /\ tty' \in {"shell", "open"}
        /\ temp' \in IF after = "header" THEN {temp, "bad"} ELSE {temp}
        /\ UNCHANGED <<output, who, echo, sttyFailed, doc, dest, ran>>
     \/ after = "finish" /\ Install(ok, sttyOk)
     \/ after = "command" /\ Execute(ok, sttyOk)

(* Whatever waits for its end takes every line. *)
Swallow(text, after) ==
  /\ tty = "open" /\ Reads(text, after)
  /\ UNCHANGED <<output, target>>
-----------------------------------------------------------------------------
HostStep ==
  \/ \E outcome \in Outcomes :
       \/ Wake(outcome) \/ TypeUser(outcome) \/ TypePassword(outcome) \/ TypeConfirm(outcome)
       \/ TypeSetup(outcome) \/ TypeHeader(outcome) \/ Stream(outcome)
       \/ CloseLines("close", "deferClose", outcome)
       \/ TypeDelimiter(outcome) \/ TypeLast(outcome)
       \/ CloseLines("deferClose", "deferDelimiter", outcome)
       \/ Deferred("deferDelimiter", "delimiter", "deferCleanup", outcome)
       \/ Deferred("deferCleanup", "cleanup", "done", outcome)
  \/ SourceFails \/ Read \/ Timeout
  \/ AtPrompt \/ AtPassword \/ Confirmed \/ Ready \/ Exit

TargetStep ==
  \/ \E text \in Texts, after \in Texts \cup {"none"} :
       \/ Login(text, after) \/ Swallow(text, after)
       \/ \E ok, sttyOk \in BOOLEAN : Merged(text, after, ok, sttyOk)
       \/ \E ok \in BOOLEAN : HereDocument(text, after, ok)
  \/ \E text \in Texts : Answer(text)
  \/ \E ok \in BOOLEAN : RunSetup(ok) \/ RunCleanup(ok)
  \/ RunHeader
  \/ \E ok, sttyOk \in BOOLEAN : RunLast(ok, sttyOk)

Next == HostStep \/ TargetStep

Spec == Init /\ [][Next]_vars

(* The host runs, and its waits have a deadline; the target promises       *)
(* nothing.                                                                *)
FairSpec == Spec /\ WF_vars(HostStep)
-----------------------------------------------------------------------------
(* "The uploads retain their SHA-256 verification and atomic installation  *)
(* semantics" (README.md:302): whatever fails, the destination is the old  *)
(* file or the whole of the new one.                                       *)
AtomicInstall == dest \in {"old", "good"}

(* Success is told only of what has been done: the file is in its place    *)
(* and nothing else is left, or the command has run once, and the terminal *)
(* is as it was (main.go:666-679, 537-573).                                *)
SuccessIsDone ==
  result = "success" =>
    /\ IF mode = "exec" THEN ran = 1 ELSE dest = "good" /\ temp = "absent"
    /\ tty = "shell" /\ echo /\ typed = <<>>

(* The command of exec is run at most once, and never by an upload; the    *)
(* file is touched by no exec.                                             *)
OneEffect ==
  /\ ran <= (IF mode = "exec" THEN 1 ELSE 0)
  /\ mode = "exec" => dest = "old" /\ temp = "absent"

(* Once the target has worked through what was typed, it has no temporary  *)
(* file, its echo is on and somebody reads commands: also when a wait has  *)
(* timed out, and when writes of the data have failed, if the line that    *)
(* could not be written has been ended at last, so that the delimiter is a *)
(* line of its own (main.go:612-627, 775-786; what                         *)
(* TestRunUploadCleansFailedTransfer asks for).                            *)
NothingLeftBehind ==
  ( /\ pc = "done" /\ typed = <<>> /\ ~sttyFailed /\ held = "none"
    /\ \A i \in 1 .. Len(faulty) : faulty[i] \in {"data", "flush"} )
    => temp = "absent" /\ echo /\ tty \notin {"heredoc", "open"}

(* The tool comes to an end, whatever the target does. *)
HostEnds == <>(pc = "done")
-----------------------------------------------------------------------------
TypeOK ==
  /\ mode \in {"exec", "upload"} /\ creds \in {"right", "wrong", "nouser", "nopassword"}
  /\ pc \in {"wake", "prompt", "user", "askPassword", "password", "confirm", "confirming",
             "setup", "ready", "header", "stream", "close", "delimiter", "last", "exit",
             "deferClose", "deferDelimiter", "deferCleanup", "done"}
  /\ result \in {"none", "success", "failure"}
  /\ heredocOpen \in BOOLEAN /\ restoreNeeded \in BOOLEAN
  /\ left \in 0 .. Lines /\ held \in {"none", "data", "flush"}
  /\ recent \subseteq Markers /\ output \in Seq(Markers)
  /\ faulty \in Seq(Texts) /\ fragment \in Texts \cup {"none"}
  /\ typed \in Seq([text : Texts, after : Texts \cup {"none"}])
  /\ tty \in {"login", "password", "shell", "heredoc", "open"}
  /\ who \in {"user", "other"} /\ echo \in BOOLEAN /\ sttyFailed \in BOOLEAN
  /\ doc \in Nat \cup {Spoiled} /\ temp \in {"absent", "good", "bad"}
  /\ dest \in {"old", "good", "bad"} /\ ran \in Nat

Entering == {"wake", "prompt", "user", "askPassword", "password", "confirm", "confirming",
             "setup"}
Sending == {"stream", "close", "delimiter", "deferClose", "deferDelimiter"}

(* Where the last line has not been typed. *)
Before == Entering \cup {"ready", "header", "last"} \cup Sending

(* Where no write has failed. *)
Normal == (Before \ {"close", "deferClose", "deferDelimiter"}) \cup {"exit"}

IsLast(line) == LastLine \in {line.text, line.after}
LastInLine == fragment = LastLine \/ \E i \in 1 .. Len(typed) : IsLast(typed[i])

Cleanup == [text |-> "cleanup", after |-> "none"]

Seen == recent \cup {output[i] : i \in 1 .. Len(output)}

TextsOf ==
  Texts \ (IF mode = "upload" THEN {"command"}
           ELSE {"header", "data", "flush", "delimiter", "finish"})

(* Each mode types its own lines, and a failure is followed by what undoes *)
(* what has been begun.                                                    *)
ModeInv ==
  /\ \A i \in 1 .. Len(typed) : typed[i].text \in TextsOf /\ typed[i].after \in TextsOf \cup {"none"}
  /\ fragment \in TextsOf \cup {"none"}
  /\ mode = "exec" => /\ pc \notin {"header", "stream", "close", "delimiter", "deferClose", "deferDelimiter"}
                      /\ ~heredocOpen /\ tty # "heredoc" /\ temp = "absent" /\ dest = "old"
  /\ mode = "upload" => ran = 0
  /\ pc \in Normal => faulty = <<>> /\ fragment = "none" /\ held = "none"
  /\ pc \in Entering => ~restoreNeeded /\ ~heredocOpen
  /\ pc \in {"ready", "header", "last", "exit"} => restoreNeeded /\ ~heredocOpen
  /\ pc = "stream" => left > 0

(* The last line is typed once, behind all others but the clean-up, and    *)
(* until the target takes it nothing has been done or told.                *)
LastInv ==
  /\ pc \in Before => ~LastInLine
  /\ \A i \in 1 .. Len(typed) : IsLast(typed[i]) =>
       /\ \A j \in i + 1 .. Len(typed) : typed[j] = Cleanup
       /\ fragment # LastLine
       /\ pc \in {"exit", "deferCleanup"} => fragment = "none"
  /\ pc = "exit" => (typed # <<>> => IsLast(typed[Len(typed)]))
  /\ pc \in Before \/ LastInLine
       => ran = 0 /\ dest = "old" /\ Seen \cap {"exit0", "exit1"} = {} /\ result # "success"

(* What status zero means, and that nothing but the clean-up has followed. *)
ExitInv ==
  /\ "exit0" \in Seen
       => /\ IF mode = "exec" THEN ran = 1 ELSE dest = "good" /\ temp = "absent"
          /\ tty = "shell" /\ \A i \in 1 .. Len(typed) : typed[i] = Cleanup
          /\ pc = "exit" => typed = <<>> /\ echo
          /\ pc \in {"exit", "deferCleanup"} => fragment = "none"
  /\ SuccessIsDone
  /\ result = "success" => pc = "done"
  /\ AtomicInstall /\ ran <= 1
-----------------------------------------------------------------------------
(* What is so while no write but those of the data has failed. *)
Clean == \A i \in 1 .. Len(faulty) : faulty[i] \in {"data", "flush"}

(* The order in which lines are typed. *)
Rank(text) ==
  CASE text = "header" -> 1
    [] text \in {"data", "flush"} -> 2
    [] text = "delimiter" -> 3
    [] text \in {"finish", "command"} -> 4
    [] text = "cleanup" -> 5
    [] OTHER -> 0

MayBeTyped ==
  CASE pc \in Entering \cup {"ready"} -> {0}
    [] pc = "header" -> {}
    [] pc \in Sending -> {1, 2}
    [] pc = "last" -> {1, 2, 3}
    [] pc \in {"exit", "deferCleanup"} -> 0 .. 4
    [] OTHER -> 0 .. 5

(* The shell is there and has answered before anything is entered; only    *)
(* then can the terminal be other than it was found.                       *)
ShellInv ==
  /\ tty \in {"login", "password"} => echo /\ temp = "absent"
  /\ pc \in Entering => /\ Seen \cap {"ready", "refused"} = {} /\ echo
                         /\ \A i \in 1 .. Len(typed) : typed[i].text # "setup"
  /\ pc = "ready" =>
       /\ typed # <<>> => Seen \cap {"ready", "refused"} = {} /\ echo
       /\ \A i \in 1 .. Len(typed) : typed[i].text = "setup" <=> i = Len(typed)
       /\ Seen \cap {"ready", "refused"} # {} => tty = "shell"
       /\ "refused" \in Seen => echo
  /\ pc \in Entering \cup {"ready", "header"} => temp = "absent" /\ tty \notin {"heredoc", "open"}
  /\ pc = "header" => tty = "shell"

(* The lines are read by whom they are meant for. *)
OrderInv ==
  Clean =>
    /\ \A i \in 1 .. Len(typed) : Rank(typed[i].text) \in MayBeTyped
    /\ \A i, j \in 1 .. Len(typed) : i < j =>
         \/ Rank(typed[i].text) < Rank(typed[j].text)
         \/ Rank(typed[i].text) = Rank(typed[j].text) /\ Rank(typed[i].text) \in {0, 2}
    /\ \A i \in 1 .. Len(typed) : typed[i].after # "none" => Rank(typed[i].text) \in {2, 3}
    /\ fragment # "none" => held # "none" /\ pc \in {"close", "deferClose", "deferDelimiter"}
    /\ tty # "open"
    /\ tty = "heredoc" => \A i \in 1 .. Len(typed) : Rank(typed[i].text) >= 2
    /\ tty # "heredoc" => \A j \in 1 .. Len(typed) : Rank(typed[j].text) \in {2, 3} =>
                            \E i \in 1 .. j - 1 : Rank(typed[i].text) = 1
    /\ pc \in Sending => tty = "heredoc" \/ \E i \in 1 .. Len(typed) : Rank(typed[i].text) = 1
    /\ pc \in Sending \/ (\E i \in 1 .. Len(typed) : Rank(typed[i].text) \in 1 .. 3)
         => tty \in {"shell", "heredoc"}

Restores(i) == typed[i] \in {[text |-> LastLine, after |-> "none"], Cleanup}

Dirty ==
  \/ ~echo /\ ~sttyFailed
  \/ temp # "absent" \/ tty = "heredoc"
  \/ \E i \in 1 .. Len(typed) : typed[i].text \in {"setup", "header", "delimiter"}

(* What has been begun is going to be undone: the host is still to type    *)
(* the line for it, or it is the last of those on their way; and a         *)
(* here-document has its end before it.                                    *)
UndoInv ==
  Clean /\ held = "none" =>
    /\ Dirty => \/ pc \in Sending \cup {"ready", "header", "last", "deferCleanup"}
                \/ typed # <<>> /\ Restores(Len(typed))
    /\ tty = "heredoc" \/ (\E i \in 1 .. Len(typed) : typed[i].text = "header")
         => \/ pc \in Sending
            \/ \E i \in 1 .. Len(typed) : typed[i] = [text |-> "delimiter", after |-> "none"]

IInv == TypeOK /\ ModeInv /\ LastInv /\ ExitInv /\ ShellInv /\ OrderInv /\ UndoInv
=============================================================================
