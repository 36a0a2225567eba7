-------------------------- MODULE SerialRunnerProofs --------------------------
(***************************************************************************)
(* Proofs about SerialRunner, for a file of any length and any number of   *)
(* writes that fail: its inductive invariant, and from it what an upload   *)
(* and a command promise.                                                  *)
(***************************************************************************)
EXTENDS SerialRunner, SequenceTheorems, TLAPS

TypedLines == [text : Texts, after : Texts \cup {"none"}]

(* What a step of the host does to the line: it types a line behind the    *)
(* others, fails to type one, or does neither.                             *)
Wrote(text) ==
  /\ Len(typed') = Len(typed) + 1
  /\ \A i \in 1 .. Len(typed) : typed'[i] = typed[i]
  /\ typed'[Len(typed) + 1] = [text |-> text, after |-> fragment]
  /\ fragment' = "none" /\ faulty' = faulty /\ recent' = recent
  /\ Seen' \subseteq Seen \cup {"confirmed", "template"}

Failed(text) ==
  /\ typed' = typed /\ fragment' \in {fragment, IF fragment = "none" THEN text ELSE fragment}
  /\ faulty' = Append(faulty, text) /\ output' = output /\ recent' = recent

Silent ==
  /\ typed' = typed /\ fragment' = fragment /\ faulty' = faulty
  /\ Seen' \subseteq Seen

(* What a step of the target does to it: it takes the first line.          *)
Took(text, after) ==
  /\ Len(typed') \in Nat /\ Len(typed) = Len(typed') + 1
  /\ typed[1] = [text |-> text, after |-> after]
  /\ \A i \in 1 .. Len(typed') : typed'[i] = typed[i + 1]
  /\ UNCHANGED <<inputs, host, faulty, fragment>>
-----------------------------------------------------------------------------
LEMMA LineTypes ==
  ASSUME TypeOK
  PROVE  /\ Len(typed) \in Nat /\ Len(output) \in Nat /\ Len(faulty) \in Nat
         /\ \A i \in 1 .. Len(typed) : /\ typed[i] \in TypedLines
                                       /\ typed[i].text \in Texts
                                       /\ typed[i].after \in Texts \cup {"none"}
         /\ typed # <<>> <=> Len(typed) > 0
         /\ Seen \subseteq Markers
<1>1. typed \in Seq(TypedLines) /\ output \in Seq(Markers) /\ faulty \in Seq(Texts)
      /\ recent \subseteq Markers
  BY DEF TypeOK, TypedLines
<1>2. Len(typed) \in Nat /\ Len(output) \in Nat /\ Len(faulty) \in Nat
  BY <1>1, LenProperties
<1>3. \A i \in 1 .. Len(typed) : typed[i] \in TypedLines
  BY <1>1, ElementOfSeq
<1>4. \A i \in 1 .. Len(output) : output[i] \in Markers
  BY <1>1, ElementOfSeq
<1>5. typed # <<>> <=> Len(typed) > 0
  BY <1>1, <1>2, EmptySeq
<1> QED BY <1>1, <1>2, <1>3, <1>4, <1>5 DEF TypedLines, Seen

(* Write either types the line or fails to.                                *)
LEMMA Writing ==
  ASSUME TypeOK, NEW text \in Texts, NEW outcome \in Outcomes,
         Write(text, outcome), recent' = recent
  PROVE  /\ typed' \in Seq(TypedLines) /\ output' \in Seq(Markers)
         /\ faulty' \in Seq(Texts) /\ fragment' \in Texts \cup {"none"}
         /\ IF outcome = "whole" THEN Wrote(text) ELSE Failed(text)
<1>1. typed \in Seq(TypedLines) /\ output \in Seq(Markers) /\ faulty \in Seq(Texts)
      /\ fragment \in Texts \cup {"none"}
  BY DEF TypeOK, TypedLines
<1>2. CASE outcome = "whole"
  <2>1. [text |-> text, after |-> fragment] \in TypedLines
    BY <1>1 DEF TypedLines
  <2>2. /\ typed' = Append(typed, [text |-> text, after |-> fragment])
        /\ fragment' = "none" /\ output' = output \o EchoOf(text) /\ faulty' = faulty
    BY <1>2 DEF Write
  <2>3. /\ EchoOf(text) \in Seq(Markers)
        /\ \A i \in 1 .. Len(EchoOf(text)) : EchoOf(text)[i] \in {"confirmed", "template"}
    <3>1. EchoOf(text) \in {<<>>, <<"confirmed">>, <<"template">>}
      <4>1. CASE ~echo \/ tty = "password"  BY <4>1 DEF EchoOf
      <4>2. CASE ~(~echo \/ tty = "password") /\ text = "confirm"  BY <4>2 DEF EchoOf
      <4>3. CASE ~(~echo \/ tty = "password") /\ text \in {"finish", "command"}
        BY <4>3 DEF EchoOf
      <4>4. CASE /\ ~(~echo \/ tty = "password")
                 /\ text # "confirm" /\ text \notin {"finish", "command"}
        BY <4>4 DEF EchoOf
      <4> QED BY <4>1, <4>2, <4>3, <4>4
    <3>2. CASE EchoOf(text) = <<>>  BY <3>2
    <3>3. CASE EchoOf(text) = <<"confirmed">>  BY <3>3 DEF Markers
    <3>4. CASE EchoOf(text) = <<"template">>  BY <3>4 DEF Markers
    <3> QED BY <3>1, <3>2, <3>3, <3>4
  <2>4. /\ typed' \in Seq(TypedLines)
        /\ Len(typed') = Len(typed) + 1
        /\ \A i \in 1 .. Len(typed) : typed'[i] = typed[i]
        /\ typed'[Len(typed) + 1] = [text |-> text, after |-> fragment]
    BY <1>1, <2>1, <2>2, AppendProperties
  <2>5. /\ output' \in Seq(Markers) /\ Len(output') = Len(output) + Len(EchoOf(text))
        /\ \A i \in 1 .. Len(output) + Len(EchoOf(text)) : output'[i] =
                     IF i <= Len(output) THEN output[i] ELSE EchoOf(text)[i - Len(output)]
    BY <1>1, <2>2, <2>3, ConcatProperties
  <2>6. Len(output) \in Nat /\ Len(EchoOf(text)) \in Nat
    BY <1>1, <2>3, LenProperties
  <2>7. ASSUME NEW i \in 1 .. Len(output')
        PROVE  output'[i] \in Seen \cup {"confirmed", "template"}
    <3>1. CASE i <= Len(output)
      BY <3>1, <2>5, <2>6 DEF Seen
    <3>2. CASE ~(i <= Len(output))
      BY <3>2, <2>3, <2>5, <2>6
    <3> QED BY <3>1, <3>2
  <2>8. Seen' \subseteq Seen \cup {"confirmed", "template"}
    BY <2>7 DEF Seen
  <2> QED BY <1>1, <1>2, <2>2, <2>4, <2>5, <2>8 DEF Wrote
<1>3. CASE outcome # "whole"
  <2>1. /\ typed' = typed /\ output' = output /\ faulty' = Append(faulty, text)
        /\ fragment' \in {fragment, IF fragment = "none" THEN text ELSE fragment}
    BY <1>3 DEF Write
  <2>2. faulty' \in Seq(Texts)
    BY <1>1, <2>1, AppendProperties
  <2> QED BY <1>1, <1>3, <2>1, <2>2 DEF Failed
<1> QED BY <1>2, <1>3

(* Reads takes the first of the lines.                                     *)
LEMMA Taking ==
  ASSUME TypeOK, NEW text, NEW after, Reads(text, after)
  PROVE  typed' \in Seq(TypedLines) /\ Took(text, after)
<1>1. typed \in Seq(TypedLines) /\ typed # <<>>
  BY DEF TypeOK, TypedLines, Reads
<1>2. /\ typed' \in Seq(TypedLines) /\ Len(typed') = Len(typed) - 1
      /\ \A i \in 1 .. Len(typed') : typed'[i] = typed[i + 1]
  BY <1>1, HeadTailProperties DEF Reads
<1>3. Len(typed) \in Nat /\ Len(typed') \in Nat
  BY <1>1, <1>2, LenProperties
<1>4. typed[1] = [text |-> text, after |-> after]
  BY <1>1 DEF Reads
<1> QED BY <1>2, <1>3, <1>4 DEF Took, Reads

(* What the target prints is still to be seen, behind what it has printed. *)
LEMMA Printing ==
  ASSUME TypeOK, NEW m \in Markers, Prints(<<m>>), recent' = recent
  PROVE  output' \in Seq(Markers) /\ Seen' = Seen \cup {m}
<1>1. output \in Seq(Markers) /\ <<m>> \in Seq(Markers) /\ Len(<<m>>) = 1 /\ <<m>>[1] = m
  BY DEF TypeOK
<1>2. /\ output' \in Seq(Markers) /\ Len(output') = Len(output) + 1
      /\ \A i \in 1 .. Len(output) + 1 : output'[i] =
                   IF i <= Len(output) THEN output[i] ELSE <<m>>[i - Len(output)]
  BY <1>1, ConcatProperties DEF Prints
<1>3. Len(output) \in Nat
  BY <1>1, LenProperties
<1>4. \A i \in 1 .. Len(output) : output'[i] = output[i]
  BY <1>2, <1>3
<1>5. output'[Len(output) + 1] = m
  BY <1>1, <1>2, <1>3
<1>6. \A i \in 1 .. Len(output') : i \in 1 .. Len(output) \/ i = Len(output) + 1
  BY <1>2, <1>3
<1>7. \A i \in 1 .. Len(output) : i \in 1 .. Len(output')
  BY <1>2, <1>3
<1>8. Len(output) + 1 \in 1 .. Len(output')
  BY <1>2, <1>3
<1> QED BY <1>2, <1>4, <1>5, <1>6, <1>7, <1>8 DEF Seen
-----------------------------------------------------------------------------
(* TYPES *)

Places == {"wake", "prompt", "user", "askPassword", "password", "confirm", "confirming",
           "setup", "ready", "header", "stream", "close", "delimiter", "last", "exit",
           "deferClose", "deferDelimiter", "deferCleanup", "done"}

(* The line and the target's variables keep their types, each in its own   *)
(* part of the invariant.                                                  *)
LineOK ==
  /\ output \in Seq(Markers) /\ faulty \in Seq(Texts)
  /\ fragment \in Texts \cup {"none"} /\ typed \in Seq(TypedLines)

HostOK ==
  /\ pc \in Places /\ result \in {"none", "success", "failure"}
  /\ heredocOpen \in BOOLEAN /\ restoreNeeded \in BOOLEAN
  /\ left \in 0 .. Lines /\ held \in {"none", "data", "flush"} /\ recent \subseteq Markers

TargetOK ==
  /\ tty \in {"login", "password", "shell", "heredoc", "open"}
  /\ who \in {"user", "other"} /\ echo \in BOOLEAN /\ sttyFailed \in BOOLEAN
  /\ doc \in Nat \cup {Spoiled} /\ temp \in {"absent", "good", "bad"}
  /\ dest \in {"old", "good", "bad"} /\ ran \in Nat

InputsOK == mode \in {"exec", "upload"} /\ creds \in {"right", "wrong", "nouser", "nopassword"}

LEMMA TypeParts == TypeOK <=> InputsOK /\ HostOK /\ LineOK /\ TargetOK
BY DEF TypeOK, InputsOK, HostOK, LineOK, TargetOK, Places, TypedLines

LEMMA TypePartsNext == TypeOK' <=> InputsOK' /\ HostOK' /\ LineOK' /\ TargetOK'
BY DEF TypeOK, InputsOK, HostOK, LineOK, TargetOK, Places, TypedLines

LEMMA TypesType ==
  ASSUME TypeOK, NEW text \in Texts, NEW outcome \in Outcomes,
         NEW from, NEW to \in Places, NEW open \in BOOLEAN, NEW restore \in BOOLEAN,
         Types(from, text, to, outcome, open, restore), UNCHANGED recent
  PROVE  TypeOK'
<1>1. Write(text, outcome) /\ UNCHANGED <<inputs, left, held, target>>
  BY DEF Types
<1>2. LineOK'
  BY <1>1, Writing DEF LineOK
<1>3. pc' \in Places /\ result' \in {"none", "success", "failure"}
      /\ heredocOpen' = open /\ restoreNeeded' = restore
  BY DEF Types, Proceed, Fail, TypeOK, Places
<1>4. HostOK'
  BY <1>1, <1>3 DEF HostOK, TypeOK
<1>5. InputsOK' /\ TargetOK'
  BY <1>1 DEF InputsOK, TargetOK, TypeOK, inputs, target
<1> QED BY <1>2, <1>4, <1>5, TypePartsNext

LEMMA CloseLinesType ==
  ASSUME TypeOK, NEW outcome \in Outcomes, NEW from, NEW to \in Places,
         CloseLines(from, to, outcome)
  PROVE  TypeOK'
<1>1. LineOK' /\ held' \in {"none", "data", "flush"}
  <2>1. CASE held = "none"
    BY <2>1 DEF CloseLines, LineOK, TypeOK, TypedLines
  <2>2. CASE held # "none"
    <3>1. held \in Texts
      BY <2>2 DEF TypeOK, Texts
    <3>2. Write(held, outcome) /\ held' \in {"none", held} /\ recent' = recent
      BY <2>2 DEF CloseLines
    <3> QED BY <3>1, <3>2, Writing DEF LineOK, TypeOK
  <2> QED BY <2>1, <2>2
<1>2. InputsOK' /\ HostOK' /\ TargetOK'
  BY <1>1 DEF CloseLines, InputsOK, HostOK, TargetOK, TypeOK, inputs, target
<1> QED BY <1>1, <1>2, TypePartsNext

LEMMA DeferredType ==
  ASSUME TypeOK, NEW text \in Texts, NEW outcome \in Outcomes, NEW from, NEW to \in Places,
         Deferred(from, text, to, outcome)
  PROVE  TypeOK'
<1>1. LineOK'
  BY Writing DEF Deferred, LineOK
<1>2. InputsOK' /\ HostOK' /\ TargetOK'
  BY DEF Deferred, InputsOK, HostOK, TargetOK, TypeOK, inputs, target
<1> QED BY <1>1, <1>2, TypePartsNext

LEMMA StreamType ==
  ASSUME TypeOK, ModeInv, NEW outcome \in Outcomes, Stream(outcome)
  PROVE  TypeOK'
<1>1. LineOK'
  BY Writing DEF Stream, LineOK, Texts
<1>2. left > 0 /\ left \in 0 .. Lines /\ Lines \in Nat
  BY SerialAssumption DEF Stream, ModeInv, TypeOK
<1>3. HostOK'
  BY <1>2 DEF Stream, HostOK, TypeOK, Places
<1>4. InputsOK' /\ TargetOK'
  BY DEF Stream, InputsOK, TargetOK, TypeOK, inputs, target
<1> QED BY <1>1, <1>3, <1>4, TypePartsNext

LEMMA HostType ==
  ASSUME TypeOK, ModeInv, HostStep
  PROVE  TypeOK'
<1> USE DEF Places, Texts
<1>1. ASSUME NEW outcome \in Outcomes, Wake(outcome)  PROVE TypeOK'
  BY <1>1, TypesType DEF Wake
<1>2. ASSUME NEW outcome \in Outcomes, TypeUser(outcome)  PROVE TypeOK'
  BY <1>2, TypesType DEF TypeUser
<1>3. ASSUME NEW outcome \in Outcomes, TypePassword(outcome)  PROVE TypeOK'
  BY <1>3, TypesType DEF TypePassword
<1>4. ASSUME NEW outcome \in Outcomes, TypeConfirm(outcome)  PROVE TypeOK'
  BY <1>4, TypesType DEF TypeConfirm
<1>5. ASSUME NEW outcome \in Outcomes, TypeSetup(outcome)  PROVE TypeOK'
  BY <1>5, TypesType DEF TypeSetup
<1>6. ASSUME NEW outcome \in Outcomes, TypeHeader(outcome)  PROVE TypeOK'
  <2>1. (IF left = 0 THEN "delimiter" ELSE "stream") \in Places
    OBVIOUS
  <2> QED BY <1>6, <2>1, TypesType DEF TypeHeader
<1>7. ASSUME NEW outcome \in Outcomes, Stream(outcome)  PROVE TypeOK'
  BY <1>7, StreamType
<1>8. ASSUME NEW outcome \in Outcomes, CloseLines("close", "deferClose", outcome)
      PROVE  TypeOK'
  BY <1>8, CloseLinesType
<1>9. ASSUME NEW outcome \in Outcomes, TypeDelimiter(outcome)  PROVE TypeOK'
  <2>1. (outcome # "whole") \in BOOLEAN
    OBVIOUS
  <2> QED BY <1>9, <2>1, TypesType DEF TypeDelimiter
<1>10. ASSUME NEW outcome \in Outcomes, TypeLast(outcome)  PROVE TypeOK'
  <2>1. LastLine \in Texts
    BY DEF LastLine
  <2> QED BY <1>10, <2>1, TypesType DEF TypeLast
<1>11. ASSUME NEW outcome \in Outcomes, CloseLines("deferClose", "deferDelimiter", outcome)
       PROVE  TypeOK'
  BY <1>11, CloseLinesType
<1>12. ASSUME NEW outcome \in Outcomes,
              Deferred("deferDelimiter", "delimiter", "deferCleanup", outcome)
       PROVE  TypeOK'
  BY <1>12, DeferredType
<1>13. ASSUME NEW outcome \in Outcomes, Deferred("deferCleanup", "cleanup", "done", outcome)
       PROVE  TypeOK'
  BY <1>13, DeferredType
<1>14. CASE Read
  <2>1. output \in Seq(Markers) /\ output # <<>>
    BY <1>14 DEF Read, TypeOK
  <2>2. Head(output) \in Markers /\ Tail(output) \in Seq(Markers)
    BY <2>1, HeadTailProperties
  <2> QED BY <1>14, <2>2 DEF Read, TypeOK, inputs, target
<1>15. CASE SourceFails
  BY <1>15 DEF SourceFails, TypeOK, inputs, target
<1>16. CASE Timeout \/ AtPrompt \/ AtPassword \/ Confirmed \/ Ready \/ Exit
  BY <1>16 DEF Timeout, AtPrompt, AtPassword, Confirmed, Ready, Exit, Fail, Proceed, TypeOK,
               inputs, target
<1> QED BY <1>1, <1>2, <1>3, <1>4, <1>5, <1>6, <1>7, <1>8, <1>9, <1>10, <1>11, <1>12, <1>13,
           <1>14, <1>15, <1>16 DEF HostStep

(* What the target prints is kept in mind for every action of it.          *)
LEMMA InstallType ==
  ASSUME TypeOK, NEW ok \in BOOLEAN, NEW sttyOk \in BOOLEAN, UNCHANGED recent,
         Install(ok, sttyOk) \/ Execute(ok, sttyOk)
  PROVE  TargetOK' /\ output' \in Seq(Markers)
<1>1. PICK m \in {"exit0", "exit1"} : Prints(<<m>>)
  BY DEF Install, Execute
<1>2. output' \in Seq(Markers)
  BY <1>1, Printing DEF Markers
<1>3. echo' \in BOOLEAN /\ sttyFailed' \in BOOLEAN
  <2>1. EchoOn(sttyOk)
    BY DEF Install, Execute
  <2> QED BY <2>1 DEF EchoOn
<1>4. TargetOK'
  <2>1. CASE Install(ok, sttyOk)
    BY <1>3, <2>1 DEF Install, TypeOK, TargetOK
  <2>2. CASE Execute(ok, sttyOk)
    BY <1>3, <2>2 DEF Execute, TypeOK, TargetOK
  <2> QED BY <2>1, <2>2
<1> QED BY <1>2, <1>4

LEMMA TargetType ==
  ASSUME TypeOK, TargetStep
  PROVE  TypeOK'
<1> DEFINE Rest == InputsOK' /\ HostOK' /\ fragment' \in Texts \cup {"none"}
                   /\ typed' \in Seq(TypedLines) /\ faulty' \in Seq(Texts) /\ recent' = recent
<1>1. ASSUME NEW text, NEW after, Reads(text, after)  PROVE Rest
  <2>1. typed' \in Seq(TypedLines) /\ UNCHANGED <<inputs, host, faulty, fragment>>
    BY <1>1, Taking DEF Took
  <2> QED BY <2>1 DEF TypeOK, InputsOK, HostOK, Places, inputs, host
<1>2. SUFFICES TargetOK' /\ output' \in Seq(Markers)
  <2>1. \E text, after : Reads(text, after)
    BY DEF TargetStep, Login, Swallow, Merged, HereDocument, Answer, RunSetup, RunCleanup,
           RunHeader, RunLast
  <2>2. Rest
    BY <1>1, <2>1
  <2> QED BY <2>2, TypePartsNext DEF LineOK
<1>3. ASSUME NEW text, NEW after, Login(text, after)
      PROVE  TargetOK' /\ output' \in Seq(Markers)
  <2>1. recent' = recent
    BY <1>1, <1>3 DEF Login
  <2>2. PICK m \in {"login", "Password", "prompt"} : Prints(<<m>>)
    BY <1>3 DEF Login
  <2>3. output' \in Seq(Markers)
    BY <2>1, <2>2, Printing DEF Markers
  <2>4. /\ tty' \in {"login", "password", "shell"} /\ who' \in {"user", "other", who}
        /\ echo' \in {TRUE, echo}
    BY <1>3 DEF Login
  <2>5. UNCHANGED <<sttyFailed, doc, temp, dest, ran>>
    BY <1>3 DEF Login
  <2>6. TargetOK
    BY TypeParts
  <2>7. TargetOK'
    BY <2>4, <2>5, <2>6 DEF TargetOK
  <2> QED BY <2>3, <2>7
<1>4. ASSUME NEW text, NEW after, Swallow(text, after)
      PROVE  TargetOK' /\ output' \in Seq(Markers)
  BY <1>4 DEF Swallow, TargetOK, TypeOK, target
<1>5. ASSUME NEW text, NEW after, NEW ok \in BOOLEAN, NEW sttyOk \in BOOLEAN,
             Merged(text, after, ok, sttyOk)
      PROVE  TargetOK' /\ output' \in Seq(Markers)
  <2>1. recent' = recent
    BY <1>1, <1>5 DEF Merged
  <2>2. CASE Install(ok, sttyOk) \/ Execute(ok, sttyOk)
    BY <2>1, <2>2, InstallType
  <2>3. CASE ~(Install(ok, sttyOk) \/ Execute(ok, sttyOk))
    BY <1>5, <2>3 DEF Merged, TargetOK, TypeOK
  <2> QED BY <2>2, <2>3
<1>6. ASSUME NEW text, NEW after, NEW ok \in BOOLEAN, HereDocument(text, after, ok)
      PROVE  TargetOK' /\ output' \in Seq(Markers)
  BY <1>6 DEF HereDocument, TargetOK, TypeOK, Spoiled
<1>7. ASSUME NEW text, Answer(text)
      PROVE  TargetOK' /\ output' \in Seq(Markers)
  <2>1. recent' = recent /\ output \in Seq(Markers)
    BY <1>1, <1>7 DEF Answer, TypeOK
  <2>2. TargetOK'
    BY <1>7 DEF Answer, TargetOK, TypeOK, target
  <2>3. \/ Prints(<<"prompt">>) \/ Prints(<<"confirmed">>) \/ Prints(<<>>)
    BY <1>7 DEF Answer
  <2>4. Prints(<<>>) => output' = output
    BY <2>1, ConcatEmptySeq DEF Prints
  <2> QED BY <2>1, <2>2, <2>3, <2>4, Printing DEF Markers
<1>8. ASSUME NEW ok \in BOOLEAN, RunSetup(ok)
      PROVE  TargetOK' /\ output' \in Seq(Markers)
  <2>1. recent' = recent
    BY <1>1, <1>8 DEF RunSetup
  <2>2. PICK m \in {"ready", "refused"} : Prints(<<m>>)
    BY <1>8 DEF RunSetup
  <2> QED BY <1>8, <2>1, <2>2, Printing DEF RunSetup, TargetOK, TypeOK, Markers
<1>9. ASSUME NEW ok \in BOOLEAN, RunCleanup(ok)
      PROVE  TargetOK' /\ output' \in Seq(Markers)
  BY <1>9 DEF RunCleanup, EchoOn, TargetOK, TypeOK
<1>10. CASE RunHeader
  BY <1>10 DEF RunHeader, TargetOK, TypeOK
<1>11. ASSUME NEW ok \in BOOLEAN, NEW sttyOk \in BOOLEAN, RunLast(ok, sttyOk)
       PROVE  TargetOK' /\ output' \in Seq(Markers)
  <2>1. recent' = recent
    BY <1>1, <1>11 DEF RunLast
  <2> QED BY <1>11, <2>1, InstallType DEF RunLast
<1> QED BY <1>3, <1>4, <1>5, <1>6, <1>7, <1>8, <1>9, <1>10, <1>11 DEF TargetStep
-----------------------------------------------------------------------------
(* WHAT A STEP OF THE HOST DOES *)

(* It types a line, and goes on. *)
Typing(text) ==
  /\ Wrote(text) /\ UNCHANGED <<inputs, target>> /\ result' \in {result, "failure"}
  /\ \/ /\ text \in {"wake", "user", "password", "confirm"} /\ held' = held
        /\ pc \in Entering /\ pc' \in Entering /\ ~restoreNeeded' /\ ~heredocOpen'
     \/ /\ text = "setup" /\ held' = held
        /\ pc = "setup" /\ pc' = "ready" /\ restoreNeeded' /\ ~heredocOpen'
     \/ /\ text = "header" /\ held' = held
        /\ pc = "header" /\ pc' \in {"stream", "delimiter"} /\ (pc' = "stream" => left' > 0)
     \/ /\ text = "data" /\ held' = held
        /\ pc = "stream" /\ pc' \in {"stream", "delimiter"} /\ (pc' = "stream" => left' > 0)
     \/ /\ text = held /\ held # "none" /\ held' = "none"
        /\ pc \in {"close", "deferClose"} /\ pc' \in {"deferClose", "deferDelimiter"}
     \/ /\ text = "delimiter" /\ held' = held
        /\ pc = "delimiter" /\ pc' = "last" /\ restoreNeeded' /\ ~heredocOpen'
     \/ /\ text = "delimiter" /\ held' = held
        /\ pc = "deferDelimiter" /\ pc' = "deferCleanup" /\ UNCHANGED heredocOpen
     \/ /\ text = LastLine /\ held' = held
        /\ pc = "last" /\ pc' = "exit" /\ restoreNeeded' /\ ~heredocOpen'
     \/ /\ text = "cleanup" /\ held' = held
        /\ pc = "deferCleanup" /\ pc' = "done" /\ UNCHANGED heredocOpen

(* It fails to type a line. *)
Failing(text) ==
  /\ Failed(text) /\ UNCHANGED <<inputs, target>> /\ result' \in {result, "failure"}
  /\ \/ /\ text \in {"data", "flush"} /\ held' \in {"data", "flush"}
        /\ pc \in {"stream", "close", "deferClose"}
        /\ pc' \in {"close", "deferClose", "deferDelimiter"}
     \/ /\ text \in {"header", "delimiter"} /\ held' = held
        /\ pc \in {"header", "delimiter", "deferDelimiter"} /\ pc' \in {"deferClose", "deferCleanup"}
     \/ /\ text \in {"wake", "user", "password", "confirm", "setup"} /\ held' = held
        /\ pc \in Entering /\ pc' \in {"deferCleanup", "done"} /\ ~heredocOpen'
     \/ /\ text = LastLine /\ held' = held
        /\ pc = "last" /\ pc' = "deferCleanup" /\ ~heredocOpen'
     \/ /\ text = "cleanup" /\ held' = held
        /\ pc = "deferCleanup" /\ pc' = "done" /\ UNCHANGED heredocOpen

(* It types nothing. *)
Quiet ==
  /\ Silent /\ UNCHANGED <<inputs, target>>
  /\ \/ /\ UNCHANGED <<pc, result, heredocOpen, restoreNeeded, left, held>>
        /\ Seen' = Seen /\ pc # "done"
     \/ /\ pc \in Entering /\ pc' \in Entering \cup {"done"} /\ held' = held
        /\ result' \in {result, "failure"} /\ ~restoreNeeded' /\ ~heredocOpen'
     \/ /\ pc = "ready" /\ pc' = (IF mode = "exec" THEN "last" ELSE "header") /\ held' = held
        /\ "ready" \in Seen /\ result' = result /\ restoreNeeded' /\ ~heredocOpen'
     \/ /\ pc = "ready" /\ pc' = "done" /\ held' = held
        /\ "refused" \in Seen /\ result' = "failure" /\ ~heredocOpen'
     \/ /\ pc \in {"ready", "exit"} /\ pc' = "deferCleanup" /\ held' = held
        /\ result' = "failure" /\ UNCHANGED heredocOpen
     \/ /\ pc = "exit" /\ pc' = "done" /\ held' = held
        /\ "exit0" \in Seen /\ result' = "success" /\ UNCHANGED heredocOpen
     \/ /\ pc = "stream" /\ pc' = "close" /\ held' \in {"none", "flush"} /\ result' = result
     \/ /\ pc \in {"close", "deferClose"} /\ pc' \in {"deferClose", "deferDelimiter"}
        /\ held = "none" /\ held' = held /\ result' = "failure"

LEMMA TypesDoes ==
  ASSUME TypeOK, NEW text \in Texts, NEW outcome \in Outcomes,
         NEW from, NEW to, NEW open, NEW restore,
         Types(from, text, to, outcome, open, restore), UNCHANGED recent
  PROVE  /\ pc = from /\ UNCHANGED <<inputs, target>> /\ held' = held /\ left' = left
         /\ heredocOpen' = open /\ restoreNeeded' = restore
         /\ IF outcome = "whole"
            THEN Wrote(text) /\ pc' = to /\ result' = result
            ELSE /\ Failed(text) /\ result' = "failure"
                 /\ pc' = IF open THEN "deferClose" ELSE IF restore THEN "deferCleanup" ELSE "done"
<1>1. Write(text, outcome)
  BY DEF Types
<1>2. IF outcome = "whole" THEN Wrote(text) ELSE Failed(text)
  BY <1>1, Writing
<1> QED BY <1>2 DEF Types, Proceed, Fail

LEMMA CloseLinesDoes ==
  ASSUME TypeOK, NEW outcome \in Outcomes, NEW from, NEW to, CloseLines(from, to, outcome)
  PROVE  /\ pc = from /\ pc' = to /\ result' = "failure"
         /\ UNCHANGED <<inputs, target>>
         /\ \/ held = "none" /\ held' = held /\ Silent
            \/ held # "none" /\ held' = "none" /\ Wrote(held)
            \/ held # "none" /\ held' = held /\ Failed(held)
<1>1. CASE held = "none"
  BY <1>1 DEF CloseLines, Silent, Seen
<1>2. CASE held # "none"
  <2>1. held \in Texts /\ Write(held, outcome) /\ recent' = recent
    BY <1>2 DEF CloseLines, TypeOK, Texts
  <2>2. IF outcome = "whole" THEN Wrote(held) ELSE Failed(held)
    BY <2>1, Writing
  <2> QED BY <1>2, <2>2 DEF CloseLines
<1> QED BY <1>1, <1>2 DEF CloseLines

LEMMA HostDoes ==
  ASSUME TypeOK, ModeInv, HostStep
  PROVE  (\E text \in Texts : Typing(text) \/ Failing(text)) \/ Quiet
<1> DEFINE Does == (\E text \in Texts : Typing(text) \/ Failing(text)) \/ Quiet
<1> USE DEF Entering
<1>1. ASSUME NEW outcome \in Outcomes,
             Wake(outcome) \/ TypeUser(outcome) \/ TypePassword(outcome) \/ TypeConfirm(outcome)
      PROVE  Does
  <2>1. PICK text \in {"wake", "user", "password", "confirm"}, from \in Entering, to \in Entering :
             Types(from, text, to, outcome, FALSE, FALSE) /\ UNCHANGED recent
    BY <1>1 DEF Wake, TypeUser, TypePassword, TypeConfirm
  <2>2. text \in Texts
    BY DEF Texts
  <2>3. Typing(text) \/ Failing(text)
    BY <2>1, <2>2, TypesDoes DEF Typing, Failing
  <2> QED BY <2>2, <2>3
<1>2. ASSUME NEW outcome \in Outcomes, TypeSetup(outcome)
      PROVE  Does
  <2>1. "setup" \in Texts
    BY DEF Texts
  <2>2. /\ pc = "setup" /\ UNCHANGED <<inputs, target>> /\ held' = held /\ left' = left
        /\ heredocOpen' = FALSE /\ restoreNeeded' = TRUE
        /\ IF outcome = "whole"
           THEN Wrote("setup") /\ pc' = "ready" /\ result' = result
           ELSE /\ Failed("setup") /\ result' = "failure"
                /\ pc' = IF FALSE THEN "deferClose" ELSE IF TRUE THEN "deferCleanup" ELSE "done"
    BY <1>2, <2>1, TypesDoes DEF TypeSetup
  <2>3. Typing("setup") \/ Failing("setup")
    BY <2>1, <2>2 DEF Typing, Failing
  <2> QED BY <2>1, <2>3
<1>3. ASSUME NEW outcome \in Outcomes, TypeHeader(outcome)
      PROVE  Does
  <2>1. "header" \in Texts /\ left \in Nat
    BY SerialAssumption DEF Texts, TypeOK
  <2>2. /\ pc = "header" /\ UNCHANGED <<inputs, target>> /\ held' = held /\ left' = left
        /\ heredocOpen' = TRUE /\ restoreNeeded' = TRUE
        /\ IF outcome = "whole"
           THEN Wrote("header") /\ pc' = (IF left = 0 THEN "delimiter" ELSE "stream") /\ result' = result
           ELSE /\ Failed("header") /\ result' = "failure"
                /\ pc' = IF TRUE THEN "deferClose" ELSE IF TRUE THEN "deferCleanup" ELSE "done"
    BY <1>3, <2>1, TypesDoes DEF TypeHeader
  <2>3. Typing("header") \/ Failing("header")
    BY <2>1, <2>2 DEF Typing, Failing
  <2> QED BY <2>1, <2>3
<1>4. ASSUME NEW outcome \in Outcomes, Stream(outcome)
      PROVE  Does
  <2>1. "data" \in Texts /\ left \in Nat /\ left > 0
    BY <1>4, SerialAssumption DEF Texts, TypeOK, ModeInv, Stream
  <2>2. IF outcome = "whole" THEN Wrote("data") ELSE Failed("data")
    BY <1>4, <2>1, Writing DEF Stream
  <2>3. Typing("data") \/ Failing("data")
    BY <1>4, <2>1, <2>2 DEF Typing, Failing, Stream
  <2> QED BY <2>1, <2>3
<1>5. ASSUME NEW outcome \in Outcomes, NEW from, NEW to, CloseLines(from, to, outcome),
             <<from, to>> \in {<<"close", "deferClose">>, <<"deferClose", "deferDelimiter">>}
      PROVE  Does
  <2>1. held = "none" \/ held \in {"data", "flush"}
    BY DEF TypeOK
  <2>2. from \in {"close", "deferClose"} /\ to \in {"deferClose", "deferDelimiter"}
    BY <1>5
  <2>3. held \in {"data", "flush"} => held \in Texts
    BY DEF Texts
  <2>4. Quiet \/ Typing(held) \/ Failing(held)
    BY <1>5, <2>1, <2>2, CloseLinesDoes DEF Quiet, Typing, Failing
  <2>5. Typing(held) \/ Failing(held) => held \in Texts
    BY <2>1, <2>2, <2>3, <1>5 DEF Typing, Failing, CloseLines
  <2> QED BY <2>4, <2>5
<1>6. ASSUME NEW outcome \in Outcomes, TypeDelimiter(outcome)
      PROVE  Does
  <2>1. "delimiter" \in Texts
    BY DEF Texts
  <2>2. /\ pc = "delimiter" /\ UNCHANGED <<inputs, target>> /\ held' = held /\ left' = left
        /\ heredocOpen' = (outcome # "whole") /\ restoreNeeded' = TRUE
        /\ IF outcome = "whole"
           THEN Wrote("delimiter") /\ pc' = "last" /\ result' = result
           ELSE /\ Failed("delimiter") /\ result' = "failure"
                /\ pc' = IF (outcome # "whole") THEN "deferClose" ELSE IF TRUE THEN "deferCleanup" ELSE "done"
    BY <1>6, <2>1, TypesDoes DEF TypeDelimiter
  <2>3. Typing("delimiter") \/ Failing("delimiter")
    BY <2>1, <2>2 DEF Typing, Failing
  <2> QED BY <2>1, <2>3
<1>7. ASSUME NEW outcome \in Outcomes, TypeLast(outcome)
      PROVE  Does
  <2>1. LastLine \in Texts
    BY DEF Texts, LastLine
  <2>2. /\ pc = "last" /\ UNCHANGED <<inputs, target>> /\ held' = held /\ left' = left
        /\ heredocOpen' = FALSE /\ restoreNeeded' = TRUE
        /\ IF outcome = "whole"
           THEN Wrote(LastLine) /\ pc' = "exit" /\ result' = result
           ELSE /\ Failed(LastLine) /\ result' = "failure"
                /\ pc' = IF FALSE THEN "deferClose" ELSE IF TRUE THEN "deferCleanup" ELSE "done"
    BY <1>7, <2>1, TypesDoes DEF TypeLast
  <2>3. Typing(LastLine) \/ Failing(LastLine)
    BY <2>1, <2>2 DEF Typing, Failing
  <2> QED BY <2>1, <2>3
<1>8. ASSUME NEW outcome \in Outcomes, NEW from, NEW text, NEW to,
             Deferred(from, text, to, outcome),
             \/ from = "deferDelimiter" /\ text = "delimiter" /\ to = "deferCleanup"
             \/ from = "deferCleanup" /\ text = "cleanup" /\ to = "done"
      PROVE  Does
  <2>1. text \in Texts
    BY <1>8 DEF Texts
  <2>2. Wrote(text) \/ Failed(text)
    BY <1>8, <2>1, Writing DEF Deferred
  <2>3. Typing(text) \/ Failing(text)
    BY <1>8, <2>2 DEF Typing, Failing, Deferred
  <2> QED BY <2>1, <2>3
<1>9. CASE Read
  <2>1. Seen' = Seen
    <3>1. output \in Seq(Markers) /\ output # <<>>
      BY <1>9 DEF Read, TypeOK
    <3>2. /\ output' = Tail(output) /\ recent' = recent \cup {output[1]}
          /\ Len(output) \in Nat /\ Len(output) > 0
      BY <1>9, <3>1, EmptySeq DEF Read
    <3>3. Len(output') = Len(output) - 1 /\ \A i \in 1 .. Len(output') : output'[i] = output[i + 1]
      BY <3>1, <3>2, HeadTailProperties
    <3>4. \A i \in 1 .. Len(output) : i = 1 \/ (i - 1 \in 1 .. Len(output') /\ i = (i - 1) + 1)
      BY <3>2, <3>3
    <3>5. \A i \in 1 .. Len(output') : i + 1 \in 1 .. Len(output)
      BY <3>2, <3>3
    <3>6. \A i \in 1 .. Len(output) : output[i] \in Seen'
      BY <3>2, <3>3, <3>4 DEF Seen
    <3>7. \A i \in 1 .. Len(output') : output'[i] \in Seen
      BY <3>3, <3>5 DEF Seen
    <3>8. 1 \in 1 .. Len(output)
      BY <3>2
    <3> QED BY <3>2, <3>6, <3>7, <3>8 DEF Seen
  <2>2. pc # "done"
    BY <1>9 DEF Read, Waiting, Needles
  <2> QED BY <1>9, <2>1, <2>2 DEF Read, Quiet, Silent, inputs, target
<1>10. CASE SourceFails
  BY <1>10 DEF SourceFails, Quiet, Silent, Seen
<1>11. recent \subseteq Seen
  BY DEF Seen
<1>12. CASE Timeout \/ AtPrompt \/ AtPassword \/ Confirmed \/ Ready \/ Exit
  <2>1. Silent /\ UNCHANGED <<inputs, target>> /\ held' = held
    BY <1>12 DEF Timeout, AtPrompt, AtPassword, Confirmed, Ready, Exit, Silent, Seen
  <2>2. CASE Timeout
    <3>1. pc \in {"prompt", "askPassword", "confirming", "ready", "exit"}
      BY <2>2 DEF Timeout, Waiting, Needles
    <3> QED BY <2>1, <2>2, <3>1 DEF Timeout, Fail, Quiet, ModeInv, TypeOK
  <2>3. CASE AtPrompt \/ AtPassword \/ Confirmed
    BY <2>1, <2>3 DEF AtPrompt, AtPassword, Confirmed, Fail, Proceed, Quiet
  <2>4. CASE Ready
    <3>1. Needles = {"ready", "refused"}
      BY <2>4 DEF Ready, Needles
    <3>2. pc = "ready" /\ (Found("refused") \/ "ready" \in recent)
      BY <2>4, <3>1 DEF Ready, Waiting, Found
    <3>3. Found("refused") => "refused" \in Seen
      BY <1>11 DEF Found
    <3>4. CASE Found("refused") /\ Fail(FALSE, FALSE)
      BY <2>1, <3>2, <3>3, <3>4 DEF Fail, Quiet
    <3>5. CASE /\ ~Found("refused")
               /\ Proceed(IF mode = "exec" THEN "last" ELSE "header", FALSE, TRUE)
      BY <2>1, <1>11, <3>2, <3>5 DEF Proceed, Quiet
    <3> QED BY <2>4, <3>4, <3>5 DEF Ready
  <2>5. CASE Exit
    <3>1. pc = "exit" /\ restoreNeeded /\ ~heredocOpen
      BY <2>5 DEF Exit, ModeInv
    <3>2. Found("exit0") => "exit0" \in Seen
      BY <1>11 DEF Found
    <3> QED BY <2>1, <2>5, <3>1, <3>2 DEF Exit, Fail, Quiet
  <2> QED BY <1>12, <2>2, <2>3, <2>4, <2>5
<1> QED BY <1>1, <1>2, <1>3, <1>4, <1>5, <1>6, <1>7, <1>8, <1>9, <1>10, <1>12 DEF HostStep
-----------------------------------------------------------------------------
(* EACH MODE ITS OWN LINES *)

(* The index of a line that has just been typed, and of one that was       *)
(* there; the index a line had before the first was taken.                 *)
LEMMA Indices ==
  ASSUME TypeOK
  PROVE  /\ \A text : Wrote(text) =>
              /\ Len(typed) \in Nat
              /\ \A i \in 1 .. Len(typed') : i \in 1 .. Len(typed) \/ i = Len(typed) + 1
              /\ \A i \in 1 .. Len(typed) : i \in 1 .. Len(typed') /\ typed'[i] = typed[i]
              /\ Len(typed) + 1 \in 1 .. Len(typed')
         /\ \A text, after : Took(text, after) =>
              /\ Len(typed) \in Nat /\ Len(typed) > 0
              /\ \A i \in 1 .. Len(typed') : i + 1 \in 1 .. Len(typed) /\ typed'[i] = typed[i + 1]
              /\ \A i \in 1 .. Len(typed) :
                   i = 1 \/ (i - 1 \in 1 .. Len(typed') /\ typed'[i - 1] = typed[i])
              /\ 1 \in 1 .. Len(typed)
<1>1. Len(typed) \in Nat
  BY LineTypes
<1>2. ASSUME NEW text, Wrote(text)
      PROVE  /\ \A i \in 1 .. Len(typed') : i \in 1 .. Len(typed) \/ i = Len(typed) + 1
             /\ \A i \in 1 .. Len(typed) : i \in 1 .. Len(typed') /\ typed'[i] = typed[i]
             /\ Len(typed) + 1 \in 1 .. Len(typed')
  BY <1>1, <1>2 DEF Wrote
<1>3. ASSUME NEW text, NEW after, Took(text, after)
      PROVE  /\ Len(typed) > 0
             /\ \A i \in 1 .. Len(typed') : i + 1 \in 1 .. Len(typed) /\ typed'[i] = typed[i + 1]
             /\ \A i \in 1 .. Len(typed) :
                  i = 1 \/ (i - 1 \in 1 .. Len(typed') /\ typed'[i - 1] = typed[i])
             /\ 1 \in 1 .. Len(typed)
  <2>1. /\ Len(typed') \in Nat /\ Len(typed) = Len(typed') + 1
        /\ \A i \in 1 .. Len(typed') : typed'[i] = typed[i + 1]
    BY <1>3 DEF Took
  <2>2. ASSUME NEW i \in 1 .. Len(typed), i # 1
        PROVE  i - 1 \in 1 .. Len(typed') /\ typed'[i - 1] = typed[i]
    <3>1. i - 1 \in 1 .. Len(typed') /\ (i - 1) + 1 = i
      BY <1>1, <1>3, <2>1, <2>2
    <3> QED BY <2>1, <3>1
  <2> QED BY <1>1, <1>3, <2>1, <2>2
<1> QED BY <1>1, <1>2, <1>3

LEMMA ModeHost ==
  ASSUME TypeOK, ModeInv, HostStep
  PROVE  ModeInv'
<1> USE DEF Entering, Sending, Before, Normal
<1>1. /\ mode \in {"exec", "upload"} /\ TextsOf \subseteq Texts
      /\ {"wake", "user", "password", "confirm", "setup", "cleanup", LastLine} \subseteq TextsOf
      /\ mode = "upload" => {"header", "data", "flush", "delimiter"} \subseteq TextsOf
      /\ held = "none" \/ held \in {"data", "flush"}
  BY DEF TypeOK, TextsOf, Texts, LastLine
<1>2. pc \in {"header", "stream", "close", "delimiter", "deferClose", "deferDelimiter"} => mode = "upload"
  BY <1>1 DEF ModeInv
<1>3. ASSUME NEW text \in Texts, Typing(text)
      PROVE  ModeInv'
  <2>1. Wrote(text) /\ mode' = mode /\ TextsOf' = TextsOf
    BY <1>3 DEF Typing, TextsOf, inputs
  <2>2. text \in TextsOf
    BY <1>1, <1>2, <1>3 DEF Typing
  <2>3. typed'[Len(typed) + 1].text = text /\ typed'[Len(typed) + 1].after = fragment
    BY <2>1 DEF Wrote
  <2>4. ASSUME NEW i \in 1 .. Len(typed')
        PROVE  typed'[i].text \in TextsOf /\ typed'[i].after \in TextsOf \cup {"none"}
    BY <2>1, <2>2, <2>3, Indices DEF ModeInv
  <2>5. UNCHANGED <<tty, temp, dest, ran>>
    BY <1>3 DEF Typing, target
  <2>6. fragment' = "none" /\ faulty' = faulty
    BY <2>1 DEF Wrote
  <2>7. mode = "exec" => /\ pc' \notin {"header", "stream", "close", "delimiter", "deferClose", "deferDelimiter"}
                         /\ ~heredocOpen'
    BY <1>2, <1>3 DEF Typing, ModeInv
  <2>8. pc' \in Normal => pc \in Normal /\ held' = held
    BY <1>3 DEF Typing
  <2>9. /\ pc' \in Entering => ~restoreNeeded' /\ ~heredocOpen'
        /\ pc' \in {"ready", "header", "last", "exit"} => restoreNeeded' /\ ~heredocOpen'
        /\ pc' = "stream" => left' > 0
    BY <1>3 DEF Typing
  <2> QED BY <2>1, <2>4, <2>5, <2>6, <2>7, <2>8, <2>9 DEF ModeInv
<1>4. ASSUME NEW text \in Texts, Failing(text)
      PROVE  ModeInv'
  <2>1. Failed(text) /\ mode' = mode /\ TextsOf' = TextsOf
    BY <1>4 DEF Failing, TextsOf, inputs
  <2>2. text \in TextsOf
    BY <1>1, <1>2, <1>4 DEF Failing
  <2>3. typed' = typed /\ fragment' \in TextsOf \cup {"none"}
    BY <2>1, <2>2 DEF Failed, ModeInv
  <2>4. UNCHANGED <<tty, temp, dest, ran>>
    BY <1>4 DEF Failing, target
  <2>5. mode = "exec" => pc' \in {"deferCleanup", "done"} /\ ~heredocOpen'
    BY <1>2, <1>4 DEF Failing, ModeInv
  <2>6. pc' \in {"close", "deferClose", "deferDelimiter", "deferCleanup", "done"}
    BY <1>4 DEF Failing
  <2> QED BY <2>1, <2>3, <2>4, <2>5, <2>6 DEF ModeInv
<1>5. CASE Quiet
  <2>1. typed' = typed /\ fragment' = fragment /\ faulty' = faulty /\ mode' = mode /\ TextsOf' = TextsOf
    BY <1>5 DEF Quiet, Silent, TextsOf, inputs
  <2>2. UNCHANGED <<tty, temp, dest, ran>>
    BY <1>5 DEF Quiet, target
  <2>3. \/ UNCHANGED <<pc, heredocOpen, restoreNeeded, left, held>>
        \/ /\ pc' \in Normal => pc \in Normal /\ held' = held
           /\ mode = "exec" => /\ pc' \notin {"header", "stream", "close", "delimiter", "deferClose", "deferDelimiter"}
                               /\ ~heredocOpen'
           /\ pc' \in Entering => ~restoreNeeded' /\ ~heredocOpen'
           /\ pc' \in {"ready", "header", "last", "exit"} => restoreNeeded' /\ ~heredocOpen'
           /\ pc' # "stream"
    BY <1>2, <1>5 DEF Quiet, ModeInv
  <2>4. CASE UNCHANGED <<pc, heredocOpen, restoreNeeded, left, held>>
    BY <2>1, <2>2, <2>4 DEF ModeInv
  <2>5. CASE ~UNCHANGED <<pc, heredocOpen, restoreNeeded, left, held>>
    BY <2>1, <2>2, <2>3, <2>5 DEF ModeInv
  <2> QED BY <2>4, <2>5
<1> QED BY <1>3, <1>4, <1>5, HostDoes
-----------------------------------------------------------------------------
(* WHAT A STEP OF THE TARGET DOES *)

Logs(text, after) ==
  /\ tty \in {"login", "password"} /\ tty' \in {"login", "password", "shell"}
  /\ echo => echo'
  /\ UNCHANGED <<sttyFailed, doc, temp, dest, ran>>
  /\ Seen' \subseteq Seen \cup {"login", "Password", "prompt"}

Answers(text, after) ==
  /\ tty = "shell" /\ after = "none"
  /\ text \in {"wake", "confirm", "user", "password", "data", "flush", "delimiter"}
  /\ UNCHANGED target
  /\ Seen' \subseteq Seen \cup {"prompt", "confirmed"}

SetsUp(text, after) ==
  /\ tty = "shell" /\ text = "setup" /\ after = "none"
  /\ UNCHANGED <<tty, sttyFailed, temp, dest, ran>>
  /\ \/ Seen' = Seen \cup {"ready"}
     \/ Seen' = Seen \cup {"refused"} /\ echo' = echo

Opens(text, after) ==
  /\ tty = "shell" /\ text = "header" /\ after = "none"
  /\ tty' = "heredoc"
  /\ UNCHANGED <<echo, sttyFailed, temp, dest, ran>> /\ Seen' = Seen

Collects(text, after) ==
  /\ tty = "heredoc"
  /\ \/ text = "delimiter" /\ after = "none" /\ tty' = "shell"
     \/ (text # "delimiter" \/ after # "none") /\ tty' = tty /\ temp' = temp
  /\ UNCHANGED <<echo, sttyFailed, dest, ran>> /\ Seen' = Seen

(* A command that ends with stty echo says by its status, or at least the  *)
(* terminal knows, whether the echo is back.                               *)
EchoBack == (echo => echo') /\ (sttyFailed => sttyFailed') /\ (echo' \/ sttyFailed')

Ends(text, after) ==
  /\ tty = "shell" /\ ((text = LastLine /\ after = "none") \/ after = LastLine)
  /\ tty' = tty /\ EchoBack
  /\ IF mode = "exec" THEN ran' = ran + 1 /\ UNCHANGED <<temp, dest>>
     ELSE ran' = ran /\ temp' = "absent" /\ dest' \in {dest, "good"}
  /\ \/ Seen' = Seen \cup {"exit1"}
     \/ Seen' = Seen \cup {"exit0"} /\ echo' /\ (mode = "upload" => dest' = "good")

Undoes(text, after) ==
  /\ tty = "shell" /\ text = "cleanup" /\ after = "none"
  /\ tty' = tty /\ EchoBack
  /\ temp' = IF mode = "upload" THEN "absent" ELSE temp
  /\ UNCHANGED <<dest, ran>> /\ Seen' = Seen

Stumbles(text, after) ==
  /\ tty = "shell" /\ after # "none" /\ tty' \in {"shell", "open"}
  /\ temp' = temp \/ after = "header"
  /\ UNCHANGED <<echo, sttyFailed, dest, ran>> /\ Seen' = Seen

Swallows(text, after) ==
  /\ tty = "open" /\ UNCHANGED target /\ Seen' = Seen

Takes(text, after) ==
  /\ Took(text, after)
  /\ \/ Logs(text, after) \/ Answers(text, after) \/ SetsUp(text, after) \/ Opens(text, after)
     \/ Collects(text, after) \/ Ends(text, after) \/ Undoes(text, after)
     \/ Stumbles(text, after) \/ Swallows(text, after)

LEMMA EchoOnDoes ==
  ASSUME TypeOK, NEW ok \in BOOLEAN, EchoOn(ok)
  PROVE  EchoBack /\ (ok => echo')
BY DEF EchoOn, EchoBack, TypeOK

LEMMA EndDoes ==
  ASSUME TypeOK, NEW ok \in BOOLEAN, NEW sttyOk \in BOOLEAN, recent' = recent,
         IF mode = "exec" THEN Execute(ok, sttyOk) ELSE Install(ok, sttyOk)
  PROVE  /\ tty' = tty /\ EchoBack
         /\ IF mode = "exec" THEN ran' = ran + 1 /\ UNCHANGED <<temp, dest>>
            ELSE ran' = ran /\ temp' = "absent" /\ dest' \in {dest, "good"}
         /\ \/ Seen' = Seen \cup {"exit1"}
            \/ Seen' = Seen \cup {"exit0"} /\ echo' /\ (mode = "upload" => dest' = "good")
<1>1. EchoOn(sttyOk)
  BY DEF Execute, Install
<1>2. EchoBack /\ (sttyOk => echo')
  BY <1>1, EchoOnDoes
<1>3. "exit0" \in Markers /\ "exit1" \in Markers
  BY DEF Markers
<1>4. CASE mode = "exec"
  <2>1. Prints(<<"exit1">>) \/ (sttyOk /\ Prints(<<"exit0">>))
    <3>1. CASE ok /\ sttyOk  BY <1>4, <3>1 DEF Execute
    <3>2. CASE ~(ok /\ sttyOk)  BY <1>4, <3>2 DEF Execute
    <3> QED BY <3>1, <3>2
  <2>2. Seen' = Seen \cup {"exit1"} \/ (sttyOk /\ Seen' = Seen \cup {"exit0"})
    BY <1>3, <2>1, Printing
  <2> QED BY <1>2, <1>4, <2>2 DEF Execute
<1>5. CASE mode # "exec"
  <2>1. Prints(<<"exit1">>) \/ (sttyOk /\ dest' = "good" /\ Prints(<<"exit0">>))
    <3>1. CASE temp = "good" /\ ok /\ sttyOk  BY <1>5, <3>1 DEF Install
    <3>2. CASE ~(temp = "good" /\ ok /\ sttyOk)  BY <1>5, <3>2 DEF Install
    <3> QED BY <3>1, <3>2
  <2>2. \/ Seen' = Seen \cup {"exit1"}
        \/ sttyOk /\ dest' = "good" /\ Seen' = Seen \cup {"exit0"}
    BY <1>3, <2>1, Printing
  <2> QED BY <1>2, <1>5, <2>2 DEF Install
<1> QED BY <1>4, <1>5

LEMMA TargetDoes ==
  ASSUME TypeOK, ModeInv, TargetStep
  PROVE  \E text \in Texts, after \in Texts \cup {"none"} : Takes(text, after)
<1> DEFINE Does == \E text \in Texts, after \in Texts \cup {"none"} : Takes(text, after)
<1> USE DEF Markers
<1>1. ASSUME NEW text, NEW after, Reads(text, after)
      PROVE  /\ Took(text, after) /\ recent' = recent
             /\ text \in TextsOf /\ after \in TextsOf \cup {"none"}
             /\ text \in Texts /\ after \in Texts \cup {"none"}
  <2>1. Took(text, after)
    BY <1>1, Taking
  <2>2. 1 \in 1 .. Len(typed) /\ typed[1].text = text /\ typed[1].after = after
    BY <2>1, Indices DEF Took
  <2>3. recent' = recent
    BY <2>1 DEF Took, host
  <2> QED BY <2>1, <2>2, <2>3 DEF ModeInv, TextsOf
<1>2. Seen' = Seen \/ recent' # recent \/ output' # output
  BY DEF Seen
<1>3. ASSUME NEW text, NEW after, Login(text, after)
      PROVE  Does
  <2>1. Reads(text, after)
    BY <1>3 DEF Login
  <2>2. PICK m \in {"login", "Password", "prompt"} : Prints(<<m>>)
    BY <1>3 DEF Login
  <2>3. Seen' = Seen \cup {m}
    BY <1>1, <2>1, <2>2, Printing
  <2>4. Logs(text, after)
    BY <1>3, <2>3 DEF Login, Logs
  <2> QED BY <1>1, <2>1, <2>4 DEF Takes
<1>4. ASSUME NEW text, NEW after, Swallow(text, after)
      PROVE  Does
  <2>1. Reads(text, after) /\ Swallows(text, after)
    BY <1>1, <1>2, <1>4 DEF Swallow, Swallows
  <2> QED BY <1>1, <2>1 DEF Takes
<1>5. ASSUME NEW text, NEW after, NEW ok \in BOOLEAN, NEW sttyOk \in BOOLEAN,
             Merged(text, after, ok, sttyOk)
      PROVE  Does
  <2>1. Reads(text, after) /\ tty = "shell" /\ after # "none"
    BY <1>5 DEF Merged
  <2>2. CASE (after = "finish" /\ Install(ok, sttyOk)) \/ (after = "command" /\ Execute(ok, sttyOk))
    <3>1. /\ after = LastLine
          /\ IF mode = "exec" THEN Execute(ok, sttyOk) ELSE Install(ok, sttyOk)
      BY <1>1, <2>1, <2>2 DEF TextsOf, LastLine, TypeOK
    <3>2. Ends(text, after)
      BY <1>1, <2>1, <3>1, EndDoes DEF Ends
    <3> QED BY <1>1, <2>1, <3>2 DEF Takes
  <2>3. CASE ~((after = "finish" /\ Install(ok, sttyOk)) \/ (after = "command" /\ Execute(ok, sttyOk)))
    <3>1. /\ tty' \in {"shell", "open"}
          /\ temp' \in IF after = "header" THEN {temp, "bad"} ELSE {temp}
          /\ UNCHANGED <<output, who, echo, sttyFailed, doc, dest, ran>>
      BY <1>5, <2>3 DEF Merged
    <3>2. Stumbles(text, after)
      BY <1>1, <1>2, <2>1, <3>1 DEF Stumbles
    <3> QED BY <1>1, <2>1, <3>2 DEF Takes
  <2> QED BY <2>2, <2>3
<1>6. ASSUME NEW text, NEW after, NEW ok \in BOOLEAN, HereDocument(text, after, ok)
      PROVE  Does
  <2>1. Reads(text, after) /\ output' = output
    BY <1>6 DEF HereDocument
  <2>2. Collects(text, after)
    BY <1>1, <1>2, <1>6, <2>1 DEF HereDocument, Collects
  <2> QED BY <1>1, <2>1, <2>2 DEF Takes
<1>7. ASSUME NEW text, Answer(text)
      PROVE  Does
  <2>1. Reads(text, "none")
    BY <1>7 DEF Answer
  <2>2. \/ Prints(<<"prompt">>) \/ Prints(<<"confirmed">>) \/ output' = output
    <3>1. output \o <<>> = output
      BY ConcatEmptySeq DEF TypeOK
    <3> QED BY <1>7, <3>1 DEF Answer, Prints
  <2>3. Seen' \subseteq Seen \cup {"prompt", "confirmed"}
    BY <1>1, <1>2, <2>1, <2>2, Printing
  <2>4. Answers(text, "none")
    BY <1>7, <2>3 DEF Answer, Answers
  <2> QED BY <1>1, <2>1, <2>4 DEF Takes
<1>8. ASSUME NEW ok \in BOOLEAN, RunSetup(ok)
      PROVE  Does
  <2>1. Reads("setup", "none")
    BY <1>8 DEF RunSetup
  <2>2. Prints(<<"ready">>) \/ (~ok /\ Prints(<<"refused">>))
    <3>1. CASE ok  BY <1>8, <3>1 DEF RunSetup
    <3>2. CASE ~ok  BY <1>8, <3>2 DEF RunSetup
    <3> QED BY <3>1, <3>2
  <2>3. ~ok => echo' = echo
    BY <1>8 DEF RunSetup, TypeOK
  <2>4. Seen' = Seen \cup {"ready"} \/ (~ok /\ Seen' = Seen \cup {"refused"})
    BY <1>1, <2>1, <2>2, Printing
  <2>5. SetsUp("setup", "none")
    BY <1>8, <2>3, <2>4 DEF RunSetup, SetsUp
  <2> QED BY <1>1, <2>1, <2>5 DEF Takes
<1>9. ASSUME NEW sttyOk \in BOOLEAN, RunCleanup(sttyOk)
      PROVE  Does
  <2>1. Reads("cleanup", "none") /\ EchoBack
    BY <1>9, EchoOnDoes DEF RunCleanup
  <2>2. Undoes("cleanup", "none")
    BY <1>1, <1>2, <1>9, <2>1 DEF RunCleanup, Undoes
  <2> QED BY <1>1, <2>1, <2>2 DEF Takes
<1>10. CASE RunHeader
  <2>1. Reads("header", "none")
    BY <1>10 DEF RunHeader
  <2>2. Opens("header", "none")
    BY <1>1, <1>2, <1>10, <2>1 DEF RunHeader, Opens
  <2> QED BY <1>1, <2>1, <2>2 DEF Takes
<1>11. ASSUME NEW ok \in BOOLEAN, NEW sttyOk \in BOOLEAN, RunLast(ok, sttyOk)
       PROVE  Does
  <2>1. Reads(LastLine, "none")
    BY <1>11 DEF RunLast
  <2>2. Ends(LastLine, "none")
    BY <1>1, <1>11, <2>1, EndDoes DEF RunLast, Ends
  <2> QED BY <1>1, <2>1, <2>2 DEF Takes
<1> QED BY <1>3, <1>4, <1>5, <1>6, <1>7, <1>8, <1>9, <1>10, <1>11 DEF TargetStep
LEMMA ModeTarget ==
  ASSUME TypeOK, ModeInv, TargetStep
  PROVE  ModeInv'
<1>1. PICK text \in Texts, after \in Texts \cup {"none"} : Takes(text, after)
  BY TargetDoes
<1>2. /\ Took(text, after) /\ TextsOf' = TextsOf
      /\ UNCHANGED <<mode, pc, held, left, fragment, faulty, heredocOpen, restoreNeeded>>
  BY <1>1 DEF Takes, Took, inputs, host, TextsOf
<1>3. \A i \in 1 .. Len(typed') : /\ typed'[i].text \in TextsOf
                                  /\ typed'[i].after \in TextsOf \cup {"none"}
  BY <1>2, Indices DEF ModeInv
<1>4. text \in TextsOf /\ after \in TextsOf \cup {"none"}
  <2>1. 1 \in 1 .. Len(typed) /\ typed[1].text = text /\ typed[1].after = after
    BY <1>2, Indices DEF Took
  <2> QED BY <2>1 DEF ModeInv
<1>5. mode = "exec" => tty' # "heredoc" /\ temp' = "absent" /\ dest' = "old"
  <2>1. mode = "exec" => /\ tty # "heredoc" /\ temp = "absent" /\ dest = "old"
                         /\ text # "header" /\ after # "header"
    BY <1>4 DEF ModeInv, TextsOf
  <2> QED BY <1>1, <2>1 DEF Takes, Logs, Answers, SetsUp, Opens, Collects, Ends, Undoes,
             Stumbles, Swallows, target
<1>6. mode = "upload" => ran' = 0
  BY <1>1 DEF ModeInv, Takes, Logs, Answers, SetsUp, Opens, Collects, Ends, Undoes,
              Stumbles, Swallows, target
<1> QED BY <1>2, <1>3, <1>5, <1>6 DEF ModeInv
-----------------------------------------------------------------------------
(* THE LAST LINE IS TYPED ONCE *)

LEMMA LastHost ==
  ASSUME TypeOK, ModeInv, LastInv, HostStep
  PROVE  LastInv'
<1> USE DEF Entering, Sending, Before
<1>1. LastLine \in {"command", "finish"} /\ LastLine \in Texts
  BY DEF LastLine, Texts
<1>2. ASSUME NEW text \in Texts, Typing(text)
      PROVE  LastInv'
  <2>1. Wrote(text) /\ UNCHANGED <<mode, ran, dest>> /\ LastLine' = LastLine
    BY <1>2 DEF Typing, inputs, target, LastLine
  <2>2. typed'[Len(typed) + 1].text = text /\ typed'[Len(typed) + 1].after = fragment
    BY <2>1 DEF Wrote
  <2>3. /\ \A i \in 1 .. Len(typed) : IsLast(typed'[i]) <=> IsLast(typed[i])
        /\ IsLast(typed'[Len(typed) + 1]) <=> LastLine \in {text, fragment}
    BY <2>1, <2>2, Indices DEF IsLast
  <2>4. /\ text = LastLine => pc = "last" /\ pc' = "exit"
        /\ pc' \in Before => pc \in Before /\ text # LastLine
        /\ pc' = "deferCleanup" => pc = "deferDelimiter"
        /\ pc' = "exit" => pc = "last" /\ text = LastLine
        /\ pc \in Before \/ (pc = "deferCleanup" /\ text = "cleanup" /\ pc' = "done")
    BY <1>1, <1>2 DEF Typing, TypeOK
  <2>5. pc \in Before => ~LastInLine
    BY DEF LastInv
  <2>6. fragment' = "none" /\ fragment' # LastLine
    BY <1>1, <2>1 DEF Wrote
  <2>7. LastInLine' => LastInLine \/ text = LastLine
    <3>1. LastInLine' => \E i \in 1 .. Len(typed') : IsLast(typed'[i])
      BY <2>1, <2>6 DEF LastInLine, IsLast
    <3> QED BY <2>1, <2>3, <3>1, Indices DEF LastInLine
  <2>8. pc' \in Before => ~LastInLine'
    BY <2>4, <2>5, <2>7
  <2>9. ASSUME NEW i \in 1 .. Len(typed'), IsLast(typed'[i])
        PROVE  /\ \A j \in i + 1 .. Len(typed') : typed'[j] = Cleanup
               /\ fragment' # LastLine
               /\ pc' \in {"exit", "deferCleanup"} => fragment' = "none"
    <3>1. CASE i = Len(typed) + 1
      BY <2>1, <2>6, <3>1, Indices DEF Wrote
    <3>2. CASE i \in 1 .. Len(typed)
      <4>1. IsLast(typed[i]) /\ pc = "deferCleanup" /\ text = "cleanup" /\ fragment = "none"
        BY <2>3, <2>4, <2>5, <2>9, <3>2 DEF LastInv, LastInLine
      <4>2. typed'[Len(typed) + 1] = Cleanup
        BY <2>1, <4>1 DEF Wrote, Cleanup
      <4>3. \A j \in i + 1 .. Len(typed) : typed[j] = Cleanup
        BY <3>2, <4>1 DEF LastInv
      <4>4. \A j \in i + 1 .. Len(typed') : j = Len(typed) + 1 \/ j \in i + 1 .. Len(typed)
        BY <2>1, <3>2, Indices DEF Wrote
      <4>5. \A j \in i + 1 .. Len(typed) : j \in 1 .. Len(typed)
        BY <3>2, <2>1, Indices
      <4> QED BY <2>1, <2>6, <4>2, <4>3, <4>4, <4>5, Indices
    <3> QED BY <2>1, <3>1, <3>2, Indices
  <2>10. pc' = "exit" => (typed' # <<>> => IsLast(typed'[Len(typed')]))
    BY <2>1, <2>3, <2>4 DEF Wrote
  <2>11. Seen' \cap {"exit0", "exit1"} \subseteq Seen /\ (result' = "success" => result = "success")
    BY <1>2, <2>1 DEF Wrote, Typing
  <2>12. pc' \in Before \/ LastInLine' => pc \in Before \/ LastInLine
    BY <2>4, <2>7
  <2>13. pc' \in Before \/ LastInLine'
           => ran' = 0 /\ dest' = "old" /\ Seen' \cap {"exit0", "exit1"} = {} /\ result' # "success"
    BY <2>1, <2>11, <2>12 DEF LastInv
  <2> QED BY <2>1, <2>8, <2>9, <2>10, <2>13 DEF LastInv, IsLast
<1>3. ASSUME NEW text \in Texts, Failing(text)
      PROVE  LastInv'
  <2>1. Failed(text) /\ UNCHANGED <<mode, ran, dest>> /\ LastLine' = LastLine /\ typed' = typed
        /\ Seen' = Seen
    BY <1>3 DEF Failing, Failed, inputs, target, LastLine, Seen
  <2>2. \A i : IsLast(typed'[i]) <=> IsLast(typed[i])
    BY <2>1 DEF IsLast
  <2>3. /\ fragment' \in {fragment, IF fragment = "none" THEN text ELSE fragment}
        /\ pc' # "exit" /\ (result' = "success" => result = "success")
        /\ pc' \in Before => pc \in Before /\ text # LastLine
        /\ text = LastLine => pc = "last" /\ pc' = "deferCleanup"
        /\ pc \in Before \/ (pc = "deferCleanup" /\ text = "cleanup" /\ pc' = "done")
    BY <1>1, <1>3, <2>1 DEF Failing, Failed
  <2>4. LastInLine' => LastInLine \/ text = LastLine
    BY <2>1, <2>2, <2>3 DEF LastInLine, IsLast
  <2>5. pc \in Before => ~LastInLine
    BY DEF LastInv
  <2>6. ASSUME NEW i \in 1 .. Len(typed), IsLast(typed[i])
        PROVE  fragment' # LastLine /\ pc' \notin {"exit", "deferCleanup"}
    <3>1. pc = "deferCleanup" /\ text = "cleanup" /\ pc' = "done" /\ fragment = "none"
      BY <2>3, <2>5, <2>6 DEF LastInv, LastInLine
    <3> QED BY <1>1, <2>3, <3>1
  <2>7. pc' \in Before \/ LastInLine' => pc \in Before \/ LastInLine
    BY <2>3, <2>4
  <2> QED BY <2>1, <2>2, <2>3, <2>4, <2>5, <2>6, <2>7 DEF LastInv, IsLast
<1>4. CASE Quiet
  <2>1. /\ typed' = typed /\ fragment' = fragment /\ Seen' \subseteq Seen
        /\ UNCHANGED <<mode, ran, dest>> /\ LastLine' = LastLine
    BY <1>4 DEF Quiet, Silent, inputs, target, LastLine
  <2>2. (\A i : IsLast(typed'[i]) <=> IsLast(typed[i])) /\ (LastInLine' <=> LastInLine)
    BY <2>1 DEF IsLast, LastInLine
  <2>3. /\ pc' \in Before => pc \in Before
        /\ pc' = "exit" => pc = "exit"
        /\ pc' = "deferCleanup" => pc \in {"ready", "exit", "deferCleanup"}
        /\ result' = "success" => result = "success" \/ ("exit0" \in Seen /\ pc = "exit")
    BY <1>4 DEF Quiet
  <2>4. \A i \in 1 .. Len(typed) : IsLast(typed[i]) => pc \notin Before
    BY DEF LastInv, LastInLine
  <2> QED BY <2>1, <2>2, <2>3, <2>4 DEF LastInv, IsLast
<1> QED BY <1>2, <1>3, <1>4, HostDoes

LEMMA LastTarget ==
  ASSUME TypeOK, ModeInv, LastInv, TargetStep
  PROVE  LastInv'
<1>1. LastLine \in {"command", "finish"}
  BY DEF LastLine
<1>2. PICK text \in Texts, after \in Texts \cup {"none"} : Takes(text, after)
  BY TargetDoes
<1>3. /\ Took(text, after) /\ LastLine' = LastLine
      /\ UNCHANGED <<mode, pc, result, fragment>>
  BY <1>2 DEF Takes, Took, inputs, host, LastLine
<1>4. /\ \A i \in 1 .. Len(typed') : IsLast(typed'[i]) <=> IsLast(typed[i + 1])
      /\ IsLast(typed[1]) <=> LastLine \in {text, after}
  BY <1>3, Indices DEF IsLast, Took
<1>5. /\ LastInLine' => fragment = LastLine \/ \E i \in 1 .. Len(typed') : IsLast(typed'[i])
      /\ LastInLine' => LastInLine
  <2>1. LastInLine' => fragment = LastLine \/ \E i \in 1 .. Len(typed') : IsLast(typed'[i])
    BY <1>3 DEF LastInLine, IsLast
  <2> QED BY <1>3, <1>4, <2>1, Indices DEF LastInLine
<1>6. ASSUME NEW i \in 1 .. Len(typed'), IsLast(typed'[i])
      PROVE  \A j \in i + 1 .. Len(typed') : typed'[j] = Cleanup
  <2>1. i + 1 \in 1 .. Len(typed) /\ IsLast(typed[i + 1])
    BY <1>3, <1>4, <1>6, Indices
  <2>2. \A j \in (i + 1) + 1 .. Len(typed) : typed[j] = Cleanup
    BY <2>1 DEF LastInv
  <2>3. \A j \in i + 1 .. Len(typed') : j + 1 \in (i + 1) + 1 .. Len(typed) /\ j \in 1 .. Len(typed')
    BY <1>3, Indices DEF Took
  <2> QED BY <1>3, <2>2, <2>3, Indices
<1>7. ASSUME NEW i \in 1 .. Len(typed'), IsLast(typed'[i])
      PROVE  fragment' # LastLine /\ (pc' \in {"exit", "deferCleanup"} => fragment' = "none")
  BY <1>3, <1>4, <1>7, Indices DEF LastInv
<1>8. pc' = "exit" => (typed' # <<>> => IsLast(typed'[Len(typed')]))
  <2>1. SUFFICES ASSUME pc = "exit", typed' # <<>>
                 PROVE  IsLast(typed'[Len(typed')])
    BY <1>3
  <2>2. typed' \in Seq(TypedLines)
    BY <1>2, TargetType, TypePartsNext DEF LineOK
  <2>3. Len(typed') \in 1 .. Len(typed') /\ Len(typed') + 1 = Len(typed)
    BY <1>3, <2>1, <2>2, EmptySeq DEF Took
  <2>4. typed # <<>>
    BY <1>3, Indices, LineTypes
  <2>5. IsLast(typed[Len(typed)])
    BY <2>1, <2>4 DEF LastInv
  <2> QED BY <1>4, <2>3, <2>5
<1>9. LastInLine' => LastLine \notin {text, after}
  <2>1. SUFFICES ASSUME IsLast(typed[1]), LastInLine'
                 PROVE  FALSE
    BY <1>4
  <2>2. 1 \in 1 .. Len(typed)
    BY <1>3, Indices
  <2>3. fragment # LastLine /\ \A j \in 2 .. Len(typed) : typed[j] = Cleanup
    BY <2>1, <2>2 DEF LastInv
  <2>4. PICK i \in 1 .. Len(typed') : IsLast(typed'[i])
    BY <1>5, <2>1, <2>3
  <2>5. i + 1 \in 2 .. Len(typed) /\ IsLast(typed[i + 1])
    BY <1>3, <1>4, <2>4, Indices
  <2> QED BY <1>1, <2>3, <2>5 DEF IsLast, Cleanup
<1>10. pc \in Before => LastLine \notin {text, after}
  BY <1>3, <1>4, Indices DEF LastInv, LastInLine
<1>11. LastLine \notin {text, after} =>
         ran' = ran /\ dest' = dest /\ Seen' \cap {"exit0", "exit1"} \subseteq Seen
  BY <1>2 DEF Takes, Logs, Answers, SetsUp, Opens, Collects, Ends, Undoes, Stumbles, Swallows,
              target
<1>12. pc' \in Before \/ LastInLine'
         => ran' = 0 /\ dest' = "old" /\ Seen' \cap {"exit0", "exit1"} = {} /\ result' # "success"
  BY <1>3, <1>5, <1>9, <1>10, <1>11 DEF LastInv, Before, Entering, Sending
<1>13. pc' \in Before => ~LastInLine'
  BY <1>3, <1>5 DEF LastInv, Before, Entering, Sending
<1> QED BY <1>3, <1>6, <1>7, <1>8, <1>12, <1>13 DEF LastInv, IsLast
-----------------------------------------------------------------------------
(* STATUS ZERO *)

LEMMA ExitHost ==
  ASSUME TypeOK, ModeInv, LastInv, ExitInv, HostStep
  PROVE  ExitInv'
<1> USE DEF Entering, Sending, Before
<1>1. (\E text \in Texts : Typing(text) \/ Failing(text)) \/ Quiet
  BY HostDoes
<1>2. UNCHANGED <<mode, tty, echo, temp, dest, ran>>
  BY <1>1 DEF Typing, Failing, Quiet, inputs, target
<1>3. Seen' \cap {"exit0"} \subseteq Seen
  BY <1>1 DEF Typing, Failing, Failed, Quiet, Silent, Wrote, Seen
<1>4. result # "success" /\ pc # "done"
  BY <1>1 DEF ExitInv, Typing, Failing, Quiet
<1>5. ASSUME "exit0" \in Seen
      PROVE  /\ \A i \in 1 .. Len(typed') : typed'[i] = Cleanup
             /\ pc' = "exit" => pc = "exit" /\ typed' = typed
             /\ pc' \in {"exit", "deferCleanup"} => fragment' = "none"
  <2>1. pc \in {"exit", "deferCleanup"}
    BY <1>4, <1>5 DEF LastInv, TypeOK
  <2>2. fragment = "none" /\ \A i \in 1 .. Len(typed) : typed[i] = Cleanup
    BY <1>5, <2>1 DEF ExitInv
  <2>3. ASSUME NEW text \in Texts, Typing(text)
        PROVE  /\ \A i \in 1 .. Len(typed') : typed'[i] = Cleanup
               /\ pc' = "done"
    <3>1. Wrote(text) /\ text = "cleanup" /\ pc' = "done"
      BY <2>1, <2>3 DEF Typing
    <3>2. typed'[Len(typed) + 1] = Cleanup
      BY <2>2, <3>1 DEF Wrote, Cleanup
    <3> QED BY <2>2, <3>1, <3>2, Indices
  <2>4. ASSUME NEW text \in Texts, Failing(text)
        PROVE  typed' = typed /\ pc' = "done"
    BY <2>1, <2>4 DEF Failing, Failed
  <2>5. CASE Quiet
    BY <2>1, <2>2, <2>5 DEF Quiet, Silent
  <2> QED BY <1>1, <2>2, <2>3, <2>4, <2>5
<1>6. result' = "success" => /\ pc = "exit" /\ pc' = "done" /\ typed' = typed
                             /\ "exit0" \in Seen
  BY <1>1, <1>4 DEF Typing, Failing, Quiet, Silent
<1>7. "exit0" \in Seen =>
        /\ IF mode = "exec" THEN ran = 1 ELSE dest = "good" /\ temp = "absent"
        /\ tty = "shell" /\ (pc = "exit" => typed = <<>> /\ echo)
  BY DEF ExitInv
<1>8. (SuccessIsDone /\ (result = "success" => pc = "done"))'
  BY <1>2, <1>6, <1>7 DEF SuccessIsDone
<1>9. (AtomicInstall /\ ran <= 1)'
  BY <1>2 DEF ExitInv, AtomicInstall
<1>10. "exit0" \in Seen' => "exit0" \in Seen
  BY <1>3
<1> QED BY <1>2, <1>5, <1>7, <1>8, <1>9, <1>10 DEF ExitInv

LEMMA ExitTarget ==
  ASSUME TypeOK, ModeInv, LastInv, ExitInv, TargetStep
  PROVE  ExitInv'
<1>1. LastLine \in {"command", "finish"} /\ mode \in {"exec", "upload"}
  BY DEF LastLine, TypeOK
<1>2. PICK text \in Texts, after \in Texts \cup {"none"} : Takes(text, after)
  BY TargetDoes
<1>3. /\ Took(text, after) /\ UNCHANGED <<mode, pc, result, fragment>>
      /\ 1 \in 1 .. Len(typed) /\ typed # <<>>
      /\ typed[1].text = text /\ typed[1].after = after
  BY <1>2, Indices, LineTypes DEF Takes, Took, inputs, host
<1>4. result # "success"
  BY <1>3 DEF ExitInv, SuccessIsDone
<1>5. ASSUME "exit0" \in Seen
      PROVE  /\ \A i \in 1 .. Len(typed') : typed'[i] = Cleanup
             /\ UNCHANGED <<tty, dest, ran>>
             /\ temp' = IF mode = "upload" THEN "absent" ELSE temp
             /\ pc # "exit"
  <2>1. /\ tty = "shell" /\ pc # "exit"
        /\ \A i \in 1 .. Len(typed) : typed[i] = Cleanup
    BY <1>3, <1>5 DEF ExitInv
  <2>2. text = "cleanup" /\ after = "none"
    BY <1>3, <2>1 DEF Cleanup
  <2>3. Undoes(text, after)
    BY <1>1, <1>2, <2>1, <2>2 DEF Takes, Logs, Answers, SetsUp, Opens, Collects, Ends, Stumbles, Swallows
  <2>4. \A i \in 1 .. Len(typed') : typed'[i] = Cleanup
    BY <1>3, <2>1, Indices
  <2> QED BY <2>1, <2>3, <2>4 DEF Undoes
<1>6. ASSUME LastLine \in {text, after}
      PROVE  /\ ran = 0 /\ pc \notin Before
             /\ \A i \in 1 .. Len(typed') : typed'[i] = Cleanup
             /\ pc = "exit" => typed' = <<>>
             /\ pc \in {"exit", "deferCleanup"} => fragment' = "none"
  <2>1. IsLast(typed[1]) /\ LastInLine
    BY <1>3, <1>6 DEF IsLast, LastInLine
  <2>2. \A j \in 2 .. Len(typed) : typed[j] = Cleanup
    BY <1>3, <2>1 DEF LastInv
  <2>3. \A i \in 1 .. Len(typed') : i + 1 \in 2 .. Len(typed) /\ typed'[i] = typed[i + 1]
    BY <1>3, Indices DEF Took
  <2>4. ASSUME pc = "exit", typed' # <<>>
        PROVE  FALSE
    <3>1. typed' \in Seq(TypedLines)
      BY TargetType, TypePartsNext DEF LineOK
    <3>2. Len(typed) \in 2 .. Len(typed)
      BY <1>3, <2>4, <3>1, EmptySeq DEF Took
    <3>3. typed[Len(typed)] = Cleanup /\ IsLast(typed[Len(typed)])
      BY <1>3, <2>2, <2>4, <3>2 DEF LastInv
    <3> QED BY <1>1, <3>3 DEF IsLast, Cleanup
  <2>5. ran = 0 /\ pc \notin Before
    BY <2>1 DEF LastInv
  <2>6. pc \in {"exit", "deferCleanup"} => fragment = "none"
    BY <1>3, <2>1 DEF LastInv
  <2> QED BY <1>3, <2>2, <2>3, <2>4, <2>5, <2>6
<1>7. CASE Ends(text, after)
  <2>1. LastLine \in {text, after}
    BY <1>7 DEF Ends
  <2>2. "exit0" \notin Seen
    <3>1. LastInLine
      BY <1>3, <2>1 DEF LastInLine, IsLast
    <3> QED BY <3>1 DEF LastInv
  <2>3. "exit0" \in Seen' => echo' /\ (mode = "upload" => dest' = "good")
    BY <1>7, <2>2 DEF Ends
  <2>4. /\ tty' = "shell"
        /\ mode = "exec" => ran' = 1 /\ dest' = dest
        /\ mode # "exec" => ran' = ran /\ temp' = "absent" /\ dest' \in {dest, "good"}
    BY <1>6, <1>7, <2>1 DEF Ends
  <2>5. AtomicInstall' /\ (ran <= 1)'
    BY <1>6, <2>1, <2>4 DEF ExitInv, AtomicInstall
  <2>6. SuccessIsDone' /\ (result = "success" => pc = "done")'
    BY <1>3, <1>4 DEF SuccessIsDone
  <2> QED BY <1>1, <1>3, <1>6, <2>1, <2>3, <2>4, <2>5, <2>6 DEF ExitInv
<1>8. CASE ~Ends(text, after)
  <2>1. UNCHANGED <<dest, ran>> /\ ("exit0" \in Seen' => "exit0" \in Seen)
    BY <1>2, <1>8 DEF Takes, Logs, Answers, SetsUp, Opens, Collects, Undoes, Stumbles, Swallows, target
  <2>2. AtomicInstall' /\ (ran <= 1)'
    BY <2>1 DEF ExitInv, AtomicInstall
  <2>3. SuccessIsDone' /\ (result = "success" => pc = "done")'
    BY <1>3, <1>4 DEF SuccessIsDone
  <2> QED BY <1>1, <1>3, <1>5, <2>1, <2>2, <2>3 DEF ExitInv
<1> QED BY <1>7, <1>8
-----------------------------------------------------------------------------
(* THE SHELL IS THERE BEFORE ANYTHING IS ENTERED *)

(* What OrderInv says of the first lines: nothing but names and prompts.   *)
LEMMA Beginning ==
  ASSUME TypeOK, ModeInv, OrderInv, pc \in Entering \cup {"ready", "header"}
  PROVE  /\ \A i \in 1 .. Len(typed) : Rank(typed[i].text) = 0 /\ typed[i].after = "none"
         /\ pc = "header" => typed = <<>>
<1>1. faulty = <<>>
  BY DEF ModeInv, Normal, Before, Entering
<1>2. Clean
  BY <1>1 DEF Clean
<1>3. /\ \A i \in 1 .. Len(typed) : Rank(typed[i].text) \in MayBeTyped
      /\ \A i \in 1 .. Len(typed) : typed[i].after # "none" => Rank(typed[i].text) \in {2, 3}
  BY <1>2 DEF OrderInv
<1>4. pc # "header" => MayBeTyped = {0}
  BY DEF MayBeTyped, Entering, Sending
<1>5. pc = "header" => MayBeTyped = {}
  BY DEF MayBeTyped, Entering, Sending
<1>6. pc = "header" => typed = <<>>
  <2>1. pc = "header" => ~(Len(typed) > 0)
    BY <1>3, <1>5, LineTypes
  <2> QED BY <2>1, LineTypes
<1> QED BY <1>3, <1>4, <1>5, <1>6

(* The first lines find a login or a shell, and leave the echo on until    *)
(* the last of them.                                                       *)
LEMMA ShellHost ==
  ASSUME TypeOK, ModeInv, ShellInv, HostStep
  PROVE  ShellInv'
<1> USE DEF Entering, Sending
<1>1. (\E text \in Texts : Typing(text) \/ Failing(text)) \/ Quiet
  BY HostDoes
<1>2. UNCHANGED <<tty, echo, temp>>
  BY <1>1 DEF Typing, Failing, Quiet, target
<1>3. ASSUME NEW text \in Texts, Typing(text)
      PROVE  ShellInv'
  <2>1. Wrote(text) /\ Seen' \cap {"ready", "refused"} \subseteq Seen
    BY <1>3 DEF Typing, Wrote
  <2>2. typed'[Len(typed) + 1].text = text
    BY <2>1 DEF Wrote
  <2>3. /\ pc' \in Entering => pc \in Entering /\ text # "setup"
        /\ pc' = "ready" => pc \in Entering /\ text = "setup"
        /\ pc' # "header"
    BY <1>3 DEF Typing
  <2>4. \A i \in 1 .. Len(typed') : i # Len(typed') => i \in 1 .. Len(typed) /\ typed'[i] = typed[i]
    BY <2>1, Indices DEF Wrote
  <2>5. pc' \in Entering => \A i \in 1 .. Len(typed') : typed'[i].text # "setup"
    BY <2>1, <2>2, <2>3, <2>4 DEF ShellInv, Wrote
  <2>6. pc' = "ready" => \A i \in 1 .. Len(typed') : typed'[i].text = "setup" <=> i = Len(typed')
    BY <2>1, <2>2, <2>3, <2>4 DEF ShellInv, Wrote
  <2> QED BY <1>2, <2>1, <2>3, <2>5, <2>6 DEF ShellInv
<1>4. ASSUME NEW text \in Texts, Failing(text)
      PROVE  ShellInv'
  <2>1. pc' \notin Entering \cup {"ready", "header"}
    BY <1>4 DEF Failing
  <2> QED BY <1>2, <2>1 DEF ShellInv
<1>5. CASE Quiet
  <2>1. Seen' \subseteq Seen /\ typed' = typed
    BY <1>5 DEF Quiet, Silent
  <2>2. \/ pc' = pc
        \/ pc \in Entering /\ pc' \in Entering
        \/ pc = "ready" /\ pc' = "header" /\ "ready" \in Seen
        \/ pc' \notin Entering \cup {"ready", "header"}
    BY <1>5 DEF Quiet
  <2>3. CASE pc' = pc
    <3>1. (Seen \cap {"ready", "refused"} # {})' => Seen \cap {"ready", "refused"} # {}
      BY <2>1
    <3> QED BY <1>2, <2>1, <2>3, <3>1 DEF ShellInv
  <2>4. CASE pc' # pc
    BY <1>2, <2>1, <2>2, <2>4 DEF ShellInv
  <2> QED BY <2>3, <2>4
<1> QED BY <1>1, <1>3, <1>4, <1>5

LEMMA ShellTarget ==
  ASSUME TypeOK, ModeInv, ShellInv, OrderInv, TargetStep
  PROVE  ShellInv'
<1> USE DEF Entering
<1>1. PICK text \in Texts, after \in Texts \cup {"none"} : Takes(text, after)
  BY TargetDoes
<1>2. /\ Took(text, after) /\ UNCHANGED <<mode, pc>>
      /\ 1 \in 1 .. Len(typed) /\ typed # <<>>
      /\ typed[1].text = text /\ typed[1].after = after
  BY <1>1, Indices, LineTypes DEF Takes, Took, inputs, host
<1>3. tty' \in {"login", "password"} => echo' /\ temp' = "absent"
  BY <1>1 DEF Takes, Logs, Answers, SetsUp, Opens, Collects, Ends, Undoes, Stumbles, Swallows,
              target, ShellInv
<1>4. CASE pc \in Entering \cup {"ready", "header"}
  <2>1. /\ pc # "header" /\ Rank(text) = 0 /\ after = "none"
        /\ temp = "absent" /\ tty \notin {"heredoc", "open"}
    BY <1>2, <1>4, Beginning DEF ShellInv
  <2>2. text \notin {"header", "cleanup", LastLine} /\ after # LastLine
    BY <2>1 DEF Rank, LastLine
  <2>3. Logs(text, after) \/ Answers(text, after) \/ SetsUp(text, after)
    BY <1>1, <2>1, <2>2 DEF Takes, Opens, Collects, Ends, Undoes, Stumbles, Swallows
  <2>4. temp' = "absent" /\ tty' \notin {"heredoc", "open"}
    BY <2>1, <2>3 DEF Logs, Answers, SetsUp, target
  <2>5. \A i \in 1 .. Len(typed') : typed'[i] = typed[i + 1] /\ i + 1 \in 1 .. Len(typed)
    BY <1>2, Indices
  <2>6. CASE pc \in Entering
    <3>1. text # "setup"
      BY <1>2, <2>6 DEF ShellInv
    <3>2. echo' /\ Seen' \cap {"ready", "refused"} \subseteq Seen
      BY <2>3, <2>6, <3>1 DEF Logs, Answers, SetsUp, target, ShellInv
    <3> QED BY <1>2, <1>3, <2>4, <2>5, <2>6, <3>2 DEF ShellInv
  <2>7. CASE pc = "ready"
    <3>1. /\ echo /\ Seen \cap {"ready", "refused"} = {}
          /\ \A i \in 1 .. Len(typed) : typed[i].text = "setup" <=> i = Len(typed)
      BY <1>2, <2>7 DEF ShellInv
    <3>2. \A i \in 1 .. Len(typed') : typed'[i].text = "setup" <=> i = Len(typed')
      BY <1>2, <2>5, <3>1 DEF Took
    <3>3. text = "setup" <=> Len(typed) = 1
      BY <1>2, <3>1
    <3>4. typed' # <<>> => text # "setup"
      <4>1. typed' \in Seq(TypedLines)
        BY TargetType, TypePartsNext DEF LineOK
      <4>2. typed' # <<>> => Len(typed') > 0
        BY <4>1, EmptySeq
      <4> QED BY <1>2, <3>3, <4>2 DEF Took
    <3>5. text # "setup" => echo' /\ Seen' \cap {"ready", "refused"} = {}
      BY <2>3, <3>1 DEF Logs, Answers, SetsUp, target
    <3>6. text = "setup" => /\ Seen' \cap {"ready", "refused"} # {} => tty' = "shell"
                            /\ "refused" \in Seen' => echo'
      BY <2>3, <3>1 DEF Logs, Answers, SetsUp, target
    <3> QED BY <1>2, <1>3, <2>4, <2>7, <3>2, <3>4, <3>5, <3>6 DEF ShellInv
  <2> QED BY <1>4, <2>1, <2>6, <2>7
<1>5. CASE pc \notin Entering \cup {"ready", "header"}
  BY <1>2, <1>3, <1>5 DEF ShellInv
<1> QED BY <1>4, <1>5
-----------------------------------------------------------------------------
(* THE LINES ARE READ BY WHOM THEY ARE MEANT FOR *)

LEMMA Ranks ==
  /\ Rank("header") = 1 /\ Rank("data") = 2 /\ Rank("flush") = 2 /\ Rank("delimiter") = 3
  /\ Rank("finish") = 4 /\ Rank("command") = 4 /\ Rank("cleanup") = 5
  /\ \A text \in {"wake", "user", "password", "confirm", "setup"} : Rank(text) = 0
  /\ \A text \in Texts : Rank(text) \in 0 .. 5
<1>1. /\ Rank("header") = 1 /\ Rank("data") = 2 /\ Rank("flush") = 2 /\ Rank("delimiter") = 3
      /\ Rank("finish") = 4 /\ Rank("command") = 4 /\ Rank("cleanup") = 5
  BY DEF Rank
<1>2. \A text \in {"wake", "user", "password", "confirm", "setup"} : Rank(text) = 0
  BY DEF Rank
<1> QED BY <1>1, <1>2 DEF Texts

LEMMA MayBeTypedAt ==
  ASSUME TypeOK
  PROVE  /\ pc \in Entering \cup {"ready"} => MayBeTyped = {0}
         /\ pc = "header" => MayBeTyped = {}
         /\ pc \in Sending => MayBeTyped = {1, 2}
         /\ pc = "last" => MayBeTyped = {1, 2, 3}
         /\ pc \in {"exit", "deferCleanup"} => MayBeTyped = 0 .. 4
         /\ pc = "done" => MayBeTyped = 0 .. 5
BY DEF MayBeTyped, Entering, Sending

LEMMA MayBeTypedNext ==
  ASSUME TypeOK'
  PROVE  /\ pc' \in Entering \cup {"ready"} => MayBeTyped' = {0}
         /\ pc' = "header" => MayBeTyped' = {}
         /\ pc' \in Sending => MayBeTyped' = {1, 2}
         /\ pc' = "last" => MayBeTyped' = {1, 2, 3}
         /\ pc' \in {"exit", "deferCleanup"} => MayBeTyped' = 0 .. 4
         /\ pc' = "done" => MayBeTyped' = 0 .. 5
BY DEF MayBeTyped, Entering, Sending

(* A write that fails leaves Clean only if it was one of the data.         *)
LEMMA CleanAfter ==
  ASSUME TypeOK, NEW text \in Texts, Clean'
  PROVE  /\ Wrote(text) => Clean
         /\ Failed(text) => Clean /\ text \in {"data", "flush"}
         /\ faulty' = faulty => Clean
<1>1. faulty \in Seq(Texts) /\ Len(faulty) \in Nat
  BY LineTypes DEF TypeOK
<1>2. faulty' = faulty => Clean
  BY DEF Clean
<1>3. Wrote(text) => Clean
  BY <1>2 DEF Wrote
<1>4. ASSUME Failed(text)
      PROVE  Clean /\ text \in {"data", "flush"}
  <2>1. /\ Len(faulty') = Len(faulty) + 1
        /\ \A i \in 1 .. Len(faulty) : faulty'[i] = faulty[i]
        /\ faulty'[Len(faulty) + 1] = text
    BY <1>1, <1>4, AppendProperties DEF Failed
  <2>2. /\ Len(faulty) + 1 \in 1 .. Len(faulty')
        /\ \A i \in 1 .. Len(faulty) : i \in 1 .. Len(faulty')
    BY <1>1, <2>1
  <2> QED BY <2>1, <2>2 DEF Clean
<1> QED BY <1>2, <1>3, <1>4

LEMMA OrderHost ==
  ASSUME TypeOK, ModeInv, ShellInv, OrderInv, HostStep
  PROVE  OrderInv'
<1>1. (\E text \in Texts : Typing(text) \/ Failing(text)) \/ Quiet
  BY HostDoes
<1>2. TypeOK' /\ tty' = tty
  BY <1>1, HostType DEF Typing, Failing, Quiet, target
<1>3. SUFFICES ASSUME Clean'
               PROVE  OrderInv'
  BY DEF OrderInv
<1>4. Clean
  <2>1. "wake" \in Texts
    BY DEF Texts
  <2>2. Quiet => Clean
    BY <1>3, <2>1, CleanAfter DEF Quiet, Silent
  <2> QED BY <1>1, <1>3, <2>2, CleanAfter DEF Typing, Failing
<1>5. /\ pc \in Entering \cup {"ready", "header"} => tty \notin {"heredoc", "open"}
      /\ pc = "header" => tty = "shell"
  BY DEF ShellInv
<1>6. ASSUME NEW text \in Texts, Typing(text)
      PROVE  OrderInv'
  <2>1. Wrote(text) /\ fragment' = "none"
    BY <1>6 DEF Typing, Wrote
  <2>2. /\ typed'[Len(typed) + 1].text = text
        /\ typed'[Len(typed) + 1].after = fragment
    BY <2>1 DEF Wrote
  <2>3. /\ Rank(text) \in MayBeTyped' /\ MayBeTyped \subseteq MayBeTyped'
        /\ \A m \in MayBeTyped : m < Rank(text) \/ (m = Rank(text) /\ m \in {0, 2})
        /\ Rank(text) \in 0 .. 5
        /\ Rank(text) = 0 => pc \in Entering
        /\ Rank(text) = 1 => pc = "header"
        /\ Rank(text) \in {2, 3} => pc \in Sending
        /\ pc \in {"close", "deferClose", "deferDelimiter"} => Rank(text) \in {2, 3}
        /\ pc' \in Sending => pc \in Sending \/ Rank(text) = 1
    <3>1. /\ text \in {"wake", "user", "password", "confirm", "setup"} =>
                pc \in Entering /\ pc' \in Entering \cup {"ready"}
          /\ text = "header" => pc = "header" /\ pc' \in Sending
          /\ text \in {"data", "flush"} => pc \in Sending /\ pc' \in Sending
          /\ text = "delimiter" => pc \in Sending /\ pc' \in {"last", "deferCleanup"}
          /\ text \in {"finish", "command"} => pc = "last" /\ pc' = "exit"
          /\ text = "cleanup" => pc = "deferCleanup" /\ pc' = "done"
      BY <1>6 DEF Typing, LastLine, TypeOK, Entering, Sending
    <3>2. pc \in {"close", "deferClose", "deferDelimiter"} => text \in {"data", "flush", "delimiter"}
      BY <1>6 DEF Typing, LastLine, TypeOK, Entering
    <3> USE MayBeTypedAt, MayBeTypedNext, Ranks DEF Sending, Entering
    <3>3. CASE text \in {"wake", "user", "password", "confirm", "setup"}
      <4>1. Rank(text) = 0 /\ MayBeTyped = {0} /\ MayBeTyped' = {0}
        BY <1>2, <3>1, <3>3
      <4> QED BY <3>1, <3>2, <3>3, <4>1
    <3>4. CASE text = "header"
      <4>1. Rank(text) = 1 /\ MayBeTyped = {} /\ MayBeTyped' = {1, 2}
        BY <1>2, <3>1, <3>4
      <4> QED BY <3>1, <3>2, <3>4, <4>1
    <3>5. CASE text \in {"data", "flush"}
      <4>1. Rank(text) = 2 /\ MayBeTyped = {1, 2} /\ MayBeTyped' = {1, 2}
        BY <1>2, <3>1, <3>5
      <4> QED BY <3>1, <3>2, <3>5, <4>1
    <3>6. CASE text = "delimiter"
      <4>1. Rank(text) = 3 /\ MayBeTyped = {1, 2} /\ MayBeTyped' \in {{1, 2, 3}, 0 .. 4}
        BY <1>2, <3>1, <3>6
      <4> QED BY <3>1, <3>2, <3>6, <4>1
    <3>7. CASE text \in {"finish", "command"}
      <4>1. Rank(text) = 4 /\ MayBeTyped = {1, 2, 3} /\ MayBeTyped' = 0 .. 4
        BY <1>2, <3>1, <3>7
      <4> QED BY <3>1, <3>2, <3>7, <4>1
    <3>8. CASE text = "cleanup"
      <4>1. Rank(text) = 5 /\ MayBeTyped = 0 .. 4 /\ MayBeTyped' = 0 .. 5
        BY <1>2, <3>1, <3>8
      <4> QED BY <3>1, <3>2, <3>8, <4>1
    <3> QED BY <3>3, <3>4, <3>5, <3>6, <3>7, <3>8 DEF Texts
  <2>4. \A i \in 1 .. Len(typed') : Rank(typed'[i].text) \in MayBeTyped'
    BY <1>4, <2>1, <2>2, <2>3, Indices DEF OrderInv
  <2>5. ASSUME NEW i \in 1 .. Len(typed'), NEW j \in 1 .. Len(typed'), i < j
        PROVE  \/ Rank(typed'[i].text) < Rank(typed'[j].text)
               \/ Rank(typed'[i].text) = Rank(typed'[j].text) /\ Rank(typed'[i].text) \in {0, 2}
    <3>1. i \in 1 .. Len(typed) /\ (j \in 1 .. Len(typed) \/ j = Len(typed) + 1)
      BY <2>1, <2>5, Indices
    <3>2. typed'[i] = typed[i] /\ Rank(typed[i].text) \in MayBeTyped
      BY <1>4, <2>1, <3>1, Indices DEF OrderInv
    <3>3. CASE j = Len(typed) + 1
      BY <2>2, <2>3, <3>2, <3>3
    <3>4. CASE j \in 1 .. Len(typed)
      BY <1>4, <2>1, <2>5, <3>1, <3>2, <3>4, Indices DEF OrderInv
    <3> QED BY <3>1, <3>3, <3>4
  <2>6. \A i \in 1 .. Len(typed') : typed'[i].after # "none" => Rank(typed'[i].text) \in {2, 3}
    <3>1. fragment # "none" => Rank(text) \in {2, 3}
      BY <1>4, <2>3 DEF OrderInv
    <3> QED BY <1>4, <2>1, <2>2, <3>1, Indices DEF OrderInv
  <2>7. tty # "open"
    BY <1>4 DEF OrderInv
  <2>8. tty = "heredoc" => \A i \in 1 .. Len(typed') : Rank(typed'[i].text) >= 2
    <3>1. tty = "heredoc" => Rank(text) >= 2
      BY <1>5, <2>3
    <3> QED BY <1>4, <2>1, <2>2, <3>1, Indices DEF OrderInv
  <2>9. ASSUME tty # "heredoc", NEW j \in 1 .. Len(typed'), Rank(typed'[j].text) \in {2, 3}
        PROVE  \E i \in 1 .. j - 1 : Rank(typed'[i].text) = 1
    <3>1. CASE j \in 1 .. Len(typed)
      <4>1. PICK i \in 1 .. j - 1 : Rank(typed[i].text) = 1
        BY <1>4, <2>1, <2>9, <3>1, Indices DEF OrderInv
      <4>2. i \in 1 .. Len(typed)
        BY <2>1, <3>1, Indices
      <4> QED BY <2>1, <4>1, <4>2, Indices
    <3>2. CASE j = Len(typed) + 1
      <4>1. pc \in Sending
        BY <2>2, <2>3, <2>9, <3>2
      <4>2. PICK i \in 1 .. Len(typed) : Rank(typed[i].text) = 1
        BY <1>4, <2>9, <4>1 DEF OrderInv
      <4>3. i \in 1 .. j - 1
        BY <2>1, <3>2, Indices
      <4> QED BY <2>1, <4>2, <4>3, Indices
    <3> QED BY <2>1, <3>1, <3>2, Indices
  <2>10. pc' \in Sending => tty = "heredoc" \/ \E i \in 1 .. Len(typed') : Rank(typed'[i].text) = 1
    <3>1. pc \in Sending => tty = "heredoc" \/ \E i \in 1 .. Len(typed) : Rank(typed[i].text) = 1
      BY <1>4 DEF OrderInv
    <3> QED BY <2>1, <2>2, <2>3, <3>1, Indices
  <2>11. pc' \in Sending \/ (\E i \in 1 .. Len(typed') : Rank(typed'[i].text) \in 1 .. 3)
           => tty \in {"shell", "heredoc"}
    <3>1. pc \in Sending \/ (\E i \in 1 .. Len(typed) : Rank(typed[i].text) \in 1 .. 3)
            => tty \in {"shell", "heredoc"}
      BY <1>4 DEF OrderInv
    <3>2. Rank(text) \in 1 .. 3 => tty \in {"shell", "heredoc"}
      BY <1>5, <2>3, <3>1
    <3> QED BY <2>1, <2>2, <2>3, <3>1, <3>2, Indices
  <2> QED BY <1>2, <2>1, <2>4, <2>5, <2>6, <2>7, <2>8, <2>9, <2>10, <2>11 DEF OrderInv
<1>7. ASSUME typed' = typed,
             \/ typed = <<>> \/ MayBeTyped \subseteq MayBeTyped',
             fragment' # "none" => held' # "none" /\ pc' \in {"close", "deferClose", "deferDelimiter"},
             pc' \in Sending => pc \in Sending
      PROVE  OrderInv'
  <2>1. \A i \in 1 .. Len(typed) : Rank(typed[i].text) \in MayBeTyped'
    BY <1>4, <1>7, LineTypes DEF OrderInv
  <2> QED BY <1>2, <1>4, <1>7, <2>1 DEF OrderInv
<1>8. ASSUME NEW text \in Texts, Failing(text)
      PROVE  OrderInv'
  <2>1. Failed(text) /\ text \in {"data", "flush"}
    BY <1>3, <1>8, CleanAfter DEF Failing
  <2>2. /\ pc \in Sending /\ pc' \in Sending /\ held' # "none"
        /\ pc' \in {"close", "deferClose", "deferDelimiter"}
    BY <1>8, <2>1 DEF Failing, LastLine, Sending
  <2> QED BY <1>2, <1>7, <2>1, <2>2, MayBeTypedAt, MayBeTypedNext DEF Failed
<1>9. CASE Quiet
  <2>1. typed' = typed /\ fragment' = fragment
    BY <1>9 DEF Quiet, Silent
  <2>2. fragment # "none" => held # "none" /\ pc \in {"close", "deferClose", "deferDelimiter"}
    BY <1>4 DEF OrderInv
  <2>3. fragment' # "none" => held' # "none" /\ pc' \in {"close", "deferClose", "deferDelimiter"}
    BY <1>9, <2>1, <2>2 DEF Quiet, Entering
  <2>4. pc' \in Sending => pc \in Sending
    BY <1>9 DEF Quiet, Sending, Entering
  <2>5. typed = <<>> \/ MayBeTyped \subseteq MayBeTyped'
    <3>1. pc = "ready" /\ "ready" \in Seen => typed = <<>>
      BY DEF ShellInv
    <3> USE <1>2, MayBeTypedAt, MayBeTypedNext DEF Entering, Sending
    <3>2. CASE pc' = pc
      BY <3>2 DEF TypeOK
    <3>3. CASE pc \in Entering /\ pc' \in Entering \cup {"done"}
      BY <3>3
    <3>4. CASE pc \in {"ready", "exit"} /\ pc' \in {"deferCleanup", "done"}
      BY <3>4
    <3>5. CASE pc \in Sending /\ pc' \in Sending
      BY <3>5
    <3>6. CASE pc = "ready" /\ "ready" \in Seen
      BY <3>1, <3>6
    <3> QED BY <1>9, <3>2, <3>3, <3>4, <3>5, <3>6 DEF Quiet
  <2> QED BY <1>7, <2>1, <2>3, <2>4, <2>5
<1> QED BY <1>1, <1>6, <1>8, <1>9

LEMMA OrderTarget ==
  ASSUME TypeOK, ModeInv, OrderInv, TargetStep
  PROVE  OrderInv'
<1>1. PICK text \in Texts, after \in Texts \cup {"none"} : Takes(text, after)
  BY TargetDoes
<1>2. /\ Took(text, after) /\ UNCHANGED <<mode, pc, held, fragment, faulty>>
      /\ 1 \in 1 .. Len(typed) /\ Len(typed) \in Nat
      /\ typed[1].text = text /\ typed[1].after = after
  BY <1>1, Indices DEF Takes, Took, inputs, host
<1>3. MayBeTyped' = MayBeTyped
  BY <1>2 DEF MayBeTyped
<1>4. \A i \in 1 .. Len(typed') : i + 1 \in 1 .. Len(typed) /\ typed'[i] = typed[i + 1]
  BY <1>2, Indices
<1>5. SUFFICES ASSUME Clean
               PROVE  OrderInv'
  BY <1>2 DEF OrderInv, Clean
<1>6. /\ Rank(text) \in MayBeTyped /\ Rank(text) \in 0 .. 5
      /\ after # "none" => Rank(text) \in {2, 3}
      /\ tty # "heredoc" => Rank(text) \notin {2, 3} /\ after = "none"
      /\ tty = "heredoc" => Rank(text) >= 2
      /\ Rank(text) \in 1 .. 3 => tty \in {"shell", "heredoc"}
      /\ tty # "open"
  <2>1. ~ \E i \in 1 .. 1 - 1 : Rank(typed[i].text) = 1
    OBVIOUS
  <2> QED BY <1>2, <1>5, <2>1, Ranks DEF OrderInv
<1>7. \A j \in 1 .. Len(typed) : j > 1 =>
        \/ Rank(text) < Rank(typed[j].text)
        \/ Rank(text) = Rank(typed[j].text) /\ Rank(text) \in {0, 2}
  BY <1>2, <1>5 DEF OrderInv
<1>8. /\ tty' \in {"shell", "heredoc"} \/ tty \in {"login", "password"}
      /\ tty' # "open"
      /\ tty = "heredoc" => tty' = "heredoc" \/ text = "delimiter"
      /\ tty # "heredoc" /\ tty' = "heredoc" => text = "header"
      /\ text = "header" /\ tty # "heredoc" => tty' = "heredoc"
  <2>1. text = "header" => Rank(text) = 1
    BY Ranks
  <2>2. after = "none" \/ tty = "heredoc"
    BY <1>6
  <2>3. \/ Logs(text, after) \/ Answers(text, after) \/ SetsUp(text, after) \/ Opens(text, after)
        \/ Collects(text, after) \/ Ends(text, after) \/ Undoes(text, after)
    BY <1>1, <1>6 DEF Takes, Stumbles, Swallows
  <2>4. CASE Logs(text, after)
    BY <1>6, <2>1, <2>4 DEF Logs
  <2>5. CASE Answers(text, after) \/ SetsUp(text, after) \/ Undoes(text, after)
    BY <2>5 DEF Answers, SetsUp, Undoes, target
  <2>6. CASE Opens(text, after) \/ Collects(text, after)
    BY <2>6 DEF Opens, Collects
  <2>7. CASE Ends(text, after)
    BY <2>2, <2>7 DEF Ends, LastLine
  <2> QED BY <2>3, <2>4, <2>5, <2>6, <2>7
<1>9. Rank(text) = 1 <=> text = "header"
  BY Ranks DEF Texts
<1>10. \A i \in 1 .. Len(typed') : /\ Rank(typed'[i].text) \in MayBeTyped
                                   /\ typed'[i].after # "none" => Rank(typed'[i].text) \in {2, 3}
  BY <1>4, <1>5 DEF OrderInv
<1>11. ASSUME NEW i \in 1 .. Len(typed'), NEW j \in 1 .. Len(typed'), i < j
       PROVE  \/ Rank(typed'[i].text) < Rank(typed'[j].text)
              \/ Rank(typed'[i].text) = Rank(typed'[j].text) /\ Rank(typed'[i].text) \in {0, 2}
  <2>1. i + 1 \in 1 .. Len(typed) /\ j + 1 \in 1 .. Len(typed) /\ i + 1 < j + 1
    BY <1>4, <1>11
  <2>2. typed'[i] = typed[i + 1] /\ typed'[j] = typed[j + 1]
    BY <1>4
  <2> QED BY <1>5, <2>1, <2>2 DEF OrderInv
<1>12. ASSUME tty' = "heredoc", NEW i \in 1 .. Len(typed')
       PROVE  Rank(typed'[i].text) >= 2
  <2>1. CASE tty = "heredoc"
    BY <1>4, <1>5, <2>1 DEF OrderInv
  <2>2. CASE tty # "heredoc"
    <3>1. Rank(text) = 1 /\ i + 1 > 1
      BY <1>8, <1>9, <1>12, <2>2
    <3>2. Rank(typed[i + 1].text) \in 0 .. 5
      BY <1>4, Ranks, LineTypes
    <3> QED BY <1>4, <1>7, <3>1, <3>2
  <2> QED BY <2>1, <2>2
(* Whatever has the header before it keeps it, until the shell reads it.   *)
<1>13. ASSUME tty # "heredoc", tty' # "heredoc", NEW i \in 1 .. Len(typed), Rank(typed[i].text) = 1
       PROVE  i - 1 \in 1 .. Len(typed') /\ Rank(typed'[i - 1].text) = 1
  <2>1. i # 1
    BY <1>2, <1>8, <1>9, <1>13
  <2> QED BY <1>2, <1>13, <2>1, Indices
<1>14. ASSUME tty' # "heredoc", NEW j \in 1 .. Len(typed'), Rank(typed'[j].text) \in {2, 3}
       PROVE  \E i \in 1 .. j - 1 : Rank(typed'[i].text) = 1
  <2>1. Rank(typed[j + 1].text) \in {2, 3} /\ j + 1 \in 1 .. Len(typed)
    BY <1>4, <1>14
  <2>2. tty # "heredoc"
    <3>1. tty = "heredoc" => Rank(text) = 3
      BY <1>8, <1>14, Ranks
    <3> QED BY <1>7, <2>1, <3>1
  <2>3. PICK i \in 1 .. (j + 1) - 1 : Rank(typed[i].text) = 1
    BY <1>5, <2>1, <2>2 DEF OrderInv
  <2>4. i \in 1 .. Len(typed)
    BY <1>2, <2>1, <2>3
  <2>5. i - 1 \in 1 .. Len(typed') /\ Rank(typed'[i - 1].text) = 1
    BY <1>13, <1>14, <2>2, <2>3, <2>4
  <2> QED BY <2>3, <2>5
<1>15. pc \in Sending => tty' = "heredoc" \/ \E i \in 1 .. Len(typed') : Rank(typed'[i].text) = 1
  <2>1. SUFFICES ASSUME pc \in Sending, tty' # "heredoc"
                 PROVE  \E i \in 1 .. Len(typed') : Rank(typed'[i].text) = 1
    OBVIOUS
  <2>2. Rank(text) # 3
    BY <1>6, <2>1, MayBeTypedAt
  <2>3. tty # "heredoc"
    BY <1>8, <2>1, <2>2, Ranks
  <2>4. PICK i \in 1 .. Len(typed) : Rank(typed[i].text) = 1
    BY <1>5, <2>1, <2>3 DEF OrderInv
  <2> QED BY <1>13, <2>1, <2>3, <2>4
<1>16. pc \in Sending \/ (\E i \in 1 .. Len(typed') : Rank(typed'[i].text) \in 1 .. 3)
         => tty' \in {"shell", "heredoc"}
  <2>1. pc \in Sending \/ (\E i \in 1 .. Len(typed') : Rank(typed'[i].text) \in 1 .. 3)
          => tty \in {"shell", "heredoc"}
    BY <1>4, <1>5 DEF OrderInv
  <2> QED BY <1>8, <2>1
<1>17. fragment # "none" => held # "none" /\ pc \in {"close", "deferClose", "deferDelimiter"}
  BY <1>5 DEF OrderInv
<1> QED BY <1>2, <1>3, <1>8, <1>10, <1>11, <1>12, <1>14, <1>15, <1>16, <1>17 DEF OrderInv
-----------------------------------------------------------------------------
(* WHAT HAS BEEN BEGUN IS UNDONE *)

Pending == Sending \cup {"ready", "header", "last", "deferCleanup"}

LEMMA UndoHost ==
  ASSUME TypeOK, ModeInv, LastInv, ExitInv, ShellInv, OrderInv, UndoInv, HostStep
  PROVE  UndoInv'
<1> USE DEF Pending, Sending, Entering
<1>1. (\E text \in Texts : Typing(text) \/ Failing(text)) \/ Quiet
  BY HostDoes
<1>2. /\ UNCHANGED <<tty, echo, sttyFailed, temp, mode>> /\ LastLine' = LastLine
      /\ TypeOK' /\ ModeInv' /\ ShellInv' /\ OrderInv'
  BY <1>1, HostType, ModeHost, ShellHost, OrderHost DEF Typing, Failing, Quiet, target, inputs, LastLine
<1>3. SUFFICES ASSUME Clean', held' = "none"
               PROVE  UndoInv'
  BY DEF UndoInv
<1>4. Clean
  <2>1. "wake" \in Texts
    BY DEF Texts
  <2>2. Quiet => Clean
    BY <1>3, <2>1, CleanAfter DEF Quiet, Silent
  <2> QED BY <1>1, <1>3, <2>2, CleanAfter DEF Typing, Failing
<1>5. fragment # "none" => held # "none" /\ pc \in {"close", "deferClose", "deferDelimiter"}
  BY <1>4 DEF OrderInv
<1>6. ASSUME NEW text \in Texts, Typing(text)
      PROVE  UndoInv'
  <2>1. Wrote(text)
    BY <1>6 DEF Typing
  <2>2. typed'[Len(typed) + 1] = [text |-> text, after |-> fragment] /\ Len(typed') = Len(typed) + 1
    BY <2>1 DEF Wrote
  <2>3. pc \notin {"close", "deferClose"} => held = "none" /\ fragment = "none"
    BY <1>3, <1>5, <1>6 DEF Typing
  <2>4. CASE pc' \in Sending
    BY <2>4 DEF UndoInv
  <2>5. CASE pc' \in {"ready"} \cup Entering
    <3>1. /\ pc \in Entering /\ text \in {"wake", "user", "password", "confirm", "setup"}
          /\ pc' \in Entering => text # "setup"
      BY <1>6, <2>5 DEF Typing, TypeOK, LastLine
    <3>2. \A i \in 1 .. Len(typed) : typed[i].text \notin {"setup", "header", "delimiter"}
      BY <3>1, Beginning, Ranks DEF ShellInv
    <3>3. \A i \in 1 .. Len(typed') : /\ typed'[i].text \notin {"header", "delimiter"}
                                      /\ pc' \in Entering => typed'[i].text # "setup"
      BY <2>1, <2>2, <3>1, <3>2, Indices
    <3>4. echo' /\ temp' = "absent" /\ tty' # "heredoc"
      BY <1>2, <3>1 DEF ShellInv
    <3>5. pc' \in Entering => ~Dirty'
      BY <3>3, <3>4 DEF Dirty
    <3> QED BY <2>5, <3>3, <3>4, <3>5 DEF UndoInv
  <2>6. CASE pc' \in {"last", "deferCleanup"}
    <3>1. text = "delimiter" /\ fragment = "none"
      BY <1>6, <2>3, <2>6 DEF Typing, LastLine, TypeOK
    <3>2. \E i \in 1 .. Len(typed') : typed'[i] = [text |-> "delimiter", after |-> "none"]
      BY <2>1, <2>2, <3>1, Indices
    <3> QED BY <2>6, <3>2 DEF UndoInv
  <2>7. CASE pc' \in {"exit", "done"}
    <3>1. text \in {LastLine, "cleanup"} /\ held = "none" /\ fragment = "none" /\ pc \notin Sending
      BY <1>6, <2>3, <2>7 DEF Typing, LastLine
    <3>2. typed' # <<>> /\ typed'[Len(typed')] \in {[text |-> LastLine, after |-> "none"], Cleanup}
      BY <1>2, <2>1, <2>2, <3>1, Indices, EmptySeq DEF Cleanup
    <3>3. Restores(Len(typed))'
      BY <1>2, <3>2 DEF Restores, Cleanup
    <3>4. tty = "heredoc" \/ (\E i \in 1 .. Len(typed) : typed[i].text = "header")
            => \E i \in 1 .. Len(typed) : typed[i] = [text |-> "delimiter", after |-> "none"]
      BY <1>4, <3>1 DEF UndoInv
    <3>5. tty = "heredoc" \/ (\E i \in 1 .. Len(typed') : typed'[i].text = "header")
            => \E i \in 1 .. Len(typed') : typed'[i] = [text |-> "delimiter", after |-> "none"]
      BY <2>1, <2>2, <3>1, <3>4, Indices DEF LastLine
    <3> QED BY <1>2, <3>2, <3>3, <3>5 DEF UndoInv
  <2> QED BY <1>6, <2>4, <2>5, <2>6, <2>7 DEF Typing
<1>7. ASSUME typed' = typed, held = "none",
             pc \in Sending => pc' \in Sending,
             pc \in Pending /\ pc' \notin Pending => ~Dirty
      PROVE  UndoInv'
  <2>1. Dirty' <=> Dirty
    BY <1>2, <1>7 DEF Dirty
  <2>2. Restores(Len(typed))' <=> Restores(Len(typed))
    BY <1>2, <1>7 DEF Restores, Cleanup
  <2>3. Dirty => pc \in Pending \/ (typed # <<>> /\ Restores(Len(typed)))
    BY <1>4, <1>7 DEF UndoInv
  <2>4. Dirty' => pc' \in Pending \/ (typed' # <<>> /\ Restores(Len(typed))')
    BY <1>7, <2>1, <2>2, <2>3
  <2> QED BY <1>2, <1>4, <1>7, <2>4 DEF UndoInv
<1>8. ASSUME NEW text \in Texts, Failing(text)
      PROVE  FALSE
  <2>1. text \in {"data", "flush"}
    BY <1>3, <1>8, CleanAfter DEF Failing
  <2> QED BY <1>3, <1>8, <2>1 DEF Failing, LastLine
<1>9. CASE Quiet
  <2>1. typed' = typed
    BY <1>9 DEF Quiet, Silent
  <2>2. held = "none"
    <3>1. pc = "stream" => held = "none"
      BY DEF ModeInv, Normal, Before
    <3> QED BY <1>3, <1>9, <3>1 DEF Quiet
  <2>3. pc \in Sending => pc' \in Sending
    BY <1>9 DEF Quiet
  <2>4. ASSUME pc \in Pending, pc' \notin Pending
        PROVE  ~Dirty
    <3>1. pc = "ready" /\ "refused" \in Seen
      BY <1>9, <2>4 DEF Quiet
    <3>2. typed = <<>> /\ echo /\ temp = "absent" /\ tty # "heredoc"
      BY <3>1 DEF ShellInv
    <3> QED BY <3>2, LineTypes DEF Dirty
  <2> QED BY <1>7, <2>1, <2>2, <2>3, <2>4
<1> QED BY <1>1, <1>6, <1>8, <1>9

LEMMA UndoTarget ==
  ASSUME TypeOK, ModeInv, LastInv, ExitInv, ShellInv, OrderInv, UndoInv, TargetStep
  PROVE  UndoInv'
<1> USE DEF Pending
<1>1. PICK text \in Texts, after \in Texts \cup {"none"} : Takes(text, after)
  BY TargetDoes
<1>2. /\ Took(text, after) /\ UNCHANGED <<mode, pc, held, fragment, faulty>>
      /\ LastLine' = LastLine /\ LastLine \in {"command", "finish"} /\ mode \in {"exec", "upload"}
      /\ 1 \in 1 .. Len(typed) /\ Len(typed) \in Nat /\ typed # <<>>
      /\ typed[1] = [text |-> text, after |-> after]
      /\ typed[1].text = text /\ typed[1].after = after
      /\ typed' \in Seq(TypedLines)
  BY <1>1, Indices, LineTypes, TargetType, TypePartsNext DEF Takes, Took, inputs, host, LastLine, TypeOK, LineOK
<1>3. SUFFICES ASSUME Clean, held = "none"
               PROVE  UndoInv'
  BY <1>2 DEF UndoInv, Clean
<1>4. \A i \in 1 .. Len(typed') : i + 1 \in 1 .. Len(typed) /\ typed'[i] = typed[i + 1]
  BY <1>2, Indices
<1>5. /\ after # "none" => Rank(text) \in {2, 3}
      /\ tty # "heredoc" => Rank(text) \notin {2, 3} /\ after = "none"
      /\ Rank(text) \in 1 .. 3 => tty \in {"shell", "heredoc"}
      /\ tty # "open"
  <2>1. ~ \E i \in 1 .. 1 - 1 : Rank(typed[i].text) = 1
    OBVIOUS
  <2> QED BY <1>2, <1>3, <2>1 DEF OrderInv
<1>6. \A j \in 1 .. Len(typed) : j > 1 =>
        \/ Rank(text) < Rank(typed[j].text)
        \/ Rank(text) = Rank(typed[j].text) /\ Rank(text) \in {0, 2}
  BY <1>2, <1>3 DEF OrderInv
<1>7. \/ Logs(text, after) \/ Answers(text, after) \/ SetsUp(text, after) \/ Opens(text, after)
      \/ Collects(text, after) \/ Ends(text, after) \/ Undoes(text, after)
  BY <1>1, <1>5 DEF Takes, Stumbles, Swallows
(* A line that is not an end of its own kind dirties nothing that was not  *)
(* going to be.                                                            *)
<1>8. Dirty' => Dirty
  <2>1. (\E i \in 1 .. Len(typed') : typed'[i].text \in {"setup", "header", "delimiter"}) => Dirty
    BY <1>4 DEF Dirty
  <2>2. CASE Logs(text, after)
    <3>1. tty' # "heredoc" /\ temp' = temp /\ sttyFailed' = sttyFailed /\ (echo => echo')
      BY <2>2 DEF Logs
    <3> QED BY <2>1, <3>1 DEF Dirty
  <2>3. CASE Answers(text, after)
    BY <2>1, <2>3 DEF Answers, Dirty, target
  <2>4. CASE SetsUp(text, after) \/ Opens(text, after)
    <3>1. text \in {"setup", "header"}
      BY <2>4 DEF SetsUp, Opens
    <3> QED BY <1>2, <3>1 DEF Dirty
  <2>5. CASE Collects(text, after)
    BY <2>5 DEF Collects, Dirty
  <2>6. CASE Ends(text, after)
    <3>1. tty' # "heredoc" /\ temp' \in {"absent", temp} /\ EchoBack
      BY <2>6 DEF Ends
    <3> QED BY <2>1, <3>1 DEF Dirty, EchoBack
  <2>7. CASE Undoes(text, after)
    <3>1. tty' # "heredoc" /\ temp' \in {"absent", temp} /\ EchoBack
      BY <2>7 DEF Undoes
    <3> QED BY <2>1, <3>1 DEF Dirty, EchoBack
  <2> QED BY <1>7, <2>2, <2>3, <2>4, <2>5, <2>6, <2>7
<1>9. ASSUME Dirty', pc \notin Pending
      PROVE  typed' # <<>> /\ typed'[Len(typed')] \in {[text |-> LastLine, after |-> "none"], Cleanup}
  <2>1. typed[Len(typed)] \in {[text |-> LastLine, after |-> "none"], Cleanup}
    BY <1>3, <1>8, <1>9 DEF UndoInv, Restores
  <2>2. CASE typed' # <<>>
    <3>1. Len(typed') \in 1 .. Len(typed') /\ Len(typed') + 1 = Len(typed)
      BY <1>2, <2>2, EmptySeq DEF Took
    <3> QED BY <1>4, <2>1, <2>2, <3>1
  <2>3. CASE typed' = <<>>
    <3>1. Len(typed) = 1 /\ \A i \in 1 .. Len(typed') : FALSE
      BY <1>2, <2>3, EmptySeq DEF Took
    <3>2. text \in {LastLine, "cleanup"} /\ after = "none"
      BY <1>2, <2>1, <3>1 DEF Cleanup
    <3>3. tty # "heredoc"
      <4>1. tty = "heredoc" => \E i \in 1 .. Len(typed) : typed[i] = [text |-> "delimiter", after |-> "none"]
        BY <1>3, <1>9 DEF UndoInv
      <4>2. \A i \in 1 .. Len(typed) : typed[i].text # "delimiter"
        BY <1>2, <3>1, <3>2
      <4> QED BY <4>1, <4>2
    <3>4. CASE Logs(text, after)
      BY <1>9, <3>1, <3>4 DEF Logs, Dirty, ShellInv
    <3>5. CASE Ends(text, after)
      <4>1. temp' = "absent" /\ tty' = "shell" /\ (echo' \/ sttyFailed')
        BY <1>2, <3>5 DEF Ends, EchoBack, ModeInv
      <4> QED BY <1>9, <3>1, <4>1 DEF Dirty
    <3>6. CASE Undoes(text, after)
      <4>1. temp' = "absent" /\ tty' = "shell" /\ (echo' \/ sttyFailed')
        BY <1>2, <3>6 DEF Undoes, EchoBack, ModeInv
      <4> QED BY <1>9, <3>1, <4>1 DEF Dirty
    <3> QED BY <1>2, <1>7, <3>2, <3>3, <3>4, <3>5, <3>6 DEF Answers, SetsUp, Opens, Collects
  <2> QED BY <2>2, <2>3
<1>10. ASSUME tty' = "heredoc" \/ \E i \in 1 .. Len(typed') : typed'[i].text = "header",
              pc \notin Sending
       PROVE  \E i \in 1 .. Len(typed') : typed'[i] = [text |-> "delimiter", after |-> "none"]
  <2>1. tty = "heredoc" \/ \E i \in 1 .. Len(typed) : typed[i].text = "header"
    <3>1. tty' = "heredoc" => tty = "heredoc" \/ text = "header"
      BY <1>7 DEF Logs, Answers, SetsUp, Opens, Collects, Ends, Undoes, target
    <3> QED BY <1>2, <1>4, <1>10, <3>1
  <2>2. PICK i \in 1 .. Len(typed) : typed[i] = [text |-> "delimiter", after |-> "none"]
    BY <1>3, <1>10, <2>1 DEF UndoInv
  <2>3. CASE i = 1
    <3>1. text = "delimiter" /\ after = "none" /\ Rank(text) = 3
      BY <1>2, <2>2, <2>3, Ranks
    <3>2. Collects(text, after) /\ tty' = "shell"
      BY <1>2, <1>5, <1>7, <3>1 DEF Logs, Answers, SetsUp, Opens, Collects, Ends, Undoes
    <3>3. PICK j \in 1 .. Len(typed') : typed'[j].text = "header"
      BY <1>10, <3>2
    <3>4. j + 1 \in 1 .. Len(typed) /\ j + 1 > 1 /\ Rank(typed[j + 1].text) = 1
      BY <1>4, <3>3, Ranks
    <3> QED BY <1>6, <3>1, <3>4
  <2>4. CASE i # 1
    BY <1>2, <2>2, <2>4, Indices
  <2> QED BY <2>3, <2>4
<1> QED BY <1>2, <1>9, <1>10 DEF UndoInv, Restores, Cleanup
-----------------------------------------------------------------------------
(* THE THEOREMS *)

LEMMA InvInit == Init => IInv
<1> SUFFICES ASSUME Init
             PROVE  IInv
  OBVIOUS
<1>1. typed = <<>> /\ output = <<>> /\ faulty = <<>> /\ recent = {} /\ fragment = "none"
  BY DEF Init
<1>2. /\ typed \in Seq(TypedLines) /\ output \in Seq(Markers) /\ faulty \in Seq(Texts)
      /\ Len(typed) = 0 /\ Len(output) = 0 /\ \A i \in 1 .. 0 : FALSE
  BY <1>1, EmptySeq
<1>3. TypeOK
  <2>1. InputsOK /\ HostOK
    <3>1. left \in 0 .. Lines
      BY SerialAssumption DEF Init
    <3>2. heredocOpen \in BOOLEAN /\ restoreNeeded \in BOOLEAN
      BY DEF Init
    <3> QED BY <1>1, <3>1, <3>2 DEF Init, InputsOK, HostOK, Places
  <2>2. LineOK
    BY <1>1, <1>2 DEF LineOK
  <2>3. TargetOK
    BY DEF Init, TargetOK
  <2> QED BY <2>1, <2>2, <2>3, TypeParts
<1>4. Seen = {}
  BY <1>1, <1>2 DEF Seen
<1> USE DEF Entering, Sending, Before
<1>5. ModeInv
  BY <1>1, <1>2 DEF Init, ModeInv
<1>6. LastInv
  BY <1>1, <1>2, <1>4 DEF Init, LastInv, LastInLine, LastLine
<1>7. ExitInv
  BY <1>4 DEF Init, ExitInv, SuccessIsDone, AtomicInstall
<1>8. ShellInv
  BY <1>1, <1>2, <1>4 DEF Init, ShellInv
<1>9. OrderInv
  BY <1>1, <1>2 DEF Init, OrderInv
<1>10. UndoInv
  BY <1>1, <1>2 DEF Init, UndoInv, Dirty
<1> QED BY <1>3, <1>5, <1>6, <1>7, <1>8, <1>9, <1>10 DEF IInv

LEMMA InvNext == IInv /\ [Next]_vars => IInv'
<1> SUFFICES ASSUME IInv, [Next]_vars
             PROVE  IInv'
  OBVIOUS
<1> USE DEF IInv
<1>1. CASE HostStep
  BY <1>1, HostType, ModeHost, LastHost, ExitHost, ShellHost, OrderHost, UndoHost
<1>2. CASE TargetStep
  BY <1>2, TargetType, ModeTarget, LastTarget, ExitTarget, ShellTarget, OrderTarget, UndoTarget
<1>3. CASE UNCHANGED vars
  <2>1. /\ UNCHANGED <<mode, creds, pc, result, heredocOpen, restoreNeeded, left, held, recent>>
        /\ UNCHANGED <<faulty, fragment, typed, output>>
        /\ UNCHANGED <<tty, who, echo, sttyFailed, doc, temp, dest, ran>>
    BY <1>3 DEF vars, inputs, host, target
  <2>2. TypeOK' /\ ModeInv'
    BY <2>1 DEF TypeOK, ModeInv, TextsOf
  <2>3. LastInv' /\ ExitInv'
    BY <2>1 DEF LastInv, ExitInv, LastInLine, IsLast, LastLine, Seen, SuccessIsDone, AtomicInstall
  <2>4. ShellInv'
    BY <2>1 DEF ShellInv, Seen
  <2>5. OrderInv'
    BY <2>1 DEF OrderInv, Clean, MayBeTyped
  <2>6. UndoInv'
    BY <2>1 DEF UndoInv, Clean, Dirty, Restores, LastLine
  <2> QED BY <2>2, <2>3, <2>4, <2>5, <2>6
<1> QED BY <1>1, <1>2, <1>3 DEF Next

(* The inductive invariant: the types, the lines each mode types, the last *)
(* line typed once and behind all others, what status zero means, who      *)
(* reads each line, and what undoes what has been begun.                   *)
THEOREM Invariance == Spec => []IInv
BY InvInit, InvNext, PTL DEF Spec

(* Whatever write fails, wait ends or the target does, the destination is  *)
(* the old file or the whole of the new one.                               *)
THEOREM Atomic == Spec => []AtomicInstall
<1>1. IInv => AtomicInstall
  BY DEF IInv, ExitInv
<1> QED BY <1>1, Invariance, PTL

(* runUpload and runExec return nil only when the file is in its place or  *)
(* the command has run, with the terminal as it was found.                 *)
THEOREM HonestSuccess == Spec => []SuccessIsDone
<1>1. IInv => SuccessIsDone
  BY DEF IInv, ExitInv
<1> QED BY <1>1, Invariance, PTL

(* No wait that has ended makes a command run twice, though the line for   *)
(* it may be joined to a part of the line before.                          *)
THEOREM RunsOnce == Spec => []OneEffect
<1>1. IInv => OneEffect
  BY DEF IInv, ExitInv, ModeInv, OneEffect, TypeOK
<1> QED BY <1>1, Invariance, PTL

(* The deferred functions undo what has been begun, wherever the work was  *)
(* given up.                                                               *)
THEOREM Undone == Spec => []NothingLeftBehind
<1>1. IInv => NothingLeftBehind
  <2>1. SUFFICES ASSUME IInv, pc = "done", typed = <<>>, ~sttyFailed, held = "none", Clean
                 PROVE  temp = "absent" /\ echo /\ tty \notin {"heredoc", "open"}
    BY DEF NothingLeftBehind, Clean
  <2>2. ~Dirty /\ tty # "open"
    BY <2>1 DEF IInv, UndoInv, OrderInv, Sending
  <2> QED BY <2>1, <2>2 DEF Dirty, IInv, TypeOK
<1> QED BY <1>1, Invariance, PTL
=============================================================================
