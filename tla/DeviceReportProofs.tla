-------------------------- MODULE DeviceReportProofs --------------------------
(***************************************************************************)
(* Proofs about DeviceReport, for any lines, any configurations of pins    *)
(* and of the radio, any number of faults, reports and lines taken.        *)
(***************************************************************************)
EXTENDS DeviceReport, TLAPS

-----------------------------------------------------------------------------
(* THE PURE PART *)

(* The places of three sequences in their concatenation. *)
LEMMA ConcatFacts ==
  ASSUME NEW S, NEW s \in Seq(S), NEW c \in Seq(S), NEW d \in Seq(S)
  PROVE  /\ Len((s \o c) \o d) = Len(s) + Len(c) + Len(d)
         /\ Len(s) \in Nat /\ Len(c) \in Nat /\ Len(d) \in Nat
         /\ \A k \in 1 .. Len(s) : ((s \o c) \o d)[k] = s[k]
         /\ \A k \in 1 .. Len(c) : ((s \o c) \o d)[Len(s) + k] = c[k]
         /\ \A k \in 1 .. Len(d) : ((s \o c) \o d)[Len(s) + Len(c) + k] = d[k]
<1>1. /\ s \o c \in Seq(S) /\ Len(s \o c) = Len(s) + Len(c)
      /\ Len(s) \in Nat /\ Len(c) \in Nat /\ Len(d) \in Nat
      /\ \A k \in 1 .. Len(s) : (s \o c)[k] = s[k]
      /\ \A k \in 1 .. Len(c) : (s \o c)[Len(s) + k] = c[k]
  OBVIOUS
<1> DEFINE t == s \o c
<1>2. /\ Len(t \o d) = Len(t) + Len(d)
      /\ \A k \in 1 .. Len(t) : (t \o d)[k] = t[k]
      /\ \A k \in 1 .. Len(d) : (t \o d)[Len(t) + k] = d[k]
  <2>1. t \in Seq(S)
    BY <1>1
  <2> HIDE DEF t
  <2> QED BY <2>1
<1>3. Len(t) = Len(s) + Len(c)
  BY <1>1
<1>4. \A k \in 1 .. Len(s) : t[k] = s[k] /\ k \in 1 .. Len(t)
  BY <1>1
<1>5. \A k \in 1 .. Len(c) : t[Len(s) + k] = c[k] /\ Len(s) + k \in 1 .. Len(t)
  BY <1>1
<1> HIDE DEF t
<1>6. /\ \A k \in 1 .. Len(s) : (t \o d)[k] = s[k]
      /\ \A k \in 1 .. Len(c) : (t \o d)[Len(s) + k] = c[k]
  BY <1>2, <1>4, <1>5
<1>7. /\ Len(t \o d) = Len(s) + Len(c) + Len(d)
      /\ \A k \in 1 .. Len(d) : (t \o d)[Len(s) + Len(c) + k] = d[k]
  BY <1>1, <1>2, <1>3
<1> QED BY <1>1, <1>6, <1>7 DEF t

OptionNames == {"WithLevel", "AsDrive", "AsInput", "AsOutput"}

LEMMA OptionFacts ==
  /\ <<>> \in Seq(OptionNames) /\ Len(<<>>) = 0 /\ 1 .. 0 = {} /\ 1 .. 1 = {1}
  /\ \A x \in OptionNames : <<x>> \in Seq(OptionNames) /\ Len(<<x>>) = 1 /\ <<x>>[1] = x
<1>1. <<>> \in Seq(OptionNames) /\ Len(<<>>) = 0
  OBVIOUS
<1>2. 1 .. 0 = {} /\ 1 .. 1 = {1}
  OBVIOUS
<1>3. ASSUME NEW x \in OptionNames
      PROVE  <<x>> \in Seq(OptionNames) /\ Len(<<x>>) = 1 /\ <<x>>[1] = x
  OBVIOUS
<1> QED BY <1>1, <1>2, <1>3

(* The options of a pin come in three groups of one option at most; what    *)
(* they are of follows from the settings, and the direction comes last.    *)
LEMMA DrivesFacts ==
  ASSUME NEW pin, Drives(pin)
  PROVE  SetToDrive(pin)
<1> USE DEF SetToDrive
<1> DEFINE hasDrive == pin.drive \in {"open_drain", "open_source", "push_pull"}
           s == IF pin.level = "set" THEN <<"WithLevel">> ELSE <<>>
           c == IF hasDrive THEN <<"AsDrive">> ELSE <<>>
           d == CASE pin.direction = "input" -> <<"AsInput">>
                  [] pin.direction = "output" /\ ~hasDrive -> <<"AsOutput">>
                  [] OTHER -> <<>>
           o == (s \o c) \o d
<1>1. LineReqOptions(pin) = o
  BY DEF LineReqOptions
<1>2. s \in {<<>>, <<"WithLevel">>}
  OBVIOUS
<1>3. /\ c = IF hasDrive THEN <<"AsDrive">> ELSE <<>>
      /\ d \in {<<>>, <<"AsInput">>, <<"AsOutput">>}
      /\ d = <<"AsInput">> <=> pin.direction = "input"
      /\ d = <<"AsOutput">> => pin.direction = "output"
  OBVIOUS
<1>4. PICK i \in 1 .. Len(o) :
        /\ o[i] \in {"AsOutput", "AsDrive"}
        /\ \A j \in i + 1 .. Len(o) : o[j] # "AsInput"
  <2> HIDE DEF s, c, d, o
  <2> QED BY <1>1 DEF Drives
<1>5. o = (s \o c) \o d
  OBVIOUS
<1> HIDE DEF s, c, d, o
<1>7. s \in Seq(OptionNames) /\ \A k \in 1 .. Len(s) : s[k] \notin {"AsOutput", "AsDrive"}
  <2>1. s = <<>> \/ \E x \in OptionNames \ {"AsOutput", "AsDrive"} : s = <<x>>
    BY <1>2 DEF OptionNames
  <2> QED BY <2>1, OptionFacts
<1>8. c \in Seq(OptionNames) /\ d \in Seq(OptionNames)
  BY <1>3, OptionFacts DEF OptionNames
<1>9. /\ \A k \in 1 .. Len(c) : c[k] = "AsDrive" /\ hasDrive
      /\ \A k \in 1 .. Len(d) : d[k] = "AsOutput" => pin.direction = "output"
      /\ \A k \in 1 .. Len(d) : d[k] # "AsDrive"
  BY <1>3
<1> HIDE DEF hasDrive
<1>10. /\ Len(o) = Len(s) + Len(c) + Len(d)
       /\ Len(s) \in Nat /\ Len(c) \in Nat /\ Len(d) \in Nat
       /\ \A k \in 1 .. Len(s) : o[k] = s[k]
       /\ \A k \in 1 .. Len(c) : o[Len(s) + k] = c[k]
       /\ \A k \in 1 .. Len(d) : o[Len(s) + Len(c) + k] = d[k]
  BY <1>5, <1>7, <1>8, ConcatFacts
<1>11. (o[i] = "AsOutput" \/ o[i] = "AsDrive") /\ i \in Int /\ 1 <= i /\ i <= Len(o)
  BY <1>4, <1>10
<1>12. pin.direction # "input"
  <2> SUFFICES ASSUME pin.direction = "input" PROVE FALSE
    OBVIOUS
  <2>1. Len(d) = 1 /\ d[1] = "AsInput"
    BY <1>3
  <2>2. o[Len(o)] = "AsInput" /\ Len(o) \in Nat
    BY <1>10, <2>1
  <2>3. i = Len(o)
    BY <1>4, <2>2
  <2> QED BY <1>4, <2>2, <2>3
<1>13. CASE i <= Len(s)
  <2>1. i \in 1 .. Len(s)
    BY <1>11, <1>10, <1>13
  <2>2. o[i] = s[i]
    BY <1>10, <2>1
  <2> QED BY <1>11, <1>7, <2>1, <2>2
<1>14. CASE i > Len(s) /\ i <= Len(s) + Len(c)
  <2>1. i - Len(s) \in 1 .. Len(c)
    BY <1>10, <1>14
  <2> QED BY <1>9, <1>12, <2>1 DEF hasDrive
<1>15. CASE i > Len(s) + Len(c)
  <2>1. PICK k \in 1 .. Len(d) : i = Len(s) + Len(c) + k
    <3>1. i - (Len(s) + Len(c)) \in 1 .. Len(d)
      BY <1>11, <1>10, <1>15
    <3>2. i = Len(s) + Len(c) + (i - (Len(s) + Len(c)))
      BY <1>11, <1>10
    <3> QED BY <3>1, <3>2
  <2>2. o[i] = d[k]
    BY <1>10, <2>1
  <2>3. d[k] = "AsOutput"
    BY <1>11, <1>9, <2>1, <2>2
  <2>4. d[k] = "AsOutput" => pin.direction = "output"
    BY <1>9, <2>1
  <2> QED BY <2>3, <2>4
<1>16. i <= Len(s) \/ (i > Len(s) /\ i <= Len(s) + Len(c)) \/ i > Len(s) + Len(c)
  BY <1>11, <1>10
<1> QED BY <1>13, <1>14, <1>15, <1>16, Zenon

(* The lines of the radio are used for no USB device. *)
LEMMA UartFacts ==
  ASSUME NEW ok \in BOOLEAN, radio \in Radios, ResolveSerialDevice(radio, ok).useGPIO
  PROVE  radio.usbId = "" /\ ~radio.usbScan
  BY ReportAssumption DEF ResolveSerialDevice, RadioConfig
-----------------------------------------------------------------------------
(* THE PARTS *)

LEMMA Bounds == MaxFaults \in Nat /\ MaxTakes \in Nat /\ MaxTicks \in Nat
  BY ReportAssumption, Zenon

LEMMA LinesTyped ==
  /\ Len(LineSeq) \in Nat
  /\ \A i \in 1 .. Len(LineSeq) : LineSeq[i] \in Lines
<1>1. LineSeq \in Seq(LineConfig)
  BY ReportAssumption, Zenon
<1> QED BY <1>1 DEF Lines

LEMMA SettingsTyped ==
  ASSUME settings \in Configs, NEW g \in {"device", "radio"}
  PROVE  /\ settings[g] \in Seq(PinConfig) /\ Len(settings[g]) \in Nat
         /\ \A i \in 1 .. Len(settings[g]) : settings[g][i] \in PinConfig
<1>1. settings[g] \in Seq(PinConfig)
  BY ReportAssumption DEF SettingsConfig
<1> QED BY <1>1

LEMMA InspectFacts ==
  ASSUME handles \in Nat, faults \in 0 .. MaxFaults,
         NEW pin, NEW status \in Statuses(pin), Inspect(pin, status)
  PROVE  /\ handles' = handles /\ faults' \in 0 .. MaxFaults
         /\ status.line = ResolvePin(pin)
         /\ status.err = "none" => status.line \in Lines
<1>1. faults' \in {faults, faults + 1} /\ (faults' = faults \/ faults < MaxFaults)
  BY DEF Inspect, Fault
<1>2. faults' \in 0 .. MaxFaults
  BY <1>1, Bounds
<1>3. handles' = handles
  BY DEF Inspect, Closes
<1>4. status.line = ResolvePin(pin) /\ (status.err = "none" => status.line \in Lines)
  BY DEF Inspect
<1> QED BY <1>2, <1>3, <1>4

LEMMA FaultTyped == ASSUME faults \in 0 .. MaxFaults, Fault PROVE faults' \in 0 .. MaxFaults
  BY Bounds DEF Fault

LEMMA RequestFacts ==
  ASSUME TypeOK, NEW l \in Lines, NEW by \in {"nobody", "drone"}, NEW output \in BOOLEAN,
         ~Used(l), Requests(l, by, output)
  PROVE  /\ owner' \in [Lines -> {"nobody", "other", "drone"}]
         /\ firmware' \subseteq Lines /\ driven' \subseteq Lines \ firmware'
         /\ Owned' = IF by = "drone" THEN Owned \cup {l} ELSE Owned
<1>1. owner \in [Lines -> {"nobody", "other", "drone"}] /\ owner[l] = "nobody"
      /\ owner' = [owner EXCEPT ![l] = by]
  BY DEF TypeOK, Used, Requests
<1>2. owner' \in [Lines -> {"nobody", "other", "drone"}]
  BY <1>1
<1>3. Owned' = IF by = "drone" THEN Owned \cup {l} ELSE Owned
  BY <1>1 DEF Owned
<1>4. firmware' \subseteq Lines /\ driven' \subseteq Lines \ firmware'
  BY DEF TypeOK, Requests
<1> QED BY <1>2, <1>3, <1>4

LEMMA ReleaseFacts ==
  ASSUME TypeOK, NEW S, Releases(S)
  PROVE  /\ owner' \in [Lines -> {"nobody", "other", "drone"}]
         /\ UNCHANGED <<firmware, driven>>
         /\ Owned' = Owned \ S
<1>1. owner \in [Lines -> {"nobody", "other", "drone"}]
      /\ owner' = [l \in Lines |-> IF l \in S /\ owner[l] = "drone" THEN "nobody" ELSE owner[l]]
  BY DEF TypeOK, Releases
<1>2. owner' \in [Lines -> {"nobody", "other", "drone"}]
  BY <1>1
<1>3. Owned' = Owned \ S
  BY <1>1 DEF Owned
<1> QED BY <1>2, <1>3 DEF Releases

(* What does not change what a part is about leaves it true. *)
LEMMA ReportsSame ==
  ASSUME ReportsInv, UNCHANGED <<settings, reporter, position, report, received>>
  PROVE  ReportsInv'
  BY DEF ReportsInv, CollectInv, Accounts, LinesNamed, EmptyReport

LEMMA PreflightSame ==
  ASSUME PreflightInv, UNCHANGED <<settings, group, statuses>>,
         main' = "preflight" <=> reporter' = "off"
  PROVE  PreflightInv'
  BY DEF PreflightInv

LEMMA HoldsSame ==
  ASSUME HoldsInv, UNCHANGED <<main, radio>>, Owned' = Owned
  PROVE  HoldsInv'
  BY DEF HoldsInv

LEMMA StatusSame == ASSUME UNCHANGED settings PROVE PinStatus' = PinStatus
  BY DEF PinStatus

LEMMA InvInit == Init => IInv
<1> SUFFICES ASSUME Init PROVE IInv
  OBVIOUS
<1>1. <<>> \in Seq(PinStatus) /\ Len(<<>>) = 0 /\ 0 \in 0 .. 0
  OBVIOUS
<1>2. EmptyReport \in Report
  BY DEF EmptyReport, Report
<1>3. 0 \in 0 .. MaxFaults /\ 0 \in 0 .. MaxTakes /\ 0 \in 0 .. MaxTicks /\ 1 \in Nat
  BY Bounds
<1>4. owner \in [Lines -> {"nobody", "other", "drone"}] /\ Owned = {}
  BY DEF Init, Owned
<1>5. TypeOK
  BY <1>1, <1>2, <1>3, <1>4 DEF Init, TypeOK
<1>6. group \in {"device", "radio"} /\ Len(settings[group]) \in Nat
  BY SettingsTyped DEF Init
<1>7. PreflightInv
  BY <1>1, <1>6 DEF Init, PreflightInv
<1>8. HoldsInv /\ HandlesInv
  BY <1>4 DEF Init, HoldsInv, HandlesInv
<1>9. ReportsInv
  BY DEF Init, ReportsInv, CollectInv, EmptyReport
<1> QED BY <1>5, <1>7, <1>8, <1>9 DEF IInv
-----------------------------------------------------------------------------
(* THE START *)

LEMMA InspectNextStep == ASSUME IInv, InspectNext PROVE IInv'
<1> DEFINE n == Len(statuses)
           pin == settings[group][n + 1]
<1>1. /\ main = "preflight" /\ n < Len(settings[group])
      /\ UNCHANGED <<config, lines, main, group, checked, reporting, takes>>
  BY DEF InspectNext
<1>2. PICK status \in Statuses(pin) :
        Inspect(pin, status) /\ statuses' = Append(statuses, status)
  BY DEF InspectNext
<1>3. /\ statuses \in Seq(PinStatus) /\ n \in Nat /\ group \in {"device", "radio"}
      /\ Len(settings[group]) \in Nat /\ handles \in Nat /\ faults \in 0 .. MaxFaults
      /\ checked \in 0 .. n
  BY SettingsTyped DEF IInv, TypeOK
<1>4. /\ handles' = handles /\ faults' \in 0 .. MaxFaults
      /\ status.line = ResolvePin(pin)
      /\ status.err = "none" => status.line \in Lines
  BY <1>2, <1>3, InspectFacts
<1>5. status \in PinStatus
  <2>1. n + 1 \in 1 .. Len(settings[group])
    BY <1>1, <1>3
  <2> QED BY <1>3, <2>1 DEF PinStatus
<1>6. /\ statuses' \in Seq(PinStatus) /\ Len(statuses') = n + 1
      /\ \A i \in 1 .. n : statuses'[i] = statuses[i]
      /\ statuses'[n + 1] = status
  BY <1>2, <1>3, <1>5
<1>7. TypeOK'
  <2>1. checked' \in 0 .. Len(statuses')
    BY <1>1, <1>3, <1>6
  <2>2. statuses' \in Seq(PinStatus')
    BY <1>1, <1>6, StatusSame DEF config
  <2> QED BY <1>1, <1>3, <1>4, <2>1, <2>2, Zenon DEF IInv, TypeOK, config, lines, reporting
<1>8. PreflightInv'
  <2>1. ASSUME NEW i \in 1 .. Len(statuses')
        PROVE  /\ statuses'[i].line = ResolvePin(settings[group][i])
               /\ statuses'[i].err = "none" => statuses'[i].line \in Lines
    <3>1. CASE i = n + 1
      BY <1>4, <1>6, <3>1
    <3>2. CASE i # n + 1
      <4>1. i \in 1 .. n
        BY <1>3, <1>6, <3>2
      <4> QED BY <1>6, <4>1 DEF IInv, PreflightInv
    <3> QED BY <3>1, <3>2
  <2>2. Len(statuses') <= Len(settings[group])
    BY <1>1, <1>3, <1>6
  <2> QED BY <1>1, <2>1, <2>2 DEF IInv, PreflightInv, config, reporting
<1>9. HoldsInv' /\ HandlesInv' /\ ReportsInv'
  <2>1. HoldsInv'
    BY <1>1, HoldsSame DEF IInv, Owned, lines, config
  <2>2. ReportsInv'
    BY <1>1, ReportsSame DEF IInv, reporting, config
  <2> QED BY <1>1, <1>4, <2>1, <2>2 DEF IInv, HandlesInv, reporting
<1> QED BY <1>7, <1>8, <1>9 DEF IInv

(* The pin at hand, if there is one to validate. *)
LEMMA CurrentFacts ==
  ASSUME IInv, main = "preflight", checked < Len(statuses), Len(statuses) = Len(settings[group])
  PROVE  /\ group \in {"device", "radio"} /\ Current \in 1 .. Len(settings[group])
         /\ Current \in 0 .. Len(statuses)
         /\ statuses[Current].line = ResolvePin(settings[group][Current])
         /\ ~Skips => statuses[Current].line \in Lines
<1>1. checked \in 0 .. Len(statuses) /\ statuses \in Seq(PinStatus) /\ Len(statuses) \in Nat
  BY DEF IInv, TypeOK
<1>2. Current \in 1 .. Len(statuses) /\ Current \in 0 .. Len(statuses)
  BY <1>1 DEF Current
<1> QED BY <1>2 DEF IInv, TypeOK, PreflightInv, Skips

LEMMA ValidateNextStep == ASSUME IInv, ValidateNext PROVE IInv'
<1> DEFINE l == statuses[Current].line
<1>1. /\ main = "preflight" /\ Len(statuses) = Len(settings[group]) /\ checked < Len(statuses)
      /\ checked' = Current
      /\ UNCHANGED <<config, handles, main, group, statuses, reporting, takes>>
  BY DEF ValidateNext
<1>2. Current \in 0 .. Len(statuses) /\ (~Skips => l \in Lines)
  BY <1>1, CurrentFacts
<1>3. /\ faults' \in 0 .. MaxFaults
      /\ \/ UNCHANGED lines
         \/ l \in Lines /\ ~Used(l) /\ Requests(l, "nobody", Drives(settings[group][Current]))
  <2>1. faults \in 0 .. MaxFaults
    BY DEF IInv, TypeOK
  <2> QED BY <1>2, <2>1, FaultTyped DEF ValidateNext
<1>4. /\ owner' \in [Lines -> {"nobody", "other", "drone"}]
      /\ firmware' \subseteq Lines /\ driven' \subseteq Lines \ firmware'
      /\ Owned' = Owned
  <2>1. CASE UNCHANGED lines
    BY <2>1 DEF IInv, TypeOK, lines, Owned
  <2>2. CASE l \in Lines /\ ~Used(l) /\ Requests(l, "nobody", Drives(settings[group][Current]))
    <3>1. Drives(settings[group][Current]) \in BOOLEAN
      BY DEF Drives
    <3> QED BY <2>2, <3>1, RequestFacts DEF IInv
  <2> QED BY <1>3, <2>1, <2>2
<1>5. TypeOK'
  <2>1. statuses' \in Seq(PinStatus')
    BY <1>1, StatusSame DEF config, IInv, TypeOK
  <2> QED BY <1>1, <1>2, <1>3, <1>4, <2>1, Zenon DEF IInv, TypeOK, config, reporting
<1>6. PreflightInv'
  BY <1>1, PreflightSame DEF IInv, PreflightInv, config, reporting
<1>7. HoldsInv'
  BY <1>1, <1>4, HoldsSame DEF IInv, config
<1>8. HandlesInv' /\ ReportsInv'
  BY <1>1, ReportsSame DEF IInv, HandlesInv, config, reporting
<1> QED BY <1>5, <1>6, <1>7, <1>8 DEF IInv

LEMMA NextGroupStep == ASSUME IInv, NextGroup PROVE IInv'
<1>1. /\ main = "preflight" /\ statuses' = <<>> /\ checked' = 0
      /\ UNCHANGED <<config, lines, handles, wifi, position, report, received, ticks, faults, takes>>
      /\ \/ main' = main /\ group' = "radio" /\ reporter' = reporter
         \/ main' = "radio" /\ group' = group /\ reporter' = "wait"
  BY DEF NextGroup
<1>2. reporter = "off" /\ Owned = {} /\ handles = 0
  BY <1>1 DEF IInv, PreflightInv, HoldsInv, HandlesInv
<1>3. <<>> \in Seq(PinStatus') /\ Len(<<>>) = 0 /\ 0 \in 0 .. 0 /\ 1 .. 0 = {}
  OBVIOUS
<1>4. group' \in {"device", "radio"} /\ Len(settings'[group']) \in Nat
  BY <1>1, SettingsTyped DEF IInv, TypeOK, config
<1>5. TypeOK'
  <2>1. checked' \in 0 .. Len(statuses') /\ statuses' \in Seq(PinStatus')
    BY <1>1, <1>3
  <2>2. /\ main' \in {"preflight", "radio", "m0", "m1", "port", "up", "without"}
        /\ reporter' \in {"off", "wait", "usb", "chip", "lines", "probe", "flag", "send", "ended"}
    BY <1>1, <1>2
  <2> QED BY <1>1, <1>4, <2>1, <2>2, Zenon DEF IInv, TypeOK, config, lines
<1>6. PreflightInv'
  BY <1>1, <1>2, <1>3, <1>4 DEF PreflightInv
<1>7. HoldsInv' /\ HandlesInv'
  BY <1>1, <1>2 DEF HoldsInv, HandlesInv, Owned, lines
<1>8. ReportsInv'
  BY <1>1, <1>2 DEF IInv, ReportsInv, CollectInv, Accounts, LinesNamed, config
<1> QED BY <1>5, <1>6, <1>7, <1>8 DEF IInv
(* A step of the radio's start leaves everything but the progress and the  *)
(* lines alone.                                                            *)
LEMMA StartMoves ==
  ASSUME IInv, StartUnchanged, main # "preflight",
         main' \in {"m0", "m1", "port", "up", "without"},
         owner' \in [Lines -> {"nobody", "other", "drone"}],
         firmware' \subseteq Lines, driven' \subseteq Lines \ firmware',
         faults' \in 0 .. MaxFaults, HoldsInv'
  PROVE  IInv'
<1>1. UNCHANGED <<config, handles, group, statuses, checked, reporting, takes>>
  BY DEF StartUnchanged
<1>2. TypeOK'
  <2>1. statuses' \in Seq(PinStatus')
    BY <1>1, StatusSame DEF config, IInv, TypeOK
  <2>2. main' \in {"preflight", "radio", "m0", "m1", "port", "up", "without"}
    OBVIOUS
  <2> QED BY <1>1, <2>1, <2>2, Zenon DEF IInv, TypeOK, config, reporting
<1>3. PreflightInv'
  <2>1. main' # "preflight" /\ reporter' # "off"
    BY <1>1 DEF IInv, PreflightInv, reporting
  <2> QED BY <1>1, <2>1, PreflightSame DEF IInv, config
<1>4. HandlesInv' /\ ReportsInv'
  BY <1>1, ReportsSame DEF IInv, HandlesInv, config, reporting
<1> QED BY <1>2, <1>3, <1>4 DEF IInv

LEMMA LinesSame ==
  ASSUME IInv, UNCHANGED lines
  PROVE  /\ owner' \in [Lines -> {"nobody", "other", "drone"}]
         /\ firmware' \subseteq Lines /\ driven' \subseteq Lines \ firmware'
         /\ Owned' = Owned
  BY DEF IInv, TypeOK, lines, Owned

LEMMA FaultsTyped ==
  ASSUME IInv
  PROVE  /\ UNCHANGED faults => faults' \in 0 .. MaxFaults
         /\ Fault => faults' \in 0 .. MaxFaults
         /\ \A l : RequestFails(l) => faults' \in 0 .. MaxFaults
<1>1. faults \in 0 .. MaxFaults
  BY DEF IInv, TypeOK
<1>2. Fault => faults' \in 0 .. MaxFaults
  BY <1>1, FaultTyped
<1> QED BY <1>1, <1>2 DEF RequestFails

LEMMA ResolveRadioStep == ASSUME IInv, ResolveRadio PROVE IInv'
<1>1. StartUnchanged /\ UNCHANGED lines /\ main = "radio" /\ faults' \in 0 .. MaxFaults
  BY FaultsTyped DEF ResolveRadio, Goes
<1>2. radio' = radio /\ radio \in Radios /\ Owned = {} /\ Owned' = {}
  BY <1>1, LinesSame DEF StartUnchanged, config, IInv, TypeOK, HoldsInv
<1>3. main' \in {"without", "port"} \/ (main' = "m0" /\ radio.usbId = "" /\ ~radio.usbScan)
  BY <1>2, UartFacts DEF ResolveRadio, Goes
<1>4. HoldsInv'
  BY <1>2, <1>3 DEF HoldsInv
<1> QED BY <1>1, <1>3, <1>4, LinesSame, StartMoves

LEMMA RequestM0Step == ASSUME IInv, RequestM0 PROVE IInv'
<1>1. StartUnchanged /\ main = "m0" /\ main' \in {"m1", "without"} /\ faults' \in 0 .. MaxFaults
  BY FaultsTyped DEF RequestM0, Goes
<1>2. radio' = radio /\ Owned = {} /\ radio.usbId = "" /\ ~radio.usbScan
  BY <1>1 DEF StartUnchanged, config, IInv, HoldsInv
<1>3. CASE Free(M0) /\ main' = "m1" /\ Requests(M0, "drone", TRUE)
  <2>1. /\ owner' \in [Lines -> {"nobody", "other", "drone"}]
        /\ firmware' \subseteq Lines /\ driven' \subseteq Lines \ firmware'
        /\ Owned' = {M0}
    BY <1>2, <1>3, RequestFacts DEF IInv, Free
  <2>2. HoldsInv'
    BY <1>2, <1>3, <2>1 DEF HoldsInv
  <2> QED BY <1>1, <2>1, <2>2, StartMoves
<1>4. CASE main' = "without" /\ UNCHANGED lines
  <2>1. HoldsInv'
    BY <1>2, <1>4, LinesSame DEF HoldsInv
  <2> QED BY <1>1, <1>4, <2>1, LinesSame, StartMoves
<1> QED BY <1>3, <1>4 DEF RequestM0, Goes

LEMMA RequestM1Step == ASSUME IInv, RequestM1 PROVE IInv'
<1>1. StartUnchanged /\ main = "m1" /\ main' \in {"port", "without"} /\ faults' \in 0 .. MaxFaults
  BY FaultsTyped DEF RequestM1, Goes
<1>2. Owned = {M0}
  BY <1>1 DEF IInv, HoldsInv
<1>3. CASE Free(M1) /\ main' = "port" /\ Requests(M1, "drone", TRUE)
  <2>1. /\ owner' \in [Lines -> {"nobody", "other", "drone"}]
        /\ firmware' \subseteq Lines /\ driven' \subseteq Lines \ firmware'
        /\ Owned' = {M0, M1}
    BY <1>2, <1>3, RequestFacts DEF IInv, Free
  <2>2. HoldsInv'
    BY <1>3, <2>1 DEF HoldsInv
  <2> QED BY <1>1, <2>1, <2>2, StartMoves
<1>4. CASE main' = "without" /\ Releases({M0})
  <2>1. /\ owner' \in [Lines -> {"nobody", "other", "drone"}]
        /\ firmware' \subseteq Lines /\ driven' \subseteq Lines \ firmware'
        /\ Owned' = {}
    BY <1>2, <1>4, ReleaseFacts DEF IInv, TypeOK
  <2>2. HoldsInv'
    BY <1>4, <2>1 DEF HoldsInv
  <2> QED BY <1>1, <2>1, <2>2, StartMoves
<1> QED BY <1>3, <1>4 DEF RequestM1, Goes

LEMMA OpenPortStep == ASSUME IInv, OpenPort PROVE IInv'
<1>1. StartUnchanged /\ main = "port" /\ main' \in {"up", "without"} /\ faults' \in 0 .. MaxFaults
  BY FaultsTyped DEF OpenPort, Goes
<1>2. Owned \in {{}, {M0, M1}}
  BY <1>1 DEF IInv, HoldsInv
<1>3. CASE main' = "up" /\ UNCHANGED lines
  <2>1. HoldsInv'
    BY <1>2, <1>3, LinesSame DEF HoldsInv
  <2> QED BY <1>1, <1>3, <2>1, LinesSame, StartMoves
<1>4. CASE main' = "without" /\ Releases({M0, M1})
  <2>1. /\ owner' \in [Lines -> {"nobody", "other", "drone"}]
        /\ firmware' \subseteq Lines /\ driven' \subseteq Lines \ firmware'
        /\ Owned' = {}
    BY <1>2, <1>4, ReleaseFacts DEF IInv, TypeOK
  <2>2. HoldsInv'
    BY <1>4, <2>1 DEF HoldsInv
  <2> QED BY <1>1, <2>1, <2>2, StartMoves
<1> QED BY <1>3, <1>4 DEF OpenPort, Goes
-----------------------------------------------------------------------------
(* THE REPORTER *)

Collecting == {"wait", "usb", "chip", "lines", "probe", "flag", "send", "ended"}

(* A step of the reporter leaves the start and the lines alone. *)
LEMMA ReporterMoves ==
  ASSUME IInv, UNCHANGED <<config, starting, lines, wifi, takes>>,
         reporter \in Collecting, reporter' \in Collecting,
         handles' = IF reporter' = "lines" THEN 1 ELSE 0,
         position' \in Nat, report' \in Report, ticks' \in 0 .. MaxTicks,
         faults' \in 0 .. MaxFaults, ReportsInv'
  PROVE  IInv'
<1>1. /\ UNCHANGED <<settings, radio, main, group, statuses, checked, owner, firmware, driven>>
      /\ main # "preflight" /\ reporter' # "off"
  BY DEF config, starting, lines, IInv, PreflightInv, Collecting
<1>2. TypeOK'
  <2>1. statuses' \in Seq(PinStatus')
    BY <1>1, StatusSame DEF IInv, TypeOK
  <2>2. handles' \in Nat
    OBVIOUS
  <2>3. reporter' \in {"off", "wait", "usb", "chip", "lines", "probe", "flag", "send", "ended"}
    BY DEF Collecting
  <2>4. Report' = Report
    BY DEF Report
  <2> QED BY <1>1, <2>1, <2>2, <2>3, <2>4, Zenon DEF IInv, TypeOK
<1>3. PreflightInv'
  BY <1>1, PreflightSame DEF IInv
<1>4. HoldsInv' /\ HandlesInv'
  BY <1>1, HoldsSame DEF IInv, Owned, HandlesInv
<1> QED BY <1>2, <1>3, <1>4 DEF IInv

(* What the reporter finds. *)
LEMMA ReporterFacts ==
  ASSUME IInv
  PROVE  /\ report \in Report /\ position \in Nat /\ ticks \in 0 .. MaxTicks
         /\ handles = IF reporter = "lines" THEN 1 ELSE 0
         /\ Len(settings["device"]) \in Nat
         /\ CollectInv /\ \A r \in received : Accounts(r)
  BY SettingsTyped DEF IInv, TypeOK, HandlesInv, ReportsInv

LEMMA TickStep == ASSUME IInv, Tick PROVE IInv'
<1>1. /\ reporter = "wait" /\ reporter' = "usb" /\ ticks < MaxTicks /\ ticks' = ticks + 1
      /\ report' = EmptyReport /\ position' = 1
      /\ UNCHANGED <<lines, handles, faults, config, starting, wifi, received, takes>>
  BY DEF Tick, Reports, ReporterUnchanged
<1>2. ticks' \in 0 .. MaxTicks /\ faults' \in 0 .. MaxFaults /\ report' \in Report
  BY <1>1, Bounds, ReporterFacts, FaultsTyped DEF EmptyReport, Report
<1>3. ReportsInv'
  BY <1>1, ReporterFacts DEF ReportsInv, CollectInv, EmptyReport, Accounts, LinesNamed
<1> QED BY <1>1, <1>2, <1>3, ReporterFacts, ReporterMoves DEF Collecting

LEMMA ReporterEndsStep == ASSUME IInv, ReporterEnds PROVE IInv'
<1>1. /\ reporter = "wait" /\ reporter' = "ended"
      /\ UNCHANGED <<lines, handles, faults, ticks, report, position, config, starting, wifi,
                     received, takes>>
  BY DEF ReporterEnds, Reports, ReporterUnchanged
<1>2. faults' \in 0 .. MaxFaults
  BY <1>1, FaultsTyped
<1>3. ReportsInv'
  BY <1>1, ReporterFacts DEF ReportsInv, CollectInv, Accounts, LinesNamed
<1> QED BY <1>1, <1>2, <1>3, ReporterFacts, ReporterMoves DEF Collecting

LEMMA ScanUSBStep == ASSUME IInv, ScanUSBDevices PROVE IInv'
<1>1. /\ reporter = "usb" /\ reporter' = "chip"
      /\ UNCHANGED <<lines, handles, ticks, position, config, starting, wifi, received, takes>>
      /\ faults' \in 0 .. MaxFaults
      /\ \/ report' = [report EXCEPT !.usb = TRUE]
         \/ report' = [report EXCEPT !.errors = @ \cup {"usb"}]
  BY FaultsTyped DEF ScanUSBDevices, Reports, ReporterUnchanged
<1>2. report = EmptyReport /\ position = 1 /\ report \in Report
  BY <1>1, ReporterFacts DEF CollectInv
<1>3. report' \in Report /\ (report'.usb <=> "usb" \notin report'.errors)
      /\ report'.used \subseteq report'.seen
      /\ report'.chips = "listed" /\ report'.seen = {} /\ "gpio" \notin report'.errors
  <2>1. /\ report.chips = "listed" /\ report.usb = FALSE /\ report.seen = {} /\ report.used = {} /\ report.errors = {}
    BY <1>2 DEF EmptyReport
  <2>2. CASE report' = [report EXCEPT !.usb = TRUE]
    BY <1>2, <2>1, <2>2 DEF Report
  <2>3. CASE report' = [report EXCEPT !.errors = @ \cup {"usb"}]
    BY <1>2, <2>1, <2>3 DEF Report
  <2> QED BY <1>1, <2>2, <2>3
<1>4. ReportsInv'
  BY <1>1, <1>2, <1>3, ReporterFacts DEF ReportsInv, CollectInv, Accounts, LinesNamed
<1> QED BY <1>1, <1>3, <1>4, ReporterFacts, ReporterMoves DEF Collecting

LEMMA OpenChipStep == ASSUME IInv, OpenChip PROVE IInv'
<1>1. /\ reporter = "chip"
      /\ UNCHANGED <<lines, ticks, position, config, starting, wifi, received, takes>>
      /\ faults' \in 0 .. MaxFaults
      /\ \/ reporter' = "lines" /\ handles' = handles + 1 /\ report' = report
         \/ /\ reporter' = "probe" /\ handles' = handles
            /\ \/ report' = [report EXCEPT !.errors = @ \cup {"gpio"}]
               \/ report' = [report EXCEPT !.chips = "none"]
  BY FaultsTyped DEF OpenChip, Reports, ReporterUnchanged
<1>2. /\ position = 1 /\ report \in Report /\ handles = 0
      /\ report.chips = "listed" /\ report.seen = {} /\ "gpio" \notin report.errors
      /\ report.usb <=> "usb" \notin report.errors
      /\ report.used \subseteq report.seen
  BY <1>1, ReporterFacts DEF CollectInv
<1>3. /\ report' \in Report /\ (report'.usb <=> "usb" \notin report'.errors)
      /\ report'.used \subseteq report'.seen
      /\ report'.seen = {}
      /\ reporter' = "lines" => report'.chips = "listed"
      /\ reporter' = "probe" => LinesNamed(report)'
  <2>1. CASE report' = report /\ reporter' = "lines"
    BY <1>2, <2>1
  <2>2. CASE report' = [report EXCEPT !.errors = @ \cup {"gpio"}] /\ reporter' = "probe"
    BY <1>2, <2>2 DEF Report, LinesNamed
  <2>3. CASE report' = [report EXCEPT !.chips = "none"] /\ reporter' = "probe"
    BY <1>2, <2>3 DEF Report, LinesNamed
  <2> QED BY <1>1, <2>1, <2>2, <2>3
<1>4. /\ position' \in 1 .. Len(LineSeq) + 1 /\ {LineSeq[i] : i \in 1 .. position' - 1} = {}
      /\ position' \in 1 .. Len(settings'["device"]) + 1
  BY <1>1, <1>2, LinesTyped, ReporterFacts DEF config
<1>5. ReportsInv'
  BY <1>1, <1>3, <1>4, ReporterFacts DEF ReportsInv, CollectInv, Accounts, LinesNamed
<1> QED BY <1>1, <1>2, <1>3, <1>5, ReporterFacts, ReporterMoves DEF Collecting

LEMMA ScanLineStep == ASSUME IInv, ScanLine PROVE IInv'
<1> DEFINE l == LineSeq[position]
<1>1. /\ reporter = "lines" /\ reporter' = "lines" /\ position <= Len(LineSeq)
      /\ position' = position + 1
      /\ UNCHANGED <<lines, handles, ticks, config, starting, wifi, received, takes>>
      /\ faults' \in 0 .. MaxFaults
      /\ \/ report' = [report EXCEPT !.seen = @ \cup {l},
                                     !.used = IF Used(l) THEN @ \cup {l} ELSE @]
         \/ report' = [report EXCEPT !.errors = @ \cup {"gpio"}]
  BY FaultsTyped DEF ScanLine, ReporterUnchanged
<1>2. /\ report \in Report /\ position \in 1 .. Len(LineSeq) + 1 /\ report.chips = "listed"
      /\ {LineSeq[i] : i \in 1 .. position - 1} \subseteq report.seen \/ "gpio" \in report.errors
      /\ report.usb <=> "usb" \notin report.errors
      /\ report.used \subseteq report.seen
  BY <1>1, ReporterFacts DEF CollectInv
<1>3. /\ position' \in 1 .. Len(LineSeq) + 1 /\ position' \in Nat /\ l \in Lines
      /\ \A i \in 1 .. position' - 1 : i \in 1 .. position - 1 \/ i = position
  BY <1>1, <1>2, LinesTyped
<1>4. CASE report' = [report EXCEPT !.seen = @ \cup {l},
                                    !.used = IF Used(l) THEN @ \cup {l} ELSE @]
  <2> HIDE DEF l
  <2>1. /\ report' \in Report /\ report'.seen = report.seen \cup {l}
        /\ report'.used \subseteq report.used \cup {l}
        /\ report'.usb = report.usb /\ report'.errors = report.errors
        /\ report'.chips = "listed"
    BY <1>2, <1>3, <1>4 DEF Report
  <2>2. \/ {LineSeq[i] : i \in 1 .. position' - 1} \subseteq report'.seen
        \/ "gpio" \in report'.errors
    BY <1>2, <1>3, <2>1 DEF l
  <2>3. ReportsInv'
    BY <1>1, <1>2, <1>3, <2>1, <2>2, ReporterFacts DEF ReportsInv, CollectInv, Accounts, LinesNamed
  <2> QED BY <1>1, <1>3, <2>1, <2>3, ReporterFacts, ReporterMoves DEF Collecting
<1>5. CASE report' = [report EXCEPT !.errors = @ \cup {"gpio"}]
  <2>1. /\ report' \in Report /\ report'.seen = report.seen /\ report'.used = report.used
        /\ report'.usb = report.usb /\ report'.errors = report.errors \cup {"gpio"}
        /\ report'.chips = "listed"
    BY <1>2, <1>5 DEF Report
  <2>2. ReportsInv'
    BY <1>1, <1>2, <1>3, <2>1, ReporterFacts DEF ReportsInv, CollectInv, Accounts, LinesNamed
  <2> QED BY <1>1, <1>3, <2>1, <2>2, ReporterFacts, ReporterMoves DEF Collecting
<1> QED BY <1>1, <1>4, <1>5

LEMMA CloseChipStep == ASSUME IInv, CloseChip PROVE IInv'
<1>1. /\ reporter = "lines" /\ reporter' = "probe" /\ position = Len(LineSeq) + 1
      /\ handles' = handles - 1 /\ position' = 1
      /\ UNCHANGED <<lines, ticks, report, faults, config, starting, wifi, received, takes>>
  BY DEF CloseChip, Reports, ReporterUnchanged
<1>2. /\ report \in Report /\ handles = 1 /\ report.chips = "listed"
      /\ {LineSeq[i] : i \in 1 .. position - 1} \subseteq report.seen \/ "gpio" \in report.errors
      /\ report.usb <=> "usb" \notin report.errors
      /\ report.used \subseteq report.seen
  BY <1>1, ReporterFacts DEF CollectInv
<1>3. Lines = {LineSeq[i] : i \in 1 .. position - 1} /\ report.seen \subseteq Lines
  BY <1>1, <1>2, LinesTyped DEF Lines, Report
<1>4. position' \in 1 .. Len(settings'["device"]) + 1 /\ faults' \in 0 .. MaxFaults
  BY <1>1, ReporterFacts, FaultsTyped DEF config
<1>5. LinesNamed(report) /\ report' = report
  BY <1>1, <1>2, <1>3 DEF LinesNamed
<1>6. ReportsInv'
  BY <1>1, <1>2, <1>4, <1>5, ReporterFacts DEF ReportsInv, CollectInv, Accounts, LinesNamed
<1> QED BY <1>1, <1>2, <1>4, <1>6, ReporterFacts, ReporterMoves DEF Collecting

LEMMA ProbePinStep == ASSUME IInv, ProbePin PROVE IInv'
<1> DEFINE pin == settings["device"][position]
<1>1. /\ reporter = "probe" /\ reporter' = "probe" /\ position <= Len(settings["device"])
      /\ position' = position + 1
      /\ UNCHANGED <<lines, ticks, config, starting, wifi, received, takes>>
  BY DEF ProbePin, ReporterUnchanged
<1>2. PICK status \in Statuses(pin) :
        /\ Inspect(pin, status)
        /\ report' = IF status.err = "none" THEN report
                     ELSE [report EXCEPT !.errors = @ \cup {"pins"}]
  BY DEF ProbePin
<1>3. handles' = handles /\ faults' \in 0 .. MaxFaults
  BY <1>2, InspectFacts DEF IInv, TypeOK
<1>4. /\ report \in Report /\ position \in 1 .. Len(settings["device"]) + 1
      /\ LinesNamed(report)
      /\ report.usb <=> "usb" \notin report.errors
      /\ report.used \subseteq report.seen
  BY <1>1, ReporterFacts DEF CollectInv
<1>5. /\ report' \in Report /\ report'.seen = report.seen /\ report'.used = report.used
      /\ report'.usb = report.usb /\ report'.errors \in {report.errors, report.errors \cup {"pins"}}
      /\ report'.chips = report.chips
  BY <1>2, <1>4 DEF Report
<1>6. position' \in 1 .. Len(settings'["device"]) + 1 /\ position' \in Nat
  BY <1>1, <1>4, ReporterFacts DEF config
<1>7. /\ LinesNamed(report)'
      /\ report'.usb <=> "usb" \notin report'.errors
      /\ report'.used \subseteq report'.seen
  BY <1>4, <1>5 DEF LinesNamed
<1>8. ReportsInv'
  BY <1>1, <1>6, <1>7, ReporterFacts DEF ReportsInv, CollectInv, Accounts, LinesNamed
<1> QED BY <1>1, <1>3, <1>5, <1>6, <1>8, ReporterFacts, ReporterMoves DEF Collecting

LEMMA DetectDeviceStep == ASSUME IInv, DetectDevice PROVE IInv'
<1>1. /\ reporter = "probe" /\ reporter' = "flag"
      /\ UNCHANGED <<lines, handles, ticks, position, faults, config, starting, wifi, received,
                     takes>>
  BY DEF DetectDevice, Reports, ReporterUnchanged
<1>2. PICK status \in Detect(settings.name) :
       report' = [report EXCEPT !.status = IF "pins" \in report.errors THEN "error" ELSE status]
  BY DEF DetectDevice
<1>3. status \in {"unknown", "detected", "not_detected", "error"}
  BY <1>2 DEF Detect
<1>4. /\ report \in Report
      /\ LinesNamed(report)
      /\ report.usb <=> "usb" \notin report.errors
      /\ report.used \subseteq report.seen
  BY <1>1, ReporterFacts DEF CollectInv
<1>5. /\ report' \in Report /\ report'.seen = report.seen /\ report'.used = report.used
      /\ report'.usb = report.usb /\ report'.errors = report.errors
      /\ report'.chips = report.chips
      /\ report'.status = IF "pins" \in report.errors THEN "error" ELSE status
  BY <1>2, <1>3, <1>4 DEF Report
<1>6. Accounts(report)' /\ faults' \in 0 .. MaxFaults
  BY <1>1, <1>3, <1>4, <1>5, FaultsTyped DEF Accounts, LinesNamed
<1>7. ReportsInv'
  BY <1>1, <1>4, <1>5, <1>6, ReporterFacts DEF ReportsInv, CollectInv, Accounts, LinesNamed
<1> QED BY <1>1, <1>5, <1>6, <1>7, ReporterFacts, ReporterMoves DEF Collecting

LEMMA LoadFlagStep == ASSUME IInv, LoadFlag PROVE IInv'
<1>1. /\ reporter = "flag" /\ reporter' \in {"send", "wait"}
      /\ UNCHANGED <<lines, handles, ticks, report, position, faults, config, starting, wifi,
                     received, takes>>
  BY DEF LoadFlag, Reports, ReporterUnchanged
<1>2. Accounts(report) /\ faults' \in 0 .. MaxFaults
  BY <1>1, FaultsTyped DEF IInv, ReportsInv
<1>3. ReportsInv'
  BY <1>1, <1>2, ReporterFacts DEF ReportsInv, CollectInv, Accounts, LinesNamed
<1> QED BY <1>1, <1>2, <1>3, ReporterFacts, ReporterMoves DEF Collecting

LEMMA SendStep == ASSUME IInv, Send PROVE IInv'
<1>1. /\ reporter = "send" /\ reporter' = "wait" /\ received' \in {received, {report}}
      /\ UNCHANGED <<config, starting, lines, handles, wifi, ticks, report, position, faults, takes>>
  BY DEF Send, Reports
<1>2. Accounts(report) /\ faults' \in 0 .. MaxFaults
  BY <1>1, FaultsTyped DEF IInv, ReportsInv
<1>3. \A r \in received' : Accounts(r)
  BY <1>1, <1>2, ReporterFacts
<1>4. ReportsInv'
  BY <1>1, <1>3, ReporterFacts DEF ReportsInv, CollectInv, Accounts, LinesNamed
<1> QED BY <1>1, <1>2, <1>4, ReporterFacts, ReporterMoves DEF Collecting
-----------------------------------------------------------------------------
(* THE OTHERS, AND THE WHOLE *)

LEMMA StoreStatusStep == ASSUME IInv, StoreStatus PROVE IInv'
<1>1. /\ wifi' \in BOOLEAN
      /\ UNCHANGED <<config, starting, lines, handles, reporter, position, report, received,
                     ticks, faults, takes>>
  BY DEF StoreStatus
<1>2. TypeOK'
  <2>1. statuses' \in Seq(PinStatus')
    BY <1>1, StatusSame DEF config, starting, IInv, TypeOK
  <2>2. Report' = Report
    BY DEF Report
  <2> QED BY <1>1, <2>1, <2>2, Zenon DEF IInv, TypeOK, config, lines, starting
<1>3. PreflightInv' /\ HoldsInv' /\ ReportsInv' /\ HandlesInv'
  <2>1. PreflightInv'
    BY <1>1, PreflightSame DEF IInv, PreflightInv, config, starting
  <2>2. HoldsInv'
    BY <1>1, HoldsSame DEF IInv, Owned, config, starting, lines
  <2>3. ReportsInv' /\ HandlesInv'
    BY <1>1, ReportsSame DEF IInv, HandlesInv, config
  <2> QED BY <2>1, <2>2, <2>3
<1> QED BY <1>2, <1>3 DEF IInv

LEMMA LineStep ==
  ASSUME IInv, NEW l \in Lines, TakeLine(l) \/ GiveLine(l) PROVE IInv'
<1>1. /\ UNCHANGED <<config, starting, reporting, firmware, driven, handles, faults>>
      /\ takes' \in 0 .. MaxTakes
      /\ owner[l] \in {"nobody", "other"}
      /\ \E by \in {"nobody", "other"} : owner' = [owner EXCEPT ![l] = by]
  BY Bounds DEF TakeLine, GiveLine, IInv, TypeOK, Used
<1>2. owner' \in [Lines -> {"nobody", "other", "drone"}] /\ Owned' = Owned
  <2>1. owner \in [Lines -> {"nobody", "other", "drone"}]
    BY DEF IInv, TypeOK
  <2> QED BY <1>1, <2>1 DEF Owned
<1>3. TypeOK'
  <2>1. statuses' \in Seq(PinStatus')
    BY <1>1, StatusSame DEF config, starting, IInv, TypeOK
  <2>2. Report' = Report
    BY DEF Report
  <2> QED BY <1>1, <1>2, <2>1, <2>2, Zenon DEF IInv, TypeOK, config, starting, reporting
<1>4. PreflightInv' /\ HoldsInv' /\ ReportsInv' /\ HandlesInv'
  <2>1. PreflightInv'
    BY <1>1, PreflightSame DEF IInv, PreflightInv, config, starting, reporting
  <2>2. HoldsInv'
    BY <1>1, <1>2, HoldsSame DEF IInv, config, starting
  <2>3. ReportsInv' /\ HandlesInv'
    BY <1>1, ReportsSame DEF IInv, HandlesInv, config, reporting
  <2> QED BY <2>1, <2>2, <2>3
<1> QED BY <1>3, <1>4 DEF IInv

LEMMA InvStep == IInv /\ [Next]_vars => IInv'
<1> SUFFICES ASSUME IInv, [Next]_vars PROVE IInv'
  OBVIOUS
<1>1. CASE Start
  BY <1>1, InspectNextStep, ValidateNextStep, NextGroupStep, ResolveRadioStep, RequestM0Step,
     RequestM1Step, OpenPortStep DEF Start
<1>2. CASE Reporter
  BY <1>2, TickStep, ReporterEndsStep, ScanUSBStep, OpenChipStep, ScanLineStep, CloseChipStep,
     ProbePinStep, DetectDeviceStep, LoadFlagStep, SendStep DEF Reporter
<1>3. CASE Others
  BY <1>3, StoreStatusStep, LineStep DEF Others
<1>4. CASE UNCHANGED vars
  <2>1. UNCHANGED <<config, lines, handles, starting, reporting, faults, takes>>
    BY <1>4 DEF vars
  <2>2. TypeOK'
    <3>1. statuses' \in Seq(PinStatus')
      BY <2>1, StatusSame DEF config, starting, IInv, TypeOK
    <3>2. Report' = Report
      BY DEF Report
    <3> QED BY <2>1, <3>1, <3>2, Zenon DEF IInv, TypeOK, config, lines, starting, reporting
  <2>3. PreflightInv'
    BY <2>1, PreflightSame DEF IInv, PreflightInv, config, starting, reporting
  <2>4. HoldsInv'
    BY <2>1, HoldsSame DEF IInv, Owned, config, starting, lines
  <2>5. ReportsInv' /\ HandlesInv'
    BY <2>1, ReportsSame DEF IInv, HandlesInv, config, reporting
  <2> QED BY <2>2, <2>3, <2>4, <2>5 DEF IInv
<1> QED BY <1>1, <1>2, <1>3, <1>4 DEF Next

(* For any machine, configuration and radio, whatever fails and whatever   *)
(* other programs take: the process holds the lines its progress accounts  *)
(* for, no handle stays open, and a report names what it leaves out        *)
(* (SX1262/main.go, validate.go, device_scan.go).                          *)
THEOREM Invariance == Spec => []IInv
  BY InvInit, InvStep, PTL DEF Spec
-----------------------------------------------------------------------------
(* A request changes the function of its own line, and drives that one if  *)
(* it is for an output.                                                    *)
LEMMA RequestChanges ==
  ASSUME TypeOK, NEW x, NEW by, NEW output \in BOOLEAN, Requests(x, by, output),
         NEW l \in firmware \ firmware'
  PROVE  l = x /\ (l \in driven' => output)
  BY DEF TypeOK, Requests

LEMMA StepKeeps == ASSUME IInv, [Next]_vars PROVE FunctionKept
<1> SUFFICES ASSUME NEW l \in firmware \ firmware'
             PROVE  /\ owner[l] = "nobody"
                    /\ \/ main = "preflight" /\ \E g \in {"device", "radio"} :
                            \E i \in 1 .. Len(settings[g]) :
                              /\ ResolvePin(settings[g][i]) = l
                              /\ l \in driven' => SetToDrive(settings[g][i])
                       \/ main \in {"m0", "m1"} /\ l \in {M0, M1}
                            /\ radio.usbId = "" /\ ~radio.usbScan
  BY DEF FunctionKept
<1>1. TypeOK /\ HoldsInv
  BY DEF IInv
<1>2. CASE ValidateNext
  <2> DEFINE pin == settings[group][Current]
             x == statuses[Current].line
  <2>1. /\ main = "preflight" /\ ~Used(x) /\ Requests(x, "nobody", Drives(pin))
        /\ checked < Len(statuses) /\ Len(statuses) = Len(settings[group])
    BY <1>2 DEF ValidateNext, lines
  <2>2. Drives(pin) \in BOOLEAN
    BY DEF Drives
  <2>3. l = x /\ (l \in driven' => Drives(pin))
    <3> HIDE DEF x, pin
    <3> QED BY <1>1, <2>1, <2>2, RequestChanges
  <2>4. group \in {"device", "radio"} /\ Current \in 1 .. Len(settings[group]) /\ x = ResolvePin(pin)
    BY <2>1, CurrentFacts
  <2>5. Drives(pin) => SetToDrive(pin)
    BY DrivesFacts
  <2>6. owner[l] = "nobody"
    BY <2>1, <2>3 DEF Used
  <2> QED BY <2>1, <2>3, <2>4, <2>5, <2>6
<1>3. ASSUME main \in {"m0", "m1"}, NEW x \in {M0, M1}, Free(x), Requests(x, "drone", TRUE)
      PROVE  /\ owner[l] = "nobody" /\ l \in {M0, M1}
             /\ radio.usbId = "" /\ ~radio.usbScan
  BY <1>1, <1>3, RequestChanges DEF Free, Used, HoldsInv
<1>4. CASE RequestM0
  BY <1>3, <1>4 DEF RequestM0, Goes, lines
<1>5. CASE RequestM1
  BY <1>3, <1>5 DEF RequestM1, Goes, lines, Releases
<1>6. CASE UNCHANGED firmware
  BY <1>6
<1>7. ASSUME InspectNext \/ NextGroup \/ ResolveRadio \/ OpenPort PROVE UNCHANGED firmware
  BY <1>7 DEF InspectNext, NextGroup, ResolveRadio, OpenPort, Releases, lines
<1>8. ASSUME Reporter PROVE UNCHANGED firmware
  BY <1>8 DEF Reporter, Tick, ReporterEnds, ScanUSBDevices, OpenChip, ScanLine, CloseChip,
              ProbePin, DetectDevice, LoadFlag, Send, lines
<1>9. ASSUME Others PROVE UNCHANGED firmware
  BY <1>9 DEF Others, StoreStatus, TakeLine, GiveLine, lines
<1>10. ASSUME UNCHANGED vars PROVE UNCHANGED firmware
  BY <1>10 DEF vars, lines
<1> QED BY <1>2, <1>4, <1>5, <1>6, <1>7, <1>8, <1>9, <1>10 DEF Next, Start

(* Only the preflight and the radio change the function of a line, and     *)
(* only of lines that are theirs and free (README.md:14, validate.go).     *)
THEOREM Inventory == Spec => MetadataOnly
<1>1. IInv /\ [Next]_vars => [FunctionKept]_vars
  BY StepKeeps
<1> QED BY <1>1, Invariance, PTL DEF Spec, MetadataOnly
=============================================================================
