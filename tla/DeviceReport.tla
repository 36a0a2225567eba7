---------------------------- MODULE DeviceReport ----------------------------
(***************************************************************************)
(* The drone and its GPIO lines: the preflight of the configured pins      *)
(* (cmd/drone/main.go, drivers/gpio/validate.go), the radio that takes two *)
(* lines (drivers/radio/SX1262), and, at the same time, the reporter that  *)
(* collects what is there every ten seconds and sends it while the flag    *)
(* of the WiFi poller is up (internal/drone/device_reporter.go,            *)
(* device_scan.go, device_detect.go).  Other programs take lines as well,  *)
(* and every call to the kernel may fail.                                  *)
(***************************************************************************)
EXTENDS GpioLines, FiniteSets

CONSTANTS
  LineSeq,              \* the lines of the chip of the machine, in order
  Configs,              \* a device's name, its pins and those of the radio
  Radios,               \* the settings of the radio
  MaxFaults,            \* bound: calls that fail by themselves
  MaxTakes,             \* bound: lines taken by other programs
  MaxTicks              \* bound: reports collected

LineConfig == [chip : {"gpiochip0"}, offset : Nat]

SettingsConfig == [name : STRING, device : Seq(PinConfig), radio : Seq(PinConfig)]

(* The USB device of the radio is searched for, named or neither. *)
RadioConfig ==
  [present : BOOLEAN, usbId : {"", "auto", "device"}, usbScan : BOOLEAN,
   uartDevice : {"", "device"}]

ASSUME ReportAssumption ==
  /\ LineSeq \in Seq(LineConfig) /\ Configs \subseteq SettingsConfig
  /\ Radios \subseteq RadioConfig
  /\ MaxFaults \in Nat /\ MaxTakes \in Nat /\ MaxTicks \in Nat

VARIABLES
  settings, radio,              \* the configuration
  owner,                        \* who has requested each line
  firmware,                     \* the lines with the function the firmware gave
  driven,                       \* history: lines this process has driven
  handles,                      \* open handles of chips
  main, group, statuses, checked,
  wifi, reporter, position, report, received, ticks,
  faults, takes

Lines == {LineSeq[i] : i \in 1 .. Len(LineSeq)}
M0 == [chip |-> "gpiochip0", offset |-> 22]
M1 == [chip |-> "gpiochip0", offset |-> 27]

config == <<settings, radio>>
lines == <<owner, firmware, driven>>
starting == <<main, group, statuses, checked>>
reporting == <<wifi, reporter, position, report, received, ticks>>
vars == <<config, lines, handles, starting, reporting, faults, takes>>

(* What a report says: the USB devices, the lines it has and those of them *)
(* in use, the status of the device, the errors.  That chips were listed   *)
(* it does not say: "chips" is history.                                    *)
EmptyReport ==
  [usb |-> FALSE, chips |-> "listed", seen |-> {}, used |-> {}, status |-> "none", errors |-> {}]

Init ==
  /\ settings \in Configs
  /\ radio \in Radios
  /\ owner = [l \in Lines |-> "nobody"]
  /\ firmware = Lines /\ driven = {} /\ handles = 0
  /\ main = "preflight" /\ group = "device" /\ statuses = <<>> /\ checked = 0
  /\ wifi = FALSE /\ reporter = "off" /\ position = 1
  /\ report = EmptyReport /\ received = {} /\ ticks = 0
  /\ faults = 0 /\ takes = 0

Fault == faults < MaxFaults /\ faults' = faults + 1

Used(l) == owner[l] # "nobody"

(* A request changes the function of the line for good. *)
Requests(l, by, output) ==
  /\ owner' = [owner EXCEPT ![l] = by]
  /\ firmware' = firmware \ {l}
  /\ driven' = IF output THEN driven \cup {l} ELSE driven
-----------------------------------------------------------------------------
(* INSPECTION *)

(* The chip is closed again on every path that has opened it. *)
Closes(err) == err \in {"none", "info"}

(* InspectPins for one pin: it is resolved, its chip opened, its line read *)
(* and the chip closed; the first of them that fails is the error.         *)
Inspect(pin, status) ==
  LET l == ResolvePin(pin) IN
  /\ status.line = l
  /\ \/ l = Unresolved /\ status.err = "resolve" /\ UNCHANGED faults
     \/ l # Unresolved /\ status.err = "open"
          /\ IF l.chip = "gpiochip0" THEN Fault ELSE UNCHANGED faults
     \/ l # Unresolved /\ l.chip = "gpiochip0" /\ status.err = "info"
          /\ IF l \in Lines THEN Fault ELSE UNCHANGED faults
     \/ l \in Lines /\ status.err = "none" /\ UNCHANGED faults
  /\ status.used = (status.err = "none" /\ Used(l))
  /\ handles' = handles + (IF status.err \in {"none", "info"} THEN 1 ELSE 0)
                        - (IF Closes(status.err) THEN 1 ELSE 0)

Statuses(pin) ==
  [line : {ResolvePin(pin)}, used : BOOLEAN, err : {"none", "resolve", "open", "info"}]
-----------------------------------------------------------------------------
(* START *)

(* preflightPins inspects all pins of a device first. *)
InspectNext ==
  /\ main = "preflight" /\ Len(statuses) < Len(settings[group])
  /\ LET pin == settings[group][Len(statuses) + 1] IN
     \E status \in Statuses(pin) :
        Inspect(pin, status) /\ statuses' = Append(statuses, status)
  /\ UNCHANGED <<config, lines, main, group, checked, reporting, takes>>

Current == checked + 1

(* ValidatePins passes over pins with an error, pins in use and pins       *)
(* without options.                                                        *)
Skips ==
  \/ statuses[Current].err # "none"
  \/ statuses[Current].used
  \/ LineReqOptions(settings[group][Current]) = <<>>

(* The others are requested and closed: what has happened since they were  *)
(* inspected may make that fail.                                           *)
ValidateNext ==
  /\ main = "preflight" /\ Len(statuses) = Len(settings[group]) /\ checked < Len(statuses)
  /\ checked' = Current
  /\ LET l == statuses[Current].line IN
     \/ Skips /\ UNCHANGED <<lines, faults>>
     \/ /\ ~Skips
        /\ IF Used(l) THEN UNCHANGED faults ELSE Fault
        /\ UNCHANGED lines
     \/ /\ ~Skips /\ ~Used(l)
        /\ Requests(l, "nobody", Drives(settings[group][Current]))
        /\ UNCHANGED faults
  /\ UNCHANGED <<config, handles, main, group, statuses, reporting, takes>>

(* The next device; after the last the reporter is started, then the radio.*)
NextGroup ==
  /\ main = "preflight" /\ Len(statuses) = Len(settings[group]) /\ checked = Len(statuses)
  /\ statuses' = <<>> /\ checked' = 0
  /\ \/ group = "device" /\ group' = "radio" /\ UNCHANGED <<main, reporter>>
     \/ group = "radio" /\ main' = "radio" /\ reporter' = "wait" /\ UNCHANGED group
  /\ UNCHANGED <<config, lines, handles, wifi, position, report, received, ticks, faults, takes>>

Goes(from, to) == main = from /\ main' = to

StartUnchanged ==
  UNCHANGED <<config, handles, group, statuses, checked, reporting, takes>>

(* initRadioLink: no radio, no device, or the mode decides what is opened. *)
ResolveRadio ==
  /\ \/ ~radio.present /\ Goes("radio", "without") /\ UNCHANGED faults
     \/ /\ radio.present
        /\ \E ok \in BOOLEAN :
             LET device == ResolveSerialDevice(radio, ok) IN
             /\ Goes("radio", IF ~device.ok THEN "without"
                              ELSE IF device.useGPIO THEN "m0" ELSE "port")
             /\ IF device.ok THEN UNCHANGED faults ELSE Fault
  /\ UNCHANGED lines
  /\ StartUnchanged

Free(l) == l \in Lines /\ ~Used(l)

(* A line that is not there or in use cannot be had. *)
RequestFails(l) == IF Free(l) THEN Fault ELSE UNCHANGED faults

RequestM0 ==
  /\ \/ Free(M0) /\ Goes("m0", "m1") /\ Requests(M0, "drone", TRUE) /\ UNCHANGED faults
     \/ Goes("m0", "without") /\ RequestFails(M0) /\ UNCHANGED lines
  /\ StartUnchanged

Releases(mine) ==
  /\ owner' = [l \in Lines |-> IF l \in mine /\ owner[l] = "drone" THEN "nobody" ELSE owner[l]]
  /\ UNCHANGED <<firmware, driven>>

(* Mutant: the first line is kept when the second cannot be had. *)
RequestM1Keeps ==
  /\ \/ Free(M1) /\ Goes("m1", "port") /\ Requests(M1, "drone", TRUE) /\ UNCHANGED faults
     \/ Goes("m1", "without") /\ RequestFails(M1) /\ UNCHANGED lines
  /\ StartUnchanged

RequestM1 ==
  /\ \/ Free(M1) /\ Goes("m1", "port") /\ Requests(M1, "drone", TRUE) /\ UNCHANGED faults
     \/ Goes("m1", "without") /\ RequestFails(M1) /\ Releases({M0})
  /\ StartUnchanged

(* The port: a failure gives the lines back that there are. *)
OpenPort ==
  /\ \/ Goes("port", "up") /\ UNCHANGED <<lines, faults>>
     \/ Goes("port", "without") /\ Fault /\ Releases({M0, M1})
  /\ StartUnchanged
-----------------------------------------------------------------------------
(* THE REPORTER *)

Reports(from, to) == reporter = from /\ reporter' = to

ReporterUnchanged == UNCHANGED <<config, starting, wifi, received, takes>>

Tick ==
  /\ Reports("wait", "usb") /\ ticks < MaxTicks
  /\ ticks' = ticks + 1 /\ report' = EmptyReport /\ position' = 1
  /\ UNCHANGED <<lines, handles, faults>>
  /\ ReporterUnchanged

ReporterEnds ==
  /\ Reports("wait", "ended")
  /\ UNCHANGED <<lines, handles, faults, ticks, report, position>>
  /\ ReporterUnchanged

ScanUSBDevices ==
  /\ Reports("usb", "chip")
  /\ \/ report' = [report EXCEPT !.usb = TRUE] /\ UNCHANGED faults
     \/ report' = [report EXCEPT !.errors = @ \cup {"usb"}] /\ Fault
  /\ UNCHANGED <<lines, handles, ticks, position>>
  /\ ReporterUnchanged

(* The chip is listed and opened; opening it fails; or none is listed, for *)
(* /dev or the chip cannot be read, which is no error.                     *)
OpenChip ==
  /\ \/ Reports("chip", "lines") /\ handles' = handles + 1 /\ UNCHANGED <<report, faults>>
     \/ /\ Reports("chip", "probe") /\ UNCHANGED handles
        /\ report' = [report EXCEPT !.errors = @ \cup {"gpio"}] /\ Fault
     \/ /\ Reports("chip", "probe") /\ UNCHANGED handles
        /\ report' = [report EXCEPT !.chips = "none"] /\ Fault
  /\ UNCHANGED <<lines, ticks, position>>
  /\ ReporterUnchanged

(* Mutant: a line that is free is requested for its value. *)
ScanLineSamples ==
  LET l == LineSeq[position] IN
  /\ reporter = "lines" /\ position <= Len(LineSeq)
  /\ position' = position + 1
  /\ report' = [report EXCEPT !.seen = @ \cup {l}, !.used = IF Used(l) THEN @ \cup {l} ELSE @]
  /\ IF Used(l) THEN UNCHANGED lines ELSE Requests(l, "nobody", FALSE)
  /\ UNCHANGED <<handles, ticks, reporter, faults>>
  /\ ReporterUnchanged

(* LineInfo of one line after the other. *)
ScanLine ==
  LET l == LineSeq[position] IN
  /\ reporter = "lines" /\ position <= Len(LineSeq)
  /\ position' = position + 1
  /\ \/ /\ report' = [report EXCEPT !.seen = @ \cup {l}, !.used = IF Used(l) THEN @ \cup {l} ELSE @]
        /\ UNCHANGED faults
     \/ report' = [report EXCEPT !.errors = @ \cup {"gpio"}] /\ Fault
  /\ UNCHANGED <<lines, handles, ticks, reporter>>
  /\ ReporterUnchanged

CloseChip ==
  /\ Reports("lines", "probe") /\ position = Len(LineSeq) + 1
  /\ handles' = handles - 1 /\ position' = 1
  /\ UNCHANGED <<lines, ticks, report, faults>>
  /\ ReporterUnchanged

(* probeDevice: the pins one after the other, then what the detector of    *)
(* the device says, which an error of a pin outweighs.                     *)
ProbePin ==
  /\ reporter = "probe" /\ position <= Len(settings["device"])
  /\ position' = position + 1
  /\ LET pin == settings["device"][position] IN
     \E status \in Statuses(pin) :
        /\ Inspect(pin, status)
        /\ report' = IF status.err = "none" THEN report
                     ELSE [report EXCEPT !.errors = @ \cup {"pins"}]
  /\ UNCHANGED <<lines, ticks, reporter>>
  /\ ReporterUnchanged

(* The detectors: a register of the I2C device, the existence of a serial  *)
(* device, or nothing.  Handles are closed whatever fails.                 *)
Detect(device) ==
  CASE device = "MPU_6050" -> {"error", "detected", "not_detected"}
    [] device = "GT_U7" -> {"unknown", "not_detected", "error"}
    [] OTHER -> {"unknown"}

DetectDevice ==
  /\ Reports("probe", "flag") /\ position = Len(settings["device"]) + 1
  /\ \E status \in Detect(settings.name) :
       report' = [report EXCEPT !.status = IF "pins" \in report.errors THEN "error" ELSE status]
  /\ UNCHANGED <<lines, handles, ticks, position, faults>>
  /\ ReporterUnchanged

(* The flag is looked at after the collection. *)
LoadFlag ==
  /\ Reports("flag", IF wifi THEN "send" ELSE "wait")
  /\ UNCHANGED <<lines, handles, ticks, report, position, faults>>
  /\ ReporterUnchanged

(* One attempt; a report that does not arrive is not sent again. *)
Send ==
  /\ Reports("send", "wait")
  /\ received' \in {received, {report}}
  /\ UNCHANGED <<config, starting, lines, handles, wifi, ticks, report, position, faults, takes>>
-----------------------------------------------------------------------------
(* OTHERS *)

StoreStatus ==
  /\ wifi' \in BOOLEAN \ {wifi} /\ reporter # "off"
  /\ UNCHANGED <<config, starting, lines, handles, reporter, position, report, received,
                 ticks, faults, takes>>

TakeLine(l) ==
  /\ takes < MaxTakes /\ takes' = takes + 1
  /\ ~Used(l)
  /\ owner' = [owner EXCEPT ![l] = "other"]
  /\ UNCHANGED <<config, starting, reporting, firmware, driven, handles, faults>>

GiveLine(l) ==
  /\ owner[l] = "other"
  /\ owner' = [owner EXCEPT ![l] = "nobody"]
  /\ UNCHANGED <<config, starting, reporting, firmware, driven, handles, faults, takes>>

Start == InspectNext \/ ValidateNext \/ NextGroup
           \/ ResolveRadio \/ RequestM0 \/ RequestM1 \/ OpenPort

Reporter ==
  \/ Tick \/ ReporterEnds \/ ScanUSBDevices \/ OpenChip \/ ScanLine \/ CloseChip
  \/ ProbePin \/ DetectDevice \/ LoadFlag \/ Send

Others == StoreStatus \/ \E l \in Lines : TakeLine(l) \/ GiveLine(l)

Next == Start \/ Reporter \/ Others

Spec == Init /\ [][Next]_vars
-----------------------------------------------------------------------------
(* What an inspection of a configured pin may say. *)
PinStatus ==
  UNION {UNION {Statuses(settings[g][i]) : i \in 1 .. Len(settings[g])} : g \in {"device", "radio"}}

Report ==
  [usb : BOOLEAN, chips : {"listed", "none"}, seen : SUBSET Lines, used : SUBSET Lines,
   status : {"none", "unknown", "detected", "not_detected", "error"},
   errors : SUBSET {"usb", "gpio", "pins"}]

TypeOK ==
  /\ settings \in Configs /\ radio \in Radios
  /\ owner \in [Lines -> {"nobody", "other", "drone"}]
  /\ firmware \subseteq Lines /\ driven \subseteq Lines \ firmware
  /\ main \in {"preflight", "radio", "m0", "m1", "port", "up", "without"}
  /\ group \in {"device", "radio"}
  /\ statuses \in Seq(PinStatus)
  /\ checked \in 0 .. Len(statuses)
  /\ reporter \in {"off", "wait", "usb", "chip", "lines", "probe", "flag", "send", "ended"}
  /\ wifi \in BOOLEAN /\ ticks \in 0 .. MaxTicks /\ handles \in Nat /\ position \in Nat
  /\ report \in Report
  /\ faults \in 0 .. MaxFaults /\ takes \in 0 .. MaxTakes

(* What is known of a pin is of the pin at its place in the configuration, *)
(* and a pin that is about to be requested has a line.                     *)
PreflightInv ==
  /\ main = "preflight" <=> reporter = "off"
  /\ Len(statuses) <= Len(settings[group])
  /\ \A i \in 1 .. Len(statuses) :
       /\ statuses[i].line = ResolvePin(settings[group][i])
       /\ statuses[i].err = "none" => statuses[i].line \in Lines

Owned == {l \in Lines : owner[l] = "drone"}

(* The lines the process holds are those its progress accounts for: none   *)
(* during the preflight and none after a radio that could not be opened,   *)
(* at whichever call it stopped (SX1262/main.go:57-89).                    *)
HoldsInv ==
  /\ main \in {"preflight", "radio", "m0", "without"} => Owned = {}
  /\ main = "m1" => Owned = {M0}
  /\ main \in {"port", "up"} => Owned \in {{}, {M0, M1}}
  /\ main \in {"m0", "m1"} => radio.usbId = "" /\ ~radio.usbScan

(* No handle stays open when the reporter waits. *)
HandlesInv == handles = IF reporter = "lines" THEN 1 ELSE 0

(* The lines a report leaves out: with an error of the chip or of a line,  *)
(* or all of them and without any error, if no chip was listed             *)
(* (device_scan.go:232-235).                                               *)
LinesNamed(r) ==
  /\ r.chips = "listed" => r.seen = Lines \/ "gpio" \in r.errors
  /\ r.chips = "none" => r.seen = {} /\ "gpio" \notin r.errors

(* So a report that has some of the lines has all or says that it has not. *)
(* A device is in error if one of its pins is.                             *)
Accounts(r) ==
  /\ r.usb <=> "usb" \notin r.errors
  /\ LinesNamed(r)
  /\ r.used \subseteq r.seen
  /\ "pins" \in r.errors => r.status = "error"
  /\ r.status # "none"

(* The same of a report that is being collected, as far as it has come. *)
CollectInv ==
  /\ reporter = "usb" => report = EmptyReport
  /\ reporter \in {"usb", "chip"} => position = 1
  /\ reporter = "chip" => report.seen = {} /\ "gpio" \notin report.errors
  /\ reporter \in {"chip", "lines"} => report.chips = "listed"
  /\ reporter \in {"chip", "lines", "probe"} => (report.usb <=> "usb" \notin report.errors)
  /\ reporter = "lines" =>
       /\ position \in 1 .. Len(LineSeq) + 1
       /\ {LineSeq[i] : i \in 1 .. position - 1} \subseteq report.seen \/ "gpio" \in report.errors
  /\ reporter = "probe" =>
       /\ position \in 1 .. Len(settings["device"]) + 1
       /\ LinesNamed(report)
  /\ report.used \subseteq report.seen

ReportsInv ==
  /\ CollectInv
  /\ reporter \in {"flag", "send"} => Accounts(report)
  /\ \A r \in received : Accounts(r)

IInv == TypeOK /\ PreflightInv /\ HoldsInv /\ HandlesInv /\ ReportsInv

(* A pin whose settings make it an output. *)
SetToDrive(pin) == pin.direction = "output" \/ (pin.direction # "input" /\ pin.drive # "")

FunctionKept ==
  \A l \in firmware \ firmware' :
    /\ owner[l] = "nobody"
    /\ \/ main = "preflight" /\ \E g \in {"device", "radio"} : \E i \in 1 .. Len(settings[g]) :
            ResolvePin(settings[g][i]) = l /\ (l \in driven' => SetToDrive(settings[g][i]))
       \/ main \in {"m0", "m1"} /\ l \in {M0, M1} /\ radio.usbId = "" /\ ~radio.usbScan

(* "GPIO inventory is metadata-only" (README.md:14): once the drone has    *)
(* started, no line changes its function but M0 and M1, and those only for *)
(* a radio on the UART; before, only lines of configured pins do that      *)
(* nobody uses; and only a pin configured for it is driven.                *)
MetadataOnly == [][FunctionKept]_vars
=============================================================================
