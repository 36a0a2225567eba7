----------------------------- MODULE GpioLines -----------------------------
(***************************************************************************)
(* The pure part of internal/drivers/gpio: which line of which chip a      *)
(* configured pin stands for (layout.go), with which options it is         *)
(* requested (validate.go), and which serial device and mode the radio     *)
(* takes (drivers/radio/SX1262).  Names are taken as trimmed and in lower  *)
(* case; "blank" stands for a chip of white space only.                    *)
(***************************************************************************)
EXTENDS Integers, Sequences

CONSTANT PhysicalToBCM  \* the layout: physical pin -> GPIO of the BCM2835

(* A pin of the configuration; its level is "set" if it has an active     *)
(* level or a bias.                                                        *)
PinConfig ==
  [scheme : STRING, number : Int, chip : STRING, offset : Int, direction : STRING,
   drive : STRING, level : {"none", "set"}]

defaultGPIOChip == "gpiochip0"

Unresolved == [chip |-> "none", offset |-> -1]

(* The scheme of a pin that names none: a chip or an offset goes before a  *)
(* number.                                                                 *)
SchemeOf(pin) ==
  CASE pin.scheme # "" -> pin.scheme
    [] pin.scheme = "" /\ (pin.chip \notin {"", "blank"} \/ pin.offset # 0) -> "chip"
    [] pin.scheme = "" /\ pin.chip \in {"", "blank"} /\ pin.offset = 0 /\ pin.number # 0 -> "bcm"
    [] OTHER -> "missing"

ChipOf(pin) == IF pin.chip = "" THEN defaultGPIOChip ELSE pin.chip

ResolvePin(pin) ==
  CASE SchemeOf(pin) = "chip" /\ pin.chip \notin {"", "blank"} ->
         [chip |-> pin.chip, offset |-> pin.offset]
    [] SchemeOf(pin) = "bcm" -> [chip |-> ChipOf(pin), offset |-> pin.number]
    [] SchemeOf(pin) = "physical" /\ pin.number \in DOMAIN PhysicalToBCM ->
         [chip |-> ChipOf(pin), offset |-> PhysicalToBCM[pin.number]]
    [] OTHER -> Unresolved
-----------------------------------------------------------------------------
(* The options of a request, in the order in which they are applied; an    *)
(* output without a drive is driven low.                                   *)
LineReqOptions(pin) ==
  LET hasDrive == pin.drive \in {"open_drain", "open_source", "push_pull"} IN
  (IF pin.level = "set" THEN <<"WithLevel">> ELSE <<>>)
  \o (IF hasDrive THEN <<"AsDrive">> ELSE <<>>)
  \o (CASE pin.direction = "input" -> <<"AsInput">>
        [] pin.direction = "output" /\ ~hasDrive -> <<"AsOutput">>
        [] OTHER -> <<>>)

(* The options are applied in order: an output or a drive makes the line   *)
(* an output, and an input after it undoes that.                           *)
Drives(pin) ==
  LET options == LineReqOptions(pin) IN
  \E i \in 1 .. Len(options) :
    /\ options[i] \in {"AsOutput", "AsDrive"}
    /\ \A j \in i + 1 .. Len(options) : options[j] # "AsInput"
-----------------------------------------------------------------------------
(* resolveSerialDevice: a USB adapter that is named or looked for goes     *)
(* before the UART; whether the lines are used depends on the entry that   *)
(* decides, not on the device.  What must be a character device is "ok"    *)
(* only then; the default UART is not looked at.                           *)
ResolveSerialDevice(radio, ok) ==
  CASE radio.usbId = "auto" \/ (radio.usbId = "" /\ radio.usbScan) -> [useGPIO |-> FALSE, ok |-> ok]
    [] radio.usbId = "device" -> [useGPIO |-> FALSE, ok |-> ok]
    [] radio.usbId = "" /\ ~radio.usbScan /\ radio.uartDevice = "" -> [useGPIO |-> TRUE, ok |-> TRUE]
    [] OTHER -> [useGPIO |-> TRUE, ok |-> ok]
=============================================================================
