--------------------------- MODULE MCDeviceReport ---------------------------
(* A machine with three lines that matter: the two of the radio and the    *)
(* transmitter of the UART, whose function the firmware sets.              *)
EXTENDS DeviceReport

Line(offset) == [chip |-> "gpiochip0", offset |-> offset]

MCLineSeq == <<Line(14), Line(22), Line(27)>>

(* The pins of the Raspberry Pi's header for these lines. *)
MCPhysicalToBCM == [p \in {8, 13, 15} |-> CASE p = 8 -> 14 [] p = 13 -> 27 [] p = 15 -> 22]

Pin(scheme, number, chip, offset, direction, drive) ==
  [scheme |-> scheme, number |-> number, chip |-> chip, offset |-> offset,
   direction |-> direction, drive |-> drive, level |-> "none"]

(* GPIO 22 by its number, by its place and by its chip, as an input, an    *)
(* output and an input with a drive; the UART, of which nothing is asked;  *)
(* a place without a GPIO, a chip and a line that are not there; GPIO 27   *)
(* with a bias only.                                                       *)
Nothing == <<>>
Biased == <<[Pin("physical", 13, "", 0, "", "") EXCEPT !.level = "set"]>>
Plain == <<Pin("", 22, "", 0, "output", "")>>
Header == <<Pin("physical", 15, "", 0, "input", "open_drain"), Pin("", 14, "", 0, "", "")>>
Wrong == <<Pin("physical", 1, "", 0, "output", ""), Pin("", 0, "gpiochip0", 22, "", "open_drain")>>
Missing == <<Pin("bcm", 22, "gpiochip4", 0, "input", ""), Pin("bcm", 54, "", 0, "input", "")>>

Config(name, device, lora) == [name |-> name, device |-> device, radio |-> lora]

MCConfigs ==
  { Config("HC_SR04", Nothing, Biased), Config("MPU_6050", Plain, Header),
    Config("GT_U7", Header, Wrong), Config("HC_SR04", Wrong, Plain),
    Config("MPU_6050", Missing, Header) }

Radio(present, usbId, usbScan, uartDevice) ==
  [present |-> present, usbId |-> usbId, usbScan |-> usbScan, uartDevice |-> uartDevice]

MCRadios ==
  { Radio(FALSE, "", FALSE, ""), Radio(TRUE, "", FALSE, ""), Radio(TRUE, "", FALSE, "device"),
    Radio(TRUE, "device", FALSE, "device"), Radio(TRUE, "", TRUE, "") }
=============================================================================
