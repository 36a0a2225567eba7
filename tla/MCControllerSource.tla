------------------------- MODULE MCControllerSource -------------------------
(* A button with its release, an axis with values that do not fit 16 bits, *)
(* and EV_SYN.                                                             *)
EXTENDS ControllerSource

MCInputs ==
  [kind : {"key"}, code : {"A"}, value : {0, 1}]
    \cup [kind : {"abs"}, code : {"X"}, value : {minInt16 - 1, maxInt16 + 1}]
    \cup [kind : {"syn"}, code : {"other"}, value : {0}]
=============================================================================
