------------------------------ MODULE MCRealtime ------------------------------
(* Realtime with two algorithms and three threads; the settings are every  *)
(* combination of the switches with one CPU or none, and each way of being *)
(* refused.                                                                *)
EXTENDS Realtime

Defaults ==
  [enable |-> "unset", strict |-> "unset", mlock |-> "unset", policy |-> "unset",
   priority |-> "unset", priorityValue |-> 0, cpu |-> "unset", cpuValue |-> 0]

Usable ==
  {[Defaults EXCEPT !.enable = e, !.strict = s, !.mlock = m, !.cpu = c, !.cpuValue = 3] :
     e, s \in {"false", "true"}, m \in {"unset", "true"}, c \in {"unset", "set"}}
  \cup {[Defaults EXCEPT !.enable = "true", !.strict = "true", !.policy = "rr",
                         !.priority = "set", !.priorityValue = p] : p \in {1, 99}}

Refused ==
  {[Defaults EXCEPT !.enable = "bad"], [Defaults EXCEPT !.strict = "bad"],
   [Defaults EXCEPT !.mlock = "bad"], [Defaults EXCEPT !.policy = "bad"],
   [Defaults EXCEPT !.priority = "bad"], [Defaults EXCEPT !.cpu = "bad"],
   [Defaults EXCEPT !.cpu = "set", !.cpuValue = -2]}
  \cup {[Defaults EXCEPT !.priority = "set", !.priorityValue = p] : p \in {0, 100}}

MCEnvironments == Usable \cup Refused
MCKernels == KernelType
=============================================================================
