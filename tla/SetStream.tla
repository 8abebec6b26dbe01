------------------------------- MODULE SetStream -------------------------------
(***************************************************************************)
(* What the synchronizer may expect of the sets handed to it: the sets of  *)
(* one camera come in the order they were captured in, some of them not at *)
(* all and none twice.                                                     *)
(***************************************************************************)
EXTENDS Naturals

CONSTANT Cameras

VARIABLES
  newest,     \* [camera -> capture time of the last set handed over]
  count       \* [camera -> how many were]

Init == newest = [c \in Cameras |-> 0] /\ count = [c \in Cameras |-> 0]

HandOver(c) ==
  /\ newest'[c] > newest[c]
  /\ newest' = [newest EXCEPT ![c] = newest'[c]]
  /\ count' = [count EXCEPT ![c] = @ + 1]

Spec == Init /\ [][\E c \in Cameras : HandOver(c)]_<<newest, count>>
=============================================================================
