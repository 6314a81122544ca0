------------------------------ MODULE Purchase ------------------------------
(***************************************************************************)
(* What an account that buys packs is promised: a pack is granted only     *)
(* after it was paid for, once, neither is ever undone, and every pack     *)
(* that was paid for is granted in the end.                                *)
(***************************************************************************)
CONSTANT Packs

VARIABLES charged,   \* the packs that were paid for
          granted    \* the packs whose credits were added

vars == <<charged, granted>>

Init == charged = {} /\ granted = {}

Charge(n) ==
  /\ n \notin charged
  /\ charged' = charged \cup {n}
  /\ UNCHANGED granted

Grant(n) ==
  /\ n \in charged \ granted
  /\ granted' = granted \cup {n}
  /\ UNCHANGED charged

Next == \E n \in Packs : Charge(n) \/ Grant(n)

Spec == Init /\ [][Next]_vars

(* Nothing that was paid for is forgotten.                                 *)
LiveSpec == Spec /\ \A n \in Packs : n \in charged ~> n \in granted
=============================================================================
