--------------------------- MODULE LevelTriggered ---------------------------
(***************************************************************************)
(* What a level-triggered job kind promises its producers                  *)
(* (BackgroundJobDuplicateKeyPolicy "rerun" in                             *)
(* backend/src/shared/background-jobs/types.ts): work opened for a subject *)
(* stays open until every change committed to that subject has been dealt  *)
(* with, and every change is dealt with in the end.                        *)
(***************************************************************************)
EXTENDS Naturals

CONSTANT Keys        \* the subjects changes are made to

VARIABLES version,   \* how many changes of each subject are committed
          settled,   \* how many of them are dealt with
          open       \* whether work for the subject is outstanding

vars == <<version, settled, open>>

Init ==
  /\ version = [k \in Keys |-> 0]
  /\ settled = [k \in Keys |-> 0]
  /\ open = [k \in Keys |-> FALSE]

(* A change commits, together with the work it asks for.                   *)
Change(k) ==
  /\ version' = [version EXCEPT ![k] = @ + 1]
  /\ open' = [open EXCEPT ![k] = TRUE]
  /\ UNCHANGED settled

(* Some changes are dealt with, and the work stays open for the rest.      *)
Advance(k) ==
  /\ open[k]
  /\ \E v \in settled[k] + 1 .. version[k] :
       settled' = [settled EXCEPT ![k] = v]
  /\ UNCHANGED <<version, open>>

(* The work closes, which it may only do with every change dealt with.     *)
Close(k) ==
  /\ open[k]
  /\ settled' = [settled EXCEPT ![k] = version[k]]
  /\ open' = [open EXCEPT ![k] = FALSE]
  /\ UNCHANGED version

Next == \E k \in Keys : Change(k) \/ Advance(k) \/ Close(k)

Spec == Init /\ [][Next]_vars

(* Open work makes progress.                                               *)
LiveSpec == Spec /\ \A k \in Keys : WF_vars(Advance(k) \/ Close(k))
=============================================================================
