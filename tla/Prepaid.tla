------------------------------ MODULE Prepaid ------------------------------
(***************************************************************************)
(* The account of UsageLimits with the automatic top-up of AutoTopUp: a    *)
(* run reads the usage it decides on, and a settled pack, by the run or by *)
(* the webhook, is granted under its invoice's reference.                  *)
(***************************************************************************)
EXTENDS UsageLimits

CONSTANTS Sweeps, MaxPacks, Caps, MaxFaults

VARIABLES row, setting, credited, job, inv, hook, faults

T == INSTANCE AutoTopUp

topUpVars == <<row, setting, credited, job, inv, hook, faults>>
vars == <<usageVars, topUpVars>>

ASSUME PrepaidAssumption ==
  /\ MaxPacks \in Nat /\ Caps \subseteq Nat \ {0} /\ MaxFaults \in Nat
  /\ T!Packs \subseteq References

Init == InitUsage /\ T!Init

-----------------------------------------------------------------------------

(* Below the limit there is nothing to buy.                                *)
Reads(d) ==
  /\ T!ReadUsage(d) /\ ReadConversationUsage
  /\ job'[d].pc = "claim" => LimitReached(used[month], Clamped)

Settles(d) == T!Credit(d) /\ AddCredits(job[d].pack)

(* FAULT: the event of a pack that was given up on is left alone.          *)
HearsIfPending(n) == T!PaidArrives(n) /\ row[n].status = "pending" /\ AddCredits(n)

Hears(n) == T!PaidArrives(n) /\ AddCredits(n)

Runs(d) == Reads(d) \/ Settles(d) \/ (T!Works(d) /\ UNCHANGED usageVars)

OnPaid(n)   == Hears(n) \/ (T!PaidMarks(n) /\ UNCHANGED usageVars)
OnFailed(n) == T!OnFailed(n) /\ UNCHANGED usageVars
Befalls(n)  == T!Befalls(n) /\ UNCHANGED usageVars

Next ==
  \/ \E d \in Sweeps : Runs(d) \/ (T!Fails(d) /\ UNCHANGED usageVars)
  \/ \E n \in T!Packs : OnPaid(n) \/ OnFailed(n) \/ Befalls(n)
  \/ Use /\ UNCHANGED topUpVars
  \/ T!Toggle /\ UNCHANGED usageVars

Spec == Init /\ [][Next]_vars

(* The scheduler keeps starting runs, a run goes on, Stripe repeats an     *)
(* event until it is handled, and time passes.                             *)
FairSpec ==
  /\ Spec
  /\ \A d \in Sweeps : WF_vars(Runs(d))
  /\ \A n \in T!Packs :
       /\ WF_vars(OnPaid(n)) /\ WF_vars(OnFailed(n))
       /\ WF_vars(T!Age(n) /\ UNCHANGED usageVars) /\ WF_vars(T!Lapse(n) /\ UNCHANGED usageVars)

-----------------------------------------------------------------------------
(* Properties, beside those of UsageLimits.                                *)

(* No pack stays in flight, whatever became of its charge.                 *)
PendingEnds == \A n \in T!Packs : row[n].status = "pending" ~> row[n].status # "pending"

Sale == INSTANCE Purchase WITH
  Packs <- T!Packs, charged <- {n \in T!Packs : inv[n].status = "paid"},
  granted <- Granted \cap T!Packs

(* Every pack that is paid for, by the run or by hand, reaches the balance *)
(* in the end, whatever its row had become by then and whatever failed.    *)
EveryPaymentIsGranted == Sale!LiveSpec
=============================================================================
