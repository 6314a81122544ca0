----------------------------- MODULE AutoTopUp -----------------------------
(***************************************************************************)
(* One account that buys a pack of conversations whenever its allowance is *)
(* used up, within one billing period: the sweeps that claim and charge    *)
(* packs, Stripe with its idempotency keys and its webhooks, and a member  *)
(* who switches the setting.                                               *)
(*                                                                         *)
(*   ee/packages/backend-module/src/billing/                               *)
(*     autoTopUpDispatcher, autoTopUpRepository          sweeps and rows   *)
(*     billingWebhookHandler, stripeSdkGateway           Stripe            *)
(*                                                                         *)
(* Every statement and transaction is a step, and so is every call to      *)
(* Stripe, whose answer may be lost.  Two sweeps and the webhooks can be   *)
(* anywhere in between.  What the usage is and whether a subscription can  *)
(* be charged are choices.                                                 *)
(***************************************************************************)
EXTENDS Naturals, FiniteSets

CONSTANTS
  Sweeps,     \* processes whose periodic task runs the dispatcher
  MaxPacks,   \* bound: packs ever claimed
  Caps,       \* the maxPacksPerMonth an account may have
  MaxFaults   \* bound: failed steps, lost answers, crashes, leases that lapse
              \* under their holder, and acts of members: payments by hand and
              \* switches of the setting

ASSUME AutoTopUpAssumption == MaxPacks \in Nat /\ Caps \subseteq Nat \ {0} /\ MaxFaults \in Nat

VARIABLES
  row,       \* ee_billing_auto_top_ups
  setting,   \* ee_billing_auto_top_up_settings
  credited,  \* packs whose invoice has a credit grant
  job,       \* where each sweep stands
  inv,       \* Stripe: the invoice made for a pack
  hook,      \* Stripe: the webhook events about it
  faults

vars == <<row, setting, credited, job, inv, hook, faults>>

-----------------------------------------------------------------------------

Packs == 1 .. MaxPacks

(* `age` tells the re-drive window (20 h) and Stripe's memory of a key     *)
(* (24 h) apart; `recent` is an updated_at within the lease of a pending   *)
(* row and within the cooldown of a failed one.  `revived` marks a pack    *)
(* paid after it had failed.                                               *)
Row == [status : {"none", "pending", "paid", "failed"}, invoice : BOOLEAN,
        age : {"young", "late", "old"}, recent : BOOLEAN, revived : BOOLEAN]

(* `pay` is the outcome Stripe keeps under the pack's payment key.         *)
Invoice == [made : Nat, status : {"none", "draft", "open", "paid", "void"},
            pay : {"no", "paid", "declined"}]

PCs == {"idle", "lookup", "void", "give_up", "redrive", "sweep", "usage", "claim",
        "create", "record", "check", "charge", "credit", "mark", "revoke", "decline", "disable"}

(* `next` is where the run goes on after its pack; `revision` and `seen`   *)
(* are the paid and the credited packs as it read the usage.               *)
Job == [pc : PCs, pack : 0 .. MaxPacks, next : {"idle", "redrive", "sweep"},
        revision : Nat, seen : Nat]

Idle == [pc |-> "idle", pack |-> 0, next |-> "idle", revision |-> 0, seen |-> 0]

Hook == [paid : {"none", "sent", "mark", "done"},
         failed : {"none", "sent", "fail", "disable", "done"}]

Having(s) == {n \in Packs : row[n].status = s}
Pending   == Having("pending")
PaidPacks == Having("paid")

(* Every variable has its type, at most one pack is pending (the partial   *)
(* unique index), a sweep that works on a pack names one, and only a pack  *)
(* that was claimed has anything to its name.                              *)
TypeOK ==
  /\ row \in [Packs -> Row] /\ setting \in [on : BOOLEAN, cap : Caps]
  /\ credited \subseteq Packs
  /\ job \in [Sweeps -> Job]
  /\ inv \in [Packs -> Invoice] /\ hook \in [Packs -> Hook]
  /\ faults \in Nat
  /\ \A m, n \in Pending : m = n
  /\ \A d \in Sweeps :
       job[d].pc \notin {"idle", "redrive", "sweep", "usage", "claim"} =>
         job[d].pack \in Packs /\ row[job[d].pack].status # "none"
  /\ \A n \in Having("none") : inv[n].made = 0 /\ n \notin credited

Init ==
  /\ row = [n \in Packs |-> [status |-> "none", invoice |-> FALSE, age |-> "young",
                             recent |-> FALSE, revived |-> FALSE]]
  /\ setting \in [on : BOOLEAN, cap : Caps]
  /\ credited = {}
  /\ job = [d \in Sweeps |-> Idle]
  /\ inv = [n \in Packs |-> [made |-> 0, status |-> "none", pay |-> "no"]]
  /\ hook = [n \in Packs |-> [paid |-> "none", failed |-> "none"]]
  /\ faults = 0

-----------------------------------------------------------------------------
(* The statements on a pack's row.                                         *)

(* markFailed: only a pending pack fails.                                  *)
Failed(n) ==
  IF row[n].status = "pending"
  THEN [row EXCEPT ![n].status = "failed", ![n].recent = TRUE]
  ELSE row

(* FAULT: only a pending pack is marked paid.                              *)
PaidIfPending(n) ==
  IF row[n].status = "pending"
  THEN [row EXCEPT ![n].status = "paid", ![n].recent = TRUE]
  ELSE row

(* markPaid: a failed pack may still turn out to be paid.                  *)
Paid(n) ==
  IF row[n].status \in {"pending", "failed"}
  THEN [row EXCEPT ![n] = [@ EXCEPT !.status = "paid", !.recent = TRUE,
                                    !.revived = (row[n].status = "failed")]]
  ELSE row

(* FAULT: a pack that never got an invoice is not given up on.             *)
OverdueInvoices == {n \in Pending : row[n].age # "young" /\ row[n].invoice}

(* listExpiredPending *)
Overdue == {n \in Pending : row[n].age # "young"}

(* FAULT: a pack is driven again however old it is.                        *)
StaleAtAnyAge == {n \in Pending : ~row[n].recent}

(* claimStalePending *)
Stale == {n \in Pending : ~row[n].recent /\ row[n].age = "young"}

(* FAULT: a pack is claimed beside the one in flight.                      *)
ClaimableBeside(d) ==
  /\ Cardinality(PaidPacks) = job[d].revision
  /\ Cardinality(Pending \cup PaidPacks) < setting.cap
  /\ \A n \in Having("failed") : ~row[n].recent

(* FAULT: the paid packs are not compared with those the usage was read at.*)
ClaimableByUsage(d) ==
  /\ Pending = {}
  /\ Cardinality(Pending \cup PaidPacks) < setting.cap
  /\ \A n \in Having("failed") : ~row[n].recent

(* FAULT: the cap is off by one.                                           *)
ClaimableAtCap(d) ==
  /\ Pending = {}
  /\ Cardinality(PaidPacks) = job[d].revision
  /\ Cardinality(Pending \cup PaidPacks) <= setting.cap
  /\ \A n \in Having("failed") : ~row[n].recent

(* readClaimState: the guards of claimPending, one snapshot under the      *)
(* account's lock.                                                         *)
Claimable(d) ==
  /\ Pending = {}
  /\ Cardinality(PaidPacks) = job[d].revision
  /\ Cardinality(Pending \cup PaidPacks) < setting.cap
  /\ \A n \in Having("failed") : ~row[n].recent

Fault == faults < MaxFaults /\ faults' = faults + 1

-----------------------------------------------------------------------------
(* Stripe.                                                                 *)

(* An invoice is made once per key for as long as the key is remembered.   *)
Made(n) ==
  IF inv[n].made > 0 /\ row[n].age # "old" THEN inv
  ELSE [inv EXCEPT ![n] = [made |-> @.made + 1, status |-> "draft", pay |-> "no"]]

(* Only an open invoice can be voided.                                     *)
Voided(n) == IF inv[n].status = "open" THEN [inv EXCEPT ![n].status = "void"] ELSE inv

Settled(n, pay) == [inv EXCEPT ![n].status = "paid", ![n].pay = pay]
Refused(n)      == [inv EXCEPT ![n].status = "open", ![n].pay = "declined"]
Finalized(n)    == IF inv[n].status = "draft" THEN [inv EXCEPT ![n].status = "open"] ELSE inv

PaidSent(n)   == [hook EXCEPT ![n].paid = IF @ = "none" THEN "sent" ELSE @]
FailedSent(n) == [hook EXCEPT ![n].failed = IF @ = "none" THEN "sent" ELSE @]

(* FAULT: an invoice that was finalized is taken for paid.                 *)
IsFinalized(n) == inv[n].status \in {"open", "paid"}

IsInvoicePaid(n) == inv[n].status = "paid"

(* A member pays an open invoice on its hosted page.                       *)
CustomerPays(n) ==
  /\ inv[n].status = "open" /\ Fault
  /\ inv' = Settled(n, inv[n].pay) /\ hook' = PaidSent(n)
  /\ UNCHANGED <<row, setting, credited, job>>

-----------------------------------------------------------------------------
(* One run of the dispatcher: it gives up on overdue packs, drives stale   *)
(* ones again, then looks at the account.                                  *)

At(d, pc) == job[d].pc = pc
To(d, pc) == job' = [job EXCEPT ![d].pc = pc]
Done(d)   == job' = [job EXCEPT ![d] = [Idle EXCEPT !.pc = job[d].next]]
Takes(d, n, next, pc) == job' = [job EXCEPT ![d] = [Idle EXCEPT !.pc = pc, !.pack = n, !.next = next]]

Stripe == UNCHANGED <<inv, hook>>

ListExpired(d) ==
  /\ At(d, "idle")
  /\ \/ Overdue = {} /\ To(d, "redrive")
     \/ \E n \in Overdue : Takes(d, n, "redrive", IF row[n].invoice THEN "lookup" ELSE "give_up")
  /\ UNCHANGED <<row, setting, credited, faults>> /\ Stripe

(* A pack Stripe reports paid is settled, never given up on.               *)
Lookup(d) ==
  /\ At(d, "lookup")
  /\ To(d, IF IsInvoicePaid(job[d].pack) THEN "credit" ELSE "void")
  /\ UNCHANGED <<row, setting, credited, faults>> /\ Stripe

(* Whether the void succeeds or not, the run goes on.                      *)
Void(d) ==
  /\ \/ At(d, "void") /\ To(d, "give_up")
     \/ At(d, "revoke") /\ To(d, "decline")
  /\ inv' \in {inv, Voided(job[d].pack)}
  /\ UNCHANGED <<row, setting, credited, hook, faults>>

GiveUp(d) ==
  /\ At(d, "give_up") /\ Done(d)
  /\ row' = Failed(job[d].pack)
  /\ UNCHANGED <<setting, credited, faults>> /\ Stripe

(* Takes the lease of a stale pack; one whose account has no subscription  *)
(* waits for the next lapse.                                               *)
Redrive(d) ==
  /\ At(d, "redrive")
  /\ \/ Stale = {} /\ To(d, "sweep") /\ UNCHANGED row
     \/ \E n \in Stale :
          /\ row' = [row EXCEPT ![n].recent = TRUE]
          /\ \/ To(d, "sweep")
             \/ Takes(d, n, "sweep", IF row[n].invoice THEN "check" ELSE "create")
  /\ UNCHANGED <<setting, credited, faults>> /\ Stripe

(* The paid packs are counted before the usage is read.                    *)
ReadSettings(d) ==
  /\ At(d, "sweep")
  /\ IF setting.on
     THEN job' = [job EXCEPT ![d] = [Idle EXCEPT !.pc = "usage", !.revision = Cardinality(PaidPacks)]]
     ELSE To(d, "idle")
  /\ UNCHANGED <<row, setting, credited, faults>> /\ Stripe

ReadUsage(d) ==
  /\ At(d, "usage")
  /\ \/ job' = [job EXCEPT ![d].pc = "claim", ![d].seen = Cardinality(credited)]
     \/ job' = [job EXCEPT ![d] = Idle]   \* below the limit, or nothing to charge
  /\ UNCHANGED <<row, setting, credited, faults>> /\ Stripe

ClaimPending(d) ==
  /\ At(d, "claim")
  /\ IF Claimable(d) /\ Having("none") # {}
     THEN \E n \in Having("none") :
            /\ \A m \in Having("none") : n <= m
            /\ row' = [row EXCEPT ![n].status = "pending", ![n].recent = TRUE]
            /\ Takes(d, n, "idle", "create")
     ELSE job' = [job EXCEPT ![d] = Idle] /\ UNCHANGED row
  /\ UNCHANGED <<setting, credited, faults>> /\ Stripe

(* createTopUpInvoiceDraft: made, rejected for good, or its answer lost.   *)
Create(d) ==
  LET n == job[d].pack IN
  /\ At(d, "create")
  /\ \/ inv' = Made(n) /\ To(d, "record") /\ UNCHANGED faults
     \/ inv' = inv /\ To(d, "decline") /\ UNCHANGED faults
     \/ inv' \in {inv, Made(n)} /\ Done(d) /\ Fault
  /\ UNCHANGED <<row, setting, credited, hook>>

(* markInvoiceCreated asks for no status.                                  *)
Record(d) ==
  /\ At(d, "record") /\ To(d, "charge")
  /\ row' = [row EXCEPT ![job[d].pack].invoice = TRUE, ![job[d].pack].recent = TRUE]
  /\ UNCHANGED <<setting, credited, faults>> /\ Stripe

Check(d) ==
  /\ At(d, "check")
  /\ To(d, IF IsInvoicePaid(job[d].pack) THEN "credit" ELSE "charge")
  /\ UNCHANGED <<row, setting, credited, faults>> /\ Stripe

(* chargeTopUpInvoice finalizes and pays under the pack's keys: a call     *)
(* made before returns what it returned, an invoice already void or paid   *)
(* is rejected, and whatever happened the answer may be lost.              *)
Charge(d) ==
  LET n == job[d].pack
      Answer(pc) == \/ To(d, pc) /\ UNCHANGED faults
                    \/ Done(d) /\ Fault
  IN
  /\ At(d, "charge")
  /\ \/ inv' \in {inv, Finalized(n)} /\ hook' = hook /\ Done(d) /\ Fault
     \/ inv[n].pay = "paid" /\ Stripe /\ Answer("credit")
     \/ /\ inv[n].pay = "declined" \/ inv[n].status \in {"paid", "void"}
        /\ inv[n].pay # "paid" /\ Stripe /\ Answer("revoke")
     \/ /\ inv[n].pay = "no" /\ inv[n].status \in {"draft", "open"}
        /\ \/ inv' = Settled(n, "paid") /\ hook' = PaidSent(n) /\ Answer("credit")
           \/ inv' = Refused(n) /\ hook' = FailedSent(n) /\ Answer("revoke")
  /\ UNCHANGED <<row, setting, credited>>

(* settlePaid: addCredits, once per invoice, then markPaid.                *)
Credit(d) ==
  /\ At(d, "credit") /\ To(d, "mark")
  /\ credited' = credited \cup {job[d].pack}
  /\ UNCHANGED <<row, setting, faults>> /\ Stripe

MarkPaid(d) ==
  /\ At(d, "mark") /\ Done(d)
  /\ row' = Paid(job[d].pack)
  /\ UNCHANGED <<setting, credited, faults>> /\ Stripe

(* failDefinitively: whoever fails the pack turns auto top-up off.         *)
Decline(d) ==
  /\ At(d, "decline")
  /\ row' = Failed(job[d].pack)
  /\ IF row[job[d].pack].status = "pending" THEN To(d, "disable") ELSE Done(d)
  /\ UNCHANGED <<setting, credited, faults>> /\ Stripe

Disable(d) ==
  /\ At(d, "disable") /\ Done(d)
  /\ setting' = [setting EXCEPT !.on = FALSE]
  /\ UNCHANGED <<row, credited, faults>> /\ Stripe

(* A step fails or the process dies.  In the middle of a charge the error  *)
(* is caught and the run goes on; elsewhere it ends.                       *)
Fails(d) ==
  /\ ~At(d, "idle") /\ Fault
  /\ \/ job' = [job EXCEPT ![d] = Idle]
     \/ job[d].next # "redrive" /\ job[d].pc \in {"record", "check", "charge", "credit", "mark"} /\ Done(d)
  /\ UNCHANGED <<row, setting, credited>> /\ Stripe

-----------------------------------------------------------------------------
(* Webhooks.  An event is claimed in a transaction that stays open while   *)
(* its effects commit on their own: if one fails the claim is undone, the  *)
(* effects before it stay, and Stripe sends the event again.               *)

HookPaid(n, pc)   == hook' = [hook EXCEPT ![n].paid = pc]
HookFailed(n, pc) == hook' = [hook EXCEPT ![n].failed = pc]

PaidArrives(n) ==
  /\ hook[n].paid = "sent" /\ HookPaid(n, "mark")
  /\ credited' = credited \cup {n}
  /\ UNCHANGED <<row, setting, job, inv, faults>>

PaidMarks(n) ==
  /\ hook[n].paid = "mark" /\ HookPaid(n, "done")
  /\ row' = Paid(n)
  /\ UNCHANGED <<setting, credited, job, inv, faults>>

(* A pack that reads paid needs nothing more.                              *)
FailedArrives(n) ==
  /\ hook[n].failed = "sent"
  /\ HookFailed(n, IF row[n].status = "paid" THEN "done" ELSE "fail")
  /\ UNCHANGED <<row, setting, credited, job, inv, faults>>

FailedMarks(n) ==
  /\ hook[n].failed = "fail"
  /\ row' = Failed(n)
  /\ HookFailed(n, IF row[n].status = "pending" THEN "disable" ELSE "done")
  /\ UNCHANGED <<setting, credited, job, inv, faults>>

FailedDisables(n) ==
  /\ hook[n].failed = "disable" /\ HookFailed(n, "done")
  /\ setting' = [setting EXCEPT !.on = FALSE]
  /\ inv' \in {inv, Voided(n)}
  /\ UNCHANGED <<row, credited, job, faults>>

HookFails(n) ==
  /\ Fault
  /\ \/ hook[n].paid = "mark" /\ HookPaid(n, "sent")
     \/ hook[n].failed \in {"fail", "disable"} /\ HookFailed(n, "sent")
  /\ UNCHANGED <<row, setting, credited, job, inv>>

-----------------------------------------------------------------------------
(* The clock and the members.                                              *)

Holders(n) == {d \in Sweeps : job[d].pack = n}

(* A sweep is done with a pack's calls within the four hours between the   *)
(* end of the re-drive window and the end of Stripe's memory.              *)
Age(n) ==
  /\ row[n].status = "pending"
  /\ \/ row[n].age = "young" /\ row' = [row EXCEPT ![n].age = "late"]
     \/ row[n].age = "late" /\ Holders(n) = {} /\ row' = [row EXCEPT ![n].age = "old"]
  /\ UNCHANGED <<setting, credited, job, inv, hook, faults>>

(* The lease of a pending pack or the cooldown of a failed one ends.  An   *)
(* attempt takes seconds: a lease that lapses under it is a fault.         *)
Lapse(n) ==
  /\ row[n].status \in {"pending", "failed"} /\ row[n].recent
  /\ IF row[n].status = "pending" /\ Holders(n) # {} THEN Fault ELSE UNCHANGED faults
  /\ row' = [row EXCEPT ![n].recent = FALSE]
  /\ UNCHANGED <<setting, credited, job, inv, hook>>

(* A member switches it; turning it on clears a payment failure.           *)
Toggle ==
  /\ Fault /\ setting' = [setting EXCEPT !.on = ~@]
  /\ UNCHANGED <<row, credited, job, inv, hook>>

-----------------------------------------------------------------------------

(* The steps of a run that leave the account's usage and credits alone.    *)
Works(d) ==
  \/ ListExpired(d) \/ Lookup(d) \/ Void(d) \/ GiveUp(d) \/ Redrive(d)
  \/ ReadSettings(d) \/ ClaimPending(d)
  \/ Create(d) \/ Record(d) \/ Check(d) \/ Charge(d) \/ MarkPaid(d)
  \/ Decline(d) \/ Disable(d)

Sweep(d) == Works(d) \/ ReadUsage(d) \/ Credit(d)

OnPaid(n)   == PaidArrives(n) \/ PaidMarks(n)
OnFailed(n) == FailedArrives(n) \/ FailedMarks(n) \/ FailedDisables(n)
Befalls(n)  == HookFails(n) \/ CustomerPays(n) \/ Age(n) \/ Lapse(n)

Next ==
  \/ \E d \in Sweeps : Sweep(d) \/ Fails(d)
  \/ \E n \in Packs : OnPaid(n) \/ OnFailed(n) \/ Befalls(n)
  \/ Toggle

Spec == Init /\ [][Next]_vars

-----------------------------------------------------------------------------
(* Properties.                                                             *)

(* Credits are granted for a paid invoice only, and a pack counts as paid  *)
(* only once its credits are granted.                                      *)
CreditsMatchPayments ==
  /\ \A n \in credited : inv[n].status = "paid"
  /\ PaidPacks \subseteq credited

(* However often a pack is driven again, Stripe makes one invoice for it.  *)
OneInvoicePerPack == \A n \in Packs : inv[n].made <= 1

(* The account buys no more packs in a period than its cap, but for packs  *)
(* that were given up and then paid nevertheless.                          *)
CapHolds ==
  Cardinality(Pending \cup PaidPacks) <= setting.cap + Cardinality({n \in Packs : row[n].revived})

(* A pack is claimed on usage that already knew of every pack credited so  *)
(* far, or while one that had failed is being settled late and is not      *)
(* marked paid yet.                                                        *)
ClaimSeesEveryPack ==
  [][\A n \in Packs : row[n].status = "none" /\ row'[n].status = "pending" =>
       \E d \in Sweeps :
         /\ At(d, "claim") /\ job'[d].pack = n
         /\ \/ job[d].seen = Cardinality(credited)
            \/ \E m \in credited : row[m].status = "failed"]_vars

(* A paid invoice is granted and its pack marked paid, whatever became of  *)
(* the pack meanwhile, or Stripe still has that to tell.                   *)
PaidIsGrantedOrTold ==
  \A n \in Packs : inv[n].status = "paid" =>
    \/ n \in credited /\ row[n].status = "paid"
    \/ hook[n].paid \in {"sent", "mark"}

Sale == INSTANCE Purchase WITH charged <- {n \in Packs : inv[n].status = "paid"}, granted <- credited

(* The sweeps and the webhooks together sell each pack as Purchase says:   *)
(* they grant what was paid, once, and no payment is undone.               *)
ImplementsPurchase == Sale!Spec
=============================================================================
