-------------------------- MODULE AutoTopUpProofs --------------------------
(***************************************************************************)
(* Proofs about AutoTopUp, for any number of sweeps and packs and any cap: *)
(* credits follow payments and payments credits, a pack has one invoice,   *)
(* the cap holds, and a pack is claimed on usage that knew of every pack.  *)
(*                                                                         *)
(* That a settled pack was paid is known where a sweep learned it, so the  *)
(* invariant ties a sweep's place to its pack: one about to credit has a   *)
(* paid invoice, one about to mark has credited, and one that creates      *)
(* holds a pack Stripe still remembers.  One about to claim read usage     *)
(* with at least as many credited packs as it had seen paid.               *)
(***************************************************************************)
EXTENDS AutoTopUp, FiniteSetTheorems, TLAPS

Revived == {n \in Packs : row[n].revived}

Types ==
  /\ row \in [Packs -> Row] /\ setting \in [on : BOOLEAN, cap : Caps]
  /\ credited \subseteq Packs
  /\ job \in [Sweeps -> Job]
  /\ inv \in [Packs -> Invoice] /\ hook \in [Packs -> Hook]
  /\ faults \in Nat

OnePending == \A m, n \in Pending : m = n

(* What holds of a pack's row, its invoice, its events and its grant.      *)
PackOK(n) ==
  /\ row[n].status = "none" =>
       inv[n].made = 0 /\ row[n].age = "young" /\ hook[n].paid = "none"
  /\ inv[n].made <= 1
  /\ inv[n].made = 0 => inv[n].status = "none"
  /\ inv[n].pay = "paid" => inv[n].status = "paid"
  /\ inv[n].status = "paid" <=> hook[n].paid # "none"
  /\ n \in credited => inv[n].status = "paid"
  /\ hook[n].paid \in {"mark", "done"} => n \in credited
  /\ hook[n].paid = "done" => row[n].status = "paid"
  /\ row[n].status = "paid" => n \in credited
  /\ row[n].revived => row[n].status = "paid"

Free == {"idle", "redrive", "sweep", "usage", "claim"}

(* What a sweep's place says of its pack and of what it read.              *)
JobOK(d) ==
  /\ job[d].pc \notin Free => job[d].pack \in Packs /\ row[job[d].pack].status # "none"
  /\ job[d].pc = "create" => row[job[d].pack].age # "old"
  /\ job[d].pc \in {"credit", "mark"} => inv[job[d].pack].status = "paid"
  /\ job[d].pc = "mark" => job[d].pack \in credited
  /\ job[d].pc = "usage" => job[d].revision <= Cardinality(credited)
  /\ job[d].pc = "claim" =>
       job[d].revision <= job[d].seen /\ job[d].seen <= Cardinality(credited)

IInv ==
  /\ Types /\ OnePending /\ CapHolds
  /\ \A n \in Packs : PackOK(n)
  /\ \A d \in Sweeps : JobOK(d)

-----------------------------------------------------------------------------
(* The records, and what a step leaves alone.                              *)

(* The bounds are natural numbers.                                         *)
LEMMA Bounds == MaxPacks \in Nat /\ MaxFaults \in Nat /\ Caps \subseteq Nat \ {0}
BY AutoTopUpAssumption

(* There are finitely many packs.                                          *)
LEMMA PacksFinite == IsFiniteSet(Packs)
BY Bounds, FS_Interval DEF Packs

(* So the credited ones can be counted.                                    *)
LEMMA CreditedFinite ==
  ASSUME Types
  PROVE  IsFiniteSet(credited) /\ Cardinality(credited) \in Nat
BY PacksFinite, FS_Subset, FS_CardinalityType DEF Types

(* The fields of a pack's row.                                             *)
LEMMA RowFields ==
  ASSUME Types, NEW n \in Packs
  PROVE  /\ row[n] \in Row /\ row[n].status \in {"none", "pending", "paid", "failed"}
         /\ row[n].age \in {"young", "late", "old"} /\ row[n].invoice \in BOOLEAN
         /\ row[n].recent \in BOOLEAN /\ row[n].revived \in BOOLEAN
BY DEF Types, Row

(* The fields of a pack's invoice.                                         *)
LEMMA InvFields ==
  ASSUME Types, NEW n \in Packs
  PROVE  /\ inv[n] \in Invoice /\ inv[n].made \in Nat
         /\ inv[n].status \in {"none", "draft", "open", "paid", "void"}
         /\ inv[n].pay \in {"no", "paid", "declined"}
BY DEF Types, Invoice

(* What is known of a pack's webhooks.                                     *)
LEMMA HookFields ==
  ASSUME Types, NEW n \in Packs
  PROVE  /\ hook[n] \in Hook /\ hook[n].paid \in {"none", "sent", "mark", "done"}
         /\ hook[n].failed \in {"none", "sent", "fail", "disable", "done"}
BY DEF Types, Hook

(* The fields of a sweep's record.                                         *)
LEMMA JobFields ==
  ASSUME Types, NEW d \in Sweeps
  PROVE  /\ job[d] \in Job /\ job[d].pc \in PCs /\ job[d].pack \in 0 .. MaxPacks
         /\ job[d].next \in {"idle", "redrive", "sweep"}
         /\ job[d].revision \in Nat /\ job[d].seen \in Nat
BY DEF Types, Job

(* Moves of one sweep.                                                     *)
LEMMA Moves ==
  ASSUME Types, NEW d \in Sweeps, NEW pc \in PCs, To(d, pc)
  PROVE  /\ job' \in [Sweeps -> Job]
         /\ job'[d].pc = pc /\ job'[d].pack = job[d].pack /\ job'[d].next = job[d].next
         /\ job'[d].revision = job[d].revision /\ job'[d].seen = job[d].seen
         /\ \A e \in Sweeps : e # d => job'[e] = job[e]
BY JobFields DEF To, Types, Job

(* An idle sweep has a proper record.                                      *)
LEMMA IdleType == Idle \in Job
BY Bounds DEF Idle, Job, PCs

(* A sweep that is done with its pack.                                     *)
LEMMA Ends ==
  ASSUME Types, NEW d \in Sweeps, Done(d)
  PROVE  /\ job' \in [Sweeps -> Job]
         /\ job'[d].pc \in {"idle", "redrive", "sweep"}
         /\ \A e \in Sweeps : e # d => job'[e] = job[e]
<1>1. [Idle EXCEPT !.pc = job[d].next] \in Job
  BY JobFields, IdleType DEF Idle, Job, PCs
<1>2. [Idle EXCEPT !.pc = job[d].next].pc = job[d].next
  BY DEF Idle
<1> QED BY <1>1, <1>2, JobFields DEF Done, Types

(* A sweep that takes up a pack.                                           *)
LEMMA TakesPack ==
  ASSUME Types, NEW d \in Sweeps, NEW n \in Packs, NEW next \in {"idle", "redrive", "sweep"},
         NEW pc \in PCs, Takes(d, n, next, pc)
  PROVE  /\ job' \in [Sweeps -> Job]
         /\ job'[d].pc = pc /\ job'[d].pack = n
         /\ \A e \in Sweeps : e # d => job'[e] = job[e]
<1>1. n \in 0 .. MaxPacks
  BY Bounds DEF Packs
<1>2. [Idle EXCEPT !.pc = pc, !.pack = n, !.next = next] \in Job
  BY <1>1, IdleType DEF Job
<1>3. /\ [Idle EXCEPT !.pc = pc, !.pack = n, !.next = next].pc = pc
      /\ [Idle EXCEPT !.pc = pc, !.pack = n, !.next = next].pack = n
  BY DEF Idle
<1> QED BY <1>2, <1>3 DEF Takes, Types

(* What every step does to the other sweeps' packs.                        *)
Mono ==
  /\ credited \subseteq credited'
  /\ \A n \in Packs : row[n].status # "none" => row'[n].status # "none"
  /\ \A n \in Packs : inv[n].status = "paid" => inv'[n].status = "paid"
  /\ \A e \in Sweeps : job[e].pack \in Packs /\ row[job[e].pack].age # "old" =>
       row'[job[e].pack].age # "old"

(* Credits are never taken back.                                           *)
LEMMA CreditedGrows ==
  ASSUME Types, Types', Mono
  PROVE  /\ Cardinality(credited) \in Nat /\ Cardinality(credited') \in Nat
         /\ Cardinality(credited) <= Cardinality(credited')
<1>1. IsFiniteSet(credited) /\ IsFiniteSet(credited')
  BY PacksFinite, FS_Subset DEF Types
<1> QED BY <1>1, FS_Subset, FS_CardinalityType DEF Mono

(* What holds of a sweep survives the steps of the others.                 *)
LEMMA OtherJob ==
  ASSUME Types, Types', Mono, NEW e \in Sweeps, JobOK(e), job'[e] = job[e]
  PROVE  JobOK(e)'
<1> DEFINE j == job[e]
<1>1. j.revision \in Nat /\ j.seen \in Nat /\ j.pc \in PCs
  BY JobFields
<1>2. j.pc \notin Free => j.pack \in Packs /\ row'[j.pack].status # "none"
  BY DEF JobOK, Mono
<1>3. j.pc = "create" => row'[j.pack].age # "old"
  BY DEF JobOK, Mono, Free
<1>4. j.pc \in {"credit", "mark"} => inv'[j.pack].status = "paid"
  BY DEF JobOK, Mono, Free
<1>5. j.pc = "mark" => j.pack \in credited'
  BY DEF JobOK, Mono
<1>6. j.pc = "usage" => j.revision <= Cardinality(credited')
  BY <1>1, CreditedGrows DEF JobOK
<1>7. j.pc = "claim" => j.revision <= j.seen /\ j.seen <= Cardinality(credited')
  BY <1>1, CreditedGrows DEF JobOK
<1> QED BY <1>2, <1>3, <1>4, <1>5, <1>6, <1>7 DEF JobOK, Free

(* A sweep between packs has nothing to keep.                              *)
LEMMA FreeJob ==
  ASSUME NEW d \in Sweeps, job'[d].pc \in {"idle", "redrive", "sweep"}
  PROVE  JobOK(d)'
BY DEF JobOK, Free

(* Only the statuses of the packs and the cap matter to these two.         *)
StatusKept ==
  /\ \A n \in Packs : row'[n].status = row[n].status /\ row'[n].revived = row[n].revived
  /\ setting'.cap = setting.cap

(* Steps that keep the statuses keep the counts.                           *)
LEMMA CountsKept ==
  ASSUME OnePending, CapHolds, StatusKept
  PROVE  OnePending' /\ CapHolds'
<1>1. Pending' = Pending /\ PaidPacks' = PaidPacks
  BY DEF Pending, PaidPacks, Having, StatusKept
<1>2. {n \in Packs : row'[n].revived} = {n \in Packs : row[n].revived}
  BY DEF StatusKept
<1> QED BY <1>1, <1>2 DEF OnePending, CapHolds, StatusKept

-----------------------------------------------------------------------------
(* The statements on a row.                                                *)

(* Pending, paid and revived packs can be counted.                         *)
LEMMA SetsFinite ==
  /\ IsFiniteSet(Pending \cup PaidPacks) /\ Cardinality(Pending \cup PaidPacks) \in Nat
  /\ IsFiniteSet(Revived) /\ Cardinality(Revived) \in Nat
<1>1. Pending \cup PaidPacks \subseteq Packs /\ Revived \subseteq Packs
  BY DEF Pending, PaidPacks, Having, Revived
<1> QED BY <1>1, PacksFinite, FS_Subset, FS_CardinalityType

(* The cap is a number.                                                    *)
LEMMA CapIsNat ==
  ASSUME Types
  PROVE  setting.cap \in Nat
BY Bounds DEF Types

(* A pack that is given up counts against nothing.                         *)
LEMMA FailedRow ==
  ASSUME Types, OnePending, CapHolds, NEW n \in Packs, row' = Failed(n), setting'.cap = setting.cap
  PROVE  /\ row' \in [Packs -> Row]
         /\ \A m \in Packs : m # n => row'[m] = row[m]
         /\ row'[n].age = row[n].age /\ row'[n].revived = row[n].revived
         /\ row[n].status = "pending" => row'[n].status = "failed"
         /\ row[n].status # "pending" => row'[n].status = row[n].status
         /\ OnePending' /\ CapHolds'
<1>1. /\ row' \in [Packs -> Row]
      /\ \A m \in Packs : m # n => row'[m] = row[m]
      /\ row'[n].age = row[n].age /\ row'[n].revived = row[n].revived
      /\ row[n].status = "pending" => row'[n].status = "failed"
      /\ row[n].status # "pending" => row'[n].status = row[n].status
  BY RowFields DEF Failed, Types, Row
<1>2. Pending' \subseteq Pending /\ PaidPacks' = PaidPacks
  BY <1>1 DEF Pending, PaidPacks, Having
<1>3. Revived' = Revived
  BY <1>1 DEF Revived
<1>4. Cardinality(Pending' \cup PaidPacks') <= Cardinality(Pending \cup PaidPacks)
  BY <1>2, SetsFinite, FS_Subset
<1>5. Cardinality(Pending' \cup PaidPacks') \in Nat
  BY <1>2, SetsFinite, FS_Subset, FS_CardinalityType
<1>6. Cardinality(Pending \cup PaidPacks) <= setting.cap + Cardinality(Revived)
  BY DEF CapHolds, Revived
<1>7. Cardinality(Pending' \cup PaidPacks') <= setting'.cap + Cardinality(Revived')
  BY <1>3, <1>4, <1>5, <1>6, SetsFinite, CapIsNat
<1>8. CapHolds'
  BY <1>7 DEF CapHolds, Revived
<1> QED BY <1>1, <1>2, <1>8 DEF OnePending

(* A pack that is paid after it failed is counted apart.                   *)
LEMMA PaidRow ==
  ASSUME Types, OnePending, CapHolds, NEW n \in Packs, PackOK(n), row' = Paid(n),
         row[n].status # "none", setting'.cap = setting.cap
  PROVE  /\ row' \in [Packs -> Row]
         /\ \A m \in Packs : m # n => row'[m] = row[m]
         /\ row'[n].age = row[n].age /\ row'[n].status = "paid"
         /\ OnePending' /\ CapHolds'
<1>1. /\ row' \in [Packs -> Row]
      /\ \A m \in Packs : m # n => row'[m] = row[m]
      /\ row'[n].age = row[n].age /\ row'[n].status = "paid"
  <2>1. CASE row[n].status = "pending"
    <3> DEFINE r == [row[n] EXCEPT !.status = "paid", !.recent = TRUE, !.revived = FALSE]
    <3>1. row' = [row EXCEPT ![n] = r]
      BY <2>1 DEF Paid
    <3>2. r \in Row /\ r.age = row[n].age /\ r.status = "paid"
      BY RowFields DEF Row
    <3> QED BY <3>1, <3>2 DEF Types
  <2>2. CASE row[n].status = "failed"
    <3> DEFINE r == [row[n] EXCEPT !.status = "paid", !.recent = TRUE, !.revived = TRUE]
    <3>1. row' = [row EXCEPT ![n] = r]
      BY <2>2 DEF Paid
    <3>2. r \in Row /\ r.age = row[n].age /\ r.status = "paid"
      BY RowFields DEF Row
    <3> QED BY <3>1, <3>2 DEF Types
  <2>3. CASE row[n].status = "paid"
    BY <2>3, RowFields DEF Paid, Types
  <2> QED BY <2>1, <2>2, <2>3, RowFields
<1>2. Pending' = Pending \ {n} /\ PaidPacks' = PaidPacks \cup {n}
  BY <1>1 DEF Pending, PaidPacks, Having
<1>3. OnePending'
  BY <1>2 DEF OnePending
<1>4. CASE row[n].status \in {"pending", "paid"}
  <2>1. Pending' \cup PaidPacks' = Pending \cup PaidPacks
    BY <1>2, <1>4 DEF Pending, PaidPacks, Having
  <2>2. row'[n].revived = row[n].revived
    BY <1>4, RowFields DEF Paid, PackOK, Types, Row
  <2>3. Revived' = Revived
    BY <1>1, <2>2 DEF Revived
  <2> QED BY <1>1, <1>3, <2>1, <2>3, SetsFinite, CapIsNat DEF CapHolds, Revived
<1>5. CASE row[n].status = "failed"
  <2>1. n \notin Pending \cup PaidPacks
    BY <1>5 DEF Pending, PaidPacks, Having
  <2>2. Pending' \cup PaidPacks' = (Pending \cup PaidPacks) \cup {n}
    BY <1>2, <2>1
  <2>3. Cardinality(Pending' \cup PaidPacks') = Cardinality(Pending \cup PaidPacks) + 1
    BY <2>1, <2>2, SetsFinite, FS_AddElement
  <2>4. n \notin Revived
    BY <1>5 DEF Revived, PackOK
  <2>5. row'[n].revived
    BY <1>5, RowFields DEF Paid, Types, Row
  <2>6. Revived' = Revived \cup {n}
    BY <1>1, <2>5 DEF Revived
  <2>7. Cardinality(Revived') = Cardinality(Revived) + 1
    BY <2>4, <2>6, SetsFinite, FS_AddElement
  <2>8. CapHolds'
    BY <2>3, <2>7, SetsFinite, CapIsNat DEF CapHolds, Revived
  <2> QED BY <1>1, <1>3, <2>8
<1> QED BY <1>4, <1>5, RowFields

-----------------------------------------------------------------------------
(* How a step's parts make the invariant.                                  *)

(* A step of one sweep.                                                    *)
LEMMA BySweep ==
  ASSUME IInv, Types', Mono, OnePending', CapHolds', NEW d \in Sweeps, JobOK(d)',
         \A e \in Sweeps : e # d => job'[e] = job[e], \A n \in Packs : PackOK(n)'
  PROVE  IInv'
<1>1. ASSUME NEW e \in Sweeps PROVE JobOK(e)'
  <2>1. CASE e = d
    BY <2>1
  <2>2. CASE e # d
    BY <2>2, OtherJob DEF IInv
  <2> QED BY <2>1, <2>2
<1> QED BY <1>1 DEF IInv

(* A step that leaves the sweeps alone.                                    *)
LEMMA ByOthers ==
  ASSUME IInv, Types', Mono, OnePending', CapHolds', job' = job, \A n \in Packs : PackOK(n)'
  PROVE  IInv'
<1>1. ASSUME NEW e \in Sweeps PROVE JobOK(e)'
  BY OtherJob DEF IInv
<1> QED BY <1>1 DEF IInv

(* A step that leaves the relevant fields of a pack alone.                 *)
LEMMA PackKept ==
  ASSUME NEW n \in Packs, PackOK(n), row'[n].status = row[n].status,
         row'[n].revived = row[n].revived, row[n].status = "none" => row'[n].age = row[n].age,
         inv'[n] = inv[n], hook'[n].paid = hook[n].paid, n \in credited' <=> n \in credited
  PROVE  PackOK(n)'
BY DEF PackOK

(* A step that only moves its sweep.                                       *)
LEMMA Quiet ==
  ASSUME IInv, row' = row, setting' = setting, credited' = credited, inv' = inv, hook' = hook,
         faults' \in Nat, job' \in [Sweeps -> Job], NEW d \in Sweeps, JobOK(d)',
         \A e \in Sweeps : e # d => job'[e] = job[e]
  PROVE  IInv'
<1>1. Types'
  BY DEF IInv, Types
<1>2. Mono
  BY DEF Mono
<1>3. OnePending' /\ CapHolds'
  BY CountsKept DEF IInv, StatusKept
<1>4. \A n \in Packs : PackOK(n)'
  BY PackKept DEF IInv
<1> QED BY <1>1, <1>2, <1>3, <1>4, BySweep

(* A step that counts a fault, or not.                                     *)
LEMMA Faulty ==
  ASSUME Types, Fault \/ UNCHANGED faults
  PROVE  faults' \in Nat
BY DEF Types, Fault

-----------------------------------------------------------------------------
(* Each step keeps the invariant.                                          *)

(* The first state satisfies the invariant.                                *)
LEMMA InitInv ==
  ASSUME Init
  PROVE  IInv
<1>1. Types
  BY Bounds, IdleType DEF Init, Types, Row, Invoice, Hook
<1>2. Pending = {} /\ PaidPacks = {} /\ {n \in Packs : row[n].revived} = {}
  BY DEF Init, Pending, PaidPacks, Having
<1>3. OnePending /\ CapHolds
  <2>1. Cardinality(Pending \cup PaidPacks) = 0 /\ Cardinality({n \in Packs : row[n].revived}) = 0
    BY <1>2, FS_EmptySet
  <2> QED BY <1>1, <1>2, <2>1, CapIsNat DEF OnePending, CapHolds
<1>4. ASSUME NEW n \in Packs PROVE PackOK(n)
  BY DEF Init, PackOK
<1>5. ASSUME NEW d \in Sweeps PROVE JobOK(d)
  BY DEF Init, Idle, JobOK, Free
<1> QED BY <1>1, <1>3, <1>4, <1>5 DEF IInv

(* A sweep's reads and writes, one action each.                            *)
LEMMA ListExpiredInv ==
  ASSUME IInv, NEW d \in Sweeps, ListExpired(d)
  PROVE  IInv'
<1>1. Types /\ faults' \in Nat /\ row' = row /\ setting' = setting /\ credited' = credited
      /\ inv' = inv /\ hook' = hook
  BY DEF IInv, Types, ListExpired, Stripe
<1>2. CASE To(d, "redrive")
  BY <1>1, <1>2, Moves, FreeJob, Quiet DEF PCs
<1>3. ASSUME NEW n \in Overdue, NEW pc \in {"lookup", "give_up"}, Takes(d, n, "redrive", pc)
      PROVE  IInv'
  <2>1. n \in Packs /\ row[n].status = "pending"
    BY DEF Overdue, Pending, Having
  <2>2. /\ job' \in [Sweeps -> Job] /\ job'[d].pc = pc /\ job'[d].pack = n
        /\ \A e \in Sweeps : e # d => job'[e] = job[e]
    BY <1>1, <1>3, <2>1, TakesPack DEF PCs
  <2>3. JobOK(d)'
    BY <1>1, <2>1, <2>2 DEF JobOK, Free
  <2> QED BY <1>1, <2>2, <2>3, Quiet
<1> QED BY <1>2, <1>3 DEF ListExpired

LEMMA LookupInv ==
  ASSUME IInv, NEW d \in Sweeps, Lookup(d) \/ Check(d)
  PROVE  IInv'
<1>1. Types /\ faults' \in Nat /\ row' = row /\ setting' = setting /\ credited' = credited
      /\ inv' = inv /\ hook' = hook
  BY DEF IInv, Types, Lookup, Check, Stripe
<1>2. PICK pc \in {"credit", "void", "charge"} :
        To(d, pc) /\ (pc = "credit" => inv[job[d].pack].status = "paid")
  BY DEF Lookup, Check, IsInvoicePaid
<1>3. job[d].pack \in Packs /\ row[job[d].pack].status # "none"
  BY DEF IInv, JobOK, Lookup, Check, At, Free
<1>4. /\ job' \in [Sweeps -> Job] /\ job'[d].pc = pc /\ job'[d].pack = job[d].pack
      /\ \A e \in Sweeps : e # d => job'[e] = job[e]
  BY <1>1, <1>2, Moves DEF PCs
<1>5. JobOK(d)'
  BY <1>1, <1>2, <1>3, <1>4 DEF JobOK, Free
<1> QED BY <1>1, <1>4, <1>5, Quiet

LEMMA ReadSettingsInv ==
  ASSUME IInv, NEW d \in Sweeps, ReadSettings(d)
  PROVE  IInv'
<1>1. Types /\ faults' \in Nat /\ row' = row /\ setting' = setting /\ credited' = credited
      /\ inv' = inv /\ hook' = hook
  BY DEF IInv, Types, ReadSettings, Stripe
<1>2. CASE To(d, "idle")
  BY <1>1, <1>2, Moves, FreeJob, Quiet DEF PCs
<1>3. CASE job' = [job EXCEPT ![d] = [Idle EXCEPT !.pc = "usage", !.revision = Cardinality(PaidPacks)]]
  <2>1. PaidPacks \subseteq credited
    BY DEF IInv, PackOK, PaidPacks, Having
  <2>2. Cardinality(PaidPacks) \in Nat /\ Cardinality(PaidPacks) <= Cardinality(credited)
    BY <1>1, <2>1, CreditedFinite, FS_Subset, FS_CardinalityType
  <2> DEFINE j == [Idle EXCEPT !.pc = "usage", !.revision = Cardinality(PaidPacks)]
  <2>3. j \in Job /\ j.pc = "usage" /\ j.revision = Cardinality(PaidPacks)
    <3>1. j \in Job
      BY <2>2, IdleType DEF Job, PCs
    <3>2. j.pc = "usage" /\ j.revision = Cardinality(PaidPacks)
      BY DEF Idle
    <3> QED BY <3>1, <3>2
  <2>4. /\ job' \in [Sweeps -> Job] /\ job'[d] = j
        /\ \A e \in Sweeps : e # d => job'[e] = job[e]
    BY <1>1, <1>3, <2>3 DEF Types
  <2> HIDE DEF j
  <2>5. JobOK(d)'
    BY <1>1, <2>2, <2>3, <2>4 DEF JobOK, Free
  <2> QED BY <1>1, <2>4, <2>5, Quiet
<1> QED BY <1>2, <1>3 DEF ReadSettings

LEMMA ReadUsageInv ==
  ASSUME IInv, NEW d \in Sweeps, ReadUsage(d)
  PROVE  IInv'
<1>1. Types /\ faults' \in Nat /\ row' = row /\ setting' = setting /\ credited' = credited
      /\ inv' = inv /\ hook' = hook
  BY DEF IInv, Types, ReadUsage, Stripe
<1>2. CASE job' = [job EXCEPT ![d] = Idle]
  <2>1. /\ job' \in [Sweeps -> Job] /\ job'[d] = Idle
        /\ \A e \in Sweeps : e # d => job'[e] = job[e]
    BY <1>1, <1>2, IdleType DEF Types
  <2> QED BY <1>1, <2>1, FreeJob, Quiet DEF Idle
<1>3. CASE job' = [job EXCEPT ![d].pc = "claim", ![d].seen = Cardinality(credited)]
  <2>1. Cardinality(credited) \in Nat
    BY <1>1, CreditedFinite
  <2>2. /\ job' \in [Sweeps -> Job] /\ job'[d].pc = "claim" /\ job'[d].seen = Cardinality(credited)
        /\ job'[d].revision = job[d].revision
        /\ \A e \in Sweeps : e # d => job'[e] = job[e]
    BY <1>1, <1>3, <2>1, JobFields, ZenonT(40) DEF Types, Job, PCs
  <2>3. job[d].revision <= Cardinality(credited)
    BY DEF IInv, JobOK, ReadUsage, At
  <2>4. JobOK(d)'
    BY <1>1, <2>1, <2>2, <2>3, JobFields DEF JobOK, Free
  <2> QED BY <1>1, <2>2, <2>4, Quiet
<1> QED BY <1>2, <1>3 DEF ReadUsage

LEMMA FailsInv ==
  ASSUME IInv, NEW d \in Sweeps, Fails(d)
  PROVE  IInv'
<1>1. Types /\ faults' \in Nat /\ row' = row /\ setting' = setting /\ credited' = credited
      /\ inv' = inv /\ hook' = hook
  BY Faulty DEF IInv, Fails, Stripe
<1>2. CASE job' = [job EXCEPT ![d] = Idle]
  <2>1. /\ job' \in [Sweeps -> Job] /\ job'[d] = Idle
        /\ \A e \in Sweeps : e # d => job'[e] = job[e]
    BY <1>1, <1>2, IdleType DEF Types
  <2> QED BY <1>1, <2>1, FreeJob, Quiet DEF Idle
<1>3. CASE Done(d)
  BY <1>1, <1>3, Ends, FreeJob, Quiet
<1> QED BY <1>2, <1>3 DEF Fails

LEMMA VoidInv ==
  ASSUME IInv, NEW d \in Sweeps, Void(d)
  PROVE  IInv'
<1> DEFINE n == job[d].pack
<1>1. Types /\ row' = row /\ setting' = setting /\ credited' = credited /\ hook' = hook
      /\ faults' = faults
  BY DEF IInv, Void
<1>2. n \in Packs /\ row[n].status # "none"
  BY DEF IInv, JobOK, Void, At, Free
<1>3. PICK pc \in {"give_up", "decline"} : To(d, pc)
  BY DEF Void
<1>4. /\ job' \in [Sweeps -> Job] /\ job'[d].pc = pc /\ job'[d].pack = n
      /\ \A e \in Sweeps : e # d => job'[e] = job[e]
  BY <1>1, <1>3, Moves DEF PCs
<1>5. /\ inv' \in [Packs -> Invoice]
      /\ \A m \in Packs : inv'[m].made = inv[m].made /\ inv'[m].pay = inv[m].pay
      /\ \A m \in Packs : inv'[m].status = inv[m].status
                          \/ (inv[m].status = "open" /\ inv'[m].status = "void")
  <2>1. CASE inv' = inv
    BY <1>1, <2>1 DEF Types
  <2>2. CASE inv' = [inv EXCEPT ![n].status = "void"] /\ inv[n].status = "open"
    BY <1>1, <1>2, <2>2, InvFields DEF Types, Invoice
  <2> QED BY <2>1, <2>2 DEF Void, Voided
<1>6. Types'
  BY <1>1, <1>4, <1>5 DEF Types
<1>7. Mono
  BY <1>1, <1>5 DEF Mono
<1>8. OnePending' /\ CapHolds'
  BY <1>1, CountsKept DEF IInv, StatusKept
<1>9. JobOK(d)'
  BY <1>1, <1>2, <1>4 DEF JobOK, Free
<1>10. ASSUME NEW m \in Packs PROVE PackOK(m)'
  <2>1. PackOK(m)
    BY DEF IInv
  <2>2. inv[m].made = 0 => inv'[m].status = inv[m].status
    BY <1>5, <2>1 DEF PackOK
  <2> QED BY <1>1, <1>5, <2>1, <2>2 DEF PackOK
<1> QED BY <1>4, <1>6, <1>7, <1>8, <1>9, <1>10, BySweep

(* A pack that fails, at whatever place the sweep goes on from.            *)
LEMMA FailedInv ==
  ASSUME IInv, NEW d \in Sweeps, NEW n \in Packs, row' = Failed(n), row[n].status # "none",
         setting' = setting, credited' = credited, inv' = inv, hook' = hook, faults' = faults,
         job' \in [Sweeps -> Job], \A e \in Sweeps : e # d => job'[e] = job[e], JobOK(d)'
  PROVE  IInv'
<1>1. Types /\ OnePending /\ CapHolds
  BY DEF IInv
<1>2. /\ row' \in [Packs -> Row]
      /\ \A m \in Packs : m # n => row'[m] = row[m]
      /\ row'[n].age = row[n].age /\ row'[n].revived = row[n].revived
      /\ row[n].status = "pending" => row'[n].status = "failed"
      /\ row[n].status # "pending" => row'[n].status = row[n].status
      /\ OnePending' /\ CapHolds'
  BY <1>1, FailedRow
<1>3. Types'
  BY <1>1, <1>2 DEF Types
<1>4. Mono
  BY <1>2 DEF Mono
<1>5. ASSUME NEW m \in Packs PROVE PackOK(m)'
  <2>1. PackOK(m)
    BY DEF IInv
  <2>2. CASE m # n
    BY <1>2, <2>1, <2>2, PackKept
  <2>3. CASE m = n
    BY <1>2, <2>1, <2>3 DEF PackOK
  <2> QED BY <2>2, <2>3
<1> QED BY <1>2, <1>3, <1>4, <1>5, BySweep

LEMMA GiveUpInv ==
  ASSUME IInv, NEW d \in Sweeps, GiveUp(d)
  PROVE  IInv'
<1>1. job[d].pack \in Packs /\ row[job[d].pack].status # "none"
  BY DEF IInv, JobOK, GiveUp, At, Free
<1>2. /\ job' \in [Sweeps -> Job] /\ job'[d].pc \in {"idle", "redrive", "sweep"}
      /\ \A e \in Sweeps : e # d => job'[e] = job[e]
  BY Ends DEF IInv, GiveUp
<1> QED BY <1>1, <1>2, FreeJob, FailedInv DEF GiveUp, Stripe

LEMMA DeclineInv ==
  ASSUME IInv, NEW d \in Sweeps, Decline(d)
  PROVE  IInv'
<1> DEFINE n == job[d].pack
<1>1. n \in Packs /\ row[n].status # "none"
  BY DEF IInv, JobOK, Decline, At, Free
<1>2. CASE Done(d)
  <2>1. /\ job' \in [Sweeps -> Job] /\ job'[d].pc \in {"idle", "redrive", "sweep"}
        /\ \A e \in Sweeps : e # d => job'[e] = job[e]
    BY <1>2, Ends DEF IInv
  <2> QED BY <1>1, <2>1, FreeJob, FailedInv DEF Decline, Stripe
<1>3. CASE To(d, "disable")
  <2>1. /\ job' \in [Sweeps -> Job] /\ job'[d].pc = "disable" /\ job'[d].pack = n
        /\ \A e \in Sweeps : e # d => job'[e] = job[e]
    BY <1>3, Moves DEF IInv, PCs
  <2>2. row'[n].status # "none"
    BY <1>1, FailedRow DEF IInv, Decline
  <2>3. JobOK(d)'
    BY <1>1, <2>1, <2>2 DEF JobOK, Free
  <2> QED BY <1>1, <2>1, <2>3, FailedInv DEF Decline, Stripe
<1> QED BY <1>2, <1>3 DEF Decline

LEMMA DisableInv ==
  ASSUME IInv, NEW d \in Sweeps, Disable(d)
  PROVE  IInv'
<1>1. Types /\ row' = row /\ credited' = credited /\ inv' = inv /\ hook' = hook /\ faults' = faults
      /\ setting' = [setting EXCEPT !.on = FALSE]
  BY DEF IInv, Disable, Stripe
<1>2. /\ job' \in [Sweeps -> Job] /\ job'[d].pc \in {"idle", "redrive", "sweep"}
      /\ \A e \in Sweeps : e # d => job'[e] = job[e]
  BY Ends DEF IInv, Disable
<1>3. setting' \in [on : BOOLEAN, cap : Caps] /\ setting'.cap = setting.cap
  BY <1>1 DEF Types
<1>4. Types'
  BY <1>1, <1>2, <1>3 DEF Types
<1>5. Mono
  BY <1>1 DEF Mono
<1>6. OnePending' /\ CapHolds'
  BY <1>1, <1>3, CountsKept DEF IInv, StatusKept
<1>7. \A n \in Packs : PackOK(n)'
  BY <1>1, PackKept DEF IInv
<1> QED BY <1>2, <1>4, <1>5, <1>6, <1>7, FreeJob, BySweep

(* A step that changes a row's lease, age or invoice and no status.        *)
LEMMA RowTouched ==
  ASSUME IInv, row' \in [Packs -> Row], StatusKept,
         \A n \in Packs : row'[n].age = row[n].age,
         setting' = setting, credited' = credited, inv' = inv, hook' = hook,
         faults' \in Nat, job' \in [Sweeps -> Job], NEW d \in Sweeps, JobOK(d)',
         \A e \in Sweeps : e # d => job'[e] = job[e]
  PROVE  IInv'
<1>1. Types'
  BY DEF IInv, Types
<1>2. Mono
  BY DEF Mono, StatusKept
<1>3. OnePending' /\ CapHolds'
  BY CountsKept DEF IInv
<1>4. \A n \in Packs : PackOK(n)'
  BY PackKept DEF IInv, StatusKept
<1> QED BY <1>1, <1>2, <1>3, <1>4, BySweep

LEMMA RedriveInv ==
  ASSUME IInv, NEW d \in Sweeps, Redrive(d)
  PROVE  IInv'
<1>1. Types /\ faults' \in Nat /\ setting' = setting /\ credited' = credited
      /\ inv' = inv /\ hook' = hook
  BY DEF IInv, Types, Redrive, Stripe
<1>2. CASE To(d, "sweep") /\ row' = row
  BY <1>1, <1>2, Moves, FreeJob, Quiet DEF PCs
<1>3. ASSUME NEW n \in Stale, row' = [row EXCEPT ![n].recent = TRUE]
      PROVE  /\ n \in Packs /\ row[n].status = "pending" /\ row[n].age = "young"
             /\ row' \in [Packs -> Row] /\ StatusKept
             /\ \A m \in Packs : row'[m].age = row[m].age
  <2>1. n \in Packs /\ row[n].status = "pending" /\ row[n].age = "young"
    BY DEF Stale, Pending, Having
  <2> QED BY <1>1, <1>3, <2>1, RowFields DEF Types, Row, StatusKept
<1>4. ASSUME NEW n \in Stale, row' = [row EXCEPT ![n].recent = TRUE], To(d, "sweep")
      PROVE  IInv'
  BY <1>1, <1>3, <1>4, Moves, FreeJob, RowTouched DEF PCs
<1>5. ASSUME NEW n \in Stale, row' = [row EXCEPT ![n].recent = TRUE],
             NEW pc \in {"check", "create"}, Takes(d, n, "sweep", pc)
      PROVE  IInv'
  <2>1. /\ n \in Packs /\ row[n].status = "pending" /\ row[n].age = "young"
        /\ row' \in [Packs -> Row] /\ StatusKept
        /\ \A m \in Packs : row'[m].age = row[m].age
    BY <1>3, <1>5
  <2>2. pc \in PCs
    BY DEF PCs
  <2>3. /\ job' \in [Sweeps -> Job] /\ job'[d].pc = pc /\ job'[d].pack = n
        /\ \A e \in Sweeps : e # d => job'[e] = job[e]
    BY <1>1, <1>5, <2>1, <2>2, TakesPack
  <2>4. JobOK(d)'
    BY <2>1, <2>3 DEF JobOK, Free, StatusKept
  <2> QED BY <1>1, <2>1, <2>3, <2>4, RowTouched
<1> QED BY <1>2, <1>4, <1>5 DEF Redrive

LEMMA RecordInv ==
  ASSUME IInv, NEW d \in Sweeps, Record(d)
  PROVE  IInv'
<1> DEFINE n == job[d].pack
<1>1. Types /\ faults' \in Nat /\ setting' = setting /\ credited' = credited
      /\ inv' = inv /\ hook' = hook
  BY DEF IInv, Types, Record, Stripe
<1>2. n \in Packs /\ row[n].status # "none"
  BY DEF IInv, JobOK, Record, At, Free
<1>3. /\ row' \in [Packs -> Row] /\ StatusKept
      /\ \A m \in Packs : row'[m].age = row[m].age
  BY <1>1, <1>2, RowFields, ZenonT(40) DEF Record, Types, Row, StatusKept
<1>4. /\ job' \in [Sweeps -> Job] /\ job'[d].pc = "charge" /\ job'[d].pack = n
      /\ \A e \in Sweeps : e # d => job'[e] = job[e]
  BY <1>1, Moves DEF Record, PCs
<1>5. JobOK(d)'
  BY <1>2, <1>3, <1>4 DEF JobOK, Free, StatusKept
<1> QED BY <1>1, <1>3, <1>4, <1>5, RowTouched

LEMMA ClaimInv ==
  ASSUME IInv, NEW d \in Sweeps, ClaimPending(d)
  PROVE  IInv'
<1>1. Types /\ faults' \in Nat /\ setting' = setting /\ credited' = credited
      /\ inv' = inv /\ hook' = hook
  BY DEF IInv, Types, ClaimPending, Stripe
<1>2. CASE job' = [job EXCEPT ![d] = Idle] /\ row' = row
  <2>1. /\ job' \in [Sweeps -> Job] /\ job'[d] = Idle
        /\ \A e \in Sweeps : e # d => job'[e] = job[e]
    BY <1>1, <1>2, IdleType DEF Types
  <2> QED BY <1>1, <1>2, <2>1, FreeJob, Quiet DEF Idle
<1>3. ASSUME NEW n \in Having("none"), Claimable(d), Takes(d, n, "idle", "create"),
             row' = [row EXCEPT ![n].status = "pending", ![n].recent = TRUE]
      PROVE  IInv'
  <2>1. n \in Packs /\ row[n].status = "none"
    BY DEF Having
  <2>2. /\ row' \in [Packs -> Row] /\ row'[n].status = "pending"
        /\ row'[n].age = row[n].age /\ row'[n].revived = row[n].revived
        /\ \A m \in Packs : m # n => row'[m] = row[m]
    BY <1>1, <1>3, <2>1, RowFields DEF Types, Row
  <2>3. /\ job' \in [Sweeps -> Job] /\ job'[d].pc = "create" /\ job'[d].pack = n
        /\ \A e \in Sweeps : e # d => job'[e] = job[e]
    BY <1>1, <1>3, <2>1, TakesPack DEF PCs
  <2>4. PackOK(n) /\ row[n].age = "young"
    BY <2>1 DEF IInv, PackOK
  <2>5. Types'
    BY <1>1, <2>2, <2>3 DEF Types
  <2>6. Mono
    BY <1>1, <2>1, <2>2 DEF Mono
  <2>7. JobOK(d)'
    BY <2>1, <2>2, <2>3, <2>4 DEF JobOK, Free
  <2>8. Pending' = {n} /\ PaidPacks' = PaidPacks
    BY <1>3, <2>1, <2>2 DEF Claimable, Pending, PaidPacks, Having
  <2>9. Revived' = Revived
    BY <2>1, <2>2 DEF Revived
  <2>10. Pending' \cup PaidPacks' = (Pending \cup PaidPacks) \cup {n} /\ n \notin Pending \cup PaidPacks
    BY <1>3, <2>1, <2>8 DEF Claimable, Pending, PaidPacks, Having
  <2>11. Cardinality(Pending' \cup PaidPacks') = Cardinality(Pending \cup PaidPacks) + 1
    BY <2>10, SetsFinite, FS_AddElement
  <2>12. Cardinality(Pending \cup PaidPacks) < setting.cap
    BY <1>3 DEF Claimable
  <2>13. Cardinality(Pending' \cup PaidPacks') <= setting'.cap + Cardinality(Revived')
    BY <1>1, <2>9, <2>11, <2>12, SetsFinite, CapIsNat
  <2>14. OnePending' /\ CapHolds'
    BY <2>8, <2>13 DEF OnePending, CapHolds, Revived
  <2>15. ASSUME NEW m \in Packs PROVE PackOK(m)'
    <3>1. PackOK(m)
      BY DEF IInv
    <3>2. CASE m = n
      BY <1>1, <2>1, <2>2, <3>1, <3>2 DEF PackOK
    <3>3. CASE m # n
      BY <1>1, <2>2, <3>1, <3>3, PackKept
    <3> QED BY <3>2, <3>3
  <2> QED BY <2>3, <2>5, <2>6, <2>7, <2>14, <2>15, BySweep
<1> QED BY <1>2, <1>3 DEF ClaimPending

(* A step of a sweep or of Stripe on one pack's invoice and its events.    *)
InvoiceStep(n) ==
  /\ row' = row /\ setting' = setting /\ credited' = credited /\ faults' \in Nat
  /\ inv' \in [Packs -> Invoice] /\ hook' \in [Packs -> Hook]
  /\ \A m \in Packs : m # n => inv'[m] = inv[m] /\ hook'[m] = hook[m]
  /\ inv[n].status = "paid" => inv'[n].status = "paid"

(* A step that changes one pack's invoice.                                 *)
LEMMA InvoiceFrame ==
  ASSUME IInv, NEW n \in Packs, InvoiceStep(n), PackOK(n)'
  PROVE  /\ Mono /\ OnePending' /\ CapHolds'
         /\ \A m \in Packs : PackOK(m)'
         /\ job' \in [Sweeps -> Job] => Types'
<1>1. Mono
  BY DEF Mono, InvoiceStep
<1>2. OnePending' /\ CapHolds'
  BY CountsKept DEF IInv, StatusKept, InvoiceStep
<1>3. ASSUME NEW m \in Packs PROVE PackOK(m)'
  <2>1. CASE m = n
    BY <2>1
  <2>2. CASE m # n
    BY <2>2, PackKept DEF IInv, InvoiceStep
  <2> QED BY <2>1, <2>2
<1>4. job' \in [Sweeps -> Job] => Types'
  BY DEF IInv, Types, InvoiceStep
<1> QED BY <1>1, <1>2, <1>3, <1>4

(* The same, by a sweep.                                                   *)
LEMMA InvoiceBySweep ==
  ASSUME IInv, NEW n \in Packs, InvoiceStep(n), PackOK(n)', job' \in [Sweeps -> Job],
         NEW d \in Sweeps, JobOK(d)', \A e \in Sweeps : e # d => job'[e] = job[e]
  PROVE  IInv'
BY InvoiceFrame, BySweep

(* A sweep that is done with its pack or goes on to a place that asks for  *)
(* nothing but the pack.                                                   *)
LEMMA GoesOn ==
  ASSUME IInv, NEW d \in Sweeps, job[d].pc \notin Free, row' = row,
         NEW pc \in {"record", "decline", "charge", "revoke", "give_up", "void"}, Done(d) \/ To(d, pc)
  PROVE  /\ job' \in [Sweeps -> Job] /\ JobOK(d)'
         /\ \A e \in Sweeps : e # d => job'[e] = job[e]
<1>1. CASE Done(d)
  BY <1>1, Ends, FreeJob DEF IInv
<1>2. CASE To(d, pc)
  <2>1. /\ job' \in [Sweeps -> Job] /\ job'[d].pc = pc /\ job'[d].pack = job[d].pack
        /\ \A e \in Sweeps : e # d => job'[e] = job[e]
    BY <1>2, Moves DEF IInv, PCs
  <2>2. job[d].pack \in Packs /\ row[job[d].pack].status # "none"
    BY DEF IInv, JobOK
  <2>3. JobOK(d)'
    BY <2>1, <2>2 DEF JobOK, Free
  <2> QED BY <2>1, <2>3
<1> QED BY <1>1, <1>2

LEMMA CreateInv ==
  ASSUME IInv, NEW d \in Sweeps, Create(d)
  PROVE  IInv'
<1>0. PICK n : n = job[d].pack
  OBVIOUS
<1>1. Types /\ row' = row /\ setting' = setting /\ credited' = credited /\ hook' = hook
      /\ faults' \in Nat
  BY Faulty DEF IInv, Create
<1>2. n \in Packs /\ row[n].status # "none" /\ row[n].age # "old" /\ job[d].pc \notin Free
  BY <1>0 DEF IInv, JobOK, Create, At, Free
<1>3. PackOK(n)
  BY <1>2 DEF IInv
<1>4. inv' \in {inv, Made(n)}
  BY <1>0 DEF Create
<1>5. inv' = inv \/ (inv[n].made = 0 /\ inv' = [inv EXCEPT ![n] = [made |-> inv[n].made + 1, status |-> "draft", pay |-> "no"]])
  BY <1>1, <1>2, <1>4, InvFields DEF Made, Types
<1>6. InvoiceStep(n) /\ PackOK(n)'
  <2>1. CASE inv' = inv
    BY <1>1, <1>3, <2>1 DEF InvoiceStep, PackOK, Types
  <2>2. CASE inv[n].made = 0 /\ inv' = [inv EXCEPT ![n] = [made |-> inv[n].made + 1, status |-> "draft", pay |-> "no"]]
    <3>1. [made |-> inv[n].made + 1, status |-> "draft", pay |-> "no"] \in Invoice
      BY <2>2 DEF Invoice
    <3>2. inv'[n] = [made |-> 1, status |-> "draft", pay |-> "no"] /\ inv' \in [Packs -> Invoice]
          /\ \A m \in Packs : m # n => inv'[m] = inv[m]
      BY <1>1, <1>2, <2>2, <3>1 DEF Types
    <3>3. inv[n].status = "none"
      BY <1>3, <2>2 DEF PackOK
    <3>4. InvoiceStep(n)
      BY <1>1, <3>2, <3>3 DEF InvoiceStep, Types
    <3>5. PackOK(n)'
      BY <1>1, <1>2, <1>3, <3>2, <3>3 DEF PackOK
    <3> QED BY <3>4, <3>5
  <2> QED BY <1>5, <2>1, <2>2
<1>7. \E pc \in {"record", "decline"} : Done(d) \/ To(d, pc)
  BY DEF Create
<1>8. /\ job' \in [Sweeps -> Job] /\ JobOK(d)'
      /\ \A e \in Sweeps : e # d => job'[e] = job[e]
  BY <1>1, <1>2, <1>7, GoesOn
<1> QED BY <1>2, <1>6, <1>8, InvoiceBySweep

(* A pack whose invoice gets paid.                                         *)
LEMMA SettledStep ==
  ASSUME IInv, NEW n \in Packs, NEW pay \in {"no", "paid", "declined"},
         inv[n].status \in {"draft", "open"},
         inv' = Settled(n, pay), hook' = PaidSent(n),
         row' = row, setting' = setting, credited' = credited, faults' \in Nat
  PROVE  InvoiceStep(n) /\ PackOK(n)' /\ inv'[n].status = "paid"
<1>1. Types /\ PackOK(n)
  BY DEF IInv
<1>2. /\ inv' \in [Packs -> Invoice] /\ inv'[n].status = "paid" /\ inv'[n].made = inv[n].made
      /\ \A m \in Packs : m # n => inv'[m] = inv[m]
  BY <1>1, InvFields DEF Settled, Types, Invoice
<1>3. hook[n].paid = "none"
  BY <1>1 DEF PackOK
<1>4. /\ hook' \in [Packs -> Hook] /\ hook'[n].paid = "sent"
      /\ \A m \in Packs : m # n => hook'[m] = hook[m]
  BY <1>1, <1>3, HookFields DEF PaidSent, Types, Hook
<1>5. row[n].status # "none" /\ inv[n].made # 0
  BY <1>1 DEF PackOK
<1>6. PackOK(n)'
  BY <1>1, <1>2, <1>4, <1>5 DEF PackOK
<1> QED BY <1>2, <1>4, <1>6 DEF InvoiceStep

(* A pack whose invoice is finalized or refused: it was not paid and is    *)
(* not paid now.                                                           *)
LEMMA UnpaidStep ==
  ASSUME IInv, NEW n \in Packs, inv[n].status \in {"draft", "open"},
         inv' \in {Refused(n), Finalized(n)}, hook' \in {hook, FailedSent(n)},
         row' = row, setting' = setting, credited' = credited, faults' \in Nat
  PROVE  InvoiceStep(n) /\ PackOK(n)'
<1>1. Types /\ PackOK(n)
  BY DEF IInv
<1>2. /\ inv' \in [Packs -> Invoice] /\ inv'[n].status = "open" /\ inv'[n].made = inv[n].made
      /\ inv'[n].pay \in {inv[n].pay, "declined"}
      /\ \A m \in Packs : m # n => inv'[m] = inv[m]
  <2>1. CASE inv' = Refused(n)
    BY <1>1, <2>1, InvFields DEF Refused, Types, Invoice
  <2>2. CASE inv' = Finalized(n)
    BY <1>1, <2>2, InvFields DEF Finalized, Types, Invoice
  <2> QED BY <2>1, <2>2
<1>3. /\ hook' \in [Packs -> Hook] /\ hook'[n].paid = hook[n].paid
      /\ \A m \in Packs : m # n => hook'[m] = hook[m]
  <2>1. CASE hook' = hook
    BY <1>1, <2>1 DEF Types
  <2>2. CASE hook' = FailedSent(n)
    BY <1>1, <2>2, HookFields DEF FailedSent, Types, Hook
  <2> QED BY <2>1, <2>2
<1>4. inv[n].made # 0
  BY <1>1 DEF PackOK
<1>5. PackOK(n)'
  BY <1>1, <1>2, <1>3, <1>4 DEF PackOK
<1> QED BY <1>2, <1>3, <1>5 DEF InvoiceStep

LEMMA ChargeInv ==
  ASSUME IInv, NEW d \in Sweeps, Charge(d)
  PROVE  IInv'
<1>0. PICK n : n = job[d].pack
  OBVIOUS
<1>1. Types /\ row' = row /\ setting' = setting /\ credited' = credited /\ faults' \in Nat
  BY Faulty DEF IInv, Charge
<1>2. n \in Packs /\ row[n].status # "none" /\ job[d].pc \notin Free
  BY <1>0 DEF IInv, JobOK, Charge, At, Free
<1>3. PackOK(n)
  BY <1>2 DEF IInv
<1>4. ASSUME InvoiceStep(n), PackOK(n)', NEW pc \in {"charge", "revoke"}, Done(d) \/ To(d, pc)
      PROVE  IInv'
  <2>1. /\ job' \in [Sweeps -> Job] /\ JobOK(d)'
        /\ \A e \in Sweeps : e # d => job'[e] = job[e]
    BY <1>1, <1>2, <1>4, GoesOn
  <2> QED BY <1>2, <1>4, <2>1, InvoiceBySweep
<1>5. ASSUME InvoiceStep(n), PackOK(n)', inv'[n].status = "paid", Done(d) \/ To(d, "credit")
      PROVE  IInv'
  <2>1. CASE Done(d)
    BY <1>4, <1>5, <2>1
  <2>2. CASE To(d, "credit")
    <3>1. /\ job' \in [Sweeps -> Job] /\ job'[d].pc = "credit" /\ job'[d].pack = n
          /\ \A e \in Sweeps : e # d => job'[e] = job[e]
      BY <1>0, <1>1, <2>2, Moves DEF PCs
    <3>2. JobOK(d)'
      BY <1>1, <1>2, <1>5, <3>1 DEF JobOK, Free
    <3> QED BY <1>2, <1>5, <3>1, <3>2, InvoiceBySweep
  <2> QED BY <1>5, <2>1, <2>2
<1>6. ASSUME inv' = inv, hook' = hook PROVE InvoiceStep(n) /\ PackOK(n)'
  BY <1>1, <1>3, <1>6 DEF InvoiceStep, PackOK, Types
<1>7. CASE inv' \in {inv, Finalized(n)} /\ hook' = hook /\ Done(d)
  <2>1. CASE inv' = inv
    BY <1>4, <1>6, <1>7, <2>1
  <2>2. CASE inv' # inv
    <3>1. inv[n].status = "draft" /\ inv' = Finalized(n)
      BY <1>7, <2>2 DEF Finalized
    <3> QED BY <1>1, <1>2, <1>4, <1>7, <3>1, UnpaidStep
  <2> QED BY <2>1, <2>2
<1>8. CASE inv[n].pay = "paid" /\ Stripe /\ (Done(d) \/ To(d, "credit"))
  BY <1>3, <1>5, <1>6, <1>8 DEF PackOK, Stripe
<1>9. CASE Stripe /\ (Done(d) \/ To(d, "revoke"))
  BY <1>4, <1>6, <1>9 DEF Stripe
<1>10. CASE /\ inv[n].pay = "no" /\ inv[n].status \in {"draft", "open"}
            /\ inv' = Settled(n, "paid") /\ hook' = PaidSent(n) /\ (Done(d) \/ To(d, "credit"))
  BY <1>1, <1>2, <1>5, <1>10, SettledStep
<1>11. CASE /\ inv[n].pay = "no" /\ inv[n].status \in {"draft", "open"}
            /\ inv' = Refused(n) /\ hook' = FailedSent(n) /\ (Done(d) \/ To(d, "revoke"))
  BY <1>1, <1>2, <1>4, <1>11, UnpaidStep
<1> QED BY <1>0, <1>7, <1>8, <1>9, <1>10, <1>11 DEF Charge

LEMMA CreditInv ==
  ASSUME IInv, NEW d \in Sweeps, Credit(d)
  PROVE  IInv'
<1>0. PICK n : n = job[d].pack
  OBVIOUS
<1>1. Types /\ row' = row /\ setting' = setting /\ inv' = inv /\ hook' = hook /\ faults' = faults
      /\ credited' = credited \cup {n}
  BY <1>0 DEF IInv, Credit, Stripe
<1>2. n \in Packs /\ row[n].status # "none" /\ inv[n].status = "paid"
  BY <1>0 DEF IInv, JobOK, Credit, At, Free
<1>3. /\ job' \in [Sweeps -> Job] /\ job'[d].pc = "mark" /\ job'[d].pack = n
      /\ \A e \in Sweeps : e # d => job'[e] = job[e]
  BY <1>0, <1>1, Moves DEF Credit, PCs
<1>4. Types'
  BY <1>1, <1>2, <1>3 DEF Types
<1>5. Mono
  BY <1>1 DEF Mono
<1>6. OnePending' /\ CapHolds'
  BY <1>1, CountsKept DEF IInv, StatusKept
<1>7. JobOK(d)'
  BY <1>1, <1>2, <1>3 DEF JobOK, Free
<1>8. ASSUME NEW m \in Packs PROVE PackOK(m)'
  <2>1. PackOK(m)
    BY DEF IInv
  <2> QED BY <1>1, <1>2, <2>1 DEF PackOK
<1> QED BY <1>3, <1>4, <1>5, <1>6, <1>7, <1>8, BySweep

(* A pack that is marked paid, by a sweep or by the webhook.               *)
LEMMA PaidStep ==
  ASSUME IInv, NEW n \in Packs, n \in credited, row' = Paid(n),
         setting' = setting, credited' = credited, inv' = inv, faults' = faults,
         job' \in [Sweeps -> Job], hook' \in [Packs -> Hook],
         \A m \in Packs : m # n => hook'[m] = hook[m],
         hook'[n].paid = hook[n].paid \/ (hook[n].paid = "mark" /\ hook'[n].paid = "done")
  PROVE  /\ Types' /\ Mono /\ OnePending' /\ CapHolds'
         /\ \A m \in Packs : PackOK(m)'
<1>1. Types /\ OnePending /\ CapHolds /\ PackOK(n)
  BY DEF IInv
<1>2. row[n].status # "none"
  <2>1. inv[n].made # 0
    BY <1>1 DEF PackOK
  <2> QED BY <1>1, <2>1 DEF PackOK
<1>3. /\ row' \in [Packs -> Row]
      /\ \A m \in Packs : m # n => row'[m] = row[m]
      /\ row'[n].age = row[n].age /\ row'[n].status = "paid"
      /\ OnePending' /\ CapHolds'
  BY <1>1, <1>2, PaidRow
<1>4. Types'
  BY <1>1, <1>3 DEF Types
<1>5. Mono
  BY <1>3 DEF Mono
<1>6. ASSUME NEW m \in Packs PROVE PackOK(m)'
  <2>1. PackOK(m)
    BY DEF IInv
  <2>2. CASE m # n
    BY <1>3, <2>1, <2>2, PackKept
  <2>3. CASE m = n
    BY <1>3, <2>1, <2>3 DEF PackOK
  <2> QED BY <2>2, <2>3
<1> QED BY <1>3, <1>4, <1>5, <1>6

LEMMA MarkPaidInv ==
  ASSUME IInv, NEW d \in Sweeps, MarkPaid(d)
  PROVE  IInv'
<1>0. PICK n : n = job[d].pack
  OBVIOUS
<1>1. n \in Packs /\ n \in credited
  BY <1>0 DEF IInv, JobOK, MarkPaid, At, Free
<1>2. /\ job' \in [Sweeps -> Job] /\ job'[d].pc \in {"idle", "redrive", "sweep"}
      /\ \A e \in Sweeps : e # d => job'[e] = job[e]
  BY Ends DEF IInv, MarkPaid
<1>3. /\ Types' /\ Mono /\ OnePending' /\ CapHolds'
      /\ \A m \in Packs : PackOK(m)'
  BY <1>0, <1>1, <1>2, PaidStep DEF MarkPaid, Stripe, IInv, Types
<1> QED BY <1>2, <1>3, FreeJob, BySweep

-----------------------------------------------------------------------------
(* The webhooks, the customer, the clock and the members.                  *)

(* The webhooks' steps.                                                    *)
LEMMA PaidArrivesInv ==
  ASSUME IInv, NEW n \in Packs, PaidArrives(n)
  PROVE  IInv'
<1>1. Types /\ PackOK(n) /\ row' = row /\ setting' = setting /\ inv' = inv /\ job' = job
      /\ faults' = faults /\ credited' = credited \cup {n}
  BY DEF IInv, PaidArrives
<1>2. /\ hook[n].paid = "sent" /\ hook' \in [Packs -> Hook] /\ hook'[n].paid = "mark"
      /\ \A m \in Packs : m # n => hook'[m] = hook[m]
  BY <1>1, HookFields DEF PaidArrives, HookPaid, Types, Hook
<1>3. Types'
  BY <1>1, <1>2 DEF Types
<1>4. Mono
  BY <1>1 DEF Mono
<1>5. OnePending' /\ CapHolds'
  BY <1>1, CountsKept DEF IInv, StatusKept
<1>6. ASSUME NEW m \in Packs PROVE PackOK(m)'
  <2>1. PackOK(m)
    BY DEF IInv
  <2>2. CASE m = n
    BY <1>1, <1>2, <2>1, <2>2 DEF PackOK
  <2>3. CASE m # n
    BY <1>1, <1>2, <2>1, <2>3, PackKept
  <2> QED BY <2>2, <2>3
<1> QED BY <1>1, <1>3, <1>4, <1>5, <1>6, ByOthers

LEMMA PaidMarksInv ==
  ASSUME IInv, NEW n \in Packs, PaidMarks(n)
  PROVE  IInv'
<1>1. Types /\ PackOK(n) /\ setting' = setting /\ inv' = inv /\ job' = job
      /\ faults' = faults /\ credited' = credited /\ row' = Paid(n) /\ job' \in [Sweeps -> Job]
  BY DEF IInv, PaidMarks, Types
<1>2. /\ hook[n].paid = "mark" /\ hook' \in [Packs -> Hook] /\ hook'[n].paid = "done"
      /\ \A m \in Packs : m # n => hook'[m] = hook[m]
  BY <1>1, HookFields DEF PaidMarks, HookPaid, Types, Hook
<1>3. n \in credited
  BY <1>1, <1>2 DEF PackOK
<1>4. /\ Types' /\ Mono /\ OnePending' /\ CapHolds'
      /\ \A m \in Packs : PackOK(m)'
  BY <1>1, <1>2, <1>3, PaidStep
<1> QED BY <1>1, <1>4, ByOthers

(* A step of an event that tells of no payment.                            *)
LEMMA EventStep ==
  ASSUME IInv, NEW n \in Packs, hook' \in [Packs -> Hook], hook'[n].paid = hook[n].paid,
         \A m \in Packs : m # n => hook'[m] = hook[m],
         row' = row \/ (row' = Failed(n)),
         setting' \in [on : BOOLEAN, cap : Caps], setting'.cap = setting.cap,
         inv' \in {inv, Voided(n)}, credited' = credited, job' = job, faults' \in Nat
  PROVE  IInv'
<1>1. Types /\ OnePending /\ CapHolds /\ PackOK(n)
  BY DEF IInv
<1>2. /\ inv' \in [Packs -> Invoice]
      /\ \A m \in Packs : m # n => inv'[m] = inv[m]
      /\ inv'[n].made = inv[n].made /\ inv'[n].pay = inv[n].pay
      /\ inv'[n].status = inv[n].status \/ (inv[n].status = "open" /\ inv'[n].status = "void")
  <2>1. CASE inv' = inv
    BY <1>1, <2>1 DEF Types
  <2>2. CASE inv' = [inv EXCEPT ![n].status = "void"] /\ inv[n].status = "open"
    BY <1>1, <2>2, InvFields DEF Types, Invoice
  <2> QED BY <2>1, <2>2 DEF Voided
<1>3. /\ row' \in [Packs -> Row]
      /\ \A m \in Packs : m # n => row'[m] = row[m]
      /\ row'[n].age = row[n].age /\ row'[n].revived = row[n].revived
      /\ row[n].status = "pending" => row'[n].status \in {"pending", "failed"}
      /\ row[n].status # "pending" => row'[n].status = row[n].status
      /\ OnePending' /\ CapHolds'
  <2>1. CASE row' = row
    <3>1. OnePending' /\ CapHolds'
      BY <1>1, <2>1, CountsKept DEF StatusKept
    <3> QED BY <1>1, <2>1, <3>1, RowFields DEF Types
  <2>2. CASE row' = Failed(n)
    BY <1>1, <2>2, FailedRow
  <2> QED BY <2>1, <2>2
<1>4. Types'
  BY <1>1, <1>2, <1>3 DEF Types
<1>5. Mono
  BY <1>2, <1>3 DEF Mono
<1>6. ASSUME NEW m \in Packs PROVE PackOK(m)'
  <2>1. PackOK(m)
    BY DEF IInv
  <2>2. CASE m # n
    BY <1>2, <1>3, <2>1, <2>2, PackKept
  <2>3. CASE m = n
    <3>1. inv[n].made = 0 => inv'[n].status = inv[n].status
      BY <1>1, <1>2 DEF PackOK
    <3> QED BY <1>2, <1>3, <2>1, <2>3, <3>1 DEF PackOK
  <2> QED BY <2>2, <2>3
<1> QED BY <1>3, <1>4, <1>5, <1>6, ByOthers

(* The progress of a pack's failure event.                                 *)
LEMMA FailedEvent ==
  ASSUME Types, NEW n \in Packs, NEW pc \in {"sent", "fail", "disable", "done"}, HookFailed(n, pc)
  PROVE  /\ hook' \in [Packs -> Hook] /\ hook'[n].paid = hook[n].paid
         /\ \A m \in Packs : m # n => hook'[m] = hook[m]
BY HookFields DEF HookFailed, Types, Hook

(* The setting keeps its type and its cap.                                 *)
LEMMA SettingType ==
  ASSUME Types, setting' = setting \/ setting' = [setting EXCEPT !.on = FALSE]
                \/ setting' = [setting EXCEPT !.on = ~@]
  PROVE  setting' \in [on : BOOLEAN, cap : Caps] /\ setting'.cap = setting.cap
BY DEF Types

LEMMA OnFailedInv ==
  ASSUME IInv, NEW n \in Packs, OnFailed(n)
  PROVE  IInv'
<1>1. Types /\ credited' = credited /\ job' = job /\ faults' \in Nat
  BY DEF IInv, Types, OnFailed, FailedArrives, FailedMarks, FailedDisables
<1>2. PICK pc \in {"fail", "disable", "done"} : HookFailed(n, pc)
  BY DEF OnFailed, FailedArrives, FailedMarks, FailedDisables
<1>3. /\ hook' \in [Packs -> Hook] /\ hook'[n].paid = hook[n].paid
      /\ \A m \in Packs : m # n => hook'[m] = hook[m]
  BY <1>1, <1>2, FailedEvent
<1>4. row' = row \/ row' = Failed(n)
  BY DEF OnFailed, FailedArrives, FailedMarks, FailedDisables
<1>5. setting' \in [on : BOOLEAN, cap : Caps] /\ setting'.cap = setting.cap
  BY <1>1, SettingType DEF OnFailed, FailedArrives, FailedMarks, FailedDisables
<1>6. inv' \in {inv, Voided(n)}
  BY DEF OnFailed, FailedArrives, FailedMarks, FailedDisables
<1> QED BY <1>1, <1>3, <1>4, <1>5, <1>6, EventStep

LEMMA HookFailsInv ==
  ASSUME IInv, NEW n \in Packs, HookFails(n)
  PROVE  IInv'
<1>1. Types /\ PackOK(n) /\ row' = row /\ setting' = setting /\ credited' = credited /\ job' = job
      /\ inv' = inv /\ faults' \in Nat
  BY Faulty DEF IInv, HookFails
<1>2. CASE HookFailed(n, "sent")
  <2>1. /\ hook' \in [Packs -> Hook] /\ hook'[n].paid = hook[n].paid
        /\ \A m \in Packs : m # n => hook'[m] = hook[m]
    BY <1>1, <1>2, FailedEvent
  <2> QED BY <1>1, <2>1, SettingType, EventStep
<1>3. CASE hook[n].paid = "mark" /\ HookPaid(n, "sent")
  <2>1. /\ hook' \in [Packs -> Hook] /\ hook'[n].paid = "sent"
        /\ \A m \in Packs : m # n => hook'[m] = hook[m]
    BY <1>1, <1>3, HookFields DEF HookPaid, Types, Hook
  <2>2. row[n].status # "none"
    BY <1>1, <1>3 DEF PackOK
  <2>3. PackOK(n)'
    BY <1>1, <1>3, <2>1, <2>2 DEF PackOK
  <2>4. InvoiceStep(n)
    BY <1>1, <2>1 DEF InvoiceStep, Types
  <2>5. /\ Mono /\ OnePending' /\ CapHolds' /\ Types'
        /\ \A m \in Packs : PackOK(m)'
    BY <1>1, <2>3, <2>4, InvoiceFrame DEF Types
  <2> QED BY <1>1, <2>5, ByOthers
<1> QED BY <1>2, <1>3 DEF HookFails

LEMMA CustomerPaysInv ==
  ASSUME IInv, NEW n \in Packs, CustomerPays(n)
  PROVE  IInv'
<1>1. Types /\ row' = row /\ setting' = setting /\ credited' = credited /\ job' = job
      /\ faults' \in Nat /\ inv[n].pay \in {"no", "paid", "declined"}
  BY Faulty, InvFields DEF IInv, CustomerPays
<1>2. InvoiceStep(n) /\ PackOK(n)'
  BY <1>1, SettledStep DEF CustomerPays
<1>3. /\ Mono /\ OnePending' /\ CapHolds' /\ Types'
      /\ \A m \in Packs : PackOK(m)'
  BY <1>1, <1>2, InvoiceFrame DEF Types
<1> QED BY <1>1, <1>3, ByOthers

LEMMA LapseInv ==
  ASSUME IInv, NEW n \in Packs, Age(n) \/ Lapse(n)
  PROVE  IInv'
<1>1. Types /\ setting' = setting /\ credited' = credited /\ job' = job /\ inv' = inv /\ hook' = hook
      /\ faults' \in Nat
  BY Faulty DEF IInv, Age, Lapse, Types
<1>2. /\ row' \in [Packs -> Row] /\ StatusKept
      /\ \A m \in Packs : m # n => row'[m] = row[m]
      /\ row[n].status # "none"
      /\ row'[n].age = row[n].age \/ row'[n].age = "late" \/ Holders(n) = {}
  <2>1. CASE row' = [row EXCEPT ![n].age = "late"] /\ row[n].status = "pending"
    BY <1>1, <2>1, RowFields DEF Types, Row, StatusKept
  <2>2. CASE row' = [row EXCEPT ![n].age = "old"] /\ row[n].status = "pending" /\ Holders(n) = {}
    BY <1>1, <2>2, RowFields DEF Types, Row, StatusKept
  <2>3. CASE row' = [row EXCEPT ![n].recent = FALSE] /\ row[n].status \in {"pending", "failed"}
    BY <1>1, <2>3, RowFields DEF Types, Row, StatusKept
  <2> QED BY <2>1, <2>2, <2>3 DEF Age, Lapse
<1>3. Types'
  BY <1>1, <1>2 DEF Types
<1>4. ASSUME NEW e \in Sweeps, job[e].pack \in Packs, row[job[e].pack].age # "old"
      PROVE  row'[job[e].pack].age # "old"
  <2>1. job[e].pack = n => Holders(n) # {}
    BY DEF Holders
  <2> QED BY <1>2, <1>4, <2>1
<1>5. Mono
  BY <1>1, <1>2, <1>4 DEF Mono, StatusKept
<1>6. OnePending' /\ CapHolds'
  BY <1>2, CountsKept DEF IInv
<1>7. \A m \in Packs : PackOK(m)'
  BY <1>1, <1>2, PackKept DEF IInv, StatusKept
<1> QED BY <1>1, <1>3, <1>5, <1>6, <1>7, ByOthers

LEMMA ToggleInv ==
  ASSUME IInv, Toggle
  PROVE  IInv'
<1>1. Types /\ row' = row /\ credited' = credited /\ job' = job /\ inv' = inv /\ hook' = hook
      /\ faults' \in Nat /\ setting' \in [on : BOOLEAN, cap : Caps] /\ setting'.cap = setting.cap
  BY SettingType, Faulty DEF IInv, Toggle
<1>2. Types' /\ Mono
  BY <1>1 DEF Types, Mono
<1>3. OnePending' /\ CapHolds'
  BY <1>1, CountsKept DEF IInv, StatusKept
<1>4. \A m \in Packs : PackOK(m)'
  BY <1>1, PackKept DEF IInv
<1> QED BY <1>1, <1>2, <1>3, <1>4, ByOthers

(* A step that changes nothing.                                            *)
LEMMA StutterInv ==
  ASSUME IInv, UNCHANGED vars
  PROVE  IInv'
<1>1. Types' /\ Mono /\ job' = job
  BY DEF IInv, Types, Mono, vars
<1>2. OnePending' /\ CapHolds'
  BY CountsKept DEF IInv, StatusKept, vars
<1>3. \A m \in Packs : PackOK(m)'
  BY PackKept DEF IInv, vars
<1> QED BY <1>1, <1>2, <1>3, ByOthers

(* Every step keeps the invariant.                                         *)
LEMMA StepInv ==
  ASSUME IInv, [Next]_vars
  PROVE  IInv'
<1>1. ASSUME NEW d \in Sweeps, Sweep(d) PROVE IInv'
  BY <1>1, ListExpiredInv, LookupInv, VoidInv, GiveUpInv, RedriveInv, ReadSettingsInv,
     ReadUsageInv, ClaimInv, CreateInv, RecordInv, ChargeInv, CreditInv, MarkPaidInv,
     DeclineInv, DisableInv DEF Sweep, Works
<1>2. ASSUME NEW n \in Packs, OnPaid(n) \/ OnFailed(n) \/ Befalls(n) PROVE IInv'
  BY <1>2, PaidArrivesInv, PaidMarksInv, OnFailedInv, HookFailsInv, CustomerPaysInv, LapseInv
  DEF OnPaid, Befalls
<1> QED BY <1>1, <1>2, FailsInv, ToggleInv, StutterInv DEF Next

(* The invariant is one.                                                   *)
THEOREM Invariance == Spec => []IInv
<1>1. Init => IInv
  BY InitInv
<1>2. IInv /\ [Next]_vars => IInv'
  BY StepInv
<1> QED BY <1>1, <1>2, PTL DEF Spec

-----------------------------------------------------------------------------
(* What it gives.                                                          *)

(* Every variable keeps its type and at most one pack is in flight.        *)
THEOREM TypeCorrect == Spec => []TypeOK
<1>1. IInv => TypeOK
  <2> SUFFICES ASSUME IInv PROVE TypeOK
    OBVIOUS
  <2>1. \A n \in Having("none") : inv[n].made = 0 /\ n \notin credited
    BY DEF IInv, PackOK, Having
  <2>2. \A d \in Sweeps :
          job[d].pc \notin {"idle", "redrive", "sweep", "usage", "claim"} =>
            job[d].pack \in Packs /\ row[job[d].pack].status # "none"
    BY DEF IInv, JobOK, Free
  <2> QED BY <2>1, <2>2 DEF IInv, Types, OnePending, TypeOK
<1> QED BY <1>1, Invariance, PTL

(* Credits are granted for paid invoices only, and packs paid only once    *)
(* they are granted.                                                       *)
THEOREM GrantsFollowPayments == Spec => []CreditsMatchPayments
<1>1. IInv => CreditsMatchPayments
  BY DEF IInv, Types, PackOK, CreditsMatchPayments, PaidPacks, Having
<1> QED BY <1>1, Invariance, PTL

(* No pack gets a second invoice.                                          *)
THEOREM NoSecondInvoice == Spec => []OneInvoicePerPack
<1>1. IInv => OneInvoicePerPack
  BY DEF IInv, PackOK, OneInvoicePerPack
<1> QED BY <1>1, Invariance, PTL

(* No more packs than the cap, but for those paid after they were given up.*)
THEOREM CapIsKept == Spec => []CapHolds
<1>1. IInv => CapHolds
  BY DEF IInv
<1> QED BY <1>1, Invariance, PTL

(* No payment goes unnoticed.                                              *)
THEOREM PaymentsAreGranted == Spec => []PaidIsGrantedOrTold
<1>1. IInv => PaidIsGrantedOrTold
  <2> SUFFICES ASSUME IInv, NEW n \in Packs, inv[n].status = "paid"
               PROVE  \/ n \in credited /\ row[n].status = "paid"
                      \/ hook[n].paid \in {"sent", "mark"}
    BY DEF PaidIsGrantedOrTold
  <2>1. PackOK(n) /\ hook[n].paid \in {"none", "sent", "mark", "done"}
    BY HookFields DEF IInv
  <2> QED BY <2>1 DEF PackOK
<1> QED BY <1>1, Invariance, PTL

(* A claim knows every pack credited before it, but for one settled late.  *)
THEOREM ClaimsAreInformed == Spec => ClaimSeesEveryPack
<1> DEFINE Informed ==
      \A n \in Packs : row[n].status = "none" /\ row'[n].status = "pending" =>
        \E d \in Sweeps :
          /\ At(d, "claim") /\ job'[d].pack = n
          /\ \/ job[d].seen = Cardinality(credited)
             \/ \E m \in credited : row[m].status = "failed"
<1>1. IInv /\ [Next]_vars => [Informed]_vars
  <2> SUFFICES ASSUME IInv, [Next]_vars, NEW n \in Packs,
                      row[n].status = "none", row'[n].status = "pending"
               PROVE  \E d \in Sweeps :
                        /\ At(d, "claim") /\ job'[d].pack = n
                        /\ \/ job[d].seen = Cardinality(credited)
                           \/ \E m \in credited : row[m].status = "failed"
    BY Zenon
  <2>1. Types
    BY DEF IInv
  <2>2. ASSUME NEW m \in Packs, row' = Failed(m) \/ row' = Paid(m) PROVE FALSE
    BY <2>1, <2>2, RowFields DEF Failed, Paid, Types
  <2>3. ASSUME NEW m \in Packs, row' = [row EXCEPT ![m].recent = TRUE] PROVE FALSE
    BY <2>1, <2>3, RowFields DEF Types, Row
  <2>4. row' # row
    OBVIOUS
  <2>5. ASSUME NEW d \in Sweeps, job[d].pc \notin Free PROVE job[d].pack \in Packs
    BY <2>5 DEF IInv, JobOK
  <2>6. PICK d \in Sweeps : ClaimPending(d)
    <3>1. ASSUME NEW d \in Sweeps, Works(d), ~ClaimPending(d) PROVE FALSE
      <4>1. CASE Record(d)
        BY <2>1, <2>5, <4>1, RowFields DEF Record, At, Free, Types, Row
      <4>2. CASE Redrive(d)
        BY <2>3, <2>4, <4>2 DEF Redrive, Stale, Pending, Having
      <4>3. CASE GiveUp(d) \/ Decline(d) \/ MarkPaid(d)
        BY <2>2, <2>5, <4>3 DEF GiveUp, Decline, MarkPaid, At, Free
      <4> QED BY <2>4, <3>1, <4>1, <4>2, <4>3
              DEF Works, ListExpired, Lookup, Void, ReadSettings, Create, Check, Charge, Disable
    <3>2. ASSUME NEW d \in Sweeps, ReadUsage(d) \/ Credit(d) \/ Fails(d) PROVE FALSE
      BY <2>4, <3>2 DEF ReadUsage, Credit, Fails
    <3>3. ASSUME NEW m \in Packs, OnPaid(m) \/ OnFailed(m) PROVE FALSE
      BY <2>2, <2>4, <3>3 DEF OnPaid, PaidArrives, PaidMarks, OnFailed, FailedArrives, FailedMarks,
                              FailedDisables
    <3>4. ASSUME NEW m \in Packs, Befalls(m) PROVE FALSE
      <4>1. ASSUME Age(m) \/ Lapse(m) PROVE FALSE
        BY <2>1, <4>1, RowFields DEF Age, Lapse, Types, Row
      <4> QED BY <2>4, <3>4, <4>1 DEF Befalls, HookFails, CustomerPays
    <3>5. CASE Toggle \/ UNCHANGED vars
      BY <2>4, <3>5 DEF Toggle, vars
    <3> QED BY <3>1, <3>2, <3>3, <3>4, <3>5 DEF Next, Sweep
  <2>7. PICK k \in Having("none") :
          /\ Claimable(d) /\ Takes(d, k, "idle", "create")
          /\ row' = [row EXCEPT ![k].status = "pending", ![k].recent = TRUE]
    BY <2>4, <2>6 DEF ClaimPending
  <2>8. k \in Packs /\ k = n
    BY <2>1, <2>7, RowFields DEF Having, Types, Row
  <2>9. At(d, "claim") /\ job'[d].pack = n
    BY <2>1, <2>6, <2>7, <2>8, TakesPack DEF ClaimPending, PCs
  <2>10. ASSUME \A m \in credited : row[m].status # "failed"
         PROVE  job[d].seen = Cardinality(credited)
    <3>1. ASSUME NEW m \in credited PROVE m \in PaidPacks
      <4>1. m \in Packs /\ PackOK(m)
        BY <2>1 DEF IInv, Types
      <4>2. inv[m].made # 0
        BY <3>1, <4>1 DEF PackOK
      <4>3. row[m].status \notin {"none", "pending", "failed"}
        BY <2>7, <2>10, <3>1, <4>1, <4>2 DEF PackOK, Claimable, Pending, Having
      <4> QED BY <2>1, <4>1, <4>3, RowFields DEF PaidPacks, Having
    <3>2. PaidPacks \subseteq credited
      BY DEF IInv, PackOK, PaidPacks, Having
    <3>3. PaidPacks = credited
      BY <3>1, <3>2
    <3>4. job[d].revision <= job[d].seen /\ job[d].seen <= Cardinality(credited)
      BY <2>9 DEF IInv, JobOK, At
    <3>5. job[d].revision = Cardinality(credited)
      BY <2>7, <3>3 DEF Claimable
    <3> QED BY <2>1, <3>4, <3>5, JobFields, CreditedFinite
  <2> QED BY <2>9, <2>10
<1>2. Spec => [][Informed]_vars
  BY <1>1, Invariance, PTL DEF Spec
<1> QED BY <1>2 DEF ClaimSeesEveryPack

-----------------------------------------------------------------------------
(* The refinement of Purchase.                                             *)

Charged == {n \in Packs : inv[n].status = "paid"}

(* At most one invoice changes, and never one that was paid.               *)
OnlyOne ==
  \E n \in Packs :
    /\ \A m \in Packs : m # n => inv'[m] = inv[m]
    /\ inv[n].status = "paid" => inv'[n].status = "paid"

(* Voiding changes one invoice.                                            *)
LEMMA VoidedOne ==
  ASSUME Types, NEW n \in Packs, inv' \in {inv, Voided(n)}
  PROVE  OnlyOne
BY InvFields DEF Voided, OnlyOne, Types, Invoice

(* So do creating and charging.                                            *)
LEMMA ChargeOne ==
  ASSUME IInv, NEW d \in Sweeps, Create(d) \/ Charge(d)
  PROVE  OnlyOne
<1>0. PICK n : n = job[d].pack
  OBVIOUS
<1>1. Types /\ n \in Packs /\ PackOK(n) /\ job[d].pc \notin Free
  BY <1>0 DEF IInv, JobOK, Create, Charge, At, Free
<1>2. \A m \in Packs : m # n => inv'[m] = inv[m]
  BY <1>0, <1>1 DEF Create, Charge, Made, Settled, Refused, Finalized, Stripe, Types
<1>3. ASSUME inv[n].status = "paid" PROVE inv' = inv \/ inv'[n].status = "paid"
  <2>1. CASE Create(d)
    <3>1. inv[n].made > 0 /\ row[n].age # "old"
      BY <1>0, <1>1, <1>3, <2>1, InvFields DEF IInv, JobOK, PackOK, Create, At
    <3> QED BY <1>0, <2>1, <3>1 DEF Create, Made
  <2>2. CASE Charge(d)
    BY <1>0, <1>3, <2>2 DEF Charge, Finalized, Stripe
  <2> QED BY <2>1, <2>2
<1> QED BY <1>1, <1>2, <1>3 DEF OnlyOne

(* Invoices change one at a time, and never beside a credit.               *)
LEMMA InvoicesChange ==
  ASSUME IInv, [Next]_vars
  PROVE  inv' = inv \/ (credited' = credited /\ OnlyOne)
<1>1. Types
  BY DEF IInv
<1>2. ASSUME NEW d \in Sweeps, Works(d) PROVE inv' = inv \/ (credited' = credited /\ OnlyOne)
  <2>1. CASE Void(d)
    <3>1. job[d].pack \in Packs
      BY <2>1 DEF IInv, JobOK, Void, At, Free
    <3> QED BY <1>1, <2>1, <3>1, VoidedOne DEF Void
  <2>2. CASE Create(d) \/ Charge(d)
    BY <2>2, ChargeOne DEF Create, Charge
  <2> QED BY <1>2, <2>1, <2>2
      DEF Works, ListExpired, Lookup, GiveUp, Redrive, ReadSettings, ClaimPending, Record, Check,
          MarkPaid, Decline, Disable, Stripe
<1>3. ASSUME NEW d \in Sweeps, ReadUsage(d) \/ Credit(d) \/ Fails(d) PROVE inv' = inv
  BY <1>3 DEF ReadUsage, Credit, Fails, Stripe
<1>4. ASSUME NEW n \in Packs, OnPaid(n) \/ OnFailed(n)
      PROVE  inv' = inv \/ (credited' = credited /\ OnlyOne)
  <2>1. CASE FailedDisables(n)
    BY <1>1, <2>1, VoidedOne DEF FailedDisables
  <2> QED BY <1>4, <2>1 DEF OnPaid, OnFailed, PaidArrives, PaidMarks, FailedArrives, FailedMarks
<1>5. ASSUME NEW n \in Packs, Befalls(n)
      PROVE  inv' = inv \/ (credited' = credited /\ OnlyOne)
  <2>1. CASE CustomerPays(n)
    BY <1>1, <2>1 DEF CustomerPays, Settled, OnlyOne, Types
  <2> QED BY <1>5, <2>1 DEF Befalls, HookFails, Age, Lapse
<1> QED BY <1>2, <1>3, <1>4, <1>5 DEF Next, Sweep, Toggle, vars

(* Credits change one pack at a time, for a paid invoice.                  *)
LEMMA CreditsChange ==
  ASSUME IInv, [Next]_vars
  PROVE  \/ credited' = credited
         \/ \E n \in Packs : inv[n].status = "paid" /\ inv' = inv /\ credited' = credited \cup {n}
<1>1. ASSUME NEW d \in Sweeps, Credit(d)
      PROVE  \E n \in Packs : inv[n].status = "paid" /\ inv' = inv /\ credited' = credited \cup {n}
  BY <1>1 DEF IInv, JobOK, Credit, At, Free, Stripe
<1>2. ASSUME NEW n \in Packs, PaidArrives(n)
      PROVE  inv[n].status = "paid" /\ inv' = inv /\ credited' = credited \cup {n}
  BY <1>2 DEF IInv, PackOK, PaidArrives
<1>3. ASSUME NEW d \in Sweeps, Works(d) \/ ReadUsage(d) \/ Fails(d) PROVE credited' = credited
  BY <1>3 DEF Works, ListExpired, Lookup, Void, GiveUp, Redrive, ReadSettings, ClaimPending, Create,
              Record, Check, Charge, MarkPaid, Decline, Disable, ReadUsage, Fails
<1>4. ASSUME NEW n \in Packs, PaidMarks(n) \/ OnFailed(n) \/ Befalls(n) PROVE credited' = credited
  BY <1>4 DEF PaidMarks, OnFailed, FailedArrives, FailedMarks, FailedDisables, Befalls, HookFails,
              CustomerPays, Age, Lapse
<1> QED BY <1>1, <1>2, <1>3, <1>4 DEF Next, Sweep, OnPaid, Toggle, vars

(* Every pack is sold as Purchase says: what is granted was paid for,      *)
(* nothing is granted twice and no payment or grant is undone.             *)
THEOREM SellsPacks == Spec => ImplementsPurchase
<1>1. Init => Sale!Init
  <2> SUFFICES ASSUME Init PROVE Sale!Init
    OBVIOUS
  <2>1. \A n \in Packs : inv[n].status # "paid"
    BY DEF Init
  <2> QED BY <2>1 DEF Init, Sale!Init
<1>2. IInv /\ [Next]_vars => [Sale!Next]_(Sale!vars)
  <2> SUFFICES ASSUME IInv, [Next]_vars PROVE [Sale!Next]_(Sale!vars)
    OBVIOUS
  <2>1. CASE inv' = inv /\ credited' = credited
    BY <2>1 DEF Sale!vars
  <2>2. CASE inv' = inv /\ credited' # credited
    <3>1. PICK n \in Packs : inv[n].status = "paid" /\ credited' = credited \cup {n}
      BY <2>2, CreditsChange
    <3>2. Sale!Grant(n)
      BY <2>2, <3>1 DEF Sale!Grant
    <3> QED BY <3>2 DEF Sale!Next
  <2>3. CASE inv' # inv
    <3>1. credited' = credited /\ OnlyOne
      BY <2>3, InvoicesChange
    <3>2. PICK n \in Packs : /\ \A m \in Packs : m # n => inv'[m] = inv[m]
                             /\ inv[n].status = "paid" => inv'[n].status = "paid"
      BY <3>1 DEF OnlyOne
    <3>3. CASE inv'[n].status = inv[n].status \/ inv[n].status = "paid"
      <4>1. Charged' = Charged
        BY <3>2, <3>3 DEF Charged
      <4> QED BY <3>1, <4>1 DEF Charged, Sale!vars
    <3>4. CASE inv'[n].status # "paid" /\ inv[n].status # "paid"
      <4>1. Charged' = Charged
        BY <3>2, <3>4 DEF Charged
      <4> QED BY <3>1, <4>1 DEF Charged, Sale!vars
    <3>5. CASE inv'[n].status = "paid" /\ inv[n].status # "paid"
      <4>1. n \notin Charged /\ Charged' = Charged \cup {n}
        BY <3>2, <3>5 DEF Charged
      <4>2. Sale!Charge(n)
        BY <3>1, <4>1 DEF Charged, Sale!Charge
      <4> QED BY <4>2 DEF Sale!Next
    <3> QED BY <3>3, <3>4, <3>5
  <2> QED BY <2>1, <2>2, <2>3
<1> QED BY <1>1, <1>2, Invariance, PTL DEF Spec, ImplementsPurchase, Sale!Spec
=============================================================================
