---------------------- MODULE EmbeddingTransitionProofs ----------------------
(***************************************************************************)
(* Proofs about EmbeddingTransition, for every number of documents, spaces *)
(* and workers, and for every value of the bounds.                         *)
(*                                                                         *)
(* RetrievableIsSearchable is inductive beside the types.                  *)
(* CompletedMeansCovered is not: a run may be about to complete a job, and *)
(* the job may be one whose pins become current by a later step.  PinInv   *)
(* says that a run on its way to completing a job has done its work, and   *)
(* that a job never names a revision or a generation still to come.        *)
(***************************************************************************)
EXTENDS EmbeddingTransition, TLAPS

-----------------------------------------------------------------------------
(* The queue.                                                              *)

(* Inserting keys keeps every row.                                         *)
LEMMA EnqueuedFacts ==
  ASSUME NEW J, Queue(J), NEW K \in SUBSET Key
  PROVE  /\ Queue(Enqueued(J, K))
         /\ DOMAIN Enqueued(J, K) = DOMAIN J \cup K
         /\ \A k \in DOMAIN J : Enqueued(J, K)[k] = J[k]
         /\ \A k \in K \ DOMAIN J : Enqueued(J, K)[k] = NewJob
BY DEF Queue, Enqueued, NewJob, Job

(* Withdrawing work skips open rows.                                       *)
LEMMA SkippedFacts ==
  ASSUME NEW J, Queue(J), NEW K
  PROVE  /\ Queue(Skipped(J, K))
         /\ DOMAIN Skipped(J, K) = DOMAIN J
         /\ \A k \in DOMAIN J : \/ Skipped(J, K)[k] = J[k]
                                \/ Skipped(J, K)[k].status = "skipped"
<1>1. \A k \in DOMAIN J :
        /\ k \in Key /\ J[k] \in Job
        /\ [J[k] EXCEPT !.status = "skipped"] \in Job
        /\ [J[k] EXCEPT !.status = "skipped"].status = "skipped"
  BY DEF Queue, Job
<1>2. QED
  BY <1>1 DEF Queue, Skipped

(* A fenced terminal write.                                                *)
LEMMA ResolvedFacts ==
  ASSUME NEW J, Queue(J), NEW k, NEW H, NEW status \in {"completed", "skipped", "failed"},
         H = Resolved(J, k, status)
  PROVE  /\ Queue(H) /\ DOMAIN H = DOMAIN J
         /\ \A i \in DOMAIN J : H[i] = J[i] \/ (i = k /\ H[i].status = status)
<1>1. CASE J[k].status = "processing"
  <2>1. H = [J EXCEPT ![k].status = status]
    BY <1>1 DEF Resolved
  <2>2. \A i \in DOMAIN J :
          /\ i \in Key /\ J[i] \in Job
          /\ [J[i] EXCEPT !.status = status] \in Job
          /\ [J[i] EXCEPT !.status = status].status = status
    BY DEF Queue, Job
  <2>3. QED
    BY <2>1, <2>2, ZenonT(40) DEF Queue
<1>2. CASE J[k].status # "processing"
  BY <1>2 DEF Resolved
<1>3. QED
  BY <1>1, <1>2

(* The keys of what is served now, and those the backfill inserts.         *)
LEMMA KeysTyped ==
  ASSUME TypeOK
  PROVE  /\ Targets \subseteq Spaces /\ profile.active \in Targets
         /\ \A d \in Docs, s \in Spaces : CurrentKey(d, s) \in Key
         /\ Gaps \in SUBSET Key
         /\ \A d \in Docs, r \in Nat : VectorizeKey(d, r) \in Key
         /\ \A d \in Docs : doc[d].revision \in Nat /\ doc[d].edition \in Nat
         /\ profile.generation \in Nat
<1>1. Targets \subseteq Spaces /\ profile.active \in Targets
  BY EmbeddingTransitionAssumption DEF TypeOK, Targets, Profile
<1>2. \A d \in Docs : doc[d].revision \in Nat /\ doc[d].edition \in Nat
  BY DEF TypeOK, Document
<1>3. profile.generation \in Nat
  BY DEF TypeOK, Profile
<1>4. \A d \in Docs, s \in Spaces : CurrentKey(d, s) \in Key
  BY <1>2, <1>3 DEF CurrentKey, ProfileKey, Key
<1>5. Gaps \in SUBSET Key
  BY <1>1, <1>4 DEF Gaps
<1>6. \A d \in Docs, r \in Nat : VectorizeKey(d, r) \in Key
  BY DEF VectorizeKey, Key
<1>7. QED
  BY <1>1, <1>2, <1>3, <1>4, <1>5, <1>6

(* What the backfill does to the queue.                                    *)
LEMMA ReconciledFacts ==
  ASSUME TypeOK
  PROVE  /\ Queue(Reconciled(jobs))
         /\ DOMAIN Reconciled(jobs) = DOMAIN jobs \cup Gaps
         /\ \A k \in DOMAIN jobs : \/ Reconciled(jobs)[k] = jobs[k]
                                   \/ Reconciled(jobs)[k].status = "skipped"
         /\ \A k \in Gaps \ DOMAIN jobs : Reconciled(jobs)[k] = NewJob
<1> DEFINE K == {k \in DOMAIN jobs : k.kind = "profile" /\ ~ Wanted(k)}
<1>1. Queue(jobs) /\ Gaps \in SUBSET Key
  BY KeysTyped DEF TypeOK
<1>2. /\ Queue(Skipped(jobs, K)) /\ DOMAIN Skipped(jobs, K) = DOMAIN jobs
      /\ \A k \in DOMAIN jobs : \/ Skipped(jobs, K)[k] = jobs[k]
                                \/ Skipped(jobs, K)[k].status = "skipped"
  BY <1>1, SkippedFacts
<1>3. Reconciled(jobs) = Enqueued(Skipped(jobs, K), Gaps)
  BY DEF Reconciled
<1> HIDE DEF K
<1>4. QED
  BY <1>1, <1>2, <1>3, EnqueuedFacts

-----------------------------------------------------------------------------
(* Types.                                                                  *)

(* The profile part and the document part of TypeOK.                       *)
ProfileOK ==
  /\ profile \in Profile
  /\ profile.status \in Unpromoted <=> profile.pending # NoSpace
  /\ profile.status \in Unpromoted => profile.pending = profile.target
  /\ profile.active # profile.pending
  /\ quarantined \subseteq Spaces /\ retired \subseteq Spaces

RestOK == owed \subseteq Docs /\ hidden \subseteq Docs /\ changes \in Nat /\ faults \in Nat

(* TypeOK, split into these parts.                                         *)
LEMMA TypeParts ==
  TypeOK <=> /\ doc \in [Docs -> Document] /\ ProfileOK /\ Queue(jobs)
             /\ run \in [Workers -> Run \cup {Idle}] /\ RestOK
BY DEF TypeOK, ProfileOK, RestOK

(* The first state is well typed.                                          *)
LEMMA TypeInit ==
  ASSUME Init
  PROVE  TypeOK
<1>1. Queue(jobs)
  <2>1. \A d \in Docs : VectorizeKey(d, 1) \in Key
    BY DEF VectorizeKey, Key
  <2>2. NewJob \in Job
    BY DEF NewJob, Job
  <2>3. QED
    BY <2>1, <2>2 DEF Init, Queue
<1>2. doc \in [Docs -> Document] /\ ProfileOK
  BY EmbeddingTransitionAssumption DEF Init, Document, ProfileOK, Profile, Unpromoted
<1>3. run \in [Workers -> Run \cup {Idle}] /\ RestOK
  BY DEF Init, RestOK
<1>4. QED
  BY <1>1, <1>2, <1>3, TypeParts

(* The transition's own steps change the profile, and at most the queue or *)
(* the vectors beside it.                                                  *)
LEMMA TypeTransition ==
  ASSUME TypeOK,
         \/ \E s \in Spaces : Start(s) \/ Cleanup(s)
         \/ Ensure \/ Backfill \/ Promote \/ Block \/ Cancel \/ CancelWork
  PROVE  TypeOK'
<1> USE EmbeddingTransitionAssumption
<1>a. /\ doc \in [Docs -> Document] /\ ProfileOK /\ Queue(jobs)
      /\ run \in [Workers -> Run \cup {Idle}] /\ RestOK
  BY TypeParts
<1>1. ASSUME NEW s \in Spaces, Start(s) PROVE TypeOK'
  <2>1. ProfileOK'
    <3>1. profile' = [active |-> profile.active, pending |-> s,
                      generation |-> profile.generation + 1, target |-> s,
                      status |-> "building"]
      BY <1>a, <1>1 DEF Start, ProfileOK, Profile
    <3>a. profile.active \in Spaces /\ profile.generation + 1 \in Nat
      BY <1>a DEF ProfileOK, Profile
    <3>b. s # profile.active
      BY <1>1 DEF Start, Startable
    <3>2. profile.active \in Spaces /\ profile.generation + 1 \in Nat /\ s # profile.active
      BY <3>a, <3>b
    <3>3. quarantined' = quarantined /\ retired' = retired
      BY <1>1 DEF Start
    <3>4. QED
      BY <1>a, <3>1, <3>2, <3>3 DEF ProfileOK, Profile, Unpromoted
  <2>2. QED
    BY <1>a, <1>1, <2>1 DEF Start, TypeOK, ProfileOK, RestOK
<1>2. ASSUME NEW s \in Spaces, Cleanup(s) PROVE TypeOK'
  <2>1. doc' \in [Docs -> Document]
    BY <1>a, <1>2 DEF Cleanup, Document
  <2>2. QED
    BY <1>a, <1>2, <2>1 DEF Cleanup, TypeOK, ProfileOK, RestOK
<1>3. CASE Ensure
  <2>1. {CurrentKey(d, profile.pending) : d \in {e \in Docs : Retrievable(e)}} \in SUBSET Key
    <3>1. profile.pending \in Spaces
      BY <1>a, <1>3 DEF Ensure, Building, ProfileOK, Profile, Unpromoted
    <3>2. QED
      BY <3>1, KeysTyped
  <2>2. Queue(jobs')
    BY <1>a, <1>3, <2>1, EnqueuedFacts DEF Ensure, Ensured
  <2>3. QED
    BY <1>a, <1>3, <2>2 DEF Ensure, TypeOK, ProfileOK, RestOK
<1>4. CASE Backfill
  BY <1>a, <1>4, ReconciledFacts DEF Backfill, TypeOK, ProfileOK, RestOK
<1>5. CASE Promote
  <2>1. ProfileOK'
    <3>1. profile' = [active |-> profile.pending, pending |-> NoSpace,
                      generation |-> profile.generation + 1, target |-> profile.target,
                      status |-> "promoted"]
      BY <1>a, <1>5 DEF Promote, ProfileOK, Profile
    <3>2. /\ profile.pending \in Spaces /\ profile.generation + 1 \in Nat
          /\ profile.target \in Spaces \cup {NoSpace} /\ profile.active \in Spaces
      BY <1>a, <1>5 DEF Promote, Promotable, Building, ProfileOK, Profile, Unpromoted
    <3>3. quarantined' = quarantined /\ retired' = retired \cup {profile.active}
      BY <1>5 DEF Promote
    <3>4. QED
      BY <1>a, <3>1, <3>2, <3>3 DEF ProfileOK, Profile, Unpromoted
  <2>2. RestOK'
    BY <1>a, <1>5 DEF Promote, Uncovered, RestOK
  <2>3. QED
    BY <1>a, <1>5, <2>1, <2>2 DEF Promote, TypeOK, ProfileOK, RestOK
<1>6. CASE Block
  <2>1. ProfileOK'
    BY <1>a, <1>6 DEF Block, Building, ProfileOK, Profile, Unpromoted
  <2>2. QED
    BY <1>a, <1>6, <2>1 DEF Block, Fault, TypeOK, ProfileOK, RestOK
<1>7. CASE Cancel
  <2>1. ProfileOK'
    <3>1. profile' = [active |-> profile.active, pending |-> NoSpace,
                      generation |-> profile.generation + 1, target |-> profile.target,
                      status |-> "cancelled"]
      BY <1>a, <1>7 DEF Cancel, ProfileOK, Profile
    <3>2. /\ profile.generation + 1 \in Nat
          /\ profile.target \in Spaces \cup {NoSpace} /\ profile.active \in Spaces
      BY <1>a DEF ProfileOK, Profile
    <3>3. quarantined' = quarantined /\ retired' = retired
      BY <1>7 DEF Cancel
    <3>4. QED
      BY <1>a, <3>1, <3>2, <3>3 DEF ProfileOK, Profile, Unpromoted
  <2>2. QED
    BY <1>a, <1>7, <2>1 DEF Cancel, TypeOK, ProfileOK, RestOK
<1>8. CASE CancelWork
  <2>1. Queue(jobs')
    BY <1>a, <1>8, SkippedFacts DEF CancelWork
  <2>2. QED
    BY <1>a, <1>8, <2>1 DEF CancelWork, TypeOK, ProfileOK, RestOK
<1>9. QED
  BY <1>1, <1>2, <1>3, <1>4, <1>5, <1>6, <1>7, <1>8

(* So do edits of documents and of their settings.                         *)
LEMMA TypeDocuments ==
  ASSUME TypeOK, NEW d \in Docs,
         Update(d) \/ Switch(d) \/ Reconcile(d) \/ LoseReconcile(d)
  PROVE  TypeOK'
<1>a. /\ doc \in [Docs -> Document] /\ ProfileOK /\ Queue(jobs)
      /\ run \in [Workers -> Run \cup {Idle}] /\ RestOK
  BY TypeParts
<1>1. CASE Update(d)
  <2>1. doc' \in [Docs -> Document]
    <3>1. doc[d] \in Document /\ doc[d].revision + 1 \in Nat /\ {} \in SUBSET Spaces
      BY <1>a DEF Document
    <3>2. [doc[d] EXCEPT !.revision = doc[d].revision + 1, !.status = "queued",
                         !.covered = {}, !.edition = 0] \in Document
      BY <3>1 DEF Document
    <3>3. QED
      BY <1>a, <1>1, <3>2 DEF Update
  <2>2. {VectorizeKey(d, doc[d].revision + 1)} \in SUBSET Key
    BY KeysTyped
  <2>3. Queue(jobs')
    BY <1>a, <1>1, <2>2, EnqueuedFacts DEF Update
  <2>4. QED
    BY <1>a, <1>1, <2>1, <2>3 DEF Update, TypeOK, ProfileOK, RestOK
<1>2. CASE Switch(d)
  <2>1. doc' \in [Docs -> Document]
    BY <1>a, <1>2 DEF Switch, Document
  <2>2. QED
    BY <1>a, <1>2, <2>1 DEF Switch, TypeOK, ProfileOK, RestOK
<1>3. CASE Reconcile(d)
  BY <1>a, <1>3, ReconciledFacts DEF Reconcile, TypeOK, ProfileOK, RestOK
<1>4. CASE LoseReconcile(d)
  BY <1>a, <1>4 DEF LoseReconcile, Fault, TypeOK, ProfileOK, RestOK
<1>5. QED
  BY <1>1, <1>2, <1>3, <1>4

(* The shapes a run's record takes as it goes on.                          *)
LEMMA RunMoves ==
  ASSUME NEW r \in Run, NEW p \in PCs, NEW n \in Nat, NEW s \in Spaces \cup {NoSpace},
         NEW e \in Nat, NEW f \in Failures
  PROVE  /\ [r EXCEPT !.pc = p] \in Run
         /\ [r EXCEPT !.pc = p, !.space = s] \in Run
         /\ [r EXCEPT !.pc = p, !.edition = e] \in Run
         /\ [r EXCEPT !.pc = p, !.attempt = n, !.space = s, !.edition = e] \in Run
         /\ [r EXCEPT !.pc = p, !.failure = f, !.space = s, !.edition = e] \in Run
<1>1. [r EXCEPT !.pc = p] \in Run
  BY DEF Run
<1>2. [r EXCEPT !.pc = p, !.space = s] \in Run
  BY DEF Run
<1>3. [r EXCEPT !.pc = p, !.edition = e] \in Run
  BY DEF Run
<1>4. [r EXCEPT !.pc = p, !.attempt = n, !.space = s, !.edition = e] \in Run
  BY DEF Run
<1>5. [r EXCEPT !.pc = p, !.failure = f, !.space = s, !.edition = e] \in Run
  BY DEF Run
<1>6. QED
  BY <1>1, <1>2, <1>3, <1>4, <1>5

(* A worker that is not idle has a run, of a job with a proper key.        *)
LEMMA Running ==
  ASSUME TypeOK, NEW w \in Workers, run[w].pc # "idle"
  PROVE  /\ run[w] \in Run /\ run[w] # Idle
         /\ Key0(w) \in Key /\ Key0(w).doc \in Docs
BY DEF TypeOK, Idle, Run, Key, Key0

(* The next record of worker w.                                            *)
LEMMA RunTyped ==
  ASSUME TypeOK, NEW w \in Workers, NEW r \in Run \cup {Idle}, run' = [run EXCEPT ![w] = r]
  PROVE  run' \in [Workers -> Run \cup {Idle}]
BY DEF TypeOK

(* A worker that sets a document's status keeps the documents typed.       *)
LEMMA StatusTyped ==
  ASSUME TypeOK, NEW w \in Workers, run[w].pc # "idle",
         NEW status \in {"queued", "processing", "ready", "failed"}, SetStatus(w, status)
  PROVE  doc' \in [Docs -> Document]
<1>1. Key0(w).doc \in Docs /\ doc \in [Docs -> Document]
  BY Running DEF TypeOK
<1>2. [doc[Key0(w).doc] EXCEPT !.status = status] \in Document
  BY <1>1 DEF Document
<1>3. QED
  BY <1>1, <1>2 DEF SetStatus

(* A worker's record after each kind of move, when it has a run.           *)
LEMMA MovesTyped ==
  ASSUME TypeOK, NEW w \in Workers, run[w].pc # "idle",
         \/ \E p \in PCs : To(w, p) \/ Ends(w, p)
         \/ \E f \in Failures : Failing(w, f)
         \/ Finished(w)
  PROVE  run' \in [Workers -> Run \cup {Idle}]
<1>1. run[w] \in Run /\ "failing" \in PCs
  BY Running DEF PCs
<1>2. ASSUME NEW p \in PCs, To(w, p) PROVE run' \in [Workers -> Run \cup {Idle}]
  <2>1. [run[w] EXCEPT !.pc = p] \in Run
    BY <1>1, RunMoves DEF Failures
  <2>2. QED
    BY <1>2, <2>1, RunTyped DEF To
<1>3. ASSUME NEW p \in PCs, Ends(w, p) PROVE run' \in [Workers -> Run \cup {Idle}]
  <2>1. [run[w] EXCEPT !.pc = p, !.attempt = 0, !.space = NoSpace, !.edition = 0] \in Run
    BY <1>1, RunMoves DEF Failures
  <2>2. QED
    BY <1>3, <2>1, RunTyped DEF Ends
<1>4. ASSUME NEW f \in Failures, Failing(w, f) PROVE run' \in [Workers -> Run \cup {Idle}]
  <2>1. [run[w] EXCEPT !.pc = "failing", !.failure = f, !.space = NoSpace, !.edition = 0] \in Run
    BY <1>1, RunMoves
  <2>2. QED
    BY <1>4, <2>1, RunTyped DEF Failing
<1>5. CASE Finished(w)
  BY <1>5, RunTyped DEF Finished
<1>6. QED
  BY <1>2, <1>3, <1>4, <1>5, <1>1

(* A worker that begins a run, sweeps a claim or dies.                     *)
LEMMA TypeClaims ==
  ASSUME TypeOK, NEW w \in Workers,
         \/ \E k \in DOMAIN jobs : Claim(w, k) \/ Sweep(w, k)
         \/ Crash(w)
  PROVE  TypeOK'
<1>a. /\ doc \in [Docs -> Document] /\ ProfileOK /\ Queue(jobs)
      /\ run \in [Workers -> Run \cup {Idle}] /\ RestOK
  BY TypeParts
<1>b. \A k \in DOMAIN jobs : k \in Key /\ jobs[k].attempts \in Nat
  BY <1>a DEF Queue, Job
<1>1. ASSUME NEW k \in DOMAIN jobs, Claim(w, k) PROVE TypeOK'
  <2>1. Queue(jobs')
    <3>1. jobs[k] \in Job /\ jobs[k].attempts + 1 \in Nat
      BY <1>a DEF Queue, Job
    <3>2. [jobs[k] EXCEPT !.status = "processing", !.attempts = jobs[k].attempts + 1] \in Job
      BY <3>1 DEF Job
    <3>3. jobs' = [jobs EXCEPT ![k] = [jobs[k] EXCEPT !.status = "processing",
                                                      !.attempts = jobs[k].attempts + 1]]
      BY <1>1 DEF Claim
    <3>4. QED
      BY <1>a, <3>2, <3>3 DEF Queue
  <2>2. [pc |-> IF k.kind = "vectorize" THEN "begin" ELSE "load", key |-> k,
         attempt |-> jobs[k].attempts + 1, space |-> NoSpace, edition |-> 0,
         failure |-> "none"] \in Run
    BY <1>b DEF Run, PCs, Failures
  <2>3. run' \in [Workers -> Run \cup {Idle}]
    BY <1>1, <2>2, RunTyped DEF Claim
  <2>4. QED
    BY <1>a, <1>1, <2>1, <2>3 DEF Claim, Settings, Beside, TypeOK, ProfileOK, RestOK
<1>2. ASSUME NEW k \in DOMAIN jobs, Sweep(w, k) PROVE TypeOK'
  <2>1. Queue(jobs')
    <3>1. CASE jobs' = jobs
      BY <1>a, <3>1
    <3>2. CASE jobs' = [jobs EXCEPT ![k].status = "queued"]
      <4>1. \A i \in DOMAIN jobs : i \in Key /\ jobs[i] \in Job
                                 /\ [jobs[i] EXCEPT !.status = "queued"] \in Job
        BY <1>a DEF Queue, Job
      <4>2. QED
        BY <1>a, <3>2, <4>1 DEF Queue
    <3>3. QED
      BY <1>2, <3>1, <3>2 DEF Sweep
  <2>2. [pc |-> "failing", key |-> k, attempt |-> jobs[k].attempts,
         space |-> NoSpace, edition |-> 0, failure |-> "retryable"] \in Run
    BY <1>b DEF Run, PCs, Failures
  <2>3. run' \in [Workers -> Run \cup {Idle}]
    BY <1>2, <1>a, <2>2, RunTyped DEF Sweep
  <2>4. RestOK'
    BY <1>a, <1>2 DEF Sweep, Fault, Beside, RestOK
  <2>5. QED
    BY <1>a, <1>2, <2>1, <2>3, <2>4 DEF Sweep, Settings, Beside, TypeOK, ProfileOK, RestOK
<1>3. CASE Crash(w)
  <2>1. run' \in [Workers -> Run \cup {Idle}]
    BY <1>3, RunTyped DEF Crash, Finished
  <2>2. QED
    BY <1>a, <1>3, <2>1 DEF Crash, Fault, Settings, Beside, TypeOK, ProfileOK, RestOK
<1>4. QED
  BY <1>1, <1>2, <1>3

(* What a step of worker w leaves to be shown.                             *)
LEMMA TypeFrame ==
  ASSUME TypeOK, profile' = profile, quarantined' = quarantined, retired' = retired,
         doc' \in [Docs -> Document], Queue(jobs'),
         run' \in [Workers -> Run \cup {Idle}], RestOK'
  PROVE  TypeOK'
BY DEF TypeOK, RestOK

(* The run of a document's own job.                                        *)
LEMMA TypeDocumentRun ==
  ASSUME TypeOK, NEW w \in Workers, Begin(w) \/ Embed(w) \/ Publish(w) \/ Published(w)
  PROVE  TypeOK'
<1>a. /\ doc \in [Docs -> Document] /\ ProfileOK /\ Queue(jobs)
      /\ run \in [Workers -> Run \cup {Idle}] /\ RestOK
  BY TypeParts
<1>b. /\ profile' = profile /\ quarantined' = quarantined /\ retired' = retired
      /\ run[w].pc # "idle"
  BY DEF Begin, Embed, Publish, Published, At, Settings
<1>c. run[w] \in Run /\ Key0(w).doc \in Docs
  BY <1>b, Running
<1>d. RestOK'
  BY <1>a DEF Begin, Embed, Publish, Published, Fails, Fault, Beside, RestOK
<1>1. CASE Begin(w)
  <2>1. doc' \in [Docs -> Document]
    BY <1>1, <1>a, <1>b, StatusTyped DEF Begin
  <2>2. run' \in [Workers -> Run \cup {Idle}]
    BY <1>1, <1>b, MovesTyped DEF Begin, PCs
  <2>3. QED
    BY <1>1, <1>a, <1>b, <1>d, <2>1, <2>2, TypeFrame DEF Begin
<1>2. CASE Embed(w)
  <2>1. run' \in [Workers -> Run \cup {Idle}]
    <3>1. [run[w] EXCEPT !.pc = "publish", !.space = profile.active] \in Run
      BY <1>a, <1>c, RunMoves DEF ProfileOK, Profile, PCs, Failures
    <3>2. CASE run' = [run EXCEPT ![w] = [@ EXCEPT !.pc = "publish", !.space = profile.active]]
      BY <3>1, <3>2, RunTyped
    <3>3. CASE Fails(w, {"retryable", "permanent"})
      BY <1>b, <3>3, MovesTyped DEF Fails, Failures
    <3>4. QED
      BY <1>2, <3>2, <3>3 DEF Embed
  <2>2. QED
    BY <1>2, <1>a, <1>b, <1>d, <2>1, TypeFrame DEF Embed
<1>3. CASE Publish(w)
  <2>1. run' \in [Workers -> Run \cup {Idle}]
    BY <1>3, <1>b, MovesTyped DEF Publish, PCs, Failures
  <2>2. doc' \in [Docs -> Document] /\ Queue(jobs')
    <3>1. CASE UNCHANGED <<doc, jobs>>
      BY <1>a, <3>1
    <3>2. CASE /\ run[w].space = profile.active
               /\ doc' = [doc EXCEPT ![Key0(w).doc].status = "ready",
                                     ![Key0(w).doc].covered = {run[w].space},
                                     ![Key0(w).doc].edition = @ + 1]
               /\ jobs' = Enqueued(jobs, {CurrentKey(Key0(w).doc, s) : s \in Targets})
      <4>1. /\ doc[Key0(w).doc] \in Document /\ doc[Key0(w).doc].edition + 1 \in Nat
            /\ {run[w].space} \in SUBSET Spaces
        BY <1>a, <1>c, <3>2 DEF Document, ProfileOK, Profile
      <4>2. [doc[Key0(w).doc] EXCEPT !.status = "ready", !.covered = {run[w].space},
                                     !.edition = doc[Key0(w).doc].edition + 1] \in Document
        BY <4>1 DEF Document
      <4>3. doc' \in [Docs -> Document]
        BY <1>a, <1>c, <3>2, <4>2
      <4>4. {CurrentKey(Key0(w).doc, s) : s \in Targets} \in SUBSET Key
        BY <1>c, KeysTyped
      <4>5. QED
        BY <1>a, <3>2, <4>3, <4>4, EnqueuedFacts
    <3>3. QED
      BY <1>3, <3>1, <3>2 DEF Publish
  <2>3. QED
    BY <1>b, <1>d, <2>1, <2>2, TypeFrame
<1>4. CASE Published(w)
  <2>1. run' \in [Workers -> Run \cup {Idle}]
    BY <1>4, <1>b, MovesTyped DEF Published, Fails, PCs, Failures
  <2>2. QED
    BY <1>4, <1>a, <1>b, <1>d, <2>1, TypeFrame DEF Published
<1>5. QED
  BY <1>1, <1>2, <1>3, <1>4

(* The run of a profile job.                                               *)
LEMMA TypeProfileRun ==
  ASSUME TypeOK, NEW w \in Workers, Load(w) \/ EmbedProfile(w) \/ Commit(w)
  PROVE  TypeOK'
<1>a. /\ doc \in [Docs -> Document] /\ ProfileOK /\ Queue(jobs)
      /\ run \in [Workers -> Run \cup {Idle}] /\ RestOK
  BY TypeParts
<1>b. /\ profile' = profile /\ quarantined' = quarantined /\ retired' = retired
      /\ jobs' = jobs /\ run[w].pc # "idle"
  BY DEF Load, EmbedProfile, Commit, At, Settings
<1>c. run[w] \in Run /\ Key0(w).doc \in Docs
  BY <1>b, Running
<1>d. RestOK'
  BY <1>a DEF Load, EmbedProfile, Commit, Fails, Fault, Beside, RestOK
<1>1. CASE Load(w)
  <2>1. run' \in [Workers -> Run \cup {Idle}]
    <3>1. CASE run' = [run EXCEPT ![w] = [@ EXCEPT !.pc = "profile",
                                                   !.edition = doc[Key0(w).doc].edition]]
      <4>1. doc[Key0(w).doc].edition \in Nat
        BY <1>a, <1>c DEF Document
      <4>2. [run[w] EXCEPT !.pc = "profile", !.edition = doc[Key0(w).doc].edition] \in Run
        BY <1>c, <4>1, RunMoves DEF PCs, Failures
      <4>3. QED
        BY <3>1, <4>2, RunTyped
    <3>2. CASE Ends(w, "skip") \/ Ends(w, "complete")
      BY <1>b, <3>2, MovesTyped DEF PCs
    <3>3. QED
      BY <1>1, <3>1, <3>2 DEF Load
  <2>2. QED
    BY <1>1, <1>a, <1>b, <1>d, <2>1, TypeFrame DEF Load
<1>2. CASE EmbedProfile(w)
  <2>1. run' \in [Workers -> Run \cup {Idle}]
    BY <1>2, <1>b, MovesTyped DEF EmbedProfile, Fails, PCs
  <2>2. QED
    BY <1>2, <1>a, <1>b, <1>d, <2>1, TypeFrame DEF EmbedProfile
<1>3. CASE Commit(w)
  <2>1. run' \in [Workers -> Run \cup {Idle}]
    BY <1>3, <1>b, MovesTyped DEF Commit, PCs
  <2>2. CASE doc' = doc
    BY <1>a, <1>b, <1>d, <2>1, <2>2, TypeFrame
  <2>3. CASE /\ doc' = [doc EXCEPT ![Key0(w).doc].covered = @ \cup {Key0(w).space}]
             /\ Wanted(Key0(w))
    <3>1. /\ doc[Key0(w).doc] \in Document
          /\ doc[Key0(w).doc].covered \cup {Key0(w).space} \in SUBSET Spaces
      BY <1>a, <1>c, <2>3, KeysTyped DEF Wanted, Document
    <3>2. [doc[Key0(w).doc] EXCEPT !.covered = doc[Key0(w).doc].covered \cup {Key0(w).space}]
            \in Document
      BY <3>1 DEF Document
    <3>3. doc' \in [Docs -> Document]
      BY <1>a, <1>c, <2>3, <3>2
    <3>4. QED
      BY <1>a, <1>b, <1>d, <2>1, <3>3, TypeFrame
  <2>4. QED
    BY <1>3, <2>2, <2>3 DEF Commit
<1>4. QED
  BY <1>1, <1>2, <1>3

(* The end of a run, whichever it is.                                      *)
LEMMA TypeEndings ==
  ASSUME TypeOK, NEW w \in Workers,
         \/ Complete(w) \/ Skip(w) \/ Reschedule(w) \/ Requeue(w)
         \/ CheckPublished(w) \/ FailDocument(w) \/ FailProfile(w)
  PROVE  TypeOK'
<1>a. /\ doc \in [Docs -> Document] /\ ProfileOK /\ Queue(jobs)
      /\ run \in [Workers -> Run \cup {Idle}] /\ RestOK
  BY TypeParts
<1>b. /\ profile' = profile /\ quarantined' = quarantined /\ retired' = retired
      /\ run[w].pc # "idle" /\ RestOK'
  BY <1>a DEF Complete, Skip, Reschedule, Requeue, CheckPublished, FailDocument, FailProfile,
              At, Settings, Beside, RestOK
<1>1. run' \in [Workers -> Run \cup {Idle}]
  BY <1>b, MovesTyped DEF Complete, Skip, Reschedule, Requeue, CheckPublished, FailDocument,
                          FailProfile, PCs
<1>2. doc' \in [Docs -> Document]
  <2>1. CASE doc' = doc
    BY <1>a, <2>1
  <2>2. CASE SetStatus(w, "queued") \/ SetStatus(w, "failed")
    BY <1>b, <2>2, StatusTyped
  <2>3. QED
    BY <2>1, <2>2 DEF Complete, Skip, Reschedule, Requeue, CheckPublished, FailDocument,
                      FailProfile
<1>3. Queue(jobs')
  <2>1. CASE jobs' = jobs
    BY <1>a, <2>1
  <2>2. CASE \E status \in {"completed", "skipped", "failed"} :
               jobs' = Resolved(jobs, Key0(w), status)
    BY <1>a, <2>2, ResolvedFacts
  <2>3. CASE Reschedule(w)
    <3>1. \A i \in DOMAIN jobs : i \in Key /\ jobs[i] \in Job
                               /\ [jobs[i] EXCEPT !.status = "queued"] \in Job
      BY <1>a DEF Queue, Job
    <3>2. QED
      BY <1>a, <2>3, <3>1 DEF Queue, Reschedule
  <2>4. QED
    BY <2>1, <2>2, <2>3
       DEF Complete, Skip, Requeue, CheckPublished, FailDocument, FailProfile
<1>4. QED
  BY <1>b, <1>1, <1>2, <1>3, TypeFrame

(* What a failed profile job does to its transition.                       *)
LEMMA TypeRecord ==
  ASSUME TypeOK, NEW w \in Workers, Record(w)
  PROVE  TypeOK'
<1>a. /\ doc \in [Docs -> Document] /\ ProfileOK /\ Queue(jobs)
      /\ run \in [Workers -> Run \cup {Idle}] /\ RestOK
  BY TypeParts
<1>b. /\ profile.active \in Spaces /\ profile.generation + 1 \in Nat
      /\ profile.target \in Spaces \cup {NoSpace} /\ profile.pending \in Spaces \cup {NoSpace}
  BY <1>a DEF ProfileOK, Profile
<1>1. run' \in [Workers -> Run \cup {Idle}]
  BY MovesTyped DEF Record, At
<1>2. ProfileOK'
  <2>1. CASE profile' = profile /\ quarantined' = quarantined
    BY <1>a, <2>1 DEF Record, ProfileOK
  <2>2. ASSUME NEW status \in {"blocked", "quarantined"}, Building,
               profile' = [profile EXCEPT !.status = status],
               quarantined' \in {quarantined, quarantined \cup {profile.pending}}
        PROVE  ProfileOK'
    <3>1. profile' = [active |-> profile.active, pending |-> profile.pending,
                      generation |-> profile.generation, target |-> profile.target,
                      status |-> status]
      BY <1>a, <2>2 DEF ProfileOK, Profile
    <3>2. profile.pending # NoSpace /\ profile.pending \in Spaces
      BY <1>a, <1>b, <2>2 DEF Building, ProfileOK, Unpromoted
    <3>3. retired' = retired /\ quarantined' \subseteq Spaces
      BY <1>a, <2>2, <3>2 DEF Record, ProfileOK
    <3>4. profile' \in Profile
      BY <1>a, <3>1 DEF ProfileOK, Profile, Unpromoted
    <3>5. QED
      BY <1>a, <2>2, <3>1, <3>2, <3>3, <3>4 DEF Building, ProfileOK, Unpromoted
  <2>3. CASE /\ quarantined' = quarantined
             /\ profile' = [profile EXCEPT !.pending = NoSpace, !.status = "failed",
                                           !.generation = @ + 1]
    <3>1. profile' = [active |-> profile.active, pending |-> NoSpace,
                      generation |-> profile.generation + 1, target |-> profile.target,
                      status |-> "failed"]
      BY <1>a, <2>3 DEF ProfileOK, Profile
    <3>2. retired' = retired
      BY DEF Record
    <3>3. QED
      BY <1>a, <1>b, <2>3, <3>1, <3>2, EmbeddingTransitionAssumption
         DEF ProfileOK, Profile, Unpromoted
  <2>4. QED
    BY <2>1, <2>2, <2>3 DEF Record
<1>3. QED
  BY <1>a, <1>1, <1>2 DEF Record, Beside, TypeOK, ProfileOK, RestOK

(* Every step keeps the types.                                             *)
LEMMA TypeStep ==
  ASSUME TypeOK, [Next]_vars
  PROVE  TypeOK'
<1>1. CASE UNCHANGED vars
  BY <1>1 DEF vars, TypeOK
<1>2. ASSUME NEW w \in Workers, Step(w) PROVE TypeOK'
  BY <1>2, TypeDocumentRun, TypeProfileRun, TypeEndings, TypeRecord DEF Step
<1>3. QED
  BY <1>1, <1>2, TypeTransition, TypeDocuments, TypeClaims DEF Next

-----------------------------------------------------------------------------
(* What retrieval serves is searchable.                                    *)

(* A step that neither changes the active space, nor makes a document      *)
(* ready, nor takes its vectors in the active space away.                  *)
LEMMA SearchableFrame ==
  ASSUME RetrievableIsSearchable, profile'.active = profile.active, hidden' = hidden,
         \A d \in Docs : doc'[d].status = "ready" =>
                          /\ doc[d].status = "ready"
                          /\ profile.active \in doc[d].covered =>
                               profile.active \in doc'[d].covered
  PROVE  RetrievableIsSearchable'
BY DEF RetrievableIsSearchable

(* A worker that sets a status other than ready.                           *)
LEMMA StatusKeeps ==
  ASSUME TypeOK, NEW w \in Workers, run[w].pc # "idle",
         NEW status \in {"queued", "processing", "failed"}, SetStatus(w, status)
  PROVE  \A d \in Docs : /\ doc'[d].status = "ready" => doc[d].status = "ready"
                         /\ doc'[d].revision = doc[d].revision
                         /\ doc'[d].covered = doc[d].covered
                         /\ doc'[d].edition = doc[d].edition
<1>1. doc \in [Docs -> Document] /\ Key0(w).doc \in Docs
  BY Running DEF TypeOK
<1>2. \A d \in Docs : doc'[d] = doc[d] \/ doc'[d] = [doc[d] EXCEPT !.status = status]
  BY <1>1 DEF SetStatus
<1>3. ASSUME NEW d \in Docs
      PROVE  LET e == [doc[d] EXCEPT !.status = status]
             IN  /\ e.status = status /\ e.revision = doc[d].revision
                 /\ e.covered = doc[d].covered /\ e.edition = doc[d].edition
  <2>1. doc[d] \in Document
    BY <1>1
  <2>2. QED
    BY <2>1 DEF Document
<1>4. QED
  BY <1>2, <1>3

(* The inductive step.  Publication covers the active space, promotion     *)
(* counts what is retrievable and records what it passes over, cleanup     *)
(* spares the targets, and nothing else touches the vectors in use.        *)
LEMMA SearchableStep ==
  ASSUME TypeOK, RetrievableIsSearchable, [Next]_vars
  PROVE  RetrievableIsSearchable'
<1>a. /\ doc \in [Docs -> Document] /\ profile \in Profile
      /\ profile.active \in Targets
  BY KeysTyped DEF TypeOK
<1>1. CASE UNCHANGED vars
  BY <1>1 DEF vars, RetrievableIsSearchable
<1>2. ASSUME NEW s \in Spaces, Start(s) PROVE RetrievableIsSearchable'
  BY <1>2, <1>a, SearchableFrame DEF Start, Profile
<1>3. ASSUME NEW s \in Spaces, Cleanup(s) PROVE RetrievableIsSearchable'
  <2>1. s # profile.active /\ profile' = profile /\ hidden' = hidden
    BY <1>3, <1>a DEF Cleanup
  <2>2. \A d \in Docs : /\ doc'[d].status = doc[d].status
                        /\ doc'[d].covered = doc[d].covered \ {s}
    BY <1>3, <1>a DEF Cleanup, Document
  <2>3. QED
    BY <2>1, <2>2, SearchableFrame
<1>4. CASE Ensure \/ Backfill \/ CancelWork
  BY <1>4, SearchableFrame DEF Ensure, Backfill, CancelWork
<1>5. CASE Promote
  <2>1. profile'.active = profile.pending
    BY <1>5, <1>a DEF Promote, Profile
  <2>2. \A d \in Uncovered(profile.pending) : ~ doc[d].enabled
    BY <1>5 DEF Promote, Promotable, Retrievable, Uncovered
  <2>3. doc' = doc /\ hidden' = {d \in Uncovered(profile.pending) : ~ doc[d].enabled}
    BY <1>5 DEF Promote
  <2>4. QED
    BY <2>1, <2>2, <2>3 DEF RetrievableIsSearchable, Uncovered
<1>6. CASE Block \/ Cancel
  BY <1>6, <1>a, SearchableFrame DEF Block, Cancel, Profile
<1>7. ASSUME NEW d \in Docs, Update(d) PROVE RetrievableIsSearchable'
  <2>1. \A e \in Docs : doc'[e].status = "ready" => doc'[e] = doc[e]
    BY <1>7, <1>a DEF Update, Document
  <2>2. QED
    BY <1>7, <2>1, SearchableFrame DEF Update
<1>8. ASSUME NEW d \in Docs, Switch(d) PROVE RetrievableIsSearchable'
  <2>1. \A e \in Docs : doc'[e].status = doc[e].status /\ doc'[e].covered = doc[e].covered
    BY <1>8, <1>a DEF Switch, Document
  <2>2. QED
    BY <1>8, <2>1, SearchableFrame DEF Switch
<1>9. ASSUME NEW d \in Docs, Reconcile(d) \/ LoseReconcile(d) PROVE RetrievableIsSearchable'
  BY <1>9, SearchableFrame DEF Reconcile, LoseReconcile
<1>10. ASSUME NEW w \in Workers, Step(w) PROVE RetrievableIsSearchable'
  <2>a. run[w].pc # "idle" /\ Key0(w).doc \in Docs
    <3>1. run[w].pc # "idle"
      BY <1>10 DEF Step, Begin, Embed, Publish, Published, Load, EmbedProfile, Commit, Complete,
                   Skip, Reschedule, Requeue, CheckPublished, FailDocument, FailProfile,
                   Record, At
    <3>2. QED
      BY <3>1, Running
  <2>1. CASE Publish(w)
    <3>1. CASE UNCHANGED <<doc, hidden>>
      BY <2>1, <3>1, SearchableFrame DEF Publish, Settings
    <3>2. CASE /\ run[w].space = profile.active
               /\ doc' = [doc EXCEPT ![Key0(w).doc].status = "ready",
                                     ![Key0(w).doc].covered = {run[w].space},
                                     ![Key0(w).doc].edition = @ + 1]
               /\ hidden' = hidden \ {Key0(w).doc}
      <4>1. doc'[Key0(w).doc].covered = {profile.active}
        BY <1>a, <2>a, <3>2 DEF Document
      <4>2. \A d \in Docs \ {Key0(w).doc} : doc'[d] = doc[d]
        BY <1>a, <3>2
      <4>3. profile' = profile
        BY <2>1 DEF Publish, Settings
      <4>4. QED
        BY <3>2, <4>1, <4>2, <4>3 DEF RetrievableIsSearchable
    <3>3. QED
      BY <2>1, <3>1, <3>2 DEF Publish
  <2>2. CASE Commit(w)
    <3>1. /\ profile' = profile /\ hidden' = hidden
          /\ \/ doc' = doc
             \/ doc' = [doc EXCEPT ![Key0(w).doc].covered = @ \cup {Key0(w).space}]
      BY <2>2 DEF Commit, Settings, Beside
    <3>2. \A d \in Docs : /\ doc'[d].status = doc[d].status
                          /\ doc[d].covered \subseteq doc'[d].covered
      BY <1>a, <2>a, <3>1 DEF Document
    <3>3. QED
      BY <3>1, <3>2, SearchableFrame
  <2>3. CASE Begin(w) \/ Requeue(w) \/ FailDocument(w)
    <3>1. profile' = profile /\ hidden' = hidden
      BY <2>3 DEF Begin, Requeue, FailDocument, Settings, Beside
    <3>2. \/ doc' = doc
          \/ \E status \in {"queued", "processing", "failed"} : SetStatus(w, status)
      BY <2>3 DEF Begin, Requeue, FailDocument
    <3>3. \A d \in Docs : /\ doc'[d].status = "ready" => doc[d].status = "ready"
                          /\ doc'[d].covered = doc[d].covered
      BY <2>a, <3>2, StatusKeeps
    <3>4. QED
      BY <3>1, <3>3, SearchableFrame
  <2>4. CASE Record(w)
    <3>1. doc' = doc /\ hidden' = hidden /\ profile'.active = profile.active
      BY <2>4, <1>a DEF Record, Beside, Profile
    <3>2. QED
      BY <3>1, SearchableFrame
  <2>5. CASE \/ Embed(w) \/ Published(w) \/ Load(w) \/ EmbedProfile(w) \/ Complete(w)
             \/ Skip(w) \/ Reschedule(w) \/ CheckPublished(w) \/ FailProfile(w)
    <3>1. doc' = doc /\ hidden' = hidden /\ profile' = profile
      BY <2>5 DEF Embed, Published, Load, EmbedProfile, Complete, Skip, Reschedule,
                  CheckPublished, FailProfile, Settings, Beside
    <3>2. QED
      BY <3>1, SearchableFrame
  <2>6. QED
    BY <1>10, <2>1, <2>2, <2>3, <2>4, <2>5 DEF Step
<1>11. ASSUME NEW w \in Workers,
              Crash(w) \/ \E k \in DOMAIN jobs : Claim(w, k) \/ Sweep(w, k)
       PROVE  RetrievableIsSearchable'
  <2>1. doc' = doc /\ hidden' = hidden /\ profile' = profile
    BY <1>11 DEF Crash, Claim, Sweep, Settings, Beside
  <2>2. QED
    BY <2>1, SearchableFrame
<1>12. QED
  BY <1>1, <1>2, <1>3, <1>4, <1>5, <1>6, <1>7, <1>8, <1>9, <1>10, <1>11 DEF Next

-----------------------------------------------------------------------------
(* What completed jobs have done.                                          *)

(* The pins of profile job k are current, and its document's chunks are    *)
(* the ones first published for the revision.                              *)
Pinned(k) ==
  /\ doc[k.doc].revision = k.revision /\ doc[k.doc].edition = 1
  /\ profile.generation = k.generation /\ k.space \in Targets

Done(k) == k.kind = "profile" /\ Pinned(k) => k.space \in doc[k.doc].covered

(* A job names no revision and no generation still to come, and a profile  *)
(* job is of a revision that was published.                                *)
Timely(k) ==
  k.kind = "profile" => /\ k.revision <= doc[k.doc].revision
                        /\ k.generation <= profile.generation
                        /\ k.revision = doc[k.doc].revision => doc[k.doc].edition # 0

(* A run has a job of its kind, and one about to complete a job has done   *)
(* the job's work.                                                         *)
RunOK(w) ==
  run[w] # Idle =>
    /\ run[w].key \in DOMAIN jobs
    /\ run[w].pc \in {"begin", "embed", "publish", "published"} => run[w].key.kind = "vectorize"
    /\ run[w].pc = "complete" => Done(run[w].key)

PinInv ==
  /\ \A k \in DOMAIN jobs : Timely(k) /\ (jobs[k].status = "completed" => Done(k))
  /\ \A d \in Docs : doc[d].status = "ready" => doc[d].edition # 0
  /\ \A w \in Workers : RunOK(w)

(* What a step may do to the documents and to the profile: revisions and   *)
(* generations grow, targets change with the generation only, and vectors  *)
(* of a target go only with the chunks.                                    *)
WorldGrows ==
  /\ profile'.generation \in Nat /\ profile'.generation >= profile.generation
  /\ profile'.generation = profile.generation => Targets' = Targets
  /\ \A d \in Docs :
       /\ doc'[d].revision \in Nat /\ doc'[d].edition \in Nat
       /\ doc'[d].status = "ready" => doc[d].status = "ready" \/ doc'[d].edition # 0
       /\ \/ doc'[d].revision > doc[d].revision /\ doc'[d].status # "ready"
          \/ /\ doc'[d].revision = doc[d].revision
             /\ \/ doc'[d].edition = doc[d].edition + 1
                \/ /\ doc'[d].edition = doc[d].edition
                   /\ doc[d].covered \cap Targets' \subseteq doc'[d].covered

(* What it may do to the queue: new jobs wait and are timely, and a job is *)
(* completed by the run that has done its work.                            *)
QueueGrows ==
  /\ DOMAIN jobs \subseteq DOMAIN jobs'
  /\ \A k \in DOMAIN jobs' \ DOMAIN jobs : jobs'[k].status = "queued" /\ Timely(k)'
  /\ \A k \in DOMAIN jobs : jobs'[k].status = "completed" =>
       \/ jobs[k].status = "completed"
       \/ \E w \in Workers : run[w] # Idle /\ run[w].pc = "complete" /\ run[w].key = k

(* What it may do to the run of worker w.                                  *)
RunGoesOn(w) ==
  run'[w] = run[w] \/ RunOK(w)'

(* Work that is done and still wanted stays done.                          *)
LEMMA DoneStays ==
  ASSUME TypeOK, PinInv, WorldGrows, NEW k \in DOMAIN jobs
  PROVE  Timely(k)' /\ (Done(k) => Done(k)')
<1>1. /\ k.doc \in Docs /\ k.revision \in Nat /\ k.generation \in Nat /\ Timely(k)
      /\ doc[k.doc].revision \in Nat /\ doc[k.doc].edition \in Nat /\ profile.generation \in Nat
  BY KeysTyped DEF TypeOK, Queue, Key, PinInv
<1>2. Timely(k)'
  BY <1>1 DEF WorldGrows, Timely
<1>3. ASSUME Done(k), k.kind = "profile", Pinned(k)' PROVE k.space \in doc'[k.doc].covered
  <2>1. doc'[k.doc].revision = doc[k.doc].revision /\ doc[k.doc].revision = k.revision
    BY <1>1, <1>3 DEF WorldGrows, Pinned, Timely
  <2>2. profile'.generation = profile.generation /\ Targets' = Targets
    BY <1>1, <1>3 DEF WorldGrows, Pinned, Timely
  <2>3. doc[k.doc].edition # 0
    BY <1>1, <1>3, <2>1 DEF Timely
  <2>4. doc'[k.doc].edition = doc[k.doc].edition
    <3>1. doc'[k.doc].edition = 1
      BY <1>3 DEF Pinned
    <3>2. \/ doc'[k.doc].edition = doc[k.doc].edition + 1
          \/ doc'[k.doc].edition = doc[k.doc].edition
      BY <1>1, <2>1 DEF WorldGrows
    <3>3. QED
      BY <1>1, <2>3, <3>1, <3>2
  <2>5. doc[k.doc].covered \cap Targets' \subseteq doc'[k.doc].covered
    BY <1>1, <2>1, <2>4 DEF WorldGrows
  <2>6. Pinned(k)
    BY <1>3, <2>1, <2>2, <2>4 DEF Pinned
  <2>7. QED
    BY <1>3, <2>2, <2>5, <2>6 DEF Done, Pinned
<1>4. QED
  BY <1>2, <1>3 DEF Done

(* A step within these bounds keeps the invariant.                         *)
LEMMA PinFrame ==
  ASSUME TypeOK, PinInv, WorldGrows, QueueGrows, \A w \in Workers : RunGoesOn(w)
  PROVE  PinInv'
<1>1. \A k \in DOMAIN jobs : Timely(k)' /\ (Done(k) => Done(k)')
  BY DoneStays
<1>2. ASSUME NEW k \in DOMAIN jobs'
      PROVE  Timely(k)' /\ (jobs'[k].status = "completed" => Done(k)')
  <2>1. CASE k \notin DOMAIN jobs
    BY <1>2, <2>1 DEF QueueGrows
  <2>2. CASE k \in DOMAIN jobs
    <3>1. jobs'[k].status = "completed" => Done(k)
      BY <2>2 DEF QueueGrows, PinInv, RunOK
    <3>2. QED
      BY <1>1, <2>2, <3>1
  <2>3. QED
    BY <2>1, <2>2
<1>3. \A d \in Docs : doc'[d].status = "ready" => doc'[d].edition # 0
  BY KeysTyped DEF WorldGrows, PinInv
<1>4. ASSUME NEW w \in Workers PROVE RunOK(w)'
  <2>1. CASE RunOK(w)'
    BY <2>1
  <2>2. CASE run'[w] = run[w] /\ run[w] # Idle
    <3>1. /\ run[w].key \in DOMAIN jobs /\ DOMAIN jobs \subseteq DOMAIN jobs'
          /\ run[w].pc \in {"begin", "embed", "publish", "published"} =>
               run[w].key.kind = "vectorize"
          /\ run[w].pc = "complete" => Done(run[w].key)
      BY <2>2 DEF PinInv, RunOK, QueueGrows
    <3>2. PICK k \in DOMAIN jobs : k = run[w].key
      BY <3>1
    <3>3. run[w].pc = "complete" => Done(k)'
      BY <1>1, <3>1, <3>2
    <3>4. run'[w].key = k /\ run'[w].pc = run[w].pc
      BY <2>2, <3>2
    <3>5. run'[w].pc = "complete" => Done(run[w].key)'
      BY <2>2, <3>3, <3>4 DEF Done, Pinned, Targets
    <3>6. QED
      BY <2>2, <3>1, <3>2, <3>4, <3>5 DEF RunOK
  <2>3. QED
    BY <2>1, <2>2 DEF RunGoesOn, RunOK
<1>5. QED
  BY <1>2, <1>3, <1>4 DEF PinInv

(* A step that leaves the documents and the profile alone.                 *)
LEMMA WorldSame ==
  ASSUME TypeOK, doc' = doc, profile' = profile
  PROVE  WorldGrows
<1>1. Targets' = Targets
  BY DEF Targets
<1>2. QED
  BY <1>1, KeysTyped DEF WorldGrows

(* A step that changes the profile, and its targets with the generation.   *)
LEMMA WorldProfile ==
  ASSUME TypeOK, doc' = doc, profile'.generation \in Nat,
         \/ profile'.generation > profile.generation
         \/ profile'.generation = profile.generation /\ Targets' = Targets
  PROVE  WorldGrows
BY KeysTyped DEF WorldGrows

(* A step that inserts timely jobs.                                        *)
LEMMA QueueInserts ==
  ASSUME TypeOK, NEW K \in SUBSET Key, jobs' = Enqueued(jobs, K), \A k \in K : Timely(k)'
  PROVE  QueueGrows
<1>1. /\ DOMAIN jobs' = DOMAIN jobs \cup K
      /\ \A k \in DOMAIN jobs : jobs'[k] = jobs[k]
      /\ \A k \in K \ DOMAIN jobs : jobs'[k] = NewJob
  BY EnqueuedFacts, ZenonT(40) DEF TypeOK
<1>2. NewJob.status = "queued"
  BY DEF NewJob
<1>3. QED
  BY <1>1, <1>2 DEF QueueGrows

(* A step that inserts nothing and completes nothing.                      *)
LEMMA QueueCompletesNone ==
  ASSUME DOMAIN jobs' = DOMAIN jobs,
         \A k \in DOMAIN jobs : jobs'[k] = jobs[k] \/ jobs'[k].status # "completed"
  PROVE  QueueGrows
BY DEF QueueGrows

(* The backfill's keys are timely, as long as the world stands still.      *)
LEMMA CurrentKeysTimely ==
  ASSUME TypeOK, doc' = doc, profile' = profile,
         NEW d \in Docs, NEW s, doc[d].edition # 0
  PROVE  Timely(CurrentKey(d, s))'
<1> DEFINE k == ProfileKey(d, doc[d].revision, s, profile.generation)
<1>1. /\ k.doc = d /\ k.revision = doc[d].revision /\ k.generation = profile.generation
      /\ doc[d].revision \in Nat /\ profile.generation \in Nat
  BY KeysTyped DEF ProfileKey
<1>2. CurrentKey(d, s)' = k /\ CurrentKey(d, s) = k
  BY DEF CurrentKey
<1> HIDE DEF k
<1>3. QED
  BY <1>1, <1>2 DEF Timely

(* The backfill: it skips and it inserts.                                  *)
LEMMA QueueReconciles ==
  ASSUME TypeOK, PinInv, doc' = doc, profile' = profile, jobs' = Reconciled(jobs)
  PROVE  QueueGrows
<1>1. /\ DOMAIN jobs' = DOMAIN jobs \cup Gaps
      /\ \A k \in DOMAIN jobs : jobs'[k] = jobs[k] \/ jobs'[k].status = "skipped"
      /\ \A k \in Gaps \ DOMAIN jobs : jobs'[k] = NewJob
  BY ReconciledFacts
<1>2. ASSUME NEW k \in Gaps PROVE Timely(k)'
  <2>1. PICK d \in Docs, s \in Targets : k = CurrentKey(d, s) /\ doc[d].status = "ready"
    BY <1>2 DEF Gaps, Retrievable
  <2>2. doc[d].edition # 0
    BY <2>1 DEF PinInv
  <2>3. \A z : z = CurrentKey(d, s) => z = CurrentKey(d, s)'
    BY DEF CurrentKey
  <2>4. Timely(CurrentKey(d, s))'
    BY <2>2, CurrentKeysTimely
  <2>5. QED
    BY <2>1, <2>4 DEF Timely, CurrentKey
<1>3. NewJob.status = "queued"
  BY DEF NewJob
<1>4. QED
  BY <1>1, <1>2, <1>3 DEF QueueGrows

(* A step that leaves the runs alone.                                      *)
LEMMA RunsSame ==
  ASSUME run' = run
  PROVE  \A w \in Workers : RunGoesOn(w)
BY DEF RunGoesOn

(* A step of a single worker.                                              *)
LEMMA RunMoved ==
  ASSUME TypeOK, NEW w \in Workers, NEW r, run' = [run EXCEPT ![w] = r],
         r # Idle =>
           /\ r.key \in DOMAIN jobs'
           /\ r.pc \in {"begin", "embed", "publish", "published"} => r.key.kind = "vectorize"
           /\ r.pc = "complete" => Done(r.key)'
  PROVE  \A v \in Workers : RunGoesOn(v)
<1>1. run \in [Workers -> Run \cup {Idle}]
  BY DEF TypeOK
<1>2. run'[w] = r
  BY <1>1
<1>3. RunOK(w)'
  BY <1>2 DEF RunOK, Done, Pinned, Targets
<1>4. \A v \in Workers \ {w} : run'[v] = run[v]
  BY <1>1
<1>5. QED
  BY <1>3, <1>4 DEF RunGoesOn

(* The transition's own steps.                                             *)
LEMMA PinTransition ==
  ASSUME TypeOK, PinInv,
         \/ \E s \in Spaces : Start(s) \/ Cleanup(s)
         \/ Ensure \/ Backfill \/ Promote \/ Block \/ Cancel \/ CancelWork
  PROVE  PinInv'
<1>a. /\ doc \in [Docs -> Document] /\ profile \in Profile
      /\ profile.generation \in Nat /\ profile.generation + 1 \in Nat
      /\ profile.generation + 1 > profile.generation
  BY DEF TypeOK, Profile
<1>b. \A w \in Workers : RunGoesOn(w)
  BY RunsSame DEF Start, Cleanup, Ensure, Backfill, Promote, Block, Cancel, CancelWork
<1>1. ASSUME jobs' = jobs, doc' = doc,
             \/ profile'.generation = profile.generation + 1
             \/ profile'.generation = profile.generation /\ Targets' = Targets
      PROVE  PinInv'
  <2>1. WorldGrows
    BY <1>1, <1>a, WorldProfile
  <2>2. QueueGrows
    BY <1>1, QueueCompletesNone
  <2>3. QED
    BY <1>b, <2>1, <2>2, PinFrame
<1>2. ASSUME NEW s \in Spaces, Start(s) PROVE PinInv'
  BY <1>1, <1>2, <1>a DEF Start, Profile
<1>3. CASE Promote \/ Cancel
  BY <1>1, <1>3, <1>a DEF Promote, Cancel, Profile
<1>4. CASE Block
  BY <1>1, <1>4, <1>a DEF Block, Profile, Targets
<1>5. ASSUME NEW s \in Spaces, Cleanup(s) PROVE PinInv'
  <2>1. profile' = profile /\ Targets' = Targets /\ s \notin Targets
    BY <1>5 DEF Cleanup, Targets
  <2>2. \A d \in Docs : /\ doc'[d].revision = doc[d].revision /\ doc'[d].status = doc[d].status
                        /\ doc'[d].edition = doc[d].edition
                        /\ doc'[d].covered = doc[d].covered \ {s}
    BY <1>5, <1>a DEF Cleanup, Document
  <2>3. WorldGrows
    BY <2>1, <2>2, KeysTyped DEF WorldGrows
  <2>4. QueueGrows
    BY <1>5, QueueCompletesNone DEF Cleanup
  <2>5. QED
    BY <1>b, <2>3, <2>4, PinFrame
<1>6. CASE Ensure
  <2>1. doc' = doc /\ profile' = profile
    BY <1>6 DEF Ensure
  <2> DEFINE K == {CurrentKey(d, profile.pending) : d \in {e \in Docs : Retrievable(e)}}
  <2>2. profile.pending \in Spaces
    BY <1>6 DEF Ensure, Building, TypeOK, Profile, Unpromoted
  <2>3. K \in SUBSET Key
    BY <2>2, KeysTyped
  <2>4. ASSUME NEW k \in K PROVE Timely(k)'
    <3>1. PICK d \in Docs : k = CurrentKey(d, profile.pending) /\ doc[d].status = "ready"
      BY <2>4 DEF Retrievable
    <3>2. PICK s \in Spaces : s = profile.pending
      BY <2>2
    <3>3. doc[d].edition # 0
      BY <3>1 DEF PinInv
    <3>4. Timely(CurrentKey(d, s))'
      BY <2>1, <3>3, CurrentKeysTimely
    <3>5. QED
      BY <2>1, <3>1, <3>2, <3>4 DEF Timely, CurrentKey
  <2>5. jobs' = Enqueued(jobs, K)
    BY <1>6 DEF Ensure, Ensured
  <2> HIDE DEF K
  <2>6. QueueGrows
    BY <2>3, <2>4, <2>5, QueueInserts
  <2>7. QED
    BY <1>b, <2>1, <2>6, WorldSame, PinFrame
<1>7. CASE Backfill
  BY <1>7, <1>b, WorldSame, QueueReconciles, PinFrame DEF Backfill
<1>8. CASE CancelWork
  <2>1. QueueGrows
    <3>1. PICK K \in SUBSET DOMAIN jobs : jobs' = Skipped(jobs, K)
      BY <1>8 DEF CancelWork
    <3>2. /\ DOMAIN jobs' = DOMAIN jobs
          /\ \A k \in DOMAIN jobs : jobs'[k] = jobs[k] \/ jobs'[k].status = "skipped"
      BY <3>1, SkippedFacts DEF TypeOK
    <3>3. QED
      BY <3>2, QueueCompletesNone
  <2>2. QED
    BY <1>8, <1>b, <2>1, WorldSame, PinFrame DEF CancelWork
<1>9. QED
  BY <1>2, <1>3, <1>4, <1>5, <1>6, <1>7, <1>8

(* Edits of documents and of their settings.                               *)
LEMMA PinDocuments ==
  ASSUME TypeOK, PinInv, NEW d \in Docs,
         Update(d) \/ Switch(d) \/ Reconcile(d) \/ LoseReconcile(d)
  PROVE  PinInv'
<1>a. doc \in [Docs -> Document] /\ doc[d].revision \in Nat
  BY KeysTyped DEF TypeOK
<1>b. \A w \in Workers : RunGoesOn(w)
  BY RunsSame DEF Update, Switch, Reconcile, LoseReconcile
<1>1. CASE Update(d)
  <2>1. /\ doc'[d].revision = doc[d].revision + 1 /\ doc'[d].status = "queued"
        /\ doc'[d].edition = 0 /\ \A e \in Docs \ {d} : doc'[e] = doc[e]
    BY <1>1, <1>a DEF Update, Document
  <2>2. profile' = profile /\ Targets' = Targets
    BY <1>1 DEF Update, Targets
  <2>3. WorldGrows
    <3>1. doc'[d].revision \in Nat /\ doc'[d].revision > doc[d].revision
      BY <1>a, <2>1
    <3>2. QED
      BY <2>1, <2>2, <3>1, KeysTyped DEF WorldGrows
  <2>4. QueueGrows
    <3>1. PICK k : k = VectorizeKey(d, doc[d].revision + 1)
      OBVIOUS
    <3>2. {k} \in SUBSET Key /\ k.kind = "vectorize"
      BY <1>a, <3>1, KeysTyped DEF VectorizeKey
    <3>3. jobs' = Enqueued(jobs, {k})
      BY <1>1, <3>1 DEF Update
    <3>4. QED
      BY <3>2, <3>3, QueueInserts DEF Timely
  <2>5. QED
    BY <1>b, <2>3, <2>4, PinFrame
<1>2. CASE Switch(d)
  <2>1. \A e \in Docs : /\ doc'[e].revision = doc[e].revision /\ doc'[e].status = doc[e].status
                        /\ doc'[e].edition = doc[e].edition
                        /\ doc'[e].covered = doc[e].covered
    BY <1>2, <1>a DEF Switch, Document
  <2>2. profile' = profile /\ Targets' = Targets /\ jobs' = jobs
    BY <1>2 DEF Switch, Targets
  <2>3. WorldGrows
    BY <2>1, <2>2, KeysTyped DEF WorldGrows
  <2>4. QED
    BY <1>b, <2>2, <2>3, QueueCompletesNone, PinFrame
<1>3. CASE Reconcile(d)
  BY <1>3, <1>b, WorldSame, QueueReconciles, PinFrame DEF Reconcile
<1>4. CASE LoseReconcile(d)
  BY <1>4, <1>b, WorldSame, QueueCompletesNone, PinFrame DEF LoseReconcile
<1>5. QED
  BY <1>1, <1>2, <1>3, <1>4

(* Claims, sweeps and crashes.                                             *)
LEMMA PinClaims ==
  ASSUME TypeOK, PinInv, NEW w \in Workers,
         \/ \E k \in DOMAIN jobs : Claim(w, k) \/ Sweep(w, k)
         \/ Crash(w)
  PROVE  PinInv'
<1>a. /\ doc' = doc /\ profile' = profile
      /\ \A k \in DOMAIN jobs : k \in Key /\ jobs[k] \in Job
  BY DEF Claim, Sweep, Crash, Settings, TypeOK, Queue
<1>1. ASSUME NEW k \in DOMAIN jobs, Claim(w, k) PROVE PinInv'
  <2>1. /\ DOMAIN jobs' = DOMAIN jobs
        /\ \A i \in DOMAIN jobs : jobs'[i] = jobs[i] \/ jobs'[i].status # "completed"
    BY <1>1, <1>a DEF Claim, Job
  <2> DEFINE r == [pc |-> IF k.kind = "vectorize" THEN "begin" ELSE "load", key |-> k,
                   attempt |-> jobs[k].attempts + 1, space |-> NoSpace, edition |-> 0,
                   failure |-> "none"]
  <2>2. /\ run' = [run EXCEPT ![w] = r] /\ r.key = k /\ r.pc # "complete"
        /\ r.pc \in {"begin", "embed", "publish", "published"} => k.kind = "vectorize"
    BY <1>1 DEF Claim
  <2> HIDE DEF r
  <2>3. \A v \in Workers : RunGoesOn(v)
    BY <2>1, <2>2, RunMoved
  <2>4. QED
    BY <1>a, <2>1, <2>3, QueueCompletesNone, WorldSame, PinFrame
<1>2. ASSUME NEW k \in DOMAIN jobs, Sweep(w, k) PROVE PinInv'
  <2>1. /\ DOMAIN jobs' = DOMAIN jobs
        /\ \A i \in DOMAIN jobs : jobs'[i] = jobs[i] \/ jobs'[i].status # "completed"
    BY <1>2, <1>a DEF Sweep, Job
  <2> DEFINE r == [pc |-> "failing", key |-> k, attempt |-> jobs[k].attempts,
                   space |-> NoSpace, edition |-> 0, failure |-> "retryable"]
  <2>2. /\ run' = run \/ run' = [run EXCEPT ![w] = r]
        /\ r.key = k /\ r.pc \notin {"begin", "embed", "publish", "published", "complete"}
    BY <1>2 DEF Sweep
  <2> HIDE DEF r
  <2>3. \A v \in Workers : RunGoesOn(v)
    BY <2>1, <2>2, RunMoved, RunsSame
  <2>4. QED
    BY <1>a, <2>1, <2>3, QueueCompletesNone, WorldSame, PinFrame
<1>3. CASE Crash(w)
  <2>1. \A v \in Workers : RunGoesOn(v)
    BY <1>3, RunMoved DEF Crash, Finished
  <2>2. QED
    BY <1>3, <1>a, <2>1, QueueCompletesNone, WorldSame, PinFrame DEF Crash
<1>4. QED
  BY <1>1, <1>2, <1>3

(* The run of worker w moves on; it may be about to complete its job k     *)
(* only when the work is done.                                             *)
LEMMA MovesOK ==
  ASSUME TypeOK, PinInv, NEW w \in Workers, run[w].pc # "idle", NEW k, k = Key0(w),
         DOMAIN jobs \subseteq DOMAIN jobs',
         \/ \E p \in PCs :
              /\ To(w, p) \/ Ends(w, p)
              /\ p \in {"begin", "embed", "publish", "published"} => k.kind = "vectorize"
              /\ p = "complete" => Done(k)'
         \/ \E f \in Failures : Failing(w, f)
         \/ Finished(w)
  PROVE  \A v \in Workers : RunGoesOn(v)
<1>1. run[w] \in Run /\ run[w] # Idle /\ k = run[w].key /\ k \in DOMAIN jobs'
  BY Running DEF PinInv, RunOK, Key0
<1>2. ASSUME NEW p \in PCs, NEW r, run' = [run EXCEPT ![w] = r], r.key = k, r.pc = p,
             p \in {"begin", "embed", "publish", "published"} => k.kind = "vectorize",
             p = "complete" => Done(k)'
      PROVE  \A v \in Workers : RunGoesOn(v)
  <2>1. r.pc = "complete" => Done(r.key)'
    BY <1>2
  <2>2. QED
    BY <1>1, <1>2, <2>1, RunMoved
<1>3. ASSUME NEW p \in PCs, To(w, p) \/ Ends(w, p),
             p \in {"begin", "embed", "publish", "published"} => k.kind = "vectorize",
             p = "complete" => Done(k)'
      PROVE  \A v \in Workers : RunGoesOn(v)
  <2>1. CASE To(w, p)
    <3> DEFINE r == [run[w] EXCEPT !.pc = p]
    <3>1. r.key = k /\ r.pc = p
      BY <1>1 DEF Run
    <3>2. run' = [run EXCEPT ![w] = r]
      BY <2>1 DEF To
    <3> HIDE DEF r
    <3>3. QED
      BY <1>2, <1>3, <3>1, <3>2
  <2>2. CASE Ends(w, p)
    <3> DEFINE r == [run[w] EXCEPT !.pc = p, !.attempt = 0, !.space = NoSpace, !.edition = 0]
    <3>1. r.key = k /\ r.pc = p
      BY <1>1 DEF Run
    <3>2. run' = [run EXCEPT ![w] = r]
      BY <2>2 DEF Ends
    <3> HIDE DEF r
    <3>3. QED
      BY <1>2, <1>3, <3>1, <3>2
  <2>3. QED
    BY <1>3, <2>1, <2>2
<1>4. ASSUME NEW f \in Failures, Failing(w, f) PROVE \A v \in Workers : RunGoesOn(v)
  <2> DEFINE r == [run[w] EXCEPT !.pc = "failing", !.failure = f, !.space = NoSpace,
                                 !.edition = 0]
  <2>1. r.key = k /\ r.pc = "failing"
    BY <1>1 DEF Run
  <2>2. run' = [run EXCEPT ![w] = r]
    BY <1>4 DEF Failing
  <2> HIDE DEF r
  <2>3. QED
    BY <1>2, <2>1, <2>2 DEF PCs
<1>5. CASE Finished(w)
  BY <1>5, RunMoved DEF Finished
<1>6. QED
  BY <1>3, <1>4, <1>5

(* Steps of a run that write neither documents nor the profile nor jobs.   *)
LEMMA PinQuiet ==
  ASSUME TypeOK, PinInv, NEW w \in Workers,
         Embed(w) \/ Published(w) \/ Load(w) \/ EmbedProfile(w) \/ CheckPublished(w)
  PROVE  PinInv'
<1>a. /\ doc' = doc /\ profile' = profile /\ jobs' = jobs /\ run[w].pc # "idle"
  BY DEF Embed, Published, Load, EmbedProfile, CheckPublished, Settings, At
<1>b. /\ run[w] \in Run /\ run[w] # Idle /\ WorldGrows /\ QueueGrows
  BY <1>a, Running, WorldSame, QueueCompletesNone
<1>c. PICK k : k = Key0(w)
  OBVIOUS
<1>d. SUFFICES \A v \in Workers : RunGoesOn(v)
  BY <1>b, PinFrame
<1>1. CASE Embed(w)
  <2>1. k.kind = "vectorize"
    BY <1>1, <1>b, <1>c DEF Embed, At, PinInv, RunOK, Key0
  <2>2. CASE run' = [run EXCEPT ![w] = [@ EXCEPT !.pc = "publish", !.space = profile.active]]
    <3> DEFINE r == [run[w] EXCEPT !.pc = "publish", !.space = profile.active]
    <3>1. r.key = k /\ r.pc = "publish" /\ k \in DOMAIN jobs
      BY <1>b, <1>c DEF Run, Key0, PinInv, RunOK
    <3>2. run' = [run EXCEPT ![w] = r]
      BY <2>2
    <3> HIDE DEF r
    <3>3. QED
      BY <1>a, <2>1, <3>1, <3>2, RunMoved
  <2>3. CASE Fails(w, {"retryable", "permanent"})
    BY <1>a, <1>c, <2>3, MovesOK DEF Fails, Failures
  <2>4. QED
    BY <1>1, <2>2, <2>3 DEF Embed
<1>2. CASE Published(w)
  <2>1. k.kind = "vectorize"
    BY <1>2, <1>b, <1>c DEF Published, At, PinInv, RunOK, Key0
  <2>2. Done(k)'
    BY <2>1 DEF Done
  <2>3. CASE Ends(w, "complete")
    BY <1>a, <1>c, <2>1, <2>2, <2>3, MovesOK DEF PCs
  <2>4. CASE Fails(w, {"retryable"})
    BY <1>a, <1>c, <2>4, MovesOK DEF Fails, Failures
  <2>5. QED
    BY <1>2, <2>3, <2>4 DEF Published
<1>3. CASE Load(w)
  <2>1. CASE Ends(w, "skip")
    BY <1>a, <1>c, <2>1, MovesOK DEF PCs
  <2>2. CASE k.space \in doc[k.doc].covered /\ Ends(w, "complete")
    <3>1. Done(k)'
      BY <1>a, <2>2 DEF Done
    <3>2. QED
      BY <1>a, <1>c, <2>2, <3>1, MovesOK DEF PCs
  <2>3. CASE run' = [run EXCEPT ![w] = [@ EXCEPT !.pc = "profile",
                                                 !.edition = doc[Key0(w).doc].edition]]
    <3> DEFINE r == [run[w] EXCEPT !.pc = "profile", !.edition = doc[Key0(w).doc].edition]
    <3>1. r.key = k /\ r.pc = "profile" /\ k \in DOMAIN jobs
      BY <1>b, <1>c DEF Run, Key0, PinInv, RunOK
    <3>2. run' = [run EXCEPT ![w] = r]
      BY <2>3
    <3> HIDE DEF r
    <3>3. QED
      BY <1>a, <3>1, <3>2, RunMoved
  <2>4. QED
    BY <1>3, <1>c, <2>1, <2>2, <2>3 DEF Load
<1>4. CASE EmbedProfile(w)
  BY <1>4, <1>a, <1>c, MovesOK DEF EmbedProfile, Fails, PCs
<1>5. CASE CheckPublished(w)
  <2>1. k.kind = "vectorize"
    BY <1>5, <1>c DEF CheckPublished, IsVectorize
  <2>2. Done(k)'
    BY <2>1 DEF Done
  <2>3. QED
    BY <1>5, <1>a, <1>c, <2>1, <2>2, MovesOK DEF CheckPublished, PCs
<1>6. QED
  BY <1>1, <1>2, <1>3, <1>4, <1>5

(* Steps that write a job: only Complete completes one, and its run has    *)
(* done the work.                                                          *)
LEMMA PinJobs ==
  ASSUME TypeOK, PinInv, NEW w \in Workers,
         Complete(w) \/ Skip(w) \/ Reschedule(w) \/ FailProfile(w)
  PROVE  PinInv'
<1>a. /\ doc' = doc /\ profile' = profile /\ run[w].pc # "idle" /\ Queue(jobs)
  BY DEF Complete, Skip, Reschedule, FailProfile, Settings, At, TypeOK
<1>b. run[w] \in Run /\ run[w] # Idle /\ WorldGrows
  BY <1>a, Running, WorldSame
<1>c. PICK k : k = Key0(w)
  OBVIOUS
<1>1. /\ DOMAIN jobs' = DOMAIN jobs
      /\ \A i \in DOMAIN jobs : \/ jobs'[i] = jobs[i]
                                \/ jobs'[i].status # "completed"
                                \/ i = k /\ run[w].pc = "complete"
  <2>1. CASE Complete(w)
    <3>1. jobs' = Resolved(jobs, k, "completed") /\ run[w].pc = "complete"
      BY <1>c, <2>1 DEF Complete, At
    <3>2. QED
      BY <1>a, <3>1, ResolvedFacts
  <2>2. ASSUME NEW status \in {"skipped", "failed"}, jobs' = Resolved(jobs, k, status)
        PROVE  /\ DOMAIN jobs' = DOMAIN jobs
               /\ \A i \in DOMAIN jobs : jobs'[i] = jobs[i] \/ jobs'[i].status # "completed"
    BY <1>a, <2>2, ResolvedFacts
  <2>3. CASE Reschedule(w)
    <3>1. jobs' = [jobs EXCEPT ![k].status = "queued"]
      BY <1>c, <2>3 DEF Reschedule
    <3>2. \A i \in DOMAIN jobs : [jobs[i] EXCEPT !.status = "queued"].status = "queued"
      BY <1>a DEF Queue, Job
    <3>3. QED
      BY <3>1, <3>2
  <2>4. QED
    BY <1>c, <2>1, <2>2, <2>3 DEF Skip, FailProfile
<1>2. QueueGrows
  BY <1>1, <1>b, <1>c DEF QueueGrows, Key0
<1>3. \A v \in Workers : RunGoesOn(v)
  BY <1>a, <1>c, <1>1, MovesOK DEF Complete, Skip, Reschedule, FailProfile, PCs
<1>4. QED
  BY <1>b, <1>2, <1>3, PinFrame

(* Steps that write a document's status, and the job with it.              *)
LEMMA PinStatus ==
  ASSUME TypeOK, PinInv, NEW w \in Workers, Begin(w) \/ Requeue(w) \/ FailDocument(w)
  PROVE  PinInv'
<1>a. profile' = profile /\ Targets' = Targets /\ run[w].pc # "idle" /\ Queue(jobs)
  BY DEF Begin, Requeue, FailDocument, Settings, At, TypeOK, Targets
<1>b. run[w] \in Run /\ run[w] # Idle
  BY <1>a, Running
<1>c. PICK k : k = Key0(w)
  OBVIOUS
<1>1. WorldGrows
  <2>1. \/ doc' = doc
        \/ \E status \in {"queued", "processing", "failed"} : SetStatus(w, status)
    BY DEF Begin, Requeue, FailDocument
  <2>2. \A d \in Docs : /\ doc'[d].status = "ready" => doc[d].status = "ready"
                        /\ doc'[d].revision = doc[d].revision
                        /\ doc'[d].covered = doc[d].covered
                        /\ doc'[d].edition = doc[d].edition
    BY <1>a, <2>1, StatusKeeps
  <2>3. QED
    BY <1>a, <2>2, KeysTyped DEF WorldGrows
<1>2. /\ DOMAIN jobs' = DOMAIN jobs
      /\ \A i \in DOMAIN jobs : jobs'[i] = jobs[i] \/ jobs'[i].status # "completed"
  <2>1. CASE jobs' = jobs
    BY <2>1
  <2>2. CASE jobs' = Resolved(jobs, k, "failed")
    BY <1>a, <2>2, ResolvedFacts
  <2>3. QED
    BY <1>c, <2>1, <2>2 DEF Begin, Requeue, FailDocument
<1>3. \A v \in Workers : RunGoesOn(v)
  <2>1. CASE Begin(w)
    <3>1. k.kind = "vectorize"
      BY <2>1, <1>b, <1>c DEF Begin, At, PinInv, RunOK, Key0
    <3>2. QED
      BY <1>a, <1>c, <1>2, <2>1, <3>1, MovesOK DEF Begin, PCs
  <2>2. CASE Requeue(w) \/ FailDocument(w)
    BY <1>a, <1>c, <1>2, <2>2, MovesOK DEF Requeue, FailDocument, PCs
  <2>3. QED
    BY <2>1, <2>2
<1>4. QED
  BY <1>1, <1>2, <1>3, QueueCompletesNone, PinFrame

(* Publication writes new chunks, and inserts jobs for what it published.  *)
LEMMA PinPublish ==
  ASSUME TypeOK, PinInv, NEW w \in Workers, Publish(w)
  PROVE  PinInv'
<1>a. /\ profile' = profile /\ Targets' = Targets /\ run[w].pc # "idle" /\ Queue(jobs)
      /\ doc \in [Docs -> Document]
  BY DEF Publish, Settings, At, TypeOK, Targets
<1>c. PICK k : k = Key0(w)
  OBVIOUS
<1>d. Key0(w).doc \in Docs
  BY <1>a, Running
<1>1. CASE UNCHANGED <<doc, jobs>> /\ (Ends(w, "skip") \/ Failing(w, "retryable"))
  <2>1. \A v \in Workers : RunGoesOn(v)
    BY <1>a, <1>c, <1>1, MovesOK DEF PCs, Failures
  <2>2. QED
    BY <1>a, <1>1, <2>1, WorldSame, QueueCompletesNone, PinFrame
<1>2. ASSUME NEW d \in Docs, d = Key0(w).doc, Ends(w, "published"),
             doc' = [doc EXCEPT ![d].status = "ready", ![d].covered = {run[w].space},
                                ![d].edition = @ + 1],
             jobs' = Enqueued(jobs, {CurrentKey(d, s) : s \in Targets})
      PROVE  PinInv'
  <2>1. /\ doc'[d].revision = doc[d].revision
        /\ doc'[d].edition = doc[d].edition + 1 /\ doc'[d].edition \in Nat
        /\ doc'[d].edition # 0
        /\ \A e \in Docs \ {d} : doc'[e] = doc[e]
    BY <1>a, <1>2, KeysTyped DEF Document
  <2>2. WorldGrows
    BY <1>a, <2>1, KeysTyped DEF WorldGrows
  <2> DEFINE K == {CurrentKey(d, s) : s \in Targets}
  <2>3. K \in SUBSET Key /\ jobs' = Enqueued(jobs, K)
    BY <1>2, KeysTyped
  <2>4. ASSUME NEW i \in K PROVE Timely(i)'
    <3>1. /\ i.doc = d /\ i.revision = doc[d].revision /\ i.generation = profile.generation
      BY <2>4 DEF CurrentKey, ProfileKey
    <3>2. QED
      BY <1>a, <2>1, <3>1, KeysTyped DEF Timely
  <2> HIDE DEF K
  <2>5. QueueGrows
    BY <2>3, <2>4, QueueInserts
  <2>6. \A v \in Workers : RunGoesOn(v)
    <3>1. run[w] # Idle /\ run[w].pc = "publish"
      BY <1>a, Running DEF Publish, At
    <3>2. k.kind = "vectorize"
      BY <1>c, <3>1 DEF PinInv, RunOK, Key0
    <3>3. DOMAIN jobs \subseteq DOMAIN jobs'
      BY <2>5 DEF QueueGrows
    <3>4. QED
      BY <1>a, <1>c, <1>2, <3>2, <3>3, MovesOK DEF PCs
  <2>7. QED
    BY <2>2, <2>5, <2>6, PinFrame
<1>3. QED
  BY <1>1, <1>2, <1>d DEF Publish

(* A commit covers the document, and with that the job's work is done.     *)
LEMMA PinCommit ==
  ASSUME TypeOK, PinInv, NEW w \in Workers, Commit(w)
  PROVE  PinInv'
<1>a. /\ profile' = profile /\ Targets' = Targets /\ jobs' = jobs /\ run[w].pc # "idle"
      /\ doc \in [Docs -> Document]
  BY DEF Commit, Settings, At, TypeOK, Targets
<1>c. PICK k : k = Key0(w)
  OBVIOUS
<1>d. k.doc \in Docs
  BY <1>a, <1>c, Running
<1>1. CASE doc' = doc /\ Ends(w, "skip")
  <2>1. \A v \in Workers : RunGoesOn(v)
    BY <1>a, <1>c, <1>1, MovesOK DEF PCs
  <2>2. QED
    BY <1>a, <1>1, <2>1, WorldSame, QueueCompletesNone, PinFrame
<1>2. CASE doc' = [doc EXCEPT ![k.doc].covered = @ \cup {k.space}] /\ Ends(w, "complete")
  <2>1. \A d \in Docs : /\ doc'[d].revision = doc[d].revision
                        /\ doc'[d].status = doc[d].status
                        /\ doc'[d].edition = doc[d].edition
                        /\ doc[d].covered \subseteq doc'[d].covered
    BY <1>a, <1>2 DEF Document
  <2>2. k.space \in doc'[k.doc].covered
    BY <1>a, <1>d, <1>2 DEF Document
  <2>3. WorldGrows
    BY <1>a, <2>1, KeysTyped DEF WorldGrows
  <2>4. Done(k)'
    BY <2>2 DEF Done
  <2>5. \A v \in Workers : RunGoesOn(v)
    BY <1>a, <1>c, <1>2, <2>4, MovesOK DEF PCs
  <2>6. QED
    BY <1>a, <2>3, <2>5, QueueCompletesNone, PinFrame
<1>3. QED
  BY <1>1, <1>2, <1>c DEF Commit

(* A failed profile job blocks its transition, or ends its generation.     *)
LEMMA PinRecord ==
  ASSUME TypeOK, PinInv, NEW w \in Workers, Record(w)
  PROVE  PinInv'
<1>a. /\ doc' = doc /\ jobs' = jobs /\ run[w].pc # "idle" /\ profile \in Profile
      /\ profile.generation \in Nat /\ profile.generation + 1 \in Nat
      /\ profile.generation + 1 > profile.generation
  BY DEF Record, At, TypeOK, Profile
<1>1. \/ profile'.generation = profile.generation + 1
      \/ profile'.generation = profile.generation /\ Targets' = Targets
  BY <1>a DEF Record, Profile, Targets
<1>2. WorldGrows
  BY <1>a, <1>1, WorldProfile
<1>3. \A v \in Workers : RunGoesOn(v)
  BY <1>a, MovesOK DEF Record
<1>4. QED
  BY <1>a, <1>2, <1>3, QueueCompletesNone, PinFrame

(* Every step keeps the invariant.                                         *)
LEMMA PinStep ==
  ASSUME TypeOK, PinInv, [Next]_vars
  PROVE  PinInv'
<1>1. CASE UNCHANGED vars
  BY <1>1, RunsSame, WorldSame, QueueCompletesNone, PinFrame DEF vars
<1>2. ASSUME NEW w \in Workers, Step(w) PROVE PinInv'
  BY <1>2, PinQuiet, PinJobs, PinStatus, PinPublish, PinCommit, PinRecord DEF Step
<1>3. QED
  BY <1>1, <1>2, PinTransition, PinDocuments, PinClaims DEF Next

(* In the beginning there are only new jobs, of new documents.             *)
LEMMA PinInit ==
  ASSUME Init
  PROVE  PinInv
<1>1. \A k \in DOMAIN jobs : k.kind = "vectorize" /\ jobs[k].status = "queued"
  BY DEF Init, VectorizeKey, NewJob
<1>2. \A w \in Workers : RunOK(w)
  BY DEF Init, RunOK
<1>3. QED
  BY <1>1, <1>2 DEF Init, PinInv, Timely

-----------------------------------------------------------------------------
(* Theorems.                                                               *)

(* Every variable has its type, and the profile its constraints.           *)
THEOREM TypeCorrect == Spec => []TypeOK
<1>1. Init => TypeOK
  BY TypeInit
<1>2. TypeOK /\ [Next]_vars => TypeOK'
  BY TypeStep
<1>3. QED
  BY <1>1, <1>2, PTL DEF Spec

(* Whatever documents, workers and the operator do during a change of the  *)
(* embedding model, a ready document is covered in the active space unless *)
(* it was hidden from the promotion that chose the space.                  *)
THEOREM WhatIsServedIsSearchable == Spec => []RetrievableIsSearchable
<1>1. Init => RetrievableIsSearchable
  BY DEF Init, RetrievableIsSearchable
<1>2. TypeOK /\ RetrievableIsSearchable /\ [Next]_vars => RetrievableIsSearchable'
  BY SearchableStep
<1>3. QED
  BY <1>1, <1>2, TypeCorrect, PTL DEF Spec

(* Whichever of a job's runs completes it, and whatever became of the      *)
(* document and the profile since, the vectors of a completed job whose    *)
(* pins are current are there.                                             *)
THEOREM CompletedWorkIsDone == Spec => []CompletedMeansCovered
<1>1. Init => PinInv
  BY PinInit
<1>2. TypeOK /\ PinInv /\ [Next]_vars => PinInv'
  BY PinStep
<1>3. PinInv => CompletedMeansCovered
  BY DEF PinInv, Done, Pinned, CompletedMeansCovered
<1>4. QED
  BY <1>1, <1>2, <1>3, TypeCorrect, PTL DEF Spec
=============================================================================
