------------------------ MODULE EmbeddingTransition ------------------------
(***************************************************************************)
(* The documents of one workspace, the workers that embed them, and the    *)
(* change of the workspace's embedding model while they do.                *)
(*                                                                         *)
(*   modules/documents/services/documentProcessingWorker.ts    job runs    *)
(*   modules/documents/services/documentProcessingService.ts   publication *)
(*   modules/documents/services/embeddingProfileJobService.ts  backfill    *)
(*   db/repositories/documentProcessingJobRepository.ts        the queue   *)
(*   modules/embeddingProfiles/**, db/repositories/embeddingProfile*.ts    *)
(*                        the profile, its transition, promotion, cleanup  *)
(*                                                                         *)
(* A model change starts a transition: every retrievable document gets a   *)
(* job that embeds its chunks in the pending space beside the active one,  *)
(* and once they are all covered the pending space is promoted.  Meanwhile *)
(* documents change, are hidden and shown again, workers die or outlive    *)
(* their lease, and an operator may cancel.                                *)
(*                                                                         *)
(* A transaction that locks the profile row is one step.  Between two      *)
(* statements of a run anything else may commit.  What the provider        *)
(* answers, and whether the vector index has caught up, are choices.       *)
(***************************************************************************)
EXTENDS Naturals

CONSTANTS
  Docs,           \* the workspace's documents
  Spaces,         \* embedding spaces: one per embedding model
  Workers,        \* concurrent runs of the document worker
  FirstSpace,     \* the active space to begin with
  NoSpace,        \* no pending space
  MaxAttempts,    \* MAX_ATTEMPTS
  MaxRevision,    \* bound: revisions of a document
  MaxGeneration,  \* bound: generations of the profile
  MaxChanges,     \* bound: edits of documents and of their settings
  MaxFaults       \* bound: failures, dead letters, lapses and crashes

ASSUME EmbeddingTransitionAssumption ==
  /\ FirstSpace \in Spaces /\ NoSpace \notin Spaces
  /\ {MaxAttempts, MaxRevision, MaxGeneration} \subseteq Nat \ {0}
  /\ {MaxChanges, MaxFaults} \subseteq Nat

VARIABLES
  doc,          \* documents, with the spaces that cover their current chunks
  profile,      \* workspace_embedding_profiles and its newest transition
  quarantined,  \* spaces whose vectors broke their contract
  retired,      \* source spaces of promoted transitions still to be cleaned up
  jobs,         \* document_processing_jobs by their unique key
  run,          \* what each worker is doing
  owed,         \* documents whose changed setting is still to be reconciled
  hidden,       \* ready documents the last promotion did not look at
  changes,      \* edits so far
  faults        \* faults so far

vars == <<doc, profile, quarantined, retired, jobs, run, owed, hidden, changes, faults>>

-----------------------------------------------------------------------------

(* covered: the spaces with a vector of this revision for every chunk;     *)
(* edition: how often the revision's chunks were written.                  *)
Document == [revision : Nat, status : {"queued", "processing", "ready", "failed"},
             enabled : BOOLEAN, covered : SUBSET Spaces, edition : Nat]

Unpromoted == {"building", "blocked", "quarantined"}
Profile == [active : Spaces, pending : Spaces \cup {NoSpace}, generation : Nat,
            target : Spaces \cup {NoSpace},
            status : Unpromoted \cup {"none", "cancelled", "promoted", "failed"}]

(* The unique keys of document_processing_jobs.                            *)
Key == [kind : {"vectorize", "profile"}, doc : Docs, revision : Nat,
        space : Spaces \cup {NoSpace}, generation : Nat]
VectorizeKey(d, r) ==
  [kind |-> "vectorize", doc |-> d, revision |-> r, space |-> NoSpace, generation |-> 0]
ProfileKey(d, r, s, g) ==
  [kind |-> "profile", doc |-> d, revision |-> r, space |-> s, generation |-> g]

Job    == [status : {"queued", "processing", "completed", "skipped", "failed"}, attempts : Nat]
NewJob == [status |-> "queued", attempts |-> 0]
Open   == {"queued", "processing", "failed"}
Queue(J) ==
  /\ J = [k \in DOMAIN J |-> J[k]]
  /\ \A k \in DOMAIN J : k \in Key /\ J[k] \in Job

PCs == {"begin", "embed", "publish", "published", "load", "profile", "commit", "complete",
        "skip", "failing", "requeue", "fail", "record"}
Failures == {"none", "retryable", "contract", "permanent"}

(* What a run holds in memory: its job as it claimed it, the space or the  *)
(* chunks it embeds, and how it failed.                                    *)
Run  == [pc : PCs, key : Key, attempt : Nat, space : Spaces \cup {NoSpace},
         edition : Nat, failure : Failures]
Idle == [pc |-> "idle"]

(* What retrieval serves, and what the backfill and the promotion look at. *)
Retrievable(d) == doc[d].status = "ready" /\ doc[d].enabled
Targets  == {profile.active, profile.pending} \ {NoSpace}
Building == profile.status = "building"

(* Every variable has its type, one transition is live at a time, and a    *)
(* pending space is the target of the live transition and never the active *)
(* one (the indexes and CHECK constraints of migration 129).               *)
TypeOK ==
  /\ doc \in [Docs -> Document]
  /\ profile \in Profile
  /\ profile.status \in Unpromoted <=> profile.pending # NoSpace
  /\ profile.status \in Unpromoted => profile.pending = profile.target
  /\ profile.active # profile.pending
  /\ quarantined \subseteq Spaces /\ retired \subseteq Spaces
  /\ Queue(jobs)
  /\ run \in [Workers -> Run \cup {Idle}]
  /\ owed \subseteq Docs /\ hidden \subseteq Docs
  /\ changes \in Nat /\ faults \in Nat

Init ==
  /\ doc = [d \in Docs |-> [revision |-> 1, status |-> "queued", enabled |-> TRUE,
                            covered |-> {}, edition |-> 0]]
  /\ profile = [active |-> FirstSpace, pending |-> NoSpace, generation |-> 1,
                 target |-> NoSpace, status |-> "none"]
  /\ quarantined = {} /\ retired = {}
  /\ jobs = [k \in {VectorizeKey(d, 1) : d \in Docs} |-> NewJob]
  /\ run = [w \in Workers |-> Idle]
  /\ owed = {} /\ hidden = {}
  /\ changes = 0 /\ faults = 0

Fault == faults < MaxFaults /\ faults' = faults + 1

-----------------------------------------------------------------------------
(* The queue.                                                              *)

(* INSERT ... ON CONFLICT DO NOTHING: a key that exists keeps its row,     *)
(* whatever became of it.                                                  *)
Enqueued(J, K) == [k \in DOMAIN J \cup K |-> IF k \in DOMAIN J THEN J[k] ELSE NewJob]

(* A terminal write, fenced on status = 'processing'.                      *)
Resolved(J, k, status) ==
  IF J[k].status = "processing" THEN [J EXCEPT ![k].status = status] ELSE J

Skipped(J, K) == [k \in DOMAIN J |-> IF k \in K /\ J[k].status \in Open
                                     THEN [J[k] EXCEPT !.status = "skipped"] ELSE J[k]]

(* A profile job's work is wanted: its revision is current and retrievable *)
(* and its space is a target of this very generation.                      *)
Wanted(k) ==
  /\ doc[k.doc].revision = k.revision /\ Retrievable(k.doc)
  /\ profile.generation = k.generation /\ k.space \in Targets

(* The key of a profile job for what is served now.                        *)
CurrentKey(d, s) == ProfileKey(d, doc[d].revision, s, profile.generation)

(* Every retrievable document lacking vectors in a target space.           *)
Gaps == {CurrentKey(g[1], g[2]) : g \in {h \in Docs \X Targets :
                                   Retrievable(h[1]) /\ h[2] \notin doc[h[1]].covered}}

(* reconcileEmbeddingProfileJobsForWorkspace, a transaction.               *)
Reconciled(J) ==
  Enqueued(Skipped(J, {k \in DOMAIN J : k.kind = "profile" /\ ~ Wanted(k)}), Gaps)

(* ensureEmbeddingProfileJobsForTransition.                                *)
Ensured(J) ==
  Enqueued(J, {CurrentKey(d, profile.pending) : d \in {e \in Docs : Retrievable(e)}})

-----------------------------------------------------------------------------
(* The transition.                                                         *)

(* FAULT: the active space itself is taken for a target.                   *)
StartableAnywhere(s) == s \notin quarantined /\ profile.status \notin Unpromoted

Startable(s) ==
  s # profile.active /\ s \notin quarantined /\ profile.status \notin Unpromoted

(* start: one live transition, a sound target, a new generation.           *)
Start(s) ==
  /\ profile.generation < MaxGeneration /\ Startable(s)
  /\ profile' = [profile EXCEPT !.pending = s, !.target = s, !.status = "building",
                                !.generation = @ + 1]
  /\ UNCHANGED <<doc, quarantined, retired, jobs, run, owed, hidden, changes, faults>>

(* ensureTransitionWork, by the start and again by every reconciliation    *)
(* pass while the transition builds: its two statements.                   *)
Ensure ==
  /\ Building /\ jobs' = Ensured(jobs)
  /\ UNCHANGED <<doc, profile, quarantined, retired, run, owed, hidden, changes, faults>>
Backfill ==
  /\ Building /\ jobs' = Reconciled(jobs)
  /\ UNCHANGED <<doc, profile, quarantined, retired, run, owed, hidden, changes, faults>>

Uncovered(s) == {d \in Docs : doc[d].status = "ready" /\ s \notin doc[d].covered}

OfTransition(k) ==
  k.kind = "profile" /\ k.space = profile.pending /\ k.generation = profile.generation

(* FAULT: work that was withdrawn holds the promotion up as well.          *)
BlockingUnlessCompleted(k) == OfTransition(k) /\ jobs[k].status # "completed"

Blocking(k) == OfTransition(k) /\ jobs[k].status \in Open

(* FAULT: a promotion that trusts the jobs and does not count the vectors. *)
PromotableByJobs ==
  /\ Building /\ profile.pending \notin quarantined
  /\ \A k \in DOMAIN jobs : ~ Blocking(k)

(* canPromoteEmbeddingTransition, evaluated under the profile lock.        *)
Promotable ==
  /\ Building /\ profile.pending \notin quarantined
  /\ \A d \in Uncovered(profile.pending) : ~ Retrievable(d)
  /\ \A k \in DOMAIN jobs : ~ Blocking(k)

(* promoteTransitionIfEligible.  Publication, a completed job, the vector  *)
(* index and the reconciliation pass all attempt it; the index decides     *)
(* when an attempt finds it caught up.                                     *)
Promote ==
  /\ Promotable
  /\ profile' = [profile EXCEPT !.active = profile.pending, !.pending = NoSpace,
                                !.status = "promoted", !.generation = @ + 1]
  /\ retired' = retired \cup {profile.active}
  /\ hidden' = {d \in Uncovered(profile.pending) : ~ doc[d].enabled}
  /\ UNCHANGED <<doc, quarantined, jobs, run, owed, changes, faults>>

(* A dead letter of the vector index blocks the transition.                *)
Block ==
  /\ Building /\ Fault
  /\ profile' = [profile EXCEPT !.status = "blocked"]
  /\ UNCHANGED <<doc, quarantined, retired, jobs, run, owed, hidden, changes>>

(* cancel, and then the withdrawal of the transition's work, which the     *)
(* caller may repeat.                                                      *)
Cancel ==
  /\ profile.status \in Unpromoted
  /\ profile' = [profile EXCEPT !.pending = NoSpace, !.status = "cancelled",
                                !.generation = @ + 1]
  /\ UNCHANGED <<doc, quarantined, retired, jobs, run, owed, hidden, changes, faults>>
CancelWork ==
  /\ profile.status = "cancelled"
  /\ jobs' = Skipped(jobs, {k \in DOMAIN jobs :
                 /\ k.kind = "profile" /\ k.space = profile.target
                 /\ k.generation + 1 = profile.generation})
  /\ UNCHANGED <<doc, profile, quarantined, retired, run, owed, hidden, changes, faults>>

(* cleanupIfSafe, once the grace period is over.                           *)
Cleanup(s) ==
  /\ s \in retired /\ s \notin Targets
  /\ \A k \in DOMAIN jobs : ~ (k.space = s /\ jobs[k].status \in Open)
  /\ doc' = [d \in Docs |-> [doc[d] EXCEPT !.covered = @ \ {s}]]
  /\ retired' = retired \ {s}
  /\ UNCHANGED <<profile, quarantined, jobs, run, owed, hidden, changes, faults>>

-----------------------------------------------------------------------------
(* The documents.                                                          *)

(* updateAndQueue, requeueAndQueue, a metadata PATCH.                      *)
Update(d) ==
  /\ doc[d].revision < MaxRevision /\ changes < MaxChanges /\ changes' = changes + 1
  /\ doc' = [doc EXCEPT ![d].revision = @ + 1, ![d].status = "queued",
                        ![d].covered = {}, ![d].edition = 0]
  /\ jobs' = Enqueued(jobs, {VectorizeKey(d, doc[d].revision + 1)})
  /\ UNCHANGED <<profile, quarantined, retired, run, owed, hidden, faults>>

(* A retrieval PATCH, and the reconciliation that follows its commit and   *)
(* that a crash of the API may lose.                                       *)
Switch(d) ==
  /\ changes < MaxChanges
  /\ doc' = [doc EXCEPT ![d].enabled = ~ @]
  /\ owed' = owed \cup {d} /\ changes' = changes + 1
  /\ UNCHANGED <<profile, quarantined, retired, jobs, run, hidden, faults>>
Reconcile(d) ==
  /\ d \in owed /\ owed' = owed \ {d}
  /\ jobs' = Reconciled(jobs)
  /\ UNCHANGED <<doc, profile, quarantined, retired, run, hidden, changes, faults>>
LoseReconcile(d) ==
  /\ d \in owed /\ owed' = owed \ {d} /\ Fault
  /\ UNCHANGED <<doc, profile, quarantined, retired, jobs, run, hidden, changes>>

-----------------------------------------------------------------------------
(* A run.                                                                  *)

At(w, pc)  == run[w].pc = pc
To(w, pc)  == run' = [run EXCEPT ![w] = [@ EXCEPT !.pc = pc]]
Failing(w, f) == run' = [run EXCEPT ![w] = [@ EXCEPT !.pc = "failing", !.failure = f,
                                                      !.space = NoSpace, !.edition = 0]]
Fails(w, F) == Fault /\ \E f \in F : Failing(w, f)
Ends(w, pc) == run' = [run EXCEPT ![w] = [@ EXCEPT !.pc = pc, !.attempt = 0,
                                               !.space = NoSpace, !.edition = 0]]
Finished(w) == run' = [run EXCEPT ![w] = Idle]

Key0(w)    == run[w].key
Current(w) == doc[Key0(w).doc].revision = Key0(w).revision
Settings   == <<profile, quarantined, retired>>
Beside     == <<owed, hidden, changes>>

(* setStatusIfRevisionMatches: whatever the status was.                    *)
SetStatus(w, status) == doc' = [doc EXCEPT ![Key0(w).doc].status = status]

(* claimNext, claimById.                                                   *)
Claim(w, k) ==
  /\ At(w, "idle") /\ jobs[k].status = "queued"
  /\ jobs' = [jobs EXCEPT ![k].status = "processing", ![k].attempts = @ + 1]
  /\ run' = [run EXCEPT ![w] =
       [pc |-> IF k.kind = "vectorize" THEN "begin" ELSE "load", key |-> k,
        attempt |-> jobs[k].attempts + 1, space |-> NoSpace, edition |-> 0,
        failure |-> "none"]]
  /\ UNCHANGED <<doc, Settings, Beside, faults>>

(* process: mark the document, embed its chunks in the active space,       *)
(* publish, try to promote and queue the enrichment.                       *)
Begin(w) ==
  /\ At(w, "begin")
  /\ IF Current(w) THEN SetStatus(w, "processing") /\ To(w, "embed")
                   ELSE UNCHANGED doc /\ Ends(w, "skip")
  /\ UNCHANGED <<jobs, Settings, Beside, faults>>

Embed(w) ==
  /\ At(w, "embed")
  /\ \/ /\ run' = [run EXCEPT ![w] = [@ EXCEPT !.pc = "publish", !.space = profile.active]]
        /\ UNCHANGED faults
     \/ Fails(w, {"retryable", "permanent"})
  /\ UNCHANGED <<doc, jobs, Settings, Beside>>

(* publishForDocumentRevision: new chunks, their vectors in one space, and *)
(* the durable jobs of every target, under the document and profile locks. *)
Publish(w) ==
  LET d == Key0(w).doc IN
  /\ At(w, "publish")
  /\ \/ /\ ~ Current(w) /\ Ends(w, "skip")
        /\ UNCHANGED <<doc, jobs, hidden>>
     \/ /\ Current(w) /\ run[w].space # profile.active /\ Failing(w, "retryable")
        /\ UNCHANGED <<doc, jobs, hidden>>
     \/ /\ Current(w) /\ run[w].space = profile.active /\ Ends(w, "published")
        /\ doc' = [doc EXCEPT ![d].status = "ready", ![d].covered = {run[w].space},
                              ![d].edition = @ + 1]
        /\ jobs' = Enqueued(jobs, {CurrentKey(d, s) : s \in Targets})
        /\ hidden' = hidden \ {d}
  /\ UNCHANGED <<Settings, owed, changes, faults>>

Published(w) ==
  /\ At(w, "published")
  /\ (Ends(w, "complete") /\ UNCHANGED faults) \/ Fails(w, {"retryable"})
  /\ UNCHANGED <<doc, jobs, Settings, Beside>>

(* EmbeddingProfileJobService.process: load behind the fence, embed the    *)
(* chunks that have no vector, commit behind the fence.                    *)
Load(w) ==
  /\ At(w, "load")
  /\ \/ ~ Wanted(Key0(w)) /\ Ends(w, "skip")
     \/ Wanted(Key0(w)) /\ Key0(w).space \in doc[Key0(w).doc].covered /\ Ends(w, "complete")
     \/ /\ Wanted(Key0(w)) /\ Key0(w).space \notin doc[Key0(w).doc].covered
        /\ run' = [run EXCEPT ![w] = [@ EXCEPT !.pc = "profile",
                                               !.edition = doc[Key0(w).doc].edition]]
  /\ UNCHANGED <<doc, jobs, Settings, Beside, faults>>

EmbedProfile(w) ==
  /\ At(w, "profile")
  /\ (To(w, "commit") /\ UNCHANGED faults) \/ Fails(w, Failures \ {"none"})
  /\ UNCHANGED <<doc, jobs, Settings, Beside>>

Commit(w) ==
  LET d == Key0(w).doc IN
  /\ At(w, "commit")
  /\ IF Wanted(Key0(w)) /\ doc[d].edition = run[w].edition
     THEN doc' = [doc EXCEPT ![d].covered = @ \cup {Key0(w).space}] /\ Ends(w, "complete")
     ELSE UNCHANGED doc /\ Ends(w, "skip")
  /\ UNCHANGED <<jobs, Settings, Beside, faults>>

(* markCompleted; also of a job whose document a failed run finds ready.   *)
Complete(w) ==
  /\ At(w, "complete") /\ Finished(w)
  /\ jobs' = Resolved(jobs, Key0(w), "completed")
  /\ UNCHANGED <<doc, Settings, Beside, faults>>

(* FAULT: work that is not wanted now is marked as done.                   *)
SkipAsCompleted(w) ==
  /\ At(w, "skip") /\ Finished(w)
  /\ jobs' = Resolved(jobs, Key0(w), "completed")
  /\ UNCHANGED <<doc, Settings, Beside, faults>>

(* markSkipped.                                                            *)
Skip(w) ==
  /\ At(w, "skip") /\ Finished(w)
  /\ jobs' = Resolved(jobs, Key0(w), "skipped")
  /\ UNCHANGED <<doc, Settings, Beside, faults>>

-----------------------------------------------------------------------------
(* A failed run.                                                           *)

Retries(w) == run[w].failure = "retryable" /\ run[w].attempt < MaxAttempts
IsVectorize(w) == Key0(w).kind = "vectorize"

(* handleFailure with attempts left: reschedule, which is not fenced, and  *)
(* then the document's status.                                             *)
Reschedule(w) ==
  /\ At(w, "failing") /\ Retries(w)
  /\ jobs' = [jobs EXCEPT ![Key0(w)].status = "queued"]
  /\ IF IsVectorize(w) THEN Ends(w, "requeue") ELSE Finished(w)
  /\ UNCHANGED <<doc, Settings, Beside, faults>>
Requeue(w) ==
  /\ At(w, "requeue") /\ Finished(w)
  /\ IF Current(w) THEN SetStatus(w, "queued") ELSE UNCHANGED doc
  /\ UNCHANGED <<jobs, Settings, Beside, faults>>

(* failJobTerminally, vectorize: a document already published completes    *)
(* the job; otherwise job and document fail together.                      *)
CheckPublished(w) ==
  /\ At(w, "failing") /\ ~ Retries(w) /\ IsVectorize(w)
  /\ Ends(w, IF Current(w) /\ doc[Key0(w).doc].status = "ready" THEN "complete" ELSE "fail")
  /\ UNCHANGED <<doc, jobs, Settings, Beside, faults>>
FailDocument(w) ==
  /\ At(w, "fail")
  /\ IF jobs[Key0(w)].status = "processing" /\ Current(w)
     THEN SetStatus(w, "failed") /\ jobs' = Resolved(jobs, Key0(w), "failed") /\ Finished(w)
     ELSE UNCHANGED <<doc, jobs>> /\ Ends(w, "skip")
  /\ UNCHANGED <<Settings, Beside, faults>>

(* failJobTerminally, profile: the job, and then its transition.           *)
FailProfile(w) ==
  /\ At(w, "failing") /\ ~ Retries(w) /\ ~ IsVectorize(w)
  /\ jobs' = Resolved(jobs, Key0(w), "failed")
  /\ IF jobs[Key0(w)].status = "processing" THEN Ends(w, "record") ELSE Finished(w)
  /\ UNCHANGED <<doc, Settings, Beside, faults>>
Record(w) ==
  LET ours == Building /\ profile.generation = Key0(w).generation
                       /\ profile.pending = Key0(w).space
  IN
  /\ At(w, "record") /\ Finished(w)
  /\ \/ ~ ours /\ UNCHANGED <<profile, quarantined>>
     \/ /\ ours /\ run[w].failure = "retryable" /\ UNCHANGED quarantined
        /\ profile' = [profile EXCEPT !.status = "blocked"]
     \/ /\ ours /\ run[w].failure = "contract"
        /\ quarantined' = quarantined \cup {profile.pending}
        /\ profile' = [profile EXCEPT !.status = "quarantined"]
     \/ /\ ours /\ run[w].failure = "permanent" /\ UNCHANGED quarantined
        /\ profile' = [profile EXCEPT !.pending = NoSpace, !.status = "failed",
                                      !.generation = @ + 1]
  /\ UNCHANGED <<doc, jobs, retired, Beside, faults>>

-----------------------------------------------------------------------------
(* Lapsed claims and crashes.                                              *)

Held(k) == \E w \in Workers : run[w] # Idle /\ run[w].key = k

(* FAULT: a sweep that leaves the claims of a document's own job alone.    *)
LapsesOfProfiles(k) == jobs[k].status = "processing" /\ k.kind = "profile"

Lapses(k) == jobs[k].status = "processing"

(* releaseOrFailExpiredClaim: back to the queue, or, with its attempts     *)
(* used up, failed by the worker that swept it.  A claim lapses when its   *)
(* run died, or while it lives and is slow.                                *)
Sweep(w, k) ==
  /\ At(w, "idle") /\ Lapses(k)
  /\ IF Held(k) THEN Fault ELSE UNCHANGED faults
  /\ IF jobs[k].attempts < MaxAttempts
     THEN jobs' = [jobs EXCEPT ![k].status = "queued"] /\ UNCHANGED run
     ELSE /\ UNCHANGED jobs
          /\ run' = [run EXCEPT ![w] = [pc |-> "failing", key |-> k, attempt |-> jobs[k].attempts,
                                        space |-> NoSpace, edition |-> 0, failure |-> "retryable"]]
  /\ UNCHANGED <<doc, Settings, Beside>>

Crash(w) ==
  /\ run[w] # Idle /\ Finished(w) /\ Fault
  /\ UNCHANGED <<doc, jobs, Settings, Beside>>

Step(w) ==
  \/ Begin(w) \/ Embed(w) \/ Publish(w) \/ Published(w)
  \/ Load(w) \/ EmbedProfile(w) \/ Commit(w)
  \/ Complete(w) \/ Skip(w)
  \/ Reschedule(w) \/ Requeue(w) \/ CheckPublished(w)
  \/ FailDocument(w) \/ FailProfile(w) \/ Record(w)

Next ==
  \/ \E s \in Spaces : Start(s) \/ Cleanup(s)
  \/ Ensure \/ Backfill \/ Promote \/ Block \/ Cancel \/ CancelWork
  \/ \E d \in Docs : Update(d) \/ Switch(d) \/ Reconcile(d) \/ LoseReconcile(d)
  \/ \E w \in Workers : Step(w) \/ Crash(w)
  \/ \E w \in Workers, k \in DOMAIN jobs : Claim(w, k) \/ Sweep(w, k)

Spec == Init /\ [][Next]_vars

-----------------------------------------------------------------------------
(* Properties.                                                             *)

(* A document that retrieval serves has vectors in the active space for    *)
(* every current chunk, through publications, promotions, cancellations    *)
(* and cleanups that interleave; the one exception was hidden when the     *)
(* last promotion counted, and not published since.                        *)
RetrievableIsSearchable ==
  \A d \in Docs : doc[d].status = "ready" /\ profile.active \notin doc[d].covered => d \in hidden

(* A completed profile job has done its work: while its pins are current   *)
(* and the chunks are still the ones first published for the revision, the *)
(* document is covered in the job's space, whichever of several runs of    *)
(* the job wrote the vectors and whichever completed it.                   *)
CompletedMeansCovered ==
  \A k \in DOMAIN jobs :
    /\ k.kind = "profile" /\ jobs[k].status = "completed"
    /\ doc[k.doc].revision = k.revision /\ doc[k.doc].edition = 1
    /\ profile.generation = k.generation /\ k.space \in Targets
    => k.space \in doc[k.doc].covered

Ended(k) == jobs[k].status \in {"completed", "skipped", "failed"}

(* The key of a retrievable document's work for the pending space is held  *)
(* by a failed job, or by an ended job although vectors are missing.       *)
Stranded ==
  Building /\ \E d \in Docs :
    LET k == CurrentKey(d, profile.pending) IN
    /\ Retrievable(d) /\ k \in DOMAIN jobs /\ Ended(k)
    /\ jobs[k].status = "failed" \/ profile.pending \notin doc[d].covered

(* A transition that builds is promoted, blocked, quarantined, failed or   *)
(* cancelled, whatever workers and documents do meanwhile, unless a key is *)
(* held: INSERT ... ON CONFLICT DO NOTHING never queues it again.          *)
TransitionEnds == Building ~> ~ Building \/ Stranded

Unsettled(d) == doc[d].status \in {"queued", "processing"}

(* A document that waits or is being processed becomes ready or failed,    *)
(* unless its job has ended without it: a late run of a job that another   *)
(* run completed put the status back.                                      *)
DocumentsSettle ==
  \A d \in Docs :
    Unsettled(d) ~> ~ Unsettled(d) \/ Ended(VectorizeKey(d, doc[d].revision))

(* Fairness: the workers go on, one or another of them, with their runs or *)
(* with claiming what waits and sweeping what is orphaned; the pass over   *)
(* building transitions, which the vector index makes whenever it is idle, *)
(* comes round and finds the index caught up in the end.  No particular    *)
(* run has to go on, and no operator has to act.                           *)
Poll == \E w \in Workers, k \in DOMAIN jobs : Claim(w, k) \/ (~ Held(k) /\ Sweep(w, k))
Pass == Ensure \/ Backfill \/ Promote

Fairness == WF_vars(Poll \/ \E w \in Workers : Step(w)) /\ WF_vars(Pass)

FairSpec == Spec /\ Fairness
=============================================================================
