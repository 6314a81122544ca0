# Radioso in TLA+

A verification development of Radioso's backend, kept beside its code. It models the parts of the
backend where several processes, transactions and outside services meet on shared rows, checks them
with TLC on small instances, and proves the central properties with TLAPS for every value of the
constants. Paths below are relative to the repository; `B/` stands for `backend/src/`.

`PROJECT.json` lists the components, the runs, the mutants each property detects, the source lines
behind each definition, the hazards the properties are for, and the theorems.

## 1. Inventory

The backend is a TypeScript service over Postgres (Kysely), with a Redis for realtime and a few
outside services (mail provider, Stripe, OAuth providers, model providers). Several instances of it run at
once. Nothing important is shared in memory: actors interact through rows, row locks and advisory
locks, and through calls whose answers can be lost.

| Component | State | Operations | What is hard | What makes it correct |
|---|---|---|---|---|
| **Background jobs** `B/shared/background-jobs/`, `B/db/repositories/backgroundJobRepository.ts` | `background_jobs`: status, attempt, claim token, lease, `rerun_requested` | enqueue in the producer's transaction, claim, run with deadline and heartbeat, complete or run again, retry and dead-letter with a hook, drain, prune dead letters | a duplicate enqueue against a completing run, lapsed leases, stalled processes, crashes, hooks that throw | no change of a level-triggered key is lost; a claim ends once; the retry budget holds; jobs settle |
| **Action outbox** `B/db/repositories/actionRequestRepository.ts`, `B/modules/chat/services/actions/` | `action_requests`: status, attempts, next attempt | insert with the message, claim, finish, retry or defer, park with a hook | stale claims, a hook in its own transaction under the row lock | an action ends once, and its hook settles the domain record |
| **Email outbound send** `B/modules/emailChannel/outbound/`, `persistence/emailSendIntentRepository.ts` | `email_send_intents`: state, frozen request, unknown outcome, version, schedule and lease | materialize, commit, post, record, re-post, look up, evidence, resolve, resend | exactly one copy over a provider that dedupes for a day, lost answers, evidence in any order | unsent means unsent; one copy; failures tell the truth; sends settle |
| **Delivery failures** `B/modules/customerReplyDelivery/`, `B/db/repositories/conversationDeliveryFailureRepository.ts` | one open failure per message | open, retarget, clear, acknowledge, resolve | decisions against a failure that moved | a decision is taken on what is shown |
| **Email inbound, mailboxes, domains** `B/modules/connectors/plugins/email/`, `B/modules/emailChannel/` | inbound deliveries, thread links with a review's revision and lease, mailboxes and the versions of their policy | accept, resolve, ingest, index; claim a due review, draft, publish or hold, review again, retry; change or remove a mailbox | mail, policy changes and lapsed leases in the middle of a review of minutes, a review that cannot succeed | the newest message is always in someone's queue; one automatic reply per message; reviews end |
| **Conversation lock protocol** `B/app/composition/conversationLockOrder.ts` | conversation, ownership, mailbox, draft, outbox rows | every unit of work over a conversation | deadlock, an absent row that locks nothing, one out-of-order path | a total order, deadlocks only by the documented exception |
| **Hand-off and held replies** `B/modules/handoff/` | ownership version, held replies | take over, transfer, hand back, reply, hold, queue, release, discard, supersede, dispatch | releases from stale screens, policy changes, racing turns | at most one live draft, bound to the newest message, the policy and the ownership; nothing outdated is sent |
| **Approvals** `B/modules/approvals/` | pending decision records | propose, resolve, resume | two deciders, effects after the decision | one decision, effects once |
| **Facet extraction queue** `B/modules/facets/infra/` | its own job table behind the runtime's store contract | claim, complete, release expired | no heartbeat, separate expiry sweep | the store contract |
| **Document pipeline** `B/modules/documents/`, `B/db/repositories/documentProcessingJobRepository.ts`, `documentRepository.ts` | a document's revision, status and retrieval switch; processing jobs by unique key | edit, process, publish, retry, fail, sweep lapsed claims | a job's end is fenced on its status only, a reschedule on nothing; a slow run beside the one that took its job | waiting documents settle; what is served can be searched |
| **Embedding profiles** `B/modules/embeddingProfiles/`, `B/db/repositories/embeddingProfile*.ts` | the workspace's active and pending space and generation, its transition, vectors per chunk and space | start, backfill, count coverage, promote, block, cancel, clean up | commits and publications racing promotion, new revisions and the retrieval switch; keys that ended jobs hold | a served document is covered in the active space; a transition ends |
| **Website crawler** `B/modules/websiteCrawler/` | crawl jobs | create, dispatch, run, finish | a dispatch that fails after the row is stored | a stored job is dispatched |
| **Realtime invalidations** `B/modules/realtime/` | in-memory producer queue, Redis channels, admission state | enqueue, coalesce, publish, subscribe, admit | awaits between read and write, replayed commands, capacity | a session sees an invalidation after every change it may have missed |
| **Usage limits and credits** `ee/packages/backend-module/src/usageLimits/` | a month's counter, the credit balance, grants, replies per conversation | reserve, release, grant, expire, read | refunds in another order and another month, debt that is carried on, changed limits, replies counted before they are charged | every credit is accounted for, debt stays within the grace |
| **Billing, automatic top-up** `ee/packages/backend-module/src/billing/` | the setting, a row per pack, Stripe's invoices, keys and events | claim, create, charge, settle, fail, re-drive, give up, both webhooks | lost answers, crashes between any two calls, keys Stripe forgets, webhook order, usage read before a pack was credited | one invoice per pack, credits for what was paid and only for that, the cap, no pack in flight for ever |
| **Integration OAuth** `B/modules/integrationOauth/` | tokens, connection status | resolve, refresh | rotation by another process | a working token is not thrown away |
| **Routine engine** `packages/conversation-engine/src/routineRunner.ts`, `B/modules/routines/` | a conversation's place in a routine | step, branch, call a skill, resume | long sequences of turns | a routine resumes where it stopped |
| **Machine access, MCP authorization, voice, Slack, chat turn, retrieval, console, SDKs, infrastructure** | — | — | mostly single-statement state, prompts, adapters, user interface | — |

Background jobs and email outbound carry the backend's hardest promises (at-least-once work that
loses no change; at-most-one mail over an unreliable provider) and every other asynchronous part
leans on them, so they are modelled first. Next come the two places where several actors decide over one
record across minutes: who answers a customer's mail (`HeldReplies`), and when a customer's card is
charged (`AutoTopUp`, with the credits it buys in `UsageLimits`). Then the longest-running change of
shared state: a workspace moving to another embedding model while its documents are edited
(`EmbeddingTransition`).

## 2. Modules

| Module | What it is |
|---|---|
| `LevelTriggered` | the abstract contract of a `rerun` job kind (`types.ts`): changes are made, work is open, work closes only when every change is dealt with |
| `BackgroundJobs` | the job table, producers' transactions and the runtime's drains |
| `BackgroundJobsProofs`, `BackgroundJobsRefinement` | the inductive invariant and its theorems; the refinement `BackgroundJobs => LevelTriggered` |
| `EmailSend` | one message's chain of sends: outbox, handler, provider, reconciler, evidence, failures, teammates |
| `EmailSendProofs`, `EmailFailureProofs` | the inductive invariants and theorems of its sends; those of the failure a teammate is shown |
| `HeldReplies` | one email conversation: mail, the review of its thread, held replies, ownership and the mailbox's policy |
| `HeldRepliesProofs` | its inductive invariant and theorems |
| `Purchase` | the abstract promise to a buyer: paid once, granted after that and once, and in the end |
| `AutoTopUp` | one account's packs in one billing period: sweeps, Stripe, webhooks |
| `AutoTopUpProofs` | its inductive invariant and theorems |
| `UsageLimits` | one account's allowance, credits and debt |
| `Prepaid` | the composition: `UsageLimits` extended with an instance of `AutoTopUp`, whose usage reads and settlements become steps on the credits |
| `PrepaidProofs` | that the composition implements `AutoTopUp`, the conservation of credits, and what both modules promise together |
| `EmbeddingTransition` | a workspace's documents, their workers, and the change of its embedding model |
| `EmbeddingTransitionProofs` | its inductive invariant and theorems |
| `MC...` | symmetry sets and values for TLC; the `.cfg` files give the instances |

### BackgroundJobs

`row[j]` is a row of `background_jobs`; `tx[p]` a producer's open transaction, which holds the row
lock its `INSERT ... ON CONFLICT` took and what it wrote; `pc[d]`, `claim[d]`, `claimed[d]` are a
drain's place, its claim and the ids it excludes. `version[k]` counts the changes committed to the
subject of a key, `seen[d]` is how many of them the handler `d` runs can have read, and
`settled[k]` how many a finished run has read or a dead letter has given up. `log` has one entry per claim, and a claim's token is its
index there.

* A producer's change and its enqueue commit together (`enqueueInTransaction`). `InsertFresh` and
  `InsertDuplicate` take the lock, `CommitTx` and `RollbackTx` release it; a statement that needs a
  row another transaction holds is not enabled until then.
* `seen` is the version at the handler's *start*: the earliest moment the handler can have read the subject,
  hence the worst case for a change that commits during the run.
* Completion locks the row first and decides under the lock: delete, or back to waiting when a rerun
  was requested. Every write-back is fenced by claim token and `running`.
* A failed run's hook runs in the write-back's transaction and may throw; the outcomes are
  nondeterministic. A dead letter gives up its key's changes: a rerun requested during a run that
  ends dead is dropped with it, as `shared/background-jobs/README.md` documents.
* A process may crash (its claim stays, until the lease lapses) or stall (the lease lapses under a
  live handler). `LeaseLapses` and `BecomesDue` stand for the clock.
* The runtime stops waiting for a handler at its deadline (`Deadline`) or when a heartbeat finds the claim gone
  (`LeaseLost`), but the handler may ignore its aborted signal: it is left behind and runs on, beside the drain's
  next jobs and the retry of its own. `left` has the claims of such handlers until `LeftEnds`, `late`
  counts those of a deadline. A left-behind handler's result is dropped, so it writes nothing to the job.
* What `run()` holds in its locals goes when it returns to the loop (`Returns`), and what `drain()` holds
  when it ends or dies (`Forgets`).

Abstracted: the claim's order (any claimable row may be taken); the wakes (a drain may start at any
time); `EndDrain` may end a batch earlier than the time budget would. Left out: jobs without an
idempotency key (each is its own job and cannot conflict), and what a handler that was left behind writes
to its *domain*, which is each handler's own (`EmailSend` has it for a send: `Timeout`).

### EmailSend

One message of one conversation, as a chain of sends: send 1 is the reply, each later one an audited
resend a teammate authorised. Per send, `action[n]` is its outbox row and `intent[n]` its
`email_send_intents` row; `failure` is the message's delivery failure; `authority` is the automatic
authority of the reply, if it needs one; `proc[x]` is where a worker or a
reconcile sweep stands; `read[t]` is what a teammate has been shown. `posted` and `copies`
are the outside world: whether a request reached the provider, and how many mails it sent for it.

* A database transaction is one step; a call to the provider is a step of its own (`Post`), and
  recording its answer another (`Record`), so everything can happen in between.
* The version fence of the intent (`SendIntentWriter.apply`) is modelled by judging each event on
  the current row: a writer that loses the fence judges its event again on the row that beat it, so
  its last judgement is always on the row it writes.
* A claim on an action is fenced by its attempt number; a claim on an intent by its reconcile lease.
* Parking an action holds its row lock while the hook runs in a transaction of its own
  (`HookOpen`, `HookApply`, `HookThrows`). `dropped` records the sends whose hook settled nothing:
  it threw, or no intent existed yet.
* `Timeout` detaches a handler that goes on by itself, the runtime having stopped waiting for it.
* `Post` answers accepted, rejected or unknown, whether or not the provider took the mail. The
  provider (external) keeps one copy per idempotency key while it remembers the key: for at least
  24 hours, the assumption `REPOST_WINDOW_MS` rests on.
* `Age` moves a frozen send from `fresh` (under 23 h since the first attempt, the re-post window)
  through `late` to `expired` (24 h or more). An allowed call is assumed to reach the provider
  within that hour's margin. The 48 h lookup deadline is the bound on deferrals.
* `ApplyEvidence` is a webhook or a DSN, `AcceptByMessageId` the fallback that finds a send by its
  Message-ID. `LaterDelivery` is another message of the conversation arriving, `Acknowledge` a
  teammate dismissing the failure.
* Whether the mailbox may send (its domain's verification, its settings) is written by other parts
  of the system at any time, so each check finds either answer.
* The authority of an automatic reply may be revoked at any time (`Revoke`) and its budget may
  refuse it; an operator's reply has no such check. `ReadFailure` merges the reads a resolver makes
  before its transaction.

Faults (crashes, stalls, timeouts, database errors, throwing hooks, leases that expire under a live
holder) share one bound, `MaxFaults`.

Left out: rendering, headers and MIME, the wording of refusals, the listing of failures, and the
other kinds of action on the outbox.

### HeldReplies

`mail[m]` is a message's inbound delivery, `inbox` the conversation's customer messages, `own` its
`conversation_ownership` row, `policies` the mode of each version of the mailbox's policy, `link` the
thread's review (`email_thread_links`: revision, due, lease, attempts), `drafts[r]` the `held_replies`
row that review revision `r` produced, `rv[d]` where a review drain stands and what it has read.

* Every transaction on the conversation locks its row first (`conversationLockOrder.ts`), so each is
  one step; that atomicity is what this module takes from the lock protocol.
* A review (`EmailReviewRunner.runRevision`) is many steps: it claims the revision, reads the mailbox,
  then the conversation, runs its turn, and records its result; anything may commit in between. A
  result is judged when it is recorded (`Stale` is `staleBinding`): outdated, it is *born* superseded.
  `Finish` completes the revision, and when the policy moved it schedules another.
* `ensureClaimed` before a write and the claim check inside the transaction that follows have one
  effect, so only the second is there. `ensureClaimed` and `scheduleReview` are one step (`Again`).
* `Failing`, `RetryLater` and `HandOff` are a step that failed: another attempt, or the thread
  goes to a person. `Crash` and `LeaseLapses` leave the claim to the next drain.
* `passed` marks a draft beside which a hand-off was asked for. `HandedOff` moves the ownership
  version and leaves drafts alone, so such a draft cannot be released or sent any more.
* `Act` is a teammate: take over, transfer, hand back, reply, release, discard. A screen may be as
  old as it likes: the transaction checks what it finds.
* `Dispatch` is the outbox handler materializing a queued reply: it sends it or returns it to the
  conversation. From there on it is `EmailSend`'s.

The agent's answer, triage, the checks before publication, whether the domain is ready and whether a budget is spent are
choices. Each message and each policy move schedules at most one revision, so `MaxRev` is their sum.
Left out: renewal of the send budget, an inbound event whose retries run out, the order of the locks,
edits on release, drafts no policy vouches for (those of other channels), notices and activity records.

### AutoTopUp

`row[n]` is a row of `ee_billing_auto_top_ups`, `setting` the account's settings, `job[d]` where a run
of the dispatcher stands, `credited` the packs whose invoice has a grant, `inv` and `hook` Stripe's
side: the invoice made for a pack with the outcome kept under its payment key, and the two events
about it.

* A run is `AutoTopUpDispatcher.run`: `ListExpired`, `Lookup`, `Void`, `GiveUp`; `Redrive`;
  `ReadSettings`, `ReadUsage`, `ClaimPending`; and for a pack to charge `Create`, `Record`, `Check`,
  `Charge`, `Credit`, `MarkPaid`, or `Void` (`revoke`), `Decline`, `Disable`. Every statement and
  every call is a step; a call's answer may be lost whether or not Stripe acted on it.
* `applyIdempotently` claims an event in a transaction, but its effects use other connections: each
  is a step, and `HookFails` undoes only the claim, so that Stripe sends the event again.
* `age` is `young` up to the end of the re-drive window (20 h), `late` until Stripe may forget an
  idempotency key (24 h), then `old`. A run is assumed to be done with a pack's calls within the four
  hours between the two. `recent` is the lease of a pending row and the cooldown of a failed one.
* Stripe (external) makes one invoice per remembered key, repeats the outcome of a payment under its
  key, can void only an open invoice, and sends each event until it is answered. A member may pay an
  open invoice on its hosted page.

Faults and the acts of members (payments by hand, switches of the setting) share one bound, `MaxFaults`.
What the usage is, and whether there is a subscription to charge, are choices (the composition decides
the first). `FailedDisables` takes turning off and voiding as one step, since nobody reads what is
between. Left out: more than one billing period, the reason of a disable, audits and notices, and a
member who changes the cap (it is any cap, fixed at the start). A missing price, and an answer of Stripe that an
invoice is still open without an error, each cost a fault of `MaxFaults`.

### UsageLimits and Prepaid

`used[m]` is a month's counter, `balance` the credits (negative when borrowed), `grant` the grants by
reference, `open` the reservations not yet released. `Reserve` is `reserveTenths`: the clamp of
expired credits, what a charge overshoots the plan by, and the ceiling of what it may; a refusal
rolls the transaction back. `Release` works its refund out from what the counter reads by then.
Committing a reservation does nothing in the code and has no action. `lost` counts what expiries took.

In `Prepaid` a run's `ReadUsage` is also the clamped read of the account (`Reads`) and goes on only
when the limit is reached; a settlement by the run (`Settles`) or by the webhook (`Hears`) grants under
the pack's reference, whoever comes first. `EXTENDS UsageLimits` and `T == INSTANCE AutoTopUp` share
no variable, so `T!Spec` is the composition with the usage forgotten.

`Purchase` says what both promise together: a pack is paid at most once, granted only after that and once, and
(`LiveSpec`) granted in the end. `AutoTopUp` maps the paid invoices and `credited` to it
(`ImplementsPurchase`), `Prepaid` the paid invoices and the pack's grants on the balance
(`EveryPaymentIsGranted`), with the fairness of section 4.

`Reserve` charges the current month. The code fixes `periodStart` before its awaits
(`usageLimitService.ts:535`), so that a call which crosses the end of a month is charged to the month it began in,
and its block counter with it; the model has no such call, and no property is about it.

Left out: a change of plan between a reservation and its release (the release uses the limit it
captured, and may give back credits that were never drawn); blocks of replies; per-kind counters,
alerts, and the document, storage and byte limits; grants of other origin, which are the same
`AddCredits` under other references. `reserveConversationUnits` counts a reply before it charges the
block it opens (lines 541-559) and uncounts it when the charge is refused: a reply of the same
conversation counted in between, and those after it, sit in a block that nobody paid for, although
the comment there says that it "has already been paid for". This is the next thing to model here.

### EmbeddingTransition

`doc[d]` is a document of the workspace: its revision and status, whether retrieval may serve it
(`enabled`), the spaces that hold a vector of this revision for each of its chunks (`covered`), and how
often the revision's chunks were written (`edition`: rewriting them deletes their vectors). `jobs` is
`document_processing_jobs` by unique key, `profile` the workspace's profile with its newest
transition, `run[w]` what a worker holds in memory, `retired` the spaces of promoted transitions that
`cleanupIfSafe` has still to delete.

* A run of a document's own job is `Begin`, `Embed` (in the space it read as active), `Publish`,
  `Published`, then `Complete`; of a profile job `Load`, `EmbedProfile`, `Commit`. Anything may commit
  between two of them. Publication and the commit are each one transaction behind a lock on the
  profile; everything that reads the profile to write (`Promote`, `Start`, `Cancel`) takes that lock.
* A job's end is written `WHERE status = 'processing'` (`Resolved`), whoever holds it; `Reschedule` has
  no condition. `Sweep` is a lapsed claim: of a run that died, or (a fault) of one that lives. With the
  attempts used up, the sweeping worker fails the job itself.
* `Ensure` and `Backfill` are the statements of `ensureTransitionWork`, at the start and in every pass
  over building transitions. All inserts are `ON CONFLICT DO NOTHING` (`Enqueued`).
* `Promote` is attempted by a publication, a completed job, the vector index and the pass; since an attempt
  that is not `Promotable` changes nothing, the attempts are one action that may happen at any time.
* `Switch` and the reconciliation that follows its commit are two steps, and a crash of the API may
  lose the second.
* Two things are taken as one step that the code does in more: the reads at the start of a profile run
  (`Load`), and the two statements of the reconciliation after a switch of retrieval.
* `hidden` is a history variable: the published documents that were switched off, and not covered,
  when the last promotion counted.

The vector index (whether it has caught up, and its dead letters) and the provider's answers are choices.
Faults share `MaxFaults`, edits `MaxChanges`. Left out: enrichment jobs, deletion, the expiry of retrieval by
time, the validation of a target with fixed inputs before a start, requeueing after a credential
changes, the repairs at startup, and a space quarantined through another workspace.

## 3. Runs

All counts are distinct states. Deadlock is not checked: once the bounded producers, sends and faults are
spent the modelled system has nothing left to do, and may stop.

| Run | Instance | Checks | Size |
|---|---|---|---|
| `jobs` | 2 keys, one of them level-triggered, 1 row, 2 producers with 2 transactions in all, 2 drains, 2 attempts, 1 crash, 1 stall, 1 handler past its deadline, with fairness | `TypeOK`, `NoLostChange`, `HandlersRaceOnlyByCause`, `RetryBudget`, `ClaimsEndOnce`, `JobsSettle`, `ImplementsLevelTriggered` | 454 thousand |
| `email_race` | 1 send, 2 workers, 1 sweep, both authorities, 2 attempts, 1 deferral, 1 fault, with fairness | `TypeOK`, `UnsentNeverReachedProvider`, `OneCopyPerSend`, `SendsSettle` | 672 thousand |
| `email_resend` | 2 sends, 1 worker, 1 sweep, 1 teammate, 1 attempt, 1 fault | `UnsentNeverReachedProvider`, `OneCopyPerSend`, `FailureTellsTheTruth`, `DecisionsAreFresh` | 1.0 million |
| `email_bad_news` | 1 send, 1 attempt, 1 fault | `BadNewsFindsItsFailure`, violated | small |
| `held_replies` | 2 messages, 2 policy versions from `auto`, 2 review drains, 1 teammate with 1 act, 2 attempts, 1 fault | `TypeOK`, `LiveDraftIsCurrent`, `NewestMailIsAttended`, `SentRepliesAreCurrent` | 2.7 million |
| `review_live` | 2 messages of a drafting mailbox, 2 drains, 2 attempts, 1 fault, with fairness | `DueReviewEnds` | 36 thousand |
| `review_lost` | 1 message, 2 policy versions, 2 drains, 1 fault | `MovedPolicyIsReviewedAgain`, violated | small |
| `review_twice` | 2 messages, 2 drains, no fault | `OneAutomaticReply`, violated | small |
| `topup` | 2 sweeps, 2 packs, a cap of 1 or 2, 1 fault or act of a member | `TypeOK`, `CreditsMatchPayments`, `OneInvoicePerPack`, `CapHolds`, `PaidIsGrantedOrTold`, `ClaimSeesEveryPack`, `ImplementsPurchase` | 2.1 million |
| `prepaid` | 2 months, 3 calls of a conversation or half of one, plan, grace and pack of one conversation, 1 sweep, 1 pack, 1 fault or act of a member, with fairness | `CreditsConserved`, `DebtWithinGrace`, `PendingEnds`, `EveryPaymentIsGranted` | 204 thousand |
| `transition` | 1 document with 2 revisions, 2 spaces, 2 workers, 2 generations, 2 attempts, 1 edit or switch, 1 fault | `TypeOK`, `RetrievableIsSearchable`, `CompletedMeansCovered` | 1.9 million |
| `transition_live` | the same with 1 revision, with fairness | `TransitionEnds`, `DocumentsSettle` | 327 thousand |

**Why the bounds are enough.** Two drains and two producers are the smallest populations in which a
run, a takeover of it and a duplicate enqueue can all be under way. The `jobs` run has one row, and a
deleted row's id is never used again, so TLC does not see a key inserted afresh while an old claim on its
deleted row is still open, nor two jobs side by side; these are left to the theorems, which have any
number of rows (`NoLostChange`, `HandlersRaceOnlyByCause`, `RetryBudget`, `ClaimsEndOnce`, the refinement). Two attempts
separate a retry from a dead letter; a crash and a stall together reach the last lapse; one late handler and one
stall are enough for three handlers of the job at once, and for a retry beside its abandoned handler with no stall at all. One
send with two workers and a sweep has every race over one intent; the second send exists only to
replace the first, so one worker is enough there. One fault already gives the lost answer, the
stalled worker, the timed-out handler and the throwing hook, each combined with every race. Two messages and two policy versions give a review everything that can move under
it; two drains, a lapsed claim beside the one that took it over. Two packs are needed for a cap to
bind and for one pack to be claimed while another is being settled; caps of one and two put the cap
below and at the number of packs. In `prepaid` the unit is half a conversation, the lightest weight
the catalogue has; two months let a release reach a past month and debt be carried on, and three calls
are enough to use up the plan, borrow the whole grace and be refused. One pack in `prepaid` keeps the period of the
cap and the two months apart. In `transition` two generations are the ones before and during a
transition, and a third follows its end; two runs are a late run and the one that took its job, or the
document's job and a profile job; two spaces are the old and the new. Larger instances (two
documents, two transitions, two faults) were tried and found nothing more. The safety theorems of section 5 hold without any of these bounds' values.

**What the runs show.** Everything holds except three properties, each of which states what a comment or
the documentation says.

`BadNewsFindsItsFailure`: `settleUncertain` (`outbound/sendIntentTransitions.ts:193`) retargets the open
failure of an uncertain send when bad news about it arrives, on the ground that "`marked_sent` cleared the
failure, so the bad news opens a new one; otherwise its own is still open". But a teammate may have
acknowledged that failure (`deliveryFailureDecisions.ts:73`), or a later message may have been
delivered and cleared it (`emailSendIntentRepository.ts:395`), without any decision on the send. The
retarget then updates no row and the bounce flags nothing, where `specs/1403-email-channel/spec.md`
(FR-037) asks for an attention flag on every bounced send.

`MovedPolicyIsReviewedAgain`: a review that finishes under a moved policy records a superseded draft, and only
afterwards schedules the review that replaces it (`emailReviewRunner.ts:552-557`). When it fails, crashes or
loses its claim in between, the next claim of the revision finds the draft, takes the result for
recorded (line 330) and only completes it. The AI keeps the conversation, no review is due and nobody is
asked, where `docs/email-channel.md:606` says that the thread is reviewed again.

`OneAutomaticReply`: a review answers the newest message as it reads it, not the one its revision was
scheduled for. A message recorded after the claim and before that read (`emailReviewRunner.ts:348`) is
answered by the older revision, whose result is current and goes out, and answered again by the
revision the message itself scheduled. `docs/email-channel.md:552` says that the older one ends superseded.

Behaviour met while modelling that no property excludes. For most of it nothing in the repository promises
otherwise; where a doc or a comment is near, the item quotes it. The properties that would meet it name the
exception:

* A message resolved while a person had the conversation and recorded after they handed it back is neither
  reviewed nor handed off (`conversationIngestService.ts:132`); `NewestMailIsAttended` sets it apart.
* A last attempt that fails after it held its draft hands the thread off and leaves the draft live at an
  ownership version no release accepts; a hand-off recorded again beside a draft does the same.
  `LiveDraftIsCurrent` sets it apart by `passed`.
* A failure between marking a pack failed and turning auto top-up off leaves it on, and the card is charged
  again after the cooldown (`billingWebhookHandler.ts:507`, `autoTopUpDispatcher.ts:376`).
* A decline that the sweep learns first mails nobody: the webhook then finds the pack failed and stops. The notice
  is not modelled; the operators' page on usage limits promises one.
* A pack paid after it was given up still counts, so the cap can be passed by the packs that were
  `revived` (`CapHolds`); and between its grant and its mark a claim may be made on usage that
  knew nothing of it (`ClaimSeesEveryPack`).
* A left-behind job handler and the retry of its job run at the same time, as `background-jobs/types.ts:84`
  says; `HandlersRaceOnlyByCause` bounds how many, and does not forbid it.
* A run of a document's own job that fails after it published marks the document `queued` and then
  `processing`: the document leaves retrieval although it has been ready, and may end `failed`
  (`documentProcessingWorker.ts:457`, `documentProcessingService.ts:227`). A comment on the terminal path
  (`documentProcessingWorker.ts:513`) promises "an already-ready document never hidden from retrieval", for that
  path and by a guard that sees the status the rerun has overwritten. No property states the promise:
  `DocumentsSettle` is about documents that wait, and says nothing of one that was ready. A late run of a
  job another run has completed leaves the document `queued` beside a completed job, which `DocumentsSettle` sets apart.
* A key of the backfill whose job has ended is never queued again. `docs/embedding-coverage.md` says so of
  failed jobs; it also holds of a job skipped while its document was switched off and then on again, for
  which no job failed. `TransitionEnds` sets both apart (`Stranded`).
* A document switched off when a promotion counted and switched on afterwards is served before it has vectors in
  the new active space, until its backfill is done; `RetrievableIsSearchable` sets it apart (`hidden`).

Every property has a mutant: a plausible bug in a mapped definition (a missing `FOR UPDATE`, a fence
on status instead of the token, a budget check off by one, a re-post window without an end, a
decision that takes any open failure) that makes the property fail in its own run.

## 4. Fairness

* `BackgroundJobs`: open transactions end, one or another; each drain is started by the poll timer or the
  sweep and takes its next step (`GoesOn`): it claims, runs, writes back, and its deadline timer fires; backoffs become
  due and leases lapse when nobody renews them. No handler is trusted to finish (`HandlerReturns`
  has no fairness): the deadline ends the run. Nothing obliges a producer to begin. `JobsSettle`
  needs producers to stop eventually, which `MaxTx` provides: an endless stream of rerun requests may
  keep one row busy for ever, by design.
* `EmailSend`: some worker or sweep goes on while any can, claims are made, leases lapse and time passes.
  No particular worker, sweep or send is treated fairly. Evidence, teammates, policy changes and faults are
  not fair. `SendsSettle` therefore says that a send leaves `queued` and `accepted` on the backend's own
  schedule, without help from outside. It excludes `dropped` sends: when the dead-letter hook found no
  intent and a timed-out handler materializes one afterwards, or the hook threw, nothing in the code settles that send.
* `HeldReplies`: drains claim due reviews, a claimed review takes its next step, and leases lapse. Mail,
  teammates, policy changes and faults are not fair. `DueReviewEnds` is checked where reviews most
  easily fail: a drafting mailbox whose second result meets the first one's live draft.
* `Prepaid`: the scheduler starts runs and a run goes on, Stripe repeats an event until it is handled,
  leases lapse and packs age. Members, the account's usage and faults are not fair. `PendingEnds` needs no webhook and no
  payment: giving up ends what nothing else ends. `EveryPaymentIsGranted` rests on the event when the run
  gave the pack up or never came back to it, so on Stripe sending an event until it is handled, which it does for
  days.
* `EmbeddingTransition`: the worker's poll loop goes on: as long as a run has a step to take, a job waits or
  an orphaned claim can be swept, one of these happens. The pass over building transitions, which the vector
  index makes whenever it is idle (`documentRetrievalGraph.ts`), comes round, and finds the index caught up in the
  end. No particular run is treated fairly, and no operator has to act.

## 5. Proofs

Everything is proved from the one assumption each module makes on its constants
(`BackgroundJobsAssumption`, `EmailSendAssumption`, `HeldRepliesAssumption`, `AutoTopUpAssumption`,
`UsageLimitsAssumption`, `PrepaidAssumption`, `EmbeddingTransitionAssumption`: bounds are numbers, an attempt budget, a cap and a weight are positive,
the sets that name different actors are disjoint, a pack's reference is a reference). No bound has a particular value in a proof.

* **`BackgroundJobsProofs`**: `TypeCorrect`, `NoChangeIsLost`, `ClaimsEndOnceHolds`, `HandlersRaceByCause`,
  `RunsStayWithinBudget`. None of the
  properties is inductive; `IInv` joins five parts that together are. `TypeOK` has the types and the
  table's CHECK constraints. `TxInv` says that the row a producer's open transaction wrote is still as
  it wrote it and is no other producer's: the row lock, as an invariant. `ClaimInv` bounds the
  tokens drains hold by those handed out. `LogInv` says that a running row carries the
  token of an entry of the log that is its own and still open, and that an open entry has committed
  no hook; hence a fenced write-back ends an open claim, which gives `ClaimsEndOnce`. `CoverInv`
  strengthens `NoLostChange`: an owed change has a live row that is waiting, or carries a rerun
  request, or whose every current run has seen that change. Without the last part, completing a run
  could leave an owed change with nothing. `HandlersRaceByCause` (`HandlersRaceOnlyByCause`) adds
  `StallInv`: drains at work hold different tokens (`TokenInv`), and the drains that outlived their lease together with the
  handlers left behind are no more than the stalls and the late handlers (`RaceInv`). A lost lease only moves a
  handler from the one kind to the other, so it is paid for once. Of a row's handlers one can hold its
  current token; each other one is of either kind.
  `RunsStayWithinBudget` (`RetryBudget`) adds `BudgetInv`: of a job's claims in the log, those with an attempt
  the policy allows are at most a full budget for each requeue and, beyond those, what the row's `attempts` say is used
  up. A claim adds one on each side and a requeue trades the row's count for one more budget; a released or
  lapsed claim changes neither. Handlers that started are among those claims.
* **`BackgroundJobsRefinement`**: `Refinement`, `Spec => Level!Spec`. A step of the table is a change,
  an advance or a close of the abstract work, or a stutter. It needs two more invariants: `KeyInv`,
  at most one live row per key, counting the inserts still to commit (the partial unique index), and
  `ReadInv`, that nothing is read or settled before it commits.
* **`EmailSendProofs`**: `TypeCorrect`, `UnsentStaysUnsent` and `OneCopy`. The second comes from `Sound`, which relates the row to
  the outside world: a row recorded as unsent is not frozen; what was posted is frozen; and a process
  on its way to the provider call stands on a frozen row. `RowStep` is the step version: nothing
  undoes a freeze. `UnsentNeverReachedProvider` follows from the three, and is not inductive alone,
  as it does not say that a row that is about to be posted cannot be recorded as unsent. `OneCopy`
  (`OneCopyPerSend`) adds `KeyHeld`: a copy was posted under its key, and whoever is in a provider call has a key the
  provider still remembers, so the call finds the copy that is there or makes the only one.
* **`EmailFailureProofs`**: `FailureInvariance`, `FailuresTellTheTruth`, `FreshDecisions`. `FailureInv` adds to that
  invariant that a send exists only once all earlier ones were resent (`Chained`), so that the one not
  resent is the newest; that an open failure shows such a send, in its state (`Candid`); and that teammates are only
  asked what has an answer (`Asked`). Most of the proof is `Fate`: what each event does to a send it does to
  the failure in the same step (nothing that shows, a late event on a resent send, a clear, a raise or a
  new kind). A decision then finds its failure unmoved, so it is about the newest send, undecided:
  `FreshDecisions` (`DecisionsAreFresh`).
* **`HeldRepliesProofs`**: `TypeCorrect`, `DraftsAreCurrent`, `RepliesSentCurrent`, `NewestIsAttended`. `IInv` adds to the types
  that at most one draft is live (`OneLive`); that a live draft answers the newest message at the
  policy in force and, unless a hand-off passed it by, at the ownership version in force with the AI
  owning (`DraftsStand`); and that a review about to record its result read an ownership version
  no newer than the current one, which the AI has if it is the current one (`ReviewsStand`). The
  last part is what makes the check at recording sufficient: versions only grow, so equality
  means that nobody took the conversation in between. `NewestIsAttended` adds `AttendInv`: a review is due or the
  newest message is somebody's already (`DueInv`); a draft of the current revision leaves it somebody's (`DoneInv`);
  and a claimed review of the current revision either read what still stands, or whatever moved it left the
  message somebody's (`HeldInv`). The last is the part that is not obvious: between the claim and the result
  the message, the policy and the owner may each have moved, and each mover takes the message with it, apart
  from the two ways the property sets apart.
* **`AutoTopUpProofs`**: `TypeCorrect`, `GrantsFollowPayments`, `NoSecondInvoice`, `CapIsKept`,
  `PaymentsAreGranted`, `ClaimsAreInformed`, `SellsPacks`, all from one `IInv`. `PackOK` ties the three records of a pack
  together: its row, its invoice and its paid event (an invoice is paid exactly when its
  event exists; a handled event means a paid row; a paid row means a grant). `JobOK` ties a sweep's place
  to its pack: on the way to a grant the invoice is paid, on the way to an invoice the pack is not old,
  which gives one invoice per pack; and between reading the usage and claiming, the packs it counted
  were all credited when it read, which gives `ClaimsAreInformed`. `SellsPacks` (`Spec => ImplementsPurchase`)
  shows step by step that at most one invoice becomes paid, or one pack with a paid invoice is credited, or
  neither changes.
* **`PrepaidProofs`**: `ImplementsTopUp` (`Spec => T!Spec`): every step of the account is a step of the
  top-up or leaves it alone, so the theorems above hold of the composition. `GraceIsKept` is inductive
  as it stands: a refund only adds, the clamp only takes credit and never debt, and the ceiling
  leaves at least `-Grace`. `EveryCreditAccounted` states for each step that the balance moves by what is granted, what
  expires and what one month's use past the allowance moves by. `CreditsAreConserved` (`CreditsConserved`) adds
  these up. The sum over the months is a fold, and its recursion is over sets of months: that it exists
  (`SumExists`), is unique (`SumIsUnique`) and moves with one month (`OneMonthMoves`) are inductions, each done
  without an induction theorem by taking a counterexample of the least size (`Least`, from
  `WFMin` of the library).
  The rest holds the two modules against each other. `TopUpProved` takes all that is proved of
  `AutoTopUp` over to the composition, through an instance of its proof module, and
  `PacksAreSold` (`Spec => Sale!Spec`) that the balance gets a pack's credits once and only after it was paid
  for. It is the safety half of `EveryPaymentIsGranted`. (The lemma `CreditsAreGrants` it rests on relates two variables
  of the model that stand for one table, and is no result about the code.)
* **`EmbeddingTransitionProofs`**: `TypeCorrect`, `WhatIsServedIsSearchable`, `CompletedWorkIsDone`.
  `WhatIsServedIsSearchable` is inductive with the types: a publication covers the space that the profile lock finds
  active, a promotion counts what is ready, a cleanup spares the active space. `CompletedMeansCovered` is not:
  `PinInv` adds that a run about to complete a profile job has found, or made, its document covered as long as
  the pins are current and the chunks are those of the first edition, and that no job names a revision or a
  generation still to come. Revisions and generations only grow, so outdated pins stay outdated, and
  what one run of the job has done no other can undo: this is why a completion fenced on the status alone
  is enough. A second edition is not covered by it: a rerun of the document's own job rewrites its chunks
  under the same revision, and completed jobs keep their keys (`Stranded`).

Only model-checked: liveness and fairness (`JobsSettle`, `SendsSettle`, `DueReviewEnds`, `PendingEnds`, `EveryPaymentIsGranted`,
`TransitionEnds`, `DocumentsSettle`, and the fair part of `ImplementsLevelTriggered`), which TLAPS does not reach.
Every invariant and every action property that a passing run checks is a theorem.

## 6. Plan

In order of importance:

1. **Reply blocks and changes of plan** in `UsageLimits`.
2. **ConversationLocks**: the lock order, absent rows that lock nothing, the one out-of-order path; waits form
   a cycle only through the documented exception. Then `HeldReplies` composed with `EmailSend`,
   whose `Revoke` becomes an act of a teammate.
3. **The facet store** as a second implementation of the job store's contract.
4. **Invalidations, Approvals, RoutineRunner**; enrichment and deletion in `EmbeddingTransition`.

**Not modelled, and why.** Chat prompts, retrieval quality, rendering, user interfaces, SDKs and the adapters
of channels keep no state that several actors share, and are most of the repository's lines; generated clients
and schemas have no behaviour of their own. The crawler's job lifecycle is a smaller instance of the document pipeline's. OAuth refresh and
machine access are single-statement changes. The parts under 2 to 4 are left for their size only.

## 7. Running

    tlc -workers 2 -config MCBackgroundJobs.cfg MCBackgroundJobs
    tlc -workers 2 -config MCPrepaid.cfg MCPrepaid
    tlapm AutoTopUpProofs.tla

`PROJECT.json` names the module and the configuration of every run. The largest take three to four
minutes on two workers; `BackgroundJobsProofs`, `HeldRepliesProofs` and `EmbeddingTransitionProofs` are the longest proofs.
