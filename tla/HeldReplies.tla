---------------------------- MODULE HeldReplies ----------------------------
(***************************************************************************)
(* One email conversation between the agent and the team: mail comes in,   *)
(* a review of the thread drafts a reply, the draft waits for a teammate   *)
(* or goes out on its own, and meanwhile newer mail, a takeover, a         *)
(* hand-back or a change of the mailbox's policy moves the authority the   *)
(* draft was written under.                                                *)
(*                                                                         *)
(*   backend/src/modules/connectors/plugins/email/*.ts     mail and review *)
(*   backend/src/modules/handoff/**, db/repositories/heldReplyRepository,  *)
(*   conversationOwnershipRepository                drafts and ownership   *)
(*   backend/src/modules/emailChannel/mailboxes/mailboxService.ts policy   *)
(*                                                                         *)
(* Every transaction that touches the conversation locks its row first, so *)
(* a transaction is one step.  A review is many: each await between its    *)
(* claim and its completion is a point where anything else may commit.     *)
(* What the agent and its checks answer, whether the sending domain is     *)
(* ready and whether a budget is spent are choices.                        *)
(***************************************************************************)
EXTENDS Naturals, Sequences, FiniteSets

CONSTANTS
  MaxMail,      \* bound: customer messages accepted for the mailbox
  MaxPolicy,    \* bound: versions of the mailbox's policy
  MaxActs,      \* bound: acts of teammates
  MaxFaults,    \* bound: failed steps, crashes and lapsed leases
  MaxAttempts,  \* the review runner's maxAttempts
  FirstModes,   \* the modes the mailbox may start in
  Reviewers,    \* concurrent runs of the review drain
  Teammates,    \* operators of the workspace
  NoOne         \* no reviewer, no teammate

ASSUME HeldRepliesAssumption ==
  /\ MaxMail \in Nat \ {0} /\ MaxPolicy \in Nat \ {0} /\ MaxAttempts \in Nat \ {0}
  /\ MaxActs \in Nat /\ MaxFaults \in Nat
  /\ FirstModes \subseteq {"auto", "draft", "off"}
  /\ NoOne \notin Reviewers /\ NoOne \notin Teammates

VARIABLES
  policies,  \* the mode of each version of the mailbox's policy
  removed,   \* the mailbox is removed
  own,       \* conversation_ownership
  mail,      \* the inbound delivery of each message
  inbox,     \* customer messages of the conversation, newest last
  link,      \* email_thread_links: the thread's review
  drafts,    \* held_replies, by the review revision that produced each
  rv,        \* the review drains
  settled,   \* messages a teammate handed back, or triage set aside
  acts,      \* acts of teammates so far
  faults     \* faults so far

vars == <<policies, removed, own, mail, inbox, link, drafts, rv, settled, acts, faults>>

-----------------------------------------------------------------------------

Modes   == {"auto", "draft", "off"}   \* off: operator_only, disabled, or no agent
Mails   == 1 .. MaxMail
MaxRev  == MaxMail + MaxPolicy        \* bound: one review per message and per policy move
Revs    == 1 .. MaxRev

PolicyVersion == Len(policies)        \* the current version
Mode          == policies[PolicyVersion]
Newest        == IF inbox = <<>> THEN 0 ELSE inbox[Len(inbox)]

(* effectiveEngagementMode: the less autonomous of two modes.              *)
Narrower(m, n) == IF "off" \in {m, n} THEN "off" ELSE IF "draft" \in {m, n} THEN "draft" ELSE "auto"

Ownership == [state : {"ai", "human"}, version : Nat, owner : Teammates \cup {NoOne}]

Delivery == [phase : {"none", "accepted", "dropped", "resolved", "ingested", "done"},
             accepted : Nat, disp : {"none", "review", "handoff", "human_owned"}]

Link == [rev : 0 .. MaxRev, due : BOOLEAN, holder : Reviewers \cup {NoOne},
         expired : BOOLEAN, attempts : Nat, accepted : Nat]

LiveStates == {"pending", "queued_auto"}
Reasons    == {"newer_inbound", "takeover", "operator_reply", "policy_changed"}

(* `born` marks a draft superseded as it was recorded; `open` one that     *)
(* still asks for a teammate; `passed` one a hand-off left live.           *)
Draft == [state : LiveStates \cup {"none", "released", "auto_released", "discarded", "superseded"},
          answers : 0 .. MaxMail, own : Nat, pol : Nat,
          why : Reasons \cup {"none"}, born : BOOLEAN, open : BOOLEAN, passed : BOOLEAN]

NoDraft == [state |-> "none", answers |-> 0, own |-> 0, pol |-> 0,
            why |-> "none", born |-> FALSE, open |-> FALSE, passed |-> FALSE]

PCs == {"idle", "claimed", "conversation", "turn", "drafted", "hold", "moved",
        "again", "handoff", "finish", "failed"}

(* What a drain holds in memory: its claim, the mailbox as it read it, the *)
(* message it answers and the ownership its turn ran under.                *)
Review == [pc : PCs, rev : 0 .. MaxRev, attempt : Nat, accepted : Nat,
           pol : Nat, mode : Modes, answers : 0 .. MaxMail, own : Nat]

Idle == [pc |-> "idle", rev |-> 0, attempt |-> 0, accepted |-> 0,
         pol |-> 0, mode |-> "off", answers |-> 0, own |-> 0]

Live(d)    == d.state \in LiveStates
LiveDrafts == {r \in Revs : Live(drafts[r])}

(* Every variable has its type, one draft of a conversation is live, and a *)
(* draft records what its state needs (held_replies' unique index and      *)
(* CHECK constraints).                                                     *)
TypeOK ==
  /\ policies \in Seq(Modes) /\ PolicyVersion \in 1 .. MaxPolicy
  /\ removed \in BOOLEAN
  /\ own \in Ownership /\ (own.state = "ai" => own.owner = NoOne)
  /\ mail \in [Mails -> Delivery]
  /\ inbox \in Seq(Mails)
  /\ link \in Link
  /\ drafts \in [Revs -> Draft]
  /\ rv \in [Reviewers -> Review]
  /\ settled \subseteq 0 .. MaxMail
  /\ acts \in Nat /\ faults \in Nat
  /\ Cardinality(LiveDrafts) <= 1
  /\ \A r \in Revs : (drafts[r].why # "none") <=> (drafts[r].state = "superseded")

Init ==
  /\ policies \in {<<m>> : m \in FirstModes}
  /\ removed = FALSE
  /\ own = [state |-> "ai", version |-> 0, owner |-> NoOne]
  /\ mail = [m \in Mails |-> [phase |-> "none", accepted |-> 0, disp |-> "none"]]
  /\ inbox = <<>>
  /\ link = [rev |-> 0, due |-> FALSE, holder |-> NoOne, expired |-> FALSE,
             attempts |-> 0, accepted |-> 0]
  /\ drafts = [r \in Revs |-> NoDraft]
  /\ rv = [r \in Reviewers |-> Idle]
  /\ settled = {} /\ acts = 0 /\ faults = 0

-----------------------------------------------------------------------------
(* What several transactions share.                                        *)

(* supersedePendingForConversation, and for a policy                       *)
Supersede(ds, why) ==
  [r \in Revs |-> IF Live(ds[r])
     THEN [ds[r] EXCEPT !.state = "superseded", !.why = why, !.open = FALSE]
     ELSE ds[r]]

(* FAULT: a claim or a reply supersedes only what waits for a teammate.    *)
ReplacePendingOnly(ds, why) ==
  [r \in Revs |-> IF ds[r].state = "pending" THEN [Supersede(ds, why)[r] EXCEPT !.open = FALSE]
                  ELSE [ds[r] EXCEPT !.open = FALSE]]

(* replaceHeldReplies: a claim or a reply of a teammate replaces the live  *)
(* draft, and a discarded one stops asking for them.                       *)
Replace(ds, why) ==
  [r \in Revs |-> [Supersede(ds, why)[r] EXCEPT !.open = FALSE]]

(* requestHandoff: an AI-owned conversation becomes a person's, unclaimed. *)
HandedOff(o) ==
  IF o.state = "human" THEN o
  ELSE [state |-> "human", version |-> o.version + 1, owner |-> NoOne]

(* Unlike a claim, a hand-off leaves a live draft as it is.                *)
Passed(ds) == [r \in Revs |-> IF Live(ds[r]) THEN [ds[r] EXCEPT !.passed = TRUE] ELSE ds[r]]

(* takeOver's statement: an AI-owned or unclaimed conversation is claimed. *)
Claimable == own.owner = NoOne
ClaimedBy(t) == [state |-> "human", version |-> own.version + 1, owner |-> t]

(* scheduleReview *)
Scheduled(l, accepted) == [l EXCEPT !.rev = @ + 1, !.due = TRUE, !.accepted = accepted]

(* heldBy: no other claim took the review since, and none completed it. A  *)
(* lease that merely lapsed still holds.                                   *)
Holds(r) == link.holder = r

(* FAULT: a failed review that is put back starts counting anew.           *)
UnheldAfresh(l) == [l EXCEPT !.holder = NoOne, !.expired = FALSE, !.attempts = 0]

Unheld(l) == [l EXCEPT !.holder = NoOne, !.expired = FALSE]

(* FAULT: whether the result still answers the newest message is not asked.*)
StaleButForMail(v) ==
  IF v.own # own.version THEN "takeover"
  ELSE IF removed \/ v.pol # PolicyVersion THEN "policy_changed"
  ELSE "none"

(* staleBinding: why a result no longer stands on what its review read.    *)
(* A removed mailbox vouches for no version.                               *)
Stale(v) ==
  IF v.answers # Newest THEN "newer_inbound"
  ELSE IF v.own # own.version THEN "takeover"
  ELSE IF removed \/ v.pol # PolicyVersion THEN "policy_changed"
  ELSE "none"

Fault == faults < MaxFaults /\ faults' = faults + 1

-----------------------------------------------------------------------------
(* Mail: accepted by the webhook, resolved to the thread, recorded in the  *)
(* conversation, then indexed.  Each is a transaction of its own, repeated *)
(* until its state is recorded.                                            *)

Others == UNCHANGED <<policies, removed, settled, acts>>

(* The webhook accepts the next message under the policy in force.         *)
Receive(m) ==
  /\ ~removed /\ mail[m].phase = "none"
  /\ \A k \in 1 .. m - 1 : mail[k].phase # "none"
  /\ mail' = [mail EXCEPT ![m].phase = "accepted", ![m].accepted = PolicyVersion]
  /\ UNCHANGED <<own, inbox, link, drafts, rv, faults>> /\ Others

(* Automated mail, a stranger's, and mail of a mailbox that stopped taking *)
(* it: dropped.                                                            *)
Drop(m) ==
  /\ mail[m].phase = "accepted"
  /\ mail' = [mail EXCEPT ![m].phase = "dropped"]
  /\ UNCHANGED <<own, inbox, link, drafts, rv, faults>> /\ Others

(* resolveEngagementDisposition, on the ownership as it is and the mailbox *)
(* as the worker read it, some version from the accepted one to this one.  *)
Dispositions(m) ==
  IF own.state = "human" THEN {"human_owned"}
  ELSE {IF Narrower(policies[mail[m].accepted], policies[p]) = "off" THEN "handoff" ELSE "review" :
          p \in mail[m].accepted .. PolicyVersion}
       \cup {"handoff"}   \* the hourly generation budget is spent

Resolve(m) ==
  /\ mail[m].phase = "accepted"
  /\ \E d \in Dispositions(m) :
       mail' = [mail EXCEPT ![m].phase = "resolved", ![m].disp = d]
  /\ UNCHANGED <<own, inbox, link, drafts, rv, faults>> /\ Others

(* The hand-off a message resolved to one asks for as it is recorded.      *)
SettledOwnership(m) == IF mail[m].disp = "handoff" THEN HandedOff(own) ELSE own

(* The host records the message, which makes a live draft stale.           *)
Ingest(m) ==
  /\ mail[m].phase = "resolved"
  /\ mail' = [mail EXCEPT ![m].phase = "ingested"]
  /\ inbox' = Append(inbox, m)
  /\ drafts' = Supersede(drafts, "newer_inbound")
  /\ own' = SettledOwnership(m)
  /\ UNCHANGED <<link, rv, faults>> /\ Others

(* A worker that recorded the message but not its step records it again.   *)
IngestAgain(m) ==
  /\ mail[m].phase = "ingested" /\ Fault
  /\ own' = SettledOwnership(m)
  /\ drafts' = IF own' = own THEN drafts ELSE Passed(drafts)
  /\ UNCHANGED <<mail, inbox, link, rv>> /\ Others

(* The thread is indexed, and its review scheduled if the message is to be *)
(* reviewed.                                                               *)
Index(m) ==
  /\ mail[m].phase = "ingested" /\ link.rev < MaxRev
  /\ mail' = [mail EXCEPT ![m].phase = "done"]
  /\ link' = IF mail[m].disp = "review" THEN Scheduled(link, mail[m].accepted) ELSE link
  /\ UNCHANGED <<own, inbox, drafts, rv, faults>> /\ Others

-----------------------------------------------------------------------------
(* The review of the thread.                                               *)

Thread == UNCHANGED <<policies, removed, mail, inbox, settled, acts>>

At(r, pc) == rv[r].pc = pc
Settle(r, pc) ==                            \* only its claim still matters
  rv' = [rv EXCEPT ![r] = [Idle EXCEPT !.pc = pc, !.rev = rv[r].rev, !.attempt = rv[r].attempt]]
Leave(r) == rv' = [rv EXCEPT ![r] = Idle]   \* ends, or its claim was lost

(* claimDueReviews *)
Claim(r) ==
  /\ At(r, "idle") /\ link.due
  /\ link.holder = NoOne \/ link.expired
  /\ link' = [link EXCEPT !.holder = r, !.expired = FALSE, !.attempts = @ + 1]
  /\ rv' = [rv EXCEPT ![r] = [Idle EXCEPT !.pc = "claimed", !.rev = link.rev,
                               !.attempt = link.attempts + 1, !.accepted = link.accepted]]
  /\ UNCHANGED <<own, drafts, faults>> /\ Thread

(* A revision that already has a result only needs completing; a mailbox   *)
(* that no longer reviews hands the thread off.                            *)
ReadMailbox(r) ==
  LET mode == Narrower(policies[rv[r].accepted], Mode) IN
  /\ At(r, "claimed")
  /\ IF drafts[rv[r].rev].state # "none" THEN Settle(r, "finish")
     ELSE IF removed \/ mode = "off" THEN Settle(r, "handoff")
     ELSE rv' = [rv EXCEPT ![r].pc = "conversation", ![r].pol = PolicyVersion, ![r].mode = mode]
  /\ UNCHANGED <<own, link, drafts, faults>> /\ Thread

(* A person's conversation needs no turn.  Otherwise the review answers    *)
(* the newest message, and is charged to the generation budget under its   *)
(* claim.                                                                  *)
ReadConversation(r) ==
  /\ At(r, "conversation")
  /\ \/ own.state = "human" /\ Settle(r, "finish")
     \/ own.state = "ai" /\ ~Holds(r) /\ Leave(r)
     \/ /\ own.state = "ai" /\ Holds(r)
        /\ \/ rv' = [rv EXCEPT ![r].pc = "turn", ![r].answers = Newest]
           \/ Settle(r, "handoff")
  /\ UNCHANGED <<own, link, drafts, faults>> /\ Thread

(* FAULT: a review completes its thread though newer mail overtook it.     *)
CompletableAnyway(r) == Holds(r)

Completable(r) == Holds(r) /\ link.rev = rv[r].rev

Completed == [Unheld(link) EXCEPT !.due = FALSE, !.attempts = 0]

(* Triage finds that the mail needs no reply: the verdict is the review's  *)
(* completion, unless newer mail overtook it.                              *)
SetAside(r) ==
  /\ At(r, "turn")
  /\ IF Completable(r)
     THEN link' = Completed /\ settled' = settled \cup {rv[r].answers} /\ Leave(r)
     ELSE Settle(r, "finish") /\ UNCHANGED <<link, settled>>
  /\ UNCHANGED <<policies, removed, own, mail, inbox, drafts, acts, faults>>

(* The agent's turn reads who owns the conversation and drafts a reply, or *)
(* has none to give.                                                       *)
Turn(r) ==
  /\ At(r, "turn")
  /\ IF ~Holds(r) THEN Leave(r)
     ELSE IF own.state = "human" THEN Settle(r, "finish")
     ELSE \/ rv' = [rv EXCEPT ![r].pc = "drafted", ![r].own = own.version]
          \/ Settle(r, "handoff")
  /\ UNCHANGED <<own, link, drafts, faults>> /\ Thread

Born(r, state) ==
  [NoDraft EXCEPT !.state = state, !.answers = rv[r].answers, !.own = rv[r].own, !.pol = rv[r].pol]

(* The last attempt hands the thread to a person.                          *)
Failing(r) == Settle(r, IF rv[r].attempt >= MaxAttempts THEN "handoff" ELSE "failed")

(* A result every gate would publish is queued to go out on its own, in    *)
(* the order queueAuto tests: already held, claim lost, stale, budget      *)
(* spent, or a live draft of another review in its way.                    *)
Publish(r) ==
  /\ At(r, "drafted") /\ rv[r].mode = "auto"
  /\ \/ drafts[rv[r].rev].state # "none" /\ Settle(r, "finish") /\ UNCHANGED drafts
     \/ /\ drafts[rv[r].rev].state = "none"
        /\ \/ ~Holds(r) /\ Leave(r) /\ UNCHANGED drafts
           \/ Holds(r) /\ rv' = [rv EXCEPT ![r].pc = "hold", ![r].mode = "off"] /\ UNCHANGED drafts
           \/ /\ Holds(r) /\ Stale(rv[r]) = "none"
              /\ IF LiveDrafts # {} THEN Failing(r) /\ UNCHANGED drafts
                 ELSE /\ drafts' = [drafts EXCEPT ![rv[r].rev] = Born(r, "queued_auto")]
                      /\ Settle(r, "finish")
  /\ UNCHANGED <<own, link, faults>> /\ Thread

(* FAULT: a held result is born pending whatever moved meanwhile.          *)
BornPending(r) == [Born(r, "pending") EXCEPT !.open = TRUE]

(* heldBirth: what a held result is born as.                               *)
HeldBirth(r) ==
  LET why == Stale(rv[r]) IN
  IF why = "none" THEN [Born(r, "pending") EXCEPT !.open = TRUE]
  ELSE [Born(r, "superseded") EXCEPT !.why = why, !.born = TRUE]

Recorded(r, state) ==
  IF state = "superseded"
  THEN rv' = [rv EXCEPT ![r].pc = "moved", ![r].answers = 0, ![r].own = 0, ![r].mode = "off"]
  ELSE Settle(r, "finish")

Hold(r) ==
  LET ref == rv[r].rev IN
  /\ At(r, "drafted") \/ At(r, "hold")
  /\ IF ~Holds(r) THEN Leave(r) /\ UNCHANGED drafts
     ELSE IF drafts[ref].state # "none"
     THEN Recorded(r, drafts[ref].state) /\ UNCHANGED drafts
     ELSE IF Stale(rv[r]) = "none" /\ LiveDrafts # {} THEN Failing(r) /\ UNCHANGED drafts
     ELSE /\ drafts' = [drafts EXCEPT ![ref] = HeldBirth(r)]
          /\ Recorded(r, HeldBirth(r).state)
  /\ UNCHANGED <<own, link, faults>> /\ Thread

(* A result born superseded asks for a fresh review if the policy moved.   *)
Moved(r) ==
  /\ At(r, "moved")
  /\ IF removed \/ rv[r].pol # PolicyVersion THEN rv' = [rv EXCEPT ![r].pc = "again", ![r].pol = 0]
     ELSE Settle(r, "finish")
  /\ UNCHANGED <<own, link, drafts, faults>> /\ Thread

Again(r) ==
  /\ At(r, "again")
  /\ IF ~Holds(r) THEN Leave(r) /\ UNCHANGED link
     ELSE link.rev < MaxRev /\ link' = Scheduled(link, rv[r].accepted) /\ Settle(r, "finish")
  /\ UNCHANGED <<own, drafts, faults>> /\ Thread

(* Completes the revision; one a newer revision overtook is let go.        *)
Finish(r) ==
  /\ At(r, "finish") /\ Leave(r)
  /\ link' = IF Completable(r) THEN Completed
             ELSE IF Holds(r) THEN [Unheld(link) EXCEPT !.attempts = 0]
             ELSE link
  /\ UNCHANGED <<own, drafts, faults>> /\ Thread

(* Hands the thread to a person, only under the claim.                     *)
HandOff(r) ==
  /\ At(r, "handoff")
  /\ IF Holds(r)
     THEN /\ own' = HandedOff(own) /\ Settle(r, "finish")
          /\ drafts' = IF own' = own THEN drafts ELSE Passed(drafts)
     ELSE Leave(r) /\ UNCHANGED <<own, drafts>>
  /\ UNCHANGED <<link, faults>> /\ Thread

(* Puts a failed review back for later.                                    *)
RetryLater(r) ==
  /\ At(r, "failed") /\ Leave(r)
  /\ link' = IF Holds(r) THEN Unheld(link) ELSE link
  /\ UNCHANGED <<own, drafts, faults>> /\ Thread

(* A step of the review fails: a database, model or provider error.        *)
StepFails(r) ==
  /\ rv[r].pc \notin {"idle", "failed"} /\ Fault /\ Failing(r)
  /\ UNCHANGED <<own, link, drafts>> /\ Thread

Crash(r) ==
  /\ ~At(r, "idle") /\ Fault /\ Leave(r)
  /\ UNCHANGED <<own, link, drafts>> /\ Thread

(* The lease runs out: a fault unless its drain is gone.                   *)
LeaseLapses ==
  /\ link.holder # NoOne /\ ~link.expired
  /\ IF At(link.holder, "idle") THEN UNCHANGED faults ELSE Fault
  /\ link' = [link EXCEPT !.expired = TRUE]
  /\ UNCHANGED <<own, drafts, rv>> /\ Thread

-----------------------------------------------------------------------------
(* The mailbox's policy.                                                   *)

Email == UNCHANGED <<mail, inbox, link, rv, settled, acts, faults>>

(* holdForReview: pending drafts are bound to the new version, and queued  *)
(* ones go back to a teammate under it.                                    *)
HeldForReview(ds) ==
  [r \in Revs |-> IF Live(ds[r])
     THEN [ds[r] EXCEPT !.state = "pending", !.pol = PolicyVersion + 1, !.open = TRUE]
     ELSE ds[r]]

SupersedeAndHandOff ==
  /\ drafts' = Supersede(drafts, "policy_changed")
  /\ own' = IF LiveDrafts # {} THEN HandedOff(own) ELSE own

(* A new version of the policy.  `only` says that nothing but the mode, or *)
(* with the same mode the send budget, changed.                            *)
ChangePolicy(mode, only) ==
  /\ ~removed /\ PolicyVersion < MaxPolicy
  /\ policies' = Append(policies, mode)
  /\ IF only /\ (mode = Mode \/ (Mode = "auto" /\ mode = "draft"))
     THEN drafts' = HeldForReview(drafts) /\ UNCHANGED own
     ELSE SupersedeAndHandOff
  /\ UNCHANGED removed /\ Email

RemoveMailbox ==
  /\ ~removed /\ removed' = TRUE
  /\ SupersedeAndHandOff
  /\ UNCHANGED policies /\ Email

-----------------------------------------------------------------------------
(* The team.                                                               *)

Act == acts < MaxActs /\ acts' = acts + 1
Rest == UNCHANGED <<policies, removed, mail, inbox, link, rv, faults>>

TakeOver(t) ==
  /\ Act /\ Claimable
  /\ own' = ClaimedBy(t)
  /\ drafts' = Replace(drafts, "takeover")
  /\ UNCHANGED settled /\ Rest

(* Whoever transfers names the version they see; to themselves, it claims. *)
Transfer(t, to) ==
  /\ Act /\ own.state = "human" /\ own.owner # to
  /\ own' = [own EXCEPT !.owner = to, !.version = @ + 1]
  /\ drafts' = IF to = t THEN Replace(drafts, "takeover") ELSE drafts
  /\ UNCHANGED settled /\ Rest

HandBack(t) ==
  /\ Act /\ own.state = "human" /\ own.owner \in {NoOne, t}
  /\ own' = [state |-> "ai", version |-> own.version + 1, owner |-> NoOne]
  /\ settled' = settled \cup {inbox[i] : i \in 1 .. Len(inbox)}
  /\ UNCHANGED drafts /\ Rest

(* A reply claims what its author does not hold yet.                       *)
Reply(t) ==
  /\ Act /\ own.owner \in {NoOne, t}
  /\ own' = IF own.owner = t THEN own ELSE ClaimedBy(t)
  /\ drafts' = Replace(drafts, "operator_reply")
  /\ UNCHANGED settled /\ Rest

(* What a release and a dispatch test: the ownership and the policy the    *)
(* draft is bound to are still the ones in force.                          *)
Authorized(d) == d.own = own.version /\ d.pol = PolicyVersion /\ ~removed

Release(r) ==
  /\ Act /\ drafts[r].state = "pending" /\ Authorized(drafts[r])
  /\ drafts' = [drafts EXCEPT ![r].state = "released", ![r].open = FALSE]
  /\ UNCHANGED <<own, settled>> /\ Rest

(* The conversation keeps waiting for a teammate.                          *)
Discard(r) ==
  /\ Act /\ drafts[r].state = "pending"
  /\ drafts' = [drafts EXCEPT ![r].state = "discarded"]
  /\ UNCHANGED <<own, settled>> /\ Rest

-----------------------------------------------------------------------------
(* The automatic send, as its outbox action reaches it.                    *)

(* materializeAuto: the message is written while the authority holds, and  *)
(* otherwise the draft goes back to a teammate, as it does when the domain *)
(* or the send budget refuses it or its outbox action gave up.             *)
Dispatched(d) == [d EXCEPT !.state = "auto_released"]
Returned(d) == [d EXCEPT !.state = "pending", !.open = TRUE]

MayDispatch(d) == Authorized(d) /\ Mode = "auto" /\ own.state = "ai"

Dispatch(r) ==
  /\ drafts[r].state = "queued_auto"
  /\ \/ MayDispatch(drafts[r]) /\ drafts' = [drafts EXCEPT ![r] = Dispatched(@)]
     \/ drafts' = [drafts EXCEPT ![r] = Returned(@)]
  /\ UNCHANGED <<own, settled, acts>> /\ Rest

-----------------------------------------------------------------------------

Inbound == \E m \in Mails : Drop(m) \/ Resolve(m) \/ Ingest(m) \/ Index(m)

ReviewStep(r) ==
  \/ ReadMailbox(r) \/ ReadConversation(r) \/ SetAside(r) \/ Turn(r)
  \/ Publish(r) \/ Hold(r) \/ Moved(r) \/ Again(r) \/ Finish(r)
  \/ HandOff(r) \/ RetryLater(r)

Next ==
  \/ \E m \in Mails : Receive(m) \/ IngestAgain(m)
  \/ Inbound
  \/ \E r \in Reviewers : Claim(r) \/ ReviewStep(r) \/ StepFails(r) \/ Crash(r)
  \/ LeaseLapses
  \/ \E mode \in Modes, only \in BOOLEAN : ChangePolicy(mode, only)
  \/ RemoveMailbox
  \/ \E t \in Teammates : TakeOver(t) \/ HandBack(t) \/ Reply(t)
  \/ \E t, u \in Teammates : Transfer(t, u)
  \/ \E r \in Revs : Release(r) \/ Discard(r) \/ Dispatch(r)

Spec == Init /\ [][Next]_vars

(* A due review is claimed and a claimed one stepped by the drain the      *)
(* scheduler keeps asking for; a crashed drain's lease runs out.           *)
FairSpec ==
  /\ Spec
  /\ WF_vars(\E r \in Reviewers : Claim(r))
  /\ \A r \in Reviewers : WF_vars(ReviewStep(r))
  /\ WF_vars(LeaseLapses)
-----------------------------------------------------------------------------
(* Properties.                                                             *)

(* A draft that waits for a teammate or to go out on its own answers the   *)
(* newest customer message, at the policy in force and the ownership its   *)
(* review ran under: whatever moves one of them takes the draft along.     *)
(* Only a hand-off asked for beside a draft leaves it behind: by a later   *)
(* review of the same message, by a review whose last attempt fails after  *)
(* it held its draft, or by a delivery recorded again.                     *)
LiveDraftIsCurrent ==
  \A r \in LiveDrafts :
    /\ drafts[r].answers = Newest
    /\ ~removed /\ drafts[r].pol = PolicyVersion
    /\ drafts[r].own = own.version \/ drafts[r].passed

(* The message is someone's: a review is due or will be, a draft is live   *)
(* or set aside but still asking, a person has the conversation, or it was *)
(* answered, handed back or needed no reply.                               *)
Attended(m) ==
  \/ own.state = "human"
  \/ link.due
  \/ mail[m].phase = "ingested" /\ mail[m].disp = "review"
  \/ \E r \in Revs : drafts[r].answers = m /\
       (Live(drafts[r]) \/ drafts[r].open \/ drafts[r].state \in {"released", "auto_released"})
  \/ m \in settled

(* A result born superseded because the policy moved under its review.     *)
MovedUnder(m) ==
  \E r \in Revs : drafts[r].answers = m /\ drafts[r].born /\ drafts[r].why = "policy_changed"

(* The newest customer message never drops out of everyone's queue.  Two   *)
(* ways it can are set apart: a review the policy moved under (see         *)
(* MovedPolicyIsReviewedAgain), and a message resolved while a person had  *)
(* the conversation and recorded after they handed it back.                *)
NewestMailIsAttended ==
  Newest # 0 => \/ Attended(Newest) \/ MovedUnder(Newest)
                \/ mail[Newest].disp = "human_owned"

(* "its draft is superseded the moment it's created, and the thread is     *)
(* reviewed again under the current one" (docs/email-channel.md:606).      *)
MovedPolicyIsReviewedAgain ==
  Newest # 0 /\ MovedUnder(Newest) => Attended(Newest)

(* "A review still running when a newer message arrives finishes as a      *)
(* superseded draft, and the newer revision runs in its place"             *)
(* (docs/email-channel.md:552): no message is answered automatically twice.*)
OneAutomaticReply ==
  \A q, r \in Revs :
    q # r /\ drafts[q].state = "auto_released" /\ drafts[r].state = "auto_released"
      => drafts[q].answers # drafts[r].answers

(* A draft becomes the customer's message only while it answers the newest *)
(* of theirs, under the policy and ownership it was drafted for; one       *)
(* nobody released only while the AI owns the conversation and the mailbox *)
(* still sends automatically.                                              *)
SentRepliesAreCurrent ==
  [][\A r \in Revs :
       drafts'[r].state # drafts[r].state /\ drafts'[r].state \in {"released", "auto_released"} =>
         /\ drafts[r].answers = Newest /\ ~removed
         /\ drafts[r].pol = PolicyVersion /\ drafts[r].own = own.version
         /\ drafts'[r].state = "auto_released" => own.state = "ai" /\ Mode = "auto"]_vars

(* A due review ends, however often it fails: it is completed, or the      *)
(* thread goes to a person.                                                *)
DueReviewEnds == link.due ~> ~link.due
=============================================================================
