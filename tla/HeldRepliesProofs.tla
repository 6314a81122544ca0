------------------------- MODULE HeldRepliesProofs -------------------------
(***************************************************************************)
(* Proofs about HeldReplies, for any number of messages, policy versions,  *)
(* drains and teammates: a live draft is always the one to send, what is   *)
(* sent was current as it was sent, and the newest message is always       *)
(* somebody's or a review is due.                                          *)
(*                                                                         *)
(* A live draft's ownership version alone is not inductive: a conversation *)
(* a person has and hands back moves on without its drafts.  The invariant *)
(* says that the AI owns the conversation of a live draft no hand-off      *)
(* passed, and that a review that drafted at the current version drafted   *)
(* for a conversation the AI owns, so that a result recorded as live meets *)
(* it.  NewestMailIsAttended needs as much of the reviews under way: what  *)
(* the current one read still stands, or the message is somebody's by now  *)
(* (AttendInv).                                                            *)
(***************************************************************************)
EXTENDS HeldReplies, FiniteSetTheorems, TLAPS

DraftsOK(ds) ==
  /\ ds \in [Revs -> Draft]
  /\ \A r \in Revs : (ds[r].why # "none") <=> (ds[r].state = "superseded")

Types ==
  /\ policies \in Seq(Modes) /\ PolicyVersion \in 1 .. MaxPolicy
  /\ removed \in BOOLEAN
  /\ own \in Ownership /\ (own.state = "ai" => own.owner = NoOne)
  /\ mail \in [Mails -> Delivery]
  /\ inbox \in Seq(Mails)
  /\ link \in Link
  /\ DraftsOK(drafts)
  /\ rv \in [Reviewers -> Review]
  /\ settled \subseteq 0 .. MaxMail
  /\ acts \in Nat /\ faults \in Nat

OneLive == \A q, r \in LiveDrafts : q = r

(* What the invariant says of a live draft.                                *)
Standing(d) ==
  /\ d.answers = Newest /\ ~removed /\ d.pol = PolicyVersion
  /\ d.passed \/ (d.own = own.version /\ own.state = "ai")

DraftsStand == \A r \in LiveDrafts : Standing(drafts[r])

ReviewsStand ==
  \A r \in Reviewers : rv[r].pc \in {"drafted", "hold"} =>
    /\ rv[r].own <= own.version
    /\ rv[r].own = own.version => own.state = "ai"

IInv == Types /\ OneLive /\ DraftsStand /\ ReviewsStand

-----------------------------------------------------------------------------
(* The records.                                                            *)

(* The bounds are natural numbers.                                         *)
LEMMA Bounds == MaxMail \in Nat /\ MaxPolicy \in Nat /\ MaxRev \in Nat
BY HeldRepliesAssumption DEF MaxRev

(* The fields of the conversation's ownership.                             *)
LEMMA OwnershipFields ==
  ASSUME Types
  PROVE  /\ own.state \in {"ai", "human"} /\ own.version \in Nat
         /\ own.owner \in Teammates \cup {NoOne}
BY DEF Types, Ownership

(* A hand-off never takes the version back.                                *)
LEMMA HandedOffOwnership ==
  ASSUME Types
  PROVE  /\ HandedOff(own) \in Ownership /\ HandedOff(own).state = "human"
         /\ HandedOff(own).version >= own.version
         /\ HandedOff(own) # own => HandedOff(own).version = own.version + 1
BY OwnershipFields DEF HandedOff, Ownership, Types

(* A claim by a teammate is a new version.                                 *)
LEMMA ClaimedOwnership ==
  ASSUME Types, NEW t \in Teammates
  PROVE  /\ ClaimedBy(t) \in Ownership /\ ClaimedBy(t).state = "human"
         /\ ClaimedBy(t).version = own.version + 1
BY OwnershipFields DEF ClaimedBy, Ownership

(* The newest message is one of the mails, or none.                        *)
LEMMA NewestTyped ==
  ASSUME HeldRepliesAssumption, Types
  PROVE  Newest \in 0 .. MaxMail
BY DEF HeldRepliesAssumption, Types, Newest, Mails

(* What an inbound message, a claim, a reply or a policy change does to    *)
(* the drafts: none stays live.                                            *)
LEMMA SupersedeEnds ==
  ASSUME NEW ds, DraftsOK(ds), NEW why \in Reasons
  PROVE  /\ DraftsOK(Supersede(ds, why))
         /\ \A r \in Revs : ~Live(Supersede(ds, why)[r])
<1>1. SUFFICES ASSUME NEW r \in Revs
               PROVE  LET d == Supersede(ds, why)[r] IN
                      /\ d \in Draft /\ ~Live(d)
                      /\ (d.why # "none") <=> (d.state = "superseded")
  BY <1>1 DEF DraftsOK, Supersede
<1>2. ds[r] \in Draft
  BY DEF DraftsOK
<1>3. CASE Live(ds[r])
  BY <1>2, <1>3 DEF Supersede, Draft, Live, LiveStates, Reasons
<1>4. CASE ~Live(ds[r])
  BY <1>2, <1>4 DEF Supersede, DraftsOK
<1> QED  BY <1>3, <1>4

(* Replacing drafts leaves none of them live.                              *)
LEMMA ReplaceEnds ==
  ASSUME NEW ds, DraftsOK(ds), NEW why \in Reasons
  PROVE  /\ DraftsOK(Replace(ds, why))
         /\ \A r \in Revs : ~Live(Replace(ds, why)[r])
<1>1. /\ Supersede(ds, why) \in [Revs -> Draft]
      /\ \A r \in Revs : ~Live(Supersede(ds, why)[r])
      /\ \A r \in Revs : (Supersede(ds, why)[r].why # "none")
                           <=> (Supersede(ds, why)[r].state = "superseded")
  BY SupersedeEnds DEF DraftsOK
<1> DEFINE s == Supersede(ds, why)
<1> HIDE DEF s
<1>2. \A r \in Revs : [s[r] EXCEPT !.open = FALSE] \in Draft
  BY <1>1 DEF Draft, s
<1>3. Replace(ds, why) = [r \in Revs |-> [s[r] EXCEPT !.open = FALSE]]
  BY DEF Replace, s
<1>4. \A r \in Revs : /\ Replace(ds, why)[r].state = s[r].state
                      /\ Replace(ds, why)[r].why = s[r].why
  BY <1>1, <1>3 DEF Draft, s
<1> QED  BY <1>1, <1>2, <1>3, <1>4 DEF DraftsOK, Live, s

(* A hand-off marks the live drafts it leaves and changes nothing else.    *)
LEMMA PassedDrafts ==
  ASSUME NEW ds, DraftsOK(ds)
  PROVE  /\ DraftsOK(Passed(ds))
         /\ \A r \in Revs : /\ Live(Passed(ds)[r]) <=> Live(ds[r])
                            /\ Live(ds[r]) => Passed(ds)[r].passed
                            /\ Passed(ds)[r].answers = ds[r].answers
                            /\ Passed(ds)[r].pol = ds[r].pol
<1>1. SUFFICES ASSUME NEW r \in Revs
               PROVE  LET d == Passed(ds)[r] IN
                      /\ d \in Draft
                      /\ (d.why # "none") <=> (d.state = "superseded")
                      /\ Live(d) <=> Live(ds[r])
                      /\ Live(ds[r]) => d.passed
                      /\ d.answers = ds[r].answers /\ d.pol = ds[r].pol
  BY <1>1 DEF DraftsOK, Passed
<1>2. ds[r] \in Draft /\ ((ds[r].why # "none") <=> (ds[r].state = "superseded"))
  BY DEF DraftsOK
<1> QED  BY <1>2 DEF Passed, Draft, Live

(* An idle worker has a proper review record.                              *)
LEMMA IdleReview == Idle \in Review /\ Idle.pc = "idle"
BY Bounds DEF Idle, Review, PCs, Modes

-----------------------------------------------------------------------------
(* How the parts of the invariant are kept.                                *)

(* Ownership that stays or moves a version on outdates the reviews.        *)
LEMMA ReviewsOutdated ==
  ASSUME Types, ReviewsStand, rv' = rv, own' \in Ownership,
         own' = own \/ own'.version = own.version + 1
  PROVE  ReviewsStand'
<1>1. CASE own' = own
  BY <1>1 DEF ReviewsStand
<1>2. CASE own'.version = own.version + 1
  <2>1. own.version \in Nat /\ \A r \in Reviewers : rv[r].own \in Nat
    BY OwnershipFields DEF Types, Review
  <2> QED  BY <1>2, <2>1 DEF ReviewsStand
<1> QED  BY <1>1, <1>2

(* A step that leaves no live draft.                                       *)
LEMMA NoneLive ==
  ASSUME Types', ReviewsStand', \A r \in Revs : ~Live(drafts'[r])
  PROVE  IInv'
BY DEF IInv, OneLive, DraftsStand, LiveDrafts

(* A step that moves neither a draft nor what the drafts stand on.  A      *)
(* review it brings to its draft drafted under the ownership as it is.     *)
LEMMA Quiet ==
  ASSUME IInv, UNCHANGED <<policies, removed, own, inbox, drafts>>,
         mail' \in [Mails -> Delivery], link' \in Link, rv' \in [Reviewers -> Review],
         settled' \subseteq 0 .. MaxMail, acts' \in Nat, faults' \in Nat,
         \A r \in Reviewers : rv'[r].pc \in {"drafted", "hold"} =>
            \/ rv'[r].own = own.version /\ own.state = "ai"
            \/ rv[r].pc \in {"drafted", "hold"} /\ rv'[r].own = rv[r].own
  PROVE  IInv'
<1>1. Types'
  BY DEF IInv, Types, PolicyVersion
<1>2. OneLive' /\ DraftsStand'
  BY DEF IInv, OneLive, DraftsStand, LiveDrafts, Standing, Newest, PolicyVersion
<1>3. ReviewsStand'
  BY OwnershipFields DEF IInv, ReviewsStand
<1> QED  BY <1>1, <1>2, <1>3 DEF IInv

(* One that also keeps the reviews where they are, or only ends some.      *)
LEMMA QuietReviews ==
  ASSUME IInv, NEW r \in Reviewers,
         rv' = rv \/ Leave(r) \/ \E pc \in PCs \ {"drafted", "hold"} : Settle(r, pc)
  PROVE  /\ rv' \in [Reviewers -> Review]
         /\ \A x \in Reviewers : rv'[x].pc \in {"drafted", "hold"} =>
               rv[x].pc \in {"drafted", "hold"} /\ rv'[x].own = rv[x].own
<1>1. CASE rv' = rv
  BY <1>1 DEF IInv, Types
<1>2. CASE Leave(r)
  <2>2. rv' = [rv EXCEPT ![r] = Idle]
    BY <1>2 DEF Leave
  <2> QED  BY IdleReview, <2>2 DEF IInv, Types
<1>3. ASSUME NEW pc \in PCs \ {"drafted", "hold"}, Settle(r, pc)
      PROVE  /\ rv' \in [Reviewers -> Review]
             /\ \A x \in Reviewers : rv'[x].pc \in {"drafted", "hold"} =>
                   rv[x].pc \in {"drafted", "hold"} /\ rv'[x].own = rv[x].own
  <2> DEFINE v == [Idle EXCEPT !.pc = pc, !.rev = rv[r].rev, !.attempt = rv[r].attempt]
  <2>1. rv[r] \in Review
    BY DEF IInv, Types
  <2>2. v \in Review /\ v.pc = pc
    <3>1. rv[r].rev \in 0 .. MaxRev /\ rv[r].attempt \in Nat
      BY <2>1 DEF Review
    <3>2. pc \in PCs
      OBVIOUS
    <3> QED  BY <3>1, <3>2, IdleReview DEF Review
  <2>3. rv' = [rv EXCEPT ![r] = v]
    BY <1>3 DEF Settle
  <2> HIDE DEF v
  <2> QED  BY <2>2, <2>3 DEF IInv, Types
<1> QED  BY <1>1, <1>2, <1>3

(* A hand-off moves the ownership on and marks the live drafts.            *)
LEMMA HandedOffKeeps ==
  ASSUME IInv, own' = own \/ own' = HandedOff(own),
         drafts' = IF own' = own THEN drafts ELSE Passed(drafts),
         UNCHANGED <<policies, removed, inbox>>
  PROVE  /\ own' \in Ownership /\ (own'.state = "ai" => own'.owner = NoOne)
         /\ DraftsOK(drafts') /\ OneLive' /\ DraftsStand'
         /\ own' = own \/ own'.version = own.version + 1
<1>1. CASE own' = own
  BY <1>1 DEF IInv, Types, OneLive, DraftsStand, LiveDrafts, Standing, Newest, PolicyVersion
<1>2. CASE own' # own
  <2>1. own' = HandedOff(own) /\ drafts' = Passed(drafts)
    BY <1>2
  <2>2. own' \in Ownership /\ own'.state = "human" /\ own'.version = own.version + 1
    BY <1>2, <2>1, HandedOffOwnership DEF IInv
  <2>3. /\ DraftsOK(drafts')
        /\ \A r \in Revs : /\ Live(drafts'[r]) <=> Live(drafts[r])
                           /\ Live(drafts[r]) => drafts'[r].passed
                           /\ drafts'[r].answers = drafts[r].answers
                           /\ drafts'[r].pol = drafts[r].pol
    BY <2>1, PassedDrafts DEF IInv, Types
  <2>4. OneLive'
    BY <2>3 DEF IInv, OneLive, LiveDrafts
  <2>5. DraftsStand'
    BY <2>3 DEF IInv, DraftsStand, LiveDrafts, Standing, Newest, PolicyVersion
  <2> QED  BY <2>2, <2>3, <2>4, <2>5
<1> QED  BY <1>1, <1>2

-----------------------------------------------------------------------------
(* Mail.                                                                   *)

(* Each action keeps the invariant.                                        *)
LEMMA ReceiveInv == ASSUME IInv, NEW m \in Mails, Receive(m) PROVE IInv'
<1>1. mail' \in [Mails -> Delivery]
  <2>1. PolicyVersion \in Nat /\ mail[m] \in Delivery
    BY Bounds DEF IInv, Types
  <2>2. [mail[m] EXCEPT !.phase = "accepted", !.accepted = PolicyVersion] \in Delivery
    BY <2>1 DEF Delivery
  <2>3. mail' = [mail EXCEPT ![m] = [mail[m] EXCEPT !.phase = "accepted", !.accepted = PolicyVersion]]
    BY DEF Receive, IInv, Types
  <2> QED  BY <2>2, <2>3 DEF IInv, Types
<1> QED  BY <1>1, Quiet DEF Receive, Others, IInv, Types

LEMMA DropInv == ASSUME IInv, NEW m \in Mails, Drop(m) PROVE IInv'
<1>1. mail' \in [Mails -> Delivery]
  BY DEF Drop, IInv, Types, Delivery
<1> QED  BY <1>1, Quiet DEF Drop, Others, IInv, Types

LEMMA ResolveInv == ASSUME IInv, NEW m \in Mails, Resolve(m) PROVE IInv'
<1>1. Dispositions(m) \subseteq {"review", "handoff", "human_owned"}
  BY DEF Dispositions
<1>2. mail' \in [Mails -> Delivery]
  <2>1. PICK d \in {"review", "handoff", "human_owned"} :
              mail' = [mail EXCEPT ![m].phase = "resolved", ![m].disp = d]
    BY <1>1 DEF Resolve
  <2>2. [mail[m] EXCEPT !.phase = "resolved", !.disp = d] \in Delivery
    BY DEF IInv, Types, Delivery
  <2>3. mail' = [mail EXCEPT ![m] = [mail[m] EXCEPT !.phase = "resolved", !.disp = d]]
    BY <2>1 DEF IInv, Types
  <2> QED  BY <2>2, <2>3 DEF IInv, Types
<1> QED  BY <1>2, Quiet DEF Resolve, Others, IInv, Types

LEMMA IngestInv == ASSUME IInv, NEW m \in Mails, Ingest(m) PROVE IInv'
<1>1. DraftsOK(drafts') /\ \A r \in Revs : ~Live(drafts'[r])
  BY SupersedeEnds DEF Ingest, IInv, Types, Reasons
<1>2. /\ own' \in Ownership /\ (own'.state = "ai" => own'.owner = NoOne)
      /\ own' = own \/ own'.version = own.version + 1
  BY HandedOffOwnership DEF Ingest, SettledOwnership, IInv, Types
<1>3. mail' \in [Mails -> Delivery] /\ inbox' \in Seq(Mails)
  <2>1. mail' \in [Mails -> Delivery]
    BY DEF Ingest, IInv, Types, Delivery
  <2>2. inbox' = Append(inbox, m) /\ inbox \in Seq(Mails)
    BY DEF Ingest, IInv, Types
  <2>3. inbox' \in Seq(Mails)
    BY <2>2
  <2> QED  BY <2>1, <2>3
<1>4. Types'
  BY <1>1, <1>2, <1>3 DEF Ingest, Others, IInv, Types, PolicyVersion
<1>5. ReviewsStand'
  BY <1>2, ReviewsOutdated DEF Ingest, IInv
<1> QED  BY <1>1, <1>4, <1>5, NoneLive

LEMMA IngestAgainInv == ASSUME IInv, NEW m \in Mails, IngestAgain(m) PROVE IInv'
<1>1. /\ own' \in Ownership /\ (own'.state = "ai" => own'.owner = NoOne)
      /\ DraftsOK(drafts') /\ OneLive' /\ DraftsStand'
      /\ own' = own \/ own'.version = own.version + 1
  BY HandedOffKeeps DEF IngestAgain, SettledOwnership, Others
<1>2. Types'
  BY <1>1 DEF IngestAgain, Others, Fault, IInv, Types, PolicyVersion
<1>3. ReviewsStand'
  BY <1>1, ReviewsOutdated DEF IngestAgain, IInv
<1> QED  BY <1>1, <1>2, <1>3 DEF IInv

(* A link scheduled for review keeps its type.                             *)
LEMMA ScheduledLink ==
  ASSUME Types, link.rev < MaxRev, NEW n \in Nat
  PROVE  Scheduled(link, n) \in Link
<1>1. link \in Link /\ link.rev \in 0 .. MaxRev
  BY DEF Types, Link
<1>2. link.rev + 1 \in 0 .. MaxRev
  BY <1>1, Bounds
<1> QED  BY <1>1, <1>2 DEF Link, Scheduled

LEMMA IndexInv == ASSUME IInv, NEW m \in Mails, Index(m) PROVE IInv'
<1>1. mail' \in [Mails -> Delivery]
  BY DEF Index, IInv, Types, Delivery
<1>2. mail[m].accepted \in Nat
  BY DEF IInv, Types, Delivery
<1>3. link' \in Link
  BY <1>2, ScheduledLink DEF Index, IInv, Types
<1> QED  BY <1>1, <1>3, Quiet DEF Index, Others, IInv, Types

-----------------------------------------------------------------------------
(* The review.                                                             *)

(* So does one whose lease is given up, and a completed one.               *)
LEMMA UnheldLink ==
  ASSUME Types
  PROVE  /\ Unheld(link) \in Link /\ Completed \in Link
         /\ [Unheld(link) EXCEPT !.attempts = 0] \in Link
BY DEF Types, Link, Unheld, Completed

LEMMA ClaimInv == ASSUME IInv, NEW r \in Reviewers, Claim(r) PROVE IInv'
<1> DEFINE v == [Idle EXCEPT !.pc = "claimed", !.rev = link.rev,
                             !.attempt = link.attempts + 1, !.accepted = link.accepted]
<1>1. link \in Link /\ link.rev \in 0 .. MaxRev /\ link.attempts \in Nat /\ link.accepted \in Nat
  BY DEF IInv, Types, Link
<1>2. link' \in Link
  <2> DEFINE n == link.attempts + 1
  <2>1. n \in Nat
    BY <1>1
  <2>2. link' = [link EXCEPT !.holder = r, !.expired = FALSE, !.attempts = n]
    BY <1>1 DEF Claim, Link
  <2> HIDE DEF n
  <2> QED  BY <1>1, <2>1, <2>2 DEF Link
<1>4. v \in Review /\ v.pc = "claimed"
  <2>1. "claimed" \in PCs /\ link.attempts + 1 \in Nat
    BY <1>1 DEF PCs
  <2> QED  BY <1>1, <2>1, IdleReview DEF Review
<1>5. rv' = [rv EXCEPT ![r] = v]
  BY DEF Claim
<1> HIDE DEF v
<1>6. /\ rv' \in [Reviewers -> Review]
      /\ \A x \in Reviewers : rv'[x].pc \in {"drafted", "hold"} =>
            rv[x].pc \in {"drafted", "hold"} /\ rv'[x].own = rv[x].own
  BY <1>4, <1>5 DEF IInv, Types
<1> QED  BY <1>2, <1>6, Quiet DEF Claim, Thread, IInv, Types

(* A review that goes on with what it read.                                *)
LEMMA ReviewGoesOn ==
  ASSUME IInv, NEW r \in Reviewers, NEW v \in Review, rv' = [rv EXCEPT ![r] = v],
         v.pc \in {"drafted", "hold"} =>
           \/ v.own = own.version /\ own.state = "ai"
           \/ rv[r].pc \in {"drafted", "hold"} /\ v.own = rv[r].own
  PROVE  /\ rv' \in [Reviewers -> Review]
         /\ \A x \in Reviewers : rv'[x].pc \in {"drafted", "hold"} =>
               \/ rv'[x].own = own.version /\ own.state = "ai"
               \/ rv[x].pc \in {"drafted", "hold"} /\ rv'[x].own = rv[x].own
BY DEF IInv, Types

LEMMA ReadMailboxInv == ASSUME IInv, NEW r \in Reviewers, ReadMailbox(r) PROVE IInv'
<1> DEFINE mode == Narrower(policies[rv[r].accepted], Mode)
           v == [rv[r] EXCEPT !.pc = "conversation", !.pol = PolicyVersion, !.mode = mode]
<1>1. CASE Settle(r, "finish") \/ Settle(r, "handoff")
  BY <1>1, QuietReviews, Quiet DEF ReadMailbox, Thread, IInv, Types, PCs
<1>2. CASE rv' = [rv EXCEPT ![r].pc = "conversation", ![r].pol = PolicyVersion, ![r].mode = mode]
  <2>1. rv[r] \in Review /\ PolicyVersion \in Nat /\ mode \in Modes
    BY Bounds DEF IInv, Types, Narrower, Modes
  <2> HIDE DEF mode
  <2>2. v \in Review /\ v.pc = "conversation"
    BY <2>1 DEF Review, PCs
  <2>3. rv' = [rv EXCEPT ![r] = v]
    BY <1>2 DEF IInv, Types
  <2> HIDE DEF v
  <2> QED  BY <2>2, <2>3, ReviewGoesOn, Quiet DEF ReadMailbox, Thread, IInv, Types
<1> QED  BY <1>1, <1>2 DEF ReadMailbox

LEMMA ReadConversationInv ==
  ASSUME IInv, NEW r \in Reviewers, ReadConversation(r) PROVE IInv'
<1> DEFINE v == [rv[r] EXCEPT !.pc = "turn", !.answers = Newest]
<1>1. CASE Settle(r, "finish") \/ Settle(r, "handoff") \/ Leave(r)
  BY <1>1, QuietReviews, Quiet DEF ReadConversation, Thread, IInv, Types, PCs
<1>2. CASE rv' = [rv EXCEPT ![r].pc = "turn", ![r].answers = Newest]
  <2>1. v \in Review /\ v.pc = "turn"
    <3>1. rv[r] \in Review /\ Newest \in 0 .. MaxMail
      BY NewestTyped, HeldRepliesAssumption DEF IInv, Types
    <3> QED  BY <3>1 DEF Review, PCs
  <2>2. rv' = [rv EXCEPT ![r] = v]
    BY <1>2 DEF IInv, Types
  <2> HIDE DEF v
  <2> QED  BY <2>1, <2>2, ReviewGoesOn, Quiet DEF ReadConversation, Thread, IInv, Types
<1> QED  BY <1>1, <1>2 DEF ReadConversation

LEMMA SetAsideInv == ASSUME IInv, NEW r \in Reviewers, SetAside(r) PROVE IInv'
<1>1. rv[r].answers \in 0 .. MaxMail
  BY DEF IInv, Types, Review
<1>2. link' \in Link
  BY UnheldLink DEF SetAside, IInv, Types
<1>3. Leave(r) \/ Settle(r, "finish")
  BY DEF SetAside
<1>4. settled' \subseteq 0 .. MaxMail
  BY <1>1, Bounds DEF SetAside, Mails, IInv, Types
<1> QED  BY <1>2, <1>3, <1>4, QuietReviews, Quiet DEF SetAside, IInv, Types, PCs

LEMMA TurnInv == ASSUME IInv, NEW r \in Reviewers, Turn(r) PROVE IInv'
<1> DEFINE v == [rv[r] EXCEPT !.pc = "drafted", !.own = own.version]
<1>1. CASE Settle(r, "finish") \/ Settle(r, "handoff") \/ Leave(r)
  BY <1>1, QuietReviews, Quiet DEF Turn, Thread, IInv, Types, PCs
<1>2. CASE /\ own.state # "human"
           /\ rv' = [rv EXCEPT ![r].pc = "drafted", ![r].own = own.version]
  <2>1. rv[r] \in Review /\ own.version \in Nat /\ own.state = "ai"
    BY <1>2, OwnershipFields DEF IInv, Types
  <2>2. v \in Review /\ v.own = own.version
    BY <2>1 DEF Review, PCs
  <2>3. rv' = [rv EXCEPT ![r] = v]
    BY <1>2 DEF IInv, Types
  <2> HIDE DEF v
  <2> QED  BY <2>1, <2>2, <2>3, ReviewGoesOn, Quiet DEF Turn, Thread, IInv, Types
<1> QED  BY <1>1, <1>2 DEF Turn

LEMMA FinishInv == ASSUME IInv, NEW r \in Reviewers, Finish(r) PROVE IInv'
<1>1. link' \in Link
  BY UnheldLink DEF Finish, IInv, Types
<1> QED  BY <1>1, QuietReviews, Quiet DEF Finish, Thread, IInv, Types

LEMMA RetryLaterInv == ASSUME IInv, NEW r \in Reviewers, RetryLater(r) PROVE IInv'
<1>1. link' \in Link
  BY UnheldLink DEF RetryLater, IInv, Types
<1> QED  BY <1>1, QuietReviews, Quiet DEF RetryLater, Thread, IInv, Types

LEMMA StepFailsInv == ASSUME IInv, NEW r \in Reviewers, StepFails(r) PROVE IInv'
<1>1. \E pc \in PCs \ {"drafted", "hold"} : Settle(r, pc)
  BY DEF StepFails, Failing, PCs
<1> QED  BY <1>1, QuietReviews, Quiet DEF StepFails, Fault, Thread, IInv, Types

LEMMA CrashInv == ASSUME IInv, NEW r \in Reviewers, Crash(r) PROVE IInv'
BY QuietReviews, Quiet DEF Crash, Fault, Thread, IInv, Types

LEMMA LeaseLapsesInv == ASSUME IInv, LeaseLapses PROVE IInv'
<1>1. link' \in Link
  BY DEF LeaseLapses, IInv, Types, Link
<1> QED  BY <1>1, Quiet DEF LeaseLapses, Fault, Thread, IInv, Types

LEMMA MovedInv == ASSUME IInv, NEW r \in Reviewers, Moved(r) PROVE IInv'
<1> DEFINE v == [rv[r] EXCEPT !.pc = "again", !.pol = 0]
<1>1. CASE Settle(r, "finish")
  BY <1>1, QuietReviews, Quiet DEF Moved, Thread, IInv, Types, PCs
<1>2. CASE rv' = [rv EXCEPT ![r].pc = "again", ![r].pol = 0]
  <2>1. v \in Review /\ v.pc = "again"
    BY DEF IInv, Types, Review, PCs
  <2>2. rv' = [rv EXCEPT ![r] = v]
    BY <1>2 DEF IInv, Types
  <2> HIDE DEF v
  <2> QED  BY <2>1, <2>2, ReviewGoesOn, Quiet DEF Moved, Thread, IInv, Types
<1> QED  BY <1>1, <1>2 DEF Moved

LEMMA AgainInv == ASSUME IInv, NEW r \in Reviewers, Again(r) PROVE IInv'
<1>1. rv[r].accepted \in Nat
  BY DEF IInv, Types, Review
<1>2. link' \in Link
  BY <1>1, ScheduledLink DEF Again, IInv, Types
<1>3. Leave(r) \/ Settle(r, "finish")
  BY DEF Again
<1> QED  BY <1>2, <1>3, QuietReviews, Quiet DEF Again, Thread, IInv, Types, PCs

LEMMA HandOffInv == ASSUME IInv, NEW r \in Reviewers, HandOff(r) PROVE IInv'
<1>1. /\ own' \in Ownership /\ (own'.state = "ai" => own'.owner = NoOne)
      /\ DraftsOK(drafts') /\ OneLive' /\ DraftsStand'
      /\ own' = own \/ own'.version = own.version + 1
  BY HandedOffKeeps DEF HandOff, Thread
<1>2. Leave(r) \/ Settle(r, "finish")
  BY DEF HandOff
<1>3. /\ rv' \in [Reviewers -> Review]
      /\ \A x \in Reviewers : rv'[x].pc \in {"drafted", "hold"} =>
            rv[x].pc \in {"drafted", "hold"} /\ rv'[x].own = rv[x].own
  BY <1>2, QuietReviews DEF PCs
<1>4. Types'
  BY <1>1, <1>3 DEF HandOff, Thread, IInv, Types, PolicyVersion
<1>5. ReviewsStand'
  <2>1. own.version \in Nat /\ \A x \in Reviewers : rv[x].own \in Nat
    BY OwnershipFields DEF IInv, Types, Review
  <2> QED  BY <1>1, <1>3, <2>1 DEF IInv, ReviewsStand
<1> QED  BY <1>1, <1>4, <1>5 DEF IInv

-----------------------------------------------------------------------------
(* The drafts.                                                             *)

(* One draft changes; if it is live, it stands and no other is live.       *)
LEMMA OneDraftChanges ==
  ASSUME IInv, NEW q, NEW d \in Draft, (d.why # "none") <=> (d.state = "superseded"),
         drafts' = [drafts EXCEPT ![q] = d],
         UNCHANGED <<policies, removed, own, inbox>>,
         Live(d) => Standing(d) /\ LiveDrafts \subseteq {q}
  PROVE  DraftsOK(drafts') /\ OneLive' /\ DraftsStand'
<1>1. DraftsOK(drafts')
  BY DEF DraftsOK, IInv, Types
<1>2. \A r \in Revs : drafts'[r] = IF r = q THEN d ELSE drafts[r]
  BY DEF IInv, Types, DraftsOK
<1>3. OneLive'
  BY <1>2 DEF IInv, OneLive, LiveDrafts
<1>4. \A e \in Draft : Standing(e) => Standing(e)'
  BY DEF Standing, Newest, PolicyVersion
<1>5. DraftsStand'
  <2> SUFFICES ASSUME NEW r \in Revs, Live(drafts'[r]) PROVE Standing(drafts[r])'
    BY DEF DraftsStand, LiveDrafts
  <2>1. CASE r = q
    BY <1>2, <2>1 DEF Standing, Newest, PolicyVersion
  <2>2. CASE r # q
    BY <1>2, <2>2 DEF IInv, DraftsStand, LiveDrafts, Standing, Newest, PolicyVersion
  <2> QED  BY <2>1, <2>2
<1> QED  BY <1>1, <1>3, <1>5

(* A revision without a draft.                                             *)
LEMMA NoDraftTyped == NoDraft \in Draft /\ NoDraft.why = "none"
BY Bounds DEF NoDraft, Draft, LiveStates, Reasons

(* A draft is born with what its review has seen.                          *)
LEMMA BornTyped ==
  ASSUME IInv, NEW r \in Reviewers, NEW state \in LiveStates \cup {"superseded"}
  PROVE  /\ Born(r, state) \in Draft /\ Born(r, state).state = state
         /\ Born(r, state).why = "none" /\ Born(r, state).answers = rv[r].answers
         /\ Born(r, state).own = rv[r].own /\ Born(r, state).pol = rv[r].pol
<1>1. rv[r].answers \in 0 .. MaxMail /\ rv[r].own \in Nat /\ rv[r].pol \in Nat
  BY DEF IInv, Types, Review
<1> QED  BY <1>1, NoDraftTyped DEF Born, Draft, LiveStates

(* A held draft is born superseded exactly when its review is stale.       *)
LEMMA BirthTyped ==
  ASSUME IInv, NEW r \in Reviewers
  PROVE  /\ HeldBirth(r) \in Draft
         /\ (HeldBirth(r).why # "none") <=> (HeldBirth(r).state = "superseded")
         /\ HeldBirth(r).state = IF Stale(rv[r]) = "none" THEN "pending" ELSE "superseded"
         /\ HeldBirth(r).answers = rv[r].answers
         /\ HeldBirth(r).own = rv[r].own /\ HeldBirth(r).pol = rv[r].pol
<1>1. Stale(rv[r]) \in Reasons \cup {"none"}
  BY DEF Stale, Reasons
<1>2. CASE Stale(rv[r]) = "none"
  <2> DEFINE b == Born(r, "pending")
  <2>1. /\ b \in Draft /\ b.state = "pending" /\ b.why = "none"
        /\ b.answers = rv[r].answers /\ b.own = rv[r].own /\ b.pol = rv[r].pol
    BY BornTyped DEF LiveStates
  <2>2. HeldBirth(r) = [b EXCEPT !.open = TRUE]
    BY <1>2 DEF HeldBirth
  <2> HIDE DEF b
  <2> QED  BY <1>2, <2>1, <2>2 DEF Draft
<1>3. CASE Stale(rv[r]) # "none"
  <2> DEFINE b == Born(r, "superseded")
             why == Stale(rv[r])
  <2>1. /\ b \in Draft /\ b.state = "superseded"
        /\ b.answers = rv[r].answers /\ b.own = rv[r].own /\ b.pol = rv[r].pol
    BY BornTyped
  <2>2. HeldBirth(r) = [b EXCEPT !.why = why, !.born = TRUE]
    BY <1>3 DEF HeldBirth
  <2>3. why \in Reasons /\ why # "none"
    BY <1>1, <1>3
  <2>4. (Stale(rv[r]) = "none") = FALSE
    BY <1>3
  <2> HIDE DEF b, why
  <2> QED  BY <2>1, <2>2, <2>3, <2>4 DEF Draft
<1> QED  BY <1>2, <1>3

(* A result whose review read what is still in force stands.               *)
LEMMA CurrentStands ==
  ASSUME IInv, NEW r \in Reviewers, rv[r].pc \in {"drafted", "hold"}, Stale(rv[r]) = "none",
         NEW d \in Draft, d.answers = rv[r].answers, d.own = rv[r].own, d.pol = rv[r].pol
  PROVE  Standing(d)
<1>1. /\ rv[r].answers = Newest /\ rv[r].own = own.version
      /\ ~removed /\ rv[r].pol = PolicyVersion
  BY DEF Stale
<1>2. own.state = "ai"
  BY <1>1 DEF IInv, ReviewsStand
<1> QED  BY <1>1, <1>2 DEF Standing

(* A step that changes drafts and reviews alone.                           *)
LEMMA DraftStep ==
  ASSUME IInv, DraftsOK(drafts'), OneLive', DraftsStand',
         UNCHANGED <<policies, removed, own, mail, inbox, link, settled, faults>>,
         acts' \in Nat, rv' \in [Reviewers -> Review],
         \A x \in Reviewers : rv'[x].pc \in {"drafted", "hold"} =>
            rv[x].pc \in {"drafted", "hold"} /\ rv'[x].own = rv[x].own
  PROVE  IInv'
<1>1. Types'
  BY DEF IInv, Types, PolicyVersion
<1>2. ReviewsStand'
  BY DEF IInv, ReviewsStand
<1> QED  BY <1>1, <1>2 DEF IInv

(* A failing review keeps no draft in its hands.                           *)
LEMMA HoldingOn ==
  ASSUME IInv, NEW r \in Reviewers, Failing(r)
  PROVE  \E pc \in PCs \ {"drafted", "hold"} : Settle(r, pc)
BY DEF Failing, PCs

LEMMA PublishInv == ASSUME IInv, NEW r \in Reviewers, Publish(r) PROVE IInv'
<1> DEFINE d == Born(r, "queued_auto")
           v == [rv[r] EXCEPT !.pc = "hold", !.mode = "off"]
<1>1. CASE UNCHANGED drafts /\ (Settle(r, "finish") \/ Leave(r) \/ Failing(r))
  BY <1>1, HoldingOn, QuietReviews, Quiet DEF Publish, Thread, IInv, Types, PCs
<1>2. CASE UNCHANGED drafts /\ rv' = [rv EXCEPT ![r].pc = "hold", ![r].mode = "off"]
  <2>1. v \in Review /\ v.own = rv[r].own /\ rv[r].pc = "drafted"
    BY DEF IInv, Types, Review, PCs, Modes, Publish, At
  <2>2. rv' = [rv EXCEPT ![r] = v]
    BY <1>2 DEF IInv, Types
  <2> HIDE DEF v
  <2> QED  BY <1>2, <2>1, <2>2, ReviewGoesOn, Quiet DEF Publish, Thread, IInv, Types
<1>3. CASE /\ Stale(rv[r]) = "none" /\ LiveDrafts = {} /\ Settle(r, "finish")
           /\ drafts' = [drafts EXCEPT ![rv[r].rev] = d]
  <2>1. /\ d \in Draft /\ d.why = "none" /\ d.state = "queued_auto"
        /\ d.answers = rv[r].answers /\ d.own = rv[r].own /\ d.pol = rv[r].pol
    BY BornTyped DEF LiveStates
  <2>2. rv[r].pc = "drafted"
    BY DEF Publish, At
  <2> HIDE DEF d
  <2>3. Standing(d)
    BY <1>3, <2>1, <2>2, CurrentStands
  <2>4. DraftsOK(drafts') /\ OneLive' /\ DraftsStand'
    BY <1>3, <2>1, <2>3, OneDraftChanges DEF Publish, Thread
  <2> QED  BY <1>3, <2>4, QuietReviews, DraftStep DEF Publish, Thread, IInv, Types, PCs
<1> QED  BY <1>1, <1>2, <1>3 DEF Publish

LEMMA HoldInv == ASSUME IInv, NEW r \in Reviewers, Hold(r) PROVE IInv'
<1> DEFINE d == HeldBirth(r)
           v == [rv[r] EXCEPT !.pc = "moved", !.answers = 0, !.own = 0, !.mode = "off"]
<1>1. rv[r].pc \in {"drafted", "hold"}
  BY DEF Hold, At
<1>2. ASSUME NEW state, Recorded(r, state)
      PROVE  /\ rv' \in [Reviewers -> Review]
             /\ \A x \in Reviewers : rv'[x].pc \in {"drafted", "hold"} =>
                   rv[x].pc \in {"drafted", "hold"} /\ rv'[x].own = rv[x].own
  <2>1. CASE Settle(r, "finish")
    BY <2>1, QuietReviews DEF PCs
  <2>2. CASE rv' = [rv EXCEPT ![r].pc = "moved", ![r].answers = 0, ![r].own = 0, ![r].mode = "off"]
    <3>1. v \in Review /\ v.pc = "moved"
      <4>1. rv[r] \in Review /\ 0 \in 0 .. MaxMail
        BY Bounds DEF IInv, Types
      <4> QED  BY <4>1 DEF Review, PCs, Modes
    <3>2. rv' = [rv EXCEPT ![r] = v]
      BY <2>2 DEF IInv, Types
    <3> HIDE DEF v
    <3> QED  BY <3>1, <3>2 DEF IInv, Types
  <2> QED  BY <1>2, <2>1, <2>2 DEF Recorded
<1>3. CASE UNCHANGED drafts /\ (Leave(r) \/ Failing(r))
  BY <1>3, HoldingOn, QuietReviews, Quiet DEF Hold, Thread, IInv, Types, PCs
<1>4. CASE UNCHANGED drafts /\ Recorded(r, drafts[rv[r].rev].state)
  BY <1>2, <1>4, Quiet DEF Hold, Thread, IInv, Types
<1>5. CASE /\ ~(Stale(rv[r]) = "none" /\ LiveDrafts # {})
           /\ drafts' = [drafts EXCEPT ![rv[r].rev] = d] /\ Recorded(r, d.state)
  <2>1. /\ d \in Draft /\ ((d.why # "none") <=> (d.state = "superseded"))
        /\ d.answers = rv[r].answers /\ d.own = rv[r].own /\ d.pol = rv[r].pol
        /\ d.state = IF Stale(rv[r]) = "none" THEN "pending" ELSE "superseded"
    BY BirthTyped
  <2> HIDE DEF d
  <2>2. Live(d) => Stale(rv[r]) = "none"
    BY <2>1 DEF Live, LiveStates
  <2>3. Live(d) => Standing(d) /\ LiveDrafts = {}
    BY <1>1, <1>5, <2>1, <2>2, CurrentStands
  <2>4. DraftsOK(drafts') /\ OneLive' /\ DraftsStand'
    BY <1>5, <2>1, <2>3, OneDraftChanges DEF Hold, Thread
  <2> QED  BY <1>2, <1>5, <2>4, DraftStep DEF Hold, Thread, IInv, Types
<1> QED  BY <1>3, <1>4, <1>5 DEF Hold

-----------------------------------------------------------------------------
(* The policy and the team.                                                *)

(* Held drafts are bound to the new version of the policy.                 *)
LEMMA HeldDrafts ==
  ASSUME Types
  PROVE  /\ DraftsOK(HeldForReview(drafts))
         /\ \A r \in Revs : LET d == HeldForReview(drafts)[r] IN
              /\ Live(d) <=> Live(drafts[r])
              /\ d.answers = drafts[r].answers /\ d.own = drafts[r].own
              /\ d.passed = drafts[r].passed
              /\ Live(drafts[r]) => d.pol = PolicyVersion + 1
<1> DEFINE n == PolicyVersion + 1
<1>1. n \in Nat
  BY Bounds DEF Types
<1>2. SUFFICES ASSUME NEW r \in Revs
               PROVE  LET d == HeldForReview(drafts)[r] IN
                      /\ d \in Draft
                      /\ (d.why # "none") <=> (d.state = "superseded")
                      /\ Live(d) <=> Live(drafts[r])
                      /\ d.answers = drafts[r].answers /\ d.own = drafts[r].own
                      /\ d.passed = drafts[r].passed
                      /\ Live(drafts[r]) => d.pol = n
  BY <1>2 DEF DraftsOK, HeldForReview
<1>3. HeldForReview(drafts)[r] =
        IF Live(drafts[r]) THEN [drafts[r] EXCEPT !.state = "pending", !.pol = n, !.open = TRUE]
        ELSE drafts[r]
  BY DEF HeldForReview
<1>4. drafts[r] \in Draft /\ ((drafts[r].why # "none") <=> (drafts[r].state = "superseded"))
  BY DEF Types, DraftsOK
<1> HIDE DEF n
<1> QED  BY <1>1, <1>3, <1>4 DEF Draft, Live, LiveStates

(* A hand-off to the team ends every live draft.                           *)
LEMMA HandedDown ==
  ASSUME IInv, SupersedeAndHandOff
  PROVE  /\ DraftsOK(drafts') /\ \A r \in Revs : ~Live(drafts'[r])
         /\ own' \in Ownership /\ (own'.state = "ai" => own'.owner = NoOne)
         /\ own' = own \/ own'.version = own.version + 1
<1>1. DraftsOK(drafts') /\ \A r \in Revs : ~Live(drafts'[r])
  BY SupersedeEnds DEF SupersedeAndHandOff, IInv, Types, Reasons
<1>2. /\ own' \in Ownership /\ (own'.state = "ai" => own'.owner = NoOne)
      /\ own' = own \/ own'.version = own.version + 1
  BY HandedOffOwnership DEF SupersedeAndHandOff, IInv, Types
<1> QED  BY <1>1, <1>2

LEMMA ChangePolicyInv ==
  ASSUME IInv, NEW mode \in Modes, NEW only \in BOOLEAN, ChangePolicy(mode, only)
  PROVE  IInv'
<1>1. policies' \in Seq(Modes) /\ PolicyVersion' = PolicyVersion + 1
      /\ PolicyVersion' \in 1 .. MaxPolicy
  <2>1. policies \in Seq(Modes) /\ policies' = Append(policies, mode)
        /\ PolicyVersion < MaxPolicy /\ PolicyVersion \in 1 .. MaxPolicy
    BY DEF ChangePolicy, IInv, Types
  <2>2. policies' \in Seq(Modes) /\ Len(policies') = Len(policies) + 1
    BY <2>1
  <2> QED  BY <2>1, <2>2, Bounds DEF PolicyVersion
<1>2. CASE drafts' = HeldForReview(drafts) /\ own' = own
  <2>1. /\ DraftsOK(drafts')
        /\ \A r \in Revs : /\ Live(drafts'[r]) <=> Live(drafts[r])
                           /\ drafts'[r].answers = drafts[r].answers
                           /\ drafts'[r].own = drafts[r].own
                           /\ drafts'[r].passed = drafts[r].passed
                           /\ Live(drafts[r]) => drafts'[r].pol = PolicyVersion + 1
    BY <1>2, HeldDrafts DEF IInv
  <2>2. Types'
    BY <1>1, <1>2, <2>1 DEF ChangePolicy, Email, IInv, Types
  <2>3. OneLive'
    BY <2>1 DEF IInv, OneLive, LiveDrafts
  <2>4. DraftsStand'
    <3> SUFFICES ASSUME NEW r \in Revs, Live(drafts'[r]) PROVE Standing(drafts[r])'
      BY DEF DraftsStand, LiveDrafts
    <3>1. Standing(drafts[r])
      BY <2>1 DEF IInv, DraftsStand, LiveDrafts
    <3>2. inbox' = inbox /\ removed' = removed
      BY DEF ChangePolicy, Email
    <3> QED  BY <1>1, <1>2, <2>1, <3>1, <3>2 DEF Standing, Newest
  <2>5. ReviewsStand'
    BY <1>2 DEF ChangePolicy, Email, IInv, ReviewsStand
  <2> QED  BY <2>2, <2>3, <2>4, <2>5 DEF IInv
<1>3. CASE SupersedeAndHandOff
  <2>1. Types'
    BY <1>1, <1>3, HandedDown DEF ChangePolicy, Email, IInv, Types
  <2>2. ReviewsStand'
    BY <1>3, HandedDown, ReviewsOutdated DEF ChangePolicy, Email, IInv
  <2> QED  BY <1>3, <2>1, <2>2, HandedDown, NoneLive
<1> QED  BY <1>2, <1>3 DEF ChangePolicy

LEMMA RemoveMailboxInv == ASSUME IInv, RemoveMailbox PROVE IInv'
<1>1. SupersedeAndHandOff
  BY DEF RemoveMailbox
<1>2. Types'
  BY <1>1, HandedDown DEF RemoveMailbox, Email, IInv, Types, PolicyVersion
<1>3. ReviewsStand'
  BY <1>1, HandedDown, ReviewsOutdated DEF RemoveMailbox, Email, IInv
<1> QED  BY <1>1, <1>2, <1>3, HandedDown, NoneLive

(* A claim or a reply of a teammate.                                       *)
LEMMA ReplacedInv ==
  ASSUME IInv, NEW t \in Teammates, NEW why \in Reasons,
         own' = own \/ own' = ClaimedBy(t), drafts' = Replace(drafts, why),
         UNCHANGED settled, Act, Rest
  PROVE  IInv'
<1>1. DraftsOK(drafts') /\ \A r \in Revs : ~Live(drafts'[r])
  BY ReplaceEnds DEF IInv, Types
<1>2. /\ own' \in Ownership /\ (own'.state = "ai" => own'.owner = NoOne)
      /\ own' = own \/ own'.version = own.version + 1
  BY ClaimedOwnership DEF IInv, Types
<1>3. Types'
  BY <1>1, <1>2 DEF Act, Rest, IInv, Types, PolicyVersion
<1>4. ReviewsStand'
  BY <1>2, ReviewsOutdated DEF Rest, IInv
<1> QED  BY <1>1, <1>3, <1>4, NoneLive

LEMMA TakeOverInv == ASSUME IInv, NEW t \in Teammates, TakeOver(t) PROVE IInv'
BY ReplacedInv DEF TakeOver, Reasons

LEMMA ReplyInv == ASSUME IInv, NEW t \in Teammates, Reply(t) PROVE IInv'
BY ReplacedInv DEF Reply, Reasons

(* A person's conversation moves on: what is live there was passed.        *)
LEMMA MovesOn ==
  ASSUME IInv, own.state = "human", UNCHANGED <<policies, removed, inbox, drafts>>
  PROVE  OneLive' /\ DraftsStand'
<1>1. \A r \in Revs : Live(drafts[r]) => drafts[r].passed
  BY DEF IInv, DraftsStand, LiveDrafts, Standing
<1> QED  BY <1>1 DEF IInv, OneLive, DraftsStand, LiveDrafts, Standing, Newest, PolicyVersion

LEMMA TransferInv ==
  ASSUME IInv, NEW t \in Teammates, NEW to \in Teammates, Transfer(t, to) PROVE IInv'
<1>1. own \in Ownership /\ own.state = "human" /\ own.version \in Nat
  BY OwnershipFields DEF Transfer, IInv, Types
<1>2. /\ own' \in Ownership /\ own'.state = "human" /\ own'.version = own.version + 1
  <2> DEFINE n == own.version + 1
  <2>1. n \in Nat /\ own' = [own EXCEPT !.owner = to, !.version = n]
    BY <1>1 DEF Transfer, Ownership
  <2> HIDE DEF n
  <2>2. own' \in Ownership /\ own'.state = "human" /\ own'.version = n
    BY <1>1, <2>1 DEF Ownership
  <2> QED  BY <2>2 DEF n
<1>3. ReviewsStand'
  BY <1>2, ReviewsOutdated DEF Transfer, Rest, IInv
<1>4. CASE drafts' = Replace(drafts, "takeover")
  <2>1. DraftsOK(drafts') /\ \A r \in Revs : ~Live(drafts'[r])
    BY <1>4, ReplaceEnds DEF IInv, Types, Reasons
  <2>2. Types'
    BY <1>2, <2>1 DEF Transfer, Act, Rest, IInv, Types, PolicyVersion
  <2> QED  BY <1>3, <2>1, <2>2, NoneLive
<1>5. CASE drafts' = drafts
  <2>1. Types'
    BY <1>2, <1>5 DEF Transfer, Act, Rest, IInv, Types, PolicyVersion
  <2>2. OneLive' /\ DraftsStand'
    BY <1>1, <1>5, MovesOn DEF Transfer, Rest
  <2> QED  BY <1>3, <2>1, <2>2 DEF IInv
<1> QED  BY <1>4, <1>5 DEF Transfer

LEMMA HandBackInv == ASSUME IInv, NEW t \in Teammates, HandBack(t) PROVE IInv'
<1>1. own.state = "human" /\ own.version \in Nat
  BY OwnershipFields DEF HandBack, IInv
<1>2. /\ own' \in Ownership /\ own'.owner = NoOne /\ own'.version = own.version + 1
  BY <1>1 DEF HandBack, Ownership
<1>3. settled' \subseteq 0 .. MaxMail
  <2>1. \A i \in 1 .. Len(inbox) : inbox[i] \in 0 .. MaxMail
    BY Bounds DEF IInv, Types, Mails
  <2> QED  BY <2>1 DEF HandBack, IInv, Types
<1>4. Types'
  BY <1>2, <1>3 DEF HandBack, Act, Rest, IInv, Types, PolicyVersion
<1>5. OneLive' /\ DraftsStand'
  BY <1>1, MovesOn DEF HandBack, Rest
<1>6. ReviewsStand'
  BY <1>2, ReviewsOutdated DEF HandBack, Rest, IInv
<1> QED  BY <1>4, <1>5, <1>6 DEF IInv

(* A live draft goes out, is set aside or goes back to a teammate.         *)
LEMMA DraftMoves ==
  ASSUME IInv, NEW r \in Revs, Live(drafts[r]), NEW d \in Draft,
         d.state # "superseded", d.why = drafts[r].why, d.answers = drafts[r].answers,
         d.pol = drafts[r].pol, d.own = drafts[r].own, d.passed = drafts[r].passed,
         drafts' = [drafts EXCEPT ![r] = d], UNCHANGED <<own, settled>>, Rest, acts' \in Nat
  PROVE  IInv'
<1>1. d.why = "none"
  BY DEF Live, LiveStates, IInv, Types, DraftsOK
<1>2. Standing(d) /\ LiveDrafts \subseteq {r}
  BY DEF IInv, OneLive, DraftsStand, LiveDrafts, Standing
<1>3. DraftsOK(drafts') /\ OneLive' /\ DraftsStand'
  BY <1>1, <1>2, OneDraftChanges DEF Rest
<1>4. /\ rv' \in [Reviewers -> Review]
      /\ \A x \in Reviewers : rv'[x].pc \in {"drafted", "hold"} =>
            rv[x].pc \in {"drafted", "hold"} /\ rv'[x].own = rv[x].own
  BY DEF Rest, IInv, Types
<1> QED  BY <1>3, <1>4, DraftStep DEF Rest

LEMMA ReleaseInv == ASSUME IInv, NEW r \in Revs, Release(r) PROVE IInv'
<1> DEFINE d == [drafts[r] EXCEPT !.state = "released", !.open = FALSE]
<1>1. drafts[r] \in Draft /\ drafts[r].state = "pending" /\ Live(drafts[r])
  BY DEF Release, IInv, Types, DraftsOK, Live, LiveStates
<1>2. /\ d \in Draft /\ d.state = "released" /\ d.why = drafts[r].why
      /\ d.answers = drafts[r].answers /\ d.pol = drafts[r].pol
      /\ d.own = drafts[r].own /\ d.passed = drafts[r].passed
  BY <1>1 DEF Draft
<1>3. drafts' = [drafts EXCEPT ![r] = d]
  BY DEF Release
<1>4. acts' \in Nat
  BY DEF Release, Act, IInv, Types
<1> HIDE DEF d
<1> QED  BY <1>1, <1>2, <1>3, <1>4, DraftMoves DEF Release

LEMMA DiscardInv == ASSUME IInv, NEW r \in Revs, Discard(r) PROVE IInv'
<1> DEFINE d == [drafts[r] EXCEPT !.state = "discarded"]
<1>1. drafts[r] \in Draft /\ drafts[r].state = "pending" /\ Live(drafts[r])
  BY DEF Discard, IInv, Types, DraftsOK, Live, LiveStates
<1>2. /\ d \in Draft /\ d.state = "discarded" /\ d.why = drafts[r].why
      /\ d.answers = drafts[r].answers /\ d.pol = drafts[r].pol
      /\ d.own = drafts[r].own /\ d.passed = drafts[r].passed
  BY <1>1 DEF Draft
<1>3. drafts' = [drafts EXCEPT ![r] = d] /\ acts' \in Nat
  BY DEF Discard, Act, IInv, Types, DraftsOK
<1> HIDE DEF d
<1> QED  BY <1>1, <1>2, <1>3, DraftMoves DEF Discard

LEMMA DispatchInv == ASSUME IInv, NEW r \in Revs, Dispatch(r) PROVE IInv'
<1>1. drafts[r] \in Draft /\ drafts[r].state = "queued_auto" /\ Live(drafts[r])
  BY DEF Dispatch, IInv, Types, DraftsOK, Live, LiveStates
<1>2. PICK d \in {Dispatched(drafts[r]), Returned(drafts[r])} :
           drafts' = [drafts EXCEPT ![r] = d]
  BY DEF Dispatch, IInv, Types, DraftsOK
<1>3. /\ d \in Draft /\ d.state # "superseded" /\ d.why = drafts[r].why
      /\ d.answers = drafts[r].answers /\ d.pol = drafts[r].pol
      /\ d.own = drafts[r].own /\ d.passed = drafts[r].passed
  BY <1>1, <1>2 DEF Draft, Dispatched, Returned, LiveStates
<1> QED  BY <1>1, <1>2, <1>3, DraftMoves DEF Dispatch, IInv, Types

-----------------------------------------------------------------------------

LEMMA InitInv == Init => IInv
<1> SUFFICES ASSUME Init PROVE IInv
  OBVIOUS
<1>1. NoDraft \in Draft /\ NoDraft.why = "none" /\ NoDraft.state = "none"
  BY NoDraftTyped DEF NoDraft
<1>2. DraftsOK(drafts) /\ LiveDrafts = {}
  BY <1>1 DEF Init, DraftsOK, LiveDrafts, Live, LiveStates
<1>3. policies \in Seq(Modes) /\ PolicyVersion \in 1 .. MaxPolicy
  <2>1. PICK m \in FirstModes : policies = <<m>>
    BY DEF Init
  <2>2. m \in Modes
    BY HeldRepliesAssumption DEF Modes
  <2>3. policies \in Seq(Modes) /\ Len(policies) = 1
    BY <2>1, <2>2
  <2> QED  BY <2>3, HeldRepliesAssumption DEF PolicyVersion
<1>4. rv \in [Reviewers -> Review] /\ \A r \in Reviewers : rv[r].pc = "idle"
  BY IdleReview DEF Init
<1>5. link \in Link /\ mail \in [Mails -> Delivery] /\ own \in Ownership
      /\ (own.state = "ai" => own.owner = NoOne)
  BY Bounds DEF Init, Link, Delivery, Ownership
<1>6. inbox \in Seq(Mails)
  <2>1. inbox = <<>>
    BY DEF Init
  <2> QED  BY <2>1
<1>7. removed \in BOOLEAN /\ settled \subseteq 0 .. MaxMail /\ acts \in Nat /\ faults \in Nat
  BY DEF Init
<1> QED  BY <1>2, <1>3, <1>4, <1>5, <1>6, <1>7 DEF IInv, Types, OneLive, DraftsStand, ReviewsStand

LEMMA StutterInv == ASSUME IInv, UNCHANGED vars PROVE IInv'
BY DEF IInv, Types, OneLive, DraftsStand, ReviewsStand, LiveDrafts, Standing, Newest,
       PolicyVersion, vars

LEMMA NextInv == ASSUME IInv, Next PROVE IInv'
<1>1. ASSUME NEW m \in Mails, Receive(m) \/ IngestAgain(m) PROVE IInv'
  BY <1>1, ReceiveInv, IngestAgainInv
<1>2. ASSUME Inbound PROVE IInv'
  BY <1>2, DropInv, ResolveInv, IngestInv, IndexInv DEF Inbound
<1>3. ASSUME NEW r \in Reviewers, ReviewStep(r) PROVE IInv'
  BY <1>3, ReadMailboxInv, ReadConversationInv, SetAsideInv, TurnInv, PublishInv, HoldInv,
     MovedInv, AgainInv, FinishInv, HandOffInv, RetryLaterInv DEF ReviewStep
<1>4. ASSUME NEW r \in Reviewers, Claim(r) \/ StepFails(r) \/ Crash(r) PROVE IInv'
  BY <1>4, ClaimInv, StepFailsInv, CrashInv
<1>5. ASSUME LeaseLapses PROVE IInv'
  BY <1>5, LeaseLapsesInv
<1>6. ASSUME NEW mode \in Modes, NEW only \in BOOLEAN, ChangePolicy(mode, only) PROVE IInv'
  BY <1>6, ChangePolicyInv
<1>7. ASSUME RemoveMailbox PROVE IInv'
  BY <1>7, RemoveMailboxInv
<1>8. ASSUME NEW t \in Teammates, TakeOver(t) \/ HandBack(t) \/ Reply(t) PROVE IInv'
  BY <1>8, TakeOverInv, HandBackInv, ReplyInv
<1>9. ASSUME NEW t \in Teammates, NEW u \in Teammates, Transfer(t, u) PROVE IInv'
  BY <1>9, TransferInv
<1>10. ASSUME NEW r \in Revs, Release(r) \/ Discard(r) \/ Dispatch(r) PROVE IInv'
  BY <1>10, ReleaseInv, DiscardInv, DispatchInv
<1> QED  BY <1>1, <1>2, <1>3, <1>4, <1>5, <1>6, <1>7, <1>8, <1>9, <1>10 DEF Next

(* IInv holds in every state of every behaviour of the specification: the  *)
(* inductive invariant that the theorems below are read off.               *)
THEOREM Invariance == Spec => []IInv
<1>1. IInv /\ [Next]_vars => IInv'
  BY NextInv, StutterInv
<1> QED  BY InitInv, <1>1, PTL DEF Spec

(* Every variable keeps its type and a conversation never has two live     *)
(* drafts, whichever reviews, teammates and failures meet in it            *)
(* (held_replies_live_conversation_uniq is never what refuses a draft).    *)
THEOREM TypeCorrect == Spec => []TypeOK
<1>1. IInv => TypeOK
  <2> SUFFICES ASSUME IInv PROVE TypeOK
    OBVIOUS
  <2>1. Cardinality(LiveDrafts) <= 1
    <3>1. CASE LiveDrafts = {}
      BY <3>1, FS_EmptySet
    <3>2. CASE LiveDrafts # {}
      <4>1. PICK r \in LiveDrafts : TRUE
        BY <3>2
      <4>2. LiveDrafts = {r}
        BY <4>1 DEF IInv, OneLive
      <4>3. Cardinality({r}) = 1
        BY FS_Singleton, Zenon
      <4> QED  BY <4>2, <4>3
    <3> QED  BY <3>1, <3>2
  <2> QED  BY <2>1 DEF IInv, Types, TypeOK, DraftsOK
<1> QED  BY Invariance, <1>1, PTL

(* A live draft answers the newest message under the policy and ownership  *)
(* in force: no message, claim, reply, policy change or removal leaves one *)
(* behind that is not.                                                     *)
THEOREM DraftsAreCurrent == Spec => []LiveDraftIsCurrent
<1>1. IInv => LiveDraftIsCurrent
  BY DEF IInv, DraftsStand, Standing, LiveDraftIsCurrent
<1> QED  BY Invariance, <1>1, PTL

(* Nothing but a release and a dispatch sends a draft.                     *)
Unsent(r) == drafts'[r].state \in {"released", "auto_released"} => drafts'[r].state = drafts[r].state

(* These changes of the drafts send none.                                  *)
LEMMA NoneSent ==
  ASSUME DraftsOK(drafts), NEW r \in Revs,
         \/ drafts' = drafts
         \/ \E why \in Reasons : drafts' = Supersede(drafts, why) \/ drafts' = Replace(drafts, why)
         \/ drafts' = Passed(drafts)
         \/ drafts' = HeldForReview(drafts)
  PROVE  Unsent(r)
<1>1. drafts[r] \in Draft
  BY DEF DraftsOK
<1>2. CASE drafts' = drafts
  BY <1>2 DEF Unsent
<1>3. ASSUME NEW why \in Reasons, drafts' = Supersede(drafts, why) PROVE Unsent(r)
  BY <1>1, <1>3 DEF Supersede, Draft, Unsent
<1>4. ASSUME NEW why \in Reasons, drafts' = Replace(drafts, why) PROVE Unsent(r)
  <2>1. /\ Supersede(drafts, why)[r] \in Draft
        /\ Supersede(drafts, why)[r].state \in {drafts[r].state, "superseded"}
    BY <1>1, SupersedeEnds DEF DraftsOK, Supersede, Draft
  <2>2. drafts'[r] = [Supersede(drafts, why)[r] EXCEPT !.open = FALSE]
    BY <1>4 DEF Replace
  <2> QED  BY <2>1, <2>2 DEF Draft, Unsent
<1>5. CASE drafts' = Passed(drafts)
  BY <1>1, <1>5 DEF Passed, Draft, Unsent
<1>6. CASE drafts' = HeldForReview(drafts)
  BY <1>1, <1>6 DEF HeldForReview, Draft, Unsent
<1> QED  BY <1>2, <1>3, <1>4, <1>5, <1>6

(* No step of a review sends a draft.                                      *)
LEMMA ReviewsSendNothing ==
  ASSUME IInv, NEW x \in Reviewers, NEW r \in Revs, ReviewStep(x)
  PROVE  Unsent(r)
<1>1. CASE \/ ReadMailbox(x) \/ ReadConversation(x) \/ SetAside(x) \/ Turn(x)
           \/ Moved(x) \/ Again(x) \/ Finish(x) \/ RetryLater(x)
  BY <1>1 DEF ReadMailbox, ReadConversation, SetAside, Turn, Moved, Again, Finish, RetryLater,
              Unsent
<1>2. CASE HandOff(x)
  BY <1>2, NoneSent DEF HandOff, IInv, Types
<1>3. CASE Publish(x)
  <2>1. Born(x, "queued_auto").state = "queued_auto"
    BY BornTyped DEF LiveStates
  <2> QED  BY <1>3, <2>1 DEF Publish, Unsent, IInv, Types, DraftsOK
<1>4. CASE Hold(x)
  <2>1. HeldBirth(x).state \in {"pending", "superseded"}
    BY BirthTyped
  <2> QED  BY <1>4, <2>1 DEF Hold, Unsent, IInv, Types, DraftsOK
<1> QED  BY <1>1, <1>2, <1>3, <1>4 DEF ReviewStep

(* Nor does any step other than a release or a dispatch.                   *)
LEMMA OthersSendNothing ==
  ASSUME IInv, NEW r \in Revs, [Next]_vars, ~Release(r), ~Dispatch(r)
  PROVE  Unsent(r)
<1>1. CASE UNCHANGED vars
  BY <1>1 DEF vars, Unsent
<1>2. ASSUME NEW m \in Mails, Receive(m) \/ Drop(m) \/ Resolve(m) \/ Index(m) PROVE Unsent(r)
  BY <1>2 DEF Receive, Drop, Resolve, Index, Unsent
<1>3. ASSUME NEW m \in Mails, Ingest(m) \/ IngestAgain(m) PROVE Unsent(r)
  BY <1>3, NoneSent DEF Ingest, IngestAgain, IInv, Types, Reasons
<1>4. ASSUME NEW x \in Reviewers, Claim(x) \/ StepFails(x) \/ Crash(x) PROVE Unsent(r)
  BY <1>4 DEF Claim, StepFails, Crash, Unsent
<1>5. CASE LeaseLapses
  BY <1>5 DEF LeaseLapses, Unsent
<1>6. ASSUME NEW mode \in Modes, NEW only \in BOOLEAN, ChangePolicy(mode, only) PROVE Unsent(r)
  BY <1>6, NoneSent DEF ChangePolicy, SupersedeAndHandOff, IInv, Types, Reasons
<1>7. CASE RemoveMailbox
  BY <1>7, NoneSent DEF RemoveMailbox, SupersedeAndHandOff, IInv, Types, Reasons
<1>8. ASSUME NEW t \in Teammates, NEW u \in Teammates,
             TakeOver(t) \/ HandBack(t) \/ Reply(t) \/ Transfer(t, u)
      PROVE  Unsent(r)
  BY <1>8, NoneSent DEF TakeOver, HandBack, Reply, Transfer, IInv, Types, Reasons
<1>9. ASSUME NEW q \in Revs, Discard(q) PROVE Unsent(r)
  <2>1. drafts[q] \in Draft /\ drafts[r] \in Draft
    BY DEF IInv, Types, DraftsOK
  <2> QED  BY <1>9, <2>1 DEF Discard, Draft, Unsent, IInv, Types, DraftsOK
<1>10. ASSUME NEW q \in Revs, Release(q) \/ Dispatch(q) PROVE Unsent(r)
  <2>1. q # r
    BY <1>10
  <2> QED  BY <1>10, <2>1 DEF Release, Dispatch, Unsent, IInv, Types, DraftsOK
<1> QED  BY <1>1, <1>2, <1>3, <1>4, <1>5, <1>6, <1>7, <1>8, <1>9, <1>10, ReviewsSendNothing
         DEF Next, Inbound

(* What becomes the customer's message was current as it did: it answered  *)
(* their newest, at the policy and ownership it was drafted for, and one   *)
(* that went out on its own left an AI-owned conversation of a mailbox     *)
(* that still sends.                                                       *)
THEOREM RepliesSentCurrent == Spec => SentRepliesAreCurrent
<1> DEFINE Current(r) ==
             drafts'[r].state # drafts[r].state /\ drafts'[r].state \in {"released", "auto_released"} =>
               /\ drafts[r].answers = Newest /\ ~removed
               /\ drafts[r].pol = PolicyVersion /\ drafts[r].own = own.version
               /\ drafts'[r].state = "auto_released" => own.state = "ai" /\ Mode = "auto"
<1>1. ASSUME IInv, [Next]_vars, NEW r \in Revs PROVE Current(r)
  <2>1. CASE Release(r)
    <3>1. Standing(drafts[r]) /\ Authorized(drafts[r]) /\ drafts[r] \in Draft
      BY <1>1, <2>1 DEF Release, IInv, Types, DraftsOK, DraftsStand, LiveDrafts, Live, LiveStates
    <3>2. drafts'[r].state = "released"
      BY <1>1, <2>1, <3>1 DEF Release, IInv, Types, DraftsOK, Draft
    <3> QED  BY <3>1, <3>2 DEF Standing, Authorized
  <2>2. CASE Dispatch(r)
    <3>1. Standing(drafts[r]) /\ drafts[r] \in Draft
      BY <1>1, <2>2 DEF Dispatch, IInv, Types, DraftsOK, DraftsStand, LiveDrafts, Live, LiveStates
    <3>2. \/ MayDispatch(drafts[r])
          \/ drafts'[r].state = "pending"
      <4>1. \/ MayDispatch(drafts[r])
            \/ drafts'[r] = Returned(drafts[r])
        BY <1>1, <2>2 DEF Dispatch, IInv, Types, DraftsOK
      <4> QED  BY <3>1, <4>1 DEF Returned, Draft
    <3> QED  BY <3>1, <3>2 DEF Standing, MayDispatch, Authorized
  <2>3. CASE ~Release(r) /\ ~Dispatch(r)
    BY <1>1, <2>3, OthersSendNothing DEF Unsent
  <2> QED  BY <2>1, <2>2, <2>3
<1>2. IInv /\ [Next]_vars => [\A r \in Revs : Current(r)]_vars
  BY <1>1
<1> QED  BY Invariance, <1>2, PTL DEF Spec, SentRepliesAreCurrent

-----------------------------------------------------------------------------
(* The newest message is attended.                                         *)

(* A draft that answers its message, or still asks a teammate to, and one  *)
(* the policy moved under.                                                 *)
Answering(d) == Live(d) \/ d.open \/ d.state \in {"released", "auto_released"}
Overtaken(d) == d.born /\ d.why = "policy_changed"

(* Message m is somebody's without a review being due.                     *)
Covered(m) ==
  \/ own.state = "human"
  \/ mail[m].phase = "ingested" /\ mail[m].disp = "review"
  \/ \E r \in Revs : drafts[r].answers = m /\ (Answering(drafts[r]) \/ Overtaken(drafts[r]))
  \/ m \in settled
  \/ mail[m].disp = "human_owned"

Kept == Newest = 0 \/ Covered(Newest)

(* A message in the inbox went through its delivery, and every resolved    *)
(* one has a disposition.                                                  *)
MailInv ==
  /\ \A i \in DOMAIN inbox : mail[inbox[i]].phase \in {"ingested", "done"}
  /\ \A m \in Mails : mail[m].phase = "resolved" => mail[m].disp # "none"

(* A draft that waits for a teammate asks for them, and one never written  *)
(* asks for nobody.                                                        *)
OpenInv ==
  \A r \in Revs : /\ drafts[r].state = "pending" => drafts[r].open
                  /\ drafts[r].state = "none" => ~drafts[r].open

(* Revisions are scheduled before they are claimed, claimed before they    *)
(* have a draft.                                                           *)
RevInv ==
  /\ link.due => link.rev \in Revs
  /\ \A r \in Reviewers : rv[r].pc # "idle" => rv[r].rev \in 1 .. link.rev
  /\ \A r \in Revs : drafts[r].state # "none" => r <= link.rev

(* What a claimed review of the current revision may assume: what it read  *)
(* still stands, or whatever moved it left the newest message to someone.  *)
Fits(v) ==
  /\ v.pc \in {"turn", "drafted", "hold"} => v.answers = Newest \/ Kept
  /\ v.pc \in {"drafted", "hold"} => v.own = own.version \/ Kept
  /\ v.pc \in {"moved", "again", "finish"} => Kept

DueInv  == link.due \/ Kept
DoneInv == \A r \in Revs : r = link.rev /\ drafts[r].state # "none" => Kept
HeldInv == \A r \in Reviewers : link.holder = r /\ rv[r].rev = link.rev => Fits(rv[r])

AttendInv == MailInv /\ OpenInv /\ RevInv /\ DueInv /\ DoneInv /\ HeldInv

-----------------------------------------------------------------------------
(* How the newest message stays attended.                                  *)

(* The newest message is the last of the inbox.                            *)
LEMMA NewestFacts ==
  ASSUME HeldRepliesAssumption, Types
  PROVE  /\ Newest \in 0 .. MaxMail
         /\ Newest # 0 => Newest \in Mails /\ \E i \in 1 .. Len(inbox) : Newest = inbox[i]
         /\ inbox' = inbox => Newest' = Newest
<1>1. inbox \in Seq(Mails) /\ Len(inbox) \in Nat
  BY DEF Types
<1>2. CASE inbox = <<>>
  BY <1>2, NewestTyped DEF Newest
<1>3. CASE inbox # <<>>
  <2>1. Len(inbox) \in 1 .. Len(inbox) /\ Newest = inbox[Len(inbox)]
    BY <1>1, <1>3 DEF Newest
  <2>2. inbox[Len(inbox)] \in Mails
    BY <1>1, <2>1
  <2> QED  BY <2>1, <2>2, NewestTyped DEF Newest
<1> QED  BY <1>2, <1>3

(* A message somebody had stays somebody's while no newer comes, unless a  *)
(* person lets the conversation go, its delivery is done or its draft is   *)
(* dropped.                                                                *)
LEMMA KeptStays ==
  ASSUME HeldRepliesAssumption, Types, Kept, inbox' = inbox, settled \subseteq settled',
         \/ own'.state = "human"
         \/ \A i \in 1 .. Len(inbox) : inbox[i] \in settled'
         \/ /\ own.state # "human"
            /\ Newest # 0 => mail'[Newest] = mail[Newest]
            /\ \A r \in Revs : Answering(drafts[r]) \/ Overtaken(drafts[r]) =>
                 /\ Answering(drafts'[r]) \/ Overtaken(drafts'[r])
                 /\ drafts'[r].answers = drafts[r].answers
  PROVE  Kept'
<1>1. /\ Newest' = Newest
      /\ Newest # 0 => \E i \in 1 .. Len(inbox) : Newest = inbox[i]
  BY NewestFacts
<1>2. CASE Newest = 0
  BY <1>1, <1>2 DEF Kept
<1>3. CASE own'.state = "human"
  BY <1>3 DEF Kept, Covered
<1>4. CASE Newest # 0 /\ \A i \in 1 .. Len(inbox) : inbox[i] \in settled'
  BY <1>1, <1>4 DEF Kept, Covered
<1>5. CASE /\ Newest # 0
           /\ own.state # "human"
           /\ Newest # 0 => mail'[Newest] = mail[Newest]
           /\ \A r \in Revs : Answering(drafts[r]) \/ Overtaken(drafts[r]) =>
                 /\ Answering(drafts'[r]) \/ Overtaken(drafts'[r])
                 /\ drafts'[r].answers = drafts[r].answers
  <2>1. Covered(Newest)
    BY <1>5 DEF Kept
  <2>2. CASE \E r \in Revs : /\ drafts[r].answers = Newest
                             /\ Answering(drafts[r]) \/ Overtaken(drafts[r])
    <3>1. PICK r \in Revs : /\ drafts[r].answers = Newest
                            /\ Answering(drafts[r]) \/ Overtaken(drafts[r])
      BY <2>2
    <3>2. /\ Answering(drafts'[r]) \/ Overtaken(drafts'[r])
          /\ drafts'[r].answers = Newest'
      BY <1>1, <1>5, <3>1
    <3> QED  BY <3>2 DEF Kept, Covered, Answering, Overtaken, Live
  <2>3. CASE \/ mail[Newest].phase = "ingested" /\ mail[Newest].disp = "review"
             \/ Newest \in settled
             \/ mail[Newest].disp = "human_owned"
    BY <1>1, <1>5, <2>3 DEF Kept, Covered
  <2> QED  BY <1>5, <2>1, <2>2, <2>3 DEF Covered
<1> QED  BY <1>2, <1>3, <1>4, <1>5

(* A step that leaves the newest message to someone owes nothing more.     *)
LEMMA KeptSuffices ==
  ASSUME MailInv', OpenInv', RevInv', Kept'
  PROVE  AttendInv'
BY DEF AttendInv, DueInv, DoneInv, HeldInv, Fits

(* A person's conversation and an inbox handed back leave it to someone.   *)
LEMMA PersonKeeps ==
  ASSUME HeldRepliesAssumption, Types,
         \/ own'.state = "human"
         \/ inbox' = inbox /\ \A i \in 1 .. Len(inbox) : inbox[i] \in settled'
  PROVE  Kept'
BY NewestFacts DEF Kept, Covered

(* A step that schedules, claims and reviews nothing, and gives no         *)
(* revision its draft.                                                     *)
LEMMA SteadyKeeps ==
  ASSUME HeldRepliesAssumption, Types, AttendInv, MailInv', OpenInv', inbox' = inbox,
         own' = own, rv' = rv, link'.rev = link.rev, link'.due = link.due,
         \A x \in Reviewers : link'.holder = x => link.holder = x,
         \A r \in Revs : drafts'[r].state # "none" => drafts[r].state # "none",
         Kept => Kept'
  PROVE  AttendInv'
<1>1. Newest' = Newest
  BY NewestFacts
<1>2. RevInv'
  BY DEF AttendInv, RevInv
<1>3. DueInv' /\ DoneInv'
  BY DEF AttendInv, DueInv, DoneInv
<1>4. HeldInv'
  <2> SUFFICES ASSUME NEW x \in Reviewers, link'.holder = x, rv'[x].rev = link'.rev
               PROVE  Fits(rv[x])'
    BY DEF HeldInv
  <2>1. Fits(rv[x])
    BY DEF AttendInv, HeldInv
  <2> QED  BY <1>1, <2>1 DEF Fits
<1> QED  BY <1>2, <1>3, <1>4 DEF AttendInv

(* One review goes a step on, and settles on what fits.                    *)
LEMMA ReviewKeeps ==
  ASSUME HeldRepliesAssumption, Types, AttendInv, NEW r \in Reviewers,
         UNCHANGED <<mail, inbox, own, drafts>>, settled \subseteq settled',
         \A x \in Reviewers : x # r => rv'[x] = rv[x] /\ (link'.holder = x => link.holder = x),
         link'.rev = link.rev, link'.due => link.due, link.due => link'.due \/ Kept',
         rv'[r].pc # "idle" => rv'[r].rev \in 1 .. link.rev,
         link'.holder = r /\ rv'[r].rev = link.rev => Fits(rv'[r])
  PROVE  AttendInv'
<1>1. Newest' = Newest
  BY NewestFacts
<1>2. Kept => Kept'
  <2>1. own.state = "human" => own'.state = "human"
    OBVIOUS
  <2> QED  BY <2>1, KeptStays
<1>3. MailInv' /\ OpenInv'
  BY DEF AttendInv, MailInv, OpenInv
<1>4. RevInv'
  BY DEF AttendInv, RevInv
<1>5. DueInv' /\ DoneInv'
  BY <1>2 DEF AttendInv, DueInv, DoneInv
<1>6. HeldInv'
  <2> SUFFICES ASSUME NEW x \in Reviewers, link'.holder = x, rv'[x].rev = link'.rev
               PROVE  Fits(rv[x])'
    BY DEF HeldInv
  <2>1. Fits(rv'[x])
    BY DEF AttendInv, HeldInv
  <2> QED  BY <1>1, <1>2, <2>1 DEF Fits
<1> QED  BY <1>3, <1>4, <1>5, <1>6 DEF AttendInv

(* A new revision is due, without a draft, and no review has it.           *)
LEMMA ScheduleKeeps ==
  ASSUME HeldRepliesAssumption, Types, AttendInv, MailInv', OpenInv', link.rev < MaxRev,
         NEW n, link' = Scheduled(link, n), drafts' = drafts,
         \A x \in Reviewers : rv'[x].pc # "idle" => rv[x].pc # "idle" /\ rv'[x].rev = rv[x].rev
  PROVE  AttendInv'
<1>1. link'.rev = link.rev + 1 /\ link'.due /\ link.rev \in 0 .. MaxRev /\ MaxRev \in Nat
  BY Bounds DEF Scheduled, Types, Link
<1>2. RevInv'
  <2>1. link'.rev \in Revs
    BY <1>1 DEF Revs
  <2>2. \A x \in Reviewers : rv'[x].pc # "idle" => rv'[x].rev \in 1 .. link'.rev
    BY <1>1 DEF AttendInv, RevInv
  <2>3. \A r \in Revs : drafts'[r].state # "none" => r <= link'.rev
    BY <1>1 DEF AttendInv, RevInv, Revs
  <2> QED  BY <2>1, <2>2, <2>3 DEF RevInv
<1>3. DueInv'
  BY <1>1 DEF DueInv
<1>4. DoneInv'
  BY <1>1 DEF AttendInv, RevInv, DoneInv, Revs
<1>5. HeldInv'
  <2> SUFFICES ASSUME NEW x \in Reviewers, rv'[x].rev = link'.rev, rv'[x].pc # "idle"
               PROVE  FALSE
    BY DEF HeldInv, Fits
  <2>1. rv[x].rev \in 1 .. link.rev /\ rv'[x].rev = rv[x].rev
    BY DEF AttendInv, RevInv
  <2> QED  BY <1>1, <2>1
<1> QED  BY <1>2, <1>3, <1>4, <1>5 DEF AttendInv

-----------------------------------------------------------------------------
(* What mail does to it.                                                   *)

(* A delivery that moves on before its message is recorded.                *)
LEMMA DeliveryKeeps ==
  ASSUME HeldRepliesAssumption, Types, AttendInv, NEW m \in Mails,
         mail[m].phase \in {"none", "accepted"}, MailInv',
         \A k \in Mails : k # m => mail'[k] = mail[k],
         UNCHANGED <<own, inbox, link, drafts, rv, settled>>
  PROVE  AttendInv'
<1>1. Newest # 0 => Newest \in Mails /\ Newest # m
  BY NewestFacts DEF AttendInv, MailInv
<1>2. Kept => Kept'
  <2>1. Newest # 0 => mail'[Newest] = mail[Newest]
    BY <1>1
  <2> QED  BY <2>1, KeptStays
<1>3. OpenInv'
  BY DEF AttendInv, OpenInv
<1> QED  BY <1>2, <1>3, SteadyKeeps

(* A message accepted, dropped or resolved is not in the inbox yet.        *)
LEMMA AttendDelivery ==
  ASSUME HeldRepliesAssumption, Types, AttendInv, NEW m \in Mails,
         Receive(m) \/ Drop(m) \/ Resolve(m)
  PROVE  AttendInv'
<1>1. mail[m].phase \in {"none", "accepted"} /\ mail[m] \in Delivery
  BY DEF Receive, Drop, Resolve, Types
<1>2. PICK d \in Delivery : /\ mail' = [mail EXCEPT ![m] = d]
                            /\ d.phase = "resolved" => d.disp # "none"
  <2>1. CASE Receive(m)
    <3> DEFINE d == [mail[m] EXCEPT !.phase = "accepted", !.accepted = PolicyVersion]
    <3>1. PolicyVersion \in Nat
      BY Bounds DEF Types
    <3>2. d \in Delivery /\ d.phase = "accepted"
      BY <1>1, <3>1 DEF Delivery
    <3>3. mail' = [mail EXCEPT ![m] = d]
      BY <2>1 DEF Receive, Types
    <3> HIDE DEF d
    <3> QED  BY <3>2, <3>3
  <2>2. CASE Drop(m)
    <3> DEFINE d == [mail[m] EXCEPT !.phase = "dropped"]
    <3>1. d \in Delivery /\ d.phase = "dropped"
      BY <1>1 DEF Delivery
    <3>2. mail' = [mail EXCEPT ![m] = d]
      BY <2>2 DEF Drop, Types
    <3> HIDE DEF d
    <3> QED  BY <3>1, <3>2
  <2>3. CASE Resolve(m)
    <3>1. PICK disp \in Dispositions(m) :
            mail' = [mail EXCEPT ![m].phase = "resolved", ![m].disp = disp]
      BY <2>3 DEF Resolve
    <3>2. disp \in {"review", "handoff", "human_owned"}
      BY DEF Dispositions
    <3> DEFINE d == [mail[m] EXCEPT !.phase = "resolved", !.disp = disp]
    <3>3. d \in Delivery /\ d.disp = disp
      BY <1>1, <3>2 DEF Delivery
    <3>4. mail' = [mail EXCEPT ![m] = d]
      BY <3>1 DEF Types
    <3> HIDE DEF d
    <3> QED  BY <3>2, <3>3, <3>4
  <2> QED  BY <2>1, <2>2, <2>3
<1>3. mail'[m] = d /\ \A k \in Mails : k # m => mail'[k] = mail[k]
  BY <1>2 DEF Types
<1>4. inbox' = inbox
  BY DEF Receive, Drop, Resolve
<1>5. MailInv'
  <2>1. \A i \in DOMAIN inbox : inbox[i] \in Mails
    BY DEF Types
  <2>2. \A i \in DOMAIN inbox : mail'[inbox[i]].phase \in {"ingested", "done"}
    BY <1>1, <1>3, <2>1 DEF AttendInv, MailInv
  <2>3. \A k \in Mails : mail'[k].phase = "resolved" => mail'[k].disp # "none"
    BY <1>2, <1>3 DEF AttendInv, MailInv
  <2> QED  BY <1>4, <2>2, <2>3 DEF MailInv
<1> QED  BY <1>1, <1>3, <1>5, DeliveryKeeps DEF Receive, Drop, Resolve, Others

(* Whoever supersedes, replaces or passes drafts over opens none of them.  *)
LEMMA DraftsStayOpen ==
  ASSUME DraftsOK(drafts), OpenInv,
         \/ drafts' = drafts \/ drafts' = Passed(drafts)
         \/ \E why \in Reasons : drafts' = Supersede(drafts, why) \/ drafts' = Replace(drafts, why)
  PROVE  OpenInv' /\ \A r \in Revs : (drafts'[r].state = "none") <=> (drafts[r].state = "none")
<1> SUFFICES ASSUME NEW r \in Revs
             PROVE  /\ drafts'[r].state = "pending" => drafts'[r].open
                    /\ drafts'[r].state = "none" => ~drafts'[r].open
                    /\ (drafts'[r].state = "none") <=> (drafts[r].state = "none")
  BY DEF OpenInv
<1>1. drafts[r] \in Draft /\ (drafts[r].state = "pending" => drafts[r].open)
      /\ (drafts[r].state = "none" => ~drafts[r].open)
  BY DEF DraftsOK, OpenInv
<1>2. CASE drafts' = drafts
  BY <1>1, <1>2
<1>3. CASE drafts' = Passed(drafts)
  <2>1. drafts'[r] = IF Live(drafts[r]) THEN [drafts[r] EXCEPT !.passed = TRUE] ELSE drafts[r]
    BY <1>3 DEF Passed
  <2> QED  BY <1>1, <2>1 DEF Draft
<1>4. ASSUME NEW why \in Reasons
      PROVE  LET s == Supersede(drafts, why)[r] IN
             /\ s \in Draft /\ s.state # "pending"
             /\ s.state = "none" => ~s.open
             /\ (s.state = "none") <=> (drafts[r].state = "none")
  <2>1. CASE Live(drafts[r])
    <3>1. Supersede(drafts, why)[r] =
            [drafts[r] EXCEPT !.state = "superseded", !.why = why, !.open = FALSE]
      BY <2>1 DEF Supersede
    <3> QED  BY <1>1, <2>1, <3>1 DEF Draft, Live, LiveStates, Reasons
  <2>2. CASE ~Live(drafts[r])
    <3>1. Supersede(drafts, why)[r] = drafts[r]
      BY <2>2 DEF Supersede
    <3> QED  BY <1>1, <2>2, <3>1 DEF Live, LiveStates
  <2> QED  BY <2>1, <2>2
<1>5. ASSUME NEW why \in Reasons, drafts' = Supersede(drafts, why)
      PROVE  /\ drafts'[r].state = "pending" => drafts'[r].open
             /\ drafts'[r].state = "none" => ~drafts'[r].open
             /\ (drafts'[r].state = "none") <=> (drafts[r].state = "none")
  BY <1>4, <1>5
<1>6. ASSUME NEW why \in Reasons, drafts' = Replace(drafts, why)
      PROVE  /\ drafts'[r].state = "pending" => drafts'[r].open
             /\ drafts'[r].state = "none" => ~drafts'[r].open
             /\ (drafts'[r].state = "none") <=> (drafts[r].state = "none")
  <2> DEFINE s == Supersede(drafts, why)[r]
  <2>1. drafts'[r] = [s EXCEPT !.open = FALSE]
    BY <1>6 DEF Replace
  <2>2. s \in Draft /\ s.state # "pending" /\ ((s.state = "none") <=> (drafts[r].state = "none"))
    BY <1>4
  <2> HIDE DEF s
  <2> QED  BY <2>1, <2>2 DEF Draft
<1> QED  BY <1>2, <1>3, <1>5, <1>6

(* Drafts without a new revision among them keep the revisions in order.   *)
LEMMA RevisionsStay ==
  ASSUME AttendInv, link' = link, rv' = rv,
         \A r \in Revs : drafts'[r].state # "none" => drafts[r].state # "none"
  PROVE  RevInv'
BY DEF AttendInv, RevInv

(* A recorded message is to be reviewed, or a person's.                    *)
LEMMA AttendIngest ==
  ASSUME HeldRepliesAssumption, Types, AttendInv, NEW m \in Mails, Ingest(m)
  PROVE  AttendInv'
<1>1. /\ mail[m] \in Delivery /\ mail[m].phase = "resolved" /\ mail[m].disp # "none"
      /\ inbox \in Seq(Mails) /\ Len(inbox) \in Nat
  BY DEF Ingest, Types, AttendInv, MailInv
<1>2. /\ mail'[m].phase = "ingested" /\ mail'[m].disp = mail[m].disp
      /\ \A k \in Mails : k # m => mail'[k] = mail[k]
  BY <1>1 DEF Ingest, Types, Delivery
<1>3. /\ inbox' = Append(inbox, m) /\ Len(inbox') = Len(inbox) + 1
      /\ DOMAIN inbox' = 1 .. Len(inbox) + 1 /\ inbox'[Len(inbox) + 1] = m
      /\ \A i \in 1 .. Len(inbox) : inbox'[i] = inbox[i] /\ inbox[i] \in Mails
  BY <1>1 DEF Ingest
<1>4. MailInv'
  <2>1. ASSUME NEW i \in DOMAIN inbox' PROVE mail'[inbox'[i]].phase \in {"ingested", "done"}
    <3>1. CASE i = Len(inbox) + 1
      BY <1>2, <1>3, <3>1
    <3>2. CASE i # Len(inbox) + 1
      <4>1. i \in 1 .. Len(inbox) /\ i \in DOMAIN inbox
        BY <1>1, <1>3, <2>1, <3>2
      <4>2. mail[inbox[i]].phase \in {"ingested", "done"} /\ inbox[i] # m
        BY <1>1, <4>1 DEF AttendInv, MailInv
      <4> QED  BY <1>2, <1>3, <4>1, <4>2
    <3> QED  BY <3>1, <3>2
  <2>2. \A k \in Mails : mail'[k].phase = "resolved" => mail'[k].disp # "none"
    BY <1>2 DEF AttendInv, MailInv
  <2> QED  BY <2>1, <2>2 DEF MailInv
<1>5. OpenInv' /\ \A r \in Revs : (drafts'[r].state = "none") <=> (drafts[r].state = "none")
  BY DraftsStayOpen DEF Ingest, Types, AttendInv, Reasons
<1>6. RevInv'
  BY <1>5, RevisionsStay DEF Ingest
<1>7. Kept'
  <2>1. Newest' = m
    BY <1>1, <1>3 DEF Newest
  <2>2. mail[m].disp \in {"review", "handoff", "human_owned"}
    BY <1>1 DEF Delivery
  <2>3. mail[m].disp = "handoff" => own'.state = "human"
    BY HandedOffOwnership DEF Ingest, SettledOwnership
  <2> QED  BY <1>2, <2>1, <2>2, <2>3 DEF Kept, Covered
<1> QED  BY <1>4, <1>5, <1>6, <1>7, KeptSuffices

(* A message recorded again hands the conversation to a person, or changes *)
(* nothing.                                                                *)
LEMMA AttendIngestAgain ==
  ASSUME HeldRepliesAssumption, Types, AttendInv, NEW m \in Mails, IngestAgain(m)
  PROVE  AttendInv'
<1>1. /\ mail' = mail /\ inbox' = inbox /\ link' = link /\ rv' = rv /\ settled' = settled
      /\ own' = own \/ own'.state = "human"
      /\ drafts' = drafts \/ drafts' = Passed(drafts)
      /\ own' = own => drafts' = drafts
  BY HandedOffOwnership DEF IngestAgain, SettledOwnership, Others
<1>2. MailInv'
  BY <1>1 DEF AttendInv, MailInv
<1>3. OpenInv' /\ \A r \in Revs : (drafts'[r].state = "none") <=> (drafts[r].state = "none")
  BY <1>1, DraftsStayOpen DEF Types, AttendInv
<1>4. RevInv'
  BY <1>1, <1>3, RevisionsStay
<1>5. CASE own'.state = "human"
  BY <1>2, <1>3, <1>4, <1>5, PersonKeeps, KeptSuffices
<1>6. CASE own' = own /\ drafts' = drafts /\ own'.state # "human"
  <2>1. Kept => Kept'
    BY <1>1, <1>6, KeptStays
  <2> QED  BY <1>1, <1>2, <1>3, <1>6, <2>1, SteadyKeeps
<1> QED  BY <1>1, <1>5, <1>6

(* The review a recorded message is to have is due once the thread is      *)
(* indexed.                                                                *)
LEMMA AttendIndex ==
  ASSUME HeldRepliesAssumption, Types, AttendInv, NEW m \in Mails, Index(m)
  PROVE  AttendInv'
<1>1. /\ mail[m] \in Delivery /\ mail[m].phase = "ingested"
      /\ UNCHANGED <<own, inbox, drafts, rv, settled>> /\ link.rev < MaxRev
  BY DEF Index, Others, Types
<1>2. /\ mail'[m].phase = "done" /\ mail'[m].disp = mail[m].disp
      /\ \A k \in Mails : k # m => mail'[k] = mail[k]
  BY <1>1 DEF Index, Types, Delivery
<1>3. MailInv'
  <2>1. \A i \in DOMAIN inbox : inbox[i] \in Mails
    BY DEF Types
  <2> QED  BY <1>1, <1>2, <2>1 DEF AttendInv, MailInv
<1>4. OpenInv'
  BY <1>1 DEF AttendInv, OpenInv
<1>5. CASE mail[m].disp = "review"
  BY <1>1, <1>3, <1>4, <1>5, ScheduleKeeps DEF Index
<1>6. CASE mail[m].disp # "review"
  <2>1. link' = link
    BY <1>6 DEF Index
  <2>2. Kept => Kept'
    <3> SUFFICES ASSUME Kept PROVE Kept'
      OBVIOUS
    <3>1. CASE own.state = "human"
      BY <1>1, <3>1, PersonKeeps
    <3>2. CASE own.state # "human" /\ (Newest = 0 \/ Newest # m)
      <4>1. Newest # 0 => mail'[Newest] = mail[Newest]
        BY <1>2, <3>2, NewestFacts
      <4> QED  BY <1>1, <3>2, <4>1, KeptStays
    <3>3. CASE own.state # "human" /\ Newest = m /\ Newest # 0
      <4>1. Newest' = m
        BY <1>1, <3>3, NewestFacts
      <4> QED  BY <1>1, <1>2, <1>6, <3>3, <4>1
               DEF Kept, Covered, Answering, Overtaken, Live
    <3> QED  BY <3>1, <3>2, <3>3
  <2> QED  BY <1>1, <1>3, <1>4, <2>1, <2>2, SteadyKeeps
<1> QED  BY <1>5, <1>6

-----------------------------------------------------------------------------
(* What the policy and the team do to it.                                  *)

(* Drafts that move without their message: nobody else moves, and none is  *)
(* dropped.                                                                *)
LEMMA DraftsMove ==
  ASSUME HeldRepliesAssumption, Types, AttendInv, OpenInv',
         UNCHANGED <<mail, inbox, own, link, rv>>, settled \subseteq settled',
         \A r \in Revs : drafts'[r].state # "none" => drafts[r].state # "none",
         \A r \in Revs : Answering(drafts[r]) \/ Overtaken(drafts[r]) =>
                 /\ Answering(drafts'[r]) \/ Overtaken(drafts'[r])
                 /\ drafts'[r].answers = drafts[r].answers
  PROVE  AttendInv'
<1>1. Kept => Kept'
  <2>1. CASE own.state = "human"
    BY <2>1, PersonKeeps
  <2>2. CASE own.state # "human"
    BY <2>2, KeptStays
  <2> QED  BY <2>1, <2>2
<1>2. MailInv'
  BY DEF AttendInv, MailInv
<1> QED  BY <1>1, <1>2, SteadyKeeps

(* A person has the conversation, or everything in it was handed back.     *)
LEMMA PersonMoves ==
  ASSUME HeldRepliesAssumption, Types, AttendInv, UNCHANGED <<mail, inbox, link, rv>>,
         \/ own'.state = "human"
         \/ \A i \in 1 .. Len(inbox) : inbox[i] \in settled',
         \/ drafts' = drafts \/ drafts' = Passed(drafts)
         \/ \E why \in Reasons : drafts' = Supersede(drafts, why) \/ drafts' = Replace(drafts, why)
  PROVE  AttendInv'
<1>1. OpenInv' /\ \A r \in Revs : (drafts'[r].state = "none") <=> (drafts[r].state = "none")
  BY DraftsStayOpen DEF Types, AttendInv
<1>2. RevInv'
  BY <1>1, RevisionsStay
<1>3. MailInv'
  BY DEF AttendInv, MailInv
<1> QED  BY <1>1, <1>2, <1>3, PersonKeeps, KeptSuffices

(* Drafts a policy change supersedes leave the conversation to a person.   *)
LEMMA AttendSuperseded ==
  ASSUME HeldRepliesAssumption, Types, AttendInv, SupersedeAndHandOff, Email
  PROVE  AttendInv'
<1>1. UNCHANGED <<mail, inbox, link, rv, settled>> /\ "policy_changed" \in Reasons
  BY DEF Email, Reasons
<1>2. CASE LiveDrafts # {}
  <2>1. own'.state = "human"
    BY <1>2, HandedOffOwnership DEF SupersedeAndHandOff
  <2> QED  BY <1>1, <2>1, PersonMoves DEF SupersedeAndHandOff
<1>3. CASE LiveDrafts = {}
  <2>1. own' = own /\ \A r \in Revs : drafts'[r] = drafts[r]
    BY <1>3 DEF SupersedeAndHandOff, Supersede, LiveDrafts
  <2>2. OpenInv'
    BY <2>1 DEF AttendInv, OpenInv
  <2> QED  BY <1>1, <2>1, <2>2, DraftsMove
<1> QED  BY <1>2, <1>3

(* Drafts a policy change keeps wait for a teammate.                       *)
LEMMA AttendPolicy ==
  ASSUME HeldRepliesAssumption, Types, AttendInv,
         \/ RemoveMailbox
         \/ \E mode \in Modes, only \in BOOLEAN : ChangePolicy(mode, only)
  PROVE  AttendInv'
<1>1. Email
  BY DEF RemoveMailbox, ChangePolicy
<1>2. CASE SupersedeAndHandOff
  BY <1>1, <1>2, AttendSuperseded
<1>3. CASE drafts' = HeldForReview(drafts) /\ own' = own
  <2>1. ASSUME NEW r \in Revs
        PROVE  /\ drafts'[r].state = "pending" => drafts'[r].open
               /\ drafts'[r].state = "none" => ~drafts'[r].open
               /\ drafts'[r].state # "none" => drafts[r].state # "none"
               /\ Answering(drafts[r]) \/ Overtaken(drafts[r]) =>
                    /\ Answering(drafts'[r]) \/ Overtaken(drafts'[r])
                    /\ drafts'[r].answers = drafts[r].answers
    <3>1. drafts[r] \in Draft /\ (drafts[r].state = "pending" => drafts[r].open)
          /\ (drafts[r].state = "none" => ~drafts[r].open)
      BY DEF Types, DraftsOK, AttendInv, OpenInv
    <3>2. CASE Live(drafts[r])
      <4>1. drafts'[r] = [drafts[r] EXCEPT !.state = "pending", !.pol = PolicyVersion + 1, !.open = TRUE]
        BY <1>3, <3>2 DEF HeldForReview
      <4> QED  BY <3>1, <3>2, <4>1 DEF Draft, Answering, Live, LiveStates
    <3>3. CASE ~Live(drafts[r])
      <4>1. drafts'[r] = drafts[r]
        BY <1>3, <3>3 DEF HeldForReview
      <4> QED  BY <3>1, <4>1
    <3> QED  BY <3>2, <3>3
  <2>2. OpenInv'
    BY <2>1 DEF OpenInv
  <2> QED  BY <1>1, <1>3, <2>1, <2>2, DraftsMove DEF Email
<1> QED  BY <1>2, <1>3 DEF RemoveMailbox, ChangePolicy

(* A claim, a reply and a transfer leave the conversation to a person, a   *)
(* hand-back settles what is in it.                                        *)
LEMMA AttendTeam ==
  ASSUME HeldRepliesAssumption, Types, AttendInv, NEW t \in Teammates, NEW u \in Teammates,
         TakeOver(t) \/ HandBack(t) \/ Reply(t) \/ Transfer(t, u)
  PROVE  AttendInv'
<1>1. UNCHANGED <<mail, inbox, link, rv>>
  BY DEF TakeOver, HandBack, Reply, Transfer, Rest
<1>2. \/ drafts' = drafts
      \/ \E why \in Reasons : drafts' = Replace(drafts, why)
  BY DEF TakeOver, HandBack, Reply, Transfer, Reasons
<1>3. \/ own'.state = "human"
      \/ \A i \in 1 .. Len(inbox) : inbox[i] \in settled'
  <2>1. CASE TakeOver(t)
    BY <2>1, ClaimedOwnership DEF TakeOver
  <2>2. CASE HandBack(t)
    BY <2>2 DEF HandBack
  <2>3. CASE Reply(t)
    <3>1. own.owner = t => own.state = "human"
      BY HeldRepliesAssumption, OwnershipFields DEF Types, HeldRepliesAssumption
    <3> QED  BY <2>3, <3>1, ClaimedOwnership DEF Reply
  <2>4. CASE Transfer(t, u)
    <3>1. own \in Ownership /\ own.state = "human"
      BY <2>4 DEF Transfer, Types
    <3> QED  BY <2>4, <3>1 DEF Transfer, Ownership
  <2> QED  BY <2>1, <2>2, <2>3, <2>4
<1> QED  BY <1>1, <1>2, <1>3, PersonMoves

(* A draft released or sent answers its message, one discarded or returned *)
(* asks a teammate to.                                                     *)
LEMMA AttendDraft ==
  ASSUME HeldRepliesAssumption, Types, AttendInv, NEW r \in Revs,
         Release(r) \/ Discard(r) \/ Dispatch(r)
  PROVE  AttendInv'
<1>1. /\ drafts[r] \in Draft /\ Live(drafts[r])
      /\ drafts[r].state = "pending" => drafts[r].open
      /\ drafts \in [Revs -> Draft] /\ drafts[r].state # "none"
  BY DEF Release, Discard, Dispatch, Types, DraftsOK, Live, LiveStates, AttendInv, OpenInv
<1>2. UNCHANGED <<mail, inbox, own, link, rv, settled>>
  BY DEF Release, Discard, Dispatch, Rest
<1>3. PICK d \in Draft : /\ drafts' = [drafts EXCEPT ![r] = d] /\ Answering(d)
                         /\ d.answers = drafts[r].answers
                         /\ d.state = "pending" => d.open
                         /\ d.state # "none"
  <2>1. CASE Release(r)
    <3> DEFINE d == [drafts[r] EXCEPT !.state = "released", !.open = FALSE]
    <3>1. /\ d \in Draft /\ d.state = "released" /\ d.answers = drafts[r].answers
          /\ drafts' = [drafts EXCEPT ![r] = d]
      BY <1>1, <2>1 DEF Release, Draft
    <3> HIDE DEF d
    <3> QED  BY <3>1 DEF Answering
  <2>2. CASE Discard(r)
    <3> DEFINE d == [drafts[r] EXCEPT !.state = "discarded"]
    <3>1. /\ d \in Draft /\ d.state = "discarded" /\ d.answers = drafts[r].answers /\ d.open
          /\ drafts' = [drafts EXCEPT ![r] = d]
      BY <1>1, <2>2 DEF Discard, Draft
    <3> HIDE DEF d
    <3> QED  BY <3>1 DEF Answering
  <2>3. CASE Dispatch(r)
    <3>1. \/ drafts' = [drafts EXCEPT ![r] = Dispatched(drafts[r])]
          \/ drafts' = [drafts EXCEPT ![r] = Returned(drafts[r])]
      BY <2>3 DEF Dispatch
    <3>2. /\ Dispatched(drafts[r]) \in Draft /\ Dispatched(drafts[r]).state = "auto_released"
          /\ Dispatched(drafts[r]).answers = drafts[r].answers
      BY <1>1 DEF Dispatched, Draft
    <3>3. /\ Returned(drafts[r]) \in Draft /\ Returned(drafts[r]).state = "pending"
          /\ Returned(drafts[r]).answers = drafts[r].answers /\ Returned(drafts[r]).open
      BY <1>1 DEF Returned, Draft, LiveStates
    <3> QED  BY <3>1, <3>2, <3>3 DEF Answering
  <2> QED  BY <2>1, <2>2, <2>3
<1>4. drafts'[r] = d /\ \A q \in Revs : q # r => drafts'[q] = drafts[q]
  BY <1>1, <1>3
<1>5. OpenInv'
  BY <1>3, <1>4 DEF AttendInv, OpenInv
<1>6. ASSUME NEW q \in Revs
      PROVE  /\ drafts'[q].state # "none" => drafts[q].state # "none"
             /\ Answering(drafts[q]) \/ Overtaken(drafts[q]) =>
                    /\ Answering(drafts'[q]) \/ Overtaken(drafts'[q])
                    /\ drafts'[q].answers = drafts[q].answers
  BY <1>1, <1>3, <1>4
<1> QED  BY <1>2, <1>5, <1>6, DraftsMove

-----------------------------------------------------------------------------
(* What a review does to it.                                               *)

(* Where a review stands once it settled or left.                          *)
LEMMA SettledReview ==
  ASSUME Types, NEW r \in Reviewers, NEW pc, Settle(r, pc)
  PROVE  /\ rv'[r].pc = pc /\ rv'[r].rev = rv[r].rev
         /\ \A x \in Reviewers : x # r => rv'[x] = rv[x]
<1> DEFINE v == [Idle EXCEPT !.pc = pc, !.rev = rv[r].rev, !.attempt = rv[r].attempt]
<1>1. v.pc = pc /\ v.rev = rv[r].rev
  BY DEF Idle
<1>2. rv' = [rv EXCEPT ![r] = v] /\ rv \in [Reviewers -> Review]
  BY DEF Settle, Types
<1> HIDE DEF v
<1> QED  BY <1>1, <1>2

(* A review that left is idle.                                             *)
LEMMA LeftReview ==
  ASSUME Types, NEW r \in Reviewers, Leave(r)
  PROVE  rv'[r].pc = "idle" /\ \A x \in Reviewers : x # r => rv'[x] = rv[x]
<1>1. rv' = [rv EXCEPT ![r] = Idle] /\ rv \in [Reviewers -> Review]
  BY DEF Leave, Types
<1> QED  BY <1>1, IdleReview

(* A review that leaves, hands off or fails promises nothing, and one that *)
(* finishes on the current revision found the newest message kept.         *)
LEMMA ReviewSettles ==
  ASSUME HeldRepliesAssumption, Types, AttendInv, NEW r \in Reviewers, rv[r].pc # "idle",
         UNCHANGED <<mail, inbox, own, drafts, settled>>,
         \A x \in Reviewers : link'.holder = x => link.holder = x,
         link'.rev = link.rev, link'.due => link.due, link.due => link'.due \/ Kept,
         \/ Leave(r) \/ Settle(r, "handoff") \/ Settle(r, "failed")
         \/ /\ Settle(r, "finish")
            /\ link.holder = r /\ rv[r].rev = link.rev => Kept
  PROVE  AttendInv'
<1>1. Kept => Kept'
  BY KeptStays, PersonKeeps
<1>2. /\ \A x \in Reviewers : x # r => rv'[x] = rv[x]
      /\ rv'[r].pc # "idle" => rv'[r].rev = rv[r].rev
      /\ rv'[r].pc \in {"idle", "handoff", "failed", "finish"}
      /\ rv'[r].pc = "finish" /\ link.holder = r /\ rv[r].rev = link.rev => Kept
  <2>1. CASE Leave(r)
    BY <2>1, LeftReview
  <2>2. CASE Settle(r, "handoff") \/ Settle(r, "failed")
    BY <2>2, SettledReview
  <2>3. CASE Settle(r, "finish") /\ (link.holder = r /\ rv[r].rev = link.rev => Kept)
    BY <2>3, SettledReview
  <2> QED  BY <2>1, <2>2, <2>3
<1>3. rv[r].rev \in 1 .. link.rev
  BY DEF AttendInv, RevInv
<1>4. link'.holder = r /\ rv'[r].rev = link.rev => Fits(rv'[r])
  BY <1>2 DEF Fits
<1> QED  BY <1>1, <1>2, <1>3, <1>4, ReviewKeeps

(* A claim is one of a revision that is due.                               *)
LEMMA AttendClaim ==
  ASSUME HeldRepliesAssumption, Types, AttendInv, NEW r \in Reviewers, Claim(r)
  PROVE  AttendInv'
<1> DEFINE v == [Idle EXCEPT !.pc = "claimed", !.rev = link.rev,
                              !.attempt = link.attempts + 1, !.accepted = link.accepted]
<1>1. link \in Link /\ link.due /\ link.rev \in Revs /\ MaxRev \in Nat
  BY Bounds DEF Claim, Types, AttendInv, RevInv
<1>2. v.pc = "claimed" /\ v.rev = link.rev
  BY DEF Idle
<1>3. rv' = [rv EXCEPT ![r] = v] /\ rv \in [Reviewers -> Review]
  BY DEF Claim, Types
<1> HIDE DEF v
<1>4. rv'[r] = v /\ \A x \in Reviewers : x # r => rv'[x] = rv[x]
  BY <1>3
<1>5. link'.rev = link.rev /\ link'.due = link.due /\ link'.holder = r
  BY <1>1 DEF Claim, Link
<1>6. Fits(rv'[r]) /\ rv'[r].rev \in 1 .. link.rev
  BY <1>1, <1>2, <1>4 DEF Fits, Revs
<1> QED  BY <1>4, <1>5, <1>6, ReviewKeeps DEF Claim, Thread

(* A review that keeps its claim.                                          *)
LEMMA ReviewReads ==
  ASSUME HeldRepliesAssumption, Types, AttendInv, NEW r \in Reviewers, rv[r].pc # "idle",
         UNCHANGED <<mail, inbox, own, link, drafts, settled>>,
         NEW v, rv' = [rv EXCEPT ![r] = v], v.rev = rv[r].rev,
         link.holder = r /\ rv[r].rev = link.rev => Fits(v)
  PROVE  AttendInv'
<1>1. rv'[r] = v /\ \A x \in Reviewers : x # r => rv'[x] = rv[x]
  BY DEF Types
<1>2. rv[r].rev \in 1 .. link.rev
  BY DEF AttendInv, RevInv
<1> QED  BY <1>1, <1>2, ReviewKeeps

(* A revision with a result has left the message to someone.               *)
LEMMA DraftedIsKept ==
  ASSUME HeldRepliesAssumption, Types, AttendInv, NEW r \in Reviewers, rv[r].pc # "idle",
         rv[r].rev = link.rev, drafts[rv[r].rev].state # "none"
  PROVE  Kept
<1>1. rv[r].rev \in 1 .. link.rev /\ link.rev \in 0 .. MaxRev /\ MaxRev \in Nat
  BY Bounds DEF AttendInv, RevInv, Types, Link
<1>2. rv[r].rev \in Revs
  BY <1>1 DEF Revs
<1> QED  BY <1>2 DEF AttendInv, DoneInv

(* A review that reads the mailbox goes on, has its result or hands off.    *)
LEMMA AttendReadMailbox ==
  ASSUME HeldRepliesAssumption, Types, AttendInv, NEW r \in Reviewers, ReadMailbox(r)
  PROVE  AttendInv'
<1> DEFINE mode == Narrower(policies[rv[r].accepted], Mode)
           v == [rv[r] EXCEPT !.pc = "conversation", !.pol = PolicyVersion, !.mode = mode]
<1>1. rv[r].pc = "claimed" /\ rv[r] \in Review
      /\ UNCHANGED <<mail, inbox, own, link, drafts, settled>>
  BY DEF ReadMailbox, At, Types, Thread
<1>2. CASE drafts[rv[r].rev].state # "none"
  <2>1. rv[r].rev = link.rev => Kept
    BY <1>1, <1>2, DraftedIsKept
  <2> QED  BY <1>1, <1>2, <2>1, ReviewSettles DEF ReadMailbox
<1>3. CASE Settle(r, "handoff")
  BY <1>1, <1>3, ReviewSettles
<1>4. CASE rv' = [rv EXCEPT ![r].pc = "conversation", ![r].pol = PolicyVersion, ![r].mode = mode]
  <2>1. v.pc = "conversation" /\ v.rev = rv[r].rev
    BY <1>1 DEF Review
  <2>2. rv' = [rv EXCEPT ![r] = v]
    BY <1>4 DEF Types
  <2> HIDE DEF v
  <2>3. Fits(v)
    BY <2>1 DEF Fits
  <2> QED  BY <1>1, <2>1, <2>2, <2>3, ReviewReads
<1> QED  BY <1>2, <1>3, <1>4 DEF ReadMailbox

(* The review answers the newest message there is as it starts.            *)
LEMMA AttendReadConversation ==
  ASSUME HeldRepliesAssumption, Types, AttendInv, NEW r \in Reviewers, ReadConversation(r)
  PROVE  AttendInv'
<1> DEFINE v == [rv[r] EXCEPT !.pc = "turn", !.answers = Newest]
<1>1. rv[r].pc = "conversation" /\ rv[r] \in Review
      /\ UNCHANGED <<mail, inbox, own, link, drafts, settled>>
  BY DEF ReadConversation, At, Types, Thread
<1>2. CASE own.state = "human" /\ Settle(r, "finish")
  <2>1. Kept
    BY <1>2 DEF Kept, Covered
  <2> QED  BY <1>1, <1>2, <2>1, ReviewSettles
<1>3. CASE Leave(r) \/ Settle(r, "handoff")
  BY <1>1, <1>3, ReviewSettles
<1>4. CASE rv' = [rv EXCEPT ![r].pc = "turn", ![r].answers = Newest]
  <2>1. v.pc = "turn" /\ v.rev = rv[r].rev /\ v.answers = Newest
    BY <1>1 DEF Review
  <2>2. rv' = [rv EXCEPT ![r] = v]
    BY <1>4 DEF Types
  <2> HIDE DEF v
  <2>3. Fits(v)
    BY <2>1 DEF Fits
  <2> QED  BY <1>1, <2>1, <2>2, <2>3, ReviewReads
<1> QED  BY <1>2, <1>3, <1>4 DEF ReadConversation

(* What letting a claim go and completing a review leave of the link.      *)
LEMMA LinkFields ==
  ASSUME Types
  PROVE  /\ Unheld(link).rev = link.rev /\ Unheld(link).due = link.due
         /\ Unheld(link).holder = NoOne
         /\ Completed.rev = link.rev /\ ~Completed.due /\ Completed.holder = NoOne
         /\ [Unheld(link) EXCEPT !.attempts = 0].rev = link.rev
         /\ [Unheld(link) EXCEPT !.attempts = 0].due = link.due
         /\ [Unheld(link) EXCEPT !.attempts = 0].holder = NoOne
BY DEF Types, Link, Unheld, Completed

(* Triage settles the message it set aside; if newer mail came, that is    *)
(* kept by what its delivery left it to, or its revision overtook this.    *)
LEMMA AttendSetAside ==
  ASSUME HeldRepliesAssumption, Types, AttendInv, NEW r \in Reviewers, SetAside(r)
  PROVE  AttendInv'
<1>1. rv[r].pc = "turn" /\ UNCHANGED <<mail, inbox, own, drafts>>
  BY DEF SetAside, At
<1>2. CASE Completable(r)
  <2>1. link' = Completed /\ settled' = settled \cup {rv[r].answers} /\ Leave(r)
    BY <1>2 DEF SetAside
  <2>2. rv[r].answers = Newest \/ Kept
    BY <1>1, <1>2 DEF Completable, Holds, AttendInv, HeldInv, Fits
  <2>3. Kept'
    <3>1. CASE Kept
      BY <1>1, <2>1, <3>1, KeptStays, PersonKeeps
    <3>2. CASE rv[r].answers = Newest
      BY <1>1, <2>1, <3>2, NewestFacts DEF Kept, Covered
    <3> QED  BY <2>2, <3>1, <3>2
  <2>4. /\ link'.rev = link.rev /\ ~link'.due /\ link'.holder = NoOne
        /\ rv'[r].pc = "idle" /\ \A x \in Reviewers : x # r => rv'[x] = rv[x]
    BY <2>1, LinkFields, LeftReview
  <2> QED  BY <1>1, <2>1, <2>3, <2>4, ReviewKeeps, HeldRepliesAssumption DEF HeldRepliesAssumption
<1>3. CASE ~Completable(r)
  <2>1. Settle(r, "finish") /\ link' = link /\ settled' = settled
    BY <1>3 DEF SetAside
  <2> QED  BY <1>1, <1>3, <2>1, ReviewSettles DEF Completable, Holds
<1> QED  BY <1>2, <1>3

(* The turn drafts under the ownership it reads.                           *)
LEMMA AttendTurn ==
  ASSUME HeldRepliesAssumption, Types, AttendInv, NEW r \in Reviewers, Turn(r)
  PROVE  AttendInv'
<1> DEFINE v == [rv[r] EXCEPT !.pc = "drafted", !.own = own.version]
<1>1. rv[r].pc = "turn" /\ rv[r] \in Review
      /\ UNCHANGED <<mail, inbox, own, link, drafts, settled>>
  BY DEF Turn, At, Types, Thread
<1>2. CASE own.state = "human" /\ Settle(r, "finish")
  <2>1. Kept
    BY <1>2 DEF Kept, Covered
  <2> QED  BY <1>1, <1>2, <2>1, ReviewSettles
<1>3. CASE Leave(r) \/ Settle(r, "handoff")
  BY <1>1, <1>3, ReviewSettles
<1>4. CASE rv' = [rv EXCEPT ![r].pc = "drafted", ![r].own = own.version]
  <2>1. /\ v.pc = "drafted" /\ v.rev = rv[r].rev /\ v.answers = rv[r].answers
        /\ v.own = own.version
    BY <1>1 DEF Review
  <2>2. rv' = [rv EXCEPT ![r] = v]
    BY <1>4 DEF Types
  <2> HIDE DEF v
  <2>3. link.holder = r /\ rv[r].rev = link.rev => Fits(v)
    BY <1>1, <2>1 DEF AttendInv, HeldInv, Fits
  <2> QED  BY <1>1, <2>1, <2>2, <2>3, ReviewReads
<1> QED  BY <1>2, <1>3, <1>4 DEF Turn

(* A failing review hands off or is put back.                              *)
LEMMA FailingSettles ==
  ASSUME NEW r \in Reviewers, Failing(r)
  PROVE  Settle(r, "handoff") \/ Settle(r, "failed")
BY DEF Failing

(* A result is recorded: it answers the newest message, or the policy      *)
(* moved under it, or the message was kept already.                        *)
LEMMA ResultKeeps ==
  ASSUME HeldRepliesAssumption, Types, AttendInv, NEW r \in Reviewers,
         rv[r].pc \in {"drafted", "hold"}, link.holder = r,
         UNCHANGED <<mail, inbox, own, link, settled>>,
         drafts[rv[r].rev].state = "none",
         NEW d \in Draft, drafts' = [drafts EXCEPT ![rv[r].rev] = d],
         d.state # "none", d.state = "pending" => d.open, d.answers = rv[r].answers,
         \/ Stale(rv[r]) = "none" /\ Live(d)
         \/ Stale(rv[r]) # "none" /\ d.why = Stale(rv[r]) /\ d.born,
         rv'[r].pc \in {"finish", "moved"}, rv'[r].rev = rv[r].rev,
         \A x \in Reviewers : x # r => rv'[x] = rv[x]
  PROVE  AttendInv'
<1> DEFINE ref == rv[r].rev
<1>1. ref \in 1 .. link.rev /\ link.rev \in 0 .. MaxRev /\ MaxRev \in Nat
  BY Bounds DEF AttendInv, RevInv, Types, Link
<1>2. ref \in Revs /\ ref <= link.rev /\ drafts \in [Revs -> Draft]
  BY <1>1 DEF Revs, Types, DraftsOK
<1>3. drafts'[ref] = d /\ \A q \in Revs : q # ref => drafts'[q] = drafts[q]
  BY <1>2
<1>4. drafts[ref].state = "none" /\ ~drafts[ref].open /\ drafts[ref].why = "none"
  BY <1>2 DEF AttendInv, OpenInv, Types, DraftsOK
<1> HIDE DEF ref
<1>5. Newest' = Newest
  BY NewestFacts
<1>6. Kept => Kept'
  <2>1. CASE own.state = "human"
    BY <2>1, PersonKeeps
  <2>2. CASE own.state # "human"
    <3>1. ~Answering(drafts[ref]) /\ ~Overtaken(drafts[ref])
      BY <1>4 DEF Answering, Overtaken, Live, LiveStates
    <3> QED  BY <1>3, <2>2, <3>1, KeptStays
  <2> QED  BY <2>1, <2>2
<1>7. ref = link.rev => Kept'
  <2> SUFFICES ASSUME ref = link.rev, ~Kept PROVE Kept'
    BY <1>6
  <2>1. rv[r].answers = Newest /\ rv[r].own = own.version
    BY DEF AttendInv, HeldInv, Fits, ref
  <2>2. Answering(d) \/ Overtaken(d)
    BY <2>1 DEF Stale, Answering, Overtaken
  <2>3. /\ drafts'[ref].answers = Newest'
        /\ Answering(drafts'[ref]) \/ Overtaken(drafts'[ref])
    BY <1>3, <1>5, <2>1, <2>2
  <2> QED  BY <1>2, <2>3 DEF Kept, Covered, Answering, Overtaken, Live
<1>8. MailInv' /\ OpenInv'
  BY <1>3 DEF AttendInv, MailInv, OpenInv
<1>9. RevInv'
  <2>1. \A x \in Reviewers : rv'[x].pc # "idle" => rv'[x].rev \in 1 .. link'.rev
    BY DEF AttendInv, RevInv
  <2>2. \A q \in Revs : drafts'[q].state # "none" => q <= link'.rev
    BY <1>2, <1>3 DEF AttendInv, RevInv
  <2> QED  BY <2>1, <2>2 DEF AttendInv, RevInv
<1>10. DueInv' /\ DoneInv'
  BY <1>3, <1>6, <1>7 DEF AttendInv, DueInv, DoneInv
<1>11. HeldInv'
  <2> SUFFICES ASSUME NEW x \in Reviewers, link'.holder = x, rv'[x].rev = link'.rev
               PROVE  Fits(rv[x])'
    BY DEF HeldInv
  <2>1. x = r /\ ref = link.rev
    BY DEF ref
  <2> QED  BY <1>7, <2>1 DEF Fits
<1> QED  BY <1>8, <1>9, <1>10, <1>11 DEF AttendInv

(* A result that would go out on its own.                                  *)
LEMMA AttendPublish ==
  ASSUME HeldRepliesAssumption, IInv, AttendInv, NEW r \in Reviewers, Publish(r)
  PROVE  AttendInv'
<1> DEFINE d == Born(r, "queued_auto")
           v == [rv[r] EXCEPT !.pc = "hold", !.mode = "off"]
<1>1. rv[r].pc = "drafted" /\ rv[r] \in Review /\ Types
      /\ UNCHANGED <<mail, inbox, own, link, settled>>
  BY DEF Publish, At, Types, Thread, IInv
<1>2. CASE drafts[rv[r].rev].state # "none" /\ Settle(r, "finish") /\ UNCHANGED drafts
  <2>1. rv[r].rev = link.rev => Kept
    BY <1>1, <1>2, DraftedIsKept
  <2> QED  BY <1>1, <1>2, <2>1, ReviewSettles
<1>3. CASE UNCHANGED drafts /\ (Leave(r) \/ Failing(r))
  BY <1>1, <1>3, FailingSettles, ReviewSettles
<1>4. CASE UNCHANGED drafts /\ rv' = [rv EXCEPT ![r].pc = "hold", ![r].mode = "off"]
  <2>1. /\ v.pc = "hold" /\ v.rev = rv[r].rev /\ v.answers = rv[r].answers
        /\ v.own = rv[r].own
    BY <1>1 DEF Review
  <2>2. rv' = [rv EXCEPT ![r] = v]
    BY <1>1, <1>4 DEF Types
  <2> HIDE DEF v
  <2>3. link.holder = r /\ rv[r].rev = link.rev => Fits(v)
    BY <1>1, <2>1 DEF AttendInv, HeldInv, Fits
  <2> QED  BY <1>1, <1>4, <2>1, <2>2, <2>3, ReviewReads
<1>5. CASE /\ Holds(r) /\ Stale(rv[r]) = "none" /\ Settle(r, "finish")
           /\ drafts[rv[r].rev].state = "none"
           /\ drafts' = [drafts EXCEPT ![rv[r].rev] = d]
  <2>1. d \in Draft /\ d.state = "queued_auto" /\ d.answers = rv[r].answers
    BY BornTyped DEF LiveStates
  <2> HIDE DEF d
  <2>2. Live(d)
    BY <2>1 DEF Live, LiveStates
  <2>3. /\ rv'[r].pc = "finish" /\ rv'[r].rev = rv[r].rev
        /\ \A x \in Reviewers : x # r => rv'[x] = rv[x]
    BY <1>1, <1>5, SettledReview
  <2> QED  BY <1>1, <1>5, <2>1, <2>2, <2>3, ResultKeeps DEF Holds
<1> QED  BY <1>2, <1>3, <1>4, <1>5 DEF Publish

(* A result that is held, whether it stands or is born superseded.         *)
LEMMA AttendHold ==
  ASSUME HeldRepliesAssumption, IInv, AttendInv, NEW r \in Reviewers, Hold(r)
  PROVE  AttendInv'
<1> DEFINE d == HeldBirth(r)
           v == [rv[r] EXCEPT !.pc = "moved", !.answers = 0, !.own = 0, !.mode = "off"]
<1>1. rv[r].pc \in {"drafted", "hold"} /\ rv[r] \in Review /\ Types
      /\ UNCHANGED <<mail, inbox, own, link, settled>>
  BY DEF Hold, At, Types, Thread, IInv
<1>2. ASSUME NEW state, Recorded(r, state)
      PROVE  /\ rv'[r].pc \in {"finish", "moved"} /\ rv'[r].rev = rv[r].rev
             /\ \A x \in Reviewers : x # r => rv'[x] = rv[x]
  <2>1. CASE Settle(r, "finish")
    BY <1>1, <2>1, SettledReview
  <2>2. CASE rv' = [rv EXCEPT ![r].pc = "moved", ![r].answers = 0, ![r].own = 0, ![r].mode = "off"]
    <3>1. v.pc = "moved" /\ v.rev = rv[r].rev
      BY <1>1 DEF Review
    <3>2. rv' = [rv EXCEPT ![r] = v] /\ rv \in [Reviewers -> Review]
      BY <1>1, <2>2 DEF Types
    <3> HIDE DEF v
    <3> QED  BY <3>1, <3>2
  <2> QED  BY <1>2, <2>1, <2>2 DEF Recorded
<1>3. CASE UNCHANGED drafts /\ (Leave(r) \/ Failing(r))
  BY <1>1, <1>3, FailingSettles, ReviewSettles
<1>4. CASE /\ drafts[rv[r].rev].state # "none" /\ UNCHANGED drafts
           /\ Recorded(r, drafts[rv[r].rev].state)
  <2>1. rv[r].rev = link.rev => Kept
    BY <1>1, <1>4, DraftedIsKept
  <2>2. rv[r].rev \in 1 .. link.rev
    BY <1>1 DEF AttendInv, RevInv
  <2>3. rv'[r].rev = link.rev => Fits(rv'[r])
    BY <1>2, <1>4, <2>1 DEF Fits
  <2> QED  BY <1>1, <1>2, <1>4, <2>2, <2>3, ReviewKeeps
<1>5. CASE /\ Holds(r) /\ drafts[rv[r].rev].state = "none"
           /\ drafts' = [drafts EXCEPT ![rv[r].rev] = d] /\ Recorded(r, d.state)
  <2>1. /\ d \in Draft /\ d.answers = rv[r].answers
        /\ d.state = IF Stale(rv[r]) = "none" THEN "pending" ELSE "superseded"
    BY BirthTyped
  <2>2. /\ Stale(rv[r]) = "none" => d.open
        /\ Stale(rv[r]) # "none" => d.why = Stale(rv[r]) /\ d.born
    BY <1>1 DEF HeldBirth, Born, NoDraft
  <2> HIDE DEF d
  <2>3. /\ d.state # "none" /\ (d.state = "pending" => d.open)
        /\ \/ Stale(rv[r]) = "none" /\ Live(d)
           \/ Stale(rv[r]) # "none" /\ d.why = Stale(rv[r]) /\ d.born
    BY <2>1, <2>2 DEF Live, LiveStates
  <2> QED  BY <1>1, <1>2, <1>5, <2>1, <2>3, ResultKeeps DEF Holds
<1> QED  BY <1>3, <1>4, <1>5 DEF Hold

(* A result the policy moved under left its message to that result.        *)
LEMMA AttendMoved ==
  ASSUME HeldRepliesAssumption, Types, AttendInv, NEW r \in Reviewers, Moved(r)
  PROVE  AttendInv'
<1> DEFINE v == [rv[r] EXCEPT !.pc = "again", !.pol = 0]
<1>1. rv[r].pc = "moved" /\ rv[r] \in Review
      /\ UNCHANGED <<mail, inbox, own, link, drafts, settled>>
  BY DEF Moved, At, Types, Thread
<1>2. link.holder = r /\ rv[r].rev = link.rev => Kept
  BY <1>1 DEF AttendInv, HeldInv, Fits
<1>3. CASE Settle(r, "finish")
  BY <1>1, <1>2, <1>3, ReviewSettles
<1>4. CASE rv' = [rv EXCEPT ![r].pc = "again", ![r].pol = 0]
  <2>1. v.pc = "again" /\ v.rev = rv[r].rev
    BY <1>1 DEF Review
  <2>2. rv' = [rv EXCEPT ![r] = v]
    BY <1>4 DEF Types
  <2> HIDE DEF v
  <2>3. link.holder = r /\ rv[r].rev = link.rev => Fits(v)
    BY <1>2, <2>1 DEF Fits
  <2> QED  BY <1>1, <2>1, <2>2, <2>3, ReviewReads
<1> QED  BY <1>3, <1>4 DEF Moved

(* The fresh review it asks for is due.                                    *)
LEMMA AttendAgain ==
  ASSUME HeldRepliesAssumption, Types, AttendInv, NEW r \in Reviewers, Again(r)
  PROVE  AttendInv'
<1>1. rv[r].pc = "again" /\ UNCHANGED <<mail, inbox, own, drafts, settled>>
  BY DEF Again, At, Thread
<1>2. CASE Leave(r) /\ UNCHANGED link
  BY <1>1, <1>2, ReviewSettles
<1>3. CASE link.rev < MaxRev /\ link' = Scheduled(link, rv[r].accepted) /\ Settle(r, "finish")
  <2>1. MailInv' /\ OpenInv'
    BY <1>1 DEF AttendInv, MailInv, OpenInv
  <2>2. \A x \in Reviewers : rv'[x].pc # "idle" => rv[x].pc # "idle" /\ rv'[x].rev = rv[x].rev
    BY <1>1, <1>3, SettledReview
  <2> QED  BY <1>1, <1>3, <2>1, <2>2, ScheduleKeeps
<1> QED  BY <1>2, <1>3 DEF Again

(* A review completes its revision only if nobody is left waiting.         *)
LEMMA AttendFinish ==
  ASSUME HeldRepliesAssumption, Types, AttendInv, NEW r \in Reviewers, Finish(r)
  PROVE  AttendInv'
<1>1. rv[r].pc = "finish" /\ UNCHANGED <<mail, inbox, own, drafts, settled>> /\ Leave(r)
  BY DEF Finish, At, Thread
<1>2. Completable(r) => Kept
  BY <1>1 DEF Completable, Holds, AttendInv, HeldInv, Fits
<1>3. link' \in {link, Completed, [Unheld(link) EXCEPT !.attempts = 0]}
  BY DEF Finish
<1>4. /\ link'.rev = link.rev /\ (link'.due => link.due)
      /\ link'.holder \in {link.holder, NoOne}
      /\ ~Completable(r) => link'.due = link.due
  BY <1>3, LinkFields DEF Finish
<1>5. \A x \in Reviewers : link'.holder = x => link.holder = x
  BY <1>4, HeldRepliesAssumption DEF HeldRepliesAssumption
<1> QED  BY <1>1, <1>2, <1>4, <1>5, ReviewSettles

(* A review that hands off leaves the conversation to a person.            *)
LEMMA AttendHandOff ==
  ASSUME HeldRepliesAssumption, Types, AttendInv, NEW r \in Reviewers, HandOff(r)
  PROVE  AttendInv'
<1>1. rv[r].pc = "handoff" /\ UNCHANGED <<mail, inbox, link, settled>>
  BY DEF HandOff, At, Thread
<1>2. CASE Leave(r) /\ UNCHANGED <<own, drafts>>
  BY <1>1, <1>2, ReviewSettles
<1>3. CASE /\ own' = HandedOff(own) /\ Settle(r, "finish")
           /\ drafts' = drafts \/ drafts' = Passed(drafts)
  <2>1. OpenInv' /\ \A q \in Revs : (drafts'[q].state = "none") <=> (drafts[q].state = "none")
    BY <1>3, DraftsStayOpen DEF Types, AttendInv
  <2>2. \A x \in Reviewers : rv'[x].pc # "idle" => rv[x].pc # "idle" /\ rv'[x].rev = rv[x].rev
    BY <1>1, <1>3, SettledReview
  <2>3. RevInv'
    BY <1>1, <2>1, <2>2 DEF AttendInv, RevInv
  <2>4. MailInv'
    BY <1>1 DEF AttendInv, MailInv
  <2>5. Kept'
    BY <1>3, HandedOffOwnership, PersonKeeps
  <2> QED  BY <2>1, <2>3, <2>4, <2>5, KeptSuffices
<1> QED  BY <1>2, <1>3 DEF HandOff

(* A review put back, failed or crashed stays due.                         *)
LEMMA AttendFailure ==
  ASSUME HeldRepliesAssumption, Types, AttendInv, NEW r \in Reviewers,
         RetryLater(r) \/ StepFails(r) \/ Crash(r)
  PROVE  AttendInv'
<1>1. rv[r].pc # "idle" /\ UNCHANGED <<mail, inbox, own, drafts, settled>>
  BY DEF RetryLater, StepFails, Crash, At, Thread
<1>2. Leave(r) \/ Settle(r, "handoff") \/ Settle(r, "failed")
  BY FailingSettles DEF RetryLater, StepFails, Crash
<1>3. link' = link \/ link' = Unheld(link)
  BY DEF RetryLater, StepFails, Crash
<1>4. link'.rev = link.rev /\ link'.due = link.due /\ link'.holder \in {link.holder, NoOne}
  BY <1>3, LinkFields
<1>5. \A x \in Reviewers : link'.holder = x => link.holder = x
  BY <1>4, HeldRepliesAssumption DEF HeldRepliesAssumption
<1> QED  BY <1>1, <1>2, <1>4, <1>5, ReviewSettles

(* A lease that lapses is still held.                                      *)
LEMMA AttendLapse ==
  ASSUME HeldRepliesAssumption, Types, AttendInv, LeaseLapses
  PROVE  AttendInv'
<1>1. UNCHANGED <<mail, inbox, own, drafts, rv, settled>>
  BY DEF LeaseLapses, Thread
<1>2. link'.rev = link.rev /\ link'.due = link.due /\ link'.holder = link.holder
  BY DEF LeaseLapses, Types, Link
<1>3. MailInv' /\ OpenInv'
  BY <1>1 DEF AttendInv, MailInv, OpenInv
<1>4. Kept => Kept'
  BY <1>1, KeptStays, PersonKeeps
<1> QED  BY <1>1, <1>2, <1>3, <1>4, SteadyKeeps

(* An empty conversation waits for nobody.                                 *)
LEMMA AttendInitial == Init => AttendInv
<1> SUFFICES ASSUME Init PROVE AttendInv
  OBVIOUS
<1>1. inbox = <<>> /\ Newest = 0 /\ Kept
  BY DEF Init, Newest, Kept
<1>2. MailInv
  BY <1>1 DEF Init, MailInv
<1>3. OpenInv /\ \A r \in Revs : drafts[r].state = "none"
  BY DEF Init, OpenInv, NoDraft
<1>4. RevInv
  BY <1>3 DEF Init, RevInv, Idle
<1> QED  BY <1>1, <1>2, <1>3, <1>4 DEF AttendInv, DueInv, DoneInv, HeldInv, Fits

(* Every step leaves the newest message to someone.                        *)
LEMMA AttendNext == ASSUME HeldRepliesAssumption, IInv, AttendInv, [Next]_vars PROVE AttendInv'
<1>0. Types
  BY DEF IInv
<1>1. CASE UNCHANGED vars
  <2>1. UNCHANGED <<mail, inbox, own, link, rv, drafts, settled>>
    BY <1>1 DEF vars
  <2>2. OpenInv'
    BY <2>1 DEF AttendInv, OpenInv
  <2> QED  BY <1>0, <2>1, <2>2, DraftsMove
<1>2. ASSUME NEW m \in Mails,
             \/ Receive(m) \/ IngestAgain(m) \/ Drop(m) \/ Resolve(m) \/ Ingest(m) \/ Index(m)
      PROVE  AttendInv'
  BY <1>0, <1>2, AttendDelivery, AttendIngest, AttendIngestAgain, AttendIndex
<1>3. ASSUME NEW r \in Reviewers, Claim(r) \/ ReviewStep(r) \/ StepFails(r) \/ Crash(r)
      PROVE  AttendInv'
  BY <1>0, <1>3, AttendClaim, AttendReadMailbox, AttendReadConversation, AttendSetAside,
     AttendTurn, AttendPublish, AttendHold, AttendMoved, AttendAgain, AttendFinish,
     AttendHandOff, AttendFailure DEF ReviewStep
<1>4. CASE LeaseLapses
  BY <1>0, <1>4, AttendLapse
<1>5. CASE \/ RemoveMailbox
           \/ \E mode \in Modes, only \in BOOLEAN : ChangePolicy(mode, only)
  BY <1>0, <1>5, AttendPolicy
<1>6. ASSUME NEW t \in Teammates, NEW u \in Teammates,
             TakeOver(t) \/ HandBack(t) \/ Reply(t) \/ Transfer(t, u)
      PROVE  AttendInv'
  BY <1>0, <1>6, AttendTeam
<1>7. ASSUME NEW r \in Revs, Release(r) \/ Discard(r) \/ Dispatch(r)
      PROVE  AttendInv'
  BY <1>0, <1>7, AttendDraft
<1> QED  BY <1>1, <1>2, <1>3, <1>4, <1>5, <1>6, <1>7 DEF Next, Inbound

(* The newest customer message never drops out of everyone's queue: a      *)
(* review is due, its delivery still schedules one, a draft answers it or  *)
(* asks for a teammate, a person has the conversation, or it was settled;  *)
(* set apart are a review the policy moved under and a message recorded    *)
(* after the person it was resolved for handed back.                       *)
THEOREM NewestIsAttended == Spec => []NewestMailIsAttended
<1>1. Init => AttendInv
  BY AttendInitial
<1>2. IInv /\ AttendInv /\ [Next]_vars => AttendInv'
  BY AttendNext, HeldRepliesAssumption
<1>3. AttendInv => NewestMailIsAttended
  <2> SUFFICES ASSUME AttendInv, Newest # 0
               PROVE  Attended(Newest) \/ MovedUnder(Newest) \/ mail[Newest].disp = "human_owned"
    BY DEF NewestMailIsAttended
  <2>1. CASE link.due
    BY <2>1 DEF Attended
  <2>2. CASE Kept
    BY <2>2 DEF Kept, Covered, Answering, Overtaken, Attended, MovedUnder
  <2> QED  BY <2>1, <2>2 DEF AttendInv, DueInv
<1> QED  BY <1>1, <1>2, <1>3, Invariance, PTL DEF Spec

=============================================================================
