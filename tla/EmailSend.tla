----------------------------- MODULE EmailSend -----------------------------
(***************************************************************************)
(* One email reply's way to the customer: the action outbox hands its send *)
(* to a handler, the handler commits it and calls the mail provider, a     *)
(* reconciler settles what no event has settled, provider evidence arrives *)
(* whenever it likes, and a teammate decides on the failures.              *)
(*                                                                         *)
(*   backend/src/modules/emailChannel/outbound/*.ts                        *)
(*   backend/src/modules/emailChannel/operator/emailDeliveryFailureResolver*)
(*   backend/src/modules/customerReplyDelivery/*.ts                        *)
(*                                                                         *)
(* The message has a chain of sends: 1 is the reply itself, each later one *)
(* an audited resend.  A database transaction is one step; the provider    *)
(* call has none open, so it is a step of its own.  The version fence of   *)
(* an intent re-judges a stale event on the row as it is, so an event is   *)
(* applied to the current row and the version itself is left out.          *)
(***************************************************************************)
EXTENDS Naturals, FiniteSets

CONSTANTS
  MaxSends,      \* bound: the reply and its resends
  Authorities,   \* how the reply may be authorized: by an operator, automatically
  Workers,       \* concurrent runs of the email.send handler
  Sweeps,        \* concurrent reconciler drains
  Teammates,     \* operators deciding on a failure
  MaxAttempts,   \* ACTION_DISPATCH_JOB.maxAttempts
  MaxDeferrals,  \* lookups put off before the lookup deadline passes
  MaxFaults      \* bound: crashes, stalls, timeouts and database errors

ASSUME EmailSendAssumption ==
  /\ MaxSends \in Nat \ {0}
  /\ Authorities \subseteq {"operator", "automatic"}
  /\ Workers \cap Sweeps = {}
  /\ MaxAttempts \in Nat \ {0}
  /\ MaxDeferrals \in Nat /\ MaxFaults \in Nat

VARIABLES
  authority,  \* the reply's automatic authority, if it needs one
  action,     \* the email.send action of each send, in the action outbox
  intent,     \* email_send_intents, one row per send
  failure,    \* the message's newest delivery failure; older ones are cleared
  proc,       \* the handler runs and the reconciler drains
  read,       \* the failure each teammate is deciding on, as they read it
  age,        \* time since each send's first attempt
  deferred,   \* lookups of each send put off so far, the clock of their deadline
  posted,     \* provider: whether a request reached it
  copies,     \* provider: messages it took under each send's key
  dropped,    \* sends whose dead-letter hook settled no intent
  faults      \* crashes, stalls, timeouts and errors so far

mail == <<posted, copies>>
vars == <<authority, action, intent, failure, proc, read, age, deferred, mail, dropped, faults>>

-----------------------------------------------------------------------------

Sends == 1 .. MaxSends
Procs == Workers \cup Sweeps

States     == {"none", "queued", "accepted", "delivered", "bounced", "failed",
               "uncertain", "halted"}
Terminal   == {"delivered", "bounced", "failed"}
Kinds      == {"bounced", "failed", "uncertain", "halted"}
InHandler  == {"load", "commit", "halt", "revoke", "resume", "post", "answered"}
InHook     == {"hookOpen", "hookApply", "parked"}
PCs        == InHandler \cup InHook \cup
              {"idle", "finish", "throw", "park", "repost", "lookup"}

Intent == [state : States, frozen : BOOLEAN, unknown : BOOLEAN, known : BOOLEAN,
           code : {"none", "revoked", "exhausted", "rejected", "evidence"},
           resolution : {"none", "provider_evidence", "marked_sent", "resend_authorized"},
           reconcile : {"none", "repost", "lookup"}, leased : BOOLEAN]

NoIntent == [state |-> "none", frozen |-> FALSE, unknown |-> FALSE, known |-> FALSE,
             code |-> "none", resolution |-> "none", reconcile |-> "none", leased |-> FALSE]

Action == [status : {"none", "pending", "in_progress", "dispatched", "failed"},
           attempts : Nat, lapsed : BOOLEAN]

NoAction == [status |-> "none", attempts |-> 0, lapsed |-> FALSE]
Enqueued == [status |-> "pending", attempts |-> 0, lapsed |-> FALSE]

Answers   == {"accepted", "rejected", "retryable", "unknown"}
Decisions == {"marked_sent", "resend"}

(* `unsent` marks a failure raised for a send that has no intent.          *)
Failure == [id : Nat, open : BOOLEAN, kind : Kinds \cup {"none"}, unsent : BOOLEAN]

(* `attempt` is the claim's fencing token; 0 for a sweep and for a handler *)
(* the runtime no longer waits for.                                        *)
Proc   == [pc : PCs, send : Sends, attempt : Nat, answer : Answers \cup {"none"}]
Idle   == [pc |-> "idle", send |-> 1, attempt |-> 0, answer |-> "none"]
Read   == [id : Nat, kind : Kinds \cup {"none"}, decision : Decisions \cup {"none"}]
NoRead == [id |-> 0, kind |-> "none", decision |-> "none"]

(* The CHECK constraints of email_send_intents, and what a schedule means. *)
Checks(r) ==
  /\ r.state = "accepted" => r.known
  /\ r.resolution # "none" => r.state \notin {"queued", "accepted"}
  /\ r.reconcile = "repost" => r.state = "queued" /\ r.frozen /\ r.unknown
  /\ r.reconcile = "lookup" => r.state \in {"accepted", "uncertain"} /\ r.known

(* Every variable has its type, and no write leaves a row the table would  *)
(* refuse, or the reconciler a row it has no business with.                *)
TypeOK ==
  /\ authority \in {"operator", "automatic", "revoked"}
  /\ action \in [Sends -> Action]
  /\ intent \in [Sends -> Intent]
  /\ \A n \in Sends : Checks(intent[n])
  /\ failure \in Failure
  /\ proc \in [Procs -> Proc]
  /\ read \in [Teammates -> Read]
  /\ age \in [Sends -> {"none", "fresh", "late", "expired"}]
  /\ deferred \in [Sends -> Nat]
  /\ posted \in [Sends -> BOOLEAN]
  /\ copies \in [Sends -> Nat]
  /\ dropped \subseteq Sends
  /\ faults \in Nat

Init ==
  /\ authority \in Authorities
  /\ action = [n \in Sends |-> IF n = 1 THEN Enqueued ELSE NoAction]
  /\ intent = [n \in Sends |-> NoIntent]
  /\ failure = [id |-> 0, open |-> FALSE, kind |-> "none", unsent |-> FALSE]
  /\ proc = [x \in Procs |-> Idle]
  /\ read = [t \in Teammates |-> NoRead]
  /\ age = [n \in Sends |-> "none"]
  /\ deferred = [n \in Sends |-> 0]
  /\ posted = [n \in Sends |-> FALSE]
  /\ copies = [n \in Sends |-> 0]
  /\ dropped = {}
  /\ faults = 0

-----------------------------------------------------------------------------
(* The delivery failure of the message.                                    *)

(* A no-op while one is open.                                              *)
OpenFailure(kind, unsent) ==
  failure' = IF failure.open THEN failure
             ELSE [id |-> failure.id + 1, open |-> TRUE, kind |-> kind, unsent |-> unsent]

RetargetFailure(kind) ==
  failure' = IF failure.open THEN [failure EXCEPT !.kind = kind] ELSE failure

ClearFailure == failure' = [failure EXCEPT !.open = FALSE]

-----------------------------------------------------------------------------
(* The send-intent state machine, one operator per event.                  *)

(* FAULT: the unsent settlements trust what the claim read earlier.        *)
AlwaysNeverSent(r) == TRUE

NeverSent(r) == ~r.frozen /\ ~r.unknown

(* FAULT: a transition that sets no schedule leaves the old one.           *)
KeepsSchedule(r, state, reconcile) ==
  [r EXCEPT !.state = state, !.reconcile = IF reconcile = "none" THEN @ ELSE reconcile,
            !.leased = FALSE]

(* A transition consumes the reconcile claim and any schedule it does not  *)
(* set anew.                                                               *)
Moved(r, state, reconcile) ==
  [r EXCEPT !.state = state, !.reconcile = reconcile, !.leased = FALSE]

Becomes(n, r) == intent' = [intent EXCEPT ![n] = r]

Ignored == UNCHANGED <<intent, failure>>

(* Settled without ever having been sent: halted, or failed with a code.   *)
SettleUnsent(n, state, code) ==
  IF intent[n].state = "queued" /\ NeverSent(intent[n])
    THEN /\ Becomes(n, [Moved(intent[n], state, "none") EXCEPT !.code = code])
         /\ OpenFailure(state, FALSE)
    ELSE Ignored

ProviderAccepted(n) ==
  LET r == intent[n]
  IN  \/ /\ r.state = "queued"
         /\ Becomes(n, [Moved(r, "accepted", "lookup") EXCEPT !.known = TRUE])
         /\ UNCHANGED failure
      \/ /\ r.state = "uncertain" /\ r.frozen /\ ~r.known
         /\ Becomes(n, [Moved(r, "uncertain", "lookup") EXCEPT !.known = TRUE])
         /\ UNCHANGED failure
      \/ /\ r.state # "queued"
         /\ r.state = "uncertain" => ~r.frozen \/ r.known
         /\ Ignored

ProviderRejected(n) ==
  IF intent[n].state = "queued"
    THEN /\ Becomes(n, [Moved(intent[n], "failed", "none") EXCEPT !.code = "rejected"])
         /\ OpenFailure("failed", FALSE)
    ELSE Ignored

GiveUpUncertain(n) ==
  /\ Becomes(n, [Moved(intent[n], "uncertain", "none") EXCEPT !.unknown = TRUE])
  /\ OpenFailure("uncertain", FALSE)

DispatchExhausted(n) ==
  IF intent[n].state = "queued" /\ ~NeverSent(intent[n])
    THEN GiveUpUncertain(n) ELSE SettleUnsent(n, "failed", "exhausted")

(* FAULT: an unknown outcome that schedules no re-POST.                    *)
NoRepost == "none"

RepostSchedule == "repost"

OutcomeUnknown(n, mayRepost) ==
  CASE intent[n].state # "queued" -> Ignored
    [] intent[n].state = "queued" /\ ~mayRepost -> GiveUpUncertain(n)
    [] intent[n].state = "queued" /\ mayRepost ->
         /\ Becomes(n, [Moved(intent[n], "queued", RepostSchedule) EXCEPT !.unknown = TRUE])
         /\ UNCHANGED failure

(* FAULT: late evidence about a send a teammate had resent.                *)
NeverResent(r) == FALSE

Resent(r) == r.resolution = "resend_authorized"

(* Late evidence settles an uncertain send.  The failure it moves is the   *)
(* attempt's own: a resend's failure is the resend's.                      *)
SettleUncertain(n, status) ==
  LET r == intent[n]
      kept == IF r.resolution = "none" THEN "provider_evidence" ELSE r.resolution
      code == IF status = "delivered" THEN r.code ELSE "evidence"
  IN  /\ Becomes(n, [Moved(r, status, "none") EXCEPT !.resolution = kept, !.code = code])
      /\ CASE Resent(r) -> UNCHANGED failure
           [] ~Resent(r) /\ status = "delivered" -> ClearFailure
           [] ~Resent(r) /\ status # "delivered" ->
                IF r.resolution = "marked_sent"
                  THEN OpenFailure(status, FALSE) ELSE RetargetFailure(status)

(* A status that settles a send: delivered, bounced or failed.             *)
ProviderStatus(n, status) ==
  CASE intent[n].state = "uncertain" -> SettleUncertain(n, status)
    [] intent[n].state = "accepted" /\ status = "delivered" ->
         Becomes(n, Moved(intent[n], status, "none")) /\ ClearFailure
    [] intent[n].state = "accepted" /\ status # "delivered" ->
         /\ Becomes(n, [Moved(intent[n], status, "none") EXCEPT !.code = "evidence"])
         /\ OpenFailure(status, FALSE)
    [] intent[n].state \notin {"accepted", "uncertain"} -> Ignored

ReconcileUnsettled(n) ==
  CASE intent[n].state = "accepted" ->
         /\ Becomes(n, Moved(intent[n], "uncertain", "none"))
         /\ OpenFailure("uncertain", FALSE)
    [] intent[n].state = "uncertain" /\ intent[n].known ->
         Becomes(n, Moved(intent[n], "uncertain", "none")) /\ UNCHANGED failure
    [] intent[n].state # "accepted" /\ ~(intent[n].state = "uncertain" /\ intent[n].known) ->
         Ignored

-----------------------------------------------------------------------------
(* The action outbox: claim, finish, retry and park, as the runtime does.  *)

At(x, n, pcs) == proc[x].send = n /\ proc[x].pc \in pcs

(* Parking updates the action and runs its hook before committing, so the  *)
(* row stays locked meanwhile; a claim skips a locked row.                 *)
Locked(n) == \E w \in Workers : At(w, n, InHook)

Attached(w) == proc[w].attempt > 0

(* The fencing token of an action is its attempt number.                   *)
Holds(w) ==
  /\ action[proc[w].send].status = "in_progress"
  /\ action[proc[w].send].attempts = proc[w].attempt

Goto(x, pc) == proc' = [proc EXCEPT ![x].pc = pc]
Leave(x) == proc' = [proc EXCEPT ![x] = Idle]
SetAction(n, status) == action' = [action EXCEPT ![n].status = status]

Claim(w, n) ==
  LET attempt == action[n].attempts + 1
  IN  /\ proc[w].pc = "idle" /\ ~Locked(n)
      /\ \/ action[n].status = "pending"
         \/ action[n].status = "in_progress" /\ action[n].lapsed
      /\ action' = [action EXCEPT ![n] = [status |-> "in_progress", attempts |-> attempt,
                                          lapsed |-> FALSE]]
      /\ proc' = [proc EXCEPT ![w] = [pc |-> IF attempt > MaxAttempts THEN "park" ELSE "load",
                                      send |-> n, attempt |-> attempt, answer |-> "none"]]
      /\ UNCHANGED <<authority, intent, failure, read, age, deferred, mail, dropped, faults>>

Finish(w) ==
  /\ proc[w].pc = "finish"
  /\ IF Attached(w) /\ Holds(w) THEN SetAction(proc[w].send, "dispatched")
                                ELSE UNCHANGED action
  /\ Leave(w)
  /\ UNCHANGED <<authority, intent, failure, read, age, deferred, mail, dropped, faults>>

(* Nobody waits for a detached run's error; a superseded one writes nothing. *)
Retry(w) ==
  /\ proc[w].pc = "throw" /\ proc[w].attempt < MaxAttempts
  /\ IF Attached(w) /\ Holds(w) THEN SetAction(proc[w].send, "pending") ELSE UNCHANGED action
  /\ Leave(w)
  /\ UNCHANGED <<authority, intent, failure, read, age, deferred, mail, dropped, faults>>

(* recordFailureOutcome reads the intent first and judges it in a          *)
(* transaction of its own, so the handler it gave up on may still move it. *)
Park(w) ==
  LET n == proc[w].send
  IN  /\ \/ proc[w].pc = "park"
         \/ proc[w].pc = "throw" /\ proc[w].attempt >= MaxAttempts
      /\ IF ~Holds(w) THEN Leave(w)
         ELSE Goto(w, CASE intent[n].state = "none" -> "hookOpen"
                        [] intent[n].state = "queued" -> "hookApply"
                        [] intent[n].state \notin {"none", "queued"} -> "parked")
      /\ UNCHANGED <<authority, action, intent, failure, read, age, deferred, mail, dropped, faults>>

Automatic(n) == n = 1 /\ authority # "operator"

(* A send with no intent flags its message, which an automatic reply that  *)
(* was never materialized does not have.                                   *)
HookOpen(w) ==
  LET n == proc[w].send
  IN  /\ proc[w].pc = "hookOpen"
      /\ IF Automatic(n) THEN UNCHANGED failure ELSE OpenFailure("failed", TRUE)
      /\ dropped' = dropped \cup {n}
      /\ Goto(w, "parked")
      /\ UNCHANGED <<authority, action, intent, read, age, deferred, mail, faults>>

HookApply(w) ==
  /\ proc[w].pc = "hookApply"
  /\ DispatchExhausted(proc[w].send)
  /\ Goto(w, "parked")
  /\ UNCHANGED <<authority, action, read, age, deferred, mail, dropped, faults>>

Parked(w) ==
  /\ proc[w].pc = "parked"
  /\ SetAction(proc[w].send, "failed")
  /\ Leave(w)
  /\ UNCHANGED <<authority, intent, failure, read, age, deferred, mail, dropped, faults>>

(* A hook that throws rolls its park back; the action is parked without it. *)
HookThrows(w) ==
  /\ proc[w].pc \in {"hookOpen", "hookApply"} /\ faults < MaxFaults
  /\ SetAction(proc[w].send, "failed")
  /\ dropped' = dropped \cup {proc[w].send}
  /\ faults' = faults + 1
  /\ Leave(w)
  /\ UNCHANGED <<authority, intent, failure, read, age, deferred, mail>>

-----------------------------------------------------------------------------
(* The handler.                                                            *)

(* Where a claim goes on from the row as it is; `frozenTo` is where a      *)
(* frozen request with no outcome sends it.                                *)
Onward(n, frozenTo) ==
  CASE intent[n].state # "queued" \/ intent[n].unknown -> "finish"
    [] intent[n].state = "queued" /\ ~intent[n].unknown /\ intent[n].frozen -> frozenTo
    [] intent[n].state = "queued" /\ ~intent[n].unknown /\ ~intent[n].frozen -> "commit"

(* Step 1.  An automatic reply re-authorizes as it materializes, or goes   *)
(* back to a teammate for good: over its budget, superseded, revoked, or   *)
(* its mailbox may not send.                                               *)
Load(w) ==
  LET n == proc[w].send
  IN  /\ proc[w].pc = "load"
      /\ \/ /\ intent[n].state # "none"
            /\ Goto(w, Onward(n, "resume"))
            /\ UNCHANGED <<authority, intent>>
         \/ /\ intent[n].state = "none"
            /\ Automatic(n) => authority = "automatic"
            /\ Becomes(n, [NoIntent EXCEPT !.state = "queued"])
            /\ Goto(w, "commit")
            /\ UNCHANGED authority
         \/ /\ intent[n].state = "none" /\ Automatic(n)
            /\ authority' = "revoked"
            /\ Goto(w, "finish")
            /\ UNCHANGED intent
      /\ UNCHANGED <<action, failure, read, age, deferred, mail, dropped, faults>>

(* Steps 2 and 3 in one transaction: check the authority, freeze.  The     *)
(* domain's verification and the mailbox come and go on their own, so any  *)
(* check may find that the mailbox may send as its address, or may not.    *)
Commit(w) ==
  LET n == proc[w].send
  IN  /\ proc[w].pc = "commit"
      /\ \/ /\ Goto(w, "halt")
            /\ UNCHANGED <<intent, age>>
         \/ /\ Automatic(n)  \* revoked, or the budget was lowered
            /\ Goto(w, "revoke")
            /\ UNCHANGED <<intent, age>>
         \/ /\ Automatic(n) => authority = "automatic"
            /\ intent[n].state = "queued" /\ ~intent[n].frozen
            /\ Becomes(n, [intent[n] EXCEPT !.frozen = TRUE])
            /\ age' = [age EXCEPT ![n] = "fresh"]
            /\ Goto(w, "post")
         \/ /\ Automatic(n) => authority = "automatic"
            /\ intent[n].state # "queued" \/ intent[n].frozen
            /\ Goto(w, Onward(n, "throw"))
            /\ UNCHANGED <<intent, age>>
      /\ UNCHANGED <<authority, action, failure, read, deferred, mail, dropped, faults>>

(* A refused send settles unsent; the claim that lost to a freeze leaves   *)
(* the send to the claim that froze it.                                    *)
SettleRefused(w) ==
  LET n == proc[w].send
  IN  /\ proc[w].pc \in {"halt", "revoke"}
      /\ IF proc[w].pc = "halt" THEN SettleUnsent(n, "halted", "none")
                                ELSE SettleUnsent(n, "failed", "revoked")
      /\ Goto(w, IF intent[n].frozen \/ intent[n].state # "queued"
                   THEN Onward(n, "throw") ELSE "finish")
      /\ UNCHANGED <<authority, action, read, age, deferred, mail, dropped, faults>>

-----------------------------------------------------------------------------
(* The provider call, of the handler and of the reconciler's re-POST.      *)

(* FAULT: a re-POST whatever the key's age.                                *)
AnyAge(n) == TRUE

WithinRepostWindow(n) == age[n] = "fresh"

RepostAuthorized(n, sendable) == sendable /\ (Automatic(n) => authority = "automatic")

(* A frozen request with no outcome, or a scheduled re-POST.               *)
Repost(x) ==
  LET n == proc[x].send
  IN  /\ proc[x].pc \in {"resume", "repost"}
      /\ \E sendable \in BOOLEAN :
           IF RepostAuthorized(n, sendable) /\ WithinRepostWindow(n)
           THEN Goto(x, "post") /\ UNCHANGED <<intent, failure>>
           ELSE /\ OutcomeUnknown(n, FALSE)
                /\ IF x \in Workers THEN Goto(x, "finish") ELSE Leave(x)
      /\ UNCHANGED <<authority, action, read, age, deferred, mail, dropped, faults>>

(* The provider takes a message once per key, for as long as it remembers  *)
(* the key; whatever it did, the answer may be lost or be no answer.       *)
Remembered(n) == copies[n] > 0 /\ age[n] # "expired"

Post(x) ==
  LET n == proc[x].send
  IN  /\ proc[x].pc = "post"
      /\ \E answer \in Answers, taken \in BOOLEAN :
           /\ taken => answer \in {"accepted", "unknown"} /\ ~Remembered(n)
           /\ answer = "accepted" => taken \/ Remembered(n)
           /\ proc' = [proc EXCEPT ![x].pc = "answered", ![x].answer = answer]
           /\ copies' = [copies EXCEPT ![n] = IF taken THEN @ + 1 ELSE @]
      /\ posted' = [posted EXCEPT ![n] = TRUE]
      /\ UNCHANGED <<authority, action, intent, failure, read, age, deferred, dropped, faults>>

(* The answer is applied in a transaction of its own.                      *)
Record(x) ==
  LET n == proc[x].send
      answer == proc[x].answer
  IN  /\ proc[x].pc = "answered"
      /\ \/ answer = "accepted" /\ ProviderAccepted(n)
         \/ answer = "rejected" /\ ProviderRejected(n)
         \/ answer = "retryable" /\ Ignored
         \/ answer = "unknown" /\ OutcomeUnknown(n, WithinRepostWindow(n))
      /\ IF x \in Sweeps THEN Leave(x)
         ELSE Goto(x, IF answer = "retryable" THEN "throw" ELSE "finish")
      /\ UNCHANGED <<authority, action, read, age, deferred, mail, dropped, faults>>

-----------------------------------------------------------------------------
(* The reconciler.                                                         *)

ClaimDue(s, n) ==
  /\ proc[s].pc = "idle"
  /\ intent[n].state \in {"queued", "accepted", "uncertain"}
  /\ intent[n].reconcile # "none" /\ ~intent[n].leased
  /\ Becomes(n, [intent[n] EXCEPT !.leased = TRUE])
  /\ proc' = [proc EXCEPT ![s] = [Idle EXCEPT
        !.pc = IF intent[n].state = "queued" THEN "repost" ELSE "lookup", !.send = n]]
  /\ UNCHANGED <<authority, action, failure, read, age, deferred, mail, dropped, faults>>

(* The provider reports a status that settles the send, or nothing that    *)
(* does, or cannot answer for now: that is put off until the deadline.     *)
Lookup(s) ==
  LET n == proc[s].send
  IN  /\ proc[s].pc = "lookup"
      /\ \/ \E status \in Terminal : ProviderStatus(n, status) /\ UNCHANGED deferred
         \/ ReconcileUnsettled(n) /\ UNCHANGED deferred
         \/ /\ deferred[n] < MaxDeferrals
            /\ deferred' = [deferred EXCEPT ![n] = @ + 1]
            /\ Ignored
      /\ Leave(s)
      /\ UNCHANGED <<authority, action, read, age, mail, dropped, faults>>

(* A sweep that dropped a claim leaves it to run out; a slow one may find  *)
(* its claim taken over.                                                   *)
LeaseExpires(n) ==
  /\ intent[n].leased
  /\ \/ (\A s \in Sweeps : ~At(s, n, PCs \ {"idle"})) /\ UNCHANGED faults
     \/ faults < MaxFaults /\ faults' = faults + 1
  /\ Becomes(n, [intent[n] EXCEPT !.leased = FALSE])
  /\ UNCHANGED <<authority, action, failure, proc, read, age, deferred, mail, dropped>>

-----------------------------------------------------------------------------
(* Provider events, in any order and any number of times.                  *)

(* A delivery event that names the send by its Message-ID only, before its *)
(* provider id is on record: recorded as the acceptance first.             *)
AcceptByMessageId(n) ==
  /\ copies[n] > 0 /\ ~intent[n].known
  /\ ProviderAccepted(n)
  /\ UNCHANGED <<authority, action, proc, read, age, deferred, mail, dropped, faults>>

(* A webhook or an inbound delivery status report.                         *)
ApplyEvidence(n) ==
  /\ copies[n] > 0 /\ intent[n].known
  /\ \E status \in Terminal : ProviderStatus(n, status)
  /\ UNCHANGED <<authority, action, proc, read, age, deferred, mail, dropped, faults>>

(* The delivery of another message of the conversation, sent after this    *)
(* one's newest send, clears this one's failure too.                       *)
LaterDelivery ==
  /\ failure.open /\ \E n \in Sends : intent[n].state # "none"
  /\ ClearFailure
  /\ UNCHANGED <<authority, action, intent, proc, read, age, deferred, mail, dropped, faults>>

-----------------------------------------------------------------------------
(* Teammates.                                                              *)

DecisionsByKind(kind) ==
  CASE kind = "uncertain" -> {"marked_sent", "resend"}
    [] kind = "halted" -> {"resend"}
    [] kind \in {"bounced", "failed", "none"} -> {}

Chain == {n \in Sends : intent[n].state # "none"}
Newest(n) == n \in Chain /\ \A m \in Chain : m <= n

Acknowledge ==
  /\ failure.open
  /\ ClearFailure
  /\ UNCHANGED <<authority, action, intent, proc, read, age, deferred, mail, dropped, faults>>

(* What is read, and refused, before the decision's transaction.           *)
ReadFailure(t, decision) ==
  /\ read[t] = NoRead
  /\ failure.open /\ decision \in DecisionsByKind(failure.kind) /\ Chain # {}
  /\ read' = [read EXCEPT ![t] = [id |-> failure.id, kind |-> failure.kind, decision |-> decision]]
  /\ UNCHANGED <<authority, action, intent, failure, proc, age, deferred, mail, dropped, faults>>

(* FAULT: whatever failure is open is the one the teammate decided on.     *)
LocksAnyOpen(t) == failure.open

(* The failure the teammate decided on, still open and as they read it.    *)
LocksOpen(t) == failure.open /\ failure.id = read[t].id /\ failure.kind = read[t].kind

Resolution(decision) == IF decision = "resend" THEN "resend_authorized" ELSE "marked_sent"

(* One decision per send: a resend needs a number no decision has taken.   *)
Resolvable(n, decision) ==
  /\ intent[n].resolution = "none"
  /\ intent[n].state \in (IF decision = "resend" THEN {"uncertain", "halted"} ELSE {"uncertain"})
  /\ decision = "resend" => n < MaxSends /\ action[n + 1].status = "none"

Resolve(t) ==
  \E n \in Sends :
    /\ Newest(n) /\ Resolvable(n, read[t].decision) /\ LocksOpen(t)
    /\ Becomes(n, [Moved(intent[n], intent[n].state, "none")
                     EXCEPT !.resolution = Resolution(read[t].decision)])
    /\ ClearFailure
    /\ action' = IF read[t].decision = "resend" THEN [action EXCEPT ![n + 1] = Enqueued] ELSE action
    /\ read' = [read EXCEPT ![t] = NoRead]
    /\ UNCHANGED <<authority, proc, age, deferred, mail, dropped, faults>>

Refuse(t) ==
  /\ read[t] # NoRead
  /\ \A n \in Sends : ~(Newest(n) /\ Resolvable(n, read[t].decision) /\ LocksOpen(t))
  /\ read' = [read EXCEPT ![t] = NoRead]
  /\ UNCHANGED <<authority, action, intent, failure, proc, age, deferred, mail, dropped, faults>>

-----------------------------------------------------------------------------
(* Time, the channel's settings, and what goes wrong.                      *)

(* fresh: under 23 h, a re-POST is allowed; late: the last hour of the     *)
(* provider's memory of the key; expired: forgotten.  A call follows its   *)
(* window check by minutes, so the key outlives a call already allowed.    *)
(* Once nobody can ask for a send's age again it no longer matters.        *)
Age(n) ==
  /\ intent[n].state = "queued" \/ \E x \in Procs : At(x, n, {"resume", "repost", "post", "answered"})
  /\ \/ age[n] = "fresh" /\ age' = [age EXCEPT ![n] = "late"]
     \/ /\ age[n] = "late" /\ \A x \in Procs : ~At(x, n, {"post"})
        /\ age' = [age EXCEPT ![n] = "expired"]
  /\ UNCHANGED <<authority, action, intent, failure, proc, read, deferred, mail, dropped, faults>>

(* A policy change or a takeover: the versions the reply was bound to are  *)
(* gone for good.                                                          *)
Revoke ==
  /\ authority = "automatic"
  /\ authority' = "revoked"
  /\ UNCHANGED <<action, intent, failure, proc, read, age, deferred, mail, dropped, faults>>

Fault == faults < MaxFaults /\ faults' = faults + 1

(* A database error: the run fails, the sweep leaves its claim to run out. *)
DatabaseFails(x) ==
  /\ proc[x].pc \in (InHandler \ {"post"}) \cup {"repost", "lookup"}
  /\ Fault
  /\ IF x \in Workers THEN Goto(x, "throw") ELSE Leave(x)
  /\ UNCHANGED <<authority, action, intent, failure, read, age, deferred, mail, dropped>>

Crash(x) ==
  /\ proc[x].pc # "idle"
  /\ Fault
  /\ Leave(x)
  /\ UNCHANGED <<authority, action, intent, failure, read, age, deferred, mail, dropped>>

(* The runtime stops waiting for a handler that goes on by itself; another *)
(* run `v` stands for what the runtime does next.                          *)
Timeout(w, v) ==
  /\ proc[w].pc \in InHandler /\ Attached(w) /\ proc[v].pc = "idle"
  /\ Fault
  /\ proc' = [proc EXCEPT ![w].attempt = 0,
                          ![v] = [proc[w] EXCEPT !.pc = "throw", !.answer = "none"]]
  /\ UNCHANGED <<authority, action, intent, failure, read, age, deferred, mail, dropped>>

(* An action's lease runs out: its worker is gone, or only stalled.        *)
Lapse(n) ==
  /\ action[n].status = "in_progress" /\ ~action[n].lapsed /\ ~Locked(n)
  /\ IF \E w \in Workers : proc[w].pc # "idle" /\ proc[w].send = n /\ Attached(w)
       THEN Fault ELSE UNCHANGED faults
  /\ action' = [action EXCEPT ![n].lapsed = TRUE]
  /\ UNCHANGED <<authority, intent, failure, proc, read, age, deferred, mail, dropped>>

-----------------------------------------------------------------------------

Outbox(w)  == Finish(w) \/ Retry(w) \/ Park(w) \/ HookOpen(w) \/ HookApply(w) \/ Parked(w)
Handler(w) == Load(w) \/ Commit(w) \/ SettleRefused(w)
Call(x)    == Repost(x) \/ Post(x) \/ Record(x)

Next ==
  \/ \E w \in Workers : \/ Outbox(w) \/ Handler(w) \/ Call(w) \/ HookThrows(w)
                        \/ \E n \in Sends : Claim(w, n)
                        \/ \E v \in Workers : Timeout(w, v)
  \/ \E s \in Sweeps : Call(s) \/ Lookup(s) \/ \E n \in Sends : ClaimDue(s, n)
  \/ \E x \in Procs : DatabaseFails(x) \/ Crash(x)
  \/ \E n \in Sends : \/ LeaseExpires(n) \/ AcceptByMessageId(n) \/ ApplyEvidence(n)
                      \/ Age(n) \/ Lapse(n)
  \/ LaterDelivery \/ Acknowledge \/ Revoke
  \/ \E t \in Teammates : \/ Resolve(t) \/ Refuse(t)
                          \/ \E decision \in Decisions : ReadFailure(t, decision)

Spec == Init /\ [][Next]_vars

(* Among the runs under way one goes on, the outbox and the reconciler     *)
(* keep draining, leases run out and time passes.  No worker is singled    *)
(* out: one may stand still for as long as another has work.               *)
Fairness ==
  /\ WF_vars(\E w \in Workers : Outbox(w) \/ Handler(w) \/ Call(w))
  /\ WF_vars(\E w \in Workers, n \in Sends : Claim(w, n))
  /\ WF_vars(\E s \in Sweeps : Call(s) \/ Lookup(s))
  /\ WF_vars(\E s \in Sweeps, n \in Sends : ClaimDue(s, n))
  /\ WF_vars(\E n \in Sends : LeaseExpires(n))
  /\ WF_vars(\E n \in Sends : Lapse(n)) /\ WF_vars(\E n \in Sends : Age(n))

FairSpec == Spec /\ Fairness

-----------------------------------------------------------------------------
(* Properties.                                                             *)

(* A send settled as unsent (halted, its authority revoked, or exhausted   *)
(* before it was ever frozen) never reached the provider and never will:   *)
(* no claim is in, or on its way to, the provider call with it.            *)
(* sendIntentTransitions.ts neverSent against freezeRequest.               *)
UnsentNeverReachedProvider ==
  \A n \in Sends :
    intent[n].state = "halted" \/ intent[n].code \in {"revoked", "exhausted"} =>
      /\ ~posted[n]
      /\ \A x \in Procs : ~At(x, n, {"resume", "repost", "post", "answered"})

(* However often a send is claimed, resumed and re-POSTed, the customer is *)
(* sent one message for it: the key is never used after the provider may   *)
(* have forgotten it.                                                      *)
OneCopyPerSend == \A n \in Sends : copies[n] <= 1

(* The failure a teammate is shown is the newest send's: its kind is what  *)
(* that send's state says now, and one that asks for a decision is about a *)
(* send nobody has decided on.  (A failure raised for a send that had no   *)
(* intent speaks of no row.)                                               *)
FailureTellsTheTruth ==
  failure.open /\ ~failure.unsent =>
    \E n \in Sends :
      /\ Newest(n) /\ intent[n].state = failure.kind
      /\ failure.kind \in {"uncertain", "halted"} => intent[n].resolution = "none"

(* A decision is only ever taken on what the teammate was shown: at the    *)
(* step that records it, a teammate's reading of the failure is the state  *)
(* of the newest send, and that send was not decided on before.            *)
DecisionsAreFresh ==
  [][\A n \in Sends :
       intent'[n].resolution \in {"marked_sent", "resend_authorized"}
         /\ intent[n].resolution # intent'[n].resolution =>
       /\ Newest(n) /\ intent[n].resolution = "none"
       /\ \E t \in Teammates : read[t].id = failure.id /\ read[t].kind = intent[n].state]_vars

(* Every send the outbox took on settles or is handed to a teammate, unless *)
(* the hook that gave up on its action could not say so.                   *)
SendsSettle ==
  \A n \in Sends :
    (intent[n].state \in {"queued", "accepted"}) ~>
      (intent[n].state \notin {"queued", "accepted"} \/ n \in dropped)

(* What the comment in settleUncertain says of bad news about a send left  *)
(* undecided: its own failure is still open, to be retargeted.             *)
BadNewsFindsItsFailure ==
  [][\A n \in Sends :
       intent[n].state = "uncertain" /\ intent[n].resolution = "none"
         /\ intent'[n].state \in {"bounced", "failed"} => failure.open]_vars
=============================================================================
