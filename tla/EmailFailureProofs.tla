------------------------- MODULE EmailFailureProofs -------------------------
(***************************************************************************)
(* Proofs about the failure a teammate is shown in EmailSend and about     *)
(* what they decide on it: the failure speaks of the newest send as it is  *)
(* now, and no decision is taken on a failure that has moved since it was  *)
(* read.                                                                   *)
(*                                                                         *)
(* Neither is inductive by itself.  They rest on the chain of sends: a     *)
(* send exists only once every earlier one was resent (Chained), a resent  *)
(* send never touches the failure again, and whatever else an event does   *)
(* to a send it does to its failure in the same step (Fate).               *)
(***************************************************************************)
EXTENDS EmailSendProofs

ResentBefore(n) == \A m \in Sends : m < n => Resent(intent[m])

(* No send, and nobody at work on one, without an action; and no action    *)
(* but the reply's before the sends before it were resent.                 *)
Chained ==
  /\ \A n \in Sends :
       /\ intent[n].state # "none" => action[n].status # "none"
       /\ action[n].status # "none" => ResentBefore(n)
       /\ intent[n].state = "none" => intent[n].resolution = "none"
  /\ \A x \in Procs : proc[x].pc # "idle" => action[proc[x].send].status # "none"

(* The send an open failure shows: its kind is the send's state.           *)
Shown(n) ==
  /\ intent[n].state = failure.kind /\ ~Resent(intent[n])
  /\ failure.kind \in {"uncertain", "halted"} => intent[n].resolution = "none"

Candid ==
  failure.open =>
    /\ failure.kind # "none"
    /\ failure.unsent => failure.kind \in {"bounced", "failed"}
    /\ ~failure.unsent => \E n \in Sends : Shown(n)

(* Teammates are asked only what has an answer.                            *)
Asked == \A t \in Teammates : read[t].kind \in {"none", "uncertain", "halted"}

FailureInv == Inv /\ Chained /\ Candid /\ Asked

-----------------------------------------------------------------------------
(* A send that was not resent is the newest, and there is one newest send. *)
LEMMA UnresentIsNewest ==
  ASSUME Chained, NEW n \in Sends, intent[n].state # "none", ~Resent(intent[n])
  PROVE  Newest(n)
<1>1. ASSUME NEW m \in Chain
      PROVE  m <= n
  <2>1. m \in Sends /\ ResentBefore(m)
    BY <1>1 DEF Chain, Chained
  <2>2. ~(n < m)
    BY <2>1 DEF ResentBefore
  <2> QED  BY <2>1, <2>2, EmailSendAssumption DEF Sends
<1> QED  BY <1>1 DEF Newest, Chain

(* Two newest sends are one.                                               *)
LEMMA OneNewest ==
  ASSUME NEW m \in Sends, NEW n \in Sends, Newest(m), Newest(n)
  PROVE  m = n
BY EmailSendAssumption DEF Newest, Chain, Sends

(* So the failure shows whichever send was not resent.                     *)
LEMMA ShowsTheUnresent ==
  ASSUME FailureInv, NEW n \in Sends, intent[n].state # "none", ~Resent(intent[n]),
         failure.open, ~failure.unsent
  PROVE  Shown(n)
<1>1. PICK m \in Sends : Shown(m)
  BY DEF FailureInv, Candid
<1>2. intent[m].state # "none" /\ ~Resent(intent[m])
  BY <1>1 DEF Shown, FailureInv, Candid
<1>3. m = n
  BY <1>2, UnresentIsNewest, OneNewest DEF FailureInv
<1> QED  BY <1>1, <1>3

-----------------------------------------------------------------------------
(* What becomes of a send and of the failure together, in one event.       *)

(* Nothing a teammate is shown.                                            *)
Quiet(n) ==
  /\ UNCHANGED failure
  /\ intent'[n].resolution = intent[n].resolution
  /\ \/ intent'[n].state = intent[n].state
     \/ intent[n].state = "queued" /\ intent'[n].state = "accepted"

(* Late evidence about a send that was resent.                             *)
Late(n) == Resent(intent[n]) /\ UNCHANGED failure

(* Delivered: there is no failure to show.                                 *)
Cleared(n) == ClearFailure

(* A failure of a send that has none open.                                 *)
Raised(n) ==
  /\ ~Resent(intent[n])
  /\ \/ intent[n].state \in {"queued", "accepted"}
     \/ intent[n].state = "uncertain" /\ intent[n].resolution = "marked_sent"
  /\ intent'[n].state \in Kinds /\ OpenFailure(intent'[n].state, FALSE)
  /\ intent'[n].state \in {"uncertain", "halted"} => intent'[n].resolution = "none"

(* The open failure of an uncertain send turns into what became of it.     *)
Retargeted(n) ==
  /\ ~Resent(intent[n])
  /\ intent'[n].state \in {"bounced", "failed"} /\ RetargetFailure(intent'[n].state)

Fate(n) ==
  /\ \A m \in Sends : m # n => intent'[m] = intent[m]
  /\ (intent'[n].state = "none") <=> (intent[n].state = "none")
  /\ intent'[n].resolution \in {intent[n].resolution, "provider_evidence"}
  /\ Resent(intent'[n]) <=> Resent(intent[n])
  /\ intent'[n].state = "none" => intent'[n].resolution = "none"
  /\ Quiet(n) \/ Late(n) \/ Cleared(n) \/ Raised(n) \/ Retargeted(n)

(* The rest of a step: no action appears, and whoever is at work has one.  *)
Standing ==
  /\ \A n \in Sends : (action'[n].status = "none") <=> (action[n].status = "none")
  /\ \A x \in Procs : proc'[x].pc # "idle" => action[proc'[x].send].status # "none"

(* Nor is anything decided.                                                *)
Undecided ==
  \A n \in Sends : intent'[n].resolution \in {intent[n].resolution, "provider_evidence", "none"}

(* A fate keeps the chain.                                                 *)
LEMMA FateKeepsChain ==
  ASSUME FailureInv, NEW n \in Sends, Fate(n), Standing, proc' \in [Procs -> Proc]
  PROVE  Chained'
<1>1. \A m \in Sends : /\ (intent'[m].state = "none") <=> (intent[m].state = "none")
                       /\ Resent(intent'[m]) <=> Resent(intent[m])
                       /\ intent'[m].state = "none" => intent'[m].resolution = "none"
  BY DEF Fate, FailureInv, Chained
<1>2. \A m \in Sends : ResentBefore(m) => ResentBefore(m)'
  BY <1>1 DEF ResentBefore, Resent
<1>3. \A x \in Procs : proc'[x].send \in Sends
  BY DEF Proc
<1> QED  BY <1>1, <1>2, <1>3 DEF FailureInv, Chained, Standing

(* A fate keeps the failure true: what is shown is the one send that was   *)
(* not resent, before and after.                                           *)
LEMMA FateKeepsCandid ==
  ASSUME FailureInv, NEW n \in Sends, Fate(n)
  PROVE  Candid'
<1>1. failure \in Failure
  BY DEF FailureInv, Inv, TypeOK
<1>2. ASSUME Quiet(n) \/ Late(n)
      PROVE  Candid'
  <2>1. UNCHANGED failure
    BY <1>2 DEF Quiet, Late
  <2>2. ASSUME NEW m \in Sends, Shown(m), failure.open
        PROVE  Shown(m)'
    <3>1. CASE m # n
      BY <2>1, <2>2, <3>1 DEF Fate, Shown, Resent
    <3>2. CASE m = n
      <4>1. Quiet(n)
        BY <1>2, <2>2, <3>2 DEF Late, Shown
      <4>2. failure.kind \in Kinds
        BY <1>1, <2>2 DEF Failure, FailureInv, Candid
      <4> QED  BY <2>1, <2>2, <3>2, <4>1, <4>2 DEF Quiet, Shown, Resent, Kinds
    <3> QED  BY <3>1, <3>2
  <2> QED  BY <2>1, <2>2 DEF FailureInv, Candid
<1>3. CASE Cleared(n)
  BY <1>1, <1>3 DEF Cleared, ClearFailure, Failure, Candid
<1>4. CASE Raised(n)
  <2>1. CASE failure.open
    <3>1. UNCHANGED failure
      BY <1>4, <2>1 DEF Raised, OpenFailure
    <3>2. failure.unsent
      <4> SUFFICES ASSUME ~failure.unsent PROVE FALSE
        BY <1>1 DEF Failure
      <4>1. intent[n].state # "none"
        BY <1>4 DEF Raised, FailureInv, Chained
      <4>2. Shown(n)
        BY <1>4, <2>1, <4>1, ShowsTheUnresent DEF Raised
      <4>3. failure.kind \in Kinds
        BY <1>1, <2>1 DEF Failure, FailureInv, Candid
      <4>4. intent[n].state = "uncertain" /\ intent[n].resolution = "marked_sent"
        BY <1>4, <4>2, <4>3 DEF Raised, Shown, Kinds
      <4> QED  BY <1>4, <4>2, <4>3, <4>4 DEF Raised, Shown, Kinds
    <3> QED  BY <2>1, <3>1, <3>2 DEF FailureInv, Candid
  <2>2. CASE ~failure.open
    <3>1. /\ failure'.kind = intent'[n].state /\ failure'.unsent = FALSE
          /\ failure'.kind # "none"
      BY <1>4, <2>2 DEF Raised, OpenFailure, Kinds
    <3>2. Shown(n)'
      BY <1>4, <3>1 DEF Raised, Shown, Fate
    <3> QED  BY <3>1, <3>2 DEF Candid
  <2> QED  BY <2>1, <2>2
<1>5. CASE Retargeted(n)
  <2>1. CASE failure.open
    <3>1. /\ failure'.kind = intent'[n].state /\ failure'.unsent = failure.unsent
          /\ failure'.kind \in {"bounced", "failed"}
      BY <1>1, <1>5, <2>1 DEF Retargeted, RetargetFailure, Failure
    <3>2. Shown(n)'
      BY <1>5, <3>1 DEF Retargeted, Shown, Fate
    <3> QED  BY <3>1, <3>2 DEF Candid
  <2>2. CASE ~failure.open
    BY <1>5, <2>2 DEF Retargeted, RetargetFailure, Candid
  <2> QED  BY <2>1, <2>2
<1> QED  BY <1>2, <1>3, <1>4, <1>5 DEF Fate

-----------------------------------------------------------------------------
(* The fate of a send in each event.                                       *)

(* Writing one row leaves the others.                                      *)
LEMMA OneRow ==
  ASSUME Inv, NEW n \in Sends, NEW r, Becomes(n, r)
  PROVE  intent'[n] = r /\ \A m \in Sends : m # n => intent'[m] = intent[m]
BY DEF Becomes, Inv, TypeOK

(* What a transition leaves of the state and the resolution.               *)
LEMMA Transition ==
  ASSUME FailureInv, NEW n \in Sends, NEW state \in States, NEW code,
         NEW reconcile \in {"none", "repost", "lookup"},
         \/ Becomes(n, Moved(intent[n], state, reconcile))
         \/ Becomes(n, [Moved(intent[n], state, reconcile) EXCEPT !.code = code])
         \/ Becomes(n, [Moved(intent[n], state, reconcile) EXCEPT !.known = TRUE])
         \/ Becomes(n, [Moved(intent[n], state, reconcile) EXCEPT !.unknown = TRUE])
  PROVE  /\ intent'[n].state = state /\ intent'[n].resolution = intent[n].resolution
         /\ \A m \in Sends : m # n => intent'[m] = intent[m]
<1> DEFINE m == Moved(intent[n], state, reconcile)
<1>1. m \in Intent /\ m.state = state /\ m.resolution = intent[n].resolution
  BY MovedRow DEF FailureInv, Inv, TypeOK
<1>2. PICK r \in {m, [m EXCEPT !.code = code], [m EXCEPT !.known = TRUE],
                  [m EXCEPT !.unknown = TRUE]} : Becomes(n, r)
  OBVIOUS
<1> HIDE DEF m
<1>3. r.state = state /\ r.resolution = intent[n].resolution
  BY <1>1 DEF Intent
<1> QED  BY <1>2, <1>3, OneRow DEF FailureInv

(* What a row's columns say of each other.                                 *)
LEMMA RowFacts ==
  ASSUME FailureInv, NEW n \in Sends
  PROVE  /\ intent[n] \in Intent
         /\ intent[n].state \in {"none", "queued", "accepted"} => intent[n].resolution = "none"
BY DEF FailureInv, Inv, TypeOK, Checks, Chained

(* A write that keeps the resolution and the failure, and at most records  *)
(* an acceptance, is quiet.                                                *)
LEMMA QuietFate ==
  ASSUME FailureInv, NEW n \in Sends, UNCHANGED failure,
         \A m \in Sends : m # n => intent'[m] = intent[m],
         intent'[n].resolution = intent[n].resolution,
         \/ intent'[n].state = intent[n].state
         \/ intent[n].state = "queued" /\ intent'[n].state = "accepted"
  PROVE  Fate(n)
BY RowFacts DEF Fate, Quiet, Resent

(* An ignored event.                                                       *)
LEMMA IgnoredFate ==
  ASSUME FailureInv, NEW n \in Sends, Ignored
  PROVE  Fate(n)
BY QuietFate DEF Ignored

(* Writing a settled state of a send that had none raises its failure.     *)
LEMMA RaisedFate ==
  ASSUME FailureInv, NEW n \in Sends,
         \A m \in Sends : m # n => intent'[m] = intent[m],
         intent[n].state \in {"queued", "accepted"},
         intent'[n].resolution = intent[n].resolution,
         intent'[n].state \in Kinds, OpenFailure(intent'[n].state, FALSE)
  PROVE  Fate(n)
BY RowFacts DEF Fate, Raised, Resent, Kinds

(* A send settled as unsent.                                               *)
LEMMA SettleUnsentFate ==
  ASSUME FailureInv, NEW n \in Sends, NEW state \in {"halted", "failed"}, NEW code,
         SettleUnsent(n, state, code)
  PROVE  Fate(n)
<1>1. CASE intent[n].state = "queued" /\ NeverSent(intent[n])
  <2>1. Becomes(n, [Moved(intent[n], state, "none") EXCEPT !.code = code]) /\ OpenFailure(state, FALSE)
    BY <1>1 DEF SettleUnsent
  <2>2. intent'[n].state = state /\ intent'[n].resolution = intent[n].resolution
    BY <2>1, Transition DEF States
  <2> QED  BY <1>1, <2>1, <2>2, OneRow, RaisedFate DEF FailureInv, Kinds
<1>2. CASE ~(intent[n].state = "queued" /\ NeverSent(intent[n]))
  BY <1>2, IgnoredFate DEF SettleUnsent
<1> QED  BY <1>1, <1>2

(* A send given up as uncertain.                                           *)
LEMMA GiveUpFate ==
  ASSUME FailureInv, NEW n \in Sends, intent[n].state = "queued", GiveUpUncertain(n)
  PROVE  Fate(n)
<1>1. /\ Becomes(n, [Moved(intent[n], "uncertain", "none") EXCEPT !.unknown = TRUE])
      /\ OpenFailure("uncertain", FALSE)
  BY DEF GiveUpUncertain
<1>2. intent'[n].state = "uncertain" /\ intent'[n].resolution = intent[n].resolution
  BY <1>1, Transition DEF States
<1> QED  BY <1>1, <1>2, OneRow, RaisedFate DEF FailureInv, Kinds

(* The provider accepts a send, or rejects it.                             *)
LEMMA AnswerFate ==
  ASSUME FailureInv, NEW n \in Sends, ProviderAccepted(n) \/ ProviderRejected(n)
  PROVE  Fate(n)
<1>1. ASSUME NEW state \in {"accepted", "uncertain"},
             \/ state = "accepted" /\ intent[n].state = "queued"
             \/ state = "uncertain" /\ intent[n].state = "uncertain",
             Becomes(n, [Moved(intent[n], state, "lookup") EXCEPT !.known = TRUE]),
             UNCHANGED failure
      PROVE  Fate(n)
  <2>1. intent'[n].state = state /\ intent'[n].resolution = intent[n].resolution
    BY <1>1, Transition DEF States
  <2> QED  BY <1>1, <2>1, OneRow, QuietFate DEF FailureInv
<1>2. CASE Ignored
  BY <1>2, IgnoredFate
<1>3. CASE /\ intent[n].state = "queued" /\ OpenFailure("failed", FALSE)
           /\ Becomes(n, [Moved(intent[n], "failed", "none") EXCEPT !.code = "rejected"])
  <2>1. intent'[n].state = "failed" /\ intent'[n].resolution = intent[n].resolution
    BY <1>3, Transition DEF States
  <2> QED  BY <1>3, <2>1, OneRow, RaisedFate DEF FailureInv, Kinds
<1> QED  BY <1>1, <1>2, <1>3 DEF ProviderAccepted, ProviderRejected

(* The outbox gives up, or a call's outcome stays unknown.                 *)
LEMMA GivingUpFate ==
  ASSUME FailureInv, NEW n \in Sends,
         DispatchExhausted(n) \/ \E mayRepost \in BOOLEAN : OutcomeUnknown(n, mayRepost)
  PROVE  Fate(n)
<1>1. CASE DispatchExhausted(n)
  BY <1>1, GiveUpFate, SettleUnsentFate DEF DispatchExhausted
<1>2. ASSUME NEW mayRepost \in BOOLEAN, OutcomeUnknown(n, mayRepost)
      PROVE  Fate(n)
  <2>1. CASE intent[n].state # "queued"
    BY <1>2, <2>1, IgnoredFate DEF OutcomeUnknown
  <2>2. CASE intent[n].state = "queued" /\ ~mayRepost
    BY <1>2, <2>2, GiveUpFate DEF OutcomeUnknown
  <2>3. CASE intent[n].state = "queued" /\ mayRepost
    <3>1. /\ Becomes(n, [Moved(intent[n], "queued", "repost") EXCEPT !.unknown = TRUE])
          /\ UNCHANGED failure
      BY <1>2, <2>3 DEF OutcomeUnknown, RepostSchedule
    <3>2. intent'[n].state = "queued" /\ intent'[n].resolution = intent[n].resolution
      BY <3>1, Transition DEF States
    <3> QED  BY <2>3, <3>1, <3>2, OneRow, QuietFate DEF FailureInv
  <2> QED  BY <2>1, <2>2, <2>3
<1> QED  BY <1>1, <1>2

(* Late evidence about an uncertain send: a resent one's failure is the    *)
(* resend's, one marked as sent has none open, and an undecided one's is   *)
(* moved along.                                                            *)
LEMMA SettleUncertainFate ==
  ASSUME FailureInv, NEW n \in Sends, NEW status \in Terminal,
         intent[n].state = "uncertain", SettleUncertain(n, status)
  PROVE  Fate(n)
<1> DEFINE old == intent[n]
           kept == IF old.resolution = "none" THEN "provider_evidence" ELSE old.resolution
           code == IF status = "delivered" THEN old.code ELSE "evidence"
<1>1. Becomes(n, [Moved(old, status, "none") EXCEPT !.resolution = kept, !.code = code])
  BY DEF SettleUncertain
<1>2. intent'[n].state = status /\ intent'[n].resolution = kept
  <2> DEFINE m == Moved(old, status, "none")
  <2>1. m \in Intent /\ m.state = status
    BY MovedRow DEF FailureInv, Inv, TypeOK, States, Terminal
  <2>2. intent'[n] = [m EXCEPT !.resolution = kept, !.code = code]
    BY <1>1, OneRow DEF FailureInv
  <2> HIDE DEF m, kept, code
  <2> QED  BY <2>1, <2>2 DEF Intent
<1>3. \A m \in Sends : m # n => intent'[m] = intent[m]
  BY <1>1, OneRow DEF FailureInv
<1>4. Resent(intent'[n]) <=> Resent(old)
  BY <1>2 DEF Resent
<1>5. Quiet(n) \/ Late(n) \/ Cleared(n) \/ Raised(n) \/ Retargeted(n)
  <2>1. CASE Resent(old)
    BY <2>1 DEF SettleUncertain, Late
  <2>2. CASE ~Resent(old) /\ status = "delivered"
    BY <2>2 DEF SettleUncertain, Cleared
  <2>3. CASE ~Resent(old) /\ status # "delivered" /\ old.resolution = "marked_sent"
    BY <1>2, <2>3 DEF SettleUncertain, Raised, Terminal, Kinds
  <2>4. CASE ~Resent(old) /\ status # "delivered" /\ old.resolution # "marked_sent"
    BY <1>2, <2>4 DEF SettleUncertain, Retargeted, Terminal
  <2> QED  BY <2>1, <2>2, <2>3, <2>4
<1> QED  BY <1>2, <1>3, <1>4, <1>5 DEF Fate, Terminal

(* A status of the provider, whenever it comes.                            *)
LEMMA StatusFate ==
  ASSUME FailureInv, NEW n \in Sends, NEW status \in Terminal, ProviderStatus(n, status)
  PROVE  Fate(n)
<1>1. CASE intent[n].state = "uncertain"
  BY <1>1, SettleUncertainFate DEF ProviderStatus
<1>2. CASE intent[n].state = "accepted" /\ status = "delivered"
  <2>1. Becomes(n, Moved(intent[n], status, "none")) /\ ClearFailure
    BY <1>2 DEF ProviderStatus
  <2>2. intent'[n].state = status /\ intent'[n].resolution = intent[n].resolution
    BY <2>1, Transition DEF States, Terminal
  <2> QED  BY <1>2, <2>1, <2>2, OneRow DEF FailureInv, Fate, Cleared, Resent
<1>3. CASE intent[n].state = "accepted" /\ status # "delivered"
  <2>1. /\ Becomes(n, [Moved(intent[n], status, "none") EXCEPT !.code = "evidence"])
        /\ OpenFailure(status, FALSE)
    BY <1>3 DEF ProviderStatus
  <2>2. intent'[n].state = status /\ intent'[n].resolution = intent[n].resolution
    BY <2>1, Transition DEF States, Terminal
  <2> QED  BY <1>3, <2>1, <2>2, OneRow, RaisedFate DEF FailureInv, Kinds, Terminal
<1>4. CASE intent[n].state \notin {"accepted", "uncertain"}
  BY <1>4, IgnoredFate DEF ProviderStatus
<1> QED  BY <1>1, <1>2, <1>3, <1>4

(* A lookup that cannot settle the send.                                   *)
LEMMA UnsettledFate ==
  ASSUME FailureInv, NEW n \in Sends, ReconcileUnsettled(n)
  PROVE  Fate(n)
<1>1. CASE intent[n].state = "accepted" \/ (intent[n].state = "uncertain" /\ intent[n].known)
  <2>1. Becomes(n, Moved(intent[n], "uncertain", "none"))
    BY <1>1 DEF ReconcileUnsettled
  <2>2. intent'[n].state = "uncertain" /\ intent'[n].resolution = intent[n].resolution
    BY <2>1, Transition DEF States
  <2>3. CASE intent[n].state = "accepted"
    BY <2>1, <2>2, <2>3, OneRow, RaisedFate DEF ReconcileUnsettled, FailureInv, Kinds
  <2>4. CASE intent[n].state = "uncertain" /\ intent[n].known
    BY <2>1, <2>2, <2>4, OneRow, QuietFate DEF ReconcileUnsettled, FailureInv
  <2> QED  BY <1>1, <2>3, <2>4
<1>2. CASE intent[n].state # "accepted" /\ ~(intent[n].state = "uncertain" /\ intent[n].known)
  BY <1>2, IgnoredFate DEF ReconcileUnsettled
<1> QED  BY <1>1, <1>2

(* A lease and a freeze are not the teammate's business.                   *)
LEMMA MarkedFate ==
  ASSUME FailureInv, NEW n \in Sends, UNCHANGED failure,
         \/ \E leased \in BOOLEAN : Becomes(n, [intent[n] EXCEPT !.leased = leased])
         \/ Becomes(n, [intent[n] EXCEPT !.frozen = TRUE])
  PROVE  Fate(n)
<1>1. \A leased : /\ [intent[n] EXCEPT !.leased = leased].state = intent[n].state
                  /\ [intent[n] EXCEPT !.leased = leased].resolution = intent[n].resolution
  BY RowFacts DEF Intent
<1>2. /\ [intent[n] EXCEPT !.frozen = TRUE].state = intent[n].state
      /\ [intent[n] EXCEPT !.frozen = TRUE].resolution = intent[n].resolution
  BY RowFacts DEF Intent
<1>3. PICK r : Becomes(n, r) /\ r.state = intent[n].state /\ r.resolution = intent[n].resolution
  BY <1>1, <1>2
<1> QED  BY <1>3, OneRow, QuietFate DEF FailureInv

-----------------------------------------------------------------------------
(* Steps.  Most leave every action where it is, give one send its fate and *)
(* ask no teammate anything.                                               *)
LEMMA SteadyKeeps ==
  ASSUME FailureInv, Inv', NEW n \in Sends, Fate(n), Standing, UNCHANGED read
  PROVE  FailureInv' /\ Undecided
<1>1. Chained'
  BY FateKeepsChain DEF Inv, TypeOK
<1>2. Candid'
  BY FateKeepsCandid
<1>3. Undecided
  BY DEF Fate, Undecided
<1> QED  BY <1>1, <1>2, <1>3 DEF FailureInv, Asked

(* A run that ends or goes on, and at most its own action's outcome.       *)
LEMMA RunStands ==
  ASSUME FailureInv, NEW x \in Procs, proc[x].pc # "idle",
         Leave(x) \/ \E pc \in PCs : Goto(x, pc),
         UNCHANGED action \/ \E status \in {"pending", "dispatched", "failed"} :
                               SetAction(proc[x].send, status)
  PROVE  Standing /\ proc[x].send \in Sends
<1> DEFINE n == proc[x].send
<1>1. n \in Sends /\ action[n].status # "none" /\ action \in [Sends -> Action]
  BY DEF FailureInv, Inv, TypeOK, Proc, Chained
<1>2. \A m \in Sends : (action'[m].status = "none") <=> (action[m].status = "none")
  <2>1. ASSUME NEW status \in {"pending", "dispatched", "failed"}, SetAction(n, status)
        PROVE  \A m \in Sends : (action'[m].status = "none") <=> (action[m].status = "none")
    <3>1. action' = [action EXCEPT ![n] = [action[n] EXCEPT !.status = status]]
      BY <1>1, <2>1 DEF SetAction
    <3>2. [action[n] EXCEPT !.status = status].status = status
      BY <1>1 DEF Action
    <3> QED  BY <1>1, <3>1, <3>2
  <2> QED  BY <2>1
<1>3. \A y \in Procs : proc'[y].pc # "idle" => action[proc'[y].send].status # "none"
  <2>1. CASE Leave(x)
    BY <2>1, LeaveRun DEF FailureInv, Chained, Inv, TypeOK, Idle
  <2>2. CASE \E pc \in PCs : Goto(x, pc)
    <3>1. PICK p \in Proc : p.send = n /\ proc' = [proc EXCEPT ![x] = p]
      BY <2>2, GotoRun DEF FailureInv
    <3> QED  BY <1>1, <3>1 DEF FailureInv, Chained, Inv, TypeOK
  <2> QED  BY <2>1, <2>2
<1> QED  BY <1>1, <1>2, <1>3 DEF Standing

(* The outbox, but for the hook that flags a send without an intent.       *)
LEMMA OutboxTells ==
  ASSUME FailureInv, Inv', NEW w \in Workers,
         Finish(w) \/ Retry(w) \/ Park(w) \/ HookApply(w) \/ Parked(w) \/ HookThrows(w)
  PROVE  FailureInv' /\ Undecided
<1> DEFINE n == proc[w].send
<1>1. w \in Procs /\ proc[w].pc # "idle" /\ UNCHANGED read
  BY DEF Procs, Finish, Retry, Park, HookApply, Parked, HookThrows
<1>2. Leave(w) \/ \E pc \in {"hookOpen", "hookApply", "parked"} : Goto(w, pc)
  BY DEF Finish, Retry, Park, HookApply, Parked, HookThrows
<1>3. UNCHANGED action \/ \E status \in {"pending", "dispatched", "failed"} : SetAction(n, status)
  BY DEF Finish, Retry, Park, HookApply, Parked, HookThrows
<1>4. Standing /\ n \in Sends
  BY <1>1, <1>2, <1>3, RunStands DEF PCs, InHook
<1>5. Fate(n)
  BY <1>4, IgnoredFate, GivingUpFate
     DEF Finish, Retry, Park, HookApply, Parked, HookThrows, Ignored
<1> QED  BY <1>1, <1>4, <1>5, SteadyKeeps

(* The hook of a send without an intent claims no state of any.            *)
LEMMA HookOpenTells ==
  ASSUME FailureInv, Inv', NEW w \in Workers, HookOpen(w)
  PROVE  FailureInv' /\ Undecided
<1>1. w \in Procs /\ proc[w].pc # "idle" /\ UNCHANGED <<action, intent, read>>
  BY DEF Procs, HookOpen
<1>2. Standing /\ 1 \in Sends
  BY <1>1, RunStands, EmailSendAssumption DEF HookOpen, PCs, InHook, Sends
<1>3. Chained'
  BY <1>1, <1>2 DEF FailureInv, Chained, Standing, ResentBefore
<1>4. CASE UNCHANGED failure
  BY <1>1, <1>3, <1>4 DEF FailureInv, Candid, Shown, Asked, Undecided
<1>5. CASE OpenFailure("failed", TRUE)
  <2>1. Candid'
    <3>1. CASE failure.open
      BY <1>1, <1>5, <3>1 DEF OpenFailure, FailureInv, Candid, Shown
    <3>2. CASE ~failure.open
      BY <1>5, <3>2 DEF OpenFailure, Candid
    <3> QED  BY <3>1, <3>2
  <2> QED  BY <1>1, <1>3, <2>1 DEF FailureInv, Asked, Undecided
<1> QED  BY <1>4, <1>5 DEF HookOpen

(* A claim of an action, and of a due send.                                *)
LEMMA ClaimTells ==
  ASSUME FailureInv, Inv', NEW n \in Sends,
         (\E w \in Workers : Claim(w, n)) \/ (\E s \in Sweeps : ClaimDue(s, n))
  PROVE  FailureInv' /\ Undecided
<1>1. /\ action \in [Sends -> Action] /\ proc \in [Procs -> Proc]
      /\ \A x \in Procs : proc[x].pc # "idle" => action[proc[x].send].status # "none"
  BY DEF FailureInv, Inv, TypeOK, Chained
<1>2. ASSUME NEW w \in Workers, Claim(w, n)
      PROVE  FailureInv' /\ Undecided
  <2>1. w \in Procs /\ action[n].status # "none"
    BY <1>2 DEF Procs, Claim
  <2> DEFINE attempt == action[n].attempts + 1
             a == [status |-> "in_progress", attempts |-> attempt, lapsed |-> FALSE]
             p == [pc |-> IF attempt > MaxAttempts THEN "park" ELSE "load",
                   send |-> n, attempt |-> attempt, answer |-> "none"]
  <2>2. /\ a.status = "in_progress" /\ p.send = n
        /\ action' = [action EXCEPT ![n] = a] /\ proc' = [proc EXCEPT ![w] = p]
    BY <1>2 DEF Claim
  <2> HIDE DEF a, p
  <2>3. Standing
    BY <1>1, <2>1, <2>2 DEF Standing
  <2>4. Fate(n) /\ UNCHANGED read
    BY <1>2, IgnoredFate DEF Claim, Ignored
  <2> QED  BY <2>3, <2>4, SteadyKeeps
<1>3. ASSUME NEW s \in Sweeps, ClaimDue(s, n)
      PROVE  FailureInv' /\ Undecided
  <2>1. s \in Procs /\ action[n].status # "none" /\ UNCHANGED <<action, read>>
    BY <1>3 DEF Procs, ClaimDue, FailureInv, Chained
  <2>2. PICK p : p.send = n /\ proc' = [proc EXCEPT ![s] = p]
    <3>1. \A pc : [Idle EXCEPT !.pc = pc, !.send = n].send = n
      BY DEF Idle
    <3> QED  BY <1>3, <3>1 DEF ClaimDue
  <2>3. Standing
    BY <1>1, <2>1, <2>2 DEF Standing
  <2>4. Fate(n)
    BY <1>3, MarkedFate DEF ClaimDue
  <2> QED  BY <2>1, <2>3, <2>4, SteadyKeeps
<1> QED  BY <1>2, <1>3

(* Step 1.  The row of a resend is the new newest send, and by then the    *)
(* failure of the one before it is cleared.                                *)
LEMMA LoadTells ==
  ASSUME FailureInv, Inv', NEW w \in Workers, Load(w)
  PROVE  FailureInv' /\ Undecided
<1> DEFINE n == proc[w].send
<1>1. w \in Procs /\ proc[w].pc = "load" /\ UNCHANGED <<action, failure, read>>
  BY DEF Procs, Load
<1>2. \E pc \in PCs : Goto(w, pc)
  BY DEF Load, Onward, PCs, InHandler
<1>3. Standing /\ n \in Sends /\ action[n].status # "none"
  BY <1>1, <1>2, RunStands DEF FailureInv, Chained
<1>4. CASE UNCHANGED intent
  BY <1>1, <1>3, <1>4, IgnoredFate, SteadyKeeps DEF Ignored
<1>5. CASE intent[n].state = "none" /\ Becomes(n, [NoIntent EXCEPT !.state = "queued"])
  <2>1. /\ intent'[n].state = "queued" /\ intent'[n].resolution = "none"
        /\ intent[n].resolution = "none"
        /\ \A m \in Sends : m # n => intent'[m] = intent[m]
    BY <1>3, <1>5, OneRow DEF NoIntent, FailureInv, Chained
  <2>2. \A m \in Sends : ResentBefore(m) <=> ResentBefore(m)'
    BY <2>1 DEF ResentBefore, Resent
  <2>3. Chained'
    BY <1>1, <1>3, <2>1, <2>2 DEF FailureInv, Chained, Standing
  <2>4. \A m \in Sends : failure.open /\ Shown(m) => Shown(m)'
    BY <1>1, <1>5, <2>1 DEF FailureInv, Candid, Shown, Resent
  <2>5. Candid'
    BY <1>1, <2>4 DEF FailureInv, Candid
  <2> QED  BY <1>1, <2>1, <2>3, <2>5 DEF FailureInv, Asked, Undecided
<1> QED  BY <1>4, <1>5 DEF Load

(* The rest of the handler and the call.                                   *)
LEMMA HandlerTells ==
  ASSUME FailureInv, Inv', NEW x \in Procs,
         (x \in Workers /\ (Commit(x) \/ SettleRefused(x))) \/ Call(x)
  PROVE  FailureInv' /\ Undecided
<1> DEFINE n == proc[x].send
<1>1. proc[x].pc # "idle" /\ UNCHANGED <<action, read>>
  BY DEF Commit, SettleRefused, Call, Repost, Post, Record
<1>2. n \in Sends /\ proc \in [Procs -> Proc]
  BY DEF FailureInv, Inv, TypeOK, Proc
<1>3. CASE ~Post(x)
  <2>1. Leave(x) \/ \E pc \in {"halt", "revoke", "post", "finish", "throw", "commit"} : Goto(x, pc)
    BY <1>3 DEF Commit, SettleRefused, Call, Repost, Record, Onward
  <2>2. Standing
    BY <1>1, <2>1, RunStands DEF PCs, InHandler
  <2>3. Fate(n)
    <3>1. CASE Commit(x)
      BY <1>2, <3>1, IgnoredFate, MarkedFate DEF Commit, Ignored
    <3>2. CASE SettleRefused(x)
      BY <1>2, <3>2, SettleUnsentFate DEF SettleRefused
    <3>3. CASE Repost(x)
      BY <1>2, <3>3, IgnoredFate, GivingUpFate DEF Repost, Ignored
    <3>4. CASE Record(x)
      <4>1. WithinRepostWindow(n) \in BOOLEAN
        BY DEF WithinRepostWindow
      <4> QED  BY <1>2, <3>4, <4>1, IgnoredFate, AnswerFate, GivingUpFate DEF Record
    <3> QED  BY <1>3, <3>1, <3>2, <3>3, <3>4 DEF Call
  <2> QED  BY <1>1, <1>2, <2>2, <2>3, SteadyKeeps
<1>4. CASE Post(x)
  <2>1. PICK answer : proc' = [proc EXCEPT ![x].pc = "answered", ![x].answer = answer]
    BY <1>4 DEF Post
  <2>2. proc'[x].send = n /\ \A y \in Procs : y # x => proc'[y] = proc[y]
    BY <1>2, <2>1 DEF Proc
  <2>3. Standing
    BY <1>1, <2>2 DEF Standing, FailureInv, Chained
  <2>4. Fate(n)
    BY <1>2, <1>4, IgnoredFate DEF Post, Ignored
  <2> QED  BY <1>1, <1>2, <2>3, <2>4, SteadyKeeps
<1> QED  BY <1>3, <1>4

(* The reconciler's lookup, and the faults of a run.                       *)
LEMMA LookupTells ==
  ASSUME FailureInv, Inv', NEW x \in Procs,
         (x \in Sweeps /\ Lookup(x)) \/ DatabaseFails(x) \/ Crash(x)
  PROVE  FailureInv' /\ Undecided
<1> DEFINE n == proc[x].send
<1>1. proc[x].pc # "idle" /\ UNCHANGED <<action, read>>
  BY DEF Lookup, DatabaseFails, Crash, InHandler
<1>2. Leave(x) \/ Goto(x, "throw")
  BY DEF Lookup, DatabaseFails, Crash
<1>3. Standing /\ n \in Sends
  BY <1>1, <1>2, RunStands DEF PCs
<1>4. Fate(n)
  BY <1>3, StatusFate, UnsettledFate, IgnoredFate DEF Lookup, DatabaseFails, Crash, Ignored
<1> QED  BY <1>1, <1>3, <1>4, SteadyKeeps

(* A timeout starts a run for the same send.                               *)
LEMMA TimeoutTells ==
  ASSUME FailureInv, Inv', NEW w \in Workers, NEW v \in Workers, Timeout(w, v)
  PROVE  FailureInv' /\ Undecided
<1>1. /\ w \in Procs /\ v \in Procs /\ proc \in [Procs -> Proc] /\ proc[w] \in Proc
      /\ proc[w].pc # "idle" /\ w # v
  BY DEF Procs, FailureInv, Inv, TypeOK, Timeout, InHandler
<1>2. /\ proc'[w].send = proc[w].send /\ proc'[v].send = proc[w].send
      /\ \A y \in Procs : y # w /\ y # v => proc'[y] = proc[y]
  BY <1>1 DEF Timeout, Proc
<1>3. UNCHANGED <<action, intent, failure, read>>
  BY DEF Timeout
<1>4. Standing
  BY <1>1, <1>2, <1>3 DEF Standing, FailureInv, Chained
<1>5. proc[w].send \in Sends
  BY <1>1 DEF Proc
<1>6. Fate(proc[w].send)
  BY <1>3, <1>5, IgnoredFate DEF Ignored
<1> QED  BY <1>3, <1>4, <1>5, <1>6, SteadyKeeps

(* What happens while no run moves: leases, the provider's events, time.   *)
LEMMA EventsTell ==
  ASSUME FailureInv, Inv',
         \/ \E n \in Sends : \/ LeaseExpires(n) \/ AcceptByMessageId(n) \/ ApplyEvidence(n)
                            \/ Age(n) \/ Lapse(n)
         \/ Revoke \/ UNCHANGED vars
  PROVE  FailureInv' /\ Undecided
<1>1. action \in [Sends -> Action]
  BY DEF FailureInv, Inv, TypeOK
<1>2. UNCHANGED <<proc, read>>
  BY DEF LeaseExpires, AcceptByMessageId, ApplyEvidence, Age, Lapse, Revoke, vars
<1>3. \A m \in Sends : (action'[m].status = "none") <=> (action[m].status = "none")
  <2>1. ASSUME NEW n \in Sends, Lapse(n)
        PROVE  \A m \in Sends : (action'[m].status = "none") <=> (action[m].status = "none")
    <3>1. [action[n] EXCEPT !.lapsed = TRUE].status = action[n].status
      BY <1>1 DEF Action
    <3>2. action' = [action EXCEPT ![n] = [action[n] EXCEPT !.lapsed = TRUE]]
      BY <1>1, <2>1 DEF Lapse
    <3> QED  BY <1>1, <3>1, <3>2
  <2> QED  BY <2>1 DEF LeaseExpires, AcceptByMessageId, ApplyEvidence, Age, Revoke, vars
<1>4. Standing
  BY <1>2, <1>3 DEF Standing, FailureInv, Chained
<1>5. \E n \in Sends : Fate(n)
  <2>1. 1 \in Sends
    BY EmailSendAssumption DEF Sends
  <2>2. ASSUME NEW n \in Sends, LeaseExpires(n) PROVE Fate(n)
    BY <2>2, MarkedFate DEF LeaseExpires
  <2>3. ASSUME NEW n \in Sends, AcceptByMessageId(n) \/ ApplyEvidence(n) PROVE Fate(n)
    BY <2>3, AnswerFate, StatusFate DEF AcceptByMessageId, ApplyEvidence
  <2>4. CASE Ignored
    BY <2>1, <2>4, IgnoredFate
  <2> QED  BY <2>2, <2>3, <2>4 DEF Age, Lapse, Revoke, vars, Ignored
<1> QED  BY <1>2, <1>4, <1>5, SteadyKeeps

-----------------------------------------------------------------------------
(* Teammates.  A failure that is cleared shows nothing.                    *)
LEMMA ClearingTells ==
  ASSUME FailureInv, Inv', LaterDelivery \/ Acknowledge
  PROVE  FailureInv' /\ Undecided
<1>1. UNCHANGED <<intent, action, proc, read>> /\ ClearFailure
  BY DEF LaterDelivery, Acknowledge
<1>2. Candid'
  BY <1>1 DEF ClearFailure, Candid, FailureInv, Inv, TypeOK, Failure
<1> QED  BY <1>1, <1>2 DEF FailureInv, Chained, ResentBefore, Asked, Undecided

(* A teammate is asked only about an uncertain or a halted send.           *)
LEMMA ReadingTells ==
  ASSUME FailureInv, Inv', NEW t \in Teammates,
         Refuse(t) \/ \E decision \in Decisions : ReadFailure(t, decision)
  PROVE  FailureInv' /\ Undecided
<1>1. UNCHANGED <<intent, action, proc, failure>> /\ read \in [Teammates -> Read]
  BY DEF Refuse, ReadFailure, FailureInv, Inv, TypeOK
<1>2. Asked'
  <2>1. CASE Refuse(t)
    BY <1>1, <2>1 DEF Refuse, NoRead, FailureInv, Asked
  <2>2. ASSUME NEW decision \in Decisions, ReadFailure(t, decision)
        PROVE  Asked'
    <3>1. failure \in Failure
      BY DEF FailureInv, Inv, TypeOK
    <3>2. failure.kind \in {"uncertain", "halted"}
      BY <2>2, <3>1 DEF ReadFailure, DecisionsByKind, Failure, Kinds
    <3> QED  BY <1>1, <2>2, <3>2 DEF ReadFailure, FailureInv, Asked
  <2> QED  BY <2>1, <2>2
<1> QED  BY <1>1, <1>2 DEF FailureInv, Chained, ResentBefore, Candid, Shown, Undecided

(* What a decision finds and does, in one transaction: the newest send, as *)
(* the teammate read it and undecided, and no failure left.                *)
LEMMA Decided ==
  ASSUME FailureInv, NEW t \in Teammates, Resolve(t)
  PROVE  \E n \in Sends :
           /\ Newest(n) /\ intent[n].resolution = "none" /\ intent[n].state # "none"
           /\ read[t].id = failure.id /\ read[t].kind = intent[n].state
           /\ intent'[n].state = intent[n].state
           /\ intent'[n].resolution = Resolution(read[t].decision)
           /\ \A m \in Sends : m # n => intent'[m] = intent[m]
           /\ \/ UNCHANGED action
              \/ /\ Resolution(read[t].decision) = "resend_authorized"
                 /\ n + 1 \in Sends /\ action' = [action EXCEPT ![n + 1] = Enqueued]
<1>1. PICK n \in Sends :
        /\ Newest(n) /\ Resolvable(n, read[t].decision) /\ LocksOpen(t)
        /\ Becomes(n, [Moved(intent[n], intent[n].state, "none")
                         EXCEPT !.resolution = Resolution(read[t].decision)])
        /\ action' = IF read[t].decision = "resend" THEN [action EXCEPT ![n + 1] = Enqueued]
                                                     ELSE action
  BY DEF Resolve
<1>2. intent[n].resolution = "none" /\ intent[n].state \in {"uncertain", "halted"}
  BY <1>1 DEF Resolvable
<1>3. /\ failure.open /\ read[t].id = failure.id /\ read[t].kind = failure.kind
      /\ failure.kind \in {"uncertain", "halted"} /\ ~failure.unsent
  <2>1. failure \in Failure
    BY DEF FailureInv, Inv, TypeOK
  <2> QED  BY <1>1, <2>1 DEF LocksOpen, FailureInv, Candid, Asked, Failure
<1>4. intent[n].state = failure.kind
  BY <1>2, <1>3, ShowsTheUnresent DEF Resent, Shown
<1>5. /\ intent'[n].state = intent[n].state
      /\ intent'[n].resolution = Resolution(read[t].decision)
      /\ \A m \in Sends : m # n => intent'[m] = intent[m]
  <2> DEFINE m == Moved(intent[n], intent[n].state, "none")
             resolution == Resolution(read[t].decision)
  <2>1. m \in Intent /\ m.state = intent[n].state
    BY MovedRow, RowFacts DEF Intent
  <2>2. Becomes(n, [m EXCEPT !.resolution = resolution])
    BY <1>1
  <2> HIDE DEF m, resolution
  <2>3. /\ [m EXCEPT !.resolution = resolution].state = intent[n].state
        /\ [m EXCEPT !.resolution = resolution].resolution = resolution
    BY <2>1 DEF Intent
  <2> QED  BY <2>2, <2>3, OneRow DEF FailureInv, resolution
<1>6. \/ UNCHANGED action
      \/ /\ Resolution(read[t].decision) = "resend_authorized"
         /\ n + 1 \in Sends /\ action' = [action EXCEPT ![n + 1] = Enqueued]
  BY <1>1, EmailSendAssumption DEF Resolution, Resolvable, Sends
<1> QED  BY <1>1, <1>2, <1>3, <1>4, <1>5, <1>6

(* A decision extends the chain by one send at most, after the one it      *)
(* resends, and leaves no failure open.                                    *)
LEMMA ResolveTells ==
  ASSUME FailureInv, Inv', NEW t \in Teammates, Resolve(t)
  PROVE  FailureInv'
<1>1. PICK n \in Sends :
        /\ Newest(n) /\ intent[n].resolution = "none" /\ intent[n].state # "none"
        /\ intent'[n].state = intent[n].state
        /\ intent'[n].resolution = Resolution(read[t].decision)
        /\ \A m \in Sends : m # n => intent'[m] = intent[m]
        /\ \/ UNCHANGED action
           \/ /\ Resolution(read[t].decision) = "resend_authorized"
              /\ n + 1 \in Sends /\ action' = [action EXCEPT ![n + 1] = Enqueued]
  BY Decided
<1>2. UNCHANGED proc /\ ClearFailure /\ read' = [read EXCEPT ![t] = NoRead]
  BY DEF Resolve
<1>3. \A m \in Sends : Resent(intent[m]) => Resent(intent'[m])
  BY <1>1 DEF Resent
<1>4. \A m \in Sends : ResentBefore(m) => ResentBefore(m)'
  BY <1>3 DEF ResentBefore
<1>5. action \in [Sends -> Action]
  BY DEF FailureInv, Inv, TypeOK
<1>6. \A m \in Sends : action[m].status # "none" => action'[m].status # "none"
  BY <1>1, <1>5 DEF Enqueued
<1>7. ASSUME NEW m \in Sends, action'[m].status # "none"
      PROVE  ResentBefore(m)'
  <2>1. CASE action[m].status # "none"
    BY <1>4, <2>1 DEF FailureInv, Chained
  <2>2. CASE action[m].status = "none"
    <3>1. m = n + 1 /\ Resent(intent'[n])
      BY <1>1, <1>5, <1>7, <2>2 DEF Resent
    <3>2. \A i \in Sends : i < n => Resent(intent'[i])
      BY <1>1, <1>3 DEF FailureInv, Chained, ResentBefore
    <3> QED  BY <3>1, <3>2, EmailSendAssumption DEF ResentBefore, Sends
  <2> QED  BY <2>1, <2>2
<1>8. Chained'
  BY <1>1, <1>2, <1>6, <1>7 DEF FailureInv, Chained, Inv, TypeOK, Proc
<1>9. Candid'
  BY <1>2 DEF ClearFailure, Candid, FailureInv, Inv, TypeOK, Failure
<1>10. Asked'
  BY <1>2 DEF FailureInv, Asked, NoRead, Inv, TypeOK
<1> QED  BY <1>8, <1>9, <1>10 DEF FailureInv

-----------------------------------------------------------------------------
(* The reply has its action, nothing is sent and no failure is open.       *)
LEMMA FailureInitially == Init => FailureInv
<1> SUFFICES ASSUME Init PROVE FailureInv
  OBVIOUS
<1>1. Inv
  BY Initially
<1>2. \A n \in Sends : /\ intent[n].state = "none" /\ intent[n].resolution = "none"
                       /\ action[n].status # "none" => n = 1
  BY DEF Init, NoIntent, NoAction
<1>3. \A n \in Sends : ~(n < 1)
  BY EmailSendAssumption DEF Sends
<1>4. \A x \in Procs : proc[x].pc = "idle"
  BY DEF Init, Idle
<1>5. Chained
  BY <1>2, <1>3, <1>4 DEF Chained, ResentBefore
<1> QED  BY <1>1, <1>5 DEF Init, NoRead, FailureInv, Candid, Asked

(* Every step keeps the invariant, and all but a decision decide nothing.  *)
LEMMA NextTells ==
  ASSUME FailureInv, [Next]_vars
  PROVE  FailureInv' /\ (Undecided \/ \E t \in Teammates : Resolve(t))
<1>0. Inv'
  BY NextKeeps DEF FailureInv
<1>1. CASE \E w \in Workers : \/ Outbox(w) \/ Handler(w) \/ Call(w) \/ HookThrows(w)
                              \/ \E n \in Sends : Claim(w, n)
                              \/ \E v \in Workers : Timeout(w, v)
  BY <1>0, <1>1, OutboxTells, HookOpenTells, ClaimTells, LoadTells, HandlerTells, TimeoutTells
     DEF Outbox, Handler, Procs
<1>2. CASE \E s \in Sweeps : Call(s) \/ Lookup(s) \/ \E n \in Sends : ClaimDue(s, n)
  BY <1>0, <1>2, HandlerTells, LookupTells, ClaimTells DEF Procs
<1>3. CASE \E x \in Procs : DatabaseFails(x) \/ Crash(x)
  BY <1>0, <1>3, LookupTells
<1>4. CASE \/ \E n \in Sends : \/ LeaseExpires(n) \/ AcceptByMessageId(n) \/ ApplyEvidence(n)
                              \/ Age(n) \/ Lapse(n)
           \/ Revoke \/ UNCHANGED vars
  BY <1>0, <1>4, EventsTell
<1>5. CASE LaterDelivery \/ Acknowledge
  BY <1>0, <1>5, ClearingTells
<1>6. CASE \E t \in Teammates : Refuse(t) \/ \E decision \in Decisions : ReadFailure(t, decision)
  BY <1>0, <1>6, ReadingTells
<1>7. CASE \E t \in Teammates : Resolve(t)
  BY <1>0, <1>7, ResolveTells
<1> QED  BY <1>1, <1>2, <1>3, <1>4, <1>5, <1>6, <1>7 DEF Next

(* The strengthening holds in every behaviour.                             *)
THEOREM FailureInvariance == Spec => []FailureInv
<1>1. FailureInv /\ [Next]_vars => FailureInv'
  BY NextTells
<1> QED  BY <1>1, FailureInitially, PTL DEF Spec

(* While a failure is open it is the newest send's, its kind is what that  *)
(* send's row says now, and one that asks for a decision is about a send   *)
(* nobody decided on: every event that moves a send moves its failure in   *)
(* the same transaction, and no event of an older send touches it.         *)
THEOREM FailuresTellTheTruth == Spec => []FailureTellsTheTruth
<1>1. FailureInv => FailureTellsTheTruth
  <2> SUFFICES ASSUME FailureInv, failure.open, ~failure.unsent
               PROVE  \E n \in Sends :
                        /\ Newest(n) /\ intent[n].state = failure.kind
                        /\ failure.kind \in {"uncertain", "halted"} => intent[n].resolution = "none"
    BY DEF FailureTellsTheTruth
  <2>1. PICK n \in Sends : Shown(n)
    BY DEF FailureInv, Candid
  <2>2. Newest(n)
    BY <2>1, UnresentIsNewest DEF FailureInv, Candid, Shown
  <2> QED  BY <2>1, <2>2 DEF Shown
<1> QED  BY <1>1, FailureInvariance, PTL

(* However long a teammate takes between reading a failure and deciding on *)
(* it, what they decide on is what the newest send is at that step, and it *)
(* was not decided on before.                                              *)
THEOREM FreshDecisions == Spec => DecisionsAreFresh
<1> DEFINE Fresh ==
      \A n \in Sends :
        intent'[n].resolution \in {"marked_sent", "resend_authorized"}
          /\ intent[n].resolution # intent'[n].resolution =>
        /\ Newest(n) /\ intent[n].resolution = "none"
        /\ \E t \in Teammates : read[t].id = failure.id /\ read[t].kind = intent[n].state
<1>1. FailureInv /\ [Next]_vars => [Fresh]_vars
  <2> SUFFICES ASSUME FailureInv, [Next]_vars PROVE Fresh
    OBVIOUS
  <2>1. CASE Undecided
    BY <2>1 DEF Undecided
  <2>2. CASE \E t \in Teammates : Resolve(t)
    BY <2>2, Decided
  <2> QED  BY <2>1, <2>2, NextTells
<1> QED  BY <1>1, FailureInvariance, PTL DEF Spec, DecisionsAreFresh
=============================================================================
