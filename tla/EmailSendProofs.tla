-------------------------- MODULE EmailSendProofs --------------------------
(***************************************************************************)
(* Proofs about EmailSend, for any number of sends, workers, sweeps and    *)
(* teammates: its rows are always ones their table accepts (TypeOK), a     *)
(* send settled as unsent never reaches the provider, and no send leaves   *)
(* more than one copy.                                                     *)
(*                                                                         *)
(* The second fact is not inductive by itself.  It rests on the freeze:    *)
(* whoever is on the way to the provider, and whatever reached it, has a   *)
(* frozen row (Sound), a freeze is never undone, and a row settles as      *)
(* unsent only while it is not frozen and freezes only while it is queued. *)
(* The third rests on the provider's memory of the key (KeyHeld).          *)
(***************************************************************************)
EXTENDS EmailSend, TLAPS

Unsent(r) == r.state = "halted" \/ r.code \in {"revoked", "exhausted"}
OnTheWay  == {"resume", "repost", "post", "answered"}

RowOK(r) ==
  /\ r \in Intent
  /\ Checks(r)
  /\ Unsent(r) => ~r.frozen
  /\ r.state \in {"none", "queued"} => r.code = "none"
  /\ r.state = "none" => ~r.frozen

Sound ==
  /\ \A n \in Sends : RowOK(intent[n])
  /\ \A n \in Sends : posted[n] => intent[n].frozen
  /\ \A x \in Procs : proc[x].pc \in OnTheWay => intent[proc[x].send].frozen

Inv == TypeOK /\ Sound

(* What a step may make of a row: nothing undoes a freeze.                 *)
RowStep(r, s) == RowOK(s) /\ (r.frozen => s.frozen)

-----------------------------------------------------------------------------
(* A transition's row, field by field.                                     *)
LEMMA MovedRow ==
  ASSUME NEW r \in Intent, NEW state \in States, NEW reconcile \in {"none", "repost", "lookup"}
  PROVE  /\ Moved(r, state, reconcile) \in Intent
         /\ Moved(r, state, reconcile).state = state
         /\ Moved(r, state, reconcile).reconcile = reconcile
         /\ Moved(r, state, reconcile).frozen = r.frozen
         /\ Moved(r, state, reconcile).unknown = r.unknown
         /\ Moved(r, state, reconcile).known = r.known
         /\ Moved(r, state, reconcile).code = r.code
         /\ Moved(r, state, reconcile).resolution = r.resolution
BY DEF Moved, Intent

-----------------------------------------------------------------------------
(* The failure stays one its table accepts, whatever is written.           *)
LEMMA FailureTyped ==
  ASSUME failure \in Failure, NEW kind \in Kinds, NEW unsent \in BOOLEAN,
         OpenFailure(kind, unsent) \/ RetargetFailure(kind) \/ ClearFailure
                                   \/ UNCHANGED failure
  PROVE  failure' \in Failure
<1>1. CASE OpenFailure(kind, unsent)
  <2>1. CASE failure.open
    BY <1>1, <2>1 DEF OpenFailure
  <2>2. CASE ~failure.open
    <3>1. failure' = [id |-> failure.id + 1, open |-> TRUE, kind |-> kind, unsent |-> unsent]
      BY <1>1, <2>2 DEF OpenFailure
    <3>2. failure.id + 1 \in Nat
      BY DEF Failure
    <3> QED  BY <3>1, <3>2 DEF Failure
  <2> QED  BY <2>1, <2>2
<1>2. CASE RetargetFailure(kind)
  BY <1>2 DEF RetargetFailure, Failure
<1>3. CASE ClearFailure
  BY <1>3 DEF ClearFailure, Failure
<1> QED  BY <1>1, <1>2, <1>3

(* What an event does to its send's row and to the failure.                *)
Stepped(n) ==
  /\ \E r : RowStep(intent[n], r) /\ intent' = [intent EXCEPT ![n] = r]
  /\ failure' \in Failure

(* An ignored event changes nothing.                                       *)
LEMMA IgnoredSteps ==
  ASSUME Inv, NEW n \in Sends, Ignored
  PROVE  Stepped(n)
<1>1. RowStep(intent[n], intent[n])
  BY DEF Inv, Sound, RowStep
<1>2. intent' = [intent EXCEPT ![n] = intent[n]]
  BY DEF Inv, TypeOK, Ignored
<1> QED  BY <1>1, <1>2 DEF Stepped, Ignored, Inv, TypeOK

(* Settling a send as unsent needs a row that is not frozen.               *)
LEMMA SettleUnsentSteps ==
  ASSUME Inv, NEW n \in Sends, NEW state \in {"halted", "failed"},
         NEW code \in {"none", "revoked", "exhausted"}, SettleUnsent(n, state, code)
  PROVE  Stepped(n)
<1>1. CASE intent[n].state = "queued" /\ NeverSent(intent[n])
  <2> DEFINE m == Moved(intent[n], state, "none")
             r == [m EXCEPT !.code = code]
  <2>1. intent[n] \in Intent /\ RowOK(intent[n])
    BY DEF Inv, Sound, RowOK
  <2>2. /\ m \in Intent /\ m.state = state /\ m.reconcile = "none" /\ m.frozen = intent[n].frozen
        /\ m.known = intent[n].known /\ m.resolution = intent[n].resolution
    BY <2>1, MovedRow DEF States
  <2> HIDE DEF m
  <2>3. /\ r \in Intent /\ r.code = code /\ r.state = state /\ r.reconcile = "none"
        /\ r.frozen = intent[n].frozen /\ r.known = intent[n].known
        /\ r.resolution = intent[n].resolution
    BY <2>2 DEF Intent
  <2> HIDE DEF r
  <2>4. RowStep(intent[n], r)
    BY <1>1, <2>1, <2>3 DEF RowStep, RowOK, Checks, Unsent, NeverSent
  <2>5. intent' = [intent EXCEPT ![n] = r] /\ OpenFailure(state, FALSE)
    BY <1>1 DEF SettleUnsent, Becomes, r, m
  <2>6. failure' \in Failure
    BY <2>5, FailureTyped DEF Inv, TypeOK, Kinds
  <2> QED  BY <2>4, <2>5, <2>6 DEF Stepped
<1>2. CASE ~(intent[n].state = "queued" /\ NeverSent(intent[n]))
  BY <1>2, IgnoredSteps DEF SettleUnsent
<1> QED  BY <1>1, <1>2

(* A definite rejection of a queued send.                                  *)
LEMMA ProviderRejectedSteps ==
  ASSUME Inv, NEW n \in Sends, ProviderRejected(n)
  PROVE  Stepped(n)
<1>1. CASE intent[n].state = "queued"
  <2> DEFINE m == Moved(intent[n], "failed", "none")
             r == [m EXCEPT !.code = "rejected"]
  <2>1. intent[n] \in Intent /\ RowOK(intent[n])
    BY DEF Inv, Sound, RowOK
  <2>2. /\ m \in Intent /\ m.state = "failed" /\ m.reconcile = "none"
        /\ m.frozen = intent[n].frozen /\ m.resolution = intent[n].resolution
    BY <2>1, MovedRow DEF States
  <2> HIDE DEF m
  <2>3. /\ r \in Intent /\ r.code = "rejected" /\ r.state = "failed" /\ r.reconcile = "none"
        /\ r.frozen = intent[n].frozen /\ r.resolution = intent[n].resolution
    BY <2>2 DEF Intent
  <2> HIDE DEF r
  <2>4. RowStep(intent[n], r)
    BY <1>1, <2>1, <2>3 DEF RowStep, RowOK, Checks, Unsent
  <2>5. intent' = [intent EXCEPT ![n] = r] /\ OpenFailure("failed", FALSE)
    BY <1>1 DEF ProviderRejected, Becomes, r, m
  <2>6. failure' \in Failure
    BY <2>5, FailureTyped DEF Inv, TypeOK, Kinds
  <2> QED  BY <2>4, <2>5, <2>6 DEF Stepped
<1>2. CASE intent[n].state # "queued"
  BY <1>2, IgnoredSteps DEF ProviderRejected
<1> QED  BY <1>1, <1>2

(* An acceptance, of a queued send or late, of an uncertain one.           *)
LEMMA ProviderAcceptedSteps ==
  ASSUME Inv, NEW n \in Sends, ProviderAccepted(n)
  PROVE  Stepped(n)
<1>1. ASSUME NEW state \in {"accepted", "uncertain"},
             \/ state = "accepted" /\ intent[n].state = "queued"
             \/ state = "uncertain" /\ intent[n].state = "uncertain",
             Becomes(n, [Moved(intent[n], state, "lookup") EXCEPT !.known = TRUE]),
             UNCHANGED failure
      PROVE  Stepped(n)
  <2> DEFINE m == Moved(intent[n], state, "lookup")
             r == [m EXCEPT !.known = TRUE]
  <2>1. intent[n] \in Intent /\ RowOK(intent[n])
    BY DEF Inv, Sound, RowOK
  <2>2. /\ m \in Intent /\ m.state = state /\ m.reconcile = "lookup" /\ m.code = intent[n].code
        /\ m.frozen = intent[n].frozen /\ m.resolution = intent[n].resolution
    BY <2>1, MovedRow DEF States
  <2> HIDE DEF m
  <2>3. /\ r \in Intent /\ r.known = TRUE /\ r.state = state /\ r.reconcile = "lookup"
        /\ r.code = intent[n].code
        /\ r.frozen = intent[n].frozen /\ r.resolution = intent[n].resolution
    BY <2>2 DEF Intent
  <2> HIDE DEF r
  <2>4. RowStep(intent[n], r)
    BY <1>1, <2>1, <2>3 DEF RowStep, RowOK, Checks, Unsent
  <2>5. intent' = [intent EXCEPT ![n] = r]
    BY <1>1 DEF Becomes, r, m
  <2> QED  BY <1>1, <2>4, <2>5 DEF Stepped, Inv, TypeOK
<1>2. CASE Ignored
  BY <1>2, IgnoredSteps
<1> QED  BY <1>1, <1>2 DEF ProviderAccepted

(* A send given up as uncertain.                                           *)
LEMMA GiveUpSteps ==
  ASSUME Inv, NEW n \in Sends, intent[n].state = "queued", GiveUpUncertain(n)
  PROVE  Stepped(n)
<1> DEFINE m == Moved(intent[n], "uncertain", "none")
           r == [m EXCEPT !.unknown = TRUE]
<1>1. intent[n] \in Intent /\ RowOK(intent[n])
  BY DEF Inv, Sound, RowOK
<1>2. /\ m \in Intent /\ m.state = "uncertain" /\ m.reconcile = "none" /\ m.code = intent[n].code
      /\ m.frozen = intent[n].frozen
  BY <1>1, MovedRow DEF States
<1> HIDE DEF m
<1>3. /\ r \in Intent /\ r.state = "uncertain" /\ r.reconcile = "none"
      /\ r.code = intent[n].code /\ r.frozen = intent[n].frozen
  BY <1>2 DEF Intent
<1> HIDE DEF r
<1>4. RowStep(intent[n], r)
  BY <1>1, <1>3 DEF RowStep, RowOK, Checks, Unsent
<1>5. intent' = [intent EXCEPT ![n] = r] /\ OpenFailure("uncertain", FALSE)
  BY DEF GiveUpUncertain, Becomes, r, m
<1>6. failure' \in Failure
  BY <1>5, FailureTyped DEF Inv, TypeOK, Kinds
<1> QED  BY <1>4, <1>5, <1>6 DEF Stepped

(* The outbox gave up on the send's action.                                *)
LEMMA DispatchExhaustedSteps ==
  ASSUME Inv, NEW n \in Sends, DispatchExhausted(n)
  PROVE  Stepped(n)
<1>1. CASE intent[n].state = "queued" /\ ~NeverSent(intent[n])
  BY <1>1, GiveUpSteps DEF DispatchExhausted
<1>2. CASE ~(intent[n].state = "queued" /\ ~NeverSent(intent[n]))
  BY <1>2, SettleUnsentSteps DEF DispatchExhausted
<1> QED  BY <1>1, <1>2

(* An unknown outcome: a re-POST is scheduled only for a frozen request.   *)
LEMMA OutcomeUnknownSteps ==
  ASSUME Inv, NEW n \in Sends, NEW mayRepost \in BOOLEAN, OutcomeUnknown(n, mayRepost),
         intent[n].frozen
  PROVE  Stepped(n)
<1>1. CASE intent[n].state # "queued"
  BY <1>1, IgnoredSteps DEF OutcomeUnknown
<1>2. CASE intent[n].state = "queued" /\ ~mayRepost
  BY <1>2, GiveUpSteps DEF OutcomeUnknown
<1>3. CASE intent[n].state = "queued" /\ mayRepost
  <2> DEFINE m == Moved(intent[n], "queued", "repost")
             r == [m EXCEPT !.unknown = TRUE]
  <2>1. intent[n] \in Intent /\ RowOK(intent[n])
    BY DEF Inv, Sound, RowOK
  <2>2. /\ m \in Intent /\ m.state = "queued" /\ m.reconcile = "repost" /\ m.code = intent[n].code
        /\ m.frozen = intent[n].frozen /\ m.resolution = intent[n].resolution
    BY <1>1, <2>1 DEF Moved, Intent, States
  <2> HIDE DEF m
  <2>3. /\ r \in Intent /\ r.unknown = TRUE /\ r.state = "queued" /\ r.reconcile = "repost"
        /\ r.code = intent[n].code
        /\ r.frozen = intent[n].frozen /\ r.resolution = intent[n].resolution
    BY <2>2 DEF Intent
  <2> HIDE DEF r
  <2>4. RowStep(intent[n], r)
    BY <1>3, <2>1, <2>3 DEF RowStep, RowOK, Checks, Unsent
  <2>5. intent' = [intent EXCEPT ![n] = r] /\ UNCHANGED failure
    BY <1>3 DEF OutcomeUnknown, RepostSchedule, Becomes, r, m
  <2> QED  BY <2>4, <2>5 DEF Stepped, Inv, TypeOK
<1> QED  BY <1>1, <1>2, <1>3

(* Late evidence about an uncertain send.                                  *)
LEMMA SettleUncertainSteps ==
  ASSUME Inv, NEW n \in Sends, NEW status \in Terminal, SettleUncertain(n, status)
  PROVE  Stepped(n)
<1> DEFINE old == intent[n]
           m == Moved(old, status, "none")
           kept == IF old.resolution = "none" THEN "provider_evidence" ELSE old.resolution
           code == IF status = "delivered" THEN old.code ELSE "evidence"
           r == [m EXCEPT !.resolution = kept, !.code = code]
<1>1. old \in Intent /\ RowOK(old)
  BY DEF Inv, Sound, RowOK
<1>2. /\ m \in Intent /\ m.state = status /\ m.reconcile = "none" /\ m.frozen = old.frozen
  BY <1>1, MovedRow DEF States, Terminal
<1>3. /\ kept \in {"provider_evidence", "marked_sent", "resend_authorized"}
      /\ code \in {"none", "revoked", "exhausted", "rejected", "evidence"}
      /\ code = old.code \/ code = "evidence"
  BY <1>1 DEF Intent
<1>5. intent' = [intent EXCEPT ![n] = r]
  BY DEF SettleUncertain, Becomes
<1>6. failure' \in Failure
  <2>1. \/ UNCHANGED failure \/ ClearFailure
        \/ status \in Kinds /\ (OpenFailure(status, FALSE) \/ RetargetFailure(status))
    BY DEF SettleUncertain, Terminal, Kinds
  <2>2. "failed" \in Kinds /\ failure \in Failure
    BY DEF Inv, TypeOK, Kinds
  <2> QED  BY <2>1, <2>2, FailureTyped
<1> HIDE DEF m, kept, code
<1>4. /\ r \in Intent /\ r.state = status /\ r.reconcile = "none" /\ r.frozen = old.frozen
      /\ r.code = code
  BY <1>2, <1>3 DEF Intent
<1> HIDE DEF r
<1>7. RowStep(old, r)
  BY <1>1, <1>3, <1>4 DEF RowStep, RowOK, Checks, Unsent, Terminal
<1> QED  BY <1>5, <1>6, <1>7 DEF Stepped

(* A provider status, in whatever state it finds the send.                 *)
LEMMA ProviderStatusSteps ==
  ASSUME Inv, NEW n \in Sends, NEW status \in Terminal, ProviderStatus(n, status)
  PROVE  Stepped(n)
<1> DEFINE m == Moved(intent[n], status, "none")
<1>1. intent[n] \in Intent /\ RowOK(intent[n])
  BY DEF Inv, Sound, RowOK
<1>2. /\ m \in Intent /\ m.state = status /\ m.reconcile = "none" /\ m.frozen = intent[n].frozen
      /\ m.code = intent[n].code /\ m.resolution = intent[n].resolution
  BY <1>1, MovedRow DEF States, Terminal
<1>3. CASE intent[n].state = "uncertain"
  BY <1>3, SettleUncertainSteps DEF ProviderStatus
<1>4. CASE intent[n].state = "accepted" /\ status = "delivered"
  <2>1. intent' = [intent EXCEPT ![n] = m] /\ ClearFailure
    BY <1>4 DEF ProviderStatus, Becomes
  <2>2. failure' \in Failure
    BY <2>1, FailureTyped DEF Inv, TypeOK, Kinds
  <2> HIDE DEF m
  <2>3. RowStep(intent[n], m)
    BY <1>1, <1>2, <1>4 DEF RowStep, RowOK, Checks, Unsent
  <2> QED  BY <2>1, <2>2, <2>3 DEF Stepped
<1>5. CASE intent[n].state = "accepted" /\ status # "delivered"
  <2> DEFINE r == [m EXCEPT !.code = "evidence"]
  <2>1. intent' = [intent EXCEPT ![n] = r] /\ OpenFailure(status, FALSE)
    BY <1>5 DEF ProviderStatus, Becomes
  <2>2. status \in Kinds
    BY <1>5 DEF Terminal, Kinds
  <2>3. failure' \in Failure
    BY <2>1, <2>2, FailureTyped DEF Inv, TypeOK
  <2> HIDE DEF m
  <2>4. /\ r \in Intent /\ r.state = status /\ r.reconcile = "none" /\ r.frozen = intent[n].frozen
        /\ r.code = "evidence" /\ r.resolution = intent[n].resolution
    BY <1>2 DEF Intent
  <2> HIDE DEF r
  <2>5. RowStep(intent[n], r)
    BY <1>1, <1>5, <2>4 DEF RowStep, RowOK, Checks, Unsent, Terminal
  <2> QED  BY <2>1, <2>3, <2>5 DEF Stepped
<1>6. CASE intent[n].state \notin {"accepted", "uncertain"}
  BY <1>6, IgnoredSteps DEF ProviderStatus
<1> QED  BY <1>3, <1>4, <1>5, <1>6

(* A lookup that cannot settle the send.                                   *)
LEMMA ReconcileUnsettledSteps ==
  ASSUME Inv, NEW n \in Sends, ReconcileUnsettled(n)
  PROVE  Stepped(n)
<1> DEFINE m == Moved(intent[n], "uncertain", "none")
<1>1. intent[n] \in Intent /\ RowOK(intent[n])
  BY DEF Inv, Sound, RowOK
<1>2. /\ m \in Intent /\ m.state = "uncertain" /\ m.reconcile = "none"
      /\ m.frozen = intent[n].frozen /\ m.code = intent[n].code
  BY <1>1, MovedRow DEF States
<1>3. CASE intent[n].state = "accepted" \/ (intent[n].state = "uncertain" /\ intent[n].known)
  <2>1. intent' = [intent EXCEPT ![n] = m]
        /\ (OpenFailure("uncertain", FALSE) \/ UNCHANGED failure)
    BY <1>3 DEF ReconcileUnsettled, Becomes
  <2>2. failure' \in Failure
    BY <2>1, FailureTyped DEF Inv, TypeOK, Kinds
  <2> HIDE DEF m
  <2>3. RowStep(intent[n], m)
    BY <1>1, <1>2, <1>3 DEF RowStep, RowOK, Checks, Unsent
  <2> QED  BY <2>1, <2>2, <2>3 DEF Stepped
<1>4. CASE intent[n].state # "accepted" /\ ~(intent[n].state = "uncertain" /\ intent[n].known)
  BY <1>4, IgnoredSteps DEF ReconcileUnsettled
<1> QED  BY <1>3, <1>4

-----------------------------------------------------------------------------
(* A step that moves one run and at most one row keeps Sound, if the run   *)
(* goes on towards the provider only with a frozen row.                    *)
LEMMA RunMoves ==
  ASSUME Inv, NEW x \in Procs, NEW n \in Sends, NEW p \in Proc,
         Stepped(n), proc' = [proc EXCEPT ![x] = p],
         p.pc \in OnTheWay => intent[p.send].frozen \/ (p.send = n /\ intent'[n].frozen),
         \A m \in Sends : posted'[m] => posted[m] \/ (intent[m].frozen)
  PROVE  Sound' /\ intent' \in [Sends -> Intent] /\ proc' \in [Procs -> Proc]
                /\ (\A m \in Sends : Checks(intent'[m])) /\ failure' \in Failure
<1>1. PICK r : RowStep(intent[n], r) /\ intent' = [intent EXCEPT ![n] = r]
  BY DEF Stepped
<1>2. r \in Intent /\ RowOK(r) /\ (intent[n].frozen => r.frozen)
  BY <1>1 DEF RowStep, RowOK
<1>3. intent \in [Sends -> Intent] /\ proc \in [Procs -> Proc]
  BY DEF Inv, TypeOK
<1>4. \A m \in Sends : RowOK(intent'[m]) /\ (intent[m].frozen => intent'[m].frozen)
  BY <1>1, <1>2, <1>3 DEF Inv, Sound
<1>5. \A m \in Sends : posted'[m] => intent'[m].frozen
  BY <1>4 DEF Inv, Sound
<1>6. \A y \in Procs : proc'[y].pc \in OnTheWay => intent'[proc'[y].send].frozen
  <2> TAKE y \in Procs
  <2> HAVE proc'[y].pc \in OnTheWay
  <2>1. CASE y = x
    BY <1>3, <1>4, <2>1 DEF Proc
  <2>2. CASE y # x
    BY <1>3, <1>4, <2>2 DEF Proc, Inv, Sound
  <2> QED  BY <2>1, <2>2
<1>7. Sound'
  BY <1>4, <1>5, <1>6 DEF Sound
<1> QED  BY <1>1, <1>2, <1>3, <1>4, <1>7 DEF RowOK, Stepped

(* The same of a step that moves no run.                                   *)
LEMMA RowMoves ==
  ASSUME Inv, NEW n \in Sends, Stepped(n), UNCHANGED <<proc, posted>>
  PROVE  Sound' /\ intent' \in [Sends -> Intent]
                /\ (\A m \in Sends : Checks(intent'[m])) /\ failure' \in Failure
<1>1. PICK r : RowStep(intent[n], r) /\ intent' = [intent EXCEPT ![n] = r]
  BY DEF Stepped
<1>2. r \in Intent /\ RowOK(r) /\ (intent[n].frozen => r.frozen)
  BY <1>1 DEF RowStep, RowOK
<1>3. intent \in [Sends -> Intent] /\ proc \in [Procs -> Proc]
  BY DEF Inv, TypeOK
<1>4. \A m \in Sends : RowOK(intent'[m]) /\ (intent[m].frozen => intent'[m].frozen)
  BY <1>1, <1>2, <1>3 DEF Inv, Sound
<1>5. \A y \in Procs : proc'[y].pc \in OnTheWay => intent'[proc'[y].send].frozen
  BY <1>3, <1>4 DEF Inv, Sound, Proc
<1>6. Sound'
  BY <1>4, <1>5 DEF Inv, Sound
<1> QED  BY <1>1, <1>2, <1>3, <1>4, <1>6 DEF RowOK, Stepped

(* And of a step that moves neither.                                       *)
LEMMA NothingMoves ==
  ASSUME Inv, UNCHANGED <<intent, proc, posted>>
  PROVE  Sound'
BY DEF Inv, Sound

-----------------------------------------------------------------------------
(* Moving a run to another point of its program, or ending it.             *)
LEMMA GotoRun ==
  ASSUME Inv, NEW x \in Procs, NEW pc \in PCs, Goto(x, pc)
  PROVE  /\ proc[x] \in Proc /\ proc[x].send \in Sends
         /\ \E p \in Proc : /\ p.pc = pc /\ p.send = proc[x].send
                            /\ proc' = [proc EXCEPT ![x] = p]
<1> DEFINE p == [proc[x] EXCEPT !.pc = pc]
<1>1. proc \in [Procs -> Proc] /\ proc[x] \in Proc
  BY DEF Inv, TypeOK
<1>2. p \in Proc /\ p.pc = pc /\ p.send = proc[x].send /\ proc[x].send \in Sends
  BY <1>1 DEF Proc
<1>3. proc' = [proc EXCEPT ![x] = p]
  BY <1>1 DEF Goto
<1> QED  BY <1>1, <1>2, <1>3

(* A run that ends is idle.                                                *)
LEMMA LeaveRun ==
  ASSUME Inv, NEW x \in Procs, Leave(x)
  PROVE  Idle \in Proc /\ Idle.pc \notin OnTheWay /\ proc' = [proc EXCEPT ![x] = Idle]
         /\ proc[x].send \in Sends
<1>1. 1 \in Sends
  BY EmailSendAssumption DEF Sends
<1>2. Idle \in Proc /\ Idle.pc \notin OnTheWay
  BY <1>1 DEF Idle, Proc, PCs, OnTheWay
<1>3. proc[x].send \in Sends
  BY DEF Inv, TypeOK, Proc
<1> QED  BY <1>2, <1>3 DEF Leave

(* Writing back the outcome of an action keeps it well typed.              *)
LEMMA ActionTyped ==
  ASSUME Inv, NEW n \in Sends, NEW status \in {"pending", "dispatched", "failed"},
         SetAction(n, status) \/ UNCHANGED action
  PROVE  action' \in [Sends -> Action]
<1>1. action \in [Sends -> Action] /\ action[n] \in Action
  BY DEF Inv, TypeOK
<1>2. [action[n] EXCEPT !.status = status] \in Action
  BY <1>1 DEF Action
<1>3. CASE SetAction(n, status)
  <2>1. action' = [action EXCEPT ![n] = [action[n] EXCEPT !.status = status]]
    BY <1>1, <1>3 DEF SetAction
  <2> HIDE DEF SetAction
  <2> QED  BY <1>1, <1>2, <2>1
<1> QED  BY <1>1, <1>3

(* A run that ends, or goes on anywhere but towards the provider, with at  *)
(* most its own send's row changed.                                        *)
LEMMA RunGoesOn ==
  ASSUME Inv, NEW x \in Procs, Stepped(proc[x].send), UNCHANGED posted,
         \/ Leave(x)
         \/ \E pc \in PCs : Goto(x, pc) /\ (pc \in OnTheWay => intent'[proc[x].send].frozen)
  PROVE  Sound' /\ intent' \in [Sends -> Intent] /\ proc' \in [Procs -> Proc]
                /\ (\A m \in Sends : Checks(intent'[m])) /\ failure' \in Failure
<1>1. CASE Leave(x)
  BY <1>1, LeaveRun, RunMoves
<1>2. CASE \E pc \in PCs : Goto(x, pc) /\ (pc \in OnTheWay => intent'[proc[x].send].frozen)
  <2>1. PICK pc \in PCs : Goto(x, pc) /\ (pc \in OnTheWay => intent'[proc[x].send].frozen)
    BY <1>2
  <2>2. PICK p \in Proc : /\ p.pc = pc /\ p.send = proc[x].send
                          /\ proc' = [proc EXCEPT ![x] = p]
    BY <2>1, GotoRun
  <2>3. proc[x].send \in Sends
    BY DEF Inv, TypeOK, Proc
  <2> QED  BY <2>1, <2>2, <2>3, RunMoves
<1> QED  BY <1>1, <1>2

-----------------------------------------------------------------------------
(* The outbox's steps.                                                     *)
LEMMA OutboxKeeps ==
  ASSUME Inv, NEW w \in Workers, Outbox(w) \/ HookThrows(w)
  PROVE  Inv'
<1> DEFINE n == proc[w].send
<1>0. w \in Procs /\ n \in Sends
  BY DEF Inv, TypeOK, Proc, Procs
<1>1. CASE Finish(w)
  <2>1. Stepped(n)
    BY <1>0, <1>1, IgnoredSteps DEF Finish, Ignored
  <2>2. action' \in [Sends -> Action]
    BY <1>0, <1>1, ActionTyped DEF Finish
  <2> QED  BY <1>0, <1>1, <2>1, <2>2, RunGoesOn DEF Finish, Inv, TypeOK, mail
<1>2. CASE Retry(w)
  <2>1. Stepped(n)
    BY <1>0, <1>2, IgnoredSteps DEF Retry, Ignored
  <2>2. action' \in [Sends -> Action]
    BY <1>0, <1>2, ActionTyped DEF Retry
  <2> QED  BY <1>0, <1>2, <2>1, <2>2, RunGoesOn DEF Retry, Inv, TypeOK, mail
<1>3. CASE Park(w)
  <2>1. Stepped(n)
    BY <1>0, <1>3, IgnoredSteps DEF Park, Ignored
  <2>2. Leave(w) \/ \E pc \in {"hookOpen", "hookApply", "parked"} : Goto(w, pc)
    BY <1>3 DEF Park
  <2>3. Leave(w) \/ \E pc \in PCs : Goto(w, pc) /\ pc \notin OnTheWay
    BY <2>2 DEF PCs, InHook, OnTheWay
  <2> QED  BY <1>0, <1>3, <2>1, <2>3, RunGoesOn DEF Park, Inv, TypeOK, mail
<1>4. CASE HookOpen(w)
  <2>1. failure' \in Failure
    BY <1>4, FailureTyped DEF HookOpen, Inv, TypeOK, Kinds
  <2>2. Stepped(n)
    <3>1. RowStep(intent[n], intent[n]) /\ intent' = [intent EXCEPT ![n] = intent[n]]
      BY <1>0, <1>4 DEF HookOpen, Inv, Sound, TypeOK, RowStep
    <3> QED  BY <2>1, <3>1 DEF Stepped
  <2>3. Goto(w, "parked") /\ "parked" \in PCs /\ "parked" \notin OnTheWay
    BY <1>4 DEF HookOpen, PCs, InHook, OnTheWay
  <2> QED  BY <1>0, <1>4, <2>2, <2>3, RunGoesOn DEF HookOpen, Inv, TypeOK, mail
<1>5. CASE HookApply(w)
  <2>1. Stepped(n)
    BY <1>0, <1>5, DispatchExhaustedSteps DEF HookApply
  <2>2. Goto(w, "parked") /\ "parked" \in PCs /\ "parked" \notin OnTheWay
    BY <1>5 DEF HookApply, PCs, InHook, OnTheWay
  <2> QED  BY <1>0, <1>5, <2>1, <2>2, RunGoesOn DEF HookApply, Inv, TypeOK, mail
<1>6. CASE Parked(w)
  <2>1. Stepped(n)
    BY <1>0, <1>6, IgnoredSteps DEF Parked, Ignored
  <2>2. action' \in [Sends -> Action]
    BY <1>0, <1>6, ActionTyped DEF Parked
  <2> QED  BY <1>0, <1>6, <2>1, <2>2, RunGoesOn DEF Parked, Inv, TypeOK, mail
<1>7. CASE HookThrows(w)
  <2>1. Stepped(n)
    BY <1>0, <1>7, IgnoredSteps DEF HookThrows, Ignored
  <2>2. action' \in [Sends -> Action]
    BY <1>0, <1>7, ActionTyped DEF HookThrows
  <2> QED  BY <1>0, <1>7, <2>1, <2>2, RunGoesOn DEF HookThrows, Inv, TypeOK, mail
<1> QED  BY <1>1, <1>2, <1>3, <1>4, <1>5, <1>6, <1>7 DEF Outbox

(* A claim starts a run that is nowhere near the provider.                 *)
LEMMA ClaimKeeps ==
  ASSUME Inv, NEW w \in Workers, NEW n \in Sends, Claim(w, n)
  PROVE  Inv'
<1> DEFINE pc == IF action[n].attempts + 1 > MaxAttempts THEN "park" ELSE "load"
           p == [pc |-> pc, send |-> n, attempt |-> action[n].attempts + 1, answer |-> "none"]
<1>1. w \in Procs /\ action[n].attempts + 1 \in Nat /\ action \in [Sends -> Action]
  BY DEF Procs, Inv, TypeOK, Action
<1>2. pc \in PCs /\ pc \notin OnTheWay
  BY DEF PCs, InHandler, OnTheWay
<1>3. p \in Proc /\ p.pc \notin OnTheWay /\ proc' = [proc EXCEPT ![w] = p]
  BY <1>1, <1>2 DEF Proc, Claim
<1>4. [status |-> "in_progress", attempts |-> action[n].attempts + 1, lapsed |-> FALSE] \in Action
  BY <1>1 DEF Action
<1>5. action' \in [Sends -> Action]
  BY <1>1, <1>4 DEF Claim
<1>6. Stepped(n)
  BY IgnoredSteps DEF Claim, Ignored
<1> HIDE DEF p, pc
<1>7. /\ Sound' /\ intent' \in [Sends -> Intent] /\ proc' \in [Procs -> Proc]
      /\ \A m \in Sends : Checks(intent'[m])
      /\ failure' \in Failure
  BY <1>1, <1>3, <1>6, RunMoves DEF Claim, mail
<1> QED  BY <1>5, <1>7 DEF Claim, Inv, TypeOK, mail

-----------------------------------------------------------------------------
(* The handler's steps.  Where a claim goes on from a row, it heads for    *)
(* the provider only with a frozen one.                                    *)
LEMMA OnwardFrozen ==
  ASSUME NEW n \in Sends, NEW to \in {"resume", "throw"}, intent[n].frozen \in BOOLEAN
  PROVE  Onward(n, to) \in PCs /\ (Onward(n, to) \in OnTheWay => intent[n].frozen)
BY DEF Onward, PCs, InHandler, OnTheWay

(* Step 1 resumes only a frozen request, and writes a fresh row otherwise. *)
LEMMA LoadKeeps ==
  ASSUME Inv, NEW w \in Workers, Load(w)
  PROVE  Inv'
<1> DEFINE n == proc[w].send
           new == [NoIntent EXCEPT !.state = "queued"]
<1>1. w \in Procs /\ n \in Sends /\ intent[n] \in Intent /\ RowOK(intent[n])
  BY DEF Inv, TypeOK, Proc, Procs, Sound, RowOK
<1>2. CASE intent[n].state # "none" /\ Goto(w, Onward(n, "resume")) /\ UNCHANGED <<authority, intent>>
  <2>1. Stepped(n)
    BY <1>1, <1>2, IgnoredSteps DEF Load, Ignored
  <2>2. Onward(n, "resume") \in PCs /\ (Onward(n, "resume") \in OnTheWay => intent'[n].frozen)
    BY <1>1, <1>2, OnwardFrozen DEF Intent
  <2>3. \E pc \in PCs : Goto(w, pc) /\ (pc \in OnTheWay => intent'[n].frozen)
    BY <1>2, <2>2
  <2> QED  BY <1>1, <1>2, <2>1, <2>3, RunGoesOn DEF Load, Inv, TypeOK, mail
<1>3. CASE intent[n].state = "none" /\ Becomes(n, new) /\ Goto(w, "commit") /\ UNCHANGED authority
  <2>1. /\ new \in Intent /\ new.state = "queued" /\ ~new.frozen /\ new.code = "none"
        /\ new.resolution = "none" /\ new.reconcile = "none"
    BY DEF NoIntent, Intent, States
  <2>2. RowStep(intent[n], new)
    BY <1>1, <1>3, <2>1 DEF RowStep, RowOK, Checks, Unsent
  <2>3. Stepped(n)
    BY <1>3, <2>2 DEF Stepped, Becomes, Load, Inv, TypeOK
  <2>4. "commit" \in PCs /\ "commit" \notin OnTheWay
    BY DEF PCs, InHandler, OnTheWay
  <2> QED  BY <1>1, <1>3, <2>3, <2>4, RunGoesOn DEF Load, Inv, TypeOK, mail
<1>4. CASE intent[n].state = "none" /\ authority' = "revoked" /\ Goto(w, "finish") /\ UNCHANGED intent
  <2>1. Stepped(n)
    BY <1>1, <1>4, IgnoredSteps DEF Load, Ignored
  <2>2. "finish" \in PCs /\ "finish" \notin OnTheWay
    BY DEF PCs, OnTheWay
  <2> QED  BY <1>1, <1>4, <2>1, <2>2, RunGoesOn DEF Load, Inv, TypeOK, mail
<1> QED  BY <1>2, <1>3, <1>4 DEF Load

(* Steps 2 and 3 send a claim to the provider only with the freeze.        *)
LEMMA CommitKeeps ==
  ASSUME Inv, NEW w \in Workers, Commit(w)
  PROVE  Inv'
<1> DEFINE n == proc[w].send
           r == [intent[n] EXCEPT !.frozen = TRUE]
<1>1. w \in Procs /\ n \in Sends /\ intent[n] \in Intent /\ RowOK(intent[n])
  BY DEF Inv, TypeOK, Proc, Procs, Sound, RowOK
<1>2. CASE UNCHANGED <<intent, age>> /\ \E pc \in {"halt", "revoke"} : Goto(w, pc)
  <2>1. Stepped(n)
    BY <1>1, <1>2, IgnoredSteps DEF Commit, Ignored
  <2>2. \E pc \in PCs : Goto(w, pc) /\ pc \notin OnTheWay
    BY <1>2 DEF PCs, InHandler, OnTheWay
  <2> QED  BY <1>1, <1>2, <2>1, <2>2, RunGoesOn DEF Commit, Inv, TypeOK, mail
<1>3. CASE /\ intent[n].state = "queued" /\ ~intent[n].frozen
           /\ Becomes(n, r) /\ age' = [age EXCEPT ![n] = "fresh"] /\ Goto(w, "post")
  <2>1. /\ r \in Intent /\ r.frozen = TRUE /\ r.state = "queued" /\ r.code = intent[n].code
        /\ r.known = intent[n].known /\ r.unknown = intent[n].unknown
        /\ r.reconcile = intent[n].reconcile /\ r.resolution = intent[n].resolution
    BY <1>1, <1>3 DEF Intent
  <2>5. intent' = [intent EXCEPT ![n] = r] /\ UNCHANGED failure
    BY <1>3 DEF Becomes, Commit
  <2> HIDE DEF r
  <2>2. RowStep(intent[n], r)
    BY <1>1, <1>3, <2>1 DEF RowStep, RowOK, Checks, Unsent
  <2>3. Stepped(n) /\ intent'[n].frozen
    BY <1>1, <2>1, <2>2, <2>5 DEF Stepped, Inv, TypeOK
  <2>4. "post" \in PCs
    BY DEF PCs, InHandler
  <2>6. age' \in [Sends -> {"none", "fresh", "late", "expired"}]
    BY <1>1, <1>3 DEF Inv, TypeOK
  <2> QED  BY <1>1, <1>3, <2>3, <2>4, <2>6, RunGoesOn DEF Commit, Inv, TypeOK, mail
<1>4. CASE Goto(w, Onward(n, "throw")) /\ UNCHANGED <<intent, age>>
  <2>1. Stepped(n)
    BY <1>1, <1>4, IgnoredSteps DEF Commit, Ignored
  <2>2. Onward(n, "throw") \in PCs /\ (Onward(n, "throw") \in OnTheWay => intent'[n].frozen)
    BY <1>1, <1>4, OnwardFrozen DEF Intent
  <2>3. \E pc \in PCs : Goto(w, pc) /\ (pc \in OnTheWay => intent'[n].frozen)
    BY <1>4, <2>2
  <2> QED  BY <1>1, <1>4, <2>1, <2>3, RunGoesOn DEF Commit, Inv, TypeOK, mail
<1> QED  BY <1>2, <1>3, <1>4 DEF Commit

(* A refusal settles the row unsent or leaves it to the claim that froze   *)
(* it.                                                                     *)
LEMMA SettleRefusedKeeps ==
  ASSUME Inv, NEW w \in Workers, SettleRefused(w)
  PROVE  Inv'
<1> DEFINE n == proc[w].send
           pc == IF intent[n].frozen \/ intent[n].state # "queued"
                   THEN Onward(n, "throw") ELSE "finish"
<1>1. w \in Procs /\ n \in Sends /\ intent[n] \in Intent
  BY DEF Inv, TypeOK, Proc, Procs
<1>2. Stepped(n)
  BY <1>1, SettleUnsentSteps DEF SettleRefused
<1>3. pc \in PCs /\ pc \notin OnTheWay
  BY DEF Onward, PCs, InHandler, OnTheWay
<1>4. Goto(w, pc)
  BY DEF SettleRefused
<1> HIDE DEF pc
<1> QED  BY <1>1, <1>2, <1>3, <1>4, RunGoesOn DEF SettleRefused, Inv, TypeOK, mail

-----------------------------------------------------------------------------
(* The provider call.  Whoever is in it has a frozen row.                  *)
LEMMA CallKeeps ==
  ASSUME Inv, NEW x \in Procs, Call(x)
  PROVE  Inv'
<1> DEFINE n == proc[x].send
<1>1. n \in Sends /\ proc[x] \in Proc /\ intent[n] \in Intent
  BY DEF Inv, TypeOK, Proc
<1>2. proc[x].pc \in OnTheWay => intent[n].frozen
  BY DEF Inv, Sound
<1>3. CASE Repost(x)
  <2>0. intent[n].frozen
    BY <1>2, <1>3 DEF Repost, OnTheWay
  <2>1. CASE Goto(x, "post") /\ UNCHANGED <<intent, failure>>
    <3>1. Stepped(n) /\ intent'[n].frozen
      BY <1>1, <2>0, <2>1, IgnoredSteps DEF Ignored
    <3>2. "post" \in PCs
      BY DEF PCs, InHandler
    <3> QED  BY <1>1, <1>3, <2>1, <3>1, <3>2, RunGoesOn DEF Repost, Inv, TypeOK, mail
  <2>2. CASE OutcomeUnknown(n, FALSE) /\ (Goto(x, "finish") \/ Leave(x))
    <3>1. Stepped(n)
      BY <1>1, <2>0, <2>2, OutcomeUnknownSteps
    <3>2. "finish" \in PCs /\ "finish" \notin OnTheWay
      BY DEF PCs, OnTheWay
    <3> QED  BY <1>1, <1>3, <2>2, <3>1, <3>2, RunGoesOn DEF Repost, Inv, TypeOK, mail
  <2> QED  BY <1>3, <2>1, <2>2 DEF Repost
<1>4. CASE Post(x)
  <2>1. PICK answer \in Answers, taken \in BOOLEAN :
          /\ proc' = [proc EXCEPT ![x].pc = "answered", ![x].answer = answer]
          /\ copies' = [copies EXCEPT ![n] = IF taken THEN @ + 1 ELSE @]
    BY <1>4 DEF Post
  <2> DEFINE p == [proc[x] EXCEPT !.pc = "answered", !.answer = answer]
  <2>2. p \in Proc /\ p.send = n /\ proc' = [proc EXCEPT ![x] = p]
    BY <1>1, <2>1 DEF Proc, PCs, InHandler, Inv, TypeOK
  <2>3. intent[n].frozen
    BY <1>2, <1>4 DEF Post, OnTheWay
  <2>4. Stepped(n)
    BY <1>1, <1>4, IgnoredSteps DEF Post, Ignored
  <2>5. \A m \in Sends : posted'[m] => posted[m] \/ intent[m].frozen
    BY <1>4, <2>3 DEF Post, Inv, TypeOK
  <2>6. posted' \in [Sends -> BOOLEAN] /\ copies' \in [Sends -> Nat]
    BY <1>1, <1>4, <2>1 DEF Post, Inv, TypeOK
  <2> HIDE DEF p
  <2>7. /\ Sound' /\ intent' \in [Sends -> Intent] /\ proc' \in [Procs -> Proc]
        /\ \A m \in Sends : Checks(intent'[m])
        /\ failure' \in Failure
    BY <1>1, <2>2, <2>3, <2>4, <2>5, RunMoves
  <2> QED  BY <1>4, <2>6, <2>7 DEF Post, Inv, TypeOK
<1>5. CASE Record(x)
  <2>0. intent[n].frozen
    BY <1>2, <1>5 DEF Record, OnTheWay
  <2>1. Stepped(n)
    <3>1. \/ ProviderAccepted(n) \/ ProviderRejected(n) \/ Ignored
          \/ \E b \in BOOLEAN : OutcomeUnknown(n, b)
      <4>1. WithinRepostWindow(n) \in BOOLEAN
        BY DEF WithinRepostWindow
      <4> QED  BY <1>5, <4>1 DEF Record
    <3> QED  BY <1>1, <2>0, <3>1, ProviderAcceptedSteps, ProviderRejectedSteps, IgnoredSteps,
                OutcomeUnknownSteps
  <2>2. Leave(x) \/ \E pc \in PCs : Goto(x, pc) /\ pc \notin OnTheWay
    <3>1. \A pc \in {"throw", "finish"} : pc \in PCs /\ pc \notin OnTheWay
      BY DEF PCs, OnTheWay
    <3> QED  BY <1>5, <3>1 DEF Record
  <2> QED  BY <1>1, <1>5, <2>1, <2>2, RunGoesOn DEF Record, Inv, TypeOK, mail
<1> QED  BY <1>3, <1>4, <1>5 DEF Call

-----------------------------------------------------------------------------
(* The reconciler's steps.  A send due for a re-POST is frozen: the check  *)
(* on what a schedule means.                                               *)
LEMMA LeasedRow ==
  ASSUME Inv, NEW n \in Sends, NEW leased \in BOOLEAN,
         Becomes(n, [intent[n] EXCEPT !.leased = leased]), UNCHANGED failure
  PROVE  Stepped(n)
<1> DEFINE r == [intent[n] EXCEPT !.leased = leased]
<1>1. intent[n] \in Intent /\ RowOK(intent[n])
  BY DEF Inv, Sound, RowOK
<1>2. /\ r \in Intent /\ r.state = intent[n].state /\ r.frozen = intent[n].frozen
      /\ r.known = intent[n].known /\ r.unknown = intent[n].unknown /\ r.code = intent[n].code
      /\ r.reconcile = intent[n].reconcile /\ r.resolution = intent[n].resolution
  BY <1>1 DEF Intent
<1>3. intent' = [intent EXCEPT ![n] = r]
  BY DEF Becomes
<1> HIDE DEF r
<1>4. RowStep(intent[n], r)
  BY <1>1, <1>2 DEF RowStep, RowOK, Checks, Unsent
<1> QED  BY <1>3, <1>4 DEF Stepped, Inv, TypeOK

(* A sweep is on its way to the provider only for a scheduled re-POST.     *)
LEMMA ClaimDueKeeps ==
  ASSUME Inv, NEW s \in Sweeps, NEW n \in Sends, ClaimDue(s, n)
  PROVE  Inv'
<1> DEFINE pc == IF intent[n].state = "queued" THEN "repost" ELSE "lookup"
           p == [Idle EXCEPT !.pc = pc, !.send = n]
<1>1. s \in Procs /\ 1 \in Sends
  BY EmailSendAssumption DEF Procs, Sends
<1>2. Stepped(n)
  BY LeasedRow DEF ClaimDue
<1>3. p \in Proc /\ p.pc = pc /\ p.send = n
  BY DEF Idle, Proc, PCs
<1>4. p.pc \in OnTheWay => intent[n].frozen
  <2>1. CASE intent[n].state = "queued"
    <3>1. intent[n].reconcile = "repost"
      BY <2>1 DEF ClaimDue, Inv, TypeOK, Checks, Intent
    <3> QED  BY <3>1 DEF Inv, TypeOK, Checks
  <2>2. CASE intent[n].state # "queued"
    BY <1>3, <2>2 DEF OnTheWay
  <2> QED  BY <2>1, <2>2
<1>5. proc' = [proc EXCEPT ![s] = p]
  BY DEF ClaimDue
<1> HIDE DEF p, pc
<1>6. /\ Sound' /\ intent' \in [Sends -> Intent] /\ proc' \in [Procs -> Proc]
      /\ \A m \in Sends : Checks(intent'[m])
      /\ failure' \in Failure
  BY <1>1, <1>2, <1>3, <1>4, <1>5, RunMoves DEF ClaimDue, mail
<1> QED  BY <1>6 DEF ClaimDue, Inv, TypeOK, mail

(* A lookup settles its row, leaves it uncertain or puts it off.           *)
LEMMA LookupKeeps ==
  ASSUME Inv, NEW s \in Sweeps, Lookup(s)
  PROVE  Inv'
<1> DEFINE n == proc[s].send
<1>1. s \in Procs /\ n \in Sends
  BY DEF Inv, TypeOK, Proc, Procs
<1>2. Stepped(n)
  BY <1>1, ProviderStatusSteps, ReconcileUnsettledSteps, IgnoredSteps DEF Lookup
<1>3. deferred' \in [Sends -> Nat]
  BY <1>1 DEF Lookup, Inv, TypeOK
<1> QED  BY <1>1, <1>2, <1>3, RunGoesOn DEF Lookup, Inv, TypeOK, mail

(* A reconcile lease is coordination only.                                 *)
LEMMA LeaseExpiresKeeps ==
  ASSUME Inv, NEW n \in Sends, LeaseExpires(n)
  PROVE  Inv'
<1>1. Stepped(n)
  BY LeasedRow DEF LeaseExpires
<1>2. faults' \in Nat
  BY DEF LeaseExpires, Inv, TypeOK
<1> QED  BY <1>1, <1>2, RowMoves DEF LeaseExpires, Inv, TypeOK, mail

(* The provider's events.                                                  *)
LEMMA EventKeeps ==
  ASSUME Inv, NEW n \in Sends, AcceptByMessageId(n) \/ ApplyEvidence(n)
  PROVE  Inv'
<1>1. Stepped(n)
  BY ProviderAcceptedSteps, ProviderStatusSteps DEF AcceptByMessageId, ApplyEvidence
<1>2. UNCHANGED <<authority, action, proc, read, age, deferred, mail, dropped, faults>>
  BY DEF AcceptByMessageId, ApplyEvidence
<1> QED  BY <1>1, <1>2, RowMoves DEF Inv, TypeOK, mail

-----------------------------------------------------------------------------
(* Teammates, and everything around the sends.                             *)
LEMMA ResolveKeeps ==
  ASSUME Inv, NEW t \in Teammates, Resolve(t)
  PROVE  Inv'
<1>1. PICK n \in Sends :
        /\ Newest(n) /\ Resolvable(n, read[t].decision) /\ LocksOpen(t)
        /\ Becomes(n, [Moved(intent[n], intent[n].state, "none")
                         EXCEPT !.resolution = Resolution(read[t].decision)])
        /\ action' = IF read[t].decision = "resend" THEN [action EXCEPT ![n + 1] = Enqueued]
                                                     ELSE action
  BY DEF Resolve
<1> DEFINE old == intent[n]
           m == Moved(old, old.state, "none")
           resolution == Resolution(read[t].decision)
           r == [m EXCEPT !.resolution = resolution]
<1>2. old \in Intent /\ RowOK(old) /\ old.state \in {"uncertain", "halted"}
  BY <1>1 DEF Inv, Sound, RowOK, Resolvable
<1>3. /\ m \in Intent /\ m.state = old.state /\ m.reconcile = "none" /\ m.frozen = old.frozen
      /\ m.code = old.code /\ m.known = old.known
  BY <1>2, MovedRow DEF States
<1>4. resolution \in {"marked_sent", "resend_authorized"}
  BY DEF Resolution
<1>5. intent' = [intent EXCEPT ![n] = r] /\ ClearFailure
  BY <1>1 DEF Becomes, Resolve
<1> HIDE DEF m, resolution
<1>6. /\ r \in Intent /\ r.state = old.state /\ r.reconcile = "none" /\ r.frozen = old.frozen
      /\ r.code = old.code /\ r.known = old.known
  BY <1>3, <1>4 DEF Intent
<1> HIDE DEF r
<1>7. RowStep(old, r)
  BY <1>2, <1>6 DEF RowStep, RowOK, Checks, Unsent
<1>8. failure' \in Failure
  BY <1>5, FailureTyped DEF Inv, TypeOK, Kinds
<1>9. Stepped(n)
  BY <1>5, <1>7, <1>8 DEF Stepped
<1>10. Enqueued \in Action /\ action' \in [Sends -> Action]
  BY <1>1 DEF Enqueued, Action, Inv, TypeOK
<1>11. read' \in [Teammates -> Read]
  BY DEF Resolve, NoRead, Read, Inv, TypeOK
<1> QED  BY <1>9, <1>10, <1>11, RowMoves DEF Resolve, Inv, TypeOK, mail

(* Reading, refusing and clearing touch no row and no run.                 *)
LEMMA TeammatesKeep ==
  ASSUME Inv,
         \/ Acknowledge \/ LaterDelivery
         \/ \E t \in Teammates : \/ Refuse(t)
                                 \/ \E decision \in Decisions : ReadFailure(t, decision)
  PROVE  Inv'
<1>1. CASE Acknowledge \/ LaterDelivery
  <2>1. failure' \in Failure
    BY <1>1, FailureTyped DEF Acknowledge, LaterDelivery, Inv, TypeOK, Kinds
  <2> QED  BY <1>1, <2>1, NothingMoves DEF Acknowledge, LaterDelivery, Inv, TypeOK, mail
<1>2. CASE \E t \in Teammates : Refuse(t)
  <2>1. read' \in [Teammates -> Read]
    BY <1>2 DEF Refuse, NoRead, Read, Inv, TypeOK
  <2> QED  BY <1>2, <2>1, NothingMoves DEF Refuse, Inv, TypeOK, mail
<1>3. CASE \E t \in Teammates, decision \in Decisions : ReadFailure(t, decision)
  <2>1. PICK t \in Teammates, decision \in Decisions : ReadFailure(t, decision)
    BY <1>3
  <2>2. [id |-> failure.id, kind |-> failure.kind, decision |-> decision] \in Read
    BY DEF Read, Failure, Inv, TypeOK
  <2>3. read' \in [Teammates -> Read]
    BY <2>1, <2>2 DEF ReadFailure, Inv, TypeOK
  <2> QED  BY <2>1, <2>3, NothingMoves DEF ReadFailure, Inv, TypeOK, mail
<1> QED  BY <1>1, <1>2, <1>3

(* Neither do time and a change of policy.                                 *)
LEMMA EnvironmentKeeps ==
  ASSUME Inv,
         Revoke \/ (\E n \in Sends : Age(n) \/ Lapse(n))
  PROVE  Inv'
<1>1. CASE Revoke
  BY <1>1, NothingMoves DEF Revoke, Inv, TypeOK, mail
<1>2. ASSUME NEW n \in Sends, Age(n)
      PROVE  Inv'
  <2>1. age' \in [Sends -> {"none", "fresh", "late", "expired"}]
    BY <1>2 DEF Age, Inv, TypeOK
  <2> QED  BY <1>2, <2>1, NothingMoves DEF Age, Inv, TypeOK, mail
<1>3. ASSUME NEW n \in Sends, Lapse(n)
      PROVE  Inv'
  <2>1. [action[n] EXCEPT !.lapsed = TRUE] \in Action /\ action \in [Sends -> Action]
    BY DEF Action, Inv, TypeOK
  <2>2. action' = [action EXCEPT ![n] = [action[n] EXCEPT !.lapsed = TRUE]]
    BY <1>3, <2>1 DEF Lapse
  <2>3. faults' \in Nat
    BY <1>3 DEF Lapse, Fault, Inv, TypeOK
  <2> QED  BY <1>3, <2>1, <2>2, <2>3, NothingMoves DEF Lapse, Inv, TypeOK, mail
<1> QED  BY <1>1, <1>2, <1>3

(* Faults end a run or turn it back, never towards the provider; a run the *)
(* runtime stopped waiting for stays where it was.                         *)
LEMMA FaultsKeep ==
  ASSUME Inv, NEW x \in Procs, DatabaseFails(x) \/ Crash(x)
  PROVE  Inv'
<1>1. Stepped(proc[x].send)
  BY IgnoredSteps DEF DatabaseFails, Crash, Ignored, Inv, TypeOK, Proc
<1>2. "throw" \in PCs /\ "throw" \notin OnTheWay
  BY DEF PCs, OnTheWay
<1>3. Leave(x) \/ Goto(x, "throw")
  BY DEF DatabaseFails, Crash
<1>4. faults' \in Nat
  BY DEF DatabaseFails, Crash, Fault, Inv, TypeOK
<1> QED  BY <1>1, <1>2, <1>3, <1>4, RunGoesOn DEF DatabaseFails, Crash, Inv, TypeOK, mail

(* A timeout leaves one run as it was and starts another that only fails.  *)
LEMMA TimeoutKeeps ==
  ASSUME Inv, NEW w \in Workers, NEW v \in Workers, Timeout(w, v)
  PROVE  Inv'
<1> DEFINE p == [proc[w] EXCEPT !.attempt = 0]
           q == [proc[w] EXCEPT !.pc = "throw", !.answer = "none"]
<1>1. w \in Procs /\ v \in Procs /\ proc \in [Procs -> Proc] /\ proc[w] \in Proc /\ w # v
  BY DEF Procs, Inv, TypeOK, Timeout, InHandler
<1>2. p \in Proc /\ p.pc = proc[w].pc /\ p.send = proc[w].send
  BY <1>1 DEF Proc
<1>3. q \in Proc /\ q.pc \notin OnTheWay
  BY <1>1 DEF Proc, PCs, OnTheWay
<1>4. proc' = [proc EXCEPT ![w] = p, ![v] = q]
  BY <1>1 DEF Timeout
<1>5. UNCHANGED <<authority, action, intent, failure, read, age, deferred, mail, dropped>>
  BY DEF Timeout
<1>6. faults' \in Nat
  BY DEF Timeout, Fault, Inv, TypeOK
<1> HIDE DEF p, q
<1>7. proc' \in [Procs -> Proc] /\ proc'[w] = p /\ proc'[v] = q
      /\ \A y \in Procs : y # w /\ y # v => proc'[y] = proc[y]
  BY <1>1, <1>2, <1>3, <1>4
<1>8. \A y \in Procs : proc'[y].pc \in OnTheWay => intent'[proc'[y].send].frozen
  BY <1>1, <1>2, <1>3, <1>5, <1>7 DEF Inv, Sound
<1>9. Sound'
  BY <1>5, <1>8 DEF Inv, Sound, mail
<1> QED  BY <1>5, <1>6, <1>7, <1>9 DEF Inv, TypeOK, mail

-----------------------------------------------------------------------------
(* Nothing has been sent initially, and no run is on its way.              *)
LEMMA Initially == Init => Inv
<1> SUFFICES ASSUME Init PROVE Inv
  OBVIOUS
<1>1. 1 \in Sends
  BY EmailSendAssumption DEF Sends
<1>2. NoIntent \in Intent /\ RowOK(NoIntent)
  BY DEF NoIntent, Intent, States, RowOK, Checks, Unsent
<1>3. Idle \in Proc /\ Idle.pc \notin OnTheWay
  BY <1>1 DEF Idle, Proc, PCs, OnTheWay
<1>4. Enqueued \in Action /\ NoAction \in Action
  BY DEF Enqueued, NoAction, Action
<1>5. NoRead \in Read
  BY DEF NoRead, Read
<1>6. failure \in Failure
  BY DEF Init, Failure
<1>7. intent \in [Sends -> Intent] /\ \A n \in Sends : RowOK(intent[n]) /\ Checks(intent[n])
  BY <1>2 DEF Init, RowOK
<1>8. proc \in [Procs -> Proc] /\ \A x \in Procs : proc[x].pc \notin OnTheWay
  BY <1>3 DEF Init
<1>9. action \in [Sends -> Action] /\ read \in [Teammates -> Read]
  BY <1>4, <1>5 DEF Init
<1>10. authority \in {"operator", "automatic", "revoked"}
  BY EmailSendAssumption DEF Init
<1>11. TypeOK
  BY <1>6, <1>7, <1>8, <1>9, <1>10 DEF Init, TypeOK
<1> QED  BY <1>7, <1>8, <1>11 DEF Init, Inv, Sound

(* Every step keeps the invariant.                                         *)
LEMMA NextKeeps == Inv /\ [Next]_vars => Inv'
<1> SUFFICES ASSUME Inv, [Next]_vars PROVE Inv'
  OBVIOUS
<1>1. CASE UNCHANGED vars
  BY <1>1, NothingMoves DEF vars, mail, Inv, TypeOK
<1>2. CASE \E w \in Workers : \/ Outbox(w) \/ Handler(w) \/ Call(w) \/ HookThrows(w)
                              \/ \E n \in Sends : Claim(w, n)
                              \/ \E v \in Workers : Timeout(w, v)
  BY <1>2, OutboxKeeps, ClaimKeeps, LoadKeeps, CommitKeeps, SettleRefusedKeeps, CallKeeps,
     TimeoutKeeps DEF Handler, Procs
<1>3. CASE \E s \in Sweeps : Call(s) \/ Lookup(s) \/ \E n \in Sends : ClaimDue(s, n)
  BY <1>3, CallKeeps, LookupKeeps, ClaimDueKeeps DEF Procs
<1>4. CASE \E x \in Procs : DatabaseFails(x) \/ Crash(x)
  BY <1>4, FaultsKeep
<1>5. CASE \E n \in Sends : LeaseExpires(n) \/ AcceptByMessageId(n) \/ ApplyEvidence(n)
  BY <1>5, LeaseExpiresKeeps, EventKeeps
<1>6. CASE Revoke \/ (\E n \in Sends : Age(n) \/ Lapse(n))
  BY <1>6, EnvironmentKeeps
<1>7. CASE \/ LaterDelivery \/ Acknowledge
           \/ \E t \in Teammates : \/ Resolve(t) \/ Refuse(t)
                                   \/ \E decision \in Decisions : ReadFailure(t, decision)
  BY <1>7, TeammatesKeep, ResolveKeeps
<1> QED  BY <1>1, <1>2, <1>3, <1>4, <1>5, <1>6, <1>7 DEF Next

(* Sound strengthens what the runs check, and holds in every behaviour.    *)
THEOREM Invariance == Spec => []Inv
BY Initially, NextKeeps, PTL DEF Spec

(* No write leaves a send-intent row its table would refuse, nor schedules *)
(* a re-POST of a request that was not frozen.                             *)
THEOREM TypeCorrect == Spec => []TypeOK
<1>1. Inv => TypeOK
  BY DEF Inv
<1> QED  BY <1>1, Invariance, PTL

(* A send settled as unsent has not reached the provider and never will,   *)
(* however many claims and sweeps work it and wherever they are.           *)
THEOREM UnsentStaysUnsent == Spec => []UnsentNeverReachedProvider
<1>1. Inv => UnsentNeverReachedProvider
  <2> SUFFICES ASSUME Inv, NEW n \in Sends, Unsent(intent[n])
               PROVE  ~posted[n] /\ \A x \in Procs : ~At(x, n, OnTheWay)
    BY DEF UnsentNeverReachedProvider, Unsent, OnTheWay
  <2>1. ~intent[n].frozen
    BY DEF Inv, Sound, RowOK
  <2> QED  BY <2>1 DEF Inv, Sound, At
<1> QED  BY <1>1, Invariance, PTL

-----------------------------------------------------------------------------
(* One copy.  The provider's memory of a key outlives every call that was  *)
(* let through, so whoever is in a call finds the copy already taken, or   *)
(* is the first; and a freeze, which makes a key young again, is the first *)
(* use of it.                                                              *)
KeyHeld ==
  /\ \A n \in Sends : copies[n] <= 1 /\ (copies[n] > 0 => posted[n])
  /\ \A x \in Procs : proc[x].pc = "post" => age[proc[x].send] # "expired"

(* A step outside the provider call that starts none keeps it.             *)
LEMMA NoCallKeepsKey ==
  ASSUME Inv, KeyHeld, UNCHANGED <<age, mail>>,
         \A x \in Procs : proc'[x].pc = "post" =>
           proc[x].pc = "post" /\ proc'[x].send = proc[x].send
  PROVE  KeyHeld'
BY DEF KeyHeld, mail

(* A run that ends, or goes on anywhere but into the call.                 *)
LEMMA OutsideTheCall ==
  ASSUME Inv, NEW x \in Procs,
         Leave(x) \/ \E pc \in PCs \ {"post"} : Goto(x, pc)
  PROVE  \A y \in Procs : proc'[y].pc = "post" =>
           proc[y].pc = "post" /\ proc'[y].send = proc[y].send
<1>1. CASE Leave(x)
  BY <1>1, LeaveRun DEF Idle, Inv, TypeOK
<1>2. CASE \E pc \in PCs \ {"post"} : Goto(x, pc)
  <2>1. PICK pc \in PCs \ {"post"} : Goto(x, pc)
    BY <1>2
  <2>2. PICK p \in Proc : p.pc = pc /\ proc' = [proc EXCEPT ![x] = p]
    BY <2>1, GotoRun
  <2> QED  BY <2>1, <2>2 DEF Inv, TypeOK
<1> QED  BY <1>1, <1>2

(* The outbox, the first step, the refusals, the lookups and the faults    *)
(* are no calls.                                                           *)
LEMMA RunsOutsideTheCall ==
  ASSUME Inv, KeyHeld,
         \/ \E w \in Workers : Outbox(w) \/ HookThrows(w) \/ Load(w) \/ SettleRefused(w)
         \/ \E s \in Sweeps : Lookup(s)
         \/ \E x \in Procs : DatabaseFails(x) \/ Crash(x) \/ Record(x)
  PROVE  KeyHeld'
<1> DEFINE Elsewhere == {"hookOpen", "hookApply", "parked", "commit", "finish", "throw", "resume"}
<1>1. PICK x \in Procs : Leave(x) \/ \E pc \in Elsewhere : Goto(x, pc)
  BY DEF Outbox, Finish, Retry, Park, HookOpen, HookApply, Parked, HookThrows, Load,
         SettleRefused, Onward, Lookup, DatabaseFails, Crash, Record, Procs
<1>2. Elsewhere \subseteq PCs \ {"post"}
  BY DEF PCs, InHandler, InHook
<1>3. UNCHANGED <<age, mail>>
  BY DEF Outbox, Finish, Retry, Park, HookOpen, HookApply, Parked, HookThrows, Load,
         SettleRefused, Lookup, DatabaseFails, Crash, Record, mail
<1> QED  BY <1>1, <1>2, <1>3, OutsideTheCall, NoCallKeepsKey

(* A claim, of the outbox or of the reconciler, and a timeout's new run    *)
(* start outside the call.                                                 *)
LEMMA StartsOutsideTheCall ==
  ASSUME Inv, KeyHeld,
         \/ \E w \in Workers, n \in Sends : Claim(w, n)
         \/ \E s \in Sweeps, n \in Sends : ClaimDue(s, n)
         \/ \E w, v \in Workers : Timeout(w, v)
  PROVE  KeyHeld'
<1>1. proc \in [Procs -> Proc]
  BY DEF Inv, TypeOK
<1>2. ASSUME NEW w \in Workers, NEW n \in Sends, Claim(w, n)
      PROVE  KeyHeld'
  BY <1>1, <1>2, NoCallKeepsKey DEF Claim, mail, Procs
<1>3. ASSUME NEW s \in Sweeps, NEW n \in Sends, ClaimDue(s, n)
      PROVE  KeyHeld'
  <2>1. PICK p : p.pc # "post" /\ proc' = [proc EXCEPT ![s] = p]
    <3>1. \A pc \in {"repost", "lookup"} :
            [Idle EXCEPT !.pc = pc, !.send = n].pc # "post"
      BY DEF Idle
    <3> QED  BY <1>3, <3>1 DEF ClaimDue
  <2> QED  BY <1>1, <1>3, <2>1, NoCallKeepsKey DEF ClaimDue, mail, Procs
<1>4. ASSUME NEW w \in Workers, NEW v \in Workers, Timeout(w, v)
      PROVE  KeyHeld'
  <2>1. w \in Procs /\ v \in Procs /\ w # v /\ proc[w] \in Proc
    BY <1>1, <1>4 DEF Procs, Timeout, InHandler
  <2>2. /\ proc'[w].pc = proc[w].pc /\ proc'[w].send = proc[w].send /\ proc'[v].pc = "throw"
        /\ \A y \in Procs : y # w /\ y # v => proc'[y] = proc[y]
    BY <1>1, <1>4, <2>1 DEF Timeout, Proc
  <2>3. \A y \in Procs : proc'[y].pc = "post" =>
          proc[y].pc = "post" /\ proc'[y].send = proc[y].send
    BY <2>2
  <2>4. UNCHANGED <<age, mail>>
    BY <1>4 DEF Timeout, mail
  <2> QED  BY <2>3, <2>4, NoCallKeepsKey
<1> QED  BY <1>2, <1>3, <1>4

(* The freeze starts a call with a key nobody has used.                    *)
LEMMA CommitKeepsKey ==
  ASSUME Inv, KeyHeld, NEW w \in Workers, Commit(w)
  PROVE  KeyHeld'
<1> DEFINE n == proc[w].send
<1>1. w \in Procs /\ n \in Sends /\ UNCHANGED mail
  BY DEF Inv, TypeOK, Proc, Procs, Commit
<1>2. CASE UNCHANGED age /\ \E pc \in {"halt", "revoke", "finish", "throw", "commit"} : Goto(w, pc)
  <2>1. {"halt", "revoke", "finish", "throw", "commit"} \subseteq PCs \ {"post"}
    BY DEF PCs, InHandler
  <2> QED  BY <1>1, <1>2, <2>1, OutsideTheCall, NoCallKeepsKey
<1>3. CASE age' = [age EXCEPT ![n] = "fresh"] /\ Goto(w, "post")
  <2>1. PICK p \in Proc : p.send = n /\ proc' = [proc EXCEPT ![w] = p]
    BY <1>1, <1>3, GotoRun DEF PCs, InHandler
  <2>2. \A x \in Procs : proc'[x].pc = "post" => age'[proc'[x].send] # "expired"
    BY <1>1, <1>3, <2>1 DEF KeyHeld, Inv, TypeOK, Proc
  <2> QED  BY <1>1, <2>2 DEF KeyHeld, mail
<1> QED  BY <1>2, <1>3 DEF Commit, Onward

(* A re-POST is let through while the key is young.                        *)
LEMMA RepostKeepsKey ==
  ASSUME Inv, KeyHeld, NEW x \in Procs, Repost(x)
  PROVE  KeyHeld'
<1> DEFINE n == proc[x].send
<1>1. n \in Sends /\ UNCHANGED <<age, mail>>
  BY DEF Inv, TypeOK, Proc, Repost, mail
<1>2. CASE Goto(x, "post") /\ WithinRepostWindow(n)
  <2>1. PICK p \in Proc : p.send = n /\ proc' = [proc EXCEPT ![x] = p]
    BY <1>2, GotoRun DEF PCs, InHandler
  <2>2. \A y \in Procs : proc'[y].pc = "post" => age'[proc'[y].send] # "expired"
    BY <1>1, <1>2, <2>1 DEF KeyHeld, WithinRepostWindow, Inv, TypeOK
  <2> QED  BY <1>1, <2>2 DEF KeyHeld, mail
<1>3. CASE Leave(x) \/ Goto(x, "finish")
  <2>1. "finish" \in PCs \ {"post"}
    BY DEF PCs
  <2> QED  BY <1>1, <1>3, <2>1, OutsideTheCall, NoCallKeepsKey
<1> QED  BY <1>2, <1>3 DEF Repost

(* The call itself: a key already used is still remembered.                *)
LEMMA PostKeepsKey ==
  ASSUME Inv, KeyHeld, NEW x \in Procs, Post(x)
  PROVE  KeyHeld'
<1> DEFINE n == proc[x].send
<1>1. n \in Sends /\ age[n] # "expired" /\ UNCHANGED age
  BY DEF Inv, TypeOK, Proc, KeyHeld, Post
<1>2. PICK answer \in Answers, taken \in BOOLEAN :
        /\ taken => ~Remembered(n)
        /\ proc' = [proc EXCEPT ![x].pc = "answered", ![x].answer = answer]
        /\ copies' = [copies EXCEPT ![n] = IF taken THEN @ + 1 ELSE @]
  BY DEF Post
<1>3. posted' = [posted EXCEPT ![n] = TRUE]
  BY DEF Post
<1>4. taken => copies[n] = 0
  BY <1>1, <1>2 DEF Remembered, Inv, TypeOK
<1>5. \A m \in Sends : copies'[m] <= 1 /\ (copies'[m] > 0 => posted'[m])
  BY <1>1, <1>2, <1>3, <1>4 DEF KeyHeld, Inv, TypeOK
<1>6. \A y \in Procs : proc'[y].pc = "post" => y # x /\ proc'[y] = proc[y]
  BY <1>2 DEF Inv, TypeOK, Proc
<1> QED  BY <1>1, <1>5, <1>6 DEF KeyHeld

(* The key is forgotten only while nobody is in a call with it.            *)
LEMMA AgeKeepsKey ==
  ASSUME Inv, KeyHeld, NEW n \in Sends, Age(n)
  PROVE  KeyHeld'
<1>1. UNCHANGED <<proc, mail>> /\ age \in [Sends -> {"none", "fresh", "late", "expired"}]
  BY DEF Age, Inv, TypeOK
<1>2. ASSUME NEW x \in Procs, proc[x].pc = "post"
      PROVE  age'[proc[x].send] # "expired"
  <2>1. proc[x].send \in Sends /\ age[proc[x].send] # "expired"
    BY <1>2 DEF KeyHeld, Inv, TypeOK, Proc
  <2> QED  BY <1>1, <1>2, <2>1 DEF Age, At
<1> QED  BY <1>1, <1>2 DEF KeyHeld, mail

(* Every step keeps it.                                                    *)
LEMMA NextKeepsKey == Inv /\ KeyHeld /\ [Next]_vars => KeyHeld'
<1> SUFFICES ASSUME Inv, KeyHeld, [Next]_vars PROVE KeyHeld'
  OBVIOUS
<1>1. ASSUME UNCHANGED <<proc, age, mail>>
      PROVE  KeyHeld'
  BY <1>1, NoCallKeepsKey
<1>2. CASE \E w \in Workers : \/ Outbox(w) \/ Handler(w) \/ HookThrows(w)
                              \/ \E n \in Sends : Claim(w, n)
                              \/ \E v \in Workers : Timeout(w, v)
  BY <1>2, RunsOutsideTheCall, StartsOutsideTheCall, CommitKeepsKey DEF Handler
<1>3. CASE \E x \in Procs : Call(x) \/ DatabaseFails(x) \/ Crash(x)
  BY <1>3, RepostKeepsKey, PostKeepsKey, RunsOutsideTheCall DEF Call
<1>4. CASE \E s \in Sweeps : Lookup(s) \/ \E n \in Sends : ClaimDue(s, n)
  BY <1>4, RunsOutsideTheCall, StartsOutsideTheCall
<1>5. CASE \E n \in Sends : Age(n)
  BY <1>5, AgeKeepsKey
<1>6. CASE \/ \E n \in Sends : \/ LeaseExpires(n) \/ AcceptByMessageId(n) \/ ApplyEvidence(n)
                              \/ Lapse(n)
           \/ LaterDelivery \/ Acknowledge \/ Revoke
           \/ \E t \in Teammates : \/ Resolve(t) \/ Refuse(t)
                                   \/ \E decision \in Decisions : ReadFailure(t, decision)
  BY <1>1, <1>6 DEF LeaseExpires, AcceptByMessageId, ApplyEvidence, Lapse, LaterDelivery,
     Acknowledge, Revoke, Resolve, Refuse, ReadFailure, mail
<1>7. CASE UNCHANGED vars
  BY <1>1, <1>7 DEF vars, mail
<1> QED  BY <1>2, <1>3, <1>4, <1>5, <1>6, <1>7 DEF Next, Procs

(* However often a send is claimed, resumed, timed out, taken over or      *)
(* re-POSTed, and by however many runs at once, the provider takes one     *)
(* message for it.                                                         *)
THEOREM OneCopy == Spec => []OneCopyPerSend
<1>1. Init => KeyHeld
  BY DEF Init, KeyHeld, Idle
<1>2. KeyHeld => OneCopyPerSend
  BY DEF KeyHeld, OneCopyPerSend
<1> QED  BY <1>1, <1>2, NextKeepsKey, Invariance, PTL DEF Spec
=============================================================================
