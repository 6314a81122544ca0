--------------------------- MODULE BackgroundJobs ---------------------------
(***************************************************************************)
(* The durable background-job substrate: producers write jobs inside their *)
(* own database transactions, drains claim them under a lease, run the     *)
(* handler, and write the outcome back behind a claim token.               *)
(*                                                                         *)
(*   backend/src/shared/background-jobs/backgroundJobRuntime.ts            *)
(*   backend/src/shared/background-jobs/backgroundJobQueue.ts              *)
(*   backend/src/db/repositories/backgroundJobRepository.ts                *)
(*                                                                         *)
(* The table lives in Postgres, so a transaction or a single statement is  *)
(* one step, and what a statement has to wait for (a row another           *)
(* transaction has locked) is a guard.  Clocks are abstracted to what they *)
(* decide: a waiting job is due or not, a lease is held or lapsed.         *)
(***************************************************************************)
EXTENDS Naturals, Sequences, FiniteSets, Functions

CONSTANTS
  Keys,          \* (kind, idempotency key) pairs
  RerunKeys,     \* those whose kind declares onDuplicateKey = "rerun"
  Jobs,          \* job ids; each is inserted at most once
  Producers,     \* concurrent producer transactions
  Drains,        \* concurrent drain() calls: poll ticks and drain requests
  MaxAttempts,   \* BackgroundJobPolicy.maxAttempts
  MaxJobs,       \* drain()'s maxJobs
  MaxTx,         \* bound: producer transactions begun
  MaxCrashes,    \* bound: drain calls that die before their next write
  MaxStalls,     \* bound: leases that lapse under a drain that still runs
  MaxLate,       \* bound: handlers that run on after their deadline
  None           \* no key, no job

ASSUME BackgroundJobsAssumption ==
  /\ RerunKeys \subseteq Keys
  /\ None \notin Keys \cup Jobs
  /\ IsFiniteSet(Drains)
  /\ MaxAttempts \in Nat \ {0}
  /\ MaxJobs \in Nat \ {0}
  /\ MaxTx \in Nat /\ MaxCrashes \in Nat /\ MaxStalls \in Nat /\ MaxLate \in Nat

VARIABLES
  row,       \* background_jobs, one row per job id
  tx,        \* each producer's transaction
  pc,        \* where each drain stands
  claim,     \* the claim each drain holds, as it was returned to it
  claimed,   \* claimedIds of each drain, in claim order
  seen,      \* the newest change a drain's handler is sure to have read
  version,   \* committed changes of each key's subject that asked for a run
  settled,   \* newest change a finished run read, or a dead letter gave up
  log,       \* history: every claim ever made; a claim's token is its index
  begun,     \* producer transactions begun
  crashes,   \* drain calls that died
  stalls,    \* leases that lapsed under a running drain
  left,      \* claims whose handler still runs and nobody waits for any more
  late       \* handlers that ran on after their deadline

storeVars == <<row, log, settled>>
drainVars == <<pc, claim, claimed, seen>>
bounds    == <<begun, crashes, stalls>>
behind    == <<left, late>>
vars      == <<storeVars, tx, drainVars, version, bounds, behind>>

-----------------------------------------------------------------------------

Status   == {"none", "pending", "running", "dead", "gone"}
Outcomes == {"open", "lost", "completed", "requeued", "retried", "dead"}
Holding  == {"claimed", "handler", "complete", "retry", "retryAgain",
             "park", "parkAgain"}

(* "none" is an id not inserted yet, "gone" a deleted row.                 *)
Row == [status : Status, key : Keys \cup {None}, attempts : Nat,
        due : BOOLEAN, lease : {"none", "held", "lapsed"}, token : Nat,
        rerun : BOOLEAN]

(* The table's CHECK constraints, which every statement must satisfy.      *)
Checks(r) ==
  /\ (r.status = "running") <=> (r.lease # "none")
  /\ (r.status = "running") <=> (r.token # 0)
  /\ r.rerun => r.status = "running"

NoRow   == [status |-> "none", key |-> None, attempts |-> 0, due |-> FALSE,
            lease |-> "none", token |-> 0, rerun |-> FALSE]
NoTx    == [pc |-> "idle", key |-> None, did |-> "none", job |-> None]
NoClaim == [job |-> None, token |-> 0, attempt |-> 0]

Tx == [pc : {"idle", "open", "written"}, key : Keys \cup {None},
       did : {"none", "insert", "flag", "fold", "ignored"}, job : Jobs \cup {None}]

Claim == [job : Jobs \cup {None}, token : Nat, attempt : Nat]

Entry == [job : Jobs, attempt : Nat, ran : BOOLEAN, outcome : Outcomes, hooks : Nat]

(* Every variable has its type, and no statement leaves a row the table's  *)
(* CHECK constraints would reject.                                         *)
TypeOK ==
  /\ row \in [Jobs -> Row]
  /\ \A j \in Jobs : Checks(row[j])
  /\ tx \in [Producers -> Tx]
  /\ pc \in [Drains -> Holding \cup {"idle", "claim"}]
  /\ claim \in [Drains -> Claim]
  /\ claimed \in [Drains -> Seq(Jobs)]
  /\ seen \in [Drains -> Nat]
  /\ version \in [RerunKeys -> Nat]
  /\ settled \in [RerunKeys -> Nat]
  /\ log \in Seq(Entry)
  /\ begun \in Nat /\ crashes \in Nat /\ stalls \in Nat /\ late \in Nat
  /\ left \in SUBSET Nat

Init ==
  /\ row = [j \in Jobs |-> NoRow]
  /\ tx = [p \in Producers |-> NoTx]
  /\ pc = [d \in Drains |-> "idle"]
  /\ claim = [d \in Drains |-> NoClaim]
  /\ claimed = [d \in Drains |-> <<>>]
  /\ seen = [d \in Drains |-> 0]
  /\ version = [k \in RerunKeys |-> 0]
  /\ settled = [k \in RerunKeys |-> 0]
  /\ log = <<>>
  /\ begun = 0 /\ crashes = 0 /\ stalls = 0 /\ left = {} /\ late = 0

Live(j) == row[j].status \in {"pending", "running"}

(* A producer's transaction keeps the row it inserted, marked or folded    *)
(* into locked until it ends.                                              *)
Locked(j) ==
  \E p \in Producers : tx[p].did \in {"insert", "flag", "fold"} /\ tx[p].job = j

(* FAULT: a fence that forgets the token.                                  *)
FencedByStatus(d) == row[claim[d].job].status = "running"

(* The fence of every write back: the row still runs under this token.     *)
Fenced(d) ==
  LET j == claim[d].job
  IN  row[j].status = "running" /\ row[j].token = claim[d].token

-----------------------------------------------------------------------------
(* Producers.                                                              *)

(* A producer opens a transaction and changes the subject a key names; the *)
(* change is invisible until the commit.                                   *)
BeginTx(p, k) ==
  /\ tx[p].pc = "idle"
  /\ begun < MaxTx
  /\ tx' = [tx EXCEPT ![p] = [pc |-> "open", key |-> k, did |-> "none", job |-> None]]
  /\ begun' = begun + 1
  /\ UNCHANGED <<storeVars, drainVars, version, crashes, stalls, behind>>

(* The transaction p has open, once its insert has run.                    *)
Wrote(p, did, job) == [pc |-> "written", key |-> tx[p].key, did |-> did, job |-> job]

(* insert() with no live row for the key.  The new row is invisible to     *)
(* everyone else, and an insert of the same key waits for this one.        *)
InsertFresh(p) ==
  /\ tx[p].pc = "open"
  /\ \A j \in Jobs : Live(j) => row[j].key # tx[p].key
  /\ \A q \in Producers : tx[q].did = "insert" => tx[q].key # tx[p].key
  /\ \E j \in Jobs :
       /\ row[j].status = "none"
       /\ ~Locked(j)
       /\ tx' = [tx EXCEPT ![p] = Wrote(p, "insert", j)]
  /\ UNCHANGED <<storeVars, drainVars, version, bounds, behind>>

(* insert() that conflicts with a live row.  ON CONFLICT DO UPDATE waits   *)
(* for the row's lock, keeps it, and asks a running job to rerun; its      *)
(* WHERE leaves a waiting row as it is, but locked.  DO NOTHING locks      *)
(* nothing.                                                                *)
InsertDuplicate(p) ==
  /\ tx[p].pc = "open"
  /\ \E j \in Jobs :
       /\ Live(j)
       /\ row[j].key = tx[p].key
       /\ \/ /\ tx[p].key \in RerunKeys
             /\ ~Locked(j)
             /\ tx' = [tx EXCEPT ![p] =
                         Wrote(p, IF row[j].status = "running" THEN "flag" ELSE "fold", j)]
          \/ /\ tx[p].key \notin RerunKeys
             /\ tx' = [tx EXCEPT ![p] = Wrote(p, "ignored", None)]
  /\ UNCHANGED <<storeVars, drainVars, version, bounds, behind>>

(* The row an insert leaves: waiting, due now unless runAfter says later.  *)
FreshRow(k, due) ==
  [status |-> "pending", key |-> k, attempts |-> 0, due |-> due,
   lease |-> "none", token |-> 0, rerun |-> FALSE]

(* The producer's change, its insert and its rerun request become visible  *)
(* together.                                                               *)
CommitTx(p) ==
  /\ tx[p].pc = "written"
  /\ \/ /\ tx[p].did = "insert"
        /\ \E due \in BOOLEAN : row' = [row EXCEPT ![tx[p].job] = FreshRow(tx[p].key, due)]
     \/ /\ tx[p].did = "flag"
        /\ row' = [row EXCEPT ![tx[p].job].rerun = TRUE]
     \/ /\ tx[p].did \in {"fold", "ignored"}
        /\ UNCHANGED row
  /\ version' = IF tx[p].key \in RerunKeys
                  THEN [version EXCEPT ![tx[p].key] = @ + 1] ELSE version
  /\ tx' = [tx EXCEPT ![p] = NoTx]
  /\ UNCHANGED <<drainVars, log, settled, bounds, behind>>

(* Nothing the transaction wrote survives.                                 *)
RollbackTx(p) ==
  /\ tx[p].pc # "idle"
  /\ tx' = [tx EXCEPT ![p] = NoTx]
  /\ UNCHANGED <<storeVars, drainVars, version, bounds, behind>>

-----------------------------------------------------------------------------
(* Drains.                                                                 *)

(* What a drain() call holds in its locals goes with it.                   *)
Forgets(d) ==
  /\ pc' = [pc EXCEPT ![d] = "idle"]
  /\ claim' = [claim EXCEPT ![d] = NoClaim]
  /\ claimed' = [claimed EXCEPT ![d] = <<>>]
  /\ seen' = [seen EXCEPT ![d] = 0]

(* And so does what run() holds, when it returns to the loop.              *)
Returns(d) ==
  /\ pc' = [pc EXCEPT ![d] = "claim"]
  /\ claim' = [claim EXCEPT ![d] = NoClaim]
  /\ seen' = [seen EXCEPT ![d] = 0]

(* A poll tick, a pushed wake or the recovery sweep calls drain().         *)
StartDrain(d) ==
  /\ pc[d] = "idle"
  /\ pc' = [pc EXCEPT ![d] = "claim"]
  /\ claimed' = [claimed EXCEPT ![d] = <<>>]
  /\ UNCHANGED <<storeVars, tx, claim, seen, version, bounds, behind>>

Due(j)       == row[j].status = "pending" /\ row[j].due
Abandoned(j) == row[j].status = "running" /\ row[j].lease = "lapsed"

(* FAULTS: a claim that takes a row a producer has locked, one that leaves *)
(* a dead worker's job alone, and one that takes a running job whatever    *)
(* its lease says.                                                         *)
ClaimableUnlocked(d, j) == (Due(j) \/ Abandoned(j)) /\ j \notin Range(claimed[d])
ClaimableDueOnly(d, j)  == Due(j) /\ j \notin Range(claimed[d]) /\ ~Locked(j)
ClaimableHeld(d, j)     ==
  (Due(j) \/ row[j].status = "running") /\ j \notin Range(claimed[d]) /\ ~Locked(j)

(* What claimNext's FOR UPDATE SKIP LOCKED query may return to d.          *)
Claimable(d, j) ==
  /\ Due(j) \/ Abandoned(j)
  /\ j \notin Range(claimed[d])
  /\ ~Locked(j)

(* How a claim ended, and with how many hooks.                             *)
Ended(e, outcome, hooks) ==
  [job |-> e.job, attempt |-> e.attempt, ran |-> e.ran,
   outcome |-> outcome, hooks |-> e.hooks + hooks]

(* Taking a lapsed lease over closes the claim that held it.               *)
LogTakeover(j) ==
  IF row[j].status = "running"
    THEN [log EXCEPT ![row[j].token] = Ended(@, "lost", 0)] ELSE log

ClaimedRow(r, token) ==
  [status |-> "running", key |-> r.key, attempts |-> r.attempts + 1, due |-> r.due,
   lease |-> "held", token |-> token, rerun |-> FALSE]

ClaimNext(d) ==
  /\ pc[d] = "claim"
  /\ Len(claimed[d]) < MaxJobs
  /\ \E j \in Jobs :
       LET token   == Len(log) + 1
           attempt == row[j].attempts + 1
       IN  /\ Claimable(d, j)
           /\ row' = [row EXCEPT ![j] = ClaimedRow(row[j], token)]
           /\ log' = Append(LogTakeover(j),
                            [job |-> j, attempt |-> attempt, ran |-> FALSE,
                             outcome |-> "open", hooks |-> 0])
           /\ claim' = [claim EXCEPT ![d] = [job |-> j, token |-> token, attempt |-> attempt]]
           /\ claimed' = [claimed EXCEPT ![d] = Append(@, j)]
  /\ pc' = [pc EXCEPT ![d] = "claimed"]
  /\ UNCHANGED <<tx, seen, version, settled, bounds, behind>>

(* Nothing due, maxJobs run, or, after at least one job, no kind whose     *)
(* deadline still fits the budget.                                         *)
EndDrain(d) ==
  /\ pc[d] = "claim"
  /\ \/ \A j \in Jobs : ~Claimable(d, j)
     \/ claimed[d] # <<>>
  /\ Forgets(d)
  /\ UNCHANGED <<storeVars, tx, version, bounds, behind>>

(* FAULT: one run more than the policy allows.                             *)
SpentLate(attempt) == attempt > MaxAttempts + 1

Spent(attempt) == attempt > MaxAttempts

(* run(): a job whose earlier attempts all expired unfinished is parked    *)
(* without running; otherwise the handler starts.  It may read everything  *)
(* it needs at once, so what it is sure to have seen is what is committed. *)
StartRun(d) ==
  LET j == claim[d].job
  IN  /\ pc[d] = "claimed"
      /\ IF Spent(claim[d].attempt)
           THEN /\ pc' = [pc EXCEPT ![d] = "park"]
                /\ UNCHANGED <<seen, log>>
           ELSE /\ pc' = [pc EXCEPT ![d] = "handler"]
                /\ seen' = [seen EXCEPT ![d] =
                             IF row[j].key \in RerunKeys THEN version[row[j].key] ELSE 0]
                /\ log' = [log EXCEPT ![claim[d].token].ran = TRUE]
      /\ UNCHANGED <<row, tx, claim, claimed, version, settled, bounds, behind>>

(* The handler resolves, with or without a skip reason.                    *)
HandlerReturns(d) ==
  /\ pc[d] = "handler"
  /\ pc' = [pc EXCEPT ![d] = "complete"]
  /\ UNCHANGED <<storeVars, tx, claim, claimed, seen, version, bounds, behind>>

(* fail(): a permanent failure, or one on the last attempt, is parked.     *)
FailTo(d, permanent) ==
  pc' = [pc EXCEPT ![d] =
          IF permanent \/ claim[d].attempt >= MaxAttempts THEN "park" ELSE "retry"]

HandlerThrows(d) ==
  /\ pc[d] = "handler"
  /\ \E permanent \in BOOLEAN : FailTo(d, permanent)
  /\ UNCHANGED <<storeVars, tx, claim, claimed, seen, version, bounds, behind>>

(* The kind's deadline passes.  The runtime aborts the handler's signal and*)
(* stops waiting for it whatever it does, and records a retryable failure: *)
(* a handler that ignores the signal is left behind and runs on, beside    *)
(* the drain's next jobs and beside the retry of its own.                  *)
Deadline(d) ==
  /\ pc[d] = "handler"
  /\ FailTo(d, FALSE)
  /\ \/ UNCHANGED behind
     \/ /\ late < MaxLate
        /\ left' = left \cup {claim[d].token}
        /\ late' = late + 1
  /\ UNCHANGED <<storeVars, tx, claim, claimed, seen, version, bounds>>

(* A heartbeat renews the lease, also one that lapsed and that nobody has  *)
(* taken over yet; it waits for a producer that has the row locked.        *)
RenewLease(d) ==
  /\ pc[d] = "handler"
  /\ Fenced(d)
  /\ ~Locked(claim[d].job)
  /\ row' = [row EXCEPT ![claim[d].job].lease = "held"]
  /\ UNCHANGED <<log, settled, tx, drainVars, version, bounds, behind>>

(* A heartbeat finds the claim gone: the run is aborted and writes nothing *)
(* back, and here too a handler that ignores its signal is left behind.    *)
LeaseLost(d) ==
  /\ pc[d] = "handler"
  /\ ~Fenced(d)
  /\ Returns(d)
  /\ left' \in {left, left \cup {claim[d].token}}
  /\ UNCHANGED <<storeVars, tx, claimed, version, bounds, late>>

(* A handler left behind settles, or its process dies.  Its result went to *)
(* a race that is over, so nothing is written back for it.                 *)
LeftEnds(t) ==
  /\ left' = left \ {t}
  /\ UNCHANGED <<storeVars, tx, drainVars, version, bounds, late>>

-----------------------------------------------------------------------------
(* Write back.                                                             *)

(* FAULT: a released row keeps its rerun request.                          *)
ReleasedMarked(r, status, attempts, due) ==
  [status |-> status, key |-> r.key, attempts |-> attempts, due |-> due,
   lease |-> "none", token |-> 0, rerun |-> r.rerun]

(* The columns a run holds are cleared when the job stops running.         *)
Released(r, status, attempts, due) ==
  [status |-> status, key |-> r.key, attempts |-> attempts, due |-> due,
   lease |-> "none", token |-> 0, rerun |-> FALSE]

Close(d, outcome, hooks) ==
  log' = [log EXCEPT ![claim[d].token] = Ended(@, outcome, hooks)]

Settle(k, v) ==
  settled' = IF k \in RerunKeys /\ v > settled[k]
               THEN [settled EXCEPT ![k] = v] ELSE settled

(* A write back whose fence fails changes nothing.                         *)
Superseded(d) ==
  /\ pc[d] \in {"complete", "retry", "retryAgain", "park", "parkAgain"}
  /\ ~Fenced(d)
  /\ Returns(d)
  /\ UNCHANGED <<storeVars, tx, claimed, version, bounds, behind>>

(* FAULT: a completion that never looks at the rerun request.              *)
NeverRerun(j) == FALSE

RerunRequested(j) == row[j].rerun

(* complete(): FOR UPDATE waits for a producer holding the row, whose      *)
(* outcome then decides between a rerun with a fresh budget and deletion.  *)
Complete(d) ==
  LET j == claim[d].job
  IN  /\ pc[d] = "complete"
      /\ Fenced(d)
      /\ ~Locked(j)
      /\ IF RerunRequested(j)
           THEN /\ row' = [row EXCEPT ![j] = Released(row[j], "pending", 0, TRUE)]
                /\ Close(d, "requeued", 0)
           ELSE /\ row' = [row EXCEPT ![j] = Released(row[j], "gone", row[j].attempts, row[j].due)]
                /\ Close(d, "completed", 0)
      /\ Settle(row[j].key, seen[d])
      /\ Returns(d)
      /\ UNCHANGED <<tx, claimed, version, bounds, behind>>

(* retry(): back to waiting after a delay, with the kind's onAttemptFailed *)
(* hook, if it has one, in the same transaction.                           *)
Retry(d) ==
  LET j == claim[d].job
  IN  /\ pc[d] \in {"retry", "retryAgain"}
      /\ Fenced(d)
      /\ ~Locked(j)
      /\ \E hooks \in IF pc[d] = "retry" THEN {0, 1} ELSE {0} :
           Close(d, "retried", hooks)
      /\ row' = [row EXCEPT ![j] = Released(row[j], "pending", row[j].attempts, FALSE)]
      /\ Returns(d)
      /\ UNCHANGED <<settled, tx, claimed, version, bounds, behind>>

(* deadLetter(): parked with the onDeadLetter hook, if there is one, in    *)
(* the same transaction.  A rerun requested meanwhile is dropped: every    *)
(* change committed so far is given up.                                    *)
Park(d) ==
  LET j == claim[d].job
  IN  /\ pc[d] \in {"park", "parkAgain"}
      /\ Fenced(d)
      /\ ~Locked(j)
      /\ \E hooks \in IF pc[d] = "park" THEN {0, 1} ELSE {0} :
           Close(d, "dead", hooks)
      /\ row' = [row EXCEPT ![j] = Released(row[j], "dead", row[j].attempts, row[j].due)]
      /\ IF row[j].key \in RerunKeys
           THEN Settle(row[j].key, version[row[j].key]) ELSE UNCHANGED settled
      /\ Returns(d)
      /\ UNCHANGED <<tx, claimed, version, bounds, behind>>

(* A hook that throws rolls its transaction back; the outcome is written   *)
(* again without it, in a transaction of its own.                          *)
HookThrows(d) ==
  /\ pc[d] \in {"retry", "park"}
  /\ Fenced(d)
  /\ ~Locked(claim[d].job)
  /\ pc' = [pc EXCEPT ![d] = IF pc[d] = "retry" THEN "retryAgain" ELSE "parkAgain"]
  /\ UNCHANGED <<storeVars, tx, claim, claimed, seen, version, bounds, behind>>

-----------------------------------------------------------------------------
(* The environment.                                                        *)

(* The process dies, or a store call fails: drain() ends where it stands,  *)
(* and a job it had claimed stays running until its lease lapses.          *)
Crash(d) ==
  /\ pc[d] # "idle"
  /\ crashes < MaxCrashes
  /\ Forgets(d)
  /\ crashes' = crashes + 1
  /\ UNCHANGED <<storeVars, tx, version, begun, stalls, behind>>

Held(j) == \E d \in Drains : pc[d] \in Holding /\ claim[d].job = j /\ Fenced(d)

(* Time passes: the lease of a dead drain lapses, or, within the bound,    *)
(* that of a drain that stalls or cannot reach the store.                  *)
LeaseLapses(j) ==
  /\ row[j].status = "running"
  /\ row[j].lease = "held"
  /\ IF Held(j) THEN stalls < MaxStalls /\ stalls' = stalls + 1 ELSE UNCHANGED stalls
  /\ row' = [row EXCEPT ![j].lease = "lapsed"]
  /\ UNCHANGED <<log, settled, tx, drainVars, version, begun, crashes, behind>>

BecomesDue(j) ==
  /\ row[j].status = "pending"
  /\ ~row[j].due
  /\ row' = [row EXCEPT ![j].due = TRUE]
  /\ UNCHANGED <<log, settled, tx, drainVars, version, bounds, behind>>

(* The retention sweep removes an old dead letter.                         *)
DeleteBefore(j) ==
  /\ row[j].status = "dead"
  /\ row' = [row EXCEPT ![j].status = "gone"]
  /\ UNCHANGED <<log, settled, tx, drainVars, version, bounds, behind>>

-----------------------------------------------------------------------------

Produce(p) ==
  \/ \E k \in Keys : BeginTx(p, k)
  \/ InsertFresh(p) \/ InsertDuplicate(p) \/ CommitTx(p) \/ RollbackTx(p)

WriteBack(d) ==
  Superseded(d) \/ Complete(d) \/ Retry(d) \/ Park(d) \/ HookThrows(d)

Drain(d) ==
  \/ StartDrain(d) \/ ClaimNext(d) \/ EndDrain(d) \/ StartRun(d)
  \/ HandlerReturns(d) \/ HandlerThrows(d) \/ Deadline(d)
  \/ RenewLease(d) \/ LeaseLost(d) \/ WriteBack(d) \/ Crash(d)

Clock(j) == LeaseLapses(j) \/ BecomesDue(j) \/ DeleteBefore(j)

Next ==
  \/ \E p \in Producers : Produce(p)
  \/ \E d \in Drains : Drain(d)
  \/ \E j \in Jobs : Clock(j)
  \/ \E t \in left : LeftEnds(t)

Spec == Init /\ [][Next]_vars

(* Open transactions end, one or another; drains are started by the poll   *)
(* timer or the sweep, and a live one takes its next step; the deadline    *)
(* timer fires, whether or not the handler ever settles; time passes.  No  *)
(* handler is trusted to finish, and nothing obliges a producer to begin.  *)
GoesOn(d) ==
  StartDrain(d) \/ ClaimNext(d) \/ EndDrain(d) \/ StartRun(d) \/ Deadline(d) \/ WriteBack(d)

Fairness ==
  /\ WF_vars(\E p \in Producers : CommitTx(p) \/ RollbackTx(p))
  /\ \A d \in Drains : WF_vars(GoesOn(d))
  /\ \A j \in Jobs : WF_vars(BecomesDue(j) \/ (~Held(j) /\ LeaseLapses(j)))

FairSpec == Spec /\ Fairness

-----------------------------------------------------------------------------
(* What the substrate promises.                                            *)

(* A level-triggered key's change that no finished run has read and no     *)
(* dead letter has given up.                                               *)
Owed(k) == version[k] > settled[k]

(* No change is lost: while one is owed, a job for its key is waiting or   *)
(* running.  (The rerun request, the row locks it rests on, completion's   *)
(* wait for them, and the fence.)                                          *)
NoLostChange ==
  \A k \in RerunKeys : Owed(k) => \E j \in Jobs : Live(j) /\ row[j].key = k

(* Each claim ends in at most one way, and a takeover is an end: a run     *)
(* whose lease another worker took over can no longer complete, retry or   *)
(* dead-letter the job.  A failure hook's writes commit with the retry or  *)
(* the dead letter of its own claim, at most once, or not at all.          *)
ClaimsEndOnce ==
  [][\A t \in DOMAIN log :
       /\ log[t].outcome # "open" => /\ log'[t].outcome = log[t].outcome
                                     /\ log'[t].hooks = log[t].hooks
       /\ log'[t].hooks # log[t].hooks => /\ log'[t].hooks = 1
                                          /\ log'[t].outcome \in {"retried", "dead"}]_vars

(* The handlers of a job that run at once, those left behind included, are *)
(* one and one more for each lease that lapsed under a worker that was     *)
(* still running and for each handler that ran past its deadline.  Nothing *)
(* else lets two of them race: not a claim, a retry, a rerun or a crash.   *)
HandlersRaceOnlyByCause ==
  \A j \in Jobs :
    Cardinality({d \in Drains : pc[d] = "handler" /\ claim[d].job = j})
      + Cardinality({t \in left : log[t].job = j}) <= 1 + stalls + late

ClaimsOf(j) == {t \in DOMAIN log : log[t].job = j}

(* However often its workers die, stall or race, a job's handler starts at *)
(* most maxAttempts times per budget: the first, and one per rerun.        *)
RetryBudget ==
  \A j \in Jobs :
    Cardinality({t \in ClaimsOf(j) : log[t].ran}) <=
      MaxAttempts * (1 + Cardinality({t \in ClaimsOf(j) : log[t].outcome = "requeued"}))

(* Every job is eventually finished or dead-lettered.                      *)
JobsSettle == \A j \in Jobs : Live(j) ~> ~Live(j)

(* The table implements level-triggered work: a key's work is open while a *)
(* job for it is live, closes only with every change read or given up, and *)
(* makes progress.                                                         *)
open == [k \in RerunKeys |-> \E j \in Jobs : Live(j) /\ row[j].key = k]

Level == INSTANCE LevelTriggered WITH Keys <- RerunKeys

ImplementsLevelTriggered == Level!LiveSpec
=============================================================================
