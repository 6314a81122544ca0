------------------------ MODULE BackgroundJobsProofs ------------------------
(***************************************************************************)
(* Proofs about BackgroundJobs, for every number of keys, jobs, producers, *)
(* drains, attempts and faults.                                            *)
(*                                                                         *)
(* NoLostChange is not inductive: a change is safe because a job for its   *)
(* key is waiting, or marked for a rerun, or run by a handler that started *)
(* after the change committed, and that rests on the row a producer folded *)
(* into or marked staying put until the producer's transaction ends, and   *)
(* on claim tokens being fresh.  IInv says all of that.  Nor is            *)
(* RetryBudget: BudgetInv counts a row's attempts against its history.     *)
(***************************************************************************)
EXTENDS BackgroundJobs, FiniteSetTheorems, TLAPS

(* The row a producer wrote stays as it wrote it until its transaction     *)
(* ends, and is its own.                                                   *)
Holds(p) == tx[p].did \in {"insert", "flag", "fold"}

TxInv ==
  /\ \A p \in Producers :
       /\ tx[p].pc # "idle" => tx[p].key \in Keys
       /\ tx[p].did = "none" <=> tx[p].pc \in {"idle", "open"}
       /\ Holds(p) => tx[p].job \in Jobs
       /\ tx[p].did = "ignored" => tx[p].key \notin RerunKeys
       /\ tx[p].did = "insert" => row[tx[p].job].status = "none"
       /\ tx[p].did = "flag" => /\ row[tx[p].job].status = "running"
                                /\ row[tx[p].job].key = tx[p].key
       /\ tx[p].did = "fold" => /\ row[tx[p].job].status = "pending"
                                /\ row[tx[p].job].key = tx[p].key
  /\ \A p, q \in Producers :
       Holds(p) /\ Holds(q) /\ tx[p].job = tx[q].job => p = q

(* Tokens are handed out once, and a drain at work holds a job.            *)
ClaimInv ==
  \A d \in Drains :
    /\ claim[d].token <= Len(log)
    /\ pc[d] \in Holding => claim[d].job \in Jobs /\ claim[d].token # 0

(* A running row's claim is the open one in the log, and an open claim has *)
(* committed no hook.                                                      *)
LogInv ==
  /\ \A j \in Jobs :
       row[j].status = "running" =>
         /\ row[j].token \in DOMAIN log
         /\ log[row[j].token].job = j
         /\ log[row[j].token].outcome = "open"
  /\ \A t \in DOMAIN log : log[t].outcome = "open" => log[t].hooks = 0

(* The drain whose run holds job j.                                        *)
Runs(d, j) ==
  /\ pc[d] \in {"handler", "complete"}
  /\ claim[d].job = j
  /\ claim[d].token = row[j].token

(* Job j will see to every committed change of key k.                      *)
Covers(j, k) ==
  /\ Live(j)
  /\ row[j].key = k
  /\ \/ row[j].status = "pending"
     \/ row[j].rerun
     \/ \A d \in Drains : Runs(d, j) => seen[d] >= version[k]

CoverInv == \A k \in RerunKeys : Owed(k) => \E j \in Jobs : Covers(j, k)

IInv == TypeOK /\ TxInv /\ ClaimInv /\ LogInv /\ CoverInv

-----------------------------------------------------------------------------
(* Sequences.                                                              *)

(* Appending to a sequence.                                                *)
LEMMA AppendFacts ==
  ASSUME NEW S, NEW s \in Seq(S), NEW e \in S
  PROVE  /\ Append(s, e) \in Seq(S)
         /\ Len(Append(s, e)) = Len(s) + 1
         /\ DOMAIN Append(s, e) = 1 .. Len(s) + 1
         /\ DOMAIN s = 1 .. Len(s)
         /\ Len(s) \in Nat
         /\ \A i \in DOMAIN s : Append(s, e)[i] = s[i]
         /\ Append(s, e)[Len(s) + 1] = e
OBVIOUS

(* Replacing one element of a sequence.                                    *)
LEMMA ReplaceFacts ==
  ASSUME NEW S, NEW s \in Seq(S), NEW i \in DOMAIN s, NEW e \in S
  PROVE  /\ [s EXCEPT ![i] = e] \in Seq(S)
         /\ Len([s EXCEPT ![i] = e]) = Len(s)
         /\ DOMAIN [s EXCEPT ![i] = e] = DOMAIN s
OBVIOUS

-----------------------------------------------------------------------------
(* Types.                                                                  *)

(* The empty table and the idle runtime are well typed.                    *)
LEMMA TypeInit ==
  ASSUME BackgroundJobsAssumption, Init
  PROVE  TypeOK
BY DEF BackgroundJobsAssumption, Init, TypeOK, NoRow, NoTx, NoClaim, Row, Checks, Tx, Claim,
       Status, Outcomes, Holding

(* The rows the statements write.                                          *)
LEMMA RowsTyped ==
  /\ \A k \in Keys \cup {None}, due \in BOOLEAN :
       FreshRow(k, due) \in Row /\ Checks(FreshRow(k, due))
  /\ \A r \in Row, token \in Nat \ {0} :
       ClaimedRow(r, token) \in Row /\ Checks(ClaimedRow(r, token))
  /\ \A r \in Row, status \in Status \ {"running"}, attempts \in Nat, due \in BOOLEAN :
       /\ Released(r, status, attempts, due) \in Row
       /\ Checks(Released(r, status, attempts, due))
<1>1. \A k \in Keys \cup {None}, due \in BOOLEAN :
       FreshRow(k, due) \in Row /\ Checks(FreshRow(k, due))
  BY DEF FreshRow, Row, Status, Checks
<1>2. \A r \in Row, token \in Nat \ {0} :
       ClaimedRow(r, token) \in Row /\ Checks(ClaimedRow(r, token))
  BY DEF ClaimedRow, Row, Status, Checks
<1>3. \A r \in Row, status \in Status \ {"running"}, attempts \in Nat, due \in BOOLEAN :
       /\ Released(r, status, attempts, due) \in Row
       /\ Checks(Released(r, status, attempts, due))
  BY DEF Released, Row, Status, Checks
<1>4. QED
  BY <1>1, <1>2, <1>3

(* What producers do keeps the types.                                      *)
LEMMA TypeProduce ==
  ASSUME BackgroundJobsAssumption, TypeOK, TxInv, NEW p \in Producers, Produce(p)
  PROVE  TypeOK'
<1>1. ASSUME NEW k \in Keys, BeginTx(p, k) PROVE TypeOK'
  BY <1>1 DEF BeginTx, TypeOK, Tx, storeVars, drainVars, behind
<1>2. CASE InsertFresh(p)
  BY <1>2 DEF InsertFresh, Wrote, TypeOK, Tx, storeVars, drainVars, bounds, behind
<1>3. CASE InsertDuplicate(p)
  <2>1. PICK did \in {"flag", "fold", "ignored"}, i \in Jobs \cup {None} :
          tx' = [tx EXCEPT ![p] = Wrote(p, did, i)]
    BY <1>3 DEF InsertDuplicate
  <2>2. tx[p].key \in Keys \cup {None}
    BY DEF TypeOK, Tx
  <2>3. Wrote(p, did, i) \in Tx
    BY <2>2 DEF Wrote, Tx
  <2>4. QED
    BY <1>3, <2>1, <2>3 DEF InsertDuplicate, TypeOK, storeVars, drainVars, bounds, behind
<1>4. CASE CommitTx(p)
  <2>1. row' \in [Jobs -> Row] /\ \A j \in Jobs : Checks(row'[j])
    <3>1. CASE tx[p].did = "insert"
      <4>1. PICK due \in BOOLEAN : row' = [row EXCEPT ![tx[p].job] = FreshRow(tx[p].key, due)]
        BY <1>4, <3>1 DEF CommitTx
      <4>2. FreshRow(tx[p].key, due) \in Row /\ Checks(FreshRow(tx[p].key, due))
        BY RowsTyped DEF TypeOK, Tx
      <4>3. QED
        BY <4>1, <4>2 DEF TypeOK
    <3>2. CASE tx[p].did = "flag"
      <4> DEFINE j == tx[p].job
      <4>1. j \in Jobs /\ row[j] \in Row /\ row[j].status = "running" /\ Checks(row[j])
        BY <3>2 DEF TypeOK, TxInv, Holds
      <4>2. row' = [row EXCEPT ![j].rerun = TRUE]
        BY <1>4, <3>2 DEF CommitTx
      <4>3. QED
        BY <4>1, <4>2 DEF TypeOK, Row, Checks
    <3>3. QED
      BY <1>4, <3>1, <3>2 DEF CommitTx, TypeOK
  <2>2. version' \in [RerunKeys -> Nat]
    BY <1>4, SMTT(30) DEF CommitTx, TypeOK
  <2>3. QED
    BY <1>4, <2>1, <2>2 DEF CommitTx, TypeOK, NoTx, Tx, drainVars, bounds, behind, Checks
<1>5. CASE RollbackTx(p)
  BY <1>5 DEF RollbackTx, TypeOK, NoTx, Tx, storeVars, drainVars, bounds, behind
<1>6. QED
  BY <1>1, <1>2, <1>3, <1>4, <1>5 DEF Produce

(* The entries a drain writes into the log.                                *)
LEMMA EntriesTyped ==
  /\ \A e \in Entry, outcome \in Outcomes, hooks \in Nat : Ended(e, outcome, hooks) \in Entry
  /\ \A e \in Entry : [e EXCEPT !.ran = TRUE] \in Entry
<1>1. \A e \in Entry, outcome \in Outcomes, hooks \in Nat : Ended(e, outcome, hooks) \in Entry
  BY DEF Ended, Entry
<1>2. \A e \in Entry : [e EXCEPT !.ran = TRUE] \in Entry
  BY DEF Entry
<1>3. QED
  BY <1>1, <1>2

(* A run that returns leaves its drain with no claim and the others alone. *)
LEMMA RunReturns ==
  ASSUME TypeOK, NEW d \in Drains, Returns(d)
  PROVE  /\ pc' \in [Drains -> Holding \cup {"idle", "claim"}]
         /\ claim' \in [Drains -> Claim]
         /\ seen' \in [Drains -> Nat]
         /\ pc'[d] = "claim" /\ pc'[d] \notin Holding /\ claim'[d].token = 0
         /\ \A e \in Drains : e # d =>
              pc'[e] = pc[e] /\ claim'[e] = claim[e] /\ seen'[e] = seen[e]
         /\ \A e \in Drains : pc'[e] \in Holding =>
              e # d /\ pc[e] \in Holding /\ claim'[e] = claim[e]
BY DEF Returns, NoClaim, Claim, TypeOK, Holding

(* What drains do keeps the types.                                         *)
LEMMA TypeDrain ==
  ASSUME BackgroundJobsAssumption, TypeOK, ClaimInv, LogInv, NEW d \in Drains, Drain(d)
  PROVE  TypeOK'
<1> DEFINE j == claim[d].job
           t == claim[d].token
<1>a. /\ row \in [Jobs -> Row] /\ \A i \in Jobs : row[i] \in Row /\ Checks(row[i])
      /\ log \in Seq(Entry) /\ claim[d] \in Claim
  BY DEF TypeOK
<1>b. pc[d] \in Holding => j \in Jobs
  BY DEF ClaimInv
<1>c. /\ \A i \in Jobs : row[i].status = "running" => row[i].token \in DOMAIN log
      /\ Fenced(d) /\ j \in Jobs => t \in DOMAIN log
  BY DEF LogInv, Fenced
<1>d. \A outcome \in Outcomes, hooks \in Nat, i \in DOMAIN log :
        [log EXCEPT ![i] = Ended(@, outcome, hooks)] \in Seq(Entry)
  BY <1>a, EntriesTyped, ReplaceFacts
<1>e. \A status \in Status \ {"running"}, attempts \in Nat, due \in BOOLEAN : j \in Jobs =>
        /\ Released(row[j], status, attempts, due) \in Row
        /\ Checks(Released(row[j], status, attempts, due))
  BY <1>a, RowsTyped
<1>f. j \in Jobs => row[j].attempts \in Nat /\ row[j].due \in BOOLEAN
  BY <1>a DEF Row
<1>g. Forgets(d) => /\ pc' \in [Drains -> Holding \cup {"idle", "claim"}]
                    /\ claim' \in [Drains -> Claim]
                    /\ claimed' \in [Drains -> Seq(Jobs)]
                    /\ seen' \in [Drains -> Nat]
  BY DEF Forgets, NoClaim, Claim, TypeOK
<1>h. claim[d].token \in Nat
  BY <1>a DEF Claim
<1>1. CASE StartDrain(d)
  BY <1>1 DEF StartDrain, TypeOK, storeVars, bounds, behind
<1>2. CASE ClaimNext(d)
  <2>1. PICK i \in Jobs :
          /\ Claimable(d, i)
          /\ row' = [row EXCEPT ![i] = ClaimedRow(row[i], Len(log) + 1)]
          /\ log' = Append(LogTakeover(i),
                           [job |-> i, attempt |-> row[i].attempts + 1, ran |-> FALSE,
                            outcome |-> "open", hooks |-> 0])
          /\ claim' = [claim EXCEPT ![d] = [job |-> i, token |-> Len(log) + 1,
                                            attempt |-> row[i].attempts + 1]]
          /\ claimed' = [claimed EXCEPT ![d] = Append(@, i)]
    BY <1>2 DEF ClaimNext
  <2>2. row[i].attempts \in Nat /\ Len(log) + 1 \in Nat \ {0}
    BY <1>a DEF Row
  <2>3. ClaimedRow(row[i], Len(log) + 1) \in Row /\ Checks(ClaimedRow(row[i], Len(log) + 1))
    BY <1>a, <2>2, RowsTyped
  <2>4. LogTakeover(i) \in Seq(Entry)
    BY <1>a, <1>c, <1>d DEF LogTakeover, Outcomes
  <2>5. log' \in Seq(Entry)
    <3>1. [job |-> i, attempt |-> row[i].attempts + 1, ran |-> FALSE,
           outcome |-> "open", hooks |-> 0] \in Entry
      BY <2>2 DEF Entry, Outcomes
    <3>2. QED
      BY <2>1, <2>4, <3>1, AppendFacts
  <2>6. claim' \in [Drains -> Claim]
    BY <2>1, <2>2 DEF TypeOK, Claim
  <2>7. claimed' \in [Drains -> Seq(Jobs)]
    BY <2>1, AppendFacts DEF TypeOK
  <2>8. QED
    BY <1>2, <2>1, <2>3, <2>5, <2>6, <2>7 DEF ClaimNext, TypeOK, Holding, bounds, behind
<1>3. CASE EndDrain(d)
  BY <1>3, <1>g DEF EndDrain, TypeOK, storeVars, bounds, behind
<1>4. CASE StartRun(d)
  <2>1. [log EXCEPT ![t].ran = TRUE] \in Seq(Entry)
    <3>1. t \in Nat /\ t # 0 /\ t <= Len(log)
      BY <1>4, <1>a DEF StartRun, ClaimInv, Holding, Claim
    <3>2. t \in DOMAIN log /\ log[t] \in Entry
      BY <1>a, <3>1
    <3>3. [log[t] EXCEPT !.ran = TRUE] \in Entry
      BY <3>2, EntriesTyped
    <3>4. QED
      BY <1>a, <3>2, <3>3, ReplaceFacts
  <2>2. log' \in Seq(Entry)
    BY <1>4, <1>a, <2>1 DEF StartRun
  <2>3. seen' \in [Drains -> Nat]
    <3>1. seen \in [Drains -> Nat] /\ version \in [RerunKeys -> Nat]
      BY DEF TypeOK
    <3>2. PICK n \in Nat : seen' = seen \/ seen' = [seen EXCEPT ![d] = n]
      <4>1. CASE seen' = seen
        BY <4>1
      <4>2. CASE row[j].key \in RerunKeys /\ seen' = [seen EXCEPT ![d] = version[row[j].key]]
        BY <3>1, <4>2
      <4>3. CASE row[j].key \notin RerunKeys /\ seen' = [seen EXCEPT ![d] = 0]
        BY <4>3
      <4>4. QED
        BY <1>4, <4>1, <4>2, <4>3 DEF StartRun
    <3>3. QED
      BY <3>1, <3>2
  <2>4. pc' \in [Drains -> Holding \cup {"idle", "claim"}]
    BY <1>4 DEF StartRun, TypeOK, Holding
  <2>5. QED
    BY <1>4, <2>2, <2>3, <2>4 DEF StartRun, TypeOK, bounds, behind
<1>5. CASE HandlerReturns(d)
  BY <1>5 DEF HandlerReturns, TypeOK, Holding, storeVars, bounds, behind
<1>6. CASE HandlerThrows(d) \/ Deadline(d)
  <2>1. pc' \in [Drains -> Holding \cup {"idle", "claim"}]
    BY <1>6 DEF HandlerThrows, Deadline, FailTo, TypeOK, Holding
  <2>2. left' \in SUBSET Nat /\ late' \in Nat
    <3>1. left \in SUBSET Nat /\ late \in Nat
      BY DEF TypeOK
    <3>2. \/ left' = left /\ late' = late
          \/ left' = left \cup {t} /\ late' = late + 1
      BY <1>6 DEF HandlerThrows, Deadline, behind
    <3>3. late' \in Nat
      BY <3>1, <3>2
    <3>4. left' \in SUBSET Nat
      <4>1. left \cup {t} \in SUBSET Nat
        BY <1>h, <3>1
      <4>2. QED
        BY <3>1, <3>2, <4>1
    <3>5. QED
      BY <3>3, <3>4
  <2>3. QED
    BY <1>6, <2>1, <2>2 DEF HandlerThrows, Deadline, TypeOK, storeVars, bounds
<1>7. CASE RenewLease(d)
  <2>1. j \in Jobs /\ row[j].status = "running" /\ row' = [row EXCEPT ![j].lease = "held"]
    BY <1>7, <1>b DEF RenewLease, Fenced, Holding
  <2>2. row[j] \in Row /\ Checks(row[j])
    BY <1>a, <2>1
  <2>3. [row[j] EXCEPT !.lease = "held"] \in Row /\ Checks([row[j] EXCEPT !.lease = "held"])
    BY <2>1, <2>2 DEF Row, Checks
  <2>4. QED
    BY <1>7, <2>1, <2>3 DEF RenewLease, TypeOK, drainVars, bounds, behind
<1>8. CASE LeaseLost(d)
  BY <1>8, <1>h, RunReturns DEF LeaseLost, TypeOK, storeVars, bounds, behind
<1>9. CASE Superseded(d)
  BY <1>9, RunReturns DEF Superseded, TypeOK, storeVars, bounds, behind
<1>10. CASE Complete(d)
  <2>1. j \in Jobs /\ t \in DOMAIN log
    BY <1>10, <1>b, <1>c DEF Complete, Holding
  <2>2. row' \in [Jobs -> Row] /\ \A i \in Jobs : Checks(row'[i])
    <3>1. \/ row' = [row EXCEPT ![j] = Released(row[j], "pending", 0, TRUE)]
          \/ row' = [row EXCEPT ![j] = Released(row[j], "gone", row[j].attempts, row[j].due)]
      BY <1>10 DEF Complete
    <3>2. CASE row' = [row EXCEPT ![j] = Released(row[j], "pending", 0, TRUE)]
      BY <1>a, <1>e, <2>1, <3>2 DEF Status
    <3>3. CASE row' = [row EXCEPT ![j] = Released(row[j], "gone", row[j].attempts, row[j].due)]
      BY <1>a, <1>e, <1>f, <2>1, <3>3 DEF Status
    <3>4. QED
      BY <3>1, <3>2, <3>3
  <2>3. log' \in Seq(Entry)
    <3>1. Close(d, "requeued", 0) \/ Close(d, "completed", 0)
      BY <1>10 DEF Complete
    <3>2. CASE Close(d, "requeued", 0)
      BY <1>d, <2>1, <3>2 DEF Close, Outcomes
    <3>3. CASE Close(d, "completed", 0)
      BY <1>d, <2>1, <3>3 DEF Close, Outcomes
    <3>4. QED
      BY <3>1, <3>2, <3>3
  <2>4. settled' \in [RerunKeys -> Nat]
    BY <1>10 DEF Complete, Settle, TypeOK
  <2>5. QED
    BY <1>10, <2>2, <2>3, <2>4, RunReturns DEF Complete, TypeOK, bounds, behind, Checks
<1>11. CASE Retry(d)
  <2>1. j \in Jobs /\ t \in DOMAIN log
    BY <1>11, <1>b, <1>c DEF Retry, Holding
  <2>2. row' \in [Jobs -> Row] /\ \A i \in Jobs : Checks(row'[i])
    BY <1>11, <1>a, <1>e, <1>f, <2>1 DEF Retry, Status
  <2>3. log' \in Seq(Entry)
    <3>1. PICK hooks \in {0, 1} : Close(d, "retried", hooks)
      BY <1>11 DEF Retry
    <3>2. QED
      BY <1>d, <2>1, <3>1 DEF Close, Outcomes
  <2>4. QED
    BY <1>11, <2>2, <2>3, RunReturns DEF Retry, TypeOK, bounds, behind, Checks
<1>12. CASE Park(d)
  <2>1. j \in Jobs /\ t \in DOMAIN log
    BY <1>12, <1>b, <1>c DEF Park, Holding
  <2>2. row' \in [Jobs -> Row] /\ \A i \in Jobs : Checks(row'[i])
    BY <1>12, <1>a, <1>e, <1>f, <2>1 DEF Park, Status
  <2>3. log' \in Seq(Entry)
    <3>1. PICK hooks \in {0, 1} : Close(d, "dead", hooks)
      BY <1>12 DEF Park
    <3>2. QED
      BY <1>d, <2>1, <3>1 DEF Close, Outcomes
  <2>4. settled' \in [RerunKeys -> Nat]
    BY <1>12 DEF Park, Settle, TypeOK
  <2>5. QED
    BY <1>12, <2>2, <2>3, <2>4, RunReturns DEF Park, TypeOK, bounds, behind, Checks
<1>13. CASE HookThrows(d)
  BY <1>13 DEF HookThrows, TypeOK, Holding, storeVars, bounds, behind
<1>14. CASE Crash(d)
  BY <1>14, <1>g DEF Crash, TypeOK, storeVars, behind
<1>15. QED
  BY <1>1, <1>2, <1>3, <1>4, <1>5, <1>6, <1>7, <1>8, <1>9, <1>10, <1>11, <1>12, <1>13, <1>14
     DEF Drain, WriteBack

(* The passing of time keeps the types.                                    *)
LEMMA TypeClock ==
  ASSUME TypeOK, NEW j \in Jobs, Clock(j)
  PROVE  TypeOK'
<1>a. row[j] \in Row /\ Checks(row[j])
  BY DEF TypeOK
<1>1. CASE LeaseLapses(j)
  <2>1. [row[j] EXCEPT !.lease = "lapsed"] \in Row /\ Checks([row[j] EXCEPT !.lease = "lapsed"])
    BY <1>a, <1>1 DEF LeaseLapses, Row, Checks
  <2>2. stalls' \in Nat
    BY <1>1 DEF LeaseLapses, TypeOK
  <2>3. QED
    BY <1>1, <2>1, <2>2 DEF LeaseLapses, TypeOK, drainVars, behind
<1>2. CASE BecomesDue(j)
  <2>1. [row[j] EXCEPT !.due = TRUE] \in Row /\ Checks([row[j] EXCEPT !.due = TRUE])
    BY <1>a DEF Row, Checks
  <2>2. QED
    BY <1>2, <2>1 DEF BecomesDue, TypeOK, drainVars, bounds, behind
<1>3. CASE DeleteBefore(j)
  <2>1. [row[j] EXCEPT !.status = "gone"] \in Row /\ Checks([row[j] EXCEPT !.status = "gone"])
    BY <1>a, <1>3 DEF DeleteBefore, Row, Checks, Status
  <2>2. QED
    BY <1>3, <2>1 DEF DeleteBefore, TypeOK, drainVars, bounds, behind
<1>4. QED
  BY <1>1, <1>2, <1>3 DEF Clock

-----------------------------------------------------------------------------
(* What a producer wrote stays put until its transaction ends.             *)

(* A drain leaves a locked row's status, and every key, alone.             *)
LEMMA DrainKeepsLocked ==
  ASSUME TypeOK, ClaimInv, NEW d \in Drains, Drain(d)
  PROVE  /\ tx' = tx
         /\ \A i \in Jobs : /\ Locked(i) => row'[i].status = row[i].status
                            /\ row'[i].key = row[i].key
<1>1. CASE StartDrain(d) \/ EndDrain(d) \/ StartRun(d) \/ HandlerReturns(d)
          \/ HandlerThrows(d) \/ Deadline(d) \/ LeaseLost(d)
          \/ Superseded(d) \/ HookThrows(d) \/ Crash(d)
  BY <1>1 DEF StartDrain, EndDrain, StartRun, HandlerReturns, HandlerThrows, Deadline,
              LeaseLost, Superseded, HookThrows, Crash, storeVars
<1>2. CASE ClaimNext(d)
  BY <1>2 DEF ClaimNext, Claimable, ClaimedRow, TypeOK
<1>3. CASE RenewLease(d)
  BY <1>3 DEF RenewLease, TypeOK, Row
<1>4. CASE Complete(d)
  <2> DEFINE j == claim[d].job
  <2>1. PICK r \in {Released(row[j], "pending", 0, TRUE),
                    Released(row[j], "gone", row[j].attempts, row[j].due)} :
          row' = [row EXCEPT ![j] = r]
    BY <1>4 DEF Complete
  <2>2. r.key = row[j].key
    BY <2>1 DEF Released
  <2>3. QED
    BY <1>4, <2>1, <2>2 DEF Complete, TypeOK
<1>5. CASE Retry(d)
  BY <1>5 DEF Retry, Released, TypeOK
<1>6. CASE Park(d)
  BY <1>6 DEF Park, Released, TypeOK
<1>7. QED
  BY <1>1, <1>2, <1>3, <1>4, <1>5, <1>6 DEF Drain, WriteBack

(* So does the passing of time.                                            *)
LEMMA ClockKeepsLocked ==
  ASSUME TypeOK, TxInv, NEW j \in Jobs, Clock(j)
  PROVE  /\ tx' = tx
         /\ \A i \in Jobs : /\ Locked(i) => row'[i].status = row[i].status
                            /\ row'[i].key = row[i].key
<1>1. \A i \in Jobs : Locked(i) => row[i].status # "dead"
  BY DEF Locked, TxInv, Holds
<1>2. CASE LeaseLapses(j)
  BY <1>2 DEF LeaseLapses, TypeOK, Row
<1>3. CASE BecomesDue(j)
  BY <1>3 DEF BecomesDue, TypeOK, Row
<1>4. CASE DeleteBefore(j)
  BY <1>1, <1>4 DEF DeleteBefore, TypeOK, Row
<1>5. QED
  BY <1>2, <1>3, <1>4 DEF Clock

(* What leaves the locked rows alone leaves TxInv alone.                   *)
LEMMA TxInvFrame ==
  ASSUME TxInv, tx' = tx,
         \A i \in Jobs : /\ Locked(i) => row'[i].status = row[i].status
                         /\ row'[i].key = row[i].key
  PROVE  TxInv'
BY DEF TxInv, Holds, Locked

(* Producers keep TxInv.                                                   *)
LEMMA TxProduce ==
  ASSUME TypeOK, TxInv, NEW p \in Producers, Produce(p)
  PROVE  TxInv'
<1>a. tx \in [Producers -> Tx]
  BY DEF TypeOK
<1>1. ASSUME NEW k \in Keys, BeginTx(p, k) PROVE TxInv'
  BY <1>1, <1>a DEF BeginTx, TxInv, Holds, storeVars
<1>2. CASE InsertFresh(p)
  <2>1. PICK j \in Jobs :
          /\ row[j].status = "none" /\ ~Locked(j)
          /\ tx' = [tx EXCEPT ![p] = Wrote(p, "insert", j)]
    BY <1>2 DEF InsertFresh
  <2>2. row' = row /\ tx[p].pc = "open"
    BY <1>2 DEF InsertFresh, storeVars
  <2>3. QED
    BY <1>a, <2>1, <2>2 DEF TxInv, Holds, Locked, Wrote
<1>3. CASE InsertDuplicate(p)
  <2>1. row' = row /\ tx[p].pc = "open"
    BY <1>3 DEF InsertDuplicate, storeVars
  <2>2. PICK j \in Jobs :
          /\ Live(j) /\ row[j].key = tx[p].key
          /\ \/ /\ ~Locked(j)
                /\ tx' = [tx EXCEPT ![p] =
                            Wrote(p, IF row[j].status = "running" THEN "flag" ELSE "fold", j)]
             \/ /\ tx[p].key \notin RerunKeys
                /\ tx' = [tx EXCEPT ![p] = Wrote(p, "ignored", None)]
    BY <1>3 DEF InsertDuplicate
  <2>3. CASE /\ ~Locked(j) /\ row[j].status = "running"
             /\ tx' = [tx EXCEPT ![p] = Wrote(p, "flag", j)]
    BY <1>a, <2>1, <2>2, <2>3 DEF TxInv, Holds, Locked, Wrote
  <2>4. CASE /\ ~Locked(j) /\ row[j].status = "pending"
             /\ tx' = [tx EXCEPT ![p] = Wrote(p, "fold", j)]
    BY <1>a, <2>1, <2>2, <2>4 DEF TxInv, Holds, Locked, Wrote
  <2>5. CASE /\ tx[p].key \notin RerunKeys
             /\ tx' = [tx EXCEPT ![p] = Wrote(p, "ignored", None)]
    BY <1>a, <2>1, <2>2, <2>5 DEF TxInv, Holds, Locked, Wrote
  <2>6. QED
    BY <2>2, <2>3, <2>4, <2>5 DEF Live
<1>4. CASE CommitTx(p)
  <2>1. tx' = [tx EXCEPT ![p] = NoTx]
    BY <1>4 DEF CommitTx
  <2>2. \A i \in Jobs : row'[i] = row[i] \/ (i = tx[p].job /\ Holds(p))
    BY <1>4 DEF CommitTx, Holds, TypeOK
  <2>3. QED
    BY <1>a, <2>1, <2>2 DEF TxInv, Holds, NoTx
<1>5. CASE RollbackTx(p)
  BY <1>5, <1>a DEF RollbackTx, TxInv, Holds, NoTx, storeVars
<1>6. QED
  BY <1>1, <1>2, <1>3, <1>4, <1>5 DEF Produce

-----------------------------------------------------------------------------
(* Claims and their tokens.                                                *)

(* What a producer does, and the passing of time, leave the claims alone.  *)
LEMMA ClaimFrame ==
  ASSUME ClaimInv, claim' = claim, pc' = pc, log' = log
  PROVE  ClaimInv'
BY DEF ClaimInv

(* Drains keep ClaimInv.                                                   *)
LEMMA ClaimDrain ==
  ASSUME TypeOK, ClaimInv, LogInv, NEW d \in Drains, Drain(d)
  PROVE  ClaimInv'
<1>a. /\ log \in Seq(Entry) /\ Len(log) \in Nat /\ claim \in [Drains -> Claim]
      /\ pc \in [Drains -> Holding \cup {"idle", "claim"}]
  BY DEF TypeOK
<1>b. \A t, e : Len([log EXCEPT ![t] = e]) = Len(log)
  BY <1>a
<1>1. CASE ClaimNext(d)
  <2>1. PICK i \in Jobs :
          /\ log' = Append(LogTakeover(i),
                           [job |-> i, attempt |-> row[i].attempts + 1, ran |-> FALSE,
                            outcome |-> "open", hooks |-> 0])
          /\ claim' = [claim EXCEPT ![d] = [job |-> i, token |-> Len(log) + 1,
                                            attempt |-> row[i].attempts + 1]]
    BY <1>1 DEF ClaimNext
  <2>2. Len(LogTakeover(i)) = Len(log)
    BY <1>b DEF LogTakeover
  <2>3. Len(log') = Len(log) + 1
    BY <1>a, <2>1, <2>2 DEF LogTakeover
  <2>4. QED
    BY <1>1, <1>a, <2>1, <2>3 DEF ClaimNext, ClaimInv, Claim
<1>2. ASSUME Len(log') = Len(log),
             \A e \in Drains : claim'[e] = claim[e] \/ claim'[e].token = 0,
             \A e \in Drains : pc'[e] \in Holding => pc[e] \in Holding /\ claim'[e] = claim[e]
      PROVE  ClaimInv'
  BY <1>2, <1>a DEF ClaimInv
<1>3. ASSUME claim' = claim, Len(log') = Len(log), pc[d] \in Holding,
             \E s : pc' = [pc EXCEPT ![d] = s]
      PROVE  ClaimInv'
  BY <1>3, <1>a, <1>2
<1>4. CASE StartDrain(d) \/ EndDrain(d) \/ Crash(d)
  BY <1>4, <1>2, <1>a DEF StartDrain, EndDrain, Crash, Forgets, NoClaim, Holding, storeVars
<1>5. CASE RenewLease(d)
  BY <1>5, <1>2 DEF RenewLease, drainVars
<1>6. CASE StartRun(d)
  BY <1>6, <1>3, <1>b DEF StartRun, Holding
<1>7. CASE HandlerReturns(d) \/ HandlerThrows(d) \/ Deadline(d) \/ HookThrows(d)
  BY <1>7, <1>3 DEF HandlerReturns, HandlerThrows, Deadline, FailTo, HookThrows, Holding,
                    storeVars
<1>r. ASSUME Returns(d), Len(log') = Len(log) PROVE ClaimInv'
  BY <1>r, <1>2, RunReturns
<1>9. CASE LeaseLost(d) \/ Superseded(d)
  BY <1>9, <1>r DEF LeaseLost, Superseded, storeVars
<1>8. CASE Complete(d) \/ Retry(d) \/ Park(d)
  <2>1. PICK e : log' = [log EXCEPT ![claim[d].token] = e]
    BY <1>8 DEF Complete, Retry, Park, Close
  <2>2. Returns(d)
    BY <1>8 DEF Complete, Retry, Park
  <2>3. QED
    BY <1>r, <1>b, <2>1, <2>2
<1>10. QED
  BY <1>1, <1>4, <1>5, <1>6, <1>7, <1>8, <1>9 DEF Drain, WriteBack

(* A write back that passes its fence closes its own claim and keeps the   *)
(* claims of all other running rows open.                                  *)
LEMMA CloseKeepsLog ==
  ASSUME TypeOK, LogInv, NEW d \in Drains, claim[d].job \in Jobs, Fenced(d),
         NEW outcome \in Outcomes \ {"open"}, NEW hooks \in Nat, Close(d, outcome, hooks),
         NEW r \in Row, r.status # "running",
         row' = [row EXCEPT ![claim[d].job] = r]
  PROVE  LogInv'
<1> DEFINE j == claim[d].job
           t == claim[d].token
<1>1. t \in DOMAIN log /\ log[t].job = j /\ log[t].outcome = "open" /\ row[j].token = t
  BY DEF Fenced, LogInv
<1>2. log' = [log EXCEPT ![t] = Ended(log[t], outcome, hooks)]
  BY DEF Close
<1>3. DOMAIN log' = DOMAIN log /\ log'[t].outcome = outcome
      /\ \A u \in DOMAIN log \ {t} : log'[u] = log[u]
  BY <1>1, <1>2 DEF TypeOK, Ended
<1>4. ASSUME NEW i \in Jobs, row'[i].status = "running"
      PROVE  /\ row'[i].token \in DOMAIN log'
             /\ log'[row'[i].token].job = i
             /\ log'[row'[i].token].outcome = "open"
  <2>1. i # j /\ row'[i] = row[i]
    BY <1>4 DEF TypeOK
  <2>2. row[i].token \in DOMAIN log /\ log[row[i].token].job = i
        /\ log[row[i].token].outcome = "open"
    BY <1>4, <2>1 DEF LogInv
  <2>3. row[i].token # t
    BY <1>1, <2>1, <2>2
  <2>4. QED
    BY <1>3, <2>1, <2>2, <2>3
<1>5. \A u \in DOMAIN log' : log'[u].outcome = "open" => log'[u].hooks = 0
  BY <1>3 DEF LogInv
<1>6. QED
  BY <1>4, <1>5 DEF LogInv

(* A step that keeps the log and every running row's token keeps LogInv.   *)
LEMMA LogFrame ==
  ASSUME LogInv, log' = log,
         \A i \in Jobs : row'[i].status = "running" =>
                          row[i].status = "running" /\ row'[i].token = row[i].token
  PROVE  LogInv'
BY DEF LogInv

(* Producers keep LogInv.                                                  *)
LEMMA LogProduce ==
  ASSUME TypeOK, TxInv, LogInv, NEW p \in Producers, Produce(p)
  PROVE  LogInv'
<1>1. CASE UNCHANGED storeVars
  BY <1>1, LogFrame DEF storeVars
<1>2. CASE CommitTx(p)
  <2>1. CASE tx[p].did = "insert"
    <3>1. PICK due \in BOOLEAN : row' = [row EXCEPT ![tx[p].job] = FreshRow(tx[p].key, due)]
      BY <1>2, <2>1 DEF CommitTx
    <3>2. \A i \in Jobs : row'[i] = row[i] \/ row'[i].status # "running"
      BY <3>1 DEF TypeOK, FreshRow
    <3>3. QED
      BY <1>2, <3>2, LogFrame DEF CommitTx
  <2>2. CASE tx[p].did = "flag"
    <3>1. row' = [row EXCEPT ![tx[p].job].rerun = TRUE] /\ log' = log
      BY <1>2, <2>2 DEF CommitTx
    <3>2. \A i \in Jobs : row'[i].status = row[i].status /\ row'[i].token = row[i].token
      BY <3>1 DEF TypeOK, Row
    <3>3. QED
      BY <3>1, <3>2, LogFrame
  <2>3. QED
    BY <1>2, <2>1, <2>2, LogFrame DEF CommitTx
<1>3. QED
  BY <1>1, <1>2 DEF Produce, BeginTx, InsertFresh, InsertDuplicate, RollbackTx

(* Time keeps LogInv.                                                      *)
LEMMA LogClock ==
  ASSUME TypeOK, LogInv, NEW j \in Jobs, Clock(j)
  PROVE  LogInv'
<1>1. log' = log
  BY DEF Clock, LeaseLapses, BecomesDue, DeleteBefore
<1>2. \A i \in Jobs : row'[i].status = "running" =>
                       row[i].status = "running" /\ row'[i].token = row[i].token
  <2>1. CASE LeaseLapses(j)
    BY <2>1 DEF LeaseLapses, TypeOK, Row
  <2>2. CASE BecomesDue(j)
    BY <2>2 DEF BecomesDue, TypeOK, Row
  <2>3. CASE DeleteBefore(j)
    BY <2>3 DEF DeleteBefore, TypeOK, Row
  <2>4. QED
    BY <2>1, <2>2, <2>3 DEF Clock
<1>3. QED
  BY <1>1, <1>2, LogFrame

(* Drains keep LogInv.                                                     *)
LEMMA LogDrain ==
  ASSUME TypeOK, ClaimInv, LogInv, NEW d \in Drains, Drain(d)
  PROVE  LogInv'
<1> DEFINE j == claim[d].job
           t == claim[d].token
<1>a. /\ log \in Seq(Entry) /\ Len(log) \in Nat /\ DOMAIN log = 1 .. Len(log)
      /\ row \in [Jobs -> Row]
  BY DEF TypeOK
<1>b. pc[d] \in Holding => j \in Jobs
  BY DEF ClaimInv
<1>c. \A status \in Status \ {"running"}, attempts \in Nat, due \in BOOLEAN : j \in Jobs =>
        /\ Released(row[j], status, attempts, due) \in Row
        /\ Released(row[j], status, attempts, due).status = status
  BY <1>a, RowsTyped DEF Released
<1>d. j \in Jobs => row[j].attempts \in Nat /\ row[j].due \in BOOLEAN
  BY <1>a DEF Row
<1>1. CASE UNCHANGED storeVars
  BY <1>1, LogFrame DEF storeVars
<1>2. CASE ClaimNext(d)
  <2>1. PICK i \in Jobs :
          /\ row' = [row EXCEPT ![i] = ClaimedRow(row[i], Len(log) + 1)]
          /\ log' = Append(LogTakeover(i),
                           [job |-> i, attempt |-> row[i].attempts + 1, ran |-> FALSE,
                            outcome |-> "open", hooks |-> 0])
    BY <1>2 DEF ClaimNext
  <2>2. /\ LogTakeover(i) \in Seq(Entry)
        /\ Len(LogTakeover(i)) = Len(log)
        /\ \A u \in DOMAIN log : \/ LogTakeover(i)[u] = log[u]
                                 \/ LogTakeover(i)[u].outcome = "lost"
        /\ \A u \in DOMAIN log : row[i].status # "running" \/ u # row[i].token =>
                                   LogTakeover(i)[u] = log[u]
    <3>1. CASE row[i].status = "running"
      <4>1. row[i].token \in DOMAIN log
        BY <3>1 DEF LogInv
      <4>2. log[row[i].token] \in Entry /\ Ended(log[row[i].token], "lost", 0) \in Entry
        <5>1. log[row[i].token] \in Entry
          BY <1>a, <4>1
        <5>2. QED
          BY <5>1, EntriesTyped DEF Outcomes
      <4>3. LogTakeover(i) = [log EXCEPT ![row[i].token] = Ended(log[row[i].token], "lost", 0)]
        BY <3>1 DEF LogTakeover
      <4>4. LogTakeover(i) \in Seq(Entry) /\ Len(LogTakeover(i)) = Len(log)
        BY <1>a, <4>1, <4>2, <4>3, ReplaceFacts
      <4>5. LogTakeover(i)[row[i].token].outcome = "lost"
        BY <1>a, <4>1, <4>3 DEF Ended
      <4>6. \A u \in DOMAIN log : u # row[i].token => LogTakeover(i)[u] = log[u]
        BY <1>a, <4>3
      <4>7. QED
        BY <3>1, <4>4, <4>5, <4>6
    <3>2. CASE row[i].status # "running"
      BY <1>a, <3>2 DEF LogTakeover
    <3>3. QED
      BY <3>1, <3>2
  <2>3. /\ DOMAIN log' = 1 .. Len(log) + 1
        /\ \A u \in DOMAIN log : log'[u] = LogTakeover(i)[u]
        /\ log'[Len(log) + 1].job = i
        /\ log'[Len(log) + 1].outcome = "open"
        /\ log'[Len(log) + 1].hooks = 0
    BY <1>a, <2>1, <2>2
  <2>4. ASSUME NEW k \in Jobs, row'[k].status = "running"
        PROVE  /\ row'[k].token \in DOMAIN log'
               /\ log'[row'[k].token].job = k
               /\ log'[row'[k].token].outcome = "open"
    <3>1. CASE k = i
      BY <1>a, <2>1, <2>3, <3>1 DEF ClaimedRow
    <3>2. CASE k # i
      <4>1. row'[k] = row[k]
        BY <1>a, <2>1, <3>2
      <4>2. row[k].token \in DOMAIN log /\ log[row[k].token].job = k
            /\ log[row[k].token].outcome = "open"
        BY <2>4, <4>1 DEF LogInv
      <4>3. row[i].status = "running" => row[i].token # row[k].token
        BY <3>2, <4>2 DEF LogInv
      <4>4. QED
        BY <1>a, <2>2, <2>3, <4>1, <4>2, <4>3
    <3>3. QED
      BY <3>1, <3>2
  <2>5. ASSUME NEW u \in DOMAIN log', log'[u].outcome = "open"
        PROVE  log'[u].hooks = 0
    <3>1. u \in DOMAIN log \/ u = Len(log) + 1
      BY <1>a, <2>3, <2>5
    <3>2. QED
      BY <2>2, <2>3, <2>5, <3>1 DEF LogInv
  <2>6. QED
    BY <2>4, <2>5 DEF LogInv
<1>3. CASE StartRun(d)
  <2>1. row' = row /\ (log' = log \/ log' = [log EXCEPT ![t].ran = TRUE])
    BY <1>3 DEF StartRun
  <2>2. DOMAIN log' = DOMAIN log /\ \A u \in DOMAIN log :
          /\ log'[u].job = log[u].job
          /\ log'[u].outcome = log[u].outcome
          /\ log'[u].hooks = log[u].hooks
    <3>1. ASSUME NEW u \in DOMAIN log
          PROVE  /\ [log[u] EXCEPT !.ran = TRUE].job = log[u].job
                 /\ [log[u] EXCEPT !.ran = TRUE].outcome = log[u].outcome
                 /\ [log[u] EXCEPT !.ran = TRUE].hooks = log[u].hooks
      <4>1. log[u] \in Entry
        BY <1>a
      <4>2. QED
        BY <4>1 DEF Entry
    <3>2. DOMAIN log' = DOMAIN log /\ \A u \in DOMAIN log :
            log'[u] = log[u] \/ log'[u] = [log[u] EXCEPT !.ran = TRUE]
      BY <1>a, <2>1
    <3>3. QED
      BY <3>1, <3>2
  <2>3. QED
    BY <2>1, <2>2 DEF LogInv
<1>4. CASE RenewLease(d)
  BY <1>4, <1>a, LogFrame DEF RenewLease, Row
<1>5. CASE Complete(d)
  <2>1. j \in Jobs /\ Fenced(d)
    BY <1>5, <1>b DEF Complete, Holding
  <2>2. CASE RerunRequested(j)
    <3>1. /\ row' = [row EXCEPT ![j] = Released(row[j], "pending", 0, TRUE)]
          /\ Close(d, "requeued", 0)
      BY <1>5, <2>2 DEF Complete
    <3>2. /\ Released(row[j], "pending", 0, TRUE) \in Row
          /\ Released(row[j], "pending", 0, TRUE).status # "running"
      BY <1>a, <2>1, RowsTyped DEF Released, Status
    <3>3. QED
      BY <2>1, <3>1, <3>2, CloseKeepsLog DEF Outcomes
  <2>3. CASE ~RerunRequested(j)
    BY <1>5, <1>c, <1>d, <2>1, <2>3, CloseKeepsLog DEF Complete, Status, Outcomes
  <2>4. QED
    BY <2>2, <2>3
<1>6. CASE Retry(d)
  <2>1. j \in Jobs /\ Fenced(d)
    BY <1>6, <1>b DEF Retry, Holding
  <2>2. PICK hooks \in {0, 1} : Close(d, "retried", hooks)
    BY <1>6 DEF Retry
  <2>3. QED
    <3>a. "pending" \in Status \ {"running"} /\ row[j].attempts \in Nat /\ FALSE \in BOOLEAN
      BY <1>d, <2>1 DEF Status
    <3>1. /\ Released(row[j], "pending", row[j].attempts, FALSE) \in Row
          /\ Released(row[j], "pending", row[j].attempts, FALSE).status = "pending"
      BY <1>c, <2>1, <3>a
    <3>2. row' = [row EXCEPT ![j] = Released(row[j], "pending", row[j].attempts, FALSE)]
      BY <1>6 DEF Retry
    <3>3. QED
      BY <2>1, <2>2, <3>1, <3>2, CloseKeepsLog DEF Outcomes
<1>7. CASE Park(d)
  <2>1. j \in Jobs /\ Fenced(d)
    BY <1>7, <1>b DEF Park, Holding
  <2>2. PICK hooks \in {0, 1} : Close(d, "dead", hooks)
    BY <1>7 DEF Park
  <2>3. QED
    <3>1. row' = [row EXCEPT ![j] = Released(row[j], "dead", row[j].attempts, row[j].due)]
      BY <1>7 DEF Park
    <3>2. /\ Released(row[j], "dead", row[j].attempts, row[j].due) \in Row
          /\ Released(row[j], "dead", row[j].attempts, row[j].due).status # "running"
      BY <1>c, <1>d, <2>1 DEF Status
    <3>3. QED
      BY <2>1, <2>2, <3>1, <3>2, CloseKeepsLog DEF Outcomes
<1>8. QED
  BY <1>1, <1>2, <1>3, <1>4, <1>5, <1>6, <1>7
     DEF Drain, WriteBack, StartDrain, EndDrain, HandlerReturns, HandlerThrows, Deadline,
         LeaseLost, Superseded, HookThrows, Crash

-----------------------------------------------------------------------------
(* No change is lost.                                                      *)

(* A step that keeps what covers a key, and settles no change it should    *)
(* not, keeps CoverInv.                                                    *)
LEMMA CoverStep ==
  ASSUME CoverInv, TypeOK, TypeOK', version' = version,
         \A k \in RerunKeys : settled'[k] >= settled[k],
         \A k \in RerunKeys, j \in Jobs :
           Covers(j, k) => Covers(j, k)' \/ settled'[k] >= version[k]
  PROVE  CoverInv'
<1>1. \A k \in RerunKeys : /\ settled[k] \in Nat /\ version[k] \in Nat
                           /\ settled'[k] \in Nat /\ version'[k] = version[k]
  BY DEF TypeOK
<1>2. ASSUME NEW k \in RerunKeys, Owed(k)'
      PROVE  \E j \in Jobs : Covers(j, k)'
  <2>1. Owed(k) /\ ~(settled'[k] >= version[k])
    BY <1>1, <1>2 DEF Owed
  <2>2. PICK j \in Jobs : Covers(j, k)
    BY <2>1 DEF CoverInv
  <2>3. QED
    BY <2>1, <2>2
<1>3. QED
  BY <1>2 DEF CoverInv

(* A step that starts no run leaves what covers a key alone.               *)
LEMMA CoverFrame ==
  ASSUME CoverInv, TypeOK, TypeOK',
         version' = version, settled' = settled,
         \A d \in Drains : pc'[d] \in {"handler", "complete"} =>
                             /\ pc[d] \in {"handler", "complete"}
                             /\ seen'[d] = seen[d] /\ claim'[d] = claim[d],
         \A j \in Jobs : Live(j) => /\ row'[j].status = row[j].status
                                    /\ row'[j].key = row[j].key
                                    /\ row'[j].token = row[j].token
                                    /\ row'[j].rerun = row[j].rerun
  PROVE  CoverInv'
<1>1. \A d \in Drains, j \in Jobs :
        Live(j) /\ Runs(d, j)' => Runs(d, j) /\ seen'[d] = seen[d]
  BY DEF Runs
<1>2. \A j \in Jobs : Live(j) => Live(j)'
  BY DEF Live
<1>3. \A k \in RerunKeys, j \in Jobs : Covers(j, k) => Covers(j, k)'
  BY <1>1, <1>2 DEF Covers
<1>4. \A k \in RerunKeys : settled'[k] >= settled[k]
  BY DEF TypeOK
<1>5. QED
  BY <1>3, <1>4, CoverStep

(* Producers keep CoverInv: a change commits with the job that covers it.  *)
LEMMA CoverProduce ==
  ASSUME TypeOK, TypeOK', TxInv, CoverInv, NEW p \in Producers, Produce(p)
  PROVE  CoverInv'
<1>1. CASE UNCHANGED <<storeVars, drainVars, version>>
  BY <1>1, CoverFrame DEF storeVars, drainVars
<1>2. CASE CommitTx(p)
  <2> DEFINE i == tx[p].job
             c == tx[p].key
  <2>1. UNCHANGED <<drainVars, settled>>
    BY <1>2 DEF CommitTx
  <2>2. /\ row \in [Jobs -> Row] /\ version \in [RerunKeys -> Nat]
        /\ c \in RerunKeys => version'[c] = version[c] + 1
        /\ \A k \in RerunKeys : k # c => version'[k] = version[k]
    BY <1>2 DEF CommitTx, TypeOK
  <2>3. \A k \in RerunKeys, j \in Jobs : Covers(j, k) /\ k # c => Covers(j, k)'
    <3>1. \A j \in Jobs : row'[j] = row[j] \/ ~Live(j) \/ row[j].key = c
      BY <1>2 DEF CommitTx, TxInv, Holds, Live, TypeOK
    <3>2. \A j \in Jobs, d \in Drains : row'[j] = row[j] => (Runs(d, j)' <=> Runs(d, j))
      BY <2>1 DEF Runs, drainVars
    <3>3. \A j \in Jobs : row'[j] = row[j] => (Live(j)' <=> Live(j))
      BY DEF Live
    <3>4. seen' = seen
      BY <2>1 DEF drainVars
    <3>5. QED
      BY <2>2, <3>1, <3>2, <3>3, <3>4 DEF Covers
  <2>4. ASSUME NEW k \in RerunKeys, c = k
        PROVE  \E j \in Jobs : Covers(j, k)'
    <3>1. CASE tx[p].did = "insert"
      <4>1. i \in Jobs
        BY <3>1 DEF TxInv, Holds
      <4>2. PICK due \in BOOLEAN : row' = [row EXCEPT ![i] = FreshRow(c, due)]
        BY <1>2, <3>1 DEF CommitTx
      <4>3. row'[i].status = "pending" /\ row'[i].key = k
        BY <2>2, <2>4, <4>1, <4>2 DEF FreshRow
      <4>4. PICK j \in Jobs : j = i
        BY <4>1
      <4>5. Covers(j, k)'
        BY <4>3, <4>4 DEF Covers, Live
      <4>6. QED
        BY <4>5
    <3>2. CASE tx[p].did = "flag"
      <4>1. i \in Jobs /\ row[i].status = "running" /\ row[i].key = k
        BY <2>4, <3>2 DEF TxInv, Holds
      <4>2. row' = [row EXCEPT ![i].rerun = TRUE]
        BY <1>2, <3>2 DEF CommitTx
      <4>3. row'[i].status = "running" /\ row'[i].key = k /\ row'[i].rerun
        BY <2>2, <4>1, <4>2 DEF Row
      <4>4. PICK j \in Jobs : j = i
        BY <4>1
      <4>5. Covers(j, k)'
        BY <4>3, <4>4 DEF Covers, Live
      <4>6. QED
        BY <4>5
    <3>3. CASE tx[p].did = "fold"
      <4>1. i \in Jobs /\ row[i].status = "pending" /\ row[i].key = k
        BY <2>4, <3>3 DEF TxInv, Holds
      <4>2. row' = row
        BY <1>2, <3>3 DEF CommitTx
      <4>3. PICK j \in Jobs : j = i
        BY <4>1
      <4>4. Covers(j, k)'
        BY <4>1, <4>2, <4>3 DEF Covers, Live
      <4>5. QED
        BY <4>4
    <3>4. CASE tx[p].did = "ignored"
      BY <2>4, <3>4 DEF TxInv
    <3>5. QED
      BY <1>2, <3>1, <3>2, <3>3, <3>4 DEF CommitTx
  <2>5. ASSUME NEW k \in RerunKeys, Owed(k)', k # c
        PROVE  \E j \in Jobs : Covers(j, k)'
    <3>1. Owed(k)
      BY <2>1, <2>2, <2>5 DEF Owed
    <3>2. QED
      BY <2>3, <2>5, <3>1 DEF CoverInv
  <2>6. QED
    BY <2>4, <2>5 DEF CoverInv
<1>3. QED
  BY <1>1, <1>2 DEF Produce, BeginTx, InsertFresh, InsertDuplicate, RollbackTx

(* Time keeps CoverInv.                                                    *)
LEMMA CoverClock ==
  ASSUME TypeOK, TypeOK', CoverInv, NEW j \in Jobs, Clock(j)
  PROVE  CoverInv'
<1>1. UNCHANGED <<version, settled, drainVars>>
  BY DEF Clock, LeaseLapses, BecomesDue, DeleteBefore
<1>2. \A i \in Jobs : Live(i) => /\ row'[i].status = row[i].status
                                 /\ row'[i].key = row[i].key
                                 /\ row'[i].token = row[i].token
                                 /\ row'[i].rerun = row[i].rerun
  <2>1. CASE LeaseLapses(j)
    BY <2>1 DEF LeaseLapses, TypeOK, Row
  <2>2. CASE BecomesDue(j)
    BY <2>2 DEF BecomesDue, TypeOK, Row
  <2>3. CASE DeleteBefore(j)
    BY <2>3 DEF DeleteBefore, TypeOK, Row, Live
  <2>4. QED
    BY <2>1, <2>2, <2>3 DEF Clock
<1>3. QED
  BY <1>1, <1>2, CoverFrame DEF drainVars

(* Drains keep CoverInv: a completion that deletes the job has read every  *)
(* change, any other end leaves the job waiting or gives the changes up.   *)
LEMMA CoverDrain ==
  ASSUME TypeOK, TypeOK', ClaimInv, CoverInv, NEW d \in Drains, Drain(d)
  PROVE  CoverInv'
<1>a. /\ row \in [Jobs -> Row] /\ pc \in [Drains -> Holding \cup {"idle", "claim"}]
      /\ claim \in [Drains -> Claim] /\ seen \in [Drains -> Nat]
      /\ version \in [RerunKeys -> Nat] /\ settled \in [RerunKeys -> Nat]
      /\ Len(log) \in Nat
  BY DEF TypeOK
<1>b. pc[d] \in Holding => claim[d].job \in Jobs
  BY DEF ClaimInv
<1>1. CASE /\ UNCHANGED <<row, version, settled>>
           /\ \A e \in Drains : pc'[e] \in {"handler", "complete"} =>
                                /\ pc[e] \in {"handler", "complete"}
                                /\ seen'[e] = seen[e] /\ claim'[e] = claim[e]
  BY <1>1, CoverFrame
<1>2. CASE ClaimNext(d)
  <2>1. PICK i \in Jobs :
          /\ row' = [row EXCEPT ![i] = ClaimedRow(row[i], Len(log) + 1)]
          /\ claim' = [claim EXCEPT ![d] = [job |-> i, token |-> Len(log) + 1,
                                            attempt |-> row[i].attempts + 1]]
    BY <1>2 DEF ClaimNext
  <2>2. UNCHANGED <<seen, version, settled>> /\ pc' = [pc EXCEPT ![d] = "claimed"]
    BY <1>2 DEF ClaimNext
  <2>3. ~ \E e \in Drains : Runs(e, i)'
    <3>1. ASSUME NEW e \in Drains, Runs(e, i)' PROVE FALSE
      <4>1. e # d /\ claim'[e] = claim[e]
        BY <1>a, <2>1, <2>2, <3>1 DEF Runs
      <4>2. row'[i].token = Len(log) + 1
        BY <1>a, <2>1 DEF ClaimedRow
      <4>3. claim[e].token <= Len(log) /\ claim[e].token \in Nat
        BY <1>a DEF ClaimInv, Claim
      <4>4. QED
        BY <1>a, <3>1, <4>1, <4>2, <4>3 DEF Runs
    <3>2. QED
      BY <3>1
  <2>4. \A j \in Jobs, e \in Drains : j # i /\ Runs(e, j)' => Runs(e, j)
    BY <1>a, <2>1, <2>2 DEF Runs
  <2>5. row'[i].status = "running" /\ row'[i].key = row[i].key
        /\ \A j \in Jobs : j # i => row'[j] = row[j]
    BY <1>a, <2>1 DEF ClaimedRow
  <2>6. \A k \in RerunKeys, j \in Jobs : Covers(j, k) => Covers(j, k)'
    BY <2>2, <2>3, <2>4, <2>5 DEF Covers, Live
  <2>7. QED
    BY <1>a, <2>2, <2>6, CoverStep
<1>3. CASE StartRun(d)
  <2>1. UNCHANGED <<row, claim, version, settled>>
    BY <1>3 DEF StartRun
  <2>2. CASE Spent(claim[d].attempt)
    BY <1>3, <2>1, <2>2, <1>1, <1>a DEF StartRun
  <2>3. CASE ~Spent(claim[d].attempt)
    <3>1. /\ pc' = [pc EXCEPT ![d] = "handler"]
          /\ \A e \in Drains : e # d => seen'[e] = seen[e]
          /\ row[claim[d].job].key \in RerunKeys =>
               seen'[d] = version[row[claim[d].job].key]
      BY <1>3, <1>a, <2>3 DEF StartRun
    <3>2. ASSUME NEW k \in RerunKeys, NEW j \in Jobs, Covers(j, k)
          PROVE  Covers(j, k)'
      <4>1. row[j].key = k /\ Live(j)
        BY <3>2 DEF Covers
      <4>2. Live(j)' /\ row'[j] = row[j]
        BY <2>1, <4>1 DEF Live
      <4>3. \A e \in Drains : e # d => (Runs(e, j)' <=> Runs(e, j))
        BY <1>a, <2>1, <3>1 DEF Runs
      <4>4. Runs(d, j)' => seen'[d] >= version[k]
        BY <1>a, <2>1, <3>1, <4>1 DEF Runs
      <4>5. QED
        BY <2>1, <3>1, <3>2, <4>1, <4>2, <4>3, <4>4 DEF Covers
    <3>3. QED
      BY <1>a, <2>1, <3>2, CoverStep
  <2>4. QED
    BY <2>2, <2>3
<1>4. CASE RenewLease(d)
  BY <1>4, <1>a, CoverFrame DEF RenewLease, drainVars, Row
<1>5. CASE Complete(d) \/ Retry(d) \/ Park(d)
  <2> DEFINE i == claim[d].job
  <2>1. i \in Jobs /\ Fenced(d) /\ version' = version /\ Returns(d)
    BY <1>5, <1>b DEF Complete, Retry, Park, Holding
  <2>r. \A e \in Drains : pc'[e] \in {"handler", "complete"} =>
          e # d /\ pc'[e] = pc[e] /\ claim'[e] = claim[e] /\ seen'[e] = seen[e]
    BY <2>1, RunReturns
  <2>2. /\ row'[i].key = row[i].key
        /\ \A j \in Jobs : j # i => row'[j] = row[j]
        /\ row'[i].status = "pending" \/ Park(d) \/ (Complete(d) /\ ~row[i].rerun)
    BY <1>5, <1>a, <2>1 DEF Complete, Retry, Park, Released, RerunRequested
  <2>3. \A k \in RerunKeys : settled'[k] >= settled[k]
    <3>1. \A k, v : v \in Nat /\ Settle(k, v) =>
            \A l \in RerunKeys : settled'[l] >= settled[l]
      BY <1>a DEF Settle
    <3>2. CASE Complete(d)
      BY <1>a, <3>1, <3>2 DEF Complete
    <3>3. CASE Retry(d)
      BY <1>a, <3>3 DEF Retry
    <3>4. CASE Park(d)
      BY <1>a, <3>1, <3>4 DEF Park
    <3>5. QED
      BY <1>5, <3>2, <3>3, <3>4
  <2>4. \A j \in Jobs, e \in Drains : j # i /\ Runs(e, j)' => Runs(e, j) /\ seen'[e] = seen[e]
    BY <2>r, <2>2 DEF Runs
  <2>5. ASSUME NEW k \in RerunKeys, NEW j \in Jobs, Covers(j, k), j # i
        PROVE  Covers(j, k)'
    BY <2>1, <2>2, <2>4, <2>5 DEF Covers, Live
  <2>6. ASSUME NEW k \in RerunKeys, NEW j \in Jobs, Covers(j, k), j = i
        PROVE  Covers(j, k)' \/ settled'[k] >= version[k]
    <3>1. row[i].key = k
      BY <2>6 DEF Covers
    <3>2. CASE row'[i].status = "pending"
      BY <2>2, <2>6, <3>1, <3>2 DEF Covers, Live
    <3>3. CASE Park(d)
      BY <1>a, <3>1, <3>3 DEF Park, Settle
    <3>4. CASE Complete(d) /\ ~row[i].rerun
      <4>1. Runs(d, j)
        BY <2>1, <2>6, <3>4 DEF Runs, Complete, Fenced
      <4>2. seen[d] >= version[k]
        BY <2>1, <2>6, <3>4, <4>1 DEF Covers, Fenced
      <4>3. settled'[k] >= seen[d]
        BY <1>a, <3>1, <3>4 DEF Complete, Settle
      <4>4. settled'[k] \in Nat
        BY DEF TypeOK
      <4>5. QED
        BY <1>a, <4>2, <4>3, <4>4
    <3>5. QED
      BY <2>2, <3>2, <3>3, <3>4
  <2>7. QED
    BY <2>1, <2>3, <2>5, <2>6, CoverStep
<1>6. CASE HandlerReturns(d) \/ HandlerThrows(d) \/ Deadline(d)
  BY <1>6, <1>1, <1>a DEF HandlerReturns, HandlerThrows, Deadline, FailTo, storeVars
<1>7. CASE StartDrain(d) \/ EndDrain(d) \/ HookThrows(d) \/ Crash(d)
  BY <1>7, <1>1, <1>a DEF StartDrain, EndDrain, HookThrows, Crash, Forgets, storeVars
<1>8. CASE LeaseLost(d) \/ Superseded(d)
  <2>1. Returns(d) /\ UNCHANGED <<row, version, settled>>
    BY <1>8 DEF LeaseLost, Superseded, storeVars
  <2>2. QED
    BY <1>1, <2>1, RunReturns
<1>9. QED
  BY <1>2, <1>3, <1>4, <1>5, <1>6, <1>7, <1>8 DEF Drain, WriteBack

-----------------------------------------------------------------------------
(* The theorems.                                                           *)

(* The inductive step, from the producers', the drains' and the clock's.   *)
LEMMA Inductive ==
  ASSUME BackgroundJobsAssumption, IInv, [Next]_vars
  PROVE  IInv'
<1>1. CASE UNCHANGED vars
  BY <1>1 DEF IInv, TypeOK, TxInv, ClaimInv, LogInv, CoverInv, Covers, Runs, Holds, Live, Owed,
              vars, storeVars, drainVars, bounds, behind
<1>2. ASSUME NEW p \in Producers, Produce(p) PROVE IInv'
  <2>1. claim' = claim /\ pc' = pc /\ log' = log
    BY <1>2 DEF Produce, BeginTx, InsertFresh, InsertDuplicate, CommitTx, RollbackTx,
                storeVars, drainVars
  <2>2. QED
    BY <1>2, <2>1, TypeProduce, TxProduce, ClaimFrame, LogProduce, CoverProduce DEF IInv
<1>3. ASSUME NEW d \in Drains, Drain(d) PROVE IInv'
  <2>1. TypeOK'
    BY <1>3, TypeDrain DEF IInv
  <2>2. TxInv'
    BY <1>3, DrainKeepsLocked, TxInvFrame DEF IInv
  <2>3. ClaimInv' /\ LogInv'
    BY <1>3, ClaimDrain, LogDrain DEF IInv
  <2>4. CoverInv'
    BY <1>3, <2>1, CoverDrain DEF IInv
  <2>5. QED
    BY <2>1, <2>2, <2>3, <2>4 DEF IInv
<1>4. ASSUME NEW j \in Jobs, Clock(j) PROVE IInv'
  <2>1. claim' = claim /\ pc' = pc /\ log' = log
    BY <1>4 DEF Clock, LeaseLapses, BecomesDue, DeleteBefore, drainVars
  <2>2. QED
    BY <1>4, <2>1, TypeClock, ClockKeepsLocked, TxInvFrame, ClaimFrame, LogClock, CoverClock
       DEF IInv
<1>5. ASSUME NEW t \in left, LeftEnds(t) PROVE IInv'
  BY <1>5 DEF LeftEnds, IInv, TypeOK, TxInv, ClaimInv, LogInv, CoverInv, Covers, Runs, Holds, Live,
              Owed, storeVars, drainVars, bounds
<1>6. QED
  BY <1>1, <1>2, <1>3, <1>4, <1>5 DEF Next

(* The invariant holds of the empty table.                                 *)
LEMMA Initial ==
  ASSUME BackgroundJobsAssumption, Init
  PROVE  IInv
<1>1. TypeOK
  BY TypeInit
<1>2. TxInv /\ ClaimInv /\ LogInv /\ CoverInv
  BY DEF Init, TxInv, Holds, ClaimInv, LogInv, CoverInv, Owed, NoTx, NoRow, NoClaim, Holding
<1>3. QED
  BY <1>1, <1>2 DEF IInv

(* The inductive invariant holds in every behaviour: every claim a drain   *)
(* acts on is the one its row or the log knows, and every owed change has  *)
(* a live row or a transaction about to commit one.                        *)
THEOREM Invariance == Spec => []IInv
<1>1. Init => IInv
  BY Initial, BackgroundJobsAssumption
<1>2. IInv /\ [Next]_vars => IInv'
  BY Inductive, BackgroundJobsAssumption
<1>3. QED
  BY <1>1, <1>2, PTL DEF Spec

(* Every variable has its type and every row satisfies the table's CHECKs. *)
THEOREM TypeCorrect == Spec => []TypeOK
<1>1. IInv => TypeOK
  BY DEF IInv
<1>2. QED
  BY <1>1, Invariance, PTL

(* While a change of a level-triggered key is owed, a job for it is live.  *)
THEOREM NoChangeIsLost == Spec => []NoLostChange
<1>1. IInv => NoLostChange
  BY DEF IInv, CoverInv, Covers, NoLostChange
<1>2. QED
  BY <1>1, Invariance, PTL

(* Each claim ends in at most one way, with at most one committed hook.    *)
THEOREM ClaimsEndOnceHolds == Spec => ClaimsEndOnce
<1> DEFINE Ends == \A t \in DOMAIN log :
       /\ log[t].outcome # "open" => /\ log'[t].outcome = log[t].outcome
                                     /\ log'[t].hooks = log[t].hooks
       /\ log'[t].hooks # log[t].hooks => /\ log'[t].hooks = 1
                                          /\ log'[t].outcome \in {"retried", "dead"}
<1>1. ASSUME IInv, [Next]_vars PROVE Ends
  <2>a. log \in Seq(Entry)
    BY <1>1 DEF IInv, TypeOK
  <2>1. CASE log' = log
    BY <2>1
  <2>2. ASSUME NEW d \in Drains, ClaimNext(d) PROVE Ends
    <3>1. PICK i \in Jobs :
            log' = Append(LogTakeover(i),
                         [job |-> i, attempt |-> row[i].attempts + 1, ran |-> FALSE,
                          outcome |-> "open", hooks |-> 0])
      BY <2>2 DEF ClaimNext
    <3>2. \A t \in DOMAIN log : log'[t] = LogTakeover(i)[t]
      BY <2>a, <3>1 DEF LogTakeover
    <3>3. CASE row[i].status # "running"
      BY <3>2, <3>3 DEF LogTakeover
    <3>4. CASE row[i].status = "running"
      <4>1. row[i].token \in DOMAIN log /\ log[row[i].token].outcome = "open"
        BY <1>1, <3>4 DEF IInv, LogInv
      <4>2. LogTakeover(i) = [log EXCEPT ![row[i].token] = Ended(log[row[i].token], "lost", 0)]
        BY <3>4 DEF LogTakeover
      <4>3. log[row[i].token].hooks \in Nat
        <5>1. log[row[i].token] \in Entry
          BY <2>a, <4>1
        <5>2. QED
          BY <5>1 DEF Entry
      <4>4. QED
        BY <2>a, <3>2, <4>1, <4>2, <4>3 DEF Ended
    <3>5. QED
      BY <3>3, <3>4
  <2>3. ASSUME NEW d \in Drains, StartRun(d) PROVE Ends
    <3>1. log' = log \/ log' = [log EXCEPT ![claim[d].token].ran = TRUE]
      BY <2>3 DEF StartRun
    <3>2. ASSUME NEW t \in DOMAIN log
          PROVE  log'[t].outcome = log[t].outcome /\ log'[t].hooks = log[t].hooks
      <4>1. log[t] \in Entry
        BY <2>a
      <4>2. log'[t] = log[t] \/ log'[t] = [log[t] EXCEPT !.ran = TRUE]
        BY <2>a, <3>1
      <4>3. QED
        BY <4>1, <4>2 DEF Entry
    <3>3. QED
      BY <3>2
  <2>4. ASSUME NEW d \in Drains, NEW outcome, NEW hooks \in {0, 1},
               Close(d, outcome, hooks), Fenced(d), claim[d].job \in Jobs,
               hooks = 1 => outcome \in {"retried", "dead"}
        PROVE  Ends
    <3> DEFINE u == claim[d].token
    <3>1. u \in DOMAIN log /\ log[u].outcome = "open" /\ log[u].hooks = 0
      BY <1>1, <2>4 DEF IInv, LogInv, Fenced
    <3>2. /\ log'[u].hooks = hooks /\ log'[u].outcome = outcome
          /\ \A t \in DOMAIN log : t # u => log'[t] = log[t]
      BY <2>a, <2>4, <3>1 DEF Close, Ended
    <3>3. QED
      BY <2>4, <3>1, <3>2
  <2>5. \A d \in Drains : pc[d] \in Holding => claim[d].job \in Jobs
    BY <1>1 DEF IInv, ClaimInv
  <2>6. ASSUME NEW d \in Drains, Complete(d) PROVE Ends
    <3>1. PICK outcome \in {"requeued", "completed"} : Close(d, outcome, 0)
      BY <2>6 DEF Complete
    <3>2. QED
      BY <2>4, <2>5, <2>6, <3>1 DEF Complete, Holding
  <2>7. ASSUME NEW d \in Drains, Retry(d) PROVE Ends
    <3>1. PICK hooks \in {0, 1} : Close(d, "retried", hooks)
      BY <2>7 DEF Retry
    <3>2. QED
      BY <2>4, <2>5, <2>7, <3>1 DEF Retry, Holding
  <2>8. ASSUME NEW d \in Drains, Park(d) PROVE Ends
    <3>1. PICK hooks \in {0, 1} : Close(d, "dead", hooks)
      BY <2>8 DEF Park
    <3>2. QED
      BY <2>4, <2>5, <2>8, <3>1 DEF Park, Holding
  <2>9. ASSUME NEW p \in Producers, Produce(p) PROVE Ends
    BY <2>1, <2>9 DEF Produce, BeginTx, InsertFresh, InsertDuplicate, CommitTx, RollbackTx,
                      storeVars
  <2>10. ASSUME NEW j \in Jobs, Clock(j) PROVE Ends
    BY <2>1, <2>10 DEF Clock, LeaseLapses, BecomesDue, DeleteBefore
  <2>11. ASSUME NEW d \in Drains, Drain(d) PROVE Ends
    BY <2>1, <2>2, <2>3, <2>6, <2>7, <2>8, <2>11
       DEF Drain, WriteBack, StartDrain, EndDrain, HandlerReturns, HandlerThrows, Deadline,
           RenewLease, LeaseLost, Superseded, HookThrows, Crash, storeVars
  <2>12. CASE UNCHANGED vars
    BY <2>1, <2>12 DEF vars, storeVars
  <2>13. ASSUME NEW t, LeftEnds(t) PROVE Ends
    BY <2>1, <2>13 DEF LeftEnds, storeVars
  <2>14. QED
    BY <1>1, <2>9, <2>10, <2>11, <2>12, <2>13 DEF Next
<1>2. IInv /\ [Next]_vars => [Ends]_vars
  BY <1>1
<1>3. QED
  BY <1>2, Invariance, PTL DEF Spec, ClaimsEndOnce

-----------------------------------------------------------------------------
(* Handlers that overlap.                                                  *)

(* A drain at work whose lease lapsed: taken over already, or not yet.     *)
Outlived(d) ==
  pc[d] \in Holding /\ (~Fenced(d) \/ row[claim[d].job].lease = "lapsed")

Outliving == {d \in Drains : Outlived(d)}

(* Drains at work hold different claims.                                   *)
TokenInv ==
  \A d, e \in Drains :
    pc[d] \in Holding /\ pc[e] \in Holding /\ claim[d].token = claim[e].token => d = e

(* Each drain that outlived its lease has cost a stall, and each handler   *)
(* left behind the stall of the drain that lost its lease, or a deadline.  *)
RaceInv ==
  /\ IsFiniteSet(left)
  /\ Cardinality(Outliving) + Cardinality(left) <= stalls + late

StallInv == TokenInv /\ RaceInv

(* Sets of drains are finite.                                              *)
LEMMA DrainsFinite ==
  ASSUME BackgroundJobsAssumption, NEW S \in SUBSET Drains
  PROVE  IsFiniteSet(S) /\ Cardinality(S) \in Nat
BY FS_Subset, FS_CardinalityType DEF BackgroundJobsAssumption

(* Leaving one more handler behind.                                        *)
LEMMA LeavesOne ==
  ASSUME IsFiniteSet(left), NEW t
  PROVE  /\ IsFiniteSet(left \cup {t})
         /\ Cardinality(left) \in Nat /\ Cardinality(left \cup {t}) \in Nat
         /\ Cardinality(left \cup {t}) <= Cardinality(left) + 1
<1>1. /\ IsFiniteSet(left \cup {t}) /\ Cardinality(left) \in Nat
      /\ Cardinality(left \cup {t}) =
           IF t \in left THEN Cardinality(left) ELSE Cardinality(left) + 1
  BY FS_AddElement, FS_CardinalityType
<1>2. QED
  BY <1>1

(* A step after which no further drain has outlived its lease.             *)
LEMMA FewerOutlive ==
  ASSUME BackgroundJobsAssumption, \A d \in Drains : Outlived(d)' => Outlived(d)
  PROVE  /\ Cardinality(Outliving) \in Nat /\ Cardinality(Outliving') \in Nat
         /\ Cardinality(Outliving') <= Cardinality(Outliving)
<1>1. Outliving' \subseteq Outliving
  BY DEF Outliving
<1>2. /\ Outliving \in SUBSET Drains /\ Outliving' \in SUBSET Drains
      /\ Outliving' \in SUBSET Outliving
  BY <1>1 DEF Outliving
<1>3. Cardinality(Outliving') <= Cardinality(Outliving)
  BY <1>2, DrainsFinite, FS_Subset
<1>4. QED
  BY <1>2, <1>3, DrainsFinite

(* If it leaves no handler behind either, the count still holds.           *)
LEMMA StallFrame ==
  ASSUME BackgroundJobsAssumption, TypeOK, StallInv,
         stalls' = stalls, left' = left, late' = late,
         \A d \in Drains : Outlived(d)' => Outlived(d)
  PROVE  RaceInv'
<1>1. /\ Cardinality(Outliving) \in Nat /\ Cardinality(Outliving') \in Nat
      /\ Cardinality(Outliving') <= Cardinality(Outliving)
  BY FewerOutlive
<1>2. IsFiniteSet(left) /\ Cardinality(left) \in Nat
  BY FS_CardinalityType DEF StallInv, RaceInv
<1>3. stalls \in Nat /\ late \in Nat
  BY DEF TypeOK
<1>4. Cardinality(Outliving) + Cardinality(left) <= stalls + late
  BY DEF StallInv, RaceInv
<1>5. Cardinality(Outliving') + Cardinality(left) <= stalls + late
  BY <1>1, <1>2, <1>3, <1>4
<1>6. QED
  BY <1>2, <1>5 DEF RaceInv

(* A handler left behind at its deadline is counted by it.                 *)
LEMMA DeadlineLeaves ==
  ASSUME BackgroundJobsAssumption, TypeOK, StallInv, NEW t,
         stalls' = stalls, left' = left \cup {t}, late' = late + 1,
         \A d \in Drains : Outlived(d)' => Outlived(d)
  PROVE  RaceInv'
<1>1. /\ Cardinality(Outliving) \in Nat /\ Cardinality(Outliving') \in Nat
      /\ Cardinality(Outliving') <= Cardinality(Outliving)
  BY FewerOutlive
<1>2. /\ IsFiniteSet(left') /\ Cardinality(left) \in Nat /\ Cardinality(left') \in Nat
      /\ Cardinality(left') <= Cardinality(left) + 1
  BY LeavesOne DEF StallInv, RaceInv
<1>3. stalls \in Nat /\ late \in Nat
  BY DEF TypeOK
<1>4. Cardinality(Outliving) + Cardinality(left) <= stalls + late
  BY DEF StallInv, RaceInv
<1>5. Cardinality(Outliving') + Cardinality(left') <= stalls' + late'
  BY <1>1, <1>2, <1>3, <1>4
<1>6. QED
  BY <1>2, <1>5 DEF RaceInv

(* A handler left behind when its lease is lost takes over the stall that  *)
(* counted its drain.                                                      *)
LEMMA LossLeaves ==
  ASSUME BackgroundJobsAssumption, TypeOK, StallInv, NEW t, NEW d \in Drains,
         stalls' = stalls, left' = left \cup {t}, late' = late,
         Outlived(d), ~ Outlived(d)',
         \A e \in Drains : Outlived(e)' => Outlived(e)
  PROVE  RaceInv'
<1>1. /\ Outliving \in SUBSET Drains /\ Outliving' \in SUBSET Drains
      /\ d \in Outliving /\ Outliving' \in SUBSET (Outliving \ {d})
  BY DEF Outliving
<1>2. /\ IsFiniteSet(Outliving) /\ Cardinality(Outliving) \in Nat
      /\ Cardinality(Outliving') \in Nat
  BY <1>1, DrainsFinite
<1>3. /\ IsFiniteSet(Outliving \ {d})
      /\ Cardinality(Outliving \ {d}) = Cardinality(Outliving) - 1
  BY <1>1, <1>2, FS_RemoveElement
<1>4. Cardinality(Outliving') <= Cardinality(Outliving \ {d})
  BY <1>1, <1>3, FS_Subset
<1>5. /\ IsFiniteSet(left') /\ Cardinality(left) \in Nat /\ Cardinality(left') \in Nat
      /\ Cardinality(left') <= Cardinality(left) + 1
  BY LeavesOne DEF StallInv, RaceInv
<1>6. stalls \in Nat /\ late \in Nat
  BY DEF TypeOK
<1>7. Cardinality(Outliving) + Cardinality(left) <= stalls + late
  BY DEF StallInv, RaceInv
<1>8. Cardinality(Outliving') + Cardinality(left') <= stalls' + late'
  BY <1>2, <1>3, <1>4, <1>5, <1>6, <1>7
<1>9. QED
  BY <1>5, <1>8 DEF RaceInv

(* One that settles only lowers the count.                                 *)
LEMMA StallLeft ==
  ASSUME BackgroundJobsAssumption, TypeOK, StallInv, NEW t \in left, LeftEnds(t)
  PROVE  StallInv'
<1>1. /\ claim' = claim /\ pc' = pc /\ row' = row /\ stalls' = stalls /\ late' = late
      /\ left' = left \ {t}
  BY DEF LeftEnds, storeVars, drainVars, bounds
<1>2. TokenInv' /\ \A d \in Drains : Outlived(d)' => Outlived(d)
  BY <1>1 DEF StallInv, TokenInv, Outlived, Fenced
<1>3. /\ Cardinality(Outliving) \in Nat /\ Cardinality(Outliving') \in Nat
      /\ Cardinality(Outliving') <= Cardinality(Outliving)
  BY <1>2, FewerOutlive
<1>4. IsFiniteSet(left) /\ left' \in SUBSET left
  BY <1>1 DEF StallInv, RaceInv
<1>5. /\ IsFiniteSet(left') /\ Cardinality(left) \in Nat /\ Cardinality(left') \in Nat
      /\ Cardinality(left') <= Cardinality(left)
  BY <1>4, FS_Subset, FS_CardinalityType
<1>6. Cardinality(Outliving) + Cardinality(left) <= stalls + late
  BY DEF StallInv, RaceInv
<1>7. stalls \in Nat /\ late \in Nat
  BY DEF TypeOK
<1>8. Cardinality(Outliving') + Cardinality(left') <= stalls' + late'
  BY <1>1, <1>3, <1>5, <1>6, <1>7
<1>9. QED
  BY <1>2, <1>5, <1>8 DEF StallInv, RaceInv

(* Producers leave the claims and the leases alone.                        *)
LEMMA StallProduce ==
  ASSUME BackgroundJobsAssumption, IInv, StallInv, NEW p \in Producers, Produce(p)
  PROVE  StallInv'
<1>1. claim' = claim /\ pc' = pc /\ stalls' = stalls /\ left' = left /\ late' = late
  BY DEF Produce, BeginTx, InsertFresh, InsertDuplicate, CommitTx, RollbackTx,
         storeVars, drainVars, bounds, behind
<1>2. \A i \in Jobs : \/ row[i].status # "running" /\ row'[i].status # "running"
                      \/ /\ row'[i].status = row[i].status
                         /\ row'[i].token = row[i].token /\ row'[i].lease = row[i].lease
  <2>1. CASE row' = row
    BY <2>1
  <2>2. CASE CommitTx(p) /\ tx[p].did = "insert"
    <3>1. tx[p].job \in Jobs /\ row[tx[p].job].status = "none"
      BY <2>2 DEF IInv, TxInv, Holds
    <3>2. PICK due \in BOOLEAN : row' = [row EXCEPT ![tx[p].job] = FreshRow(tx[p].key, due)]
      BY <2>2 DEF CommitTx
    <3>3. QED
      BY <3>1, <3>2 DEF IInv, TypeOK, FreshRow
  <2>3. CASE CommitTx(p) /\ tx[p].did = "flag"
    <3>1. row' = [row EXCEPT ![tx[p].job].rerun = TRUE] /\ row \in [Jobs -> Row]
      BY <2>3 DEF CommitTx, IInv, TypeOK
    <3>2. \A i \in Jobs : /\ row'[i].status = row[i].status
                          /\ row'[i].token = row[i].token /\ row'[i].lease = row[i].lease
      BY <3>1 DEF Row
    <3>3. QED
      BY <3>2
  <2>4. QED
    BY <2>1, <2>2, <2>3
       DEF Produce, BeginTx, InsertFresh, InsertDuplicate, CommitTx, RollbackTx, storeVars
<1>3. \A d \in Drains : pc[d] \in Holding => claim[d].job \in Jobs
  BY DEF IInv, ClaimInv
<1>4. \A d \in Drains : Outlived(d)' => Outlived(d)
  BY <1>1, <1>2, <1>3 DEF Outlived, Fenced
<1>5. QED
  BY <1>1, <1>4, StallFrame DEF StallInv, TokenInv, IInv

(* A drain that claims takes a lapsed lease over, and one that writes back *)
(* was the only one left with the lease.                                   *)
LEMMA StallDrain ==
  ASSUME BackgroundJobsAssumption, IInv, StallInv, NEW d \in Drains, Drain(d)
  PROVE  StallInv'
<1>a. /\ row \in [Jobs -> Row] /\ claim \in [Drains -> Claim] /\ Len(log) \in Nat
      /\ pc \in [Drains -> Holding \cup {"idle", "claim"}]
  BY DEF IInv, TypeOK
<1>b. \A e \in Drains : pc[e] \in Holding => claim[e].job \in Jobs /\ claim[e].token <= Len(log)
  BY DEF IInv, ClaimInv
<1>t. TypeOK
  BY DEF IInv
<1>c. stalls' = stalls
  BY DEF Drain, WriteBack, StartDrain, ClaimNext, EndDrain, StartRun, HandlerReturns,
         HandlerThrows, Deadline, RenewLease, LeaseLost, Superseded, Complete, Retry, Park,
         HookThrows, Crash, bounds, behind
<1>d. ASSUME \A e \in Drains : Outlived(e)' => Outlived(e), TokenInv',
             left' = left, late' = late
      PROVE  StallInv'
  BY <1>c, <1>d, StallFrame DEF StallInv, IInv
<1>1. CASE ClaimNext(d)
  <2>1. PICK i \in Jobs :
          /\ Due(i) \/ Abandoned(i)
          /\ row' = [row EXCEPT ![i] = ClaimedRow(row[i], Len(log) + 1)]
          /\ claim' = [claim EXCEPT ![d] = [job |-> i, token |-> Len(log) + 1,
                                            attempt |-> row[i].attempts + 1]]
    BY <1>1 DEF ClaimNext, Claimable
  <2>2. pc' = [pc EXCEPT ![d] = "claimed"]
    BY <1>1 DEF ClaimNext
  <2>3. TokenInv'
    <3> SUFFICES ASSUME NEW e \in Drains, NEW f \in Drains, pc'[e] \in Holding,
                        pc'[f] \in Holding, claim'[e].token = claim'[f].token
                 PROVE  e = f
      BY DEF TokenInv
    <3>1. \A g \in Drains \ {d} : pc'[g] = pc[g] /\ claim'[g] = claim[g]
      BY <1>a, <2>1, <2>2
    <3>2. claim'[d].token = Len(log) + 1
      BY <1>a, <2>1
    <3>3. \A g \in Drains \ {d} : pc[g] \in Holding => claim[g].token # Len(log) + 1
      BY <1>a, <1>b DEF Claim
    <3>4. CASE e # d /\ f # d
      BY <3>1, <3>4 DEF StallInv, TokenInv
    <3>5. QED
      BY <3>1, <3>2, <3>3, <3>4
  <2>4. ASSUME NEW e \in Drains, Outlived(e)' PROVE Outlived(e)
    <3>1. e # d
      <4>1. row'[i] = ClaimedRow(row[i], Len(log) + 1) /\ claim'[d].job = i
            /\ claim'[d].token = Len(log) + 1
        BY <1>a, <2>1
      <4>2. ~ Outlived(d)'
        BY <4>1 DEF Outlived, Fenced, ClaimedRow
      <4>3. QED
        BY <2>4, <4>2
    <3>2. pc[e] \in Holding /\ claim'[e] = claim[e] /\ claim[e].job \in Jobs
      BY <1>a, <1>b, <2>1, <2>2, <2>4, <3>1 DEF Outlived
    <3>3. CASE claim[e].job = i
      BY <2>1, <3>2, <3>3 DEF Outlived, Fenced, Due, Abandoned
    <3>4. CASE claim[e].job # i
      <4>1. row'[claim[e].job] = row[claim[e].job]
        BY <1>a, <2>1, <3>2, <3>4
      <4>2. QED
        BY <2>4, <3>2, <4>1 DEF Outlived, Fenced
    <3>5. QED
      BY <3>3, <3>4
  <2>5. left' = left /\ late' = late
    BY <1>1 DEF ClaimNext, behind
  <2>6. QED
    BY <1>d, <2>3, <2>4, <2>5
<1>2. ASSUME row' = row,
             \A e \in Drains : pc'[e] \in Holding => pc[e] \in Holding /\ claim'[e] = claim[e]
      PROVE  TokenInv' /\ \A e \in Drains : Outlived(e)' => Outlived(e)
  <2>1. TokenInv'
    BY <1>2 DEF StallInv, TokenInv
  <2>2. \A e \in Drains : Outlived(e)' => Outlived(e)
    BY <1>2 DEF Outlived, Fenced
  <2>3. QED
    BY <2>1, <2>2
<1>3. CASE StartDrain(d) \/ EndDrain(d) \/ Crash(d)
  <2>1. /\ row' = row /\ left' = left /\ late' = late
        /\ \A e \in Drains : pc'[e] \in Holding => pc[e] \in Holding /\ claim'[e] = claim[e]
    BY <1>3, <1>a DEF StartDrain, EndDrain, Crash, Forgets, Holding, storeVars, behind
  <2>2. QED
    BY <1>2, <1>d, <2>1
<1>4. CASE HandlerReturns(d) \/ HandlerThrows(d) \/ HookThrows(d)
  <2>1. /\ row' = row /\ left' = left /\ late' = late /\ claim' = claim
        /\ \A e \in Drains : pc'[e] \in Holding => pc[e] \in Holding
    BY <1>4, <1>a DEF HandlerReturns, HandlerThrows, FailTo, HookThrows, Holding, storeVars, behind
  <2>2. QED
    BY <1>2, <1>d, <2>1
<1>11. CASE Superseded(d)
  <2>1. row' = row /\ left' = left /\ late' = late /\ Returns(d)
    BY <1>11 DEF Superseded, storeVars, behind
  <2>2. QED
    BY <1>2, <1>d, <2>1, <1>t, RunReturns
<1>5. CASE StartRun(d)
  <2>1. /\ row' = row /\ left' = left /\ late' = late /\ claim' = claim
        /\ \A e \in Drains : pc'[e] \in Holding => pc[e] \in Holding
    BY <1>5, <1>a DEF StartRun, Holding, behind
  <2>2. QED
    BY <1>2, <1>d, <2>1
<1>9. CASE Deadline(d)
  <2>1. /\ row' = row /\ claim' = claim
        /\ \A e \in Drains : pc'[e] \in Holding => pc[e] \in Holding
    BY <1>9, <1>a DEF Deadline, FailTo, Holding, storeVars
  <2>2. TokenInv' /\ \A e \in Drains : Outlived(e)' => Outlived(e)
    BY <1>2, <2>1
  <2>3. CASE UNCHANGED behind
    BY <1>d, <2>2, <2>3 DEF behind
  <2>4. CASE left' = left \cup {claim[d].token} /\ late' = late + 1
    BY <1>c, <2>2, <2>4, DeadlineLeaves DEF StallInv, IInv
  <2>5. QED
    BY <1>9, <2>3, <2>4 DEF Deadline
<1>10. CASE LeaseLost(d)
  <2>1. row' = row /\ late' = late /\ pc[d] = "handler" /\ ~ Fenced(d) /\ Returns(d)
    BY <1>10 DEF LeaseLost, storeVars
  <2>2. /\ pc'[d] \notin Holding
        /\ \A e \in Drains : pc'[e] \in Holding => pc[e] \in Holding /\ claim'[e] = claim[e]
    BY <1>t, <2>1, RunReturns
  <2>3. TokenInv' /\ \A e \in Drains : Outlived(e)' => Outlived(e)
    BY <1>2, <2>1, <2>2
  <2>4. Outlived(d) /\ ~ Outlived(d)'
    BY <2>1, <2>2 DEF Outlived, Holding
  <2>5. CASE left' = left
    BY <1>d, <2>1, <2>3, <2>5
  <2>6. CASE left' = left \cup {claim[d].token}
    BY <1>c, <2>1, <2>3, <2>4, <2>6, LossLeaves DEF StallInv, IInv
  <2>7. QED
    BY <1>10, <2>5, <2>6 DEF LeaseLost
<1>6. CASE RenewLease(d)
  <2>1. /\ claim' = claim /\ pc' = pc
        /\ row' = [row EXCEPT ![claim[d].job].lease = "held"] /\ claim[d].job \in Jobs
        /\ left' = left /\ late' = late
    BY <1>6, <1>b DEF RenewLease, drainVars, Holding, behind
  <2>2. TokenInv'
    BY <2>1 DEF StallInv, TokenInv
  <2>3. \A e \in Drains : Outlived(e)' => Outlived(e)
    <3>1. \A i \in Jobs : /\ row'[i].status = row[i].status /\ row'[i].token = row[i].token
                          /\ row'[i].lease \in {row[i].lease, "held"}
      BY <1>a, <2>1 DEF Row
    <3>2. QED
      BY <1>b, <2>1, <3>1 DEF Outlived, Fenced
  <2>4. QED
    BY <1>d, <2>1, <2>2, <2>3
<1>7. CASE Complete(d) \/ Retry(d) \/ Park(d)
  <2> DEFINE j == claim[d].job
  <2>1. /\ Returns(d) /\ pc[d] \in Holding
        /\ Fenced(d) /\ j \in Jobs /\ \A i \in Jobs \ {j} : row'[i] = row[i]
        /\ left' = left /\ late' = late
    BY <1>7, <1>a, <1>b DEF Complete, Retry, Park, Holding, behind
  <2>2. \A e \in Drains : pc'[e] \in Holding =>
          e # d /\ pc[e] \in Holding /\ claim'[e] = claim[e]
    BY <1>t, <2>1, RunReturns
  <2>3. TokenInv'
    BY <2>1, <2>2 DEF StallInv, TokenInv
  <2>4. ASSUME NEW e \in Drains, Outlived(e)' PROVE Outlived(e)
    <3>1. e # d /\ pc[e] \in Holding /\ claim'[e] = claim[e] /\ claim[e].job \in Jobs
      BY <1>b, <2>2, <2>4 DEF Outlived
    <3>2. CASE claim[e].job = j
      BY <2>1, <3>1, <3>2 DEF Outlived, Fenced, StallInv, TokenInv
    <3>3. CASE claim[e].job # j
      BY <2>1, <2>4, <3>1, <3>3 DEF Outlived, Fenced
    <3>4. QED
      BY <3>2, <3>3
  <2>5. QED
    BY <1>d, <2>1, <2>3, <2>4
<1>8. QED
  BY <1>1, <1>3, <1>4, <1>5, <1>6, <1>7, <1>9, <1>10, <1>11 DEF Drain, WriteBack

(* A lease that lapses under a drain at work costs a stall.                *)
LEMMA StallClock ==
  ASSUME BackgroundJobsAssumption, IInv, StallInv, NEW j \in Jobs, Clock(j)
  PROVE  StallInv'
<1>a. row \in [Jobs -> Row] /\ stalls \in Nat
  BY DEF IInv, TypeOK
<1>b. \A e \in Drains : pc[e] \in Holding => claim[e].job \in Jobs
  BY DEF IInv, ClaimInv
<1>c. claim' = claim /\ pc' = pc /\ left' = left /\ late' = late
  BY DEF Clock, LeaseLapses, BecomesDue, DeleteBefore, drainVars, behind
<1>d. TokenInv'
  BY <1>c DEF StallInv, TokenInv
<1>1. CASE BecomesDue(j) \/ DeleteBefore(j)
  <2>1. /\ stalls' = stalls
        /\ \A i \in Jobs :
             \/ row'[i] = row[i]
             \/ row[i].status # "running" /\ row'[i].status # "running"
    <3>1. stalls' = stalls
      BY <1>1 DEF BecomesDue, DeleteBefore, bounds, behind
    <3>2. row[j].status \in {"pending", "dead"} /\ row[j] \in Row
      BY <1>1, <1>a DEF BecomesDue, DeleteBefore
    <3>3. \/ row' = [row EXCEPT ![j] = [@ EXCEPT !.due = TRUE]]
          \/ row' = [row EXCEPT ![j] = [@ EXCEPT !.status = "gone"]]
      BY <1>1 DEF BecomesDue, DeleteBefore
    <3>4. row'[j].status # "running" /\ \A i \in Jobs \ {j} : row'[i] = row[i]
      BY <1>a, <3>2, <3>3 DEF Row
    <3>5. row[j].status # "running"
      BY <3>2
    <3>6. ASSUME NEW i \in Jobs
          PROVE  \/ row'[i] = row[i]
                 \/ row[i].status # "running" /\ row'[i].status # "running"
      <4>1. CASE i = j
        BY <3>4, <3>5, <4>1
      <4>2. CASE i # j
        BY <3>4, <4>2
      <4>3. QED
        BY <4>1, <4>2
    <3>7. QED
      BY <3>1, <3>6
  <2>2. \A e \in Drains : Outlived(e)' => Outlived(e)
    BY <1>b, <1>c, <2>1 DEF Outlived, Fenced
  <2>3. QED
    BY <1>c, <1>d, <2>1, <2>2, StallFrame DEF StallInv, IInv
<1>2. CASE LeaseLapses(j)
  <2>1. \A i \in Jobs : /\ row'[i].status = row[i].status /\ row'[i].token = row[i].token
                        /\ i # j => row'[i] = row[i]
    BY <1>2, <1>a DEF LeaseLapses, Row
  <2>2. ASSUME NEW e \in Drains, Outlived(e)', ~ Outlived(e)
        PROVE  pc[e] \in Holding /\ claim[e].job = j /\ Fenced(e)
    BY <1>b, <1>c, <2>1, <2>2 DEF Outlived, Fenced
  <2>3. CASE Held(j)
    <3>1. PICK d \in Drains : pc[d] \in Holding /\ claim[d].job = j /\ Fenced(d)
      BY <2>3 DEF Held
    <3>2. \A e \in Drains : Outlived(e)' => (Outlived(e) \/ e = d)
      BY <2>2, <3>1 DEF Fenced, StallInv, TokenInv
    <3>3. /\ Outliving \in SUBSET Drains /\ Outliving' \in SUBSET Drains
          /\ Outliving' \in SUBSET (Outliving \cup {d})
      BY <3>2 DEF Outliving
    <3>4. /\ Cardinality(Outliving) \in Nat /\ Cardinality(Outliving') \in Nat
          /\ IsFiniteSet(Outliving)
      BY <3>3, DrainsFinite
    <3>5. /\ IsFiniteSet(Outliving \cup {d})
          /\ Cardinality(Outliving \cup {d}) =
               IF d \in Outliving THEN Cardinality(Outliving) ELSE Cardinality(Outliving) + 1
      BY <3>4, FS_AddElement
    <3>6. Cardinality(Outliving') <= Cardinality(Outliving \cup {d})
      BY <3>3, <3>5, FS_Subset
    <3>7. stalls' = stalls + 1
      BY <1>2, <2>3 DEF LeaseLapses
    <3>8. IsFiniteSet(left) /\ Cardinality(left) \in Nat /\ late \in Nat
      BY FS_CardinalityType DEF StallInv, RaceInv, IInv, TypeOK
    <3>9. Cardinality(Outliving) + Cardinality(left) <= stalls + late
      BY DEF StallInv, RaceInv
    <3>10. Cardinality(Outliving') + Cardinality(left) <= stalls' + late
      BY <1>a, <3>4, <3>5, <3>6, <3>7, <3>8, <3>9
    <3>11. QED
      BY <1>c, <1>d, <3>8, <3>10 DEF StallInv, RaceInv
  <2>4. CASE ~ Held(j)
    <3>1. stalls' = stalls
      BY <1>2, <2>4 DEF LeaseLapses
    <3>2. \A e \in Drains : Outlived(e)' => Outlived(e)
      BY <2>2, <2>4 DEF Held
    <3>3. QED
      BY <1>c, <1>d, <3>1, <3>2, StallFrame DEF StallInv, IInv
  <2>5. QED
    BY <2>3, <2>4
<1>3. QED
  BY <1>1, <1>2 DEF Clock

(* No drain is at work to begin with.                                      *)
LEMMA StallInitial ==
  ASSUME Init
  PROVE  StallInv
<1>1. Outliving = {}
  BY DEF Init, Outliving, Outlived, Holding
<1>2. TokenInv
  BY DEF Init, TokenInv, Holding
<1>3. QED
  BY <1>1, <1>2, FS_EmptySet DEF Init, StallInv, RaceInv

(* Of the drains that run a job's handler all but one have outlived their  *)
(* lease.                                                                  *)
LEMMA AllButOneOutlive ==
  ASSUME BackgroundJobsAssumption, TokenInv, NEW j \in Jobs
  PROVE  LET H == {d \in Drains : pc[d] = "handler" /\ claim[d].job = j}
         IN  /\ Cardinality(H) \in Nat /\ Cardinality(Outliving) \in Nat
             /\ Cardinality(H) <= 1 + Cardinality(Outliving)
<1> DEFINE H == {d \in Drains : pc[d] = "handler" /\ claim[d].job = j}
<1>1. H \in SUBSET Drains /\ Outliving \in SUBSET Drains
  BY DEF Outliving
<1>2. /\ Cardinality(H) \in Nat /\ Cardinality(Outliving) \in Nat /\ IsFiniteSet(Outliving)
  BY <1>1, DrainsFinite
<1>3. \A d, e \in H \ Outliving : d = e
  BY DEF Outliving, Outlived, Fenced, Holding, TokenInv
<1>4. CASE H \subseteq Outliving
  <2>1. Cardinality(H) <= Cardinality(Outliving)
    BY <1>2, <1>4, FS_Subset
  <2>2. QED
    BY <1>2, <2>1
<1>5. CASE ~ (H \subseteq Outliving)
  <2>1. PICK d \in H : d \notin Outliving
    BY <1>5
  <2>2. H \subseteq Outliving \cup {d}
    BY <1>3, <2>1
  <2>3. /\ IsFiniteSet(Outliving \cup {d})
        /\ Cardinality(Outliving \cup {d}) = Cardinality(Outliving) + 1
    BY <1>2, <2>1, FS_AddElement
  <2>4. Cardinality(H) <= Cardinality(Outliving \cup {d})
    BY <2>2, <2>3, FS_Subset
  <2>5. QED
    BY <1>2, <2>3, <2>4
<1>6. QED
  BY <1>4, <1>5, <1>2

(* So a job's handlers, those left behind included, race only by cause.    *)
LEMMA CausesBoundHandlers ==
  ASSUME BackgroundJobsAssumption, TypeOK, StallInv
  PROVE  HandlersRaceOnlyByCause
<1> SUFFICES ASSUME NEW j \in Jobs
             PROVE  Cardinality({d \in Drains : pc[d] = "handler" /\ claim[d].job = j})
                      + Cardinality({t \in left : log[t].job = j}) <= 1 + stalls + late
  BY DEF HandlersRaceOnlyByCause
<1> DEFINE H == {d \in Drains : pc[d] = "handler" /\ claim[d].job = j}
           L == {t \in left : log[t].job = j}
<1>1. /\ Cardinality(H) \in Nat /\ Cardinality(Outliving) \in Nat
      /\ Cardinality(H) <= 1 + Cardinality(Outliving)
  BY AllButOneOutlive DEF StallInv
<1>2. IsFiniteSet(left) /\ L \in SUBSET left
  BY DEF StallInv, RaceInv
<1>3. IsFiniteSet(L) /\ Cardinality(L) <= Cardinality(left)
  BY <1>2, FS_Subset
<1>4. Cardinality(L) \in Nat /\ Cardinality(left) \in Nat
  BY <1>2, <1>3, FS_CardinalityType
<1>5. Cardinality(Outliving) + Cardinality(left) <= stalls + late
  BY DEF StallInv, RaceInv
<1>6. stalls \in Nat /\ late \in Nat
  BY DEF TypeOK
<1> HIDE DEF H, L
<1>7. Cardinality(H) + Cardinality(L) <= 1 + stalls + late
  BY <1>1, <1>3, <1>4, <1>5, <1>6
<1>8. QED
  BY <1>7 DEF H, L

(* However many drains and faults there are, a job's handlers race, with   *)
(* one another or with one left behind, only by a lease that lapsed under  *)
(* a running drain or by a deadline a handler ignored.                     *)
THEOREM HandlersRaceByCause == Spec => []HandlersRaceOnlyByCause
<1>1. Init => StallInv
  BY StallInitial
<1>2. IInv /\ StallInv /\ [Next]_vars => StallInv'
  <2> SUFFICES ASSUME IInv, StallInv, [Next]_vars PROVE StallInv'
    OBVIOUS
  <2>1. CASE UNCHANGED vars
    <3>1. /\ claim' = claim /\ pc' = pc /\ row' = row /\ stalls' = stalls
          /\ left' = left /\ late' = late
      BY <2>1 DEF vars, storeVars, drainVars, bounds, behind
    <3>2. TokenInv' /\ \A d \in Drains : Outlived(d)' => Outlived(d)
      BY <3>1 DEF StallInv, TokenInv, Outlived, Fenced
    <3>3. QED
      BY <3>1, <3>2, StallFrame, BackgroundJobsAssumption DEF StallInv, IInv
  <2>2. TypeOK
    BY DEF IInv
  <2>3. QED
    BY <2>1, <2>2, StallProduce, StallDrain, StallClock, StallLeft, BackgroundJobsAssumption
       DEF Next
<1>3. IInv /\ StallInv => HandlersRaceOnlyByCause
  BY CausesBoundHandlers, BackgroundJobsAssumption DEF IInv
<1>4. QED
  BY <1>1, <1>2, <1>3, Invariance, PTL DEF Spec

-----------------------------------------------------------------------------
(* The retry budget.                                                       *)

(* In a history l, the claims of job j whose attempt may run, those that   *)
(* gave it a fresh budget, and what n attempts spend of a budget.          *)
Budgeted(l, j) == {t \in DOMAIN l : l[t].job = j /\ l[t].attempt <= MaxAttempts}
Requeued(l, j) == {t \in DOMAIN l : l[t].job = j /\ l[t].outcome = "requeued"}
UsedUp(n)      == IF n < MaxAttempts THEN n ELSE MaxAttempts

(* Job j, n attempts into its budget, stays within the budgets it got.     *)
Within(l, j, n) ==
  Cardinality(Budgeted(l, j)) <= MaxAttempts * Cardinality(Requeued(l, j)) + UsedUp(n)

(* A handler runs in an attempt the policy allows, a drain at work knows   *)
(* its attempt, and a job not inserted yet has had none.                   *)
RunInv ==
  /\ \A t \in DOMAIN log : log[t].ran => log[t].attempt <= MaxAttempts
  /\ \A d \in Drains : pc[d] \in Holding =>
       claim[d].token \in DOMAIN log /\ log[claim[d].token].attempt = claim[d].attempt
  /\ \A j \in Jobs : row[j].status = "none" => row[j].attempts = 0

(* The claims that may run are counted by the row's attempts and by the    *)
(* requeues that reset them, whether or not their handler ever started.    *)
BudgetInv == RunInv /\ \A j \in Jobs : Within(log, j, row[j].attempts)

(* Two histories that agree on whose the claims are, on their attempts and *)
(* on which of them requeued.                                              *)
Agree(l, m, S) ==
  \A t \in S : /\ m[t].job = l[t].job /\ m[t].attempt = l[t].attempt
               /\ (m[t].outcome = "requeued") <=> (l[t].outcome = "requeued")

(* Sets of claims are finite.                                              *)
LEMMA ClaimsFinite ==
  ASSUME NEW l \in Seq(Entry), NEW S \in SUBSET DOMAIN l
  PROVE  IsFiniteSet(S) /\ Cardinality(S) \in Nat
<1>1. Len(l) \in Nat /\ DOMAIN l = 1 .. Len(l)
  OBVIOUS
<1>2. IsFiniteSet(1 .. Len(l))
  BY <1>1, FS_Interval
<1> QED  BY <1>1, <1>2, FS_Subset, FS_CardinalityType

(* The counts of a history are numbers.                                    *)
LEMMA CountsTyped ==
  ASSUME BackgroundJobsAssumption, NEW l \in Seq(Entry), NEW j
  PROVE  /\ IsFiniteSet(Budgeted(l, j)) /\ Cardinality(Budgeted(l, j)) \in Nat
         /\ IsFiniteSet(Requeued(l, j)) /\ Cardinality(Requeued(l, j)) \in Nat
         /\ MaxAttempts \in Nat /\ MaxAttempts # 0
         /\ MaxAttempts * Cardinality(Requeued(l, j)) \in Nat
<1>1. Budgeted(l, j) \in SUBSET DOMAIN l /\ Requeued(l, j) \in SUBSET DOMAIN l
  BY DEF Budgeted, Requeued
<1>2. /\ IsFiniteSet(Budgeted(l, j)) /\ Cardinality(Budgeted(l, j)) \in Nat
      /\ IsFiniteSet(Requeued(l, j)) /\ Cardinality(Requeued(l, j)) \in Nat
  BY <1>1, ClaimsFinite
<1>3. MaxAttempts \in Nat /\ MaxAttempts # 0
  BY DEF BackgroundJobsAssumption
<1> QED  BY <1>2, <1>3

(* Histories that agree leave the same of every budget.                    *)
LEMMA AgreeingHistories ==
  ASSUME NEW l, NEW m, DOMAIN m = DOMAIN l, Agree(l, m, DOMAIN l), NEW j, NEW n, Within(l, j, n)
  PROVE  Within(m, j, n)
<1>1. Budgeted(m, j) = Budgeted(l, j)
  BY DEF Agree, Budgeted
<1>2. Requeued(m, j) = Requeued(l, j)
  BY DEF Agree, Requeued
<1> QED  BY <1>1, <1>2 DEF Within

(* A requeue resets the attempts and is counted as one budget more.        *)
LEMMA RequeueRenews ==
  ASSUME BackgroundJobsAssumption, NEW l \in Seq(Entry), NEW m, DOMAIN m = DOMAIN l,
         NEW u \in DOMAIN l, Agree(l, m, DOMAIN l \ {u}), m[u].job = l[u].job,
         m[u].attempt = l[u].attempt, m[u].outcome = "requeued", l[u].outcome # "requeued",
         NEW n \in Nat
  PROVE  /\ Within(l, l[u].job, n) => Within(m, l[u].job, 0)
         /\ \A j, k : j # l[u].job /\ Within(l, j, k) => Within(m, j, k)
<1>1. \A j : Budgeted(m, j) = Budgeted(l, j)
  BY DEF Agree, Budgeted
<1>2. \A j : j # l[u].job => Requeued(m, j) = Requeued(l, j)
  BY DEF Agree, Requeued
<1> DEFINE i == l[u].job
<1>3. Requeued(m, i) = Requeued(l, i) \cup {u} /\ u \notin Requeued(l, i)
  BY DEF Agree, Requeued
<1> HIDE DEF i
<1>4. Cardinality(Requeued(m, i)) = Cardinality(Requeued(l, i)) + 1
  <2>1. IsFiniteSet(Requeued(l, i)) /\ Cardinality(Requeued(l, i)) \in Nat
    BY CountsTyped
  <2>2. Cardinality(Requeued(l, i) \cup {u}) = Cardinality(Requeued(l, i)) + 1
    BY <1>3, <2>1, FS_AddElement
  <2> QED  BY <1>3, <2>2
<1>5. ASSUME Within(l, i, n)
      PROVE  Within(m, i, 0)
  <2>1. /\ Cardinality(Budgeted(l, i)) \in Nat /\ Cardinality(Requeued(l, i)) \in Nat
        /\ MaxAttempts \in Nat /\ MaxAttempts # 0
        /\ MaxAttempts * Cardinality(Requeued(l, i)) \in Nat
    BY CountsTyped
  <2>2. UsedUp(n) <= MaxAttempts /\ UsedUp(n) \in Nat /\ UsedUp(0) = 0
    BY <2>1 DEF UsedUp
  <2>3. MaxAttempts * (Cardinality(Requeued(l, i)) + 1)
          = MaxAttempts * Cardinality(Requeued(l, i)) + MaxAttempts
    BY <2>1
  <2>4. Cardinality(Budgeted(l, i)) <= MaxAttempts * Cardinality(Requeued(l, i)) + UsedUp(n)
    BY <1>5 DEF Within
  <2> DEFINE b == Cardinality(Budgeted(l, i))
             p == MaxAttempts * Cardinality(Requeued(l, i))
  <2>5. b <= p + MaxAttempts + 0
    <3>1. b \in Nat /\ p \in Nat /\ b <= p + UsedUp(n)
      BY <2>1, <2>4
    <3> HIDE DEF b, p
    <3> QED  BY <2>1, <2>2, <3>1
  <2> QED  BY <1>1, <1>4, <2>2, <2>3, <2>5 DEF Within
<1> QED  BY <1>1, <1>2, <1>5 DEF Within, i

(* History m is l with one claim more, of job i as its attempt n + 1.      *)
Spends(l, m, u, i, n) ==
  /\ l \in Seq(Entry) /\ n \in Nat
  /\ u \notin DOMAIN l /\ DOMAIN m = DOMAIN l \cup {u} /\ Agree(l, m, DOMAIN l)
  /\ m[u].job = i /\ m[u].attempt = n + 1 /\ m[u].outcome # "requeued"

(* A claim is one attempt more, and may run only while that is one of the  *)
(* budget's.                                                               *)
LEMMA ClaimSpends ==
  ASSUME BackgroundJobsAssumption, NEW l, NEW m, NEW u, NEW i, NEW n, Spends(l, m, u, i, n)
  PROVE  /\ Within(l, i, n) => Within(m, i, n + 1)
         /\ \A j, k : j # i /\ Within(l, j, k) => Within(m, j, k)
<1> USE DEF Spends
<1>1. \A j : Requeued(m, j) = Requeued(l, j)
  BY DEF Agree, Requeued
<1>2. \A j : j # i => Budgeted(m, j) = Budgeted(l, j)
  BY DEF Agree, Budgeted
<1>3. ASSUME Within(l, i, n)
      PROVE  Within(m, i, n + 1)
  <2>1. /\ Cardinality(Budgeted(l, i)) \in Nat /\ MaxAttempts \in Nat
        /\ IsFiniteSet(Budgeted(l, i))
        /\ MaxAttempts * Cardinality(Requeued(l, i)) \in Nat
    BY CountsTyped
  <2>2. Cardinality(Budgeted(l, i)) <= MaxAttempts * Cardinality(Requeued(l, i)) + UsedUp(n)
    BY <1>3 DEF Within
  <2> DEFINE b == Cardinality(Budgeted(l, i))
             p == MaxAttempts * Cardinality(Requeued(l, i))
  <2>3. b \in Nat /\ p \in Nat /\ b <= p + UsedUp(n)
    BY <2>1, <2>2
  <2>4. CASE n + 1 <= MaxAttempts
    <3>1. Budgeted(m, i) = Budgeted(l, i) \cup {u} /\ u \notin Budgeted(l, i)
      BY <2>4 DEF Agree, Budgeted
    <3>2. Cardinality(Budgeted(l, i) \cup {u}) = b + 1
      BY <2>1, <3>1, FS_AddElement
    <3>3. UsedUp(n) = n /\ UsedUp(n + 1) = n + 1
      BY <2>1, <2>4 DEF UsedUp
    <3> HIDE DEF b, p
    <3>4. b + 1 <= p + (n + 1)
      BY <2>3, <3>3
    <3> QED  BY <1>1, <3>1, <3>2, <3>3, <3>4 DEF Within, p
  <2>5. CASE ~ (n + 1 <= MaxAttempts)
    <3>1. Budgeted(m, i) = Budgeted(l, i)
      BY <2>5 DEF Agree, Budgeted
    <3>2. UsedUp(n) = MaxAttempts /\ UsedUp(n + 1) = MaxAttempts
      BY <2>1, <2>5 DEF UsedUp
    <3> QED  BY <1>1, <2>2, <3>1, <3>2 DEF Within
  <2> QED  BY <2>4, <2>5
<1> QED  BY <1>1, <1>2, <1>3 DEF Within

(* A step that makes no claim, closes none and starts no handler spends    *)
(* nothing.                                                                *)
LEMMA BudgetFrame ==
  ASSUME BudgetInv, log' = log,
         \A d \in Drains : pc'[d] \in Holding => pc[d] \in Holding /\ claim'[d] = claim[d],
         \A j \in Jobs : /\ row'[j].attempts = row[j].attempts
                         /\ row'[j].status = "none" => row[j].status = "none"
  PROVE  BudgetInv'
BY DEF BudgetInv, RunInv

(* A producer's insert brings a row without attempts.                      *)
LEMMA BudgetProduce ==
  ASSUME IInv, BudgetInv, NEW p \in Producers, Produce(p)
  PROVE  BudgetInv'
<1>1. log' = log /\ claim' = claim /\ pc' = pc
  BY DEF Produce, BeginTx, InsertFresh, InsertDuplicate, CommitTx, RollbackTx, storeVars, drainVars
<1>2. row \in [Jobs -> Row]
  BY DEF IInv, TypeOK
<1>3. \A j \in Jobs : /\ row'[j].attempts = row[j].attempts
                      /\ row'[j].status = "none" => row[j].status = "none"
  <2>1. CASE CommitTx(p) /\ tx[p].did = "insert"
    <3>1. PICK due \in BOOLEAN : row' = [row EXCEPT ![tx[p].job] = FreshRow(tx[p].key, due)]
      BY <2>1 DEF CommitTx
    <3>2. tx[p].job \in Jobs /\ row[tx[p].job].status = "none" /\ row[tx[p].job].attempts = 0
      BY <2>1 DEF IInv, TxInv, Holds, BudgetInv, RunInv
    <3>3. FreshRow(tx[p].key, due).attempts = 0 /\ FreshRow(tx[p].key, due).status = "pending"
      BY DEF FreshRow
    <3> QED  BY <1>2, <3>1, <3>2, <3>3
  <2>2. CASE CommitTx(p) /\ tx[p].did = "flag"
    <3>1. row' = [row EXCEPT ![tx[p].job].rerun = TRUE] /\ tx[p].job \in Jobs
      BY <2>2 DEF CommitTx, IInv, TxInv, Holds
    <3> QED  BY <1>2, <3>1 DEF Row
  <2>3. CASE row' = row
    BY <2>3
  <2> QED  BY <2>1, <2>2, <2>3 DEF Produce, BeginTx, InsertFresh, InsertDuplicate, CommitTx,
                                   RollbackTx, storeVars
<1> QED  BY <1>1, <1>3, BudgetFrame

(* Time changes no job's attempts.                                         *)
LEMMA BudgetClock ==
  ASSUME IInv, BudgetInv, NEW j \in Jobs, Clock(j)
  PROVE  BudgetInv'
<1>1. log' = log /\ claim' = claim /\ pc' = pc
  BY DEF Clock, LeaseLapses, BecomesDue, DeleteBefore, drainVars
<1>2. row \in [Jobs -> Row]
  BY DEF IInv, TypeOK
<1>3. \A i \in Jobs : /\ row'[i].attempts = row[i].attempts
                      /\ row'[i].status = "none" => row[i].status = "none"
  BY <1>2 DEF Clock, LeaseLapses, BecomesDue, DeleteBefore, Row
<1> QED  BY <1>1, <1>3, BudgetFrame

(* Closing a claim changes its entry's outcome and hooks alone.            *)
LEMMA CloseRewrites ==
  ASSUME IInv, NEW d \in Drains, NEW outcome, NEW hooks, Close(d, outcome, hooks),
         Fenced(d), claim[d].job \in Jobs
  PROVE  /\ claim[d].token \in DOMAIN log /\ log \in Seq(Entry)
         /\ log[claim[d].token].job = claim[d].job /\ log[claim[d].token].outcome = "open"
         /\ DOMAIN log' = DOMAIN log
         /\ log'[claim[d].token].outcome = outcome
         /\ \A t \in DOMAIN log : /\ log'[t].job = log[t].job /\ log'[t].ran = log[t].ran
                                  /\ log'[t].attempt = log[t].attempt
                                  /\ t # claim[d].token => log'[t] = log[t]
<1> DEFINE u == claim[d].token
<1>1. u \in DOMAIN log /\ log[u].outcome = "open" /\ log[u].job = claim[d].job /\ log \in Seq(Entry)
  BY DEF IInv, LogInv, Fenced, TypeOK
<1>2. log' = [log EXCEPT ![u] = Ended(log[u], outcome, hooks)]
  BY <1>1 DEF Close
<1>3. /\ Ended(log[u], outcome, hooks).job = log[u].job
      /\ Ended(log[u], outcome, hooks).ran = log[u].ran
      /\ Ended(log[u], outcome, hooks).attempt = log[u].attempt
      /\ Ended(log[u], outcome, hooks).outcome = outcome
  BY DEF Ended
<1>4. /\ DOMAIN log' = DOMAIN log /\ log'[u] = Ended(log[u], outcome, hooks)
      /\ \A t \in DOMAIN log : t # u => log'[t] = log[t]
  BY <1>1, <1>2
<1> QED  BY <1>1, <1>3, <1>4

(* A write back keeps what the claim numbered, and only a requeue takes    *)
(* the attempts back.                                                      *)
LEMMA BudgetWriteBack ==
  ASSUME BackgroundJobsAssumption, IInv, BudgetInv, NEW d \in Drains, pc[d] \in Holding,
         Complete(d) \/ Retry(d) \/ Park(d)
  PROVE  BudgetInv'
<1> DEFINE i == claim[d].job
           u == claim[d].token
<1>1. row \in [Jobs -> Row] /\ pc \in [Drains -> Holding \cup {"idle", "claim"}]
  BY DEF IInv, TypeOK
<1>2. i \in Jobs /\ Fenced(d) /\ row[i].status = "running"
  BY DEF IInv, ClaimInv, Complete, Retry, Park, Fenced
<1>3. Returns(d)
  BY DEF Complete, Retry, Park
<1>4. \A e \in Drains : pc'[e] \in Holding => pc[e] \in Holding /\ claim'[e] = claim[e]
  BY <1>3, RunReturns DEF IInv
<1> DEFINE WroteBack(outcome, hooks, status, n, due) ==
             /\ Close(d, outcome, hooks)
             /\ row' = [row EXCEPT ![i] = Released(row[i], status, n, due)]
             /\ IF outcome = "requeued" THEN n = 0 ELSE n = row[i].attempts
<1>5. PICK outcome \in Outcomes, hooks \in {0, 1}, status \in {"pending", "gone", "dead"},
           n \in Nat, due \in BOOLEAN : WroteBack(outcome, hooks, status, n, due)
  <2>1. row[i].attempts \in Nat /\ 0 \in Nat /\ row[i].due \in BOOLEAN
    BY <1>1, <1>2 DEF Row
  <2>2. CASE Complete(d) /\ RerunRequested(i)
    <3>1. WroteBack("requeued", 0, "pending", 0, TRUE)
      BY <2>2 DEF Complete
    <3> QED  BY <2>1, <3>1 DEF Outcomes
  <2>3. CASE Complete(d) /\ ~ RerunRequested(i)
    <3>1. WroteBack("completed", 0, "gone", row[i].attempts, row[i].due)
      BY <2>3 DEF Complete
    <3> QED  BY <2>1, <3>1 DEF Outcomes
  <2>4. CASE Retry(d)
    <3>1. PICK hooks \in {0, 1} : Close(d, "retried", hooks)
      BY <2>4 DEF Retry
    <3>2. WroteBack("retried", hooks, "pending", row[i].attempts, FALSE)
      BY <2>4, <3>1 DEF Retry
    <3> QED  BY <2>1, <3>2 DEF Outcomes
  <2>5. CASE Park(d)
    <3>1. PICK hooks \in {0, 1} : Close(d, "dead", hooks)
      BY <2>5 DEF Park
    <3>2. WroteBack("dead", hooks, "dead", row[i].attempts, row[i].due)
      BY <2>5, <3>1 DEF Park
    <3> QED  BY <2>1, <3>2 DEF Outcomes
  <2> QED  BY <2>2, <2>3, <2>4, <2>5
<1>6. /\ u \in DOMAIN log /\ log \in Seq(Entry) /\ log[u].job = i /\ log[u].outcome = "open"
      /\ DOMAIN log' = DOMAIN log /\ log'[u].outcome = outcome
      /\ \A t \in DOMAIN log : /\ log'[t].job = log[t].job /\ log'[t].ran = log[t].ran
                               /\ log'[t].attempt = log[t].attempt
                               /\ t # u => log'[t] = log[t]
  BY <1>2, <1>5, CloseRewrites
<1>7. /\ row'[i].attempts = n /\ row'[i].status # "none"
      /\ \A j \in Jobs : j # i => row'[j] = row[j]
  <2>1. Released(row[i], status, n, due).attempts = n /\ Released(row[i], status, n, due).status = status
    BY DEF Released
  <2> QED  BY <1>1, <1>2, <1>5, <2>1
<1>8. RunInv'
  <2>1. \A t \in DOMAIN log' : log'[t].ran => log'[t].attempt <= MaxAttempts
    BY <1>6 DEF BudgetInv, RunInv
  <2>2. \A e \in Drains : pc'[e] \in Holding =>
          claim'[e].token \in DOMAIN log' /\ log'[claim'[e].token].attempt = claim'[e].attempt
    BY <1>4, <1>6 DEF BudgetInv, RunInv
  <2>3. \A j \in Jobs : row'[j].status = "none" => row'[j].attempts = 0
    BY <1>7 DEF BudgetInv, RunInv
  <2> QED  BY <2>1, <2>2, <2>3 DEF RunInv
<1> HIDE DEF i, u
<1>9. \A j \in Jobs : Within(log, j, row[j].attempts)
  BY DEF BudgetInv
<1>10. CASE outcome = "requeued"
  <2>1. n = 0 /\ row[i].attempts \in Nat
    BY <1>1, <1>2, <1>5, <1>10 DEF Row
  <2>2. Agree(log, log', DOMAIN log \ {u})
    BY <1>6 DEF Agree
  <2>3. /\ Within(log, i, row[i].attempts) => Within(log', i, 0)
        /\ \A j, k : j # i /\ Within(log, j, k) => Within(log', j, k)
    BY <1>6, <1>10, <2>1, <2>2, RequeueRenews
  <2>4. \A j \in Jobs : Within(log', j, row'[j].attempts)
    BY <1>2, <1>7, <1>9, <2>1, <2>3
  <2> QED  BY <1>8, <2>4 DEF BudgetInv
<1>11. CASE outcome # "requeued"
  <2>1. n = row[i].attempts
    BY <1>5, <1>11
  <2>2. Agree(log, log', DOMAIN log)
    BY <1>6, <1>11 DEF Agree
  <2>3. \A j \in Jobs : row'[j].attempts = row[j].attempts
    BY <1>7, <2>1
  <2>4. \A j \in Jobs : Within(log', j, row'[j].attempts)
    BY <1>6, <1>9, <2>2, <2>3, AgreeingHistories
  <2> QED  BY <1>8, <2>4 DEF BudgetInv
<1> QED  BY <1>10, <1>11

(* Taking a lease over rewrites no entry but in how its claim ended.       *)
LEMMA TakeoverRewrites ==
  ASSUME IInv, NEW i \in Jobs
  PROVE  /\ LogTakeover(i) \in Seq(Entry) /\ Len(LogTakeover(i)) = Len(log)
         /\ \A t \in DOMAIN log :
              /\ LogTakeover(i)[t].job = log[t].job /\ LogTakeover(i)[t].ran = log[t].ran
              /\ LogTakeover(i)[t].attempt = log[t].attempt
              /\ (LogTakeover(i)[t].outcome = "requeued") <=> (log[t].outcome = "requeued")
<1>1. log \in Seq(Entry)
  BY DEF IInv, TypeOK
<1>2. CASE row[i].status # "running"
  BY <1>1, <1>2 DEF LogTakeover
<1>3. CASE row[i].status = "running"
  <2> DEFINE u == row[i].token
             e == Ended(log[u], "lost", 0)
  <2>1. u \in DOMAIN log /\ log[u].outcome = "open"
    BY <1>3 DEF IInv, LogInv
  <2>2. log[u] \in Entry
    BY <1>1, <2>1
  <2>3. /\ e \in Entry /\ e.job = log[u].job /\ e.ran = log[u].ran
        /\ e.attempt = log[u].attempt /\ e.outcome = "lost"
    BY <2>2, EntriesTyped DEF Ended, Outcomes
  <2>4. LogTakeover(i) = [log EXCEPT ![u] = e]
    BY <1>3 DEF LogTakeover
  <2> HIDE DEF u, e
  <2>5. LogTakeover(i) \in Seq(Entry) /\ Len(LogTakeover(i)) = Len(log)
    BY <1>1, <2>1, <2>3, <2>4, ReplaceFacts
  <2>6. LogTakeover(i)[u] = e /\ \A t \in DOMAIN log : t # u => LogTakeover(i)[t] = log[t]
    BY <1>1, <2>1, <2>4
  <2> QED  BY <2>1, <2>3, <2>5, <2>6
<1> QED  BY <1>2, <1>3

(* A claim is numbered one higher than the row's last.                     *)
LEMMA BudgetClaim ==
  ASSUME BackgroundJobsAssumption, IInv, BudgetInv, NEW d \in Drains, ClaimNext(d)
  PROVE  BudgetInv'
<1> DEFINE u == Len(log) + 1
<1>1. /\ row \in [Jobs -> Row] /\ log \in Seq(Entry) /\ Len(log) \in Nat
      /\ DOMAIN log = 1 .. Len(log)
      /\ claim \in [Drains -> Claim] /\ pc \in [Drains -> Holding \cup {"idle", "claim"}]
  BY DEF IInv, TypeOK
<1>2. PICK i \in Jobs :
        /\ row' = [row EXCEPT ![i] = ClaimedRow(row[i], u)]
        /\ log' = Append(LogTakeover(i),
                         [job |-> i, attempt |-> row[i].attempts + 1, ran |-> FALSE,
                          outcome |-> "open", hooks |-> 0])
        /\ claim' = [claim EXCEPT ![d] = [job |-> i, token |-> u, attempt |-> row[i].attempts + 1]]
  BY DEF ClaimNext
<1>3. pc' = [pc EXCEPT ![d] = "claimed"]
  BY DEF ClaimNext
<1>4. row[i].attempts \in Nat
  BY <1>1 DEF Row
<1>5. /\ LogTakeover(i) \in Seq(Entry) /\ Len(LogTakeover(i)) = Len(log)
      /\ \A t \in DOMAIN log :
              /\ LogTakeover(i)[t].job = log[t].job /\ LogTakeover(i)[t].ran = log[t].ran
              /\ LogTakeover(i)[t].attempt = log[t].attempt
              /\ (LogTakeover(i)[t].outcome = "requeued") <=> (log[t].outcome = "requeued")
  BY TakeoverRewrites
<1>6. /\ DOMAIN log' = DOMAIN log \cup {u} /\ u \notin DOMAIN log
      /\ log'[u] = [job |-> i, attempt |-> row[i].attempts + 1, ran |-> FALSE,
                    outcome |-> "open", hooks |-> 0]
      /\ \A t \in DOMAIN log : log'[t] = LogTakeover(i)[t]
  <2> DEFINE e == [job |-> i, attempt |-> row[i].attempts + 1, ran |-> FALSE,
                   outcome |-> "open", hooks |-> 0]
             l == LogTakeover(i)
  <2>1. e \in Entry
    BY <1>4 DEF Entry, Outcomes
  <2>2. log' = Append(l, e) /\ l \in Seq(Entry) /\ Len(l) = Len(log)
    BY <1>2, <1>5
  <2> HIDE DEF e, l
  <2>3. /\ DOMAIN Append(l, e) = 1 .. Len(l) + 1 /\ DOMAIN l = 1 .. Len(l)
        /\ \A t \in DOMAIN l : Append(l, e)[t] = l[t]
        /\ Append(l, e)[Len(l) + 1] = e
    BY <2>1, <2>2, AppendFacts
  <2>4. DOMAIN l = DOMAIN log
    BY <1>1, <2>2, <2>3
  <2>5. 1 .. Len(log) + 1 = (1 .. Len(log)) \cup {u} /\ u \notin 1 .. Len(log)
    BY <1>1
  <2>6. log'[u] = e /\ \A t \in DOMAIN log : log'[t] = l[t]
    BY <2>2, <2>3, <2>4
  <2>7. DOMAIN log' = DOMAIN log \cup {u}
    BY <1>1, <2>2, <2>3, <2>5
  <2> QED  BY <1>1, <2>5, <2>6, <2>7 DEF e, l
<1>7. Agree(log, log', DOMAIN log)
  BY <1>5, <1>6 DEF Agree
<1>8. /\ row'[i].attempts = row[i].attempts + 1 /\ row'[i].status = "running"
      /\ \A j \in Jobs : j # i => row'[j] = row[j]
  BY <1>1, <1>2 DEF ClaimedRow
<1> HIDE DEF u
<1>9. /\ Within(log, i, row[i].attempts) => Within(log', i, row[i].attempts + 1)
      /\ \A j, k : j # i /\ Within(log, j, k) => Within(log', j, k)
  <2>1. /\ log'[u].job = i /\ log'[u].attempt = row[i].attempts + 1
        /\ log'[u].outcome # "requeued"
    BY <1>6
  <2> DEFINE n == row[i].attempts
             m == log'
  <2>2. /\ n \in Nat /\ u \notin DOMAIN log /\ DOMAIN m = DOMAIN log \cup {u}
        /\ Agree(log, m, DOMAIN log) /\ m[u].job = i /\ m[u].attempt = n + 1
        /\ m[u].outcome # "requeued"
    BY <1>4, <1>6, <1>7, <2>1
  <2>4. Spends(log, m, u, i, n)
    BY <1>1, <2>2 DEF Spends
  <2> HIDE DEF n, m, u
  <2>3. /\ Within(log, i, n) => Within(m, i, n + 1)
        /\ \A j, k : j # i /\ Within(log, j, k) => Within(m, j, k)
    BY <2>4, ClaimSpends
  <2> QED  BY <2>3 DEF n, m
<1>10. \A j \in Jobs : Within(log', j, row'[j].attempts)
  BY <1>8, <1>9 DEF BudgetInv
<1>11. RunInv'
  <2>1. \A t \in DOMAIN log' : log'[t].ran => log'[t].attempt <= MaxAttempts
    BY <1>5, <1>6 DEF BudgetInv, RunInv
  <2>2. ASSUME NEW e \in Drains, pc'[e] \in Holding
        PROVE  claim'[e].token \in DOMAIN log' /\ log'[claim'[e].token].attempt = claim'[e].attempt
    <3>1. CASE e = d
      <4>1. claim'[e].token = u /\ claim'[e].attempt = row[i].attempts + 1
        BY <1>1, <1>2, <3>1
      <4> QED  BY <1>6, <4>1
    <3>2. CASE e # d
      <4>1. claim'[e] = claim[e] /\ pc[e] \in Holding
        BY <1>1, <1>2, <1>3, <2>2, <3>2
      <4> QED  BY <1>5, <1>6, <4>1 DEF BudgetInv, RunInv
    <3> QED  BY <3>1, <3>2
  <2>3. \A j \in Jobs : row'[j].status = "none" => row'[j].attempts = 0
    BY <1>8 DEF BudgetInv, RunInv
  <2> QED  BY <2>1, <2>2, <2>3 DEF RunInv
<1> QED  BY <1>10, <1>11 DEF BudgetInv

(* A handler starts only in an attempt the policy allows.                  *)
LEMMA BudgetStart ==
  ASSUME BackgroundJobsAssumption, IInv, BudgetInv, NEW d \in Drains, StartRun(d)
  PROVE  BudgetInv'
<1> DEFINE u == claim[d].token
<1>1. /\ pc \in [Drains -> Holding \cup {"idle", "claim"}] /\ pc[d] \in Holding
      /\ log \in Seq(Entry) /\ claim[d].attempt \in Nat /\ MaxAttempts \in Nat
  BY DEF IInv, TypeOK, StartRun, Holding, Claim, BackgroundJobsAssumption
<1>2. row' = row /\ claim' = claim
  BY DEF StartRun
<1>3. \A e \in Drains : pc'[e] \in Holding => pc[e] \in Holding
  BY <1>1 DEF StartRun
<1>4. CASE log' = log
  BY <1>2, <1>3, <1>4, BudgetFrame
<1>5. CASE log' # log
  <2>1. ~ Spent(claim[d].attempt) /\ log' = [log EXCEPT ![u].ran = TRUE]
    BY <1>5 DEF StartRun
  <2>2. u \in DOMAIN log /\ log[u].attempt = claim[d].attempt /\ log[u].attempt <= MaxAttempts
    BY <1>1, <2>1 DEF BudgetInv, RunInv, Spent
  <2>3. log[u] \in Entry
    BY <1>1, <2>2
  <2>4. DOMAIN log' = DOMAIN log /\ log'[u] = [log[u] EXCEPT !.ran = TRUE]
    BY <1>1, <2>1, <2>2
  <2>5. \A t \in DOMAIN log : t # u => log'[t] = log[t]
    BY <1>1, <2>1
  <2>6. log'[u].job = log[u].job /\ log'[u].attempt = log[u].attempt /\ log'[u].outcome = log[u].outcome
    BY <2>3, <2>4 DEF Entry
  <2> HIDE DEF u
  <2>7. Agree(log, log', DOMAIN log)
    BY <2>5, <2>6 DEF Agree
  <2>8. \A j \in Jobs : Within(log', j, row'[j].attempts)
    BY <1>2, <2>4, <2>7, AgreeingHistories DEF BudgetInv
  <2>9. RunInv'
    <3>1. \A t \in DOMAIN log' : log'[t].ran => log'[t].attempt <= MaxAttempts
      BY <2>2, <2>4, <2>5, <2>6 DEF BudgetInv, RunInv
    <3>2. \A e \in Drains : pc'[e] \in Holding =>
            claim'[e].token \in DOMAIN log' /\ log'[claim'[e].token].attempt = claim'[e].attempt
      BY <1>2, <1>3, <2>4, <2>5, <2>6 DEF BudgetInv, RunInv
    <3>3. \A j \in Jobs : row'[j].status = "none" => row'[j].attempts = 0
      BY <1>2 DEF BudgetInv, RunInv
    <3> QED  BY <3>1, <3>2, <3>3 DEF RunInv
  <2> QED  BY <2>8, <2>9 DEF BudgetInv
<1> QED  BY <1>4, <1>5

(* What a drain does.                                                      *)
LEMMA BudgetDrain ==
  ASSUME BackgroundJobsAssumption, IInv, BudgetInv, NEW d \in Drains, Drain(d)
  PROVE  BudgetInv'
<1>1. pc \in [Drains -> Holding \cup {"idle", "claim"}] /\ row \in [Jobs -> Row]
  BY DEF IInv, TypeOK
<1>2. CASE ClaimNext(d)
  BY <1>2, BudgetClaim
<1>3. CASE StartRun(d)
  BY <1>3, BudgetStart
<1>4. CASE Complete(d) \/ Retry(d) \/ Park(d)
  <2>1. pc[d] \in Holding
    BY <1>4 DEF Complete, Retry, Park, Holding
  <2> QED  BY <1>4, <2>1, BudgetWriteBack
<1>5. CASE RenewLease(d)
  <2>1. log' = log /\ claim' = claim /\ pc' = pc
    BY <1>5 DEF RenewLease, drainVars
  <2>2. \A j \in Jobs : /\ row'[j].attempts = row[j].attempts
                        /\ row'[j].status = "none" => row[j].status = "none"
    BY <1>1, <1>5 DEF RenewLease, Row
  <2> QED  BY <2>1, <2>2, BudgetFrame
<1>6. CASE \/ StartDrain(d) \/ EndDrain(d) \/ HandlerReturns(d) \/ HandlerThrows(d) \/ Deadline(d)
           \/ LeaseLost(d) \/ Superseded(d) \/ HookThrows(d) \/ Crash(d)
  <2>1. log' = log /\ row' = row
    BY <1>6 DEF StartDrain, EndDrain, HandlerReturns, HandlerThrows, Deadline, LeaseLost,
                Superseded, HookThrows, Crash, storeVars
  <2>2. \A e \in Drains : pc'[e] \in Holding => pc[e] \in Holding /\ claim'[e] = claim[e]
    <3>1. CASE LeaseLost(d) \/ Superseded(d)
      BY <3>1, RunReturns DEF LeaseLost, Superseded, IInv
    <3>2. CASE ~ (LeaseLost(d) \/ Superseded(d))
      BY <1>1, <1>6, <3>2 DEF StartDrain, EndDrain, HandlerReturns, HandlerThrows, Deadline, FailTo,
                              HookThrows, Crash, Forgets, Holding, IInv, TypeOK
    <3> QED  BY <3>1, <3>2
  <2> QED  BY <2>1, <2>2, BudgetFrame
<1> QED  BY <1>2, <1>3, <1>4, <1>5, <1>6 DEF Drain, WriteBack

(* Nothing has been spent to begin with.                                   *)
LEMMA BudgetInitial ==
  ASSUME BackgroundJobsAssumption, Init
  PROVE  BudgetInv
<1>1. log = <<>> /\ DOMAIN log = {} /\ MaxAttempts \in Nat /\ MaxAttempts # 0
  BY DEF Init, BackgroundJobsAssumption
<1>2. \A j \in Jobs : row[j].attempts = 0 /\ row[j].status = "none"
  BY DEF Init, NoRow
<1>3. \A d \in Drains : pc[d] \notin Holding
  BY DEF Init, Holding
<1>4. \A j : Budgeted(log, j) = {} /\ Requeued(log, j) = {}
  BY <1>1 DEF Budgeted, Requeued
<1>5. \A j : Within(log, j, 0)
  <2>1. Cardinality({}) = 0 /\ UsedUp(0) = 0
    BY <1>1, FS_EmptySet DEF UsedUp
  <2>2. MaxAttempts * 0 + 0 = 0
    BY <1>1
  <2>3. 0 <= 0
    OBVIOUS
  <2>4. \A j : /\ Cardinality(Budgeted(log, j)) = 0 /\ Cardinality(Requeued(log, j)) = 0
    BY <1>4, <2>1
  <2> QED  BY <2>1, <2>2, <2>3, <2>4 DEF Within
<1> QED  BY <1>1, <1>2, <1>3, <1>5 DEF BudgetInv, RunInv

(* The claims that ran are among those the budgets count.                  *)
LEMMA BudgetsBoundRuns ==
  ASSUME BackgroundJobsAssumption, IInv, BudgetInv
  PROVE  RetryBudget
<1> SUFFICES ASSUME NEW j \in Jobs
             PROVE  Cardinality({t \in ClaimsOf(j) : log[t].ran}) <=
                      MaxAttempts * (1 + Cardinality({t \in ClaimsOf(j) : log[t].outcome = "requeued"}))
  BY DEF RetryBudget
<1> DEFINE S == {t \in ClaimsOf(j) : log[t].ran}
           b == Cardinality(Budgeted(log, j))
           r == Cardinality(Requeued(log, j))
<1>1. log \in Seq(Entry) /\ row[j].attempts \in Nat
  BY DEF IInv, TypeOK, Row
<1>2. /\ b \in Nat /\ IsFiniteSet(Budgeted(log, j)) /\ r \in Nat
      /\ MaxAttempts \in Nat /\ MaxAttempts * r \in Nat
  BY <1>1, CountsTyped
<1>3. S \subseteq Budgeted(log, j) /\ S \in SUBSET DOMAIN log
  BY DEF ClaimsOf, Budgeted, BudgetInv, RunInv
<1>4. {t \in ClaimsOf(j) : log[t].outcome = "requeued"} = Requeued(log, j)
  BY DEF ClaimsOf, Requeued
<1>5. Cardinality(S) <= b /\ Cardinality(S) \in Nat
  BY <1>1, <1>2, <1>3, FS_Subset, ClaimsFinite
<1>6. b <= MaxAttempts * r + UsedUp(row[j].attempts)
  BY DEF BudgetInv, Within
<1>7. UsedUp(row[j].attempts) \in Nat /\ UsedUp(row[j].attempts) <= MaxAttempts
  BY <1>1, <1>2 DEF UsedUp
<1>8. MaxAttempts * (1 + r) = MaxAttempts * r + MaxAttempts
  BY <1>2
<1> HIDE DEF S, b, r
<1>9. Cardinality(S) <= MaxAttempts * (1 + r)
  BY <1>2, <1>5, <1>6, <1>7, <1>8
<1> QED  BY <1>4, <1>9 DEF S, r

(* However often its workers die, stall or race, a job's handler starts at *)
(* most maxAttempts times per budget it was given.                         *)
THEOREM RunsStayWithinBudget == Spec => []RetryBudget
<1>1. Init => BudgetInv
  BY BudgetInitial, BackgroundJobsAssumption
<1>2. IInv /\ BudgetInv /\ [Next]_vars => BudgetInv'
  <2> SUFFICES ASSUME IInv, BudgetInv, [Next]_vars PROVE BudgetInv'
    OBVIOUS
  <2>1. CASE UNCHANGED vars
    <3>1. log' = log /\ claim' = claim /\ pc' = pc /\ row' = row
      BY <2>1 DEF vars, storeVars, drainVars
    <3> QED  BY <3>1, BudgetFrame
  <2>2. ASSUME NEW t, LeftEnds(t) PROVE BudgetInv'
    <3>1. log' = log /\ claim' = claim /\ pc' = pc /\ row' = row
      BY <2>2 DEF LeftEnds, storeVars, drainVars
    <3> QED  BY <3>1, BudgetFrame
  <2> QED
    BY <2>1, <2>2, BudgetProduce, BudgetDrain, BudgetClock, BackgroundJobsAssumption DEF Next
<1>3. IInv /\ BudgetInv => RetryBudget
  BY BudgetsBoundRuns, BackgroundJobsAssumption
<1>4. QED
  BY <1>1, <1>2, <1>3, Invariance, PTL DEF Spec
=============================================================================
