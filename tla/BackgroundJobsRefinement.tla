---------------------- MODULE BackgroundJobsRefinement ----------------------
(***************************************************************************)
(* The job table implements level-triggered work, LevelTriggered, for      *)
(* every instance: each of its steps is a step of the abstract             *)
(* specification or changes nothing the abstract one can see.              *)
(*                                                                         *)
(* Beyond IInv, closing a key's work needs that no second job for the key  *)
(* is live, and that no run claims to have read a change that has not      *)
(* committed.                                                              *)
(***************************************************************************)
EXTENDS BackgroundJobsProofs

(* One live job per key, counting the inserts still to commit.             *)
KeyInv ==
  /\ \A i, j \in Jobs : Live(i) /\ Live(j) /\ row[i].key = row[j].key => i = j
  /\ \A p \in Producers, j \in Jobs :
       tx[p].did = "insert" /\ Live(j) => row[j].key # tx[p].key
  /\ \A p, q \in Producers :
       tx[p].did = "insert" /\ tx[q].did = "insert" /\ tx[p].key = tx[q].key => p = q

(* Nothing is settled, or read, before it commits.                         *)
ReadInv ==
  /\ \A k \in RerunKeys : settled[k] <= version[k]
  /\ \A d \in Drains : pc[d] \in Holding => row[claim[d].job].status # "none"
  /\ \A d \in Drains : pc[d] \in {"handler", "complete"} =>
       \A k \in RerunKeys : row[claim[d].job].key = k => seen[d] <= version[k]

RInv == IInv /\ KeyInv /\ ReadInv

-----------------------------------------------------------------------------
(* KeyInv.                                                                 *)

(* A step of a drain or the clock makes no job live that was not.          *)
LEMMA NoneBorn ==
  ASSUME TypeOK, ClaimInv, NEW i \in Jobs,
         (\E d \in Drains : Drain(d)) \/ (\E j \in Jobs : Clock(j))
  PROVE  /\ Live(i)' => Live(i)
         /\ row'[i].status = "none" <=> row[i].status = "none"
<1>a. row \in [Jobs -> Row] /\ \A d \in Drains : pc[d] \in Holding => claim[d].job \in Jobs
  BY DEF TypeOK, ClaimInv
<1>1. ASSUME NEW d \in Drains, Drain(d)
      PROVE  /\ Live(i)' => Live(i)
             /\ row'[i].status = "none" <=> row[i].status = "none"
  <2>1. CASE row' = row
    BY <2>1 DEF Live
  <2>2. CASE ClaimNext(d)
    BY <1>a, <2>2 DEF ClaimNext, Claimable, Due, Abandoned, ClaimedRow, Live
  <2>3. CASE RenewLease(d)
    BY <1>a, <2>3 DEF RenewLease, Row, Live
  <2>4. CASE Complete(d)
    <3>1. PICK r : /\ row' = [row EXCEPT ![claim[d].job] = r]
                   /\ r.status \in {"pending", "gone"}
      BY <2>4 DEF Complete, Released
    <3>2. row[claim[d].job].status = "running"
      BY <2>4 DEF Complete, Fenced
    <3>3. QED
      BY <1>a, <3>1, <3>2 DEF Live
  <2>5. CASE Retry(d)
    BY <1>a, <2>5 DEF Retry, Released, Live, Fenced
  <2>6. CASE Park(d)
    BY <1>a, <2>6 DEF Park, Released, Live, Fenced
  <2>7. QED
    BY <1>1, <2>1, <2>2, <2>3, <2>4, <2>5, <2>6
       DEF Drain, WriteBack, StartDrain, EndDrain, StartRun, HandlerReturns, HandlerThrows,
           Deadline, LeaseLost, Superseded, HookThrows, Crash, storeVars
<1>2. ASSUME NEW j \in Jobs, Clock(j)
      PROVE  /\ Live(i)' => Live(i)
             /\ row'[i].status = "none" <=> row[i].status = "none"
  BY <1>a, <1>2 DEF Clock, LeaseLapses, BecomesDue, DeleteBefore, Live, Row
<1>3. QED
  BY <1>1, <1>2

(* Producers keep KeyInv: an insert that finds a live row for its key, or  *)
(* another insert of it, writes no row.                                    *)
LEMMA KeyProduce ==
  ASSUME TypeOK, TxInv, KeyInv, NEW p \in Producers, Produce(p)
  PROVE  KeyInv'
<1>a. tx \in [Producers -> Tx] /\ row \in [Jobs -> Row]
  BY DEF TypeOK
<1>1. ASSUME NEW k \in Keys, BeginTx(p, k) PROVE KeyInv'
  BY <1>1, <1>a DEF BeginTx, KeyInv, Live, storeVars
<1>2. CASE InsertFresh(p)
  <2>1. PICK j \in Jobs : tx' = [tx EXCEPT ![p] = Wrote(p, "insert", j)]
    BY <1>2 DEF InsertFresh
  <2>2. /\ row' = row
        /\ \A i \in Jobs : Live(i) => row[i].key # tx[p].key
        /\ \A q \in Producers : tx[q].did = "insert" => tx[q].key # tx[p].key
    BY <1>2 DEF InsertFresh, storeVars
  <2>3. QED
    BY <1>a, <2>1, <2>2 DEF KeyInv, Live, Wrote
<1>3. CASE InsertDuplicate(p)
  <2>1. row' = row
    BY <1>3 DEF InsertDuplicate, storeVars
  <2>2. PICK did \in {"flag", "fold", "ignored"}, j \in Jobs \cup {None} :
          tx' = [tx EXCEPT ![p] = Wrote(p, did, j)]
    BY <1>3 DEF InsertDuplicate
  <2>3. QED
    BY <1>a, <2>1, <2>2 DEF KeyInv, Live, Wrote
<1>4. CASE CommitTx(p)
  <2>1. tx' = [tx EXCEPT ![p] = NoTx]
    BY <1>4 DEF CommitTx
  <2>2. CASE tx[p].did = "insert"
    <3>1. PICK due \in BOOLEAN : row' = [row EXCEPT ![tx[p].job] = FreshRow(tx[p].key, due)]
      BY <1>4, <2>2 DEF CommitTx
    <3>2. tx[p].job \in Jobs
      BY <2>2 DEF TxInv, Holds
    <3>3. /\ row'[tx[p].job].key = tx[p].key
          /\ \A i \in Jobs : i # tx[p].job => row'[i] = row[i]
      BY <1>a, <3>1, <3>2 DEF FreshRow
    <3>4. \A i \in Jobs : Live(i)' => i = tx[p].job \/ Live(i)
      BY <3>3 DEF Live
    <3>5. QED
      BY <1>a, <2>1, <2>2, <3>2, <3>3, <3>4 DEF KeyInv, NoTx
  <2>3. CASE tx[p].did # "insert"
    <3>1. \A i \in Jobs : row'[i].status = row[i].status /\ row'[i].key = row[i].key
      BY <1>4, <1>a, <2>3 DEF CommitTx, Row
    <3>2. QED
      BY <1>a, <2>1, <3>1 DEF KeyInv, NoTx, Live
  <2>4. QED
    BY <2>2, <2>3
<1>5. CASE RollbackTx(p)
  BY <1>5, <1>a DEF RollbackTx, KeyInv, NoTx, Live, storeVars
<1>6. QED
  BY <1>1, <1>2, <1>3, <1>4, <1>5 DEF Produce

(* So do drains and the clock.                                             *)
LEMMA KeyFrame ==
  ASSUME KeyInv, tx' = tx,
         \A i \in Jobs : (Live(i)' => Live(i)) /\ row'[i].key = row[i].key
  PROVE  KeyInv'
BY DEF KeyInv

-----------------------------------------------------------------------------
(* ReadInv.                                                                *)

(* Producers keep ReadInv: a commit only adds a change.                    *)
LEMMA ReadProduce ==
  ASSUME TypeOK, TxInv, ClaimInv, ReadInv, NEW p \in Producers, Produce(p)
  PROVE  ReadInv'
<1>a. /\ row \in [Jobs -> Row] /\ version \in [RerunKeys -> Nat]
      /\ settled \in [RerunKeys -> Nat] /\ seen \in [Drains -> Nat]
  BY DEF TypeOK
<1>1. CASE UNCHANGED <<storeVars, drainVars, version>>
  BY <1>1 DEF ReadInv, storeVars, drainVars
<1>2. CASE CommitTx(p)
  <2>1. UNCHANGED <<drainVars, settled>>
    BY <1>2 DEF CommitTx
  <2>2. \A k \in RerunKeys : version'[k] \in Nat /\ version'[k] >= version[k]
    BY <1>2, <1>a DEF CommitTx
  <2>3. \A i \in Jobs : row[i].status # "none" =>
          row'[i].status = row[i].status /\ row'[i].key = row[i].key
    BY <1>2, <1>a DEF CommitTx, TxInv, Row
  <2>4. \A d \in Drains : pc[d] \in Holding => claim[d].job \in Jobs
    BY DEF ClaimInv
  <2>5. {"handler", "complete"} \subseteq Holding
    BY DEF Holding
  <2>6. QED
    BY <1>a, <2>1, <2>2, <2>3, <2>4, <2>5 DEF ReadInv, drainVars
<1>3. QED
  BY <1>1, <1>2 DEF Produce, BeginTx, InsertFresh, InsertDuplicate, RollbackTx

(* A step that starts no run and settles nothing keeps ReadInv.            *)
LEMMA ReadFrame ==
  ASSUME TypeOK, ClaimInv, ReadInv, UNCHANGED <<version, settled>>,
         \A i \in Jobs : /\ row'[i].status = "none" <=> row[i].status = "none"
                         /\ row'[i].key = row[i].key,
         \A d \in Drains : /\ pc'[d] \in Holding =>
                                /\ pc[d] \in Holding
                                /\ seen'[d] = seen[d] /\ claim'[d] = claim[d]
                           /\ pc'[d] \in {"handler", "complete"} =>
                                pc[d] \in {"handler", "complete"}
  PROVE  ReadInv'
BY DEF ReadInv, ClaimInv, Holding

(* Drains keep ReadInv: a run starts with what is committed, and settles   *)
(* what it read or, parked, what is committed.                             *)
LEMMA ReadDrain ==
  ASSUME TypeOK, ClaimInv, ReadInv, NEW d \in Drains, Drain(d)
  PROVE  ReadInv'
<1>a. /\ row \in [Jobs -> Row] /\ version \in [RerunKeys -> Nat]
      /\ settled \in [RerunKeys -> Nat] /\ seen \in [Drains -> Nat]
      /\ pc \in [Drains -> Holding \cup {"idle", "claim"}]
      /\ claim \in [Drains -> Claim]
  BY DEF TypeOK
<1>b. /\ \A e \in Drains : pc[e] \in Holding => claim[e].job \in Jobs
      /\ {"handler", "complete"} \subseteq Holding
  BY DEF ClaimInv, Holding
<1>c. \A i \in Jobs : /\ row'[i].status = "none" <=> row[i].status = "none"
                      /\ row'[i].key = row[i].key
  BY NoneBorn, DrainKeepsLocked
<1>1. ASSUME UNCHANGED <<version, settled>>,
             \A e \in Drains : /\ pc'[e] \in Holding =>
                                    /\ pc[e] \in Holding
                                    /\ seen'[e] = seen[e] /\ claim'[e] = claim[e]
                               /\ pc'[e] \in {"handler", "complete"} =>
                                    pc[e] \in {"handler", "complete"}
      PROVE  ReadInv'
  BY <1>1, <1>c, ReadFrame
<1>2. CASE ClaimNext(d)
  <2>1. PICK i \in Jobs :
          /\ row[i].status # "none"
          /\ claim' = [claim EXCEPT ![d] = [job |-> i, token |-> Len(log) + 1,
                                            attempt |-> row[i].attempts + 1]]
    BY <1>2 DEF ClaimNext, Claimable, Due, Abandoned
  <2>2. UNCHANGED <<seen, version, settled>> /\ pc' = [pc EXCEPT ![d] = "claimed"]
    BY <1>2 DEF ClaimNext
  <2>3. QED
    BY <1>a, <1>b, <1>c, <2>1, <2>2 DEF ReadInv
<1>3. CASE StartRun(d)
  <2>1. UNCHANGED <<row, version, settled, claim>> /\ pc[d] \in Holding
    BY <1>3 DEF StartRun, Holding
  <2>2. CASE Spent(claim[d].attempt)
    BY <1>3, <1>a, <1>1, <2>1, <2>2 DEF StartRun, Holding
  <2>3. CASE ~Spent(claim[d].attempt)
    <3>1. /\ pc' = [pc EXCEPT ![d] = "handler"]
          /\ \A e \in Drains : e # d => seen'[e] = seen[e]
          /\ row[claim[d].job].key \in RerunKeys =>
               seen'[d] = version[row[claim[d].job].key]
      BY <1>3, <1>a, <2>3 DEF StartRun
    <3>2. QED
      BY <1>a, <1>b, <2>1, <3>1 DEF ReadInv
  <2>4. QED
    BY <2>2, <2>3
<1>4. CASE RenewLease(d)
  BY <1>4, <1>1 DEF RenewLease, drainVars
<1>5. CASE Complete(d) \/ Retry(d) \/ Park(d)
  <2> DEFINE j == claim[d].job
  <2>1. version' = version /\ Returns(d) /\ pc[d] \in Holding
    BY <1>5 DEF Complete, Retry, Park, Holding
  <2>2. \A k \in RerunKeys : settled'[k] <= version[k]
    <3>1. ASSUME NEW k, NEW v \in Nat, Settle(k, v), k \in RerunKeys => v <= version[k]
          PROVE  \A l \in RerunKeys : settled'[l] <= version[l]
      BY <1>a, <3>1 DEF Settle, ReadInv
    <3>2. CASE Complete(d)
      <4>1. row[j].key \in RerunKeys => seen[d] <= version[row[j].key]
        BY <3>2 DEF Complete, ReadInv
      <4>2. QED
        BY <1>a, <3>1, <3>2, <4>1 DEF Complete
    <3>3. CASE Retry(d)
      BY <3>3 DEF Retry, ReadInv
    <3>4. CASE Park(d) /\ row[j].key \in RerunKeys
      BY <1>a, <3>1, <3>4 DEF Park
    <3>5. CASE Park(d) /\ row[j].key \notin RerunKeys
      BY <3>5 DEF Park, ReadInv
    <3>6. QED
      BY <1>5, <3>2, <3>3, <3>4, <3>5
  <2>3. \A e \in Drains : pc'[e] \in Holding =>
          pc'[e] = pc[e] /\ claim'[e] = claim[e] /\ seen'[e] = seen[e]
    BY <2>1, RunReturns
  <2>4. QED
    BY <1>b, <1>c, <2>1, <2>2, <2>3 DEF ReadInv
<1>6. CASE HandlerReturns(d) \/ HandlerThrows(d) \/ Deadline(d)
  BY <1>6, <1>1, <1>a DEF HandlerReturns, HandlerThrows, Deadline, FailTo, Holding, storeVars
<1>7. CASE StartDrain(d) \/ EndDrain(d) \/ HookThrows(d) \/ Crash(d)
  BY <1>7, <1>1, <1>a DEF StartDrain, EndDrain, HookThrows, Crash, Forgets, Holding, storeVars
<1>8. CASE LeaseLost(d) \/ Superseded(d)
  <2>1. Returns(d) /\ UNCHANGED <<version, settled>>
    BY <1>8 DEF LeaseLost, Superseded, storeVars
  <2>2. QED
    BY <1>1, <1>b, <2>1, RunReturns
<1>9. QED
  BY <1>2, <1>3, <1>4, <1>5, <1>6, <1>7, <1>8 DEF Drain, WriteBack

(* The inductive step of what the refinement adds.                         *)
LEMMA RefinementInductive ==
  ASSUME BackgroundJobsAssumption, RInv, [Next]_vars
  PROVE  RInv'
<1>1. IInv'
  BY Inductive DEF RInv
<1>2. CASE UNCHANGED vars
  BY <1>1, <1>2 DEF RInv, KeyInv, ReadInv, Live, vars, storeVars, drainVars
<1>3. ASSUME NEW p \in Producers, Produce(p) PROVE KeyInv' /\ ReadInv'
  BY <1>3, KeyProduce, ReadProduce DEF RInv, IInv
<1>4. ASSUME NEW d \in Drains, Drain(d) PROVE KeyInv' /\ ReadInv'
  <2>1. tx' = tx /\ \A i \in Jobs : (Live(i)' => Live(i)) /\ row'[i].key = row[i].key
    BY <1>4, NoneBorn, DrainKeepsLocked DEF RInv, IInv
  <2>2. QED
    BY <1>4, <2>1, KeyFrame, ReadDrain DEF RInv, IInv
<1>5. ASSUME NEW j \in Jobs, Clock(j) PROVE KeyInv' /\ ReadInv'
  <2>1. tx' = tx /\ \A i \in Jobs : /\ Live(i)' => Live(i)
                                    /\ row'[i].status = "none" <=> row[i].status = "none"
                                    /\ row'[i].key = row[i].key
    BY <1>5, NoneBorn, ClockKeepsLocked DEF RInv, IInv
  <2>2. UNCHANGED <<version, settled, seen, claim, pc>>
    BY <1>5 DEF Clock, LeaseLapses, BecomesDue, DeleteBefore, drainVars
  <2>3. QED
    BY <2>1, <2>2, KeyFrame, ReadFrame DEF RInv, IInv
<1>6. ASSUME NEW t, LeftEnds(t) PROVE KeyInv' /\ ReadInv'
  BY <1>6 DEF LeftEnds, RInv, KeyInv, ReadInv, Live, storeVars, drainVars
<1>7. QED
  BY <1>1, <1>2, <1>3, <1>4, <1>5, <1>6 DEF RInv, Next

(* A key has at most one live row, and no drain has read more of a key's   *)
(* changes than are committed, on top of the invariant of the substrate.   *)
THEOREM RefinementInvariance == Spec => []RInv
<1>1. Init => RInv
  BY Initial, BackgroundJobsAssumption
     DEF Init, RInv, KeyInv, ReadInv, Live, NoRow, NoTx, Holding
<1>2. RInv /\ [Next]_vars => RInv'
  BY RefinementInductive, BackgroundJobsAssumption
<1>3. QED
  BY <1>1, <1>2, PTL DEF Spec

-----------------------------------------------------------------------------
(* The refinement.                                                         *)

(* A step that keeps every live row live, and settles nothing, stutters.   *)
LEMMA Stutters ==
  ASSUME UNCHANGED <<version, settled>>,
         \A i \in Jobs, k \in RerunKeys :
           (Live(i) /\ row[i].key = k)' <=> (Live(i) /\ row[i].key = k)
  PROVE  UNCHANGED Level!vars
<1>1. \A k \in RerunKeys : (\E i \in Jobs : Live(i) /\ row[i].key = k)' <=>
                             (\E i \in Jobs : Live(i) /\ row[i].key = k)
  OBVIOUS
<1>2. open' = open
  BY <1>1 DEF open
<1>3. QED
  BY <1>2 DEF Level!vars

(* A change commits with the work it asks for.                             *)
LEMMA CommitRefines ==
  ASSUME RInv, NEW p \in Producers, CommitTx(p)
  PROVE  [Level!Next]_(Level!vars)
<1>a. /\ row \in [Jobs -> Row] /\ version \in [RerunKeys -> Nat] /\ TxInv
  BY DEF RInv, IInv, TypeOK
<1>1. PICK c : c = tx[p].key
  OBVIOUS
<1>2. \A k \in RerunKeys : k # c =>
        ((\E i \in Jobs : Live(i) /\ row[i].key = k)' <=>
         (\E i \in Jobs : Live(i) /\ row[i].key = k))
  <2>1. CASE tx[p].did = "insert"
    <3>1. PICK j \in Jobs, due \in BOOLEAN :
            /\ j = tx[p].job /\ row[j].status = "none"
            /\ row' = [row EXCEPT ![j] = FreshRow(c, due)]
      BY <1>1, <1>a, <2>1 DEF CommitTx, TxInv, Holds
    <3>2. row'[j].key = c /\ \A i \in Jobs : i # j => row'[i] = row[i]
      BY <1>a, <3>1 DEF FreshRow
    <3>3. \A i \in Jobs, k \in RerunKeys : k # c =>
            ((Live(i) /\ row[i].key = k)' <=> (Live(i) /\ row[i].key = k))
      BY <3>1, <3>2 DEF Live
    <3>4. QED
      BY <3>3
  <2>2. CASE tx[p].did # "insert"
    <3>1. \A i \in Jobs : row'[i].status = row[i].status /\ row'[i].key = row[i].key
      BY <1>a, <2>2 DEF CommitTx, Row
    <3>2. QED
      BY <3>1 DEF Live
  <2>3. QED
    BY <2>1, <2>2
<1>3. CASE c \notin RerunKeys
  <2>1. version' = version /\ settled' = settled
    BY <1>1, <1>3 DEF CommitTx
  <2>2. open' = open
    BY <1>2, <1>3 DEF open
  <2>3. QED
    BY <2>1, <2>2 DEF Level!vars
<1>4. CASE c \in RerunKeys
  <2>1. version' = [version EXCEPT ![c] = @ + 1] /\ settled' = settled
    BY <1>1, <1>4 DEF CommitTx
  <2>2. version'[c] > settled'[c]
    BY <1>a, <1>4, <2>1 DEF RInv, ReadInv, IInv, TypeOK
  <2>3. (\E i \in Jobs : Live(i) /\ row[i].key = c)'
    <3>1. CoverInv'
      BY CoverProduce, TypeProduce, BackgroundJobsAssumption DEF RInv, IInv, Produce
    <3>2. QED
      BY <1>4, <2>2, <3>1 DEF CoverInv, Covers, Owed
  <2>4. open' = [open EXCEPT ![c] = TRUE]
    BY <1>2, <1>4, <2>3 DEF open
  <2>5. Level!Change(c)
    BY <2>1, <2>4 DEF Level!Change
  <2>6. QED
    BY <1>4, <2>5 DEF Level!Next
<1>5. QED
  BY <1>3, <1>4

(* A write back that ends a run.  Deleting or parking closes the key's     *)
(* work, a rerun may advance it, a retry changes nothing.                  *)
LEMMA EndRefines ==
  ASSUME RInv, NEW d \in Drains, Complete(d) \/ Park(d)
  PROVE  [Level!Next]_(Level!vars)
<1> DEFINE j == claim[d].job
<1>a. /\ row \in [Jobs -> Row] /\ version \in [RerunKeys -> Nat]
      /\ settled \in [RerunKeys -> Nat] /\ seen \in [Drains -> Nat]
  BY DEF RInv, IInv, TypeOK
<1>b. pc[d] \in Holding /\ pc[d] # "handler"
  BY DEF Complete, Park, Holding
<1>1. /\ j \in Jobs /\ Live(j) /\ Fenced(d) /\ version' = version
      /\ row[j].status = "running" /\ pc[d] \in Holding
  BY <1>b DEF Complete, Park, RInv, IInv, ClaimInv, Live, Fenced
<1>2. PICK c : c = row[j].key
  OBVIOUS
<1>3. \A i \in Jobs : i # j => row'[i] = row[i]
  BY <1>a, <1>1 DEF Complete, Park
<1>4. row'[j].key = c
  BY <1>1, <1>2, DrainKeepsLocked DEF RInv, IInv, Drain, WriteBack
<1>5. \A k \in RerunKeys : settled[k] <= version[k]
  BY DEF RInv, ReadInv
<1>6. \A k \in RerunKeys : k # c =>
        /\ settled'[k] = settled[k]
        /\ (\E i \in Jobs : Live(i) /\ row[i].key = k)' <=>
           (\E i \in Jobs : Live(i) /\ row[i].key = k)
  <2>1. ASSUME NEW k \in RerunKeys, k # c
        PROVE  settled'[k] = settled[k]
    BY <1>a, <1>2, <2>1 DEF Complete, Park, Settle
  <2>2. ASSUME NEW k \in RerunKeys, k # c, NEW i \in Jobs
        PROVE  (Live(i) /\ row[i].key = k)' <=> (Live(i) /\ row[i].key = k)
    <3>1. CASE i = j
      BY <1>2, <1>4, <2>2, <3>1
    <3>2. CASE i # j
      BY <1>3, <3>2 DEF Live
    <3>3. QED
      BY <3>1, <3>2
  <2>3. QED
    BY <2>1, <2>2
<1>7. settled' \in [RerunKeys -> Nat]
  <2>1. settled' = settled \/ Settle(c, seen[d]) \/ Settle(c, version[c])
    BY <1>2 DEF Complete, Park
  <2>2. seen[d] \in Nat
    BY <1>a
  <2>3. c \in RerunKeys => version[c] \in Nat
    BY <1>a
  <2>4. QED
    BY <1>a, <2>1, <2>2, <2>3 DEF Settle
<1>8. CASE c \notin RerunKeys
  <2>1. open' = open /\ settled' = settled
    BY <1>6, <1>7, <1>8, <1>a DEF open
  <2>2. QED
    BY <1>1, <2>1 DEF Level!vars
<1>9. CASE c \in RerunKeys /\ row'[j].status = "pending"
  <2>1. \A k \in RerunKeys : (\E i \in Jobs : Live(i) /\ row[i].key = k)' <=>
                              (\E i \in Jobs : Live(i) /\ row[i].key = k)
    <3>1. (Live(j) /\ row[j].key = c)
      BY <1>1, <1>2
    <3>2. row'[j].status = "pending" /\ row'[j].key = c
      BY <1>4, <1>9
    <3>3. \A i \in Jobs, k \in RerunKeys :
            (Live(i) /\ row[i].key = k)' <=> (Live(i) /\ row[i].key = k)
      BY <1>3, <3>1, <3>2 DEF Live
    <3>4. QED
      BY <3>3
  <2>2. open' = open
    BY <2>1 DEF open
  <2>3. settled' = settled \/ (seen[d] > settled[c] /\ settled' = [settled EXCEPT ![c] = seen[d]])
    <3>1. Complete(d)
      BY <1>a, <1>1, <1>9 DEF Park, Released
    <3>2. QED
      BY <1>2, <3>1 DEF Complete, Settle
  <2>4. CASE settled' = settled
    BY <1>1, <2>2, <2>4 DEF Level!vars
  <2>5. CASE seen[d] > settled[c] /\ settled' = [settled EXCEPT ![c] = seen[d]]
    <3>1. seen[d] <= version[c]
      <4>1. Complete(d)
        BY <1>a, <1>1, <1>9 DEF Park, Released
      <4>2. QED
        BY <1>2, <1>9, <4>1 DEF Complete, RInv, ReadInv
    <3>2. open[c]
      BY <1>1, <1>2, <1>9 DEF open
    <3>3. seen[d] \in settled[c] + 1 .. version[c]
      BY <1>a, <1>9, <2>5, <3>1
    <3>4. Level!Advance(c)
      BY <1>1, <2>2, <2>5, <3>2, <3>3 DEF Level!Advance
    <3>5. QED
      BY <1>9, <3>4 DEF Level!Next
  <2>6. QED
    BY <2>3, <2>4, <2>5
<1>10. CASE c \in RerunKeys /\ row'[j].status # "pending"
  <2>1. ~ (\E i \in Jobs : Live(i) /\ row[i].key = c)'
    <3>1. row'[j].status \in {"gone", "dead"}
      BY <1>a, <1>1, <1>10 DEF Complete, Park, Released
    <3>2. \A i \in Jobs : i # j /\ Live(i) => row[i].key # c
      BY <1>1, <1>2 DEF RInv, KeyInv
    <3>3. \A i \in Jobs : ~(Live(i) /\ row[i].key = c)'
      BY <1>3, <3>1, <3>2 DEF Live
    <3>4. QED
      BY <3>3
  <2>2. settled'[c] = version[c]
    <3>1. settled'[c] >= version[c]
      <4>1. CoverInv'
        BY CoverDrain, TypeDrain, BackgroundJobsAssumption DEF RInv, IInv, Drain, WriteBack
      <4>2. ~Owed(c)'
        BY <1>10, <2>1, <4>1 DEF CoverInv, Covers
      <4>3. QED
        BY <1>1, <1>7, <1>10, <1>a, <4>2 DEF Owed
    <3>2. settled'[c] <= version[c]
      <4>1. ReadInv'
        BY ReadDrain DEF RInv, IInv, Drain, WriteBack
      <4>2. QED
        BY <1>1, <1>10, <4>1 DEF ReadInv
    <3>3. QED
      BY <1>7, <1>10, <1>a, <3>1, <3>2
  <2>3. settled' = [settled EXCEPT ![c] = version[c]]
    BY <1>6, <1>7, <1>10, <1>a, <2>2
  <2>4. open[c] /\ open' = [open EXCEPT ![c] = FALSE]
    <3>1. open[c]
      BY <1>1, <1>2, <1>10 DEF open
    <3>2. \A k \in RerunKeys : k # c =>
            ((\E i \in Jobs : Live(i) /\ row[i].key = k)' <=>
             (\E i \in Jobs : Live(i) /\ row[i].key = k))
      BY <1>6
    <3>3. open' = [open EXCEPT ![c] = FALSE]
      BY <1>10, <2>1, <3>2 DEF open
    <3>4. QED
      BY <3>1, <3>3
  <2>5. Level!Close(c)
    BY <1>1, <2>3, <2>4 DEF Level!Close
  <2>6. QED
    BY <1>10, <2>5 DEF Level!Next
<1>11. QED
  BY <1>8, <1>9, <1>10

(* Every step is a step of LevelTriggered, or invisible to it.             *)
LEMMA StepRefines ==
  ASSUME RInv, [Next]_vars
  PROVE  [Level!Next]_(Level!vars)
<1>a. /\ row \in [Jobs -> Row] /\ TypeOK /\ TxInv /\ ClaimInv
  BY DEF RInv, IInv, TypeOK
<1>1. CASE UNCHANGED <<row, version, settled>>
  BY <1>1, Stutters DEF Live
<1>2. ASSUME NEW p \in Producers, Produce(p) PROVE [Level!Next]_(Level!vars)
  BY <1>1, <1>2, CommitRefines
     DEF Produce, BeginTx, InsertFresh, InsertDuplicate, RollbackTx, storeVars
<1>3. ASSUME NEW d \in Drains, Drain(d) PROVE [Level!Next]_(Level!vars)
  <2>1. CASE Complete(d) \/ Park(d)
    BY <2>1, EndRefines
  <2>2. CASE ClaimNext(d) \/ RenewLease(d) \/ Retry(d)
    <3>1. version' = version /\ settled' = settled
      BY <2>2 DEF ClaimNext, RenewLease, Retry
    <3>2. \A i \in Jobs : Live(i)' <=> Live(i)
      <4>1. CASE ClaimNext(d)
        BY <1>a, <4>1 DEF ClaimNext, Claimable, Due, Abandoned, ClaimedRow, Live
      <4>2. CASE RenewLease(d)
        BY <1>a, <4>2 DEF RenewLease, Row, Live
      <4>3. CASE Retry(d)
        BY <1>a, <4>3 DEF Retry, Released, Live, Fenced
      <4>4. QED
        BY <2>2, <4>1, <4>2, <4>3
    <3>3. \A i \in Jobs : row'[i].key = row[i].key
      BY <1>3, <1>a, DrainKeepsLocked
    <3>4. QED
      BY <3>1, <3>2, <3>3, Stutters
  <2>3. QED
    BY <1>1, <1>3, <2>1, <2>2
       DEF Drain, WriteBack, StartDrain, EndDrain, StartRun, HandlerReturns, HandlerThrows,
           Deadline, LeaseLost, Superseded, HookThrows, Crash, storeVars
<1>4. ASSUME NEW j \in Jobs, Clock(j) PROVE [Level!Next]_(Level!vars)
  <2>1. version' = version /\ settled' = settled
    BY <1>4 DEF Clock, LeaseLapses, BecomesDue, DeleteBefore
  <2>2. \A i \in Jobs : Live(i)' <=> Live(i)
    BY <1>4, <1>a DEF Clock, LeaseLapses, BecomesDue, DeleteBefore, Live, Row
  <2>3. \A i \in Jobs : row'[i].key = row[i].key
    BY <1>4, <1>a, ClockKeepsLocked
  <2>4. QED
    BY <2>1, <2>2, <2>3, Stutters
<1>5. CASE UNCHANGED vars
  BY <1>1, <1>5 DEF vars, storeVars
<1>6. ASSUME NEW t, LeftEnds(t) PROVE [Level!Next]_(Level!vars)
  BY <1>1, <1>6 DEF LeftEnds, storeVars
<1>7. QED
  BY <1>2, <1>3, <1>4, <1>5, <1>6 DEF Next

(* The job table implements the safety of level-triggered work: a key's    *)
(* work closes only once every change committed to it is dealt with.       *)
THEOREM Refinement == Spec => Level!Spec
<1>1. Init => Level!Init
  BY DEF Init, Level!Init, open, Live, NoRow
<1>2. RInv /\ [Next]_vars => [Level!Next]_(Level!vars)
  BY StepRefines
<1>3. QED
  BY <1>1, <1>2, RefinementInvariance, PTL DEF Spec, Level!Spec
====
