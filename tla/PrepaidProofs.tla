--------------------------- MODULE PrepaidProofs ---------------------------
(***************************************************************************)
(* Proofs about Prepaid: no account owes more than its grace; the balance  *)
(* is what was granted less what every month used past its allowance and   *)
(* what expired, whatever the order; and the top-up of the whole account   *)
(* is AutoTopUp's, so that what is proved of it there holds here and the   *)
(* balance gets the credits of a pack once, after it was paid for.         *)
(***************************************************************************)
EXTENDS Prepaid, FiniteSetTheorems, TLAPS

Debt == UsageTypes /\ DebtWithinGrace

(* The steps on the account's usage.                                       *)
UsageStep ==
  \/ \E k \in Kinds : Reserve(k)
  \/ \E m \in 1 .. Months, k \in Kinds : Release(m, k)
  \/ \E g \in References : Expires(g) \/ AddCredits(g)
  \/ NextMonth \/ ReadConversationUsage

-----------------------------------------------------------------------------

(* Every step of the account is one of the top-up's or leaves it alone.    *)
THEOREM ImplementsTopUp == Spec => T!Spec
<1>1. Init => T!Init
  BY DEF Init
<1>2. [Next]_vars => [T!Next]_(T!vars)
  BY DEF Next, vars, topUpVars, Runs, Reads, Settles, Hears, OnPaid, OnFailed, Befalls,
         T!vars, T!Next, T!Sweep, T!OnPaid
<1> QED BY <1>1, <1>2, PTL DEF Spec, T!Spec

(* The assumption, field by field.                                         *)
LEMMA Constants ==
  /\ Months \in Nat \ {0} /\ Pack \in Nat /\ Limit \in Nat /\ Grace \in Nat
  /\ IsFiniteSet(References) /\ \A k \in Kinds : Weight[k] \in Nat \ {0}
BY UsageLimitsAssumption

(* The arithmetic of one grant more.                                       *)
LEMMA Times ==
  ASSUME NEW a \in Nat, NEW b \in Nat
  PROVE  a * b \in Nat /\ a * (b + 1) = a * b + a
OBVIOUS

(* Valid and granted references can be counted.                            *)
LEMMA GrantsCount ==
  /\ Cardinality(Valid) \in Nat /\ Cardinality(Granted) \in Nat
  /\ Credits(Valid) \in Nat /\ Credits(Granted) \in Nat
<1>1. Valid \subseteq References /\ Granted \subseteq References
  BY DEF Valid, Granted
<1>2. Cardinality(Valid) \in Nat /\ Cardinality(Granted) \in Nat
  BY <1>1, Constants, FS_Subset, FS_CardinalityType
<1> QED BY <1>2, Constants, Times DEF Credits

(* So can those granted after a step.                                      *)
LEMMA PrimedGrantsCount == Credits(Granted') \in Nat
<1>1. Granted' \subseteq References
  BY DEF Granted
<1>2. Cardinality(Granted') \in Nat
  BY <1>1, Constants, FS_Subset, FS_CardinalityType
<1> QED BY <1>2, Constants, Times DEF Credits

(* The write-down of a debt beyond the grace only takes credits away.      *)
LEMMA ClampedIsLess ==
  ASSUME Debt
  PROVE  Clamped \in Int /\ Clamped <= balance /\ Clamped >= -Grace
BY GrantsCount, Constants DEF Clamped, Lesser, Debt, UsageTypes, DebtWithinGrace

(* One grant more.                                                         *)
LEMMA NewGrant ==
  ASSUME UsageTypes, NEW g \in References, grant[g] = "none",
         grant' = [grant EXCEPT ![g] = "valid"]
  PROVE  Credits(Granted') = Credits(Granted) + Pack
<1>1. g \notin Granted /\ Granted' = Granted \cup {g}
  BY DEF UsageTypes, Granted
<1>2. Granted \subseteq References
  BY DEF Granted
<1>3. Cardinality(Granted') = Cardinality(Granted) + 1
  BY <1>1, <1>2, Constants, FS_Subset, FS_AddElement
<1> QED BY <1>3, GrantsCount, Constants, Times DEF Credits

(* A step of the composition is a step of the credits or leaves them alone.*)
LEMMA UsageOrNot ==
  ASSUME [Next]_vars
  PROVE  UsageStep \/ UNCHANGED usageVars
<1>1. ASSUME NEW d \in Sweeps, Runs(d) PROVE UsageStep \/ UNCHANGED usageVars
  BY <1>1 DEF Runs, Reads, Settles, UsageStep, AddCredits
<1>2. ASSUME NEW n \in T!Packs, OnPaid(n) \/ OnFailed(n) \/ Befalls(n)
      PROVE  UsageStep \/ UNCHANGED usageVars
  BY <1>2 DEF OnPaid, OnFailed, Befalls, Hears, UsageStep, AddCredits
<1>3. Use => UsageStep
  BY DEF Use, UsageStep
<1> QED BY <1>1, <1>2, <1>3 DEF Next, vars

-----------------------------------------------------------------------------
(* The steps on the usage, one by one.                                     *)

(* A release moves the balance by what the month's use past the allowance *)
(* changes.                                                                *)
LEMMA RefundArithmetic ==
  ASSUME NEW u \in Nat, NEW v \in Nat, v <= u
  PROVE  /\ Refund(u, v) = Greater(0, u - Limit) - Greater(0, v - Limit)
         /\ Refund(u, v) \in Nat
BY Constants DEF Refund, Greater

(* What a reservation may overshoot keeps the balance within the grace.    *)
LEMMA CeilingKeepsGrace ==
  ASSUME NEW k, NEW c \in Int, c >= -Grace, NEW o \in Int, o <= Ceiling(k, c)
  PROVE  c - Greater(o, 0) >= -Grace
<1>1. CASE k = "conversation"
  BY <1>1, Constants DEF Ceiling, Greater
<1>2. CASE k # "conversation"
  BY <1>2, Constants DEF Ceiling, Greater
<1> QED BY <1>1, <1>2

(* A reservation.                                                          *)
LEMMA ReserveStep ==
  ASSUME Debt, NEW k \in Kinds, Reserve(k)
  PROVE  Debt' /\ BalanceMoves
<1> DEFINE before == used[month]
           after  == before + Weight[k]
           over   == Overshoot(before, after)
<1>1. month \in 1 .. Months /\ before \in Nat /\ Weight[k] \in Nat /\ after \in Nat /\ balance \in Int
      /\ lost \in Nat
  BY Constants DEF Debt, UsageTypes
<1>2. /\ used' = [used EXCEPT ![month] = after] /\ balance' = Clamped - Greater(over, 0)
      /\ lost' = lost + (balance - Clamped) /\ over <= Ceiling(k, Clamped)
      /\ open' = [open EXCEPT ![month][k] = @ + 1] /\ calls' = calls + 1
      /\ month' = month /\ grant' = grant
  BY DEF Reserve
<1>3. over \in Int /\ Greater(over, 0) \in Nat
  BY <1>1, Constants DEF Overshoot, Greater
<1>4. Clamped \in Int /\ Clamped <= balance /\ Clamped >= -Grace
  BY ClampedIsLess
<1>5. balance' \in Int /\ balance' >= -Grace /\ lost' \in Nat
  BY <1>1, <1>2, <1>3, <1>4, CeilingKeepsGrace
<1>6. open' \in [1 .. Months -> [Kinds -> Nat]] /\ calls' \in Nat
  BY <1>1, <1>2 DEF Debt, UsageTypes
<1>7. used' \in [1 .. Months -> Nat]
  BY <1>1, <1>2 DEF Debt, UsageTypes
<1>8. Debt'
  BY <1>1, <1>2, <1>5, <1>6, <1>7 DEF Debt, UsageTypes, DebtWithinGrace
<1>9. used'[month] = after /\ \A m \in 1 .. Months : m # month => used'[m] = used[m]
  BY <1>1, <1>2 DEF Debt, UsageTypes
<1>10. Greater(over, 0) = Greater(0, after - Limit) - Greater(0, before - Limit)
  BY <1>1, Constants DEF Overshoot, Greater
<1>11. Greater(0, after - Limit) \in Nat /\ Greater(0, before - Limit) \in Nat
  BY <1>1, Constants DEF Greater
<1>12. Credits(Granted') = Credits(Granted) /\ Credits(Granted) \in Nat
  BY <1>2, GrantsCount DEF Granted
<1>13. balance' = balance + (Credits(Granted') - Credits(Granted))
                    - (Greater(0, after - Limit) - Greater(0, before - Limit)) - (lost' - lost)
  BY <1>1, <1>2, <1>3, <1>4, <1>10, <1>11, <1>12
<1>14. BalanceMoves
  BY <1>1, <1>9, <1>13 DEF BalanceMoves, PastLimit
<1> QED BY <1>8, <1>14

(* A release.                                                              *)
LEMMA ReleaseStep ==
  ASSUME Debt, NEW m \in 1 .. Months, NEW k \in Kinds, Release(m, k)
  PROVE  Debt' /\ BalanceMoves
<1> DEFINE before == used[m]
           after  == Greater(before - Weight[k], 0)
<1>1. before \in Nat /\ Weight[k] \in Nat /\ balance \in Int /\ lost \in Nat
      /\ open[m][k] \in Nat /\ open[m][k] > 0
  BY Constants DEF Debt, UsageTypes, Release
<1>2. after \in Nat /\ after <= before
  BY <1>1 DEF Greater
<1>3. /\ used' = [used EXCEPT ![m] = after] /\ balance' = balance + Refund(before, after)
      /\ open' = [open EXCEPT ![m][k] = @ - 1]
      /\ month' = month /\ grant' = grant /\ calls' = calls /\ lost' = lost
  BY DEF Release
<1>4. /\ Refund(before, after) = Greater(0, before - Limit) - Greater(0, after - Limit)
      /\ Refund(before, after) \in Nat
  BY <1>1, <1>2, RefundArithmetic
<1>5. balance' \in Int /\ balance' >= -Grace
  BY <1>1, <1>3, <1>4, Constants DEF Debt, DebtWithinGrace
<1>6. open' \in [1 .. Months -> [Kinds -> Nat]]
  BY <1>1, <1>3 DEF Debt, UsageTypes
<1>7. used' \in [1 .. Months -> Nat] /\ used'[m] = after
      /\ \A l \in 1 .. Months : l # m => used'[l] = used[l]
  BY <1>2, <1>3 DEF Debt, UsageTypes
<1>8. Debt'
  BY <1>1, <1>3, <1>5, <1>6, <1>7 DEF Debt, UsageTypes, DebtWithinGrace
<1>9. Greater(0, after - Limit) \in Nat /\ Greater(0, before - Limit) \in Nat
  BY <1>1, <1>2, Constants DEF Greater
<1>10. Credits(Granted') = Credits(Granted) /\ Credits(Granted) \in Nat
  BY <1>3, GrantsCount DEF Granted
<1>11. balance' = balance + (Credits(Granted') - Credits(Granted))
                    - (Greater(0, after - Limit) - Greater(0, before - Limit)) - (lost' - lost)
  BY <1>1, <1>3, <1>4, <1>9, <1>10
<1>12. BalanceMoves
  BY <1>7, <1>11 DEF BalanceMoves, PastLimit
<1> QED BY <1>8, <1>12

(* Nothing is used.                                                        *)
LEMMA UnusedStep ==
  ASSUME Debt, used' = used, NEW more \in Nat, balance' \in Int, lost' \in Nat,
         Credits(Granted') = Credits(Granted) + more,
         balance' = balance + more - (lost' - lost)
  PROVE  BalanceMoves
<1>1. 1 \in 1 .. Months /\ used[1] \in Nat /\ balance \in Int /\ lost \in Nat
  BY Constants DEF Debt, UsageTypes
<1>2. PastLimit(1) \in Nat /\ PastLimit(1)' = PastLimit(1)
  BY <1>1, Constants DEF PastLimit, Greater
<1>3. balance' = balance + (Credits(Granted') - Credits(Granted))
                   - (PastLimit(1)' - PastLimit(1)) - (lost' - lost)
  BY <1>1, <1>2, GrantsCount
<1> QED BY <1>1, <1>3 DEF BalanceMoves

(* A grant of bought credits.                                              *)
LEMMA CreditStep ==
  ASSUME Debt, NEW g \in References, AddCredits(g)
  PROVE  Debt' /\ BalanceMoves
<1>1. Clamped \in Int /\ Clamped <= balance /\ Clamped >= -Grace
  BY ClampedIsLess
<1>2. /\ used' = used /\ month' = month /\ open' = open /\ calls' = calls
      /\ lost' = lost + (balance - Clamped) /\ lost' \in Nat
      /\ balance \in Int /\ lost \in Nat /\ Pack \in Nat
  BY <1>1, Constants DEF AddCredits, Debt, UsageTypes
<1>3. CASE grant[g] = "none"
  <2>1. grant' = [grant EXCEPT ![g] = "valid"] /\ balance' = Clamped + Pack
    BY <1>3 DEF AddCredits
  <2>2. Debt'
    BY <1>1, <1>2, <2>1, Constants DEF Debt, UsageTypes, DebtWithinGrace
  <2>3. Credits(Granted') = Credits(Granted) + Pack
    BY <1>3, <2>1, NewGrant DEF Debt
  <2> QED BY <1>1, <1>2, <2>1, <2>2, <2>3, UnusedStep
<1>4. CASE grant[g] # "none"
  <2>1. grant' = grant /\ balance' = Clamped
    BY <1>1, <1>4 DEF AddCredits
  <2>2. Debt'
    BY <1>1, <1>2, <2>1, Constants DEF Debt, UsageTypes, DebtWithinGrace
  <2>3. Credits(Granted') = Credits(Granted) + 0
    BY <2>1, GrantsCount DEF Granted
  <2> QED BY <1>1, <1>2, <2>1, <2>2, <2>3, UnusedStep
<1> QED BY <1>3, <1>4

(* A read that writes an excessive debt down.                              *)
LEMMA ReadStep ==
  ASSUME Debt, ReadConversationUsage
  PROVE  Debt' /\ BalanceMoves
<1>1. Clamped \in Int /\ Clamped <= balance /\ Clamped >= -Grace
  BY ClampedIsLess
<1>2. Debt'
  BY <1>1, Constants DEF ReadConversationUsage, Debt, UsageTypes, DebtWithinGrace
<1>3. Credits(Granted') = Credits(Granted) + 0
  BY GrantsCount DEF ReadConversationUsage, Granted
<1> QED BY <1>1, <1>2, <1>3, UnusedStep DEF ReadConversationUsage, Debt, UsageTypes

(* A grant that expires is still one that was made; its credit goes at the *)
(* next touch of the balance.                                              *)
LEMMA TimeStep ==
  ASSUME Debt, NextMonth \/ \E g \in References : Expires(g)
  PROVE  Debt' /\ BalanceMoves
<1>1. used' = used /\ balance' = balance /\ lost' = lost /\ open' = open /\ calls' = calls
  BY DEF NextMonth, Expires
<1>2. month' \in 1 .. Months
  BY Constants DEF NextMonth, Expires, Debt, UsageTypes
<1>3. grant' \in [References -> {"none", "valid", "expired"}] /\ Granted' = Granted
  BY DEF NextMonth, Expires, Debt, UsageTypes, Granted
<1>4. Debt'
  BY <1>1, <1>2, <1>3 DEF Debt, UsageTypes, DebtWithinGrace
<1>5. Credits(Granted') = Credits(Granted) + 0
  BY <1>3, GrantsCount
<1> QED BY <1>1, <1>4, <1>5, UnusedStep DEF Debt, UsageTypes

(* Every step keeps the debt within the grace, and moves the balance so.   *)
LEMMA DebtStep ==
  ASSUME Debt, [Next]_vars
  PROVE  Debt' /\ (BalanceMoves \/ UNCHANGED usageVars)
<1>1. CASE UsageStep
  BY <1>1, ReserveStep, ReleaseStep, CreditStep, ReadStep, TimeStep DEF UsageStep
<1>2. CASE UNCHANGED usageVars
  BY <1>2 DEF usageVars, Debt, UsageTypes, DebtWithinGrace
<1> QED BY <1>1, <1>2, UsageOrNot

(* In the beginning there is no debt.                                      *)
LEMMA DebtInit ==
  ASSUME Init
  PROVE  Debt
BY Constants DEF Init, InitUsage, Debt, UsageTypes, DebtWithinGrace

(* The debt stays within the grace in every behaviour.                     *)
LEMMA DebtInvariant == Spec => []Debt
<1>1. Init => Debt
  BY DebtInit
<1>2. Debt /\ [Next]_vars => Debt'
  BY DebtStep
<1> QED BY <1>1, <1>2, PTL DEF Spec

-----------------------------------------------------------------------------

(* However the months and the kinds mix, the account owes no more than its *)
(* grace.                                                                  *)
THEOREM GraceIsKept == Spec => []DebtWithinGrace
<1>1. Debt => DebtWithinGrace
  BY DEF Debt
<1> QED BY <1>1, DebtInvariant, PTL

(* Every charge, release, grant and expiry moves the balance by exactly    *)
(* what it is worth.                                                       *)
THEOREM EveryCreditAccounted == Spec => [][BalanceMoves]_usageVars
<1>1. Debt /\ [Next]_vars => [BalanceMoves]_usageVars
  BY DebtStep
<1> QED BY <1>1, DebtInvariant, PTL DEF Spec

-----------------------------------------------------------------------------
(* The sum over the months.  The library's induction takes an operator as  *)
(* its parameter; a set of counterexamples without a least member does the *)
(* same work.                                                              *)

(* A set of numbers that is not empty has a least member.                  *)
LEMMA Least ==
  ASSUME NEW A \in SUBSET Nat, A # {}
  PROVE  \E n \in A : \A k \in A : n <= k
<1>1. PICK n \in A : \A k \in A : ~ (<<k, n>> \in OpToRel(<, Nat))
  BY WFMin, NatLessThanWellFounded
<1>2. \A k \in A : ~ (k < n)
  BY <1>1 DEF OpToRel
<1> QED BY <1>2

MonthSets == SUBSET (1 .. Months)

(* What month m used past the allowance when the counters read u.          *)
Past(u, m) == Greater(0, u[m] - Limit)

(* g is the sum over each set of months, taken month by month.             *)
Sums(u, g) ==
  g = [s \in MonthSets |->
         IF s = {} THEN 0 ELSE LET m == CHOOSE m \in s : TRUE IN Past(u, m) + g[s \ {m}]]

Total(u) == CHOOSE g : Sums(u, g)

(* The first month taken from a set, and the same sum as an equation for   *)
(* one set.                                                                *)
First(s) == CHOOSE m \in s : TRUE

Entry(u, g, s) == g[s] = IF s = {} THEN 0 ELSE Past(u, First(s)) + g[s \ {First(s)}]

(* A function on the sets of months is the sum when every entry is right.  *)
LEMMA SumByEntries ==
  ASSUME NEW u, NEW g
  PROVE  Sums(u, g) <=> /\ g = [s \in MonthSets |-> g[s]]
                        /\ \A s \in MonthSets : Entry(u, g, s)
BY DEF Sums, Entry, First

(* One month less is a smaller set of months.                              *)
LEMMA OneMonthLess ==
  ASSUME NEW s \in MonthSets
  PROVE  /\ Cardinality(s) \in Nat
         /\ s # {} => /\ First(s) \in s /\ First(s) \in 1 .. Months
                      /\ s \ {First(s)} \in MonthSets
                      /\ Cardinality(s \ {First(s)}) = Cardinality(s) - 1
<1>1. IsFiniteSet(1 .. Months)
  BY Constants, FS_Interval
<1>2. IsFiniteSet(s)
  BY <1>1, FS_Subset DEF MonthSets
<1>3. Cardinality(s) \in Nat
  BY <1>2, FS_CardinalityType
<1>4. s # {} => First(s) \in s
  BY DEF First
<1>5. s # {} => Cardinality(s \ {First(s)}) = Cardinality(s) - 1
  BY <1>2, <1>4, FS_RemoveElement
<1> QED BY <1>3, <1>4, <1>5 DEF MonthSets

(* What a month used past the allowance is a number.                       *)
LEMMA PastIsNat ==
  ASSUME NEW u \in [1 .. Months -> Nat], NEW m \in 1 .. Months
  PROVE  Past(u, m) \in Nat
<1>1. u[m] \in Nat
  OBVIOUS
<1> QED BY <1>1, Constants DEF Past, Greater

(* There is such a sum: were there a size up to which none is, the one up  *)
(* to the size below it would extend to it.                                *)
LEMMA SumExists ==
  ASSUME NEW u \in [1 .. Months -> Nat]
  PROVE  \E g \in [MonthSets -> Int] : Sums(u, g)
<1> DEFINE UpTo(n, g) == \A s \in MonthSets : Cardinality(s) <= n => Entry(u, g, s)
           None == {n \in Nat : ~ \E g \in [MonthSets -> Int] : UpTo(n, g)}
<1>1. ASSUME None # {} PROVE FALSE
  <2>1. PICK n \in None : \A k \in None : n <= k
    BY <1>1, Least
  <2>2. ~ \E g \in [MonthSets -> Int] : UpTo(n, g)
    OBVIOUS
  <2>3. PICK f \in [MonthSets -> Int] : n # 0 => UpTo(n - 1, f)
    <3>1. CASE n = 0
      <4>1. [s \in MonthSets |-> 0] \in [MonthSets -> Int]
        OBVIOUS
      <4> QED BY <3>1, <4>1
    <3>2. CASE n # 0
      <4>1. n - 1 \in Nat /\ n - 1 \notin None
        <5>1. n \in Nat
          OBVIOUS
        <5> HIDE DEF None
        <5> QED BY <2>1, <3>2, <5>1
      <4>2. \E g \in [MonthSets -> Int] : UpTo(n - 1, g)
        BY <4>1
      <4> HIDE DEF UpTo
      <4> QED BY <4>2
    <3> QED BY <3>1, <3>2
  <2> DEFINE h == [s \in MonthSets |->
                    IF s = {} THEN 0 ELSE Past(u, First(s)) + f[s \ {First(s)}]]
  <2>4. ASSUME NEW s \in MonthSets, s # {}
        PROVE  h[s] = Past(u, First(s)) + f[s \ {First(s)}] /\ h[s] \in Int
    <3>1. First(s) \in 1 .. Months /\ s \ {First(s)} \in MonthSets
      BY <2>4, OneMonthLess
    <3>2. Past(u, First(s)) \in Nat
      BY <3>1, PastIsNat
    <3> QED BY <2>4, <3>1, <3>2
  <2>5. h[{}] = 0 /\ {} \in MonthSets
    BY DEF MonthSets
  <2>6. h \in [MonthSets -> Int]
    <3>1. h = [s \in MonthSets |-> h[s]]
      OBVIOUS
    <3> HIDE DEF h
    <3>2. \A s \in MonthSets : s # {} => h[s] \in Int
      BY <2>4
    <3>3. ASSUME NEW s \in MonthSets PROVE h[s] \in Int
      <4>1. CASE s = {}
        BY <2>5, <4>1
      <4> QED BY <3>2, <4>1
    <3> QED BY <3>1, <3>3
  <2>7. ASSUME NEW s \in MonthSets, Cardinality(s) <= n
        PROVE  Entry(u, h, s)
    <3>1. CASE s = {}
      BY <2>5, <3>1 DEF Entry
    <3>2. CASE s # {}
      <4> DEFINE t == s \ {First(s)}
      <4>1. /\ t \in MonthSets /\ Cardinality(t) = Cardinality(s) - 1
            /\ Cardinality(t) \in Nat /\ Cardinality(s) \in Nat
        BY <3>2, OneMonthLess
      <4>2. n # 0 /\ Cardinality(t) <= n - 1
        BY <2>7, <4>1
      <4>3. Entry(u, f, t)
        BY <2>3, <4>1, <4>2
      <4>4. h[t] = f[t]
        <5> HIDE DEF h, t
        <5>1. CASE t = {}
          BY <2>5, <4>3, <5>1 DEF Entry
        <5>2. CASE t # {}
          BY <2>4, <4>1, <4>3, <5>2 DEF Entry
        <5> QED BY <5>1, <5>2
      <4> HIDE DEF h
      <4> QED BY <2>4, <3>2, <4>4 DEF Entry
    <3> QED BY <3>1, <3>2
  <2> HIDE DEF h
  <2> QED BY <2>2, <2>6, <2>7
<1>2. IsFiniteSet(1 .. Months) /\ Cardinality(1 .. Months) \in Nat
  BY Constants, FS_Interval, FS_CardinalityType
<1>3. PICK g \in [MonthSets -> Int] : UpTo(Cardinality(1 .. Months), g)
  <2>1. Cardinality(1 .. Months) \notin None
    BY <1>1
  <2> QED BY <1>2, <2>1
<1>4. \A s \in MonthSets : Cardinality(s) <= Cardinality(1 .. Months)
  BY <1>2, FS_Subset DEF MonthSets
<1> QED BY <1>3, <1>4, SumByEntries

(* There is only one: the smallest set on which two differ would not be    *)
(* the smallest.                                                           *)
LEMMA SumIsUnique ==
  ASSUME NEW u, NEW g, NEW h, Sums(u, g), Sums(u, h)
  PROVE  g = h
<1> DEFINE Differ == {n \in Nat : \E s \in MonthSets : Cardinality(s) = n /\ g[s] # h[s]}
<1>1. ASSUME NEW r \in MonthSets, g[r] # h[r] PROVE FALSE
  <2>1. Cardinality(r) \in Differ
    BY <1>1, OneMonthLess
  <2>2. PICK n \in Differ : \A k \in Differ : n <= k
    BY <2>1, Least
  <2>3. PICK s \in MonthSets : Cardinality(s) = n /\ g[s] # h[s]
    OBVIOUS
  <2>4. Entry(u, g, s) /\ Entry(u, h, s)
    BY SumByEntries
  <2>5. s # {}
    BY <2>3, <2>4 DEF Entry
  <2>6. s \ {First(s)} \in MonthSets /\ Cardinality(s \ {First(s)}) = n - 1 /\ n - 1 \in Nat
    BY <2>3, <2>5, OneMonthLess
  <2>7. g[s \ {First(s)}] = h[s \ {First(s)}]
    BY <2>2, <2>6
  <2> QED BY <2>3, <2>4, <2>5, <2>7 DEF Entry
<1>2. g = [s \in MonthSets |-> g[s]] /\ h = [s \in MonthSets |-> h[s]]
  BY SumByEntries
<1> QED BY <1>1, <1>2

(* Whatever satisfies the equations is the sum.                            *)
LEMMA TotalIs ==
  ASSUME NEW u \in [1 .. Months -> Nat]
  PROVE  /\ Total(u) \in [MonthSets -> Int] /\ Sums(u, Total(u))
         /\ \A h \in [MonthSets -> Int] : Sums(u, h) => Total(u) = h
<1>1. Sums(u, Total(u))
  BY SumExists DEF Total
<1>2. PICK g \in [MonthSets -> Int] : Sums(u, g)
  BY SumExists
<1> QED BY <1>1, <1>2, SumIsUnique

(* With nothing used, nothing is past the allowance.                       *)
LEMMA NothingUsed ==
  Total([m \in 1 .. Months |-> 0])[1 .. Months] = 0
<1> DEFINE u == [m \in 1 .. Months |-> 0]
           h == [s \in MonthSets |-> 0]
<1>1. u \in [1 .. Months -> Nat] /\ h \in [MonthSets -> Int]
  OBVIOUS
<1>2. ASSUME NEW s \in MonthSets PROVE Entry(u, h, s)
  <2>1. CASE s = {}
    BY <2>1 DEF Entry
  <2>2. CASE s # {}
    <3>1. First(s) \in 1 .. Months /\ s \ {First(s)} \in MonthSets
      BY <2>2, OneMonthLess
    <3>2. Past(u, First(s)) = 0
      BY <3>1, Constants DEF Past, Greater
    <3> QED BY <2>2, <3>1, <3>2 DEF Entry
  <2> QED BY <2>1, <2>2
<1>3. h = [s \in MonthSets |-> h[s]]
  OBVIOUS
<1>4. Sums(u, h)
  <2> HIDE DEF u, h
  <2> QED BY <1>2, <1>3, SumByEntries
<1>5. Total(u) = h
  <2> HIDE DEF u, h
  <2> QED BY <1>1, <1>4, TotalIs
<1>6. 1 .. Months \in MonthSets
  BY DEF MonthSets
<1> QED BY <1>5, <1>6

(* One month's counter moves the sum by what that month's use past the     *)
(* allowance moves.                                                        *)
LEMMA OneMonthMoves ==
  ASSUME NEW u \in [1 .. Months -> Nat], NEW v \in [1 .. Months -> Nat],
         NEW k \in 1 .. Months, \A m \in 1 .. Months : m # k => v[m] = u[m]
  PROVE  /\ Total(u)[1 .. Months] \in Int
         /\ Total(v)[1 .. Months] = Total(u)[1 .. Months] + (Past(v, k) - Past(u, k))
<1> DEFINE g == Total(u)
           d == Past(v, k) - Past(u, k)
           h == [s \in MonthSets |-> IF k \in s THEN g[s] + d ELSE g[s]]
<1>1. g \in [MonthSets -> Int] /\ \A s \in MonthSets : Entry(u, g, s)
  BY TotalIs, SumByEntries
<1>2. d \in Int
  BY PastIsNat
<1> HIDE DEF g, d
<1>3. h \in [MonthSets -> Int] /\ h = [s \in MonthSets |-> h[s]]
  BY <1>1, <1>2
<1>4. \A s \in MonthSets : h[s] = IF k \in s THEN g[s] + d ELSE g[s]
  OBVIOUS
<1> HIDE DEF h
<1>5. ASSUME NEW s \in MonthSets PROVE Entry(v, h, s)
  <2>1. CASE s = {}
    BY <1>1, <1>4, <2>1 DEF Entry
  <2>2. CASE s # {}
    <3> DEFINE m == First(s)
               t == s \ {First(s)}
    <3>1. m \in s /\ m \in 1 .. Months /\ t \in MonthSets
      BY <2>2, OneMonthLess
    <3>2. g[s] = Past(u, m) + g[t] /\ g[t] \in Int /\ g[s] \in Int
      BY <1>1, <2>2, <3>1 DEF Entry
    <3>3. Past(u, m) \in Nat /\ Past(v, m) \in Nat
      BY <3>1, PastIsNat
    <3>4. k \in t <=> k \in s /\ k # m
      OBVIOUS
    <3>5. h[s] = Past(v, m) + h[t]
      <4> HIDE DEF m, t
      <4>1. CASE m = k
        <5>1. d = Past(v, m) - Past(u, m)
          BY <4>1 DEF d
        <5> QED BY <1>2, <1>4, <3>1, <3>2, <3>3, <3>4, <4>1, <5>1
      <4>2. CASE m # k
        <5>1. Past(v, m) = Past(u, m)
          BY <3>1, <4>2 DEF Past
        <5> QED BY <1>2, <1>4, <3>1, <3>2, <3>3, <3>4, <4>2, <5>1
      <4> QED BY <4>1, <4>2
    <3> QED BY <2>2, <3>5 DEF Entry
  <2> QED BY <2>1, <2>2
<1>6. Total(v) = h
  BY <1>3, <1>5, SumByEntries, TotalIs
<1>7. 1 .. Months \in MonthSets /\ k \in 1 .. Months
  BY DEF MonthSets
<1> QED BY <1>1, <1>4, <1>6, <1>7 DEF g, d

(* The sum of the model is this one, before a step and after it.           *)
LEMMA SumOverMonths ==
  /\ MapThenSumSet(PastLimit, 1 .. Months) = Total(used)[1 .. Months]
  /\ MapThenSumSet(PastLimit, 1 .. Months)' = Total(used')[1 .. Months]
  /\ \A m \in 1 .. Months : PastLimit(m) = Past(used, m) /\ PastLimit(m)' = Past(used', m)
BY DEF MapThenSumSet, MapThenFoldSet, PastLimit, Total, Sums, Past, MonthSets

(* A step of the account keeps the credits conserved.                      *)
LEMMA ConservedStep ==
  ASSUME Debt, CreditsConserved, [Next]_vars
  PROVE  CreditsConserved'
<1> DEFINE before == Total(used)[1 .. Months]
           after  == Total(used')[1 .. Months]
<1>1. Debt' /\ (BalanceMoves \/ UNCHANGED usageVars)
  BY DebtStep
<1>2. balance = Credits(Granted) - before - lost
  BY SumOverMonths DEF CreditsConserved
<1>3. CASE BalanceMoves
  <2>1. PICK k \in 1 .. Months :
           /\ \A m \in 1 .. Months : m # k => used'[m] = used[m]
           /\ balance' = balance + (Credits(Granted') - Credits(Granted))
                                 - (PastLimit(k)' - PastLimit(k)) - (lost' - lost)
    BY <1>3 DEF BalanceMoves
  <2>2. used \in [1 .. Months -> Nat] /\ used' \in [1 .. Months -> Nat]
        /\ lost \in Nat /\ lost' \in Nat
    BY <1>1 DEF Debt, UsageTypes
  <2>3. before \in Int /\ after = before + (Past(used', k) - Past(used, k))
    BY <2>1, <2>2, OneMonthMoves
  <2>4. PastLimit(k) = Past(used, k) /\ PastLimit(k)' = Past(used', k)
        /\ Past(used, k) \in Nat /\ Past(used', k) \in Nat
    BY <2>2, SumOverMonths, PastIsNat
  <2>5. Credits(Granted) \in Nat /\ Credits(Granted') \in Nat
    BY GrantsCount, PrimedGrantsCount
  <2>6. balance' = Credits(Granted') - after - lost'
    <3>1. balance' = balance + (Credits(Granted') - Credits(Granted))
                             - (Past(used', k) - Past(used, k)) - (lost' - lost)
      BY <2>1, <2>4
    <3>2. balance \in Int /\ balance' \in Int
      BY <1>1 DEF Debt, UsageTypes
    <3> HIDE DEF before, after
    <3>3. balance = Credits(Granted) - before - lost
      BY <1>2
    <3>4. after = before + (Past(used', k) - Past(used, k)) /\ before \in Int
      BY <2>3
    <3>5. Past(used, k) \in Nat /\ Past(used', k) \in Nat
      BY <2>4
    <3>6. Credits(Granted) \in Nat /\ Credits(Granted') \in Nat
      BY <2>5
    <3>7. lost \in Nat /\ lost' \in Nat
      BY <2>2
    <3> QED BY <3>1, <3>2, <3>3, <3>4, <3>5, <3>6, <3>7
  <2> QED BY <2>6, SumOverMonths DEF CreditsConserved
<1>4. CASE UNCHANGED usageVars
  <2>1. before = after /\ Credits(Granted') = Credits(Granted)
        /\ balance' = balance /\ lost' = lost
    BY <1>4 DEF usageVars, Granted
  <2>2. balance' = Credits(Granted') - after - lost'
    <3> HIDE DEF before, after
    <3> QED BY <1>2, <2>1
  <2> QED BY <2>2, SumOverMonths DEF CreditsConserved
<1> QED BY <1>1, <1>3, <1>4

(* Nothing was granted, used or lost to begin with.                        *)
LEMMA ConservedInit ==
  ASSUME Init
  PROVE  CreditsConserved
<1>1. Granted = {} /\ balance = 0 /\ lost = 0 /\ used = [m \in 1 .. Months |-> 0]
  BY DEF Init, InitUsage, Granted
<1>2. Credits(Granted) = 0
  BY <1>1, Constants, FS_EmptySet DEF Credits
<1>3. MapThenSumSet(PastLimit, 1 .. Months) = 0
  BY <1>1, SumOverMonths, NothingUsed
<1> QED BY <1>1, <1>2, <1>3 DEF CreditsConserved

(* Whatever order charges and releases come in, over any number of months, *)
(* the balance is what was granted less what each month used past its      *)
(* allowance and what expired.                                             *)
THEOREM CreditsAreConserved == Spec => []CreditsConserved
<1>1. Init => CreditsConserved
  BY ConservedInit
<1>2. Debt /\ CreditsConserved /\ [Next]_vars => CreditsConserved'
  BY ConservedStep
<1> QED BY <1>1, <1>2, DebtInvariant, PTL DEF Spec

-----------------------------------------------------------------------------
(* What is proved of the top-up alone, held against the account's balance. *)

TopUp == INSTANCE AutoTopUpProofs

(* The account's packs, cap and faults are as the top-up assumes.          *)
LEMMA TopUpAssumed == TopUp!AutoTopUpAssumption
BY PrepaidAssumption DEF TopUp!AutoTopUpAssumption

(* A step of a run, read in either copy of the top-up's module.            *)
LEMMA SameRuns ==
  ASSUME NEW d, T!Sweep(d) \/ T!Fails(d)
  PROVE  TopUp!Sweep(d) \/ TopUp!Fails(d)
<1>1. \A S : T!Cardinality(S) = TopUp!Cardinality(S)
  BY DEF T!Cardinality, TopUp!Cardinality
<1>2. T!ClaimPending(d) => TopUp!ClaimPending(d)
  BY <1>1, Zenon DEF T!ClaimPending, TopUp!ClaimPending, T!Claimable, TopUp!Claimable,
     T!Having, TopUp!Having, T!Packs, TopUp!Packs, T!Pending, TopUp!Pending,
     T!PaidPacks, TopUp!PaidPacks, T!Takes, TopUp!Takes, T!Idle, TopUp!Idle,
     T!At, TopUp!At, T!Stripe, TopUp!Stripe
<1>3. T!ReadSettings(d) \/ T!ReadUsage(d) => TopUp!ReadSettings(d) \/ TopUp!ReadUsage(d)
  BY <1>1, Zenon DEF T!ReadSettings, TopUp!ReadSettings, T!ReadUsage, TopUp!ReadUsage,
     T!Having, TopUp!Having, T!Packs, TopUp!Packs, T!PaidPacks, TopUp!PaidPacks,
     T!Idle, TopUp!Idle, T!At, TopUp!At, T!To, TopUp!To, T!Stripe, TopUp!Stripe
<1>4. ASSUME T!ListExpired(d) \/ T!Lookup(d) \/ T!Void(d) \/ T!GiveUp(d) \/ T!Redrive(d)
      PROVE  \/ TopUp!ListExpired(d) \/ TopUp!Lookup(d) \/ TopUp!Void(d)
             \/ TopUp!GiveUp(d) \/ TopUp!Redrive(d)
  BY <1>4, Zenon DEF T!ListExpired, TopUp!ListExpired, T!Lookup, TopUp!Lookup, T!Void, TopUp!Void,
     T!GiveUp, TopUp!GiveUp, T!Redrive, TopUp!Redrive,
     T!Having, TopUp!Having, T!Packs, TopUp!Packs, T!Pending, TopUp!Pending,
     T!Overdue, TopUp!Overdue, T!Stale, TopUp!Stale, T!Failed, TopUp!Failed,
     T!Voided, TopUp!Voided, T!IsInvoicePaid, TopUp!IsInvoicePaid, T!Idle, TopUp!Idle,
     T!At, TopUp!At, T!To, TopUp!To, T!Done, TopUp!Done, T!Takes, TopUp!Takes,
     T!Stripe, TopUp!Stripe
<1>5. ASSUME \/ T!Create(d) \/ T!Record(d) \/ T!Check(d) \/ T!Charge(d) \/ T!Credit(d)
             \/ T!MarkPaid(d) \/ T!Decline(d) \/ T!Disable(d) \/ T!Fails(d)
      PROVE  \/ TopUp!Create(d) \/ TopUp!Record(d) \/ TopUp!Check(d) \/ TopUp!Charge(d)
             \/ TopUp!Credit(d) \/ TopUp!MarkPaid(d) \/ TopUp!Decline(d) \/ TopUp!Disable(d)
             \/ TopUp!Fails(d)
  BY <1>5, Zenon DEF T!Create, TopUp!Create, T!Record, TopUp!Record, T!Check, TopUp!Check,
     T!Charge, TopUp!Charge, T!Credit, TopUp!Credit, T!MarkPaid, TopUp!MarkPaid,
     T!Decline, TopUp!Decline, T!Disable, TopUp!Disable, T!Fails, TopUp!Fails,
     T!Made, TopUp!Made, T!Settled, TopUp!Settled, T!Refused, TopUp!Refused,
     T!Finalized, TopUp!Finalized, T!PaidSent, TopUp!PaidSent, T!FailedSent, TopUp!FailedSent,
     T!IsInvoicePaid, TopUp!IsInvoicePaid, T!Failed, TopUp!Failed, T!Paid, TopUp!Paid,
     T!Fault, TopUp!Fault, T!Idle, TopUp!Idle, T!At, TopUp!At, T!To, TopUp!To,
     T!Done, TopUp!Done, T!Stripe, TopUp!Stripe
<1>6. T!Works(d) \/ T!ReadUsage(d) \/ T!Credit(d) \/ T!Fails(d)
  BY DEF T!Sweep
<1>7. TopUp!Works(d) \/ TopUp!ReadUsage(d) \/ TopUp!Credit(d) \/ TopUp!Fails(d)
  BY <1>2, <1>3, <1>4, <1>5, <1>6 DEF T!Works, TopUp!Works
<1> QED BY <1>7 DEF TopUp!Sweep

(* So is a step of the webhooks, the clock or a member.                    *)
LEMMA SameEvents ==
  ASSUME NEW n
  PROVE  /\ T!OnPaid(n) => TopUp!OnPaid(n)
         /\ T!OnFailed(n) => TopUp!OnFailed(n)
         /\ T!Befalls(n) => TopUp!Befalls(n)
         /\ T!Toggle => TopUp!Toggle
<1>1. T!OnPaid(n) => TopUp!OnPaid(n)
  BY Zenon DEF T!OnPaid, TopUp!OnPaid, T!PaidArrives, TopUp!PaidArrives,
     T!PaidMarks, TopUp!PaidMarks, T!HookPaid, TopUp!HookPaid, T!Paid, TopUp!Paid
<1>2. T!OnFailed(n) => TopUp!OnFailed(n)
  BY Zenon DEF T!OnFailed, TopUp!OnFailed, T!FailedArrives, TopUp!FailedArrives,
     T!FailedMarks, TopUp!FailedMarks, T!FailedDisables, TopUp!FailedDisables,
     T!HookFailed, TopUp!HookFailed, T!Failed, TopUp!Failed, T!Voided, TopUp!Voided
<1>3. T!Befalls(n) => TopUp!Befalls(n)
  BY Zenon DEF T!Befalls, TopUp!Befalls, T!HookFails, TopUp!HookFails,
     T!CustomerPays, TopUp!CustomerPays, T!Age, TopUp!Age, T!Lapse, TopUp!Lapse,
     T!HookPaid, TopUp!HookPaid, T!HookFailed, TopUp!HookFailed, T!Settled, TopUp!Settled,
     T!PaidSent, TopUp!PaidSent, T!Holders, TopUp!Holders, T!Fault, TopUp!Fault
<1>4. T!Toggle => TopUp!Toggle
  BY DEF T!Toggle, TopUp!Toggle, T!Fault, TopUp!Fault
<1> QED BY <1>1, <1>2, <1>3, <1>4

(* All that is proved of the top-up holds of the account's.                *)
THEOREM TopUpProved == Spec => TopUp!Spec
<1>1. T!Init => TopUp!Init
  BY DEF T!Init, TopUp!Init, T!Packs, TopUp!Packs, T!Row, TopUp!Row, T!Idle, TopUp!Idle
<1>2. [T!Next]_(T!vars) => [TopUp!Next]_(TopUp!vars)
  <2>1. T!Next => TopUp!Next
    BY SameRuns, SameEvents DEF T!Next, TopUp!Next, T!Packs, TopUp!Packs
  <2> QED BY <2>1 DEF T!vars, TopUp!vars
<1> QED BY <1>1, <1>2, ImplementsTopUp, PTL DEF T!Spec, TopUp!Spec

-----------------------------------------------------------------------------

(* The grants behind the balance are the packs the top-up had credited.    *)
GrantsAreCredits == Granted = credited

(* No pack is credited without its grant, by the run or by the webhook, and*)
(* what expires or is used takes no grant back.                            *)
LEMMA GrantStep ==
  ASSUME UsageTypes, GrantsAreCredits, [Next]_vars
  PROVE  GrantsAreCredits'
<1>1. ASSUME NEW g \in References, AddCredits(g)
      PROVE  Granted' = Granted \cup {g}
  BY <1>1 DEF UsageTypes, AddCredits, Granted
<1>2. ASSUME grant' = grant \/ \E g \in References : Expires(g)
      PROVE  Granted' = Granted
  BY <1>2 DEF UsageTypes, Expires, Granted
<1>3. ASSUME NEW d \in Sweeps, Reads(d) PROVE grant' = grant /\ credited' = credited
  BY <1>3 DEF Reads, ReadConversationUsage, T!ReadUsage
<1>4. ASSUME NEW d \in Sweeps, Settles(d)
      PROVE  \E g \in References : AddCredits(g) /\ credited' = credited \cup {g}
  BY <1>4 DEF Settles, T!Credit, AddCredits
<1>5. ASSUME NEW d \in Sweeps, (T!Works(d) \/ T!Fails(d)) /\ UNCHANGED usageVars
      PROVE  grant' = grant /\ credited' = credited
  BY <1>5 DEF usageVars, T!Works, T!ListExpired, T!Lookup, T!Void, T!GiveUp, T!Redrive,
     T!ReadSettings, T!ClaimPending, T!Create, T!Record, T!Check, T!Charge, T!MarkPaid,
     T!Decline, T!Disable, T!Fails
<1>6. ASSUME NEW n \in T!Packs, Hears(n)
      PROVE  \E g \in References : AddCredits(g) /\ credited' = credited \cup {g}
  BY <1>6 DEF Hears, T!PaidArrives, AddCredits
<1>7. ASSUME NEW n \in T!Packs, (T!PaidMarks(n) /\ UNCHANGED usageVars) \/ OnFailed(n) \/ Befalls(n)
      PROVE  grant' = grant /\ credited' = credited
  BY <1>7 DEF usageVars, T!PaidMarks, OnFailed, Befalls, T!OnFailed, T!FailedArrives,
     T!FailedMarks, T!FailedDisables, T!Befalls, T!HookFails, T!CustomerPays, T!Age, T!Lapse
<1>8. ASSUME Use /\ UNCHANGED topUpVars
      PROVE  Granted' = Granted /\ credited' = credited
  BY <1>2, <1>8 DEF topUpVars, Use, Reserve, Release, NextMonth
<1>9. ASSUME (T!Toggle /\ UNCHANGED usageVars) \/ UNCHANGED vars
      PROVE  grant' = grant /\ credited' = credited
  BY <1>9 DEF T!Toggle, usageVars, vars, topUpVars
<1> QED BY <1>1, <1>2, <1>3, <1>4, <1>5, <1>6, <1>7, <1>8, <1>9
    DEF Next, Runs, OnPaid, GrantsAreCredits

(* The balance and the top-up look at one table of grants, which the       *)
(* composition keeps in a variable of each: the two always agree.  It says *)
(* nothing of the code, and lets PacksAreSold speak of either.             *)
LEMMA CreditsAreGrants == Spec => []GrantsAreCredits
<1>1. Init => GrantsAreCredits
  BY DEF Init, InitUsage, T!Init, GrantsAreCredits, Granted
<1>2. Debt /\ GrantsAreCredits /\ [Next]_vars => GrantsAreCredits'
  BY GrantStep DEF Debt
<1> QED BY <1>1, <1>2, DebtInvariant, PTL DEF Spec

(* Every pack is sold to the account as Purchase says: the balance gets    *)
(* the credits of a pack only after it was paid for, once, and neither is  *)
(* undone.  (That it gets them in the end is left to TLC.)                 *)
THEOREM PacksAreSold == Spec => Sale!Spec
<1>1. TopUp!Spec => TopUp!Sale!Spec
  BY TopUpAssumed, TopUp!SellsPacks, PTL DEF TopUp!ImplementsPurchase
<1>2. GrantsAreCredits /\ TopUp!Sale!Init => Sale!Init
  BY DEF GrantsAreCredits, TopUp!Sale!Init, Sale!Init, T!Packs, TopUp!Packs
<1>3. ASSUME GrantsAreCredits, GrantsAreCredits', TopUp!TypeOK, TopUp!TypeOK',
             [TopUp!Sale!Next]_(TopUp!Sale!vars)
      PROVE  [Sale!Next]_(Sale!vars)
  <2> DEFINE charged == {n \in T!Packs : inv[n].status = "paid"}
             granted == Granted \cap T!Packs
  <2>1. credited \subseteq T!Packs /\ credited' \subseteq T!Packs
    BY <1>3 DEF TopUp!TypeOK, TopUp!Packs, T!Packs
  <2>2. granted = credited /\ granted' = credited'
    BY <1>3, <2>1 DEF GrantsAreCredits, T!Packs
  <2>3. CASE UNCHANGED TopUp!Sale!vars
    BY <2>2, <2>3 DEF TopUp!Sale!vars, Sale!vars, TopUp!Packs, T!Packs
  <2>4. ASSUME NEW n \in T!Packs, TopUp!Sale!Charge(n)
        PROVE  Sale!Charge(n)
    BY <2>2, <2>4 DEF TopUp!Sale!Charge, Sale!Charge, TopUp!Packs, T!Packs
  <2>5. ASSUME NEW n \in T!Packs, TopUp!Sale!Grant(n)
        PROVE  Sale!Grant(n)
    BY <2>2, <2>5 DEF TopUp!Sale!Grant, Sale!Grant, TopUp!Packs, T!Packs
  <2> QED BY <1>3, <2>3, <2>4, <2>5 DEF TopUp!Sale!Next, Sale!Next, TopUp!Packs, T!Packs
<1>4. TopUp!Spec => []TopUp!TypeOK
  BY TopUpAssumed, TopUp!TypeCorrect, PTL
<1> QED BY <1>1, <1>2, <1>3, <1>4, TopUpProved, CreditsAreGrants, PTL DEF Sale!Spec, TopUp!Sale!Spec
=============================================================================
