---------------------------- MODULE UsageLimits ----------------------------
(***************************************************************************)
(* One account's allowance of conversations and its prepaid credits:       *)
(* reservations and their releases in any order and in either month,       *)
(* credit grants and their expiry, and the debt a customer conversation    *)
(* may run up.                                                             *)
(*                                                                         *)
(*   ee/packages/backend-module/src/usageLimits/                           *)
(*     usageLimitService, conversationUsageLevel                           *)
(*                                                                         *)
(* Each transaction locks the month's counter and then the credits to its  *)
(* end, so each is a step.  All amounts are tenths of a conversation.      *)
(***************************************************************************)
EXTENDS Integers, FiniteSets, FiniteSetsExt

CONSTANTS
  Months,      \* bound: the months that pass
  MaxCalls,    \* bound: reservations made
  References,  \* bound: references credits are granted under
  Pack,        \* what a grant adds
  Limit,       \* the plan's monthly allowance
  Grace,       \* what conversations may borrow
  Weight       \* what a call of each kind costs

Kinds == DOMAIN Weight

ASSUME UsageLimitsAssumption ==
  /\ Months \in Nat \ {0} /\ MaxCalls \in Nat
  /\ {Pack, Limit, Grace} \subseteq Nat /\ IsFiniteSet(References)
  /\ "conversation" \in Kinds /\ \A k \in Kinds : Weight[k] \in Nat \ {0}

VARIABLES
  month,    \* the current period
  used,     \* ee_usage_limit_unit_counters
  balance,  \* ee_usage_limit_credits; below zero it is debt
  grant,    \* ee_usage_limit_credit_grants
  open,     \* reservations not released, by month and kind (commit does nothing)
  calls,    \* reservations made so far
  lost      \* credits an expiry took

usageVars == <<month, used, balance, grant, open, calls, lost>>

-----------------------------------------------------------------------------

Greater(a, b) == IF a > b THEN a ELSE b
Lesser(a, b)  == IF a < b THEN a ELSE b

Granted  == {g \in References : grant[g] # "none"}
Valid    == {g \in References : grant[g] = "valid"}
Credits(G) == Pack * Cardinality(G)

InitUsage ==
  /\ month = 1
  /\ used = [m \in 1 .. Months |-> 0]
  /\ balance = 0
  /\ grant = [g \in References |-> "none"]
  /\ open = [m \in 1 .. Months |-> [k \in Kinds |-> 0]]
  /\ calls = 0 /\ lost = 0

-----------------------------------------------------------------------------
(* The arithmetic.                                                         *)

(* clampCreditBalance: no more credit than the grants that are still valid.*)
Clamped == Lesser(balance, Credits(Valid))

(* FAULT: a charge is counted from the limit up, paid for before or not.   *)
OvershootFromLimit(before, after) == after - Limit

(* The part of a charge the plan does not cover.                           *)
Overshoot(before, after) == after - Greater(Limit, before)

(* FAULT: what is already borrowed does not count against the grace.       *)
CeilingForgetsDebt(kind, credit) ==
  Greater(credit, 0) + IF kind = "conversation" THEN Grace ELSE 0

(* What a charge may overshoot by: only a conversation borrows, and debt   *)
(* beyond the grace takes nothing from the allowance.                      *)
Ceiling(kind, credit) ==
  Greater(credit, 0) +
  IF kind = "conversation" THEN Greater(Grace - Greater(-credit, 0), 0) ELSE 0

(* FAULT: all that is past the limit is given back.                        *)
RefundAll(before, after) == Greater(0, before - Limit)

Refund(before, after) == Greater(0, before - Greater(Limit, after))

(* conversationUsageLevel: "limit_reached" or "grace_exhausted".           *)
PaidRemaining(spent, credit) == Greater(spent, Limit) + Greater(credit, 0) - spent

LimitReached(spent, credit) ==
  \/ PaidRemaining(spent, credit) <= 0
  \/ PaidRemaining(spent, credit) + Greater(Grace - Greater(-credit, 0), 0) < Weight["conversation"]

-----------------------------------------------------------------------------
(* reserveTenths; a refused charge rolls the clamp back with the rest.     *)

Reserve(kind) ==
  LET after == used[month] + Weight[kind]
      over  == Overshoot(used[month], after)
  IN
  /\ calls < MaxCalls /\ calls' = calls + 1
  /\ over <= Ceiling(kind, Clamped)
  /\ used' = [used EXCEPT ![month] = after]
  /\ balance' = Clamped - Greater(over, 0)
  /\ lost' = lost + (balance - Clamped)
  /\ open' = [open EXCEPT ![month][kind] = @ + 1]
  /\ UNCHANGED <<month, grant>>

(* The refund is worked out from what the month's counter reads by now,    *)
(* whichever calls were charged or released since.                         *)
Release(m, kind) ==
  LET after == Greater(used[m] - Weight[kind], 0) IN
  /\ open[m][kind] > 0
  /\ open' = [open EXCEPT ![m][kind] = @ - 1]
  /\ used' = [used EXCEPT ![m] = after]
  /\ balance' = balance + Refund(used[m], after)
  /\ UNCHANGED <<month, grant, calls, lost>>

(* addCredits: once per reference.                                         *)
AddCredits(g) ==
  /\ g \in References
  /\ grant' = IF grant[g] = "none" THEN [grant EXCEPT ![g] = "valid"] ELSE grant
  /\ balance' = Clamped + IF grant[g] = "none" THEN Pack ELSE 0
  /\ lost' = lost + (balance - Clamped)
  /\ UNCHANGED <<month, used, open, calls>>

(* readConversationUsage: a read writes the clamped balance back.          *)
ReadConversationUsage ==
  /\ balance' = Clamped
  /\ lost' = lost + (balance - Clamped)
  /\ UNCHANGED <<month, used, grant, open, calls>>

(* A grant reaches its twelve months.                                      *)
Expires(g) ==
  /\ grant[g] = "valid"
  /\ grant' = [grant EXCEPT ![g] = "expired"]
  /\ UNCHANGED <<month, used, balance, open, calls, lost>>

NextMonth ==
  /\ month < Months /\ month' = month + 1
  /\ UNCHANGED <<used, balance, grant, open, calls, lost>>

(* What happens to an account on its own; credits come from elsewhere.     *)
Use ==
  \/ \E k \in Kinds : Reserve(k)
  \/ \E m \in 1 .. Months, k \in Kinds : Release(m, k)
  \/ \E g \in References : Expires(g)
  \/ NextMonth

-----------------------------------------------------------------------------
(* Properties.                                                             *)

UsageTypes ==
  /\ month \in 1 .. Months
  /\ used \in [1 .. Months -> Nat]
  /\ balance \in Int
  /\ grant \in [References -> {"none", "valid", "expired"}]
  /\ open \in [1 .. Months -> [Kinds -> Nat]]
  /\ calls \in Nat /\ lost \in Nat

(* What each month used past the allowance.                                *)
PastLimit(m) == Greater(0, used[m] - Limit)

(* Whatever order charges and releases come in, the balance is what was    *)
(* granted less what the months used past their allowance and what expired.*)
CreditsConserved ==
  balance = Credits(Granted) - MapThenSumSet(PastLimit, 1 .. Months) - lost

(* What every step does to the balance: one month's use past the allowance *)
(* moves it, and a new grant or an expiry, each by its own amount.         *)
BalanceMoves ==
  \E m \in 1 .. Months :
    /\ \A k \in 1 .. Months : k # m => used'[k] = used[k]
    /\ balance' = balance + (Credits(Granted') - Credits(Granted))
                          - (PastLimit(m)' - PastLimit(m)) - (lost' - lost)

(* However the months and the kinds mix, an account never owes more than   *)
(* its grace.                                                              *)
DebtWithinGrace == balance >= -Grace
=============================================================================
