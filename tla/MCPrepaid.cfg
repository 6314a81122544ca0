\* One run of the top-up with one pack and one fault, over two months with three
\* calls: in units of half a conversation, a plan of one conversation, a grace of
\* one and a pack of one.
SPECIFICATION FairSpec
CONSTANTS
  Months = 2
  MaxCalls = 3
  References = {1}
  Pack = 2
  Limit = 2
  Grace = 2
  Weight <- Weights
  Sweeps = {s1}
  MaxPacks = 1
  Caps = {1}
  MaxFaults = 1
INVARIANTS CreditsConserved DebtWithinGrace
PROPERTIES PendingEnds EveryPaymentIsGranted
CHECK_DEADLOCK FALSE
