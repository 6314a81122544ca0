\* Two sweeps, two packs against a cap of one or of two, one fault.
SPECIFICATION Spec
CONSTANTS
  Sweeps = {s1, s2}
  MaxPacks = 2
  Caps = {1, 2}
  MaxFaults = 1
INVARIANTS TypeOK CreditsMatchPayments OneInvoicePerPack CapHolds PaidIsGrantedOrTold
PROPERTIES ClaimSeesEveryPack ImplementsPurchase
SYMMETRY Symmetry
CHECK_DEADLOCK FALSE
