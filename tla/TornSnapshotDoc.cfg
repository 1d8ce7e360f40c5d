SPECIFICATION FairSpec
CONSTANTS
  Docs = {d1, d2}
  d1 = d1
  d2 = d2
  Unified = Unified
  Extra = Extra
  Absent = Absent
  Torn = Torn
  Garbled = Garbled
  NoCatalogue = NoCatalogue
  Catalogues <- JustUnified
  FreshCheckout = FALSE
  MaxChanges = 0
  MaxInterrupts = 1
  MaxPulls = 0
PROPERTIES
  Recovers
