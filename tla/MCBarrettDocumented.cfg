\* Every modulus the header of the multiplier allows, 0 < q < R.
CONSTANTS
  R = 8
  MaxIssue = 1
  Moduli <- MCDocumentedModuli
SPECIFICATION Spec
INVARIANTS ResultExact
