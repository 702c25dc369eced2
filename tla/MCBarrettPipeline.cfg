\* R = 8 gives the moduli 5..7, every pair of residues, and two products with
\* any gap between them and independent moduli.
CONSTANTS
  R = 8
  MaxIssue = 2
  Moduli <- MCAcceptedModuli
SPECIFICATION Spec
INVARIANTS ResultExact LatencyFixed SingleSubtraction
