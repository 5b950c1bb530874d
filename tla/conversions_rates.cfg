\* The rates alone are looked at; the other inputs satisfy the invariant trivially.
SPECIFICATION Spec
INVARIANTS
  ClosestRate
