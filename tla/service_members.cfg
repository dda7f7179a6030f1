SPECIFICATION Spec
CONSTANTS
  Addresses = {a1, a2}
  MaxChanges = 2
SYMMETRY Symmetry
CHECK_DEADLOCK FALSE
INVARIANT MembershipTold
