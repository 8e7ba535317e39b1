SPECIFICATION Spec
CONSTANTS
  Accounts = {a, b, c}
  Approvers = {a}
  MaxUint = 3
  MaxGrants = 3
INVARIANTS Conservation CreditFits TakenWithinGrants
