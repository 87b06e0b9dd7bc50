CONSTANTS
  Tab = {i1, i2}
  User = {u1, u2}
  MaxLogins = 2
  MaxCsrf = 3
  MaxCalls = 2
  NoUser = NoUser
SYMMETRY AccountsSymmetry
SPECIFICATION Spec
INVARIANTS
  ActsAsShown
  RefusedOnlyIfBehind
