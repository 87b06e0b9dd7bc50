\* Two callers, a guess and an explicit memory, a Store that fails in every way.
CONSTANTS
  FormKey = {interest}
  ExplicitKey = {preference}
  ManualKey = {manual}
  Caller = {c1, c2}
  Failing = {"sync", "search"}
SPECIFICATION Spec
SYMMETRY CallerSymmetry
INVARIANTS
  RecallsTheConfirmed
  NeverUnconfirmed
CONSTRAINT FewRows
