\* Two calls at a time, a Store that never fails.
CONSTANTS
  FormKey = {}
  ExplicitKey = {preference}
  ManualKey = {}
  Caller = {c1, c2}
  Failing = {}
SPECIFICATION Spec
PROPERTIES
  NoSilentRevival
