\* Two identical requests; the acknowledgement of the first one's effect is lost.
CONSTANTS
  K = K
  NoKey = NoKey
  Keys = {K}
  Amounts = {1, 2}
  Inputs <- MCInputs
  MaxRequests = 2
  Backends = {"postgres"}
  Faults = {"lost"}
SPECIFICATION Spec
INVARIANTS
  OncePerKey
