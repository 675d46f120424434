CONSTANTS
  Resolvers = {u1, u2, ours}
  Ours = ours
  None = None
  Faults = {"disk", "stop", "setDns", "probe", "start"}
SPECIFICATION Spec
INVARIANTS ResolversRecoverable CleanMeansGivenBack
PROPERTY HealsOnlyCaptures
