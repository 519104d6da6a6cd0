CONSTANTS
  Owners = {p1, p2}
  NumIds = 2
  CleansUp = TRUE
  Ctxs = {c1, c2}
  NoCtx = NoCtx
SPECIFICATION Spec
INVARIANT RouterUsesLiveApp
