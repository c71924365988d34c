SPECIFICATION Spec
CONSTANTS
  u1 = u1
  u2 = u2
  b0 = b0
  b1 = b1
  b2 = b2
  Urls = {u1, u2}
  Views = {v1}
  v1 = v1
  Args = {"s0"}
  Buffers = {b0, b1, b2}
  Literal = b0
  Null = Null
  Chars = {"x", "y", "."}
  Nul = "."
  MaxSize = 3
  Text0 <- Letters
  StaleViews = TRUE
INVARIANT CopyHoldsSource
