\* Two threads with two handles each, one of them malformed; nothing is bounded.
SPECIFICATION Spec
CONSTANTS
  t1 = t1
  t2 = t2
  h1 = h1
  h2 = h2
  Threads = {t1, t2}
  Handles = {h1, h2}
  Malformed <- MCMalformed
INVARIANTS
  TypeOK
  ViewAgrees
  NoneLeftEnabled
