SPECIFICATION Spec
CONSTANTS
  Threads = {t1, t2}
INVARIANT StubHasTrampoline
CHECK_DEADLOCK FALSE
