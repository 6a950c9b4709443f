SPECIFICATION Spec
CONSTANTS
  a = a
  b = b
  c = c
  d = d
  u = u
  t0 = t0
  t1 = t1
  t2 = t2
  Thread = {t0, t1, t2}
  Startup = t0
  NoThread = NoThread
  Call = {a, b, c, d, u}
  Together <- MCTogether
  Op <- MCOp
  Root <- MCRoot
  Host = "host"
  Mounted = {"mount"}
  Umask = 18
INVARIANTS
  TypeOK
  Isolated
  WorksInRoot
  UmaskKept
PROPERTIES
  Returns
