SPECIFICATION Spec
CONSTANTS
  p = p
  q = q
  w = w
  Procs = {p, q}
  Ids = {w}
  IdOf <- MCIdOf
  Dialer <- MCDialer
  Admitted = {p, q}
  Conns = {1, 2, 3, 4, 5, 6}
  None = None
  MaxEvents = 2
PROPERTIES NoTakeover GhostsExpire Reconnects
CHECK_DEADLOCK FALSE
