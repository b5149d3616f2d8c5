SPECIFICATION Spec
CONSTANTS
  Node = {a, b, t}
  Op = {o1, o2}
  Device = {d1, d2, d3}
  NoDev = NoDev
  NoPeer = NoPeer
  a = a
  b = b
  t = t
  o1 = o1
  o2 = o2
  d1 = d1
  d2 = d2
  d3 = d3
  Configs <- MCSimple
INVARIANT CheckHolds
CHECK_DEADLOCK FALSE
