CONSTANTS
  a = a
  b = b
  c = c
  g = g
  h = h
  k1 = k1
  k2 = k2
  k3 = k3
  k4 = k4
  Reader = {a, b, c}
  Group = {g, h}
  Restriction = {k1, k2, k3, k4}
  Exempt <- MCExempt
SPECIFICATION Spec
INVARIANT CountsAreHonest
PROPERTY MembersOutliveFailures
