SPECIFICATION Spec
CONSTANTS
  h1 = h1 h2 = h2 h3 = h3 q1 = q1 q2 = q2 g1 = g1 g2 = g2
  u1 = u1 u2 = u2
  NoUser = NoUser NoPassword = NoPassword
  Users = {u1}
  Passwords = {q1, g1, g2}
  Chosen = {q1}
  Handlers = {h1, h2}
  Operations = {"write", "delete", "provision"}
  Exclusive = {"write", "delete"}
  Faults = {}
INVARIANTS ConfigNeverMissing
