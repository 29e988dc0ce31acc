SPECIFICATION FairSpec
CONSTANTS
  h1 = h1 h2 = h2 h3 = h3 q1 = q1 q2 = q2 g1 = g1 g2 = g2
  u1 = u1 u2 = u2
  NoUser = NoUser NoPassword = NoPassword
  Users = {u1}
  Passwords = {q1, q2, g1, g2}
  Chosen = {q1, q2}
  Handlers = {h1, h2, h3}
  Operations = {"write", "delete", "rotate", "invalidate", "request", "provision"}
  Exclusive = {"rotate"}
  Faults = {"abort", "lost", "crash", "unrestored"}
INVARIANTS TypeOK ClientFresh
PROPERTIES LockedOutOnlyByFailure StaleClientDropped
