SPECIFICATION Spec
CONSTANTS
  founder = founder
  agent = agent
  t1 = t1
  Requests = {q1, q2}
  Actors = {founder, agent}
  Founder = founder
  Tokens = {t1}
  NoToken = NoToken
  NoFile = NoFile
  Callers <- MCCallers
  LegacyFiles <- MCLegacy
  AuthThreshold = 2
  ProbeThreshold = 1
  MaxFailures = 2
  Throttle = 1
  AuthWindow = 2
  ProbeWindow = 3
SYMMETRY Sym
INVARIANTS
    
    
    GuardIsFair
