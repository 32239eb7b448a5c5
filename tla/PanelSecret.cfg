SPECIFICATION Spec
CONSTANTS
  Handlers = {h1}
  Browsers = {b1}
  OAuthStates = {s1}
  Actors = {a1}
  Secrets = {k1, k2}
  Configs <- OnePanel
  max = 1
  Skew = 1
  MaxTime = 2
  MaxStates = 2
INVARIANTS
  ExpireNaturally
