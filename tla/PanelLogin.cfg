SPECIFICATION Spec
CONSTANTS
  Handlers = {h1, h2}
  Browsers = {b1, b2}
  OAuthStates = {s1, s2}
  Actors = {a1}
  Secrets = {k1}
  Configs <- PanelConfigs
  max = 1
  Skew = 1
  MaxTime = 2
  MaxStates = 3
SYMMETRY MCSymmetry
INVARIANTS
  TypeOK
  StoreBounded
  SingleUse
  OneConfiguration
  OwnLogin
  SessionAge
