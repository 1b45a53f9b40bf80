SPECIFICATION Spec
CONSTANTS
  Runs = {r1}
  Scopes = {s}
  ScopeOf <- OneScope
  Clients = {c1,c2}
  Executors = {e1,e2}
  MaxRunners = 2
  LeaseTicks = 1
  MaxCrashes = 1
  NoRun = NoRun
SYMMETRY Symmetry
INVARIANTS
  TypeOK
  ReadyHasItsArtifact
  ReadyHasItsWarnings
  OneHolderPerGeneration
PROPERTIES
  SupersededTaskIsHarmless
  CancelIsFinal
