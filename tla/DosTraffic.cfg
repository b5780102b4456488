CONSTANTS
  Kinds <- TwoKinds
  Rate <- SmallRate
  Burst <- SmallBurst
  Copies = 2
  Window = 2
  HitCount = 4
  ListSize = 5
  MaxElapsed = 3
SPECIFICATION BoundedSpec
INVARIANTS TypeOK FloodBounded SshPacketsLimited
