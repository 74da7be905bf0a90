SPECIFICATION Spec
CONSTANTS
  A = A
  B = B
  s = s
  d = d
  c = c
  f = f
  u1 = u1
  u2 = u2
  c1 = c1
  c2 = c2
  Instances = {A, B}
  KBs = {s, d, c, f}
  Seeds = {s, d, f}
  OurSeeds = {s, d}
  SeedDefault = s
  Updates = {u1, u2}
  Default <- Asked
  Renames = {u2}
  Creates = {c1, c2}
  OurCreates = {c1, c2}
  Toggles = {g1}
  Target <- SecondAsksF
  Home <- AllAtA
  Errors = 1
  Deaths = 1
  SeedPlan = SeedPlan
  NoKB = NoKB
CHECK_DEADLOCK FALSE
INVARIANTS
  DefaultOwned
  TenantsConverge
  UpdateStays
  KBsAgree
PROPERTY OwnerKept
