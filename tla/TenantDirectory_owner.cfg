SPECIFICATION Spec
CONSTANTS
  A = A
  B = B
  s = s
  d = d
  c = c
  f = f
  u1 = u1
  u2 = u2
  c1 = c1
  c2 = c2
  Instances = {A, B}
  KBs = {s, d, c, f}
  Seeds = {s, d, f}
  OurSeeds = {s, d}
  SeedDefault = s
  Updates = {}
  Default <- Asked
  Renames = {}
  Creates = {c1, c2}
  OurCreates = {c1}
  Toggles = {}
  Target <- AllC
  Home <- SecondAtB
  Errors = 0
  Deaths = 0
  SeedPlan = SeedPlan
  NoKB = NoKB
CHECK_DEADLOCK FALSE
PROPERTY OwnerKept
