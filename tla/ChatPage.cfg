SPECIFICATION Spec
CONSTANTS
  T1 = T1
  T2 = T2
  Ids <- MCIds
  Tasks = {T1, T2}
  Texts = {"hi", " "}
  Ask <- MCAsk
  Plans <- MCPlans
SYMMETRY Sym
INVARIANTS
  PageInv
  UserIsHeard
  StopOffered
PROPERTIES
  DraftKept
