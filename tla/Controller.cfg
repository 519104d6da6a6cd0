CONSTANTS
  NumSlots = 2
  Envs = {e1, e2, e3}
  NoEnv = NoEnv
  Reqs <- MCReqs
  North = "north"
  Path <- MCPath
  Python <- MCPython
  Params <- MCParams
  NoParam = "none"
  NoLoad = NoLoad
SPECIFICATION Spec
SYMMETRY MCSymmetry
INVARIANTS SlotsApartAreSafe StoreMatches  AllUnloaded
