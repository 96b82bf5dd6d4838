CONSTANTS
  p1 = p1
  p2 = p2
  p3 = p3
  Players <- MCPlayers
  Dungeons = {d1, d2}
  GroupSize = 2
  MaxProposals = 1
  Rosters <- MCRosters

SPECIFICATION Spec

INVARIANTS
  TypeOK
  PlacesExact

PROPERTIES
  OnlyRefusersLose
  NoSecondGroup

CHECK_DEADLOCK FALSE
SYMMETRY Symmetry
