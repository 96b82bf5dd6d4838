CONSTANTS
  p1 = p1
  p2 = p2
  p3 = p3
  Players <- MCPlayers
  Dungeons = {d1}
  GroupSize = 2
  MaxProposals = 1
  Rosters <- MCRosters

SPECIFICATION Spec

INVARIANT FormingKeepsProposal

CHECK_DEADLOCK FALSE
SYMMETRY Symmetry
