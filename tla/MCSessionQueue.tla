---------------------------- MODULE MCSessionQueue ----------------------------
EXTENDS SessionQueue

CONSTANTS a1, a2, gm

MCAccounts == {a1, a2, gm}
MCPrivileged == {gm}
MCFixedLimit == {}
MCTwoLimits == {1, 2}

\* The ordinary accounts are interchangeable; no liveness is checked.
Symmetry == Permutations({a1, a2})
=============================================================================
