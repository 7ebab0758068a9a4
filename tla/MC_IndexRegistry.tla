-------------------------- MODULE MC_IndexRegistry --------------------------
EXTENDS IndexRegistry, TLC

CONSTANTS a, b, c, h1

MCPkgs == {a, b, c}
MCOneConn == {h1}
MCTwoPkgs == {a, b}

\* Package names play interchangeable roles in every property.
PkgSymmetry == Permutations(MCPkgs)
TwoPkgSymmetry == Permutations(MCTwoPkgs)
=============================================================================
