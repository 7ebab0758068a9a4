\* Registry operations alone: three packages (a dependency chain and a
\* package outside it), dependency lists of up to two, one connection,
\* nine requests, no ticker backup and no restart.
CONSTANTS
    a = a
    b = b
    c = c
    h1 = h1
    Pkgs <- MCPkgs
    Conns <- MCOneConn
    MaxBackups = 0
    MaxDeps = 2
    MaxLives = 1
    MaxReqs = 9
SYMMETRY PkgSymmetry
SPECIFICATION Spec
INVARIANT DeclaredDepsIndexed
