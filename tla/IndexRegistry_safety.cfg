\* Registry operations, backups, crashes and restore: three packages (a
\* dependency chain and a package outside it), one dependency per INDEX,
\* one connection, one ticker backup plus the shutdown backup (so two can
\* be in flight), two process lives, five requests.
CONSTANTS
    a = a
    b = b
    c = c
    h1 = h1
    Pkgs <- MCPkgs
    Conns <- MCOneConn
    MaxBackups = 1
    MaxDeps = 1
    MaxLives = 2
    MaxReqs = 5
SYMMETRY PkgSymmetry
SPECIFICATION Spec
INVARIANT RegistryConsistent
