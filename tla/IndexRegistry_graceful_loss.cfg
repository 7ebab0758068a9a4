\* Backups, crashes and restore: two packages, one dependency per INDEX,
\* two ticker backups plus the shutdown backup (so two can be in flight),
\* two process lives, six requests.
CONSTANTS
    a = a
    b = b
    c = c
    h1 = h1
    Pkgs <- MCTwoPkgs
    Conns <- MCOneConn
    MaxBackups = 2
    MaxDeps = 1
    MaxLives = 2
    MaxReqs = 6
SYMMETRY TwoPkgSymmetry
SPECIFICATION Spec
PROPERTY GracefulRestartKeepsRegistry
