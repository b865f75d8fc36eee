CONSTANTS
    l1 = l1
    l2 = l2
    here = here
    there = there
    Launchers = {l1, l2}
    Checkouts = {here, there}
    WithXvfb = {l1}
    User = User
    Nobody = Nobody
    Ports = {3000, 3100}
    Setups <- MCSetups
    NumPgPorts = 2
    NumDisplays = 2
    UsedDisplays = {1}
    Rounds = 1
    MaxSignals = 1
SPECIFICATION Spec
INVARIANT TypeOK
INVARIANT NothingLeft
PROPERTY NewcomerHarmless
PROPERTY LauncherEnds
CHECK_DEADLOCK FALSE
