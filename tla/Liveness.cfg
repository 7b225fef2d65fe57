SPECIFICATION LiveSpec
CONSTANT Clients = {"c1", "c2", "c3"}
INVARIANT TokenNotLost
PROPERTIES
    LockSpec
    WhatIsAwaitedComes
