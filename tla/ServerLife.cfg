SPECIFICATION FairLifeSpec
CONSTANTS
    Entries = {e1, e2}
    Clients = {k1, k2, k3}
    e1 = e1
    e2 = e2
    k1 = k1
    k2 = k2
    k3 = k3
    Ops = {"insert", "patch", "promote"}
    DecayTicks = 2
    DbMayFail = TRUE
    MayAbandon = TRUE
    Settings <- AllSettings
    Migrations = 2
    MaxOwed = 1
INVARIANTS
    DegradedTogether
PROPERTIES
    TablesFirst
    EventuallyForgotten
