SPECIFICATION Spec
CONSTANTS
    None = None
    u4 = u4
    u3 = u3
    u2 = u2
    u1 = u1
    Urls = {u1, u2, u3, u4}
    Titles = {"shop", "blog"}
    Host <- Hosts
    MaxSites = 2
    Configs <- OneConfig
INVARIANTS
    RegistryInv
    NameIsFound
PROPERTIES
    ShadowedRowsAreKept
    StaysProper
