CONSTANTS
    t1 = t1
    t2 = t2
    e1 = e1
    e2 = e2
    e3 = e3
    n1 = n1
    n2 = n2
    Targets <- MC_Targets
    Endpoints <- MC_Endpoints
    Names <- MC_Names
    ShardMap <- MC_ShardMap
    ReloadMaps <- MC_ReloadMaps
    Admits <- MC_Admits
    Hash <- MC_Hash
    QueueCap <- MC_QueueCap
    MaxPdus <- MC_MaxPdus
    MaxReloads <- MC_MaxReloads

SPECIFICATION Spec

INVARIANT UniqueClientPerEndpoint
