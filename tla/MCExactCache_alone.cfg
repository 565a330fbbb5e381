CONSTANTS
    h1 = h1
    h2 = h2
    h3 = h3
    None = None
    Hashes = {h1, h2, h3}
    Responses = {r1}
    Ttls = {1}
    DefaultTtl = 1
    Clients = {c1}
    MaxEntries = 2
    EvictAttempts = 5
    Shards = 2
    ShardOf <- TwoShards
    MaxHits = 2
SPECIFICATION Spec
PROPERTIES EvictsLeastUsed
