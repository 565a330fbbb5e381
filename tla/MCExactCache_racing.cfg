CONSTANTS
    h1 = h1
    h2 = h2
    h3 = h3
    None = None
    Hashes = {h1, h2, h3}
    Responses = {r1}
    Ttls = {0}
    DefaultTtl = 0
    Clients = {c1, c2}
    MaxEntries = 1
    EvictAttempts = 2
    Shards = 2
    ShardOf <- TwoShards
    MaxHits = 0
SPECIFICATION FairSpec
INVARIANT BoundedOvershoot
PROPERTY ImplementsContract
PROPERTY CallsReturn
