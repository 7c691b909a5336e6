\* Runs in good order, always started again; a filter that takes a2 for others.
SPECIFICATION FairSpec
CONSTANTS
    a1 = a1  a2 = a2  b1 = b1  map1 = map1  tracked = tracked  mailto = mailto
    Unfetchable = Unfetchable
    Url <- Site
    Link <- Spellings
    Canonical <- CanonicalOf
    Hosts = 2
    HostOf <- HostIn
    MaxHosts = 1
    Depths = 2
    Bit <- Site
    BitsOf <- MixedBits
    SeedLists <- SeedsAB
    LinksOf <- Listed
    Landing <- Redirected
    SitemapUrls = {map1}
    SitemapsOf <- Declared
    DisallowedUrls = {}
    CrawlDelayOf <- NoDelay
    InScope = {a1, a2, map1}
    NotPages = {}
    DropOffsite = FALSE
    MaxDepth = 2
    Workers = 2
    PerHost = 2
    MaxPages = 1
    DefaultDelay = 1
    CacheTTL = 1
    UnavailableTTL = 0
    MaxKills = 0
PROPERTIES
    EachURLOnce
    QueuedIsVisited
    ShutdownEnds
