\* One visit per host at a time.
SPECIFICATION PoliteSpec
CONSTANTS
    a1 = a1  a2 = a2  b1 = b1  map1 = map1  tracked = tracked  mailto = mailto
    Unfetchable = Unfetchable
    Url <- Site
    Link <- Spellings
    Canonical <- CanonicalOf
    Hosts = 2
    HostOf <- HostIn
    MaxHosts = 1
    Depths = 2
    Bit <- Site
    BitsOf <- ExactBits
    SeedLists <- SeedsA
    LinksOf <- Listed
    Landing <- Direct
    SitemapUrls = {map1}
    SitemapsOf <- Declared
    DisallowedUrls = {}
    CrawlDelayOf <- SlowFirst
    InScope <- Site
    NotPages = {}
    DropOffsite = FALSE
    MaxDepth = 1
    Workers = 2
    PerHost = 1
    MaxPages = 0
    DefaultDelay = 1
    CacheTTL = 3
    UnavailableTTL = 0
    MaxKills = 0
PROPERTIES
    GapIsKept
    WindowIsNeverCut
    FileOutlivesOutage
