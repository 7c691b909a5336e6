\* One kill anywhere.
SPECIFICATION Spec
CONSTANTS
    a1 = a1  a2 = a2  b1 = b1  map1 = map1  tracked = tracked  mailto = mailto
    Unfetchable = Unfetchable
    Url <- Site
    Link <- Spellings
    Canonical <- CanonicalOf
    Hosts = 2
    HostOf <- HostIn
    MaxHosts = 1
    Depths = 1
    Bit <- Site
    BitsOf <- ExactBits
    SeedLists <- SeedsAB
    LinksOf <- Listed
    Landing <- Direct
    SitemapUrls = {map1}
    SitemapsOf <- Undeclared
    DisallowedUrls = {}
    CrawlDelayOf <- NoDelay
    InScope <- Site
    NotPages = {}
    DropOffsite = FALSE
    MaxDepth = 1
    Workers = 2
    PerHost = 2
    MaxPages = 1
    DefaultDelay = 1
    CacheTTL = 0
    UnavailableTTL = 0
    MaxKills = 1
INVARIANTS
    TypeOK
    InFlightIsExact
    FrontierIsExact
    EndsComplete
