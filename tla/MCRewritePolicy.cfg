CONSTANTS
    Documents <- MCDocuments
    MaxPermits <- Permits
    NoConfig = NoConfig
    Ipv6 <- MCIpv6
    Ipv4Mapped <- MCMapped
    Decoded <- SegmentDecoded
    Forbidden = {"'"}
    UrlChanged = {"a b", ".", "..", "%2e", "%2e%2e"}
    Chars <- SegmentChars
    MaxBasePathLength <- LongestBasePath
    IpAddresses <- MCIps
    SafeNames <- Safe
    Paths <- AllPaths
    Methods = {"GET", "POST"}
    JsNames <- Js
    TextNames <- Text
    FrontendName <- Frontends

SPECIFICATION Spec

CHECK_DEADLOCK FALSE

INVARIANTS
    TypeOK
    SwitchingOffIsLocal
    SelectedIsForwardedAsIs
    PrefixedOnce
    DecidedByTheDocument
    BasePathIsStable
    ListenersKeepApart
