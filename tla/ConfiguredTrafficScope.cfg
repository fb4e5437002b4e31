CONSTANTS
    Seed <- MCSeed
    Clients = {"app"}
    Bundles <- MCBundles
    Mappings <- MCMappings
    VerdictProviders <- MCVerdictProviders
    Limits <- MCLimits
    Overrides <- MCOverrides
    ActivationKeys <- MCActivationKeys
    Models = {"small", "large"}
    Matches <- MCMatches
    Verdicts <- MCVerdicts
    TextLengths <- MCTextLengths
    Runes <- MCRunes
    MaxEdits = 2
SPECIFICATION Spec
INVARIANT
    ScopeKept
\* Control requests are bounded by MaxEdits, and no exchange is served under a
\* configuration that does not compile.
CHECK_DEADLOCK FALSE
