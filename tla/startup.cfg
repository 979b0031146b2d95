SPECIFICATION Spec
CONSTANTS
    None = None
    Malformed = Malformed
    Ops = {"list", "get", "fa"}
    Ids = {"list", "get", "2fa", "api.list", "api.get", "system.health"}
    Legal <- LegalIds
    Derived <- Derivation
    Documents <- SomeDocuments
    Sections <- SomeSections
    CommandLines <- AllCommandLines
    Extensions <- Directories
    SysIds = {"system.health"}
INVARIANTS
    TypeOK
    RefusedBuildsWriteNothing
    BuildsAreComplete
    MixedIsPrefixed
    AdvertisedIsCallable
    ServesBackend
PROPERTIES
    NothingReplaced
CHECK_DEADLOCK FALSE
