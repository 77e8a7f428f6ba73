CONSTANTS
    Alphabet <- MCAlphabet
    Core = "core"
    Ids <- MCIds
    NamespaceOf <- MCNamespaceOf
    Absent = Absent
    Unparsable = Unparsable
    Broken = Broken
    NoRepository = NoRepository
    ManifestsOf <- MCManifestsOf
    SourcesOf <- MCSourcesOf
    RootLists <- MCRootLists
    MaxEdits = 1
SPECIFICATION Spec
INVARIANTS
    PublishedIsClosed
    OwnerIntroduces
    OneOrder
    SoundSetsResolve
CHECK_DEADLOCK FALSE
