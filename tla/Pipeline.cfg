\* Three files; one file may change twice while the context is built.
CONSTANTS
    Files = {1, 2, 3}
    inner = inner
    outer = outer
    inside = inside
    away = away
    up = up
    Links = {inner, outer}
    Aliases = {inside, away}
    Target <- MCTarget
    Outside = Outside
    Traversing = {up}
    GitDiff = GitDiff
    FileStates <- MCFileStates
    Repos <- MCRepos
    Diffs <- MCDiffs
    MaxFileBytes = 6
    MaxEdits = 2
    None = None
    Skills <- MCSkills
    Workflows <- MCWorkflows
    Domains <- MCDomains
    Capabilities <- MCCapabilities
    NoName = NoName
    RawRequests <- MCRawRequests
    Manifests <- MCManifests
    Reports <- MCReports
SPECIFICATION Spec
CHECK_DEADLOCK FALSE
INVARIANTS
    WithinBudget
    MandatoryKept
    Isolated
    Accountable
    Answerable
PROPERTY PriorityRespected
