SPECIFICATION StorageSpec
CONSTANTS
    wa = wa  wb = wb  wc = wc  wd = wd  old = old
    NULL = NULL
    Writers <- MCWriters
    Legacy = {old}
    SourceVersion <- MCTwoVersions
    MaxCrashes = 2
    worker = worker  ui = ui  forked = forked  broken = broken
    Starters <- MCStarters
    Package <- MCPackage
    Statements = 2
    a1 = a1  a2 = a2  t1 = t1  k1 = k1
    RolePaths <- MCRolePaths
    Artifacts <- MCArtifacts
    RoleOf <- MCRoleOf
    FileOf <- MCFileOf
    Absent = Absent
    MaxRestores = 2
    d1 = d1  d2 = d2
    Downloads <- MCDownloads
    Bodies <- MCBodies
    MaximumBytes = 2
    MaximumRetries = 1
    MaximumRedirects = 1
    BackoffBase = 1
    BackoffMax = 3
    MinimumInterval = 2
    Missing = Missing
    p1 = p1  p2 = p2
    Publishers <- MCPublishers
    Requests <- MCRequests
    Damaged = Damaged
    Nothing = Nothing
    MaxDamages = 2
CHECK_DEADLOCK FALSE
INVARIANTS PublishedSnapshots SchemaMatchesHistory RowsFindFiles StoredIsLoadable ArtifactsIntact
PROPERTIES FailedRestoreLeavesNothing StoreDownloadsEnd
