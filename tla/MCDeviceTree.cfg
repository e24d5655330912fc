SPECIFICATION Spec
CONSTANTS
    sda = sda  sda1 = sda1  sda2 = sda2  sdb = sdb  sdb1 = sdb1  md0 = md0  crypt0 = crypt0
    Names = {sda, sda1, sda2, sdb, sdb1, md0, crypt0}
    NoName = NoName
    Type <- Types
    Disks <- TwoDisks
    PartsOf <- Partitions
    Small = {sda2}
    RootDevice <- MayBeRoot
INVARIANTS
    TypeOK
    FormatsOnlyFree
    ListedIsResolved
    ScannedUnderItsUUID
    FiltersSelect
PROPERTIES
    MountsOnlyManaged
CHECK_DEADLOCK FALSE
