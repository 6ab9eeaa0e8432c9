SPECIFICATION FilesSpec
CONSTANTS
    MaxBackups = 1
    MaxGenerations = 2
    l1 = l1
    l2 = l2
    Loaders <- MCLoaders
    Absent = Absent
    Nobody = Nobody
SYMMETRY LoaderSymmetry
INVARIANTS
    
    LockedInSession
