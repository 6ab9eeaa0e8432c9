SPECIFICATION LifecycleSpec
CONSTANTS
    Accounts = {alice, bob}
    MaxKeys = 2
    Loaders = {first, second}
    Absent = Absent
    NoAccount = NoAccount
    Nobody = Nobody
SYMMETRY Interchangeable
CONSTRAINT Followed

    
PROPERTIES
    
    KeysKept
