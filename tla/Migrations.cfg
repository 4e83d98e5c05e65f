SPECIFICATION LiveSpec
CONSTANTS
    m1 = m1
    m2 = m2
    m3 = m3
    Migrators <- ThreeMigrators
    Files = 3
INVARIANTS
    AppliedOnceInOrder
    DoneMeansMigrated
PROPERTY MigrateEnds
