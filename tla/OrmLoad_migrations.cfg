\* Three databases of four tables, chains of up to three of them, two workers and
\* one dropped table.
SPECIFICATION OrmSpec
CONSTANTS
    Tables <- MCTables
    Schemas <- MCSchemas
    Catalog <- MCCatalog
    Workers = {w1, w2}
    MaxDepth = 2
    MaxDrops = 1
INVARIANTS
    ChainsRight
    ErrorsExplained
PROPERTIES
    MainEnds
    ComesToWork
CHECK_DEADLOCK FALSE
