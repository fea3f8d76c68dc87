\* Two objects; four events let each of them fall behind by two; one commit to
\* another table moves the data version without a row.
CONSTANTS
  Objects = {o1, o2}
  MaxRows = 4
  MaxOther = 1

SPECIFICATION SnapshotSpec
INVARIANTS
  CacheIsBeginning
PROPERTIES
  ReadsAreFresh
CHECK_DEADLOCK FALSE
