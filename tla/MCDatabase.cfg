CONSTANTS
  Instances = {"btree", "recno", "hash", "mpool"}
  Flaws = {}
SPECIFICATION MCSpec
INVARIANTS  RecordsAreFound
 
CHECK_DEADLOCK FALSE
