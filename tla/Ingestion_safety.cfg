SPECIFICATION Spec
CONSTANTS
  Docs = {d1, d2}
  NoDoc = NoDoc
  Runs = {r1, r2}
  MaxJobs = 2
  MaxRetries = 1
  Events = {"reprocess", "delete", "transient", "parse", "crash", "redeliver"}
  TextDocs = {d1}
  EmptyDocs = {d2}
SYMMETRY RunSymmetry
INVARIANTS TypeOK DeletedStaysEmpty ChunksMatchRow FailedIsDeadLettered FirstRunsExclude JobShowsDocument
PROPERTIES OrphanedOnlyIfGivenUp
CHECK_DEADLOCK FALSE
