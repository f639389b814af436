SPECIFICATION FairSpec
CONSTANTS
  Docs = {d1, d2, d3}
  NoDoc = NoDoc
  Runs = {r1, r2}
  MaxJobs = 1
  MaxRetries = 1
  Events = {"transient", "parse", "tags", "delete", "broker"}
  TextDocs = {d1}
  EmptyDocs = {d3}
INVARIANTS CompletedIsIndexed
PROPERTIES RefinesLifecycle
CHECK_DEADLOCK FALSE
