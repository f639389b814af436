SPECIFICATION FairSpec
CONSTANTS
  Docs = {d1}
  NoDoc = NoDoc
  Runs = {r1, r2}
  MaxJobs = 1
  MaxRetries = 1
  Events = {"transient"}
  TextDocs = {d1}
  EmptyDocs = {}
PROPERTIES ExhaustionDeadLetters
CHECK_DEADLOCK FALSE
