SPECIFICATION Spec
CHECK_DEADLOCK FALSE
INVARIANTS
  CodesAreUnambiguous
  StreamDenotesTheRecords
  SortsReadBack
  MergeIsExact
  QueriesFindEveryMatch
  PipelinesBuildTheIndex
  SectionsAreExact
