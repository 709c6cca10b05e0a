SPECIFICATION Spec
CHECK_DEADLOCK FALSE
CONSTANTS
  thread1 = thread1
  reader1 = reader1
  Generations = {0, 1, 2}
  Manifests = {m1, m2}
  Checkpoints = {c1, c2}
  MaxRecords = 1
  Threads = {thread1, thread2}
  Limit = 2
  Natives = {"n1", "n2", "n3", "n4"}
  Indexes = {"i1", "i2", "i3"}
  FileOf <- MCFileOf
  Attempts = {"a1", "a2", "a3"}
  Outputs <- MCOutputs
  Inputs <- MCInputs
  ScopeOf <- MCScopeOf
  NoScope = ""
  SaveNames = {"x"}
  Readers = {"r", "q"}
  MergeKeys <- MCMergeKeys
  MergedAs <- MCMergedAs
  PageGroup = 2
  Peers = {"a"}
  WorldKeys = {1, 2, 3}
  WorldValues = {1, 2}
  Partition <- MCPartition
  KeyHash <- MCKeyHash
  ValueHash <- MCValueHash
  Modulus = 4
  Base <- MCBase
  OtherBase <- MCOtherBase
  BatchIds = {"x", "y"}
  RegistryOwners <- MCRegistryOwners
  IdOf <- MCIdOf
  ChildrenOf <- MCChildrenOf
  RootLists <- MCRootLists
  Nobody = nobody
  Transactions = {thread1, thread2}
  Frozen = {reader1}
  TxnKeys = {1, 2, 3}
  KindOf <- MCKindOf
  TxnStates = {0, 1, 2}
  Missing = 0
  Arrows <- MCArrows
  TxnEdits <- MCEdits
  Apply <- MCApply
  Compose <- MCCompose
  TxnBases <- MCTxnBases
  Nothing = nothing
  MaxEdits = 2
INVARIANTS
  MapsStayApart
  RootSurvivesDoubt
  CountsAreExact
  ChargesAreExact
  RoundsConverge
  BinaryRunsAreExact
  TypedWorldsAreExact
  ObjectsAreGrounded
  TransactionsKeepTheirWorld
PROPERTIES
  AdmissionReturns
