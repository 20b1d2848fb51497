SPECIFICATION Spec
CONSTANTS
  kernel = kernel
  app = app
  n1 = n1
  none = none
  Ids <- MCIds
  Bundles <- MCBundles
  Kernel = kernel
  Kinds <- MCKinds
  BUNDLE = 1
  THING_CREATED = 2
  PUBLIC = 9
  InputKinds = {2}
  Keys <- MCKeys
  Values <- MCValues
  FieldMaps <- MCFieldMaps
  LabelSets <- MCLabelSets
  LinkRequests <- MCLinkRequests
  Capabilities = {"CAN_READ", "CAN_DMA"}
  Patterns <- MCPatterns
  DeriveUuid <- MCDeriveUuid
  NoId = none
  NoKind = none
  NoWatch = none
  MAX_WATCH_QUEUE = 2
  JOURNAL_CAPACITY = 2
  MaxRevision = 3
  MaxWatches = 1
INVARIANTS
  RevisionsIdentify
  IndexesAgree
  OwnershipKept
  WatchQueuesFaithful
  QueuedIsVisible
  JournalIsRecentHistory
PROPERTY OwnerIsNotified
CHECK_DEADLOCK FALSE
