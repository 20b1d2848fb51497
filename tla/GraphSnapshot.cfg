SPECIFICATION SnapSpec
CONSTANTS
  kernel = kernel
  app = app
  none = none
  Ids <- TwoIds
  Bundles <- TwoIds
  Kernel = kernel
  Kinds = {1, 2}
  BUNDLE = 1
  THING_CREATED = 2
  PUBLIC = 9
  InputKinds = {}
  Keys <- MCKeys
  Values <- TwoIds
  FieldMaps <- OneField
  LabelSets = {}
  LinkRequests <- OneLink
  Capabilities = {"CAN_WRITE"}
  Patterns <- AnyPattern
  DeriveUuid <- AppUuid
  NoId = none
  NoKind = none
  NoWatch = none
  MAX_WATCH_QUEUE = 1
  JOURNAL_CAPACITY = 1
  MaxRevision = 2
  MaxWatches = 2
  MaxRestores = 2
  NoSnapshot = NoSnapshot
PROPERTIES
  RestoreIsExact
  WatchIdsNeverReused
CHECK_DEADLOCK FALSE
