SPECIFICATION SuiteSpec
CONSTANTS
  b1 = b1
  b2 = b2
  p1 = p1
  p2 = p2
  t1 = t1
  t2 = t2
  \* LegacyLock
  LockWorkers = {w1, w2}
  LockPaths = {"page", "Page"}
  KeyOf <- MCKeyOf
  StaleAfter = 0
  ClearAfter = 0
  NoLock = NoLock
  Corrupt = Corrupt
  Nobody = Nobody
  MaxSeconds = 1
  MaxKills = 1
  \* Planning
  Bundles = {b1, b2}
  Notes = {p1, p2}
  Prefixes = {"c"}
  WritesOf <- MCWritesOf
  RequestsOf <- MCRequestsOf
  AddressLines <- MCAddressLines
  Person = Person
  NoAddress = NoAddress
  NoNote = NoNote
  NoPlan = NoPlan
  NoDraft = NoDraft
  MaxAddress = 2
  SavesWhilePinning = FALSE
  MaxSaves = 2
  \* Ledgers
  Sources <- MCSources
  Evidence <- MCEvidence
  FileOrigins = {"f"}
  Publishers = {"k"}
  NoPublisher = "none"
  PublishersOf <- MCPublishersOf
  Unlisted = Unlisted
  NoClaim = NoClaim
  NoBytes = NoBytes
  LastDay = 1
  \* Retrieval
  WikiPages = {"p", "q"}
  Contents = {1, 2}
  AddressIn <- MCAddressIn
  ChunksIn <- MCChunksIn
  PathRank <- MCPathRank
  NoAddressLine = "none"
  Missing = Missing
  Unread = Unread
  MaxEdits = 1
  \* FilesystemCapture
  InboxFiles = {"f", "g"}
  RawFiles = {"r"}
  FileContents = {1, 2}
  SizeOf <- MCSizeOf
  RankOf <- MCRankOf
  SuffixOf <- MCSuffixOf
  SafeSuffixes = {".txt"}
  Capturers = {"j", "k"}
  MaxItems = 3
  MaxFileBytes = 2
  MaxTotalBytes = 3
  NoFile = NoFile
  NoItem = NoItem
  MaxFileSaves = 1
  MaxCaptures = 3
  \* Release
  Tracked = {"f", "g"}
  Blobs = {1, 2}
  OverlayOf <- MCOverlayOf
  NoArchive = NoArchive
  Inodes = {i1, i2}
  MaxMoves = 2
  MaxBuilds = 2
  \* VaultSelection
  Directories <- MCDirectories
  ParentOf <- MCParentOf
  ProductRoot = "product"
  Layouts <- MCLayouts
  ConfigPlaces = {"top", "work"}
  Projects = {"work", "template"}
  Nowhere = Nowhere
  BadConfig = BadConfig
  MaxConfigEdits = 1
  \* StopStatus
  Operations = {o1, o2}
  LongOnes = {o2}
  NoOperation = NoOperation
  ScanLimit = 1
  MaxDeaths = 2
INVARIANTS
  SuiteTypeOK
  OneHolder
  OneAddressPerPage
  IndependentEvidence
  IndexMatchesChunks ResultIsCurrent ChunkedExactly
  ReportedIsStoredOnce
  OnlyConsentedContext
  SilenceMeansSettled
PROPERTIES
  FreshRecordKept
  MapStaysSound ReviewedIsWritten
  ExpiresOnlyWhenDue
  ArchiveIsOneCommit AuditedIsInPlace
CHECK_DEADLOCK FALSE
