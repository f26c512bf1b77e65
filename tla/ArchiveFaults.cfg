SPECIFICATION FairSpec
CONSTANTS
  Archivers = {a1, a2}
  Requests = {r1}
  Maps <- TwoMaps
  Sums = {1, 2}
  MaxArchives = 2
  MaxUploads = 1
  MaxFaults = 1
INVARIANTS
  NumbersDense
  ListingIsNewest
  SnapshotWhole
  RequestsFollow
  FilesThere
PROPERTIES ArchiveEnds
CHECK_DEADLOCK FALSE
