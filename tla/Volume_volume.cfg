SPECIFICATION FairSpec
CONSTANTS
  Width = 8
  KFS_BLOCKSIZE = 8
  sizeof_extent_header = 1
  sizeof_slot = 3
  sizeof_sinode = 3
  MB = 320
  GB = 640
  MIN_FS = 320
  MinPercentage = 15
  MaxPercentage = 90
  Short = 16
  Word = 1000
  MaxBlocks = 64
  Lines <- MCLines
  Files <- MCFiles
  MaxFormats = 2
  Configs <- MCConfigs
  MountFaults = {"open", "malloc", "enable"}
  MaxDiverted = 1
INVARIANTS TypeOK VerifiedIsBuilt BuildVerifies PartsKept LayoutSound MapMarks CleanIsOnDevice
PROPERTIES LayoutKept MountAnswers MountIsWritten
CHECK_DEADLOCK FALSE
