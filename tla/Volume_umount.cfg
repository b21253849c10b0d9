SPECIFICATION Spec
CONSTANTS
  Width = 8
  KFS_BLOCKSIZE = 8
  sizeof_extent_header = 1
  sizeof_slot = 3
  sizeof_sinode = 3
  MB = 320
  GB = 640
  MIN_FS = 320
  MinPercentage = 15
  MaxPercentage = 90
  Short = 16
  Word = 1000
  MaxBlocks = 64
  Lines <- MCLines
  Files <- MCFiles
  MaxFormats = 1
  Configs <- MCConfigs
  MountFaults = {"open", "malloc", "enable"}
  MaxDiverted = 1
INVARIANT UmountedIsClean
CHECK_DEADLOCK FALSE
