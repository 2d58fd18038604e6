CONSTANTS
  BlockSize = 18
  BufSize = 72
  SectorsPerTrack <- MCSectors
  DirTrack = 2
  DiskNameOffset = 9
  NameLen = 2
  RestLen = 2
  TitleRest = 3
  Tails <- MCTails
  IntSpan = 256
  Images <- MCImages
  Selected = {"", "cur"}
  ProgramImage = "blast"
  InitialNames <- MCInitialNames
  Sessions <- MCReads
SPECIFICATION Spec
INVARIANT
  TitleIsDiskName
