SPECIFICATION HeapSpec
CONSTANTS
  NodeBits = 4
  NPages = 30
  EarlyPages = 20
  BitmapPages = 1
  Span <- MCSpan
  UserTop = 16
  UserStack = 15
  BufPages = 3
  KernelBase = 40
  KernelSize = 9
  BootRegions <- MCBootRegions
  BootTables <- MCBootTables
  NodesPerPage = 4
  MemoryMaps <- MCMemoryMaps
  RunMap <- MCRunMap
  TailBits = {FALSE, TRUE}
  Sizes = {1, 2}
  Prots <- MCProts
  DevicePages = {1, 50}
  UserChoices = {3, 8}
  BrkStart = 8
  BrkTop = 13
  MaxCalls = 5
  Incs <- MCIncs
  PageWords = 64
  MinPages = 1
  MajorHdr = 5
  MinorHdr = 5
  Alignment = 2
  AlignInfo = 2
  HeapThreads = {t1, t2}
  HeapSizes = {4, 19, 60}
INVARIANTS
  HeapIsSound
  
  PagesAreSound
  StopsOnlyWhenFull
PROPERTIES
  MemoryIsGivenBack
SYMMETRY HeapSymmetry
CHECK_DEADLOCK FALSE
