SPECIFICATION BSpec
CONSTANTS
  MemoryMaps <- SmallMaps
  LowPages = 2
  KernelEnd = 3
  ByteBits = 4
  PageBytes = 4
  BigPage = 16
  HeapPages = 3
  MaxBit = 24
  W = 4
  TicksPerMs = 2
  CalMs = 10
  Ms = 1
  LapicRates = {1, 3}
  MaxGap = 3
  Madts <- SmallMadts
  Gsis = {0, 1, 2}
  MAX_ISO = 2
INVARIANT BitmapExact
INVARIANT HeapLowest
INVARIANT WaitExact
INVARIANT PeriodSound
INVARIANT PitRouted
INVARIANT HandlersThere
INVARIANT NothingStuck
