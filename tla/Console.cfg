SPECIFICATION CSpec
CONSTANTS
  Writers = {w1, w2}
  BufMax = 8
  Lengths = {}
  MaxHead = 12
  Stale = {1}
  JUNK = JUNK
  DROP = DROP
  Chars = {"a", "b", "-", "1", "2", "3", NL}
  Formats <- SmallFormats
  BufLen = 5
  NumRoom = 3
  MaxCalls = 2
  Width = 7
  Height = 5
  CharWidth = 2
  CharHeight = 2
  NL = NL
  BLANK = BLANK
INVARIANT ExactUntilDrop
INVARIANT NoPhantom
INVARIANT BufferFits
INVARIANT TextsWhole
INVARIANT LayoutExact
PROPERTY Drained
