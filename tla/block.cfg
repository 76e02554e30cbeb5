SPECIFICATION FairSpec
CONSTANTS
  Data = {x, y}
  Blank = Blank
  BlockSize = 16
  Word = 16384
  Asked = {0, 3, 1027, 16383}
  Cards <- MCCards
  Retries = 1
  MaxSwaps = 1
  Misbehave = {"readerror", "busy"}
  Images = {0, 16, 64, 9008}
  MaxImage = 8192
INVARIANTS TypeOK CardKnown InImage
PROPERTIES ImplementsDevice CallsReturn
