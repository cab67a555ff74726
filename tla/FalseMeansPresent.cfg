SPECIFICATION Spec
CONSTANTS
  A = A
  B = B
  f1 = f1
  f2 = f2
  f3 = f3
  f4 = f4
  f5 = f5
  NoValue = NoValue
  Messages <- MCMessages
  Streams <- PairStreams
  Required <- Columns
  MaxSequence = 3
PROPERTY FalseMeansPresent
