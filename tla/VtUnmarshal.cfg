\* Every cut of every message, both writers, both decoders. 2^32 and 2^64 are
\* scaled to 2^13 and 2^27, a varint to four bytes. The call returns.
SPECIFICATION Spec
CONSTANTS
  Nil = Nil
  Word32 = 8192
  Word64 = 134217728
  MaxGroups = 4
  Sent <- MCSent
  Raw <- MCRaw
CHECK_DEADLOCK FALSE
INVARIANTS
  TypeOK
  InBounds
  SizeIsExact
  EqualOnTheWire
  DecodesWhatWasSent
  OnlyWholeFields
  SurvivesReuse
PROPERTY
  DecodingEnds
