SPECIFICATION FairSpec
CONSTANTS
  Byte <- MCByte
  Frames <- MCFrames
  Names <- MCNames
  Fields <- MCFields
  Layout <- MCLayout
  Requests <- MCRequests
  Blocks = {b1, b2}
  Null = null
  Junk = junk
INVARIANTS
  TypeOK
  CopyStaysInBlock
  DecodeReadsLiveBytes
  AnswerFromOneFrame
PROPERTIES
  ImplementsSnapshot
  NobodyStuck
