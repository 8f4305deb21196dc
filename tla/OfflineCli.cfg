SPECIFICATION Spec
CONSTANTS
  FrameTicks = 2
  MinSegment = 2
  WindowFrames = 4
  MaxSegment = 4
  MinSilence = 1
  SegmentPad = 1
  Overlap = 1
  MaxInfer = 9
  MaxSpeech = 6
  MinPause = 2
  LongPause = 1
  MinSpeech = 1
  MergeGap = 3
  SpeechPad = 3
  MinClause = 2
  MinUnit = 2
  MaxUnit = 3
  MinRepeats = 3
  MinText = 6
  MaxChars = 4
  CommaAt = 5
  Millis = 10
  BatchSize = 2
  BlockSize = 4
  NumBlocks = 4
  CtxSize = 20
  RowsPerTick = 1
  ExtraRows = 2
  NumFiles = 1
  Recordings <- recordings
  Texts <- texts
INVARIANTS
  ChunksFollowRecording
  SubtitlesFollowRecording
PROPERTIES
  EveryChunkReturns
CHECK_DEADLOCK FALSE
