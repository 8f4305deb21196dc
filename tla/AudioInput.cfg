SPECIFICATION Spec
CONSTANTS
  IntervalFrames = 3
  CalibrationFrames = 1
  MinSpeech = 2
  MaxSpeech = 7
  SilenceTrigger = 6
  TailTrim = 2
  Caps = {2, 3}
  NumFrames = 9
  MaxCallback = 2
INVARIANTS
  SpeechHeardOnce
  RecordingsAreWhole
CHECK_DEADLOCK FALSE
