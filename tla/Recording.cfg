\* One cycle of the system tap, two of the microphone; the limit of a size
\* field at 64 bytes, which the longer recordings pass.
SPECIFICATION Spec
CONSTANTS
  Configs <- MCConfigs
  Cycles <- MCCycles
  MaxCycles <- MCMaxCycles
  U32 = 64
INVARIANTS
  FilesOutliveCallbacks FileHoldsRecording WavDescribesFile
CHECK_DEADLOCK FALSE
