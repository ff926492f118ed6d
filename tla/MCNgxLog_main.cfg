CONSTANTS
  W <- MC_W
  IntTLen <- MC_IntTLen
  PtrHexWidth <- MC_PtrHexWidth
  NGX_MAX_ERROR_STR <- MC_NGX_MAX_ERROR_STR
  ErrDesc <- MC_ErrDesc
  CachedTime <- MC_CachedTime
  LogPid = 4242
  LogTid = 4242
  NgxPrefix <- MC_NgxPrefix
  NgxErrorLogPath <- MC_NgxErrorLogPath
  NullPtr = NullPtr
  Null <- NullPtr
  Msgs <- MC_Msgs
  CpyCalls <- MC_CpyCalls
  FmtCalls <- MC_FmtCalls
  StderrCalls <- MC_StderrCalls
  CoreCalls <- MC_CoreCalls
  LastLowBytes <- MC_LastLowBytes
  PrefixArgs <- MC_PrefixArgs
  ErrorLogArgs <- MC_ErrorLogArgs
  OpenErrs <- MC_OpenErrs
  NumFormats <- MC_NumFormats
  FloatFormats <- MC_FloatFormats

SPECIFICATION Spec

INVARIANTS
  WritesWithinBuffer
  NumbersRoundTrip
  FloatsRounded
  ErrnoKept
