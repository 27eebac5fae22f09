SPECIFICATION Spec
CONSTANTS
  PageSize = 3
  MaxSeqLen = 6
  MaxBatch = 3
  FreePages <- MCFreePages
INVARIANTS ExtendIsSound KernelAgreesWithNaive DecodeAgreesWithExtend
CHECK_DEADLOCK FALSE
