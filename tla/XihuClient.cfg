CONSTANTS
  MSG_BUFFER_NUM = 3
  PIPLINE_PKT_DEPTH = 2
  NumBlocks = 3
  U32 = 5
  Values = {v0, v1}
  NoData = NoData
SPECIFICATION FairSpec
INVARIANTS BuffersConserved PoolSuffices NoLateCompletion ResultComplete
PROPERTIES TransferSpec EveryCallReturns
