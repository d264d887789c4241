SPECIFICATION FairSpec
CONSTANTS
  t1 = t1
  t2 = t2
  Callers = {k1}
  TxHashes <- MCTxHashes
  Readable <- MCReadable
  MaxRestarts = 1
  NoHash = NoHash
INVARIANTS
  ResolvedAsPiri
  WatcherInv
PROPERTIES
  QuietAfterStop
  MirrorSpec
  StopReturns
  MonitorReturns
