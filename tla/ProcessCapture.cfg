SPECIFICATION FairSpec
CONSTANTS
  MaxWritten = 2
  MaxOutput = 2
  PipeCapacity = 2
  MaxCancels = 2
INVARIANT TypeOK
INVARIANT NoSilentLoss
INVARIANT CompleteOutput
INVARIANT NothingOutlivesCall
PROPERTY ImplementsContract
PROPERTY EveryCaptureEnds
