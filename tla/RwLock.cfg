\* Counters of two bits: the gate's counters wrap and trap.
SPECIFICATION FairSpec
CONSTANTS
    Threads = {t1, t2, t3}
    Width = 4
    MaxCalls = 9
INVARIANTS
    WriterExclusive
    ReadersCounted
PROPERTIES
    NoReaderPassesWriter
    EveryCallReturns
