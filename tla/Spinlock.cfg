\* Counters of two bits: next_ticket wraps and now_serving traps.
SPECIFICATION FairSpec
CONSTANTS
    Threads = {t1, t2, t3}
    NoThread = NoThread
    Width = 4
    MaxCalls = 9
INVARIANTS
    MutualExclusion
    TicketInv
PROPERTIES
    ImplementsFifo
    ServedUnlessTrapped
