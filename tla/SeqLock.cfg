\* Two writers and a reader, every order that acquire and release allow; the
\* sequence traps.
SPECIFICATION FairSpec
CONSTANTS
    Threads = {t1, t2}
    Readers = {q1}
    Width = 8
    MaxCalls = 4
INVARIANTS
    AcceptedCopyConsistent
    SequenceTellsWrite
PROPERTIES
    ReadersServed
