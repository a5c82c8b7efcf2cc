SPECIFICATION FairSpec
CONSTANTS
    Streams = {s1, s2}
    Readers = {r1}
    None = None
    TTL = 1
    MaxChunks = 2
INVARIANTS TypeOK ResumeTells
PROPERTIES ReadersEnd
