SPECIFICATION Spec
CONSTANTS
    f1 = f1  f2 = f2  t1 = t1  t2 = t2  h = h
    Files = {f1}
    Hashes = {h}
    Hash <- SameContent
    Tasks = {t1, t2}
    Indexes = {1}
    NoFile = NoFile
    MaxRequests = 5
    MaxFaults = 0
INVARIANT ChunksAreCurrent
