SPECIFICATION Spec
CONSTANTS
    Sectors = 2
    PerSector = 2
    Uid = {u1, u2}
    Datum = {d1, d2}
    Zero = zero
    Trailer = trailer
    Dwell = 2
    MaxBoots = 2
    Faults = {"cut"}
    Absent = absent
    Short = short
    None = None
INVARIANT
    WrittenIsKept
