SPECIFICATION OnceSpec
CONSTANTS
    Id = {s1, s2, s3}
    Buf = {b1, b2, b3, b4}
    Text = {x, y, z}
    NoBuf = NoBuf
    MaxRefs = 3
SYMMETRY Symmetry
INVARIANTS Interned TextsLive CountsCover
CHECK_DEADLOCK FALSE
