SPECIFICATION ReloaderSpec
CONSTANTS
    h1 = h1
    h2 = h2
    a = a
    b = b
    Broken = Broken
    Handshakes = {h1, h2}
    Pems = {a, b}
    Matching <- Either
    StartupWrites = FALSE
    MaxWrites = 3
CHECK_DEADLOCK FALSE
INVARIANTS
    CurrentIsServed
