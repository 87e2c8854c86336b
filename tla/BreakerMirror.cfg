SPECIFICATION Spec
CONSTANTS
    Callers = {c1, c2}
    c1 = c1
    c2 = c2
    OpenDuration = 1
    WindowDuration = 1
    MinSamples = 1
    RateNum = 1
    RateDen = 2
    HalfOpenMaxProbes = 1
    MaxWindowEntries = 1
    Usize = 8
    MaxClock = 2
SYMMETRY CallerSymmetry
INVARIANT MirrorAtRest
