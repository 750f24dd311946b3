CONSTANTS
    NoEnc = NoEnc
    Writers = {w1, w2}
    Parallel = {w1}
    Encs = {e1, e2}
    MaxOld = 1
SYMMETRY EncSymmetry
SPECIFICATION Spec
INVARIANT RaceFree
INVARIANT FreshInputs
INVARIANT OneOwner
INVARIANT NoUseAfterRelease
INVARIANT QuietBetweenCalls
