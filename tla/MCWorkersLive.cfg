CONSTANTS
    NoEnc = NoEnc
    Writers = {w1}
    Parallel = {w1}
    Encs = {e1, e2}
    MaxOld = 2
SPECIFICATION Spec
PROPERTY CallReturns
PROPERTY NoLeak
