CONSTANTS
    Qualities = {0, 1}
    Fragments = {2, 26}
    FirstBlockSize = 9
    MergeBlockSize = 6
    TwoPassBlockSize = 12
    MergeCap = 16
    Mlen16 = 4
    Mlen20 = 16
    InputMargin = 2
    LongInsert = 3
    Offers = {1, 2, 3, 25, 26, 27, 53}
    CodeBits = {3, 6}
    Gaps = {0, 4}
    Runs = {3}
SPECIFICATION Spec
INVARIANT FragmentsDecodable
