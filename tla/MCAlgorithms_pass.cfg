CONSTANTS
    Bytes <- MCBytes
    MaxLen = 2
    Chars = {a, b}
    MaxKeyLen = 3
    MaxAdds = 3
    Strs <- MCStrs
    BlobVals <- MCBlobs
    Nums <- MCNums
    MaxVals = 2
    Tags = {0, 258}
    MaxCut = 20
SPECIFICATION MCSpec
SYMMETRY CharSymmetry
INVARIANT  AddSubAsSpecified BitSetAsSpecified MasksAsSpecified AppendThenRemoveRestores HandlerPathsKept DispatchMatchesPrefix RoundTrip Canonical
CHECK_DEADLOCK FALSE
