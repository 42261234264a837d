SPECIFICATION Spec
CONSTANTS
    Letter = {45, 97, 98, 100, 105, 110, 112, 114}
    SoaBuffer = 30
    NameBuffer = 19
    Row <- MCRow
    Result <- MCResult
    Request <- MCRequest
INVARIANTS AnswerHoldsRows WritesFit BlocksBalanced HeaderArrives
\* A lookup ends, or the process does.
CHECK_DEADLOCK FALSE
