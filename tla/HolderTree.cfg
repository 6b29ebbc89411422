CONSTANTS
    a = a
    e = e
    v = v
    text = text
    binary = binary
    Segment <- MCSegment
    Empty = e
    Key <- MCKey
    Value = {v}
    Mode = {text, binary}
SPECIFICATION Spec
INVARIANTS AnswersAgree ListingAgrees
PROPERTY ImplementsHolder
