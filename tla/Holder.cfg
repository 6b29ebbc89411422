CONSTANTS
    a = a
    b = b
    e = e
    v = v
    text = text
    binary = binary
    Segment <- MCSegment
    Empty = e
    Key <- MCKey
    Value = {v}
    Mode = {text, binary}
    Private <- MCPrivate
SPECIFICATION Spec
INVARIANTS TypeOK TreeShape StoredIsReadable
PROPERTY OneSecretPerCall
