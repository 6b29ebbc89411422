CONSTANTS
    Uuid = {s, t}
    Ttl = 2
    MaxGap = 2
    MaxTime = 5
    MaxJump = 2
SPECIFICATION Spec
INVARIANTS TypeOK IdlePasswordsExpire
PROPERTY FreshPasswordsStay
