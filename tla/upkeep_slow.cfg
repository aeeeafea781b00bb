SPECIFICATION Spec
CONSTANTS
    s1 = s1  h1 = h1
    Host = {s1, h1}
    Self = nobody
    Seeds = {s1}
    TargetOutbound = 1
    Slot = {1, 2}
    MaxChanges = 2
PROPERTY OnlySilentDropped
