SPECIFICATION Spec
CONSTANTS
    c1 = c1  c2 = c2  k0 = k0  k1 = k1  k2 = k2
    d1 = d1  r1 = r1  p1 = p1  p2 = p2
    Client = {c1, c2}
    Key = {k0, k1, k2}
    FirstKey = k0
    Deposit = {d1, r1}
    Reward = {r1}
    Owner <- MCOwner
    Worth <- MCWorth
    Payment = {p1, p2}
    Amounts = {2, 7}
    FeeBase = 0
    FeePerInput = 1
    Dust = 1
    MaxReorgs = 1
    MaxCrashes = 1
SYMMETRY Symmetric
CHECK_DEADLOCK FALSE
INVARIANTS AddressIsDurable ChangeComesBack PromisedOnce WithheldForPayment
