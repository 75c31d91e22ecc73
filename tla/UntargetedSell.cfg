\* Every request over small numbers, two users and lists of up to two.
SPECIFICATION Spec
CONSTANTS
    User = {u1, u2}
    Sub = 2
    Scale = 2
    Quantity = {0, 1, 4, 6, 8}
    Amount = {0, 1, 2}
    MaxAllocations = 2
    None = None
INVARIANT TargetedNamesUser
