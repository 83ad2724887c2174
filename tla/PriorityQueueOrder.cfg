\* Six ports: the least number with which an entry comes below a later one.
SPECIFICATION Spec
CONSTANTS
    Value = {a, b, c, d, e, f}
    Priority = {1, 2, 3}
    kMinimumSize = 16
INVARIANTS HeapOrdered
