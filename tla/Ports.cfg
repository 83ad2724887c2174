\* An isolate and a native port with four ports, and a table with eight; all hash
\* to slots 3 and 7 of a new table, which grows with the seventh.
SPECIFICATION MCSpec
CONSTANTS
    Isolate = {i1}
    Native = {n1}
    Random = {7, 11, 15, 23}
    Port = {7, 11, 15, 19, 23, 27, 31, 35}
INVARIANTS TablesAgree LivePortsExact SearchesEnd
PROPERTIES IsASet
CHECK_DEADLOCK FALSE
