CONSTANTS
    n1 = n1
    n2 = n2
    n3 = n3
    Name = {n1, n2, n3}
    NoName = NoName
    Loose = Loose
    MaxConfigs = 2
SYMMETRY Names
SPECIFICATION Spec
INVARIANT NoOrphan
