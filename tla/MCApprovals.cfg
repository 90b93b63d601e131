SPECIFICATION ApprovalSpec
CONSTANTS
    ChangeSets = {c1, c2}
    ApprovalIds = {a1, a2}
    Digests = {d1, d2}
    Users = {u1}
    Null = Null
    MaxTxns = 2
SYMMETRY Symmetry
INVARIANTS
    RowsTellOneStory
