SPECIFICATION Spec
CONSTANTS
    Spelling <- MCOrder
    Remember <- MCPast
    WordRank <- MCWordRank
    MaxU64 = 5
INVARIANTS TotalOrder StagesSort NeverDowngrades
CHECK_DEADLOCK FALSE
