CONSTANT
    Papers <- MCPapers
SPECIFICATION Spec
INVARIANTS
    MisreadRefused
    DateStoredAsPrinted
    SkillsKept
    NormalizeIdempotent
CHECK_DEADLOCK FALSE
