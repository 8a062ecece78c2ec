\* Migration 009 and the bootstrap of the lifecycle roles.
CONSTANTS
    File = {"009"}
    Script = {"lifecycle"}
    Worker = {}
    MaxRuns = 1
SPECIFICATION Spec
INVARIANTS
    VerifiedCanWork
