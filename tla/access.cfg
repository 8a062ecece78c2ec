\* A script that creates its secret first, of two secrets, and one that updates
\* it first; two runs.
CONSTANTS
    File = {"006", "007"}
    Script = {"approver", "webhook", "target"}
    Worker = {"engram_approver", "engram_webhook"}
    MaxRuns = 2
SPECIFICATION FairSpec
INVARIANTS
    SuccessMeansCurrent
PROPERTIES
    LambdaRecovers
