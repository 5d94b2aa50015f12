SPECIFICATION FairSpec
CONSTANTS
    r1 = r1
    r2 = r2
    Runners <- MCRunners
    LastVersion = 2
    Statements <- MCStatements
    Checksums <- MCChecksums
    Wrong <- MCWrong
    FirstFiles <- MCFirstFiles
    MaxEdits = 1
    MaxFaults = 1
INVARIANTS MigTypeOK SuccessIsTrue AppliedInOrder
PROPERTY Converges
