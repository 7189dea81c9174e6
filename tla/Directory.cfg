SPECIFICATION FairDirectorySpec
CONSTANTS
    root = root
    former = former
    ADM = ADM
    FORMER = FORMER
    Process = {p1, p2}
    Worker = {w1, w2}
    Email = {root, former}
    Code = {ADM, FORMER}
    Department = {"Engineering"}
    LocalCode <- MCLocalCode
    DemoLine <- MCDemo
    Backend = "PostgreSQL"
    UpgradesFirst = TRUE
    EarlierSchema <- MCSchema
    EarlierToken <- MCEarlier
    Patch <- MCPatch
    NewAccount <- MCNew
    MaxEmployees = 2
    MaxEdits = 1
    MaxImports = 1
    MaxCrashes = 1
INVARIANTS
    DirectoryTypeOK
    SchemaServed
    SeededWhole
    RecoveredAsIssued
PROPERTIES
    EditsAreNamed
    
