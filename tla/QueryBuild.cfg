SPECIFICATION Spec
CONSTANTS
    Files <- MCFiles
    DeclsIn <- MCDeclsIn
    Fns <- MCFns
    Texts <- MCTexts
    FirstText <- MCFirstText
    MaxDisturbances = 3
    MaxCuts = 1
    CancelPoints = {4, 25, 50, 75, 100, 125}
    Never = Never
CONSTRAINT StartsChecked
INVARIANTS
    RecheckEqualsCold
    StagesSeparate
