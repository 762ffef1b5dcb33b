SPECIFICATION Spec
CONSTANTS
    Installed = {"fence_ipmilan"}
    Execute <- TextTemplate
    RenderError = RenderError
    Node <- n1
    GeneratedName = "far-x7f2"
    TemplateSpecs <- Templates
    HandSpecs <- ByHand
    EditSpecs <- Edited
    SecretData <- SecretChoices
    Versions <- AroundTheLimit
    MaxChanges = 2
    MaxFaults = 1
CONSTRAINT Focus
CHECK_DEADLOCK FALSE
INVARIANTS TypeOK AdmittedBuilds OnlyRebootOrOff
PROPERTIES StrongestSourceWins LegacyNameKept DeletedGoesWhenValid MissingSecretIsRetried
