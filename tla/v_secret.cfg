SPECIFICATION Spec
CONSTANTS
    Installed = {"fence_ipmilan"}
    Execute <- TextTemplate
    RenderError = RenderError
    Node <- n1
    GeneratedName = "far-x7f2"
    TemplateSpecs <- Templates
    HandSpecs = {}
    EditSpecs <- Edited
    SecretData <- SecretChoices
    Versions <- Newest
    MaxChanges = 1
    MaxFaults = 0
CHECK_DEADLOCK FALSE
PROPERTY DeletedGoes
