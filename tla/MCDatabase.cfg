SPECIFICATION DbSpec
CONSTANTS
    Paths <- MCPaths
    ValidPaths <- MCValidPaths
    MaxId = 2
    PermissionInputs <- MCPermissionInputs
    MetadataInputs <- MCMetadataInputs
    UpdateInputs <- MCUpdateInputs
INVARIANTS
    DbTypeOK
    PathsAndIdsAgree
    StoredValuesFit
PROPERTIES
    RegistrationIsPermanent
