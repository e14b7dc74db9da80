SPECIFICATION Spec
CONSTANTS
    Flags <- MCFlags
    Files <- MCFiles
    Hosts <- MCHosts
    Artifact <- MCArtifact
    Form <- MCForm
    Raw <- MCRaw
INVARIANTS
    TypeOK
    EffectiveConfig
    NoPublicBind
    PicksFit
    OptionsFitEngine
CHECK_DEADLOCK FALSE
