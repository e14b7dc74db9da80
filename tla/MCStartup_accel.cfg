SPECIFICATION Spec
CONSTANTS
    Flags <- MCFlags
    Files <- MCFiles
    Hosts <- MCHosts
    Artifact <- MCArtifact
    Form <- MCForm
    Raw <- MCRaw
INVARIANT
    FileFallbackHonoured
CHECK_DEADLOCK FALSE
