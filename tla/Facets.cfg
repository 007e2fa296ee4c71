SPECIFICATION Spec
CONSTANTS
    SourceIds = {"default", "app", "web"}
    Tokens = {"t1", "t2", "t3", "t4"}
    FacetNames = {"service", "level", "host", "source", "x", "y"}
    Port <- MCPort
    Env <- MCEnv
    EnvTokens <- MCEnvTokens
    Names = {"x", "y"}
    Caps = {0, 5}
    Files <- MCFiles
    MaxEdits = 2
    MaxReloads = 2
    MaxFaults = 1
    MaxRestarts = 1
INVARIANTS
    RegistrySound
    AppliedWhole
    EnvTokensKept
