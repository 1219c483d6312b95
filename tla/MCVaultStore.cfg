SPECIFICATION VaultSpec
CONSTANTS
    SecretIds = {i1, i2, i3}
    Passphrases = {p1, p2}
    MaxValue = 3
    MaxSecretBytes = 2
    MaxSecrets = 2
    MaxFileBytes = 3
INVARIANTS VaultTypeOK MemoryMatchesStored KeepsAcknowledged
SYMMETRY IdSymmetry
CHECK_DEADLOCK FALSE
