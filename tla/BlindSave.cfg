SPECIFICATION ApplicationsSpec
CONSTANT MaxVersions = 4
PROPERTY NoBlindOverwrite
