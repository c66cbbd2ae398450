CONSTANTS
    LastUser     = 39
    ConfigPage   = 41
    Commands    <- OnConfigPages
    FirstConfigs <- PlainConfigs
SPECIFICATION Spec

PROPERTY ConfigStaysOurs
