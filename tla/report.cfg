CONSTANTS
    Platform = {ios, asa}
    Model <- Models
    Pattern <- Patterns
    Version <- Versions
    none = none
SPECIFICATION Spec
CONSTRAINT FewStandards
INVARIANTS MostSpecificWins
PROPERTIES TargetsKeepOrder
