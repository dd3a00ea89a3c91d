CONSTANTS
    N = 3
    MaxArena = 3
SPECIFICATION Spec
PROPERTIES
    ImplementsDepSets
