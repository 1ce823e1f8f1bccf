SPECIFICATION TreeSpec
CONSTANTS
    TreeBreadth = 8
    Sizes <- MCUneven
INVARIANT
    NotifiedExactlyOnce
