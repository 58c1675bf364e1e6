CONSTANTS
    k1 = k1
    k2 = k2
    p = p
    Key = {k1, k2}
    Prefix = {p}
    Covers <- MCCovers
    Blank = Blank
    Configs <- TwoFilesOnly
    Generations <- PrefixToExact
SPECIFICATION Spec
INVARIANTS
    NoSpuriousDenial
