SPECIFICATION FairSpec
CONSTANTS
    Imports = {i1, i2}
    Own = {i2}
    Cookies = 2
    Lasting = {2}
    Workers = 1
    Mishaps = 1
INVARIANTS TypeOK SuccessIsStored
PROPERTIES BlamesTheUsed ImportsGetThrough
