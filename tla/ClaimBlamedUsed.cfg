SPECIFICATION Spec
CONSTANTS
    Imports = {i1, i2}
    Own = {i2}
    Cookies = 2
    Lasting = {2}
    Workers = 2
    Mishaps = 1
PROPERTY BlamedWasUsed
