SPECIFICATION Spec
CONSTANTS
    Imports = {i1}
    Own = {}
    Cookies = 3
    Lasting = {}
    Workers = 1
    Mishaps = 0
PROPERTY RotatesToHealthy
