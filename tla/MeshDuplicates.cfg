SPECIFICATION MeshSpec
CONSTANTS
    Node = {attic, garage}
    Grace = 1
PROPERTY NoSecondSet
