SPECIFICATION FairMeshSpec
CONSTANTS
    Node = {attic, garage}
    Grace = 0
PROPERTIES
    SecondSetExplained
    OnlyRetiredDeleted
    NodesReturn
