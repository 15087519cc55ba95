\* The default checkpoint and one whose lm_head has 2^24 bytes, on one device.
SPECIFICATION DeploySpec
CONSTANTS
    N = 4
    LayerCounts <- MCLayerCounts
    Rams <- MCRams
    ModelSizes <- MCModelSizes
    Deployments <- MCHeads
    Held <- MCHeld
    Styles <- MCStyles
    None = None
    NoShard = NoShard
    Dead = Dead
    MaxDeaths = 0
INVARIANT
    LayoutRecognized
CHECK_DEADLOCK FALSE
