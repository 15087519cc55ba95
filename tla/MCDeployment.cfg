SPECIFICATION DeploySpec
CONSTANTS
    N = 4
    LayerCounts <- MCLayerCounts
    Rams <- MCRams
    ModelSizes <- MCModelSizes
    Deployments <- MCDeployments
    Held <- MCHeld
    Styles <- MCStyles
    None = None
    NoShard = NoShard
    Dead = Dead
    MaxDeaths = 1
INVARIANTS
    DeployTypeOK
    IndexInOrder
    AllLayersAllocated
    SpareLayer
    ShareRoundedOnce
    TwinsShareAlike
    PlanIsPipeline
    ServingIsPipeline
    ShardsMakeTheModel
    ClusterComputesAsDevice
    LoadsAsConverted
    MoteRoundTrip
PROPERTY
    DeploymentEnds
CHECK_DEADLOCK FALSE
