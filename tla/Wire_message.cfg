SPECIFICATION CodecSpec
CONSTANTS
    Grain = 1000
    FrameIds = {1}
    AgentNames <- MCAgentNames
    CrcBytes <- MCCrcBytes
    Patches <- MCPatches
    MaxHops = 3
INVARIANT MessageKept
CHECK_DEADLOCK FALSE
