SPECIFICATION FairSpec
CONSTANTS
    i1 = i1
    i2 = i2
    userEventsAvro = userEventsAvro
    userEventsProto = userEventsProto
    Instances = {i1, i2}
    Files = 2
    Nobody = Nobody
    Declared = {userEventsAvro}
    MaxOpen = 1
    MaxFaults = 2
INVARIANTS TypeOK VersionTellsTruth ServingIsPrepared DrainedBeforeClose
PROPERTIES Ends ComesUp
