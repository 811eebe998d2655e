SPECIFICATION Spec
CONSTANTS
    i1 = i1  i2 = i2  avro = avro  proto = proto  p1 = p1  p2 = p2  e1 = e1  e2 = e2
    Instances = {i1}
    Groups = {avro}
    AvroGroups = {avro}
    Partitions = {p1}
    EventIds = {e1}
    NoEventId = NoEventId
    Schemas = {s1}
    Garbage = Garbage
    PartitionOf <- OnePartition
    NoMessage = NoMessage
    NoOne = NoOne
    MaxLog = 2
    MaxRestarts = 0
    MaxRebalances = 0
INVARIANTS
    FailedIsRedelivered
