SPECIFICATION Spec
CONSTANTS
    Workers = {w1}
    Keys = {k1}
    NoKey = NoKey
PROPERTIES
    InnerSucceedsOnce
