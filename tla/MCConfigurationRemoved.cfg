SPECIFICATION Spec
CONSTANTS
    Groups <- MCGroups
    Objects <- MCObjects
    MaxListed = 2
CHECK_DEADLOCK FALSE
INVARIANT ConfigurationRemoved
