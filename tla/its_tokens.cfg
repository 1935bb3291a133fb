\* One chain of each kind, two people; the scenarios of MCTokenLinks, with one or two faults.
CONSTANTS
    e = e
    s = s
    u = u
    k = k
    alice = alice
    bob = bob
    Chains <- MCChains
    Kind <- MCKind
    Deployed <- MCDeployed
    People <- MCPeople
    Scenarios <- MCScenarios
    MaxCoins = 3
    MaxUnits = 2
SPECIFICATION Spec
INVARIANTS TypeOK RecordedIsRegistered
PROPERTY LinkCompletes
