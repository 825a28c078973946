\* One run over one account with two slots, positions with and without triggers.
SPECIFICATION Spec
CONSTANTS
    Owners = {o1}
    Markets = {m1}
    First = m1
    MaxPositions = 2
    Triggers = {0, 2}
    Runs = {1}
    MaxInFlight = 1
    MaxFaults = 0
PROPERTIES
    EveryoneIsServed
