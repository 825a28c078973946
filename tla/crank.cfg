\* Two overlapping runs over one account with two slots, one fault.
SPECIFICATION Spec
CONSTANTS
    Owners = {o1}
    Markets = {m1}
    First = m1
    MaxPositions = 2
    Triggers = {2}
    Runs = {1, 2}
    MaxInFlight = 1
    MaxFaults = 1
PROPERTIES
    SeenAreServed
