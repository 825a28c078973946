\* One market, one transaction lost.
SPECIFICATION PusherSpec
CONSTANTS
    Markets = {1}
    Ticks = {1}
    Targets <- MCOneFeed
    InitPrice = 20
    MaxInFlight = 2
    MaxLosses = 1
PROPERTIES
    PricesFollow
