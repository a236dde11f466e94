SPECIFICATION Spec
CONSTANTS
    n1 = n1
    n2 = n2
    n3 = n3
    alice = alice
    bob = bob
    home = home
    cafe = cafe
    Node = {n1, n2, n3}
    Id = {alice, bob}
    IdOf <- Ids
    Address = {home, cafe}
    AddressOf <- Addresses
    MaxSessions = 1
    MaxPerAddress = 1
    MaxSocks = 2
    MaxCalls = 1
    MaxStops = 1
INVARIANT AddressExact
INVARIANT NoGhosts
INVARIANT Registered
INVARIANT OneSocket
INVARIANT Detaching
CHECK_DEADLOCK FALSE
