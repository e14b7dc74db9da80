SPECIFICATION NetFairSpec
CONSTANTS
    Option <- AllOptions
    Busy <- Throwaway
    Forward = {"ssh"}
    Client = {c1, c2}
INVARIANTS TypeOK EphemeralDiskGone NetTypeOK
PROPERTIES FreshDisk PersistentDiskKept StopsOnSignal StopsWithGuest
           WholeAnswer EndReachesClient RequestReaches NobodyWaitsInTurn
