CONSTANTS
    k1 = k1
    k2 = k2
    k3 = k3
    KeyFiles <- ThreeKeys
    Listings <- SomeListings
    MaxAuthTries = 2
    MaxChanges = 2
SPECIFICATION Spec
INVARIANTS
    AcceptedWasAuthorized
    AuthorizedIsAdmitted
    ChildRunsAsUser
