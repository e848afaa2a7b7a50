SPECIFICATION Spec
CONSTANTS
    Clients = {c1}
    Scopes = {"credential.upsert", "profile.update"}
    Users = {u1}
    Assertions = {a1}
    Secrets = {1, 2, 3, 4, 5}
    Requests = {r1, r2}
    NoClient = NoClient
    NoSecret = NoSecret
    Life <- Lifetimes
    MaxGrants = 2
    MaxTime = 2
    MaxFaults = 1
SYMMETRY Symmetry
INVARIANTS
    TokensAreSound
    TokensGoBack
PROPERTIES
    KeepsPromise
