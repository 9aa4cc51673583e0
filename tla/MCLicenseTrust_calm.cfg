SPECIFICATION LiveSpec
CONSTANTS
    k1 = k1
    k2 = k2
    old = old
    new = new
    None = None
    KeyIds <- MCKeyIds
    Manifests <- CalmManifests
    Licenses <- CalmLicenses
    SignedBy <- CalmSignedBy
    Requests = {r1, r2, r3}
    MaxGen = 3
    Turbulent = TRUE
PROPERTIES SomeCheckSucceeds TrustRecovers
CHECK_DEADLOCK FALSE
