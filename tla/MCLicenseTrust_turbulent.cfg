SPECIFICATION Spec
CONSTANTS
    k1 = k1
    k2 = k2
    old = old
    new = new
    None = None
    KeyIds <- MCKeyIds
    Manifests <- MCManifests
    Licenses <- MCLicenses
    SignedBy <- MCSignedBy
    Requests = {r1, r2}
    MaxGen = 3
    Turbulent = TRUE
SYMMETRY MCSymmetry
INVARIANTS TypeOK TrustIsOfThisLifecycle
PROPERTIES AllowedUnderOneTrust NewerTrustWins
CHECK_DEADLOCK FALSE
