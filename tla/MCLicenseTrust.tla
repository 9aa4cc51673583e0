--------------------------- MODULE MCLicenseTrust ---------------------------
(* Instances of LicenseTrust for TLC: an issuer that rotates from k1 to k2. *)
EXTENDS LicenseTrust, TLC

CONSTANTS k1, k2, old, new

MCKeyIds    == {k1, k2}
MCManifests == {{k1}, {k1, k2}}
MCLicenses  == {old, new}
MCSignedBy  == (old :> k1) @@ (new :> k2)

CalmManifests == {{k1}}
CalmLicenses  == {old}
CalmSignedBy  == old :> k1

MCSymmetry == Permutations(Requests)
=============================================================================
