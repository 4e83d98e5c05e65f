SPECIFICATION Spec
CONSTANTS
    a1 = a1
    a2 = a2
    k1 = k1
    DevKey = DevKey
    Keys <- OneKey
    Admins <- TwoAdmins
    Unset = Unset
    Malformed = Malformed
    RawPeppers <- SomePeppers
    MaxClients = 2
    RoutePrefixes <- TwoPrefixes
    Requested <- SomePaths
SYMMETRY Symmetry
INVARIANTS
    PolicyIsDefined
    BootstrapGivesQuota
    BootstrapGivesKey
PROPERTY RevocationLasts
