SPECIFICATION Spec
CONSTANTS
    a1 = a1
    a2 = a2
    k1 = k1
    DevKey = DevKey
    Keys <- OneKey
    Admins <- OneAdmin
    Unset = Unset
    Malformed = Malformed
    RawPeppers <- OnePepper
    MaxClients = 2
    RoutePrefixes <- SomePrefixes
    Requested <- SomePaths
INVARIANT LongestPrefixApplies
