SPECIFICATION FairSpec
CONSTANTS
    configMap = configMap  secret = secret  override = override
    Referents = {configMap, secret, override}
    References <- RequiredBetween
    Names = {region, tier}
    Values = {u, v}
    Missing = Missing
    MaxEdits = 2
    MaxFaults = 1
INVARIANT TypeOK
PROPERTY Adopted
