SPECIFICATION BothSpec
CONSTANTS
    l1 = l1  l2 = l2  l3 = l3  l4 = l4  l5 = l5  r1 = r1  r2 = r2  k1 = k1  k2 = k2
    c1 = c1  c2 = c2  c3 = c3  i1 = i1  lotId = lotId  weight = weight
    NoContent = NoContent
    GuardPercent = 25
    BatchSize = 3
    Lots <- FiveLots
    Requests = {r1}
    Contents = {k1}
    Captures = {}
    Identities = {i1}
    NoCapture = NoCapture  NoBody = NoBody  NoName = NoName
    LotID = lotId
    Contract <- TheContract
    Bodies <- TheBodies
SYMMETRY FiveSymmetry
PROPERTIES MassDisappearanceGuarded
CHECK_DEADLOCK FALSE
