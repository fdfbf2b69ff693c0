SPECIFICATION Spec
CONSTANTS
    s1 = s1  s2 = s2  f1 = f1  f2 = f2  t1 = t1  t2 = t2
    lotId = lotId  weight = weight  nothing = nothing
    NoObject = nothing  NoToken = nothing  NoName = nothing
    Objects = {s1, s2}
    MaxExponent = 2
    Fetches = {f1, f2}
    Tokens = {t1, t2}
    MaxRetries = 1
    MaxPages = 2
    LotID = lotId
    Contract <- TheContract
    Deliveries = {}
    gia = gia  giaText = giaText  odd = odd  round = round  star = star
    Round = Round  ROUND = ROUND  noText = noText  unknown = unknown  nonCert = nonCert
    NoText = noText  Unknown = unknown  NonCert = nonCert  GIA = gia
    NonCertNames = {}
    GIANames = {}
    Placeholders = {}
    LabMapping <- TheLabMapping
    ShapeMapping <- TheShapeMapping
    UpperCase <- TheUpperCase
    Bands <- TheBands
    EligibleStages = {"POLISHING"}
    LotCount = 2
    MaxVersions = 3
    SaleRows <- TheSales
    RemovedRows <- TheRemoved
    StockRows <- TheStock
    WipRows <- TheWip
    PlannedKeys <- ThePlanned
    MaxSales = 2
    MaxRemoved = 1
    MaxStock = 2
    MaxWip = 1
INVARIANT ExcessStateIsImplied
CHECK_DEADLOCK FALSE
