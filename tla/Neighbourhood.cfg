SPECIFICATION StockSpec
CONSTANTS
    d1 = d1
    d2 = d2
    z = z
    n1 = n1
    k1 = k1
    k2 = k2
    article = article
    preprint = preprint
    None = None
    Dois = {d1, d2, z}
    Deposits = {z}
    Records <- MCRecords
    Pubs <- MCPubs
    Rank <- MCRank
    Contents <- Keyed
    Written <- Keyed
    BatchSize = 1
    MaxWrites = 1
PROPERTIES
    NeighbourhoodIsEnough
CHECK_DEADLOCK FALSE
