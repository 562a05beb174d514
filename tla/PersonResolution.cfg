CONSTANTS
    Pubs = {1, 2}
    Sources = {1, 2, 3}
    MaxContribs = 5
    Persons = {1, 2, 3, 4}
    Names = {"jean", "j", "jacques"}
    Extends <- MCExtends
    Values = {"v"}
    NoValue = NoValue
    PubOf <- MCPubOf
    NameOf <- InitialFirstNames
    ValueOf <- InitialFirstValues
    HrRecords = {}
    HrName <- NoHrName
    MaxRequests = 2
    MaxRegroups = 1
    MaxFailures = 1
SPECIFICATION FairSpec
INVARIANTS
    TypeOK
    ConflictNeedsRequest
    RejectedStayOut
    AttachmentsAreSupported
PROPERTIES
    PinsPrevail
    RejectedFormsStayOut
    Converges
    MarksAreConsumed
