CONSTANTS
    Pubs = {1, 2}
    Sources = {1, 2, 3}
    MaxContribs = 5
    Persons = {1, 2, 3, 4}
    Names = {"jean", "j", "jacques"}
    Extends <- MCExtends
    Values = {"v"}
    NoValue = NoValue
    PubOf <- MCPubOf
    NameOf <- SharedValueNames
    ValueOf <- SharedValueValues
    HrRecords = {1}
    HrName <- JeanInHr
    MaxRequests = 2
    MaxRegroups = 1
    MaxFailures = 1
SPECIFICATION Spec
INVARIANT RejectedAreDetached
