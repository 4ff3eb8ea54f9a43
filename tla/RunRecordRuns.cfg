CONSTANTS
    None = None
    Requests <- SomeRequests
    OtherOutputs <- AnyOutput
    Configs <- SomeConfigs
    Records <- SomeRecords
    ApprovalLists <- SomeApprovals
SPECIFICATION Spec
INVARIANTS TypeOK NothingUnauthorized DagTellsRun MutationsCiteApproval RunIsTold DevRecordsAgree
