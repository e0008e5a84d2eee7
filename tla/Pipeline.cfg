CONSTANTS
    r1 = r1
    r2 = r2
    Req = {r1, r2}
    Setup <- MCSetup
SPECIFICATION FairPipeSpec
CHECK_DEADLOCK FALSE
INVARIANTS PipeInv NobodyStuck SuccessIsComplete MessagesAccounted RowsAccounted SpoolOutlivesTasks
PROPERTY UploadsEndCleanly
