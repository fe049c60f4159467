\* Calls one after another; jobs of earlier calls and attempts go on.
SPECIFICATION FairSpec
CONSTANTS
  Job = {j1, j2, j3}
  NoJob = NoJob
  MaxRetries = 2
  MaxPolls = 2
  Faults = {"throttled", "connection", "reply"}
INVARIANT TypeOK
PROPERTIES TransferDelivers RefusedDidNothing TransfersReturn
