SPECIFICATION FairSpec
CONSTANTS
  Kinds = {"briefing"}
  Briefing = "briefing"
  daily = daily
  broken = broken
  Windows = {daily, broken}
  Unreadable = {broken}
  Default = daily
  NextRun <- MCNextRun
  Period <- MCPeriod
  Day = 1
  Processes = {p1, p2}
  Ahead <- MCAhead
  MaxAhead = 0
  Clients = {client}
  Approvals = {a1}
  MaxTime = 3
  MaxPuts = 1
  MaxFaults = 1
  DayLen = 6
  WeekLen = 3
  EveryDay = 3
  Offset <- MCOffset
  Zones <- MCZones
INVARIANTS
  ScheduleInv
  EveryApprovalReported
  NextRunIsNextDue
PROPERTIES
  EveryDueIsTaken
