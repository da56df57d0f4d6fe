SPECIFICATION CampaignSpec
CONSTANTS
  Crate = {"a", "b"}
  Index = "db-dump"
  Targets <- MCTargets
  NumThreads = 2
  REQUIRED_DELAY = 2
  MaxCampaigns = 3
  MaxReports = 1
  Nobody = Nobody
INVARIANTS
  PartialOnlyAfterCut
  ReportsAreKept
PROPERTIES
  DownloadsAreSpaced
  CampaignEnds
CHECK_DEADLOCK FALSE
