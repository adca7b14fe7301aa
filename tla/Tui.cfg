SPECIFICATION FairSpec
CONSTANTS
  Branches <- MCBranches
  Profiles <- MCProfiles
  YoloProfiles = {"default"}
  Workspaces <- MCWorkspaces
  MaxVisible = 1
  Texts = {"", "x"}
  Generated = "y"
  Sessions = {"x", "y"}
  Repos <- MCRepos
  Conversations <- MCConversations
  MaxJobs = 2
  MaxChanges = 2
  FirstRecords <- MCFirstRecords
INVARIANTS TypeOK RowHighlighted ReviewFollowsAnswers ReviewedIsLaunched OneTimer
PROPERTIES BackRetraces OnlyWhatWasAsked ListCatchesUp
CHECK_DEADLOCK FALSE
