CONSTANTS
  NoTenant = NoTenant
  ByHand = ByHand
  A_Envs = {"e1"} A_Sizes = {"medium", "large"} A_Units = 2 A_PerUnit = 7 A_Quota = 1
  A_MaxTime = 5 A_MaxFailures = 1
  D_Asked <- Requests D_Records <- Customers
  Q_Names = {"n1", "n2"} Q_People = {"person", "operator"} Q_Exempt = {"operator"}
  Q_Tenants = {"t", "u"} Q_Limit = 1 Q_Quota <- Allowances Q_NoTenant = NoTenant Q_MaxEdits = 1
  T_Backups = {1, 2} T_MaxEdits = 2
  B_Periods <- Periods B_Policies <- Policies B_ByHand = ByHand B_History = 2 B_Fits = 3
  B_MaxTime = 5 B_MaxFailures = 1 B_MaxEdits = 1
  L_Ids = {1, 2} L_Keep = 1 L_MaxAsked = 2 L_MaxRuns = 2 L_MaxEdits = 2 L_MaxFailures = 1
  S_Schemas <- Schemas S_RuleSets <- RuleSets S_Engines = {"Greenmask", "SQL"}
  S_Runs = {1, 2} S_MaxEdits = 1
  W_Local = "local" W_Remote = {"east", "west"}
  G_People = {1, 2} G_Images = {"a", "b", "c"} G_MajorOf <- Majors G_Rehearsed = {"c"}
  G_None = "none" G_MaxWrites = 4
  F_MaxLives = 2 F_MaxFailures = 1 F_MaxTouches = 1 F_DropMayFail = TRUE
  R_Customers = {"c1", "c2", "c3"} R_Size = 1 R_MaxFailures = 1
SPECIFICATION MCSpec
INVARIANTS
  BilledOnce NoMistakeIsCreated WithinLimits ReplacedIsCopied RetentionKeeps
  RepeatsAreExcused LeftAnonymous EveryClusterIsSaid BatchesSoak
PROPERTIES DropIsWaitedFor SparesTheReplacement EditsAreInTurn
CHECK_DEADLOCK FALSE
