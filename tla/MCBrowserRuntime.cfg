SPECIFICATION RuntimeFairSpec
CONSTANTS
  Calls = {1, 2}
  Uses <- MCUses
  Refusals = {400, 403, 404, 409}
  Troubles = {408, 500}
  Slots = 1
  PageSize = 1
  MaxLosses = 1
  Runtimes = {1, 2}
  MaxInstances = 1
  MaxQueue = 2
  Configs <- MCConfigs
  Ratios = {0, 2}
  MaxRecords = 3
  Names = {"n1", "n2"}
  Callbacks = {"f1", "f2"}
  MaxInstruments = 2
  MaxCallbacks = 2
  Budget = 1
  MaxInvalid = 1
  GatewayRuntime = 1
  Together <- MCTogether
  JointUses <- MCJointUses
  JointConfigs <- MCJointConfigs
  JointCalls = {1}
  JointRuntimes = {1}
  JointRecords = 1
  JointCallbacks = 0
INVARIANTS AnswersAreTrue SlotsExact ProbesAccounted LossesAccounted LimitsHold
PROPERTY DeadlinesHold
CHECK_DEADLOCK FALSE
