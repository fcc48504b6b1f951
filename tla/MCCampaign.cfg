SPECIFICATION Spec
CONSTANTS
  Campaigns <- MCCampaigns
CHECK_DEADLOCK FALSE
INVARIANTS CellsAsDefined OneInvocationPerFile OneRecordLostPerTear OneWrongRowPerFailure
