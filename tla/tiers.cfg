CONSTANTS
  acme = acme  apex = apex
  Suppliers = {acme, apex}
  Managed = {acme}
  Volumes <- SomeVolumes
  Attempts = 2
  LastMonth = 2
  Traded <- FirstMonth
  FirstTiers = {"Silver", "Gold"}
  None = None
SPECIFICATION FairSpec
INVARIANT RowTellsTier
INVARIANT CountsAddUp
PROPERTY TierMoves
PROPERTY RunsEnd
CHECK_DEADLOCK FALSE
