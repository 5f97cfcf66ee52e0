CONSTANTS
  acme = acme  apex = apex
  Suppliers = {acme, apex}
  Managed = {acme}
  Volumes <- SomeVolumes
  Attempts = 2
  LastMonth = 2
  Traded <- FirstMonth
  FirstTiers = {"Silver", "Gold"}
  None = None
SPECIFICATION Spec
PROPERTY RecordsTheMonth
CHECK_DEADLOCK FALSE
