CONSTANTS
  Txs = {1, 2, 3}
  Local = {1}
  Tenants = {"default", "tenant1"}
  TenantOf <- TenantOfTx
  Weight <- Sizes
  MaxPayload = 2
  MaxCopies = 1
  MaxFailures = 1
  MaxSorts = 1
SPECIFICATION Spec
INVARIANTS TypeOK
PROPERTIES QueueDrains
CHECK_DEADLOCK FALSE
