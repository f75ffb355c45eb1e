\* The campaign with a validation fill beside it.
SPECIFICATION FairSpec
CONSTANTS
  Episodes = {"ep"}
  Books = {"book"}
  Order <- MCOrder
  Chunks <- MCChunks
  BatchSize = 1
  PageSize = 2
  Fills = {f1}
  MaxEvents = 2
  MaxInputTokens = 2
  MaxChunks = 2
  MaxRetries = 1
INVARIANTS IndexInv
PROPERTIES  CampaignSettles
