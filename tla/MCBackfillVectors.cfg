\* An indexer whose call fails after another one has finished the chunk.
SPECIFICATION Spec
CONSTANTS
  Episodes = {"ep"}
  Books = {"book"}
  Order <- MCOrder
  Chunks <- MCChunks
  BatchSize = 1
  PageSize = 2
  Fills = {f1}
  MaxEvents = 2
  MaxInputTokens = 2
  MaxChunks = 2
  MaxRetries = 1
PROPERTIES VectorsKept
