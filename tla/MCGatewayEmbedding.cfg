CONSTANTS
  b1 = b1  chat = chat  mini = mini  ada = ada  k1 = k1  k2 = k2
  Requests = {3}
  Ask <- MCRequests
  Responses = {3}
  Observations <- Observation
  Jobs <- LabelJobs
  Equivalent <- SameAnswer
  NMin = 1
  Models = {mini, ada}
  ChatPrice <- ShippedChatPrice
  EmbedPrice <- ShippedEmbedPrice
  Buckets = {b1}
  Vecs = {"v"}
  Hash <- MCHash
  Unit <- MCUnit
  Dim <- MCDim
  Dot <- MCDot
  TotalCapacity = 1
  MaxObs = 1
  ShardCount = 1
  MaxID = 3
  QueueSize = 1
  WorkerCount = 1
  Keys = {k1, k2}
  Ceiling = 3
SPECIFICATION SpendSpec
CHECK_DEADLOCK FALSE
PROPERTY EmbeddingIsBilled
