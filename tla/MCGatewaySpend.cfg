CONSTANTS
  b1 = b1  chat = chat  mini = mini  ada = ada  k1 = k1  k2 = k2
  Requests = {1, 2, 3, 4, 5, 6}
  Ask <- MCRequests
  Responses = {1, 2, 3, 4, 5, 6}
  Observations <- Observation
  Jobs <- LabelJobs
  Equivalent <- SameAnswer
  NMin = 1
  Models = {chat, mini}
  ChatPrice <- MCChatPrice
  EmbedPrice <- MCEmbedPrice
  Buckets = {b1}
  Vecs = {"v"}
  Hash <- MCHash
  Unit <- MCUnit
  Dim <- MCDim
  Dot <- MCDot
  TotalCapacity = 1
  MaxObs = 1
  ShardCount = 1
  MaxID = 3
  QueueSize = 1
  WorkerCount = 1
  Keys = {k1, k2}
  Ceiling = 3
SPECIFICATION SpendSpec
CHECK_DEADLOCK FALSE
INVARIANTS SpendIsExact OverspendBounded GaugeTracksBudget
