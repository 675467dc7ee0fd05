CONSTANTS
  b1 = b1  b2 = b2  chat = chat  k1 = k1
  Requests = {1, 2, 3, 4, 5}
  Ask <- MCRequests
  Responses = {1, 2, 3, 4, 5}
  Observations <- Observation
  Jobs <- LabelJobs
  Equivalent <- SameAnswer
  NMin = 1
  Models = {chat}
  ChatPrice <- MCPrice
  EmbedPrice <- MCPrice
  Buckets = {b1, b2}
  Vecs = {"v"}
  Hash <- MCHash
  Unit <- MCUnit
  Dim <- MCDim
  Dot <- MCDot
  TotalCapacity = 2
  MaxObs = 1
  ShardCount = 1
  MaxID = 4
  QueueSize = 1
  WorkerCount = 2
  Keys = {k1}
  Ceiling = 0
SPECIFICATION GatewaySpec
CHECK_DEADLOCK FALSE
INVARIANTS GatewayTypeOK LabelsReachTheirEntry InsertsAreGuarded HitsAreEarned
PROPERTIES EveryHandlerReturns ImplementsVerifiedCache
