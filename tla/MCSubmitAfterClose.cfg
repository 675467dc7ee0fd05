CONSTANTS
  b1 = b1  chat = chat  k1 = k1
  Requests = {1, 2, 3, 4}
  Ask <- MCRequests
  Responses = {1, 2, 3, 4}
  Observations <- Observation
  Jobs <- LabelJobs
  Equivalent <- SameAnswer
  NMin = 1
  Models = {chat}
  ChatPrice <- MCPrice
  EmbedPrice <- MCPrice
  Buckets = {b1}
  Vecs = {"v"}
  Hash <- MCHash
  Unit <- MCUnit
  Dim <- MCDim
  Dot <- MCDot
  TotalCapacity = 2
  MaxObs = 1
  ShardCount = 1
  MaxID = 3
  QueueSize = 2
  WorkerCount = 1
  Keys = {k1}
  Ceiling = 0
SPECIFICATION LifecycleSpec
CHECK_DEADLOCK FALSE
INVARIANT NoSubmitAfterClose
