SPECIFICATION Spec
CONSTANTS
  t1 = t1
  r1 = r1
  w1 = w1
  Gateway = Gateway
  Free = Free
  Workers <- OneWorker
  Retrievers <- OneRetriever
  Warmers <- OneWarmer
  Deleters <- OnlyDecider
  FirstPage <- SomeRows
  CreateDies = FALSE
  DeleteDies = TRUE
CHECK_DEADLOCK FALSE
PROPERTIES EarlierDemandKept NoSecondGateway
