CONSTANTS
  Threads = {t1, t2}
  Ids = {1, 2}
  NoId = 0
  Nodes = {1, 2}
  StaleAfter = 1
  MaxServed = 2
  Models = {m1, m2}
  TooBig = {m2}
  Ollama = Ollama
  OpenAI = OpenAI
  Askers = {shell, web}
  Stub = Stub
  None = None
  Window = 3
  MaxQueries = 2
  Packages = {p, q}
  Clients = {shell, web}
  Shipped = {1, 3}
  OnDemand = {3}
  Made = {2}
  Plugins = {plugin}
  System = System
  MaxDeps = 2
SPECIFICATION PeripherySpec
INVARIANTS CrashedDeposed AnsweredByActive AnswersFollowQuestions FileFollowsRegistry DependenciesFirst
PROPERTIES HeartbeatsEnd SyncsEnd
