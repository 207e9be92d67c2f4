SPECIFICATION Spec
CONSTANTS
  w = w
  a = a
  Ingesters <- MCIngesters
  Admins <- MCAdmins
  Clients <- MCClients
  Callers <- MCIngesters
  Docs = {"d1", "d2"}
  MaxAttempts = 2
  BatchSize = 1
  SearchLimit = 2
  MaxLate = 1
  Norm <- MCNorm
  Settings <- MCSettings
  EmbedBatch = 1
  Texts <- MCTexts
  Faqs <- MCFaqs
  ChunkSize = 3
  Overlap = 1
  MaxFiles = 2
  FirstSettings <- MCFirstSettings
  MaxDisturbances = 3
INVARIANTS
  VectorsKeepTheirTexts
  DocumentsAreWhole
  GoneStaysGone
PROPERTIES
  RetriesRunOut
CHECK_DEADLOCK FALSE
