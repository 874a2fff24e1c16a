\* One image, chunks of up to two payloads, the code's three polls and downloads;
\* then its link and that of another request, one client that follows links,
\* two seconds against a time to live of one, one restart.
SPECIFICATION FairDelivery
CONSTANTS
  Payloads <- MCPayloads
  Upload <- MCUpload
  TaskFiles <- MCTaskFiles
  MaxChunk = 2
  Polls = 3
  Downloads = 3
  Ids = {1, 2}
  Clients = {"c"}
  TTL = 1
  MaxTime = 2
  MaxBoot = 1
  Others = {"other"}
INVARIANTS
  DownloadsUpstreamImages
  FilesBeforeSediments
  GivesUpLast
  LinksOpenUntilExpiry
PROPERTY AnswerComes
\* Answered, and no second left: nothing more happens.
CHECK_DEADLOCK FALSE
