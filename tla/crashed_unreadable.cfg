SPECIFICATION AppSpec
CONSTANTS
  Procs = {p1, p2}
  Requests = {r1, r2}
  Addresses = {"ann"}
  Passwords = {"x", "y"}
  MaxUsers = 2
  Configurations <- ProviderSettings
  MaxWait = 4
  PollInterval = 2
  CallTime = 2
  TextLengths = {0, 30, 735, 1300, 3000}
  MaxListed = 5
  StorageProviders = {"local", "s3"}
  VideoProviders = {"openai"}
  LocalBases = {"path", "nested"}
  MaxJobs = 3
  MaxTurns = 3
  MaxUploads = 1
  Queries = 2
  limit = 2
  Songs = {501, 3135, 20000}
  MaxMusicId = 10000
  Credentials = {TRUE, FALSE}
  MaxRequests = 2
  MAX_DIMENSION = 4
  MAX_SOURCE_BYTES = 10
  MAX_IMAGE_PIXELS = 40
  MaxSide = 9
  ClientIds = {"req_a"}
INVARIANT ErrorCodeReadable
