----------------------------- MODULE MCApplication -----------------------------
(* The parts of the application around video generation, for TLC.  They share no   *)
(* state in these models, so a behaviour exercises one of them, chosen at the      *)
(* start, while the others stay as they begin.  The provider run is extended: its  *)
(* names are used as they are, and its properties hold of a run that has not begun.*)
EXTENDS Sequences, VideoProviders

CONSTANTS
  Procs, Requests,                                           \* processes and requests at once
  Addresses, Passwords, MaxUsers,                            \* accounts
  TextLengths, MaxListed,                                    \* prompt
  StorageProviders, VideoProviders, LocalBases, MaxJobs,     \* media
  MaxTurns, MaxUploads,                                      \* drafts
  Queries, limit,                                            \* recommendations
  Songs, MaxMusicId, Credentials, MaxRequests,               \* music
  MAX_DIMENSION, MAX_SOURCE_BYTES, MAX_IMAGE_PIXELS, MaxSide, \* images
  ClientIds                                                  \* pipeline

\* The bounds are numbers.
ASSUME BoundsAssumption ==
  /\ MaxUsers \in Nat /\ MaxTurns \in Nat /\ MaxUploads \in Nat
  /\ MAX_DIMENSION \in Nat /\ MAX_SOURCE_BYTES \in Nat /\ MaxSide \in Nat \ {0}
  /\ TextLengths \subseteq Nat /\ MaxListed \in Nat
  /\ MaxMusicId \in Nat /\ limit \in Nat /\ MaxRequests \in Nat
\* The settings are values config.py knows; a run names its files by job number up to 3.
ASSUME MediaAssumption ==
  /\ StorageProviders \subseteq {"local", "s3"}
  /\ VideoProviders \subseteq {"openai", "hosted"}
  /\ LocalBases \subseteq {"path", "nested", "empty", "absolute"}
  /\ MaxJobs \in 0 .. 3

VARIABLES
  part,   \* what this behaviour exercises
  users, userRows, userPc, userReq, user, activeSeen, userAnswer, access, families,
  input, prompt,
  mediaSettings, jobs, files,
  movie, request, turns, answered, uploads, snapshot,
  hasMovie, rows, proc, answers, made,
  configured, call, tracks, next, answer, offered, music_id, asks,
  asked, source, picture,
  req, at, up, log

accountVars  == <<users, userRows, userPc, userReq, user, activeSeen, userAnswer, access, families>>
providerVars == vars
promptVars   == <<input, prompt>>
mediaVars    == <<mediaSettings, jobs, files>>
draftVars    == <<movie, request, turns, answered, uploads, snapshot>>
similarVars  == <<hasMovie, rows, proc, answers, made>>
musicVars    == <<configured, call, tracks, next, answer, offered, music_id, asks>>
imageVars    == <<asked, source, picture>>
pipelineVars == <<req, at, up, log>>
appVars == <<part, accountVars, providerVars, promptVars, mediaVars, draftVars, similarVars,
             musicVars, imageVars, pipelineVars>>

Accounts == INSTANCE Accounts WITH
  rows <- userRows, pc <- userPc, req <- userReq, answer <- userAnswer
\* With the OpenAI key, with fal's alone, and with neither.
ProviderSettings ==
  [VIDEO_GENERATION_PROVIDER : {"auto"}, OPENAI_API_KEY : BOOLEAN, FAL_KEY : BOOLEAN]
Prompts == INSTANCE VideoPrompt WITH snapshot <- input
Media == INSTANCE MediaDelivery WITH settings <- mediaSettings
Drafts == INSTANCE StoryDrafts
\* TMDB answers more candidates than are kept, one that scores nothing, one without
\* a title.
SimilarCandidates ==
  {[id |-> 1, score |-> 2, named |-> TRUE], [id |-> 2, score |-> 1, named |-> TRUE],
   [id |-> 3, score |-> 2, named |-> FALSE], [id |-> 5, score |-> 0, named |-> TRUE]}
Similar == INSTANCE Recommendations WITH movie <- hasMovie, Candidates <- SimilarCandidates
Music == INSTANCE MusicSearch WITH made <- asks
Images == INSTANCE ImageResize WITH answer <- picture
Pipeline == INSTANCE RequestPipeline

Parts == {"accounts", "providers", "prompts", "media", "drafts", "similar", "music", "images",
          "pipeline"}

\* A part that is not exercised begins in one of its initial states.
AppInit ==
  /\ part \in Parts
  /\ Accounts!Init /\ Drafts!Init /\ Similar!Init
  /\ IF part = "providers" THEN TRUE
     ELSE settings = [VIDEO_GENERATION_PROVIDER |-> "auto",
                      OPENAI_API_KEY |-> TRUE, FAL_KEY |-> TRUE]
  /\ Init
  /\ IF part = "prompts" THEN TRUE ELSE input = CHOOSE i \in Prompts!Snapshots : TRUE
  /\ Prompts!Init
  /\ IF part = "media" THEN TRUE
     ELSE mediaSettings = [storage |-> "local", provider |-> "openai", base |-> "path",
                           s3_base |-> CHOOSE b \in Media!S3Bases : TRUE,
                           prefix |-> CHOOSE p \in Media!VideoPrefixes : TRUE]
  /\ Media!Init
  /\ IF part = "music" THEN TRUE ELSE configured = FALSE
  /\ Music!Init
  /\ IF part = "images" THEN TRUE
     ELSE /\ asked = CHOOSE a \in Images!Asked : TRUE
          /\ source = Images!Plain
  /\ Images!Init
  /\ IF part = "pipeline" THEN TRUE
     ELSE req = [r \in Requests |-> [client_id |-> Pipeline!NoId, id |-> Pipeline!NoId,
                                     session |-> "none"]]
  /\ Pipeline!Init

AppNext ==
  /\ IF part = "accounts"  THEN Accounts!Next  ELSE UNCHANGED accountVars
  /\ IF part = "providers" THEN Next           ELSE UNCHANGED providerVars
  /\ IF part = "prompts"   THEN Prompts!Next   ELSE UNCHANGED promptVars
  /\ IF part = "media"     THEN Media!Next     ELSE UNCHANGED mediaVars
  /\ IF part = "drafts"    THEN Drafts!Next    ELSE UNCHANGED draftVars
  /\ IF part = "similar"   THEN Similar!Next   ELSE UNCHANGED similarVars
  /\ IF part = "music"     THEN Music!Next     ELSE UNCHANGED musicVars
  /\ IF part = "images"    THEN Images!Next    ELSE UNCHANGED imageVars
  /\ IF part = "pipeline"  THEN Pipeline!Next  ELSE UNCHANGED pipelineVars
  /\ UNCHANGED part

AppSpec == AppInit /\ [][AppNext]_appVars

\* The fairness of each part, as its module states it.
LiveAppSpec ==
  /\ AppSpec
  /\ WF_providerVars(part = "providers" /\ (Worker \/ Tick) /\ UNCHANGED settings)
  /\ \A r \in Requests :
       WF_draftVars(part = "drafts" /\ (Drafts!AwaitModel(r) \/ Drafts!Update(r)))
  /\ \A p \in Procs : WF_similarVars(part = "similar" /\ Similar!Step(p))
  /\ WF_musicVars(part = "music" /\ Music!Step)

-----------------------------------------------------------------------------
(* The properties of the parts, under names of their own; each module says what *)
(* its property is about and at which lines.                                    *)

\* Every part's variables keep their types, which include: a stored key never
\* leaves the storage, a stored music id fits its column and was offered, a prompt
\* keeps to the provider's limit.
TypesOK ==
  CASE part = "accounts"  -> Accounts!TypeOK
    [] part = "providers" -> TypeOK
    [] part = "prompts"   -> Prompts!TypeOK
    [] part = "media"     -> Media!TypeOK
    [] part = "drafts"    -> Drafts!TypeOK
    [] part = "similar"   -> Similar!TypeOK
    [] part = "music"     -> Music!TypeOK
    [] part = "images"    -> Images!TypeOK
    [] part = "pipeline"  -> Pipeline!TypeOK

\* Signups racing in several spellings make one account per address, which is found
\* under any of them, though the signup failed after its commit.
OneAccountPerAddress == part = "accounts" => Accounts!OneAccountPerAddress
\* No access token for an account suspended before the request that asked for it.
TokensEarned == part = "accounts" => Accounts!TokensEarned

\* Every run ends with its row settled, the worker's death included.
ProviderRunEnds == part = "providers" => RunEnds

\* The story survives the cut, reaches the provider complete when there is room, and
\* blank scenes take no place of it.
StoryKept == part = "prompts" => Prompts!StoryKept

\* The download leads to the very file the latest successful run stored, and a thumbnail
\* that is shown is stored.
LatestIsShown == part = "media" => Media!LatestIsShown
\* No later run overwrites a video that was handed out.
VideosKept == part = "media" => Media!VideosKept

\* Draft with history and brief with prompt are shown in pairs, no upload is lost to a chat
\* that waited for the model, and prompt and history part only where requests overlap.
SummaryConsistent == Drafts!SummaryConsistent
\* A finalized story is replaced only by a chat turn or an older finalize-story.
FinalizedUntilChat == Drafts!FinalizedUntilChat
\* An answered chat turn is lost only to a request that had not seen it.
SeenTurnsKept == Drafts!SeenTurnsKept

\* What is stored is one request's complete result, the best first, however many replace
\* it at once.
OneWholeResult == part = "similar" => Similar!OneWholeResult

\* Every 200 offers music, whichever services are down, and a theme no song twice.
OffersMusic == part = "music" => Music!OffersMusic

\* Chats and finalize-stories are answered though the model times out, requests for similar
\* movies though they wait for each other's gap locks, and the chain of music's fallbacks
\* ends.  Requests, and processes, differ by name only: one stands for all.
RequestsAnswered ==
  /\ Drafts!RequestAnswered(CHOOSE r \in Requests : TRUE)
  /\ Similar!RequestAnswered(CHOOSE p \in Procs : TRUE)
  /\ Music!RequestAnswered

\* The derived side keeps the source's proportions, rounded down.
AspectKept == part = "images" => Images!AspectKept

\* Every answer carries the request's id, and a problem names it wherever it was caught.
AnswersNameTheRequest == part = "pipeline" => Pipeline!AnswersNameTheRequest
\* Each request leaves exactly one access log line, which tells its answer's status and who
\* made it, and no error is answered with its session open.
LogTellsAnswer == part = "pipeline" => Pipeline!LogTellsAnswer
=============================================================================
