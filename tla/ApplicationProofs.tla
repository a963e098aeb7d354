------------------------- MODULE ApplicationProofs --------------------------
(***************************************************************************)
(* Proofs about MCApplication: each part of the application runs as its    *)
(* own module says, so what is proved of that module holds of the          *)
(* application; and the proofs about the parts that have no proof module:  *)
(* the resized images, the music, the delivery of the media, the           *)
(* recommendations, and the prompt.                                        *)
(***************************************************************************)
EXTENDS MCApplication, VideoProvidersProofs, SequenceTheorems, FiniteSetTheorems, TLAPS

AccountFacts == INSTANCE AccountsProofs WITH
  rows <- userRows, pc <- userPc, req <- userReq, answer <- userAnswer
DraftFacts == INSTANCE StoryDraftsProofs
PipelineFacts == INSTANCE RequestPipelineProofs

-----------------------------------------------------------------------------
(* Every part takes its own steps or none *)

\* A behaviour of the application is one of the accounts: they begin as they should, and a
\* step of another part leaves them alone.
LEMMA AccountsRun == AppSpec => Accounts!Spec
<1>1. AppInit => Accounts!Init
  BY DEF AppInit
<1>2. [AppNext]_appVars => [Accounts!Next]_(Accounts!vars)
  BY DEF AppNext, appVars, accountVars, Accounts!vars, Accounts!dbVars, Accounts!procVars
<1> QED
  BY <1>1, <1>2, PTL DEF AppSpec, Accounts!Spec

\* The same of the drafts.
LEMMA DraftsRun == AppSpec => Drafts!Spec
<1>1. AppInit => Drafts!Init
  BY DEF AppInit
<1>2. [AppNext]_appVars => [Drafts!Next]_(Drafts!vars)
  BY DEF AppNext, appVars, draftVars, Drafts!vars
<1> QED
  BY <1>1, <1>2, PTL DEF AppSpec, Drafts!Spec

\* The same of the pipeline.
LEMMA PipelineRuns == AppSpec => Pipeline!Spec
<1>1. AppInit => Pipeline!Init
  BY DEF AppInit
<1>2. [AppNext]_appVars => [Pipeline!Next]_(Pipeline!vars)
  BY DEF AppNext, appVars, pipelineVars, Pipeline!vars
<1> QED
  BY <1>1, <1>2, PTL DEF AppSpec, Pipeline!Spec

\* The same of the images.
LEMMA ImagesRun == AppSpec => Images!Spec
<1>1. AppInit => Images!Init
  BY DEF AppInit
<1>2. [AppNext]_appVars => [Images!Next]_(Images!vars)
  BY DEF AppNext, appVars, imageVars, Images!vars
<1> QED
  BY <1>1, <1>2, PTL DEF AppSpec, Images!Spec

\* The same of the music.
LEMMA MusicRuns == AppSpec => Music!Spec
<1>1. AppInit => Music!Init
  BY DEF AppInit
<1>2. [AppNext]_appVars => [Music!Next]_(Music!vars)
  BY DEF AppNext, appVars, musicVars, Music!vars
<1> QED
  BY <1>1, <1>2, PTL DEF AppSpec, Music!Spec

\* The same of the media.
LEMMA MediaRuns == AppSpec => Media!Spec
<1>1. AppInit => Media!Init
  BY DEF AppInit
<1>2. [AppNext]_appVars => [Media!Next]_(Media!vars)
  BY DEF AppNext, appVars, mediaVars, Media!vars
<1> QED
  BY <1>1, <1>2, PTL DEF AppSpec, Media!Spec

-----------------------------------------------------------------------------
(* The instances the application names and the instances the proofs come with have one *)
(* module and one substitution: their definitions, expanded, are the same.             *)

LEMMA AccountsAlike ==
  /\ Accounts!Init <=> AccountFacts!Init
  /\ [Accounts!Next]_(Accounts!vars) <=> [AccountFacts!Next]_(AccountFacts!vars)
BY DEF Accounts!dbVars, Accounts!procVars, Accounts!vars, Accounts!Ids, Accounts!UserStatus,
       Accounts!Spellings, Accounts!normalize_email, Accounts!NoUser, Accounts!Users,
       Accounts!LoginRequests, Accounts!NoRequest, Accounts!TokenRequests, Accounts!Init,
       Accounts!ActiveIds, Accounts!get_by_email, Accounts!Insertable,
       Accounts!email_already_exists_error, Accounts!invalid_credentials_error,
       Accounts!account_not_active_error, Accounts!invalid_access_token_error,
       Accounts!UnhandledError, Accounts!Goto, Accounts!Answer, Accounts!Begin, Accounts!Signup,
       Accounts!CreateUser, Accounts!verify_password, Accounts!MayLogIn, Accounts!Login,
       Accounts!MarkLastLogin, Accounts!BuildSession, Accounts!Fail, Accounts!MeAllowed,
       Accounts!Me, Accounts!CallMovies, Accounts!Finish, Accounts!AccessTokenExpires,
       Accounts!SetStatus, Accounts!Next, AccountFacts!dbVars, AccountFacts!procVars,
       AccountFacts!vars, AccountFacts!Ids, AccountFacts!UserStatus, AccountFacts!Spellings,
       AccountFacts!normalize_email, AccountFacts!NoUser, AccountFacts!Users,
       AccountFacts!LoginRequests, AccountFacts!NoRequest, AccountFacts!TokenRequests,
       AccountFacts!Init, AccountFacts!ActiveIds, AccountFacts!get_by_email,
       AccountFacts!Insertable, AccountFacts!email_already_exists_error,
       AccountFacts!invalid_credentials_error, AccountFacts!account_not_active_error,
       AccountFacts!invalid_access_token_error, AccountFacts!UnhandledError, AccountFacts!Goto,
       AccountFacts!Answer, AccountFacts!Begin, AccountFacts!Signup, AccountFacts!CreateUser,
       AccountFacts!verify_password, AccountFacts!MayLogIn, AccountFacts!Login,
       AccountFacts!MarkLastLogin, AccountFacts!BuildSession, AccountFacts!Fail,
       AccountFacts!MeAllowed, AccountFacts!Me, AccountFacts!CallMovies, AccountFacts!Finish,
       AccountFacts!AccessTokenExpires, AccountFacts!SetStatus, AccountFacts!Next

LEMMA DraftsAlike ==
  /\ Drafts!Init <=> DraftFacts!Init
  /\ [Drafts!Next]_(Drafts!vars) <=> [DraftFacts!Next]_(DraftFacts!vars)
BY DEF Drafts!vars, Drafts!Null, Drafts!None, Drafts!Deleted, Drafts!Draft, Drafts!NoSnapshot,
       Drafts!Init, Drafts!Found, Drafts!Flush, Drafts!Begin, Drafts!ChatPrompt,
       Drafts!has_story_input, Drafts!NeedsFinalizing, Drafts!FinalizeStory, Drafts!ModelTimesOut,
       Drafts!ModelAnswers, Drafts!AwaitModel, Drafts!AfterChat, Drafts!AfterFinalize,
       Drafts!NewRow, Drafts!Update, Drafts!UploadFile, Drafts!UpdateMusic,
       Drafts!build_video_generation_input, Drafts!GenerateMovie, Drafts!DeleteMovie, Drafts!Idle,
       Drafts!Next, DraftFacts!vars, DraftFacts!Null, DraftFacts!None, DraftFacts!Deleted,
       DraftFacts!Draft, DraftFacts!NoSnapshot, DraftFacts!Init, DraftFacts!Found,
       DraftFacts!Flush, DraftFacts!Begin, DraftFacts!ChatPrompt, DraftFacts!has_story_input,
       DraftFacts!NeedsFinalizing, DraftFacts!FinalizeStory, DraftFacts!ModelTimesOut,
       DraftFacts!ModelAnswers, DraftFacts!AwaitModel, DraftFacts!AfterChat,
       DraftFacts!AfterFinalize, DraftFacts!NewRow, DraftFacts!Update, DraftFacts!UploadFile,
       DraftFacts!UpdateMusic, DraftFacts!build_video_generation_input, DraftFacts!GenerateMovie,
       DraftFacts!DeleteMovie, DraftFacts!Idle, DraftFacts!Next

LEMMA PipelineAlike ==
  /\ Pipeline!Init <=> PipelineFacts!Init
  /\ [Pipeline!Next]_(Pipeline!vars) <=> [PipelineFacts!Next]_(PipelineFacts!vars)
BY DEF Pipeline!NoId, Pipeline!vars, Pipeline!Exceptions, Pipeline!Nothing, Pipeline!Answered,
       Pipeline!Raised, Pipeline!Init, Pipeline!Descends, Pipeline!Returns, Pipeline!Enter,
       Pipeline!Pass, Pipeline!IsAnswer, Pipeline!Assign, Pipeline!Route, Pipeline!Endpoint,
       Pipeline!SessionAfter, Pipeline!EndpointReturns, Pipeline!problem_detail, Pipeline!Statuses, Pipeline!Line, Pipeline!CloseSession,
       Pipeline!Handled, Pipeline!HandlersReturn, Pipeline!CorsReturns, Pipeline!Failed,
       Pipeline!Completed, Pipeline!WithId, Pipeline!ContextReturns,
       Pipeline!unhandled_exception_handler, Pipeline!Leave, Pipeline!Step, Pipeline!Idle,
       Pipeline!Next, PipelineFacts!NoId, PipelineFacts!vars, PipelineFacts!Exceptions,
       PipelineFacts!Nothing, PipelineFacts!Answered, PipelineFacts!Raised, PipelineFacts!Init,
       PipelineFacts!Descends, PipelineFacts!Returns, PipelineFacts!Enter, PipelineFacts!Pass,
       PipelineFacts!IsAnswer, PipelineFacts!Assign, PipelineFacts!Route, PipelineFacts!Endpoint,
       PipelineFacts!SessionAfter, PipelineFacts!EndpointReturns, PipelineFacts!problem_detail,
       PipelineFacts!Statuses, PipelineFacts!Line, PipelineFacts!CloseSession, PipelineFacts!Handled, PipelineFacts!HandlersReturn,
       PipelineFacts!CorsReturns, PipelineFacts!Failed, PipelineFacts!Completed,
       PipelineFacts!WithId, PipelineFacts!ContextReturns,
       PipelineFacts!unhandled_exception_handler, PipelineFacts!Leave, PipelineFacts!Step,
       PipelineFacts!Idle, PipelineFacts!Next

-----------------------------------------------------------------------------
(* Accounts *)

LEMMA AccountSpecs == AppSpec => AccountFacts!Spec
BY AccountsRun, AccountsAlike, PTL DEF Accounts!Spec, AccountFacts!Spec

\* In the application, an address that several signups ask for at once has one account.
THEOREM OneAccount == AppSpec => []OneAccountPerAddress
<1>1. AccountFacts!Spec => []AccountFacts!OneAccountPerAddress
  BY BoundsAssumption, AccountFacts!OneAccount DEF AccountFacts!Bounded
<1>2. AccountFacts!OneAccountPerAddress => OneAccountPerAddress
  BY DEF OneAccountPerAddress, Accounts!OneAccountPerAddress, Accounts!get_by_email,
         Accounts!normalize_email, AccountFacts!OneAccountPerAddress, AccountFacts!get_by_email,
         AccountFacts!normalize_email
<1> QED
  BY <1>1, <1>2, AccountSpecs, PTL

\* In the application, no token is signed for an account suspended before its request began.
THEOREM TokensAreEarned == AppSpec => []TokensEarned
<1>1. AccountFacts!Spec => []AccountFacts!TokensEarned
  BY BoundsAssumption, AccountFacts!TokensAreEarned DEF AccountFacts!Bounded
<1>2. AccountFacts!TokensEarned => TokensEarned
  BY DEF TokensEarned, Accounts!TokensEarned, AccountFacts!TokensEarned
<1> QED
  BY <1>1, <1>2, AccountSpecs, PTL

-----------------------------------------------------------------------------
(* Drafts *)

LEMMA DraftSpecs == AppSpec => DraftFacts!Spec
BY DraftsRun, DraftsAlike, PTL DEF Drafts!Spec, DraftFacts!Spec

\* In the application, whatever chats, finalize-stories and uploads overlap, the columns a
\* summary shows are paired, and its prompt parts from its history only where a request
\* writes over a story it did not load.
THEOREM SummaryIsConsistent == AppSpec => SummaryConsistent
<1>1. DraftFacts!Spec => DraftFacts!SummaryConsistent
  BY BoundsAssumption, DraftFacts!SummaryIsConsistent DEF DraftFacts!Bounded
<1>2. DraftFacts!SummaryConsistent => SummaryConsistent
  BY DEF SummaryConsistent, Drafts!SummaryConsistent, Drafts!Paired, Drafts!StoryAgrees,
         Drafts!Overtaken, Drafts!Found, Drafts!build_summary_response,
         Drafts!get_chat_history, Drafts!vars, Drafts!None, Drafts!Null,
         DraftFacts!SummaryConsistent, DraftFacts!Paired, DraftFacts!StoryAgrees,
         DraftFacts!Overtaken, DraftFacts!Found, DraftFacts!build_summary_response,
         DraftFacts!get_chat_history, DraftFacts!vars, DraftFacts!None, DraftFacts!Null
<1> QED
  BY <1>1, <1>2, DraftSpecs

\* In the application, a finalized story is replaced only by a chat turn, or by a
\* finalize-story begun before it was final.
THEOREM FinalizedStays == AppSpec => FinalizedUntilChat
<1>1. DraftFacts!Spec => DraftFacts!FinalizedUntilChat
  BY BoundsAssumption, DraftFacts!FinalizedStays DEF DraftFacts!Bounded
<1>2. DraftFacts!FinalizedUntilChat => FinalizedUntilChat
  BY DEF FinalizedUntilChat, Drafts!FinalizedUntilChat, Drafts!Found, Drafts!vars, Drafts!Null,
         Drafts!None, DraftFacts!FinalizedUntilChat, DraftFacts!Found, DraftFacts!vars,
         DraftFacts!Null, DraftFacts!None
<1> QED
  BY <1>1, <1>2, DraftSpecs, PTL

\* In the application, a chat turn is lost only to a request that had not seen it.
THEOREM SeenTurnsStay == AppSpec => SeenTurnsKept
<1>1. DraftFacts!Spec => DraftFacts!SeenTurnsKept
  BY BoundsAssumption, DraftFacts!SeenTurnsStay DEF DraftFacts!Bounded
<1>2. DraftFacts!SeenTurnsKept => SeenTurnsKept
  BY DEF SeenTurnsKept, Drafts!SeenTurnsKept, Drafts!Found, Drafts!vars, Drafts!None,
         DraftFacts!SeenTurnsKept, DraftFacts!Found, DraftFacts!vars, DraftFacts!None,
         Drafts!ToSet, DraftFacts!ToSet
<1> QED
  BY <1>1, <1>2, DraftSpecs, PTL

-----------------------------------------------------------------------------
(* The pipeline *)

LEMMA PipelineSpecs == AppSpec => PipelineFacts!Spec
BY PipelineRuns, PipelineAlike, PTL DEF Pipeline!Spec, PipelineFacts!Spec

\* In the application, every answer carries its request's id, wherever it was made.
THEOREM AnswersNameRequests == AppSpec => []AnswersNameTheRequest
<1>1. PipelineFacts!AnswersNameTheRequest => AnswersNameTheRequest
  BY DEF AnswersNameTheRequest, Pipeline!AnswersNameTheRequest, Pipeline!Done, Pipeline!NoId,
         PipelineFacts!AnswersNameTheRequest, PipelineFacts!Done, PipelineFacts!NoId
<1> QED
  BY <1>1, PipelineFacts!AnswersNameRequests, PipelineSpecs, PTL

\* In the application, a request leaves one access log line, which tells its answer, and no
\* error is answered with its session open.
THEOREM LogTellsAnswers == AppSpec => []LogTellsAnswer
<1>1. PipelineFacts!LogTellsAnswer => LogTellsAnswer
  BY DEF LogTellsAnswer, Pipeline!LogTellsAnswer, Pipeline!Done, Pipeline!Line, Pipeline!NoId,
         PipelineFacts!LogTellsAnswer, PipelineFacts!Done, PipelineFacts!Line,
         PipelineFacts!NoId
<1> QED
  BY <1>1, PipelineFacts!LogTellsAnswers, PipelineSpecs, PTL

-----------------------------------------------------------------------------
(* Images *)

\* Integer division rounds down: the quotient is the largest number that fits.
LEMMA DivisionRoundsDown ==
  ASSUME NEW a \in Nat, NEW b \in Nat \ {0}
  PROVE  /\ a \div b \in Nat
         /\ (a \div b) * b <= a
         /\ a < (a \div b + 1) * b
<1> DEFINE q == a \div b
           r == a % b
<1>1. q \in Nat /\ r \in 0 .. b - 1 /\ a = b * q + r
  OBVIOUS
<1> HIDE DEF q, r
<1>2. q * b = b * q /\ (q + 1) * b = b * q + b
  BY <1>1
<1>3. q * b <= a /\ a < (q + 1) * b
  BY <1>1, <1>2
<1> QED
  BY <1>1, <1>3 DEF q

\* The picture answered is the one resize_image makes of what was asked.
ImageInv ==
  /\ asked \in Images!Asked
  /\ source \in Images!Source
  /\ picture = Images!NoAnswer \/ picture = Images!resize_image

LEMMA SourcesAreSource == Images!Sources \subseteq Images!Source
<1>1. Images!Plain \in Images!Source
  BY BoundsAssumption DEF Images!Plain, Images!Source, Images!Types
<1>2. /\ [Images!Plain EXCEPT !.fetched = FALSE] \in Images!Source
      /\ [Images!Plain EXCEPT !.bytes = MAX_SOURCE_BYTES + 1] \in Images!Source
      /\ [Images!Plain EXCEPT !.type = "text/html"] \in Images!Source
      /\ [Images!Plain EXCEPT !.readable = FALSE] \in Images!Source
  BY <1>1 DEF Images!Source, Images!Types
<1> QED
  BY <1>2 DEF Images!Sources

LEMMA ImageInvariant == AppSpec => []ImageInv
<1>1. Images!Init => ImageInv
  BY SourcesAreSource DEF Images!Init, ImageInv
<1>2. ImageInv /\ [Images!Next]_(Images!vars) => ImageInv'
  <2> SUFFICES ASSUME ImageInv, [Images!Next]_(Images!vars) PROVE ImageInv'
    OBVIOUS
  <2>1. CASE Images!Answer
    <3>1. asked' = asked /\ source' = source /\ picture' = Images!resize_image
      BY <2>1 DEF Images!Answer
    <3>2. Images!resize_image' = Images!resize_image
      BY <3>1
      DEF Images!resize_image, Images!Bomb, Images!Resized, Images!Width, Images!Height
    <3> QED
      BY <3>1, <3>2 DEF ImageInv
  <2>2. CASE UNCHANGED Images!vars
    <3>1. asked' = asked /\ source' = source /\ picture' = picture
      BY <2>2 DEF Images!vars
    <3>2. Images!resize_image' = Images!resize_image
      BY <3>1
      DEF Images!resize_image, Images!Bomb, Images!Resized, Images!Width, Images!Height
    <3> QED
      BY <3>1, <3>2 DEF ImageInv
  <2> QED
    BY <2>1, <2>2 DEF Images!Next, Images!Idle
<1> QED
  BY <1>1, <1>2, ImagesRun, PTL DEF Images!Spec

\* What is known of a picture that has a size: it was resized, to sides that are not 0.
LEMMA ResizedIs ==
  ASSUME ImageInv, picture.width > 0 \/ picture.height > 0
  PROVE  /\ asked.width # 0 \/ asked.height # 0
         /\ picture = [status |-> 200, width |-> Images!Width, height |-> Images!Height]
         /\ Images!Width # 0 /\ Images!Height # 0
<1>1. \A status : Images!Refuse(status).width = 0 /\ Images!Refuse(status).height = 0
  BY DEF Images!Refuse, Images!NoAnswer
<1>2. /\ Images!NoAnswer.width = 0 /\ Images!NoAnswer.height = 0
      /\ Images!Original.width = 0 /\ Images!Original.height = 0
  BY DEF Images!NoAnswer, Images!Original
<1>3. picture = Images!resize_image
  BY <1>2 DEF ImageInv
<1>4. picture = Images!Resized(Images!Width, Images!Height) /\ (asked.width # 0 \/ asked.height # 0)
  BY <1>1, <1>2, <1>3 DEF Images!resize_image
<1> QED
  BY <1>1, <1>4 DEF Images!Resized

\* The side that is not asked for is the source's proportion, rounded down.
THEOREM AspectIsKept == AppSpec => []AspectKept
<1>1. ImageInv => AspectKept
  <2> SUFFICES ASSUME ImageInv, picture.width > 0
               PROVE
                 /\ asked.height = 0 =>
                      /\ picture.width = asked.width
                      /\ picture.height * source.width <= source.height * asked.width
                      /\ source.height * asked.width < (picture.height + 1) * source.width
                 /\ asked.width = 0 =>
                      /\ picture.height = asked.height
                      /\ picture.width * source.height <= source.width * asked.height
                      /\ source.width * asked.height < (picture.width + 1) * source.height
    BY DEF AspectKept, Images!AspectKept
  <2>1. /\ asked.width \in Nat /\ asked.height \in Nat
        /\ source.width \in Nat \ {0} /\ source.height \in Nat \ {0}
    BY BoundsAssumption DEF ImageInv, Images!Asked, Images!Source
  <2>2. /\ asked.width # 0 \/ asked.height # 0
        /\ picture.width = Images!Width /\ picture.height = Images!Height
    BY ResizedIs
  <2>3. ASSUME asked.height = 0
        PROVE  /\ picture.width = asked.width
               /\ picture.height * source.width <= source.height * asked.width
               /\ source.height * asked.width < (picture.height + 1) * source.width
    <3> DEFINE a == source.height * asked.width
    <3>1. a \in Nat
      BY <2>1
    <3>2. picture.width = asked.width /\ picture.height = a \div source.width
      BY <2>2, <2>3 DEF Images!Width, Images!Height, Images!Scaled
    <3> HIDE DEF a
    <3>3. picture.height * source.width <= a /\ a < (picture.height + 1) * source.width
      BY <2>1, <3>1, <3>2, DivisionRoundsDown
    <3> QED
      BY <3>2, <3>3 DEF a
  <2>4. ASSUME asked.width = 0
        PROVE  /\ picture.height = asked.height
               /\ picture.width * source.height <= source.width * asked.height
               /\ source.width * asked.height < (picture.width + 1) * source.height
    <3> DEFINE a == source.width * asked.height
    <3>1. a \in Nat
      BY <2>1
    <3>2. picture.height = asked.height /\ picture.width = a \div source.height
      BY <2>2, <2>4 DEF Images!Width, Images!Height, Images!Scaled
    <3> HIDE DEF a
    <3>3. picture.width * source.height <= a /\ a < (picture.width + 1) * source.height
      BY <2>1, <3>1, <3>2, DivisionRoundsDown
    <3> QED
      BY <3>2, <3>3 DEF a
  <2> QED
    BY <2>3, <2>4
<1> QED
  BY <1>1, ImageInvariant, PTL

-----------------------------------------------------------------------------
(* Music *)

SongIds == Songs \cup 9001 .. 9003 \cup 2000 .. 2002
Tracks == [song : SongIds, id : SongIds, playable : BOOLEAN]

DistinctIds(ts) == \A i, j \in DOMAIN ts : ts[i].id = ts[j].id => i = j

\* What a request has gathered where it stands: a theme's search has at most one track for
\* each seed looked up, each with an id of its own; while previews are attached there are
\* what Spotify found; elsewhere nothing.
GatheredOK ==
  /\ call \in Music!RecommendCalls \cup {"idle", "theme", "no_theme"}
  /\ tracks \in Seq(Tracks)
  /\ next \in 1 .. 4
  /\ call = "theme" => next <= 3 /\ Len(tracks) < next /\ DistinctIds(tracks)
  /\ call \in {"attach", "attach_again"} => Len(tracks) <= 2 /\ next <= Len(tracks) + 1
  /\ call \notin {"theme", "attach", "attach_again"} => tracks = <<>>

ChoiceOK ==
  /\ music_id = Music!NoMusic \/ music_id \in offered
  /\ music_id.id <= MaxMusicId

MusicInv == GatheredOK /\ ChoiceOK /\ answer.status \in {0, 200, 500} /\ Music!OffersMusic

\* What the searches can find.
LEMMA SearchesFindTracks ==
  /\ \A n \in Nat : \A found \in Music!DeezerSearch(n) :
       /\ found \in Seq(Tracks)
       /\ found # <<>> => found[1] \in Tracks
  /\ \A found \in Music!SpotifySearch : found \in Seq(Tracks) /\ Len(found) <= 2
<1>1. ASSUME NEW n \in Nat, NEW s \in Music!Found(n)
      PROVE  /\ s \in Seq(Songs) /\ Len(s) <= n /\ DOMAIN s = 1 .. Len(s) /\ Len(s) \in Nat
  <2>1. PICK m \in 0 .. n : s \in [1 .. m -> Songs]
    BY <1>1 DEF Music!Found
  <2> QED
    BY <2>1
<1>2. ASSUME NEW n \in Nat, NEW found \in Music!DeezerSearch(n)
      PROVE  found \in Seq(Tracks) /\ (found # <<>> => found[1] \in Tracks)
  <2>1. PICK s \in Music!Found(n) : found = [i \in DOMAIN s |-> Music!DeezerTrack(s[i])]
    BY <1>2 DEF Music!DeezerSearch
  <2>2. DOMAIN s = 1 .. Len(s) /\ Len(s) \in Nat /\ \A i \in 1 .. Len(s) : s[i] \in Songs
    BY <1>1
  <2>3. \A i \in 1 .. Len(s) : Music!DeezerTrack(s[i]) \in Tracks
    BY <2>2 DEF Music!DeezerTrack, Tracks, SongIds
  <2>4. found \in [1 .. Len(s) -> Tracks]
    BY <2>1, <2>2, <2>3
  <2>5. found \in Seq(Tracks) /\ Len(found) = Len(s)
    BY <2>2, <2>4
  <2>6. found # <<>> => Len(found) # 0
    BY <2>5
  <2> QED
    BY <2>2, <2>4, <2>5, <2>6
<1>3. ASSUME NEW found \in Music!SpotifySearch
      PROVE  found \in Seq(Tracks) /\ Len(found) <= 2
  <2>1. PICK s \in Music!Found(2) : \E p \in [DOMAIN s -> BOOLEAN] :
          found = [i \in DOMAIN s |-> Music!SpotifyTrack(s[i], i, p[i])]
    BY <1>3 DEF Music!SpotifySearch, Music!MaxFound
  <2>2. PICK p \in [DOMAIN s -> BOOLEAN] :
          found = [i \in DOMAIN s |-> Music!SpotifyTrack(s[i], i, p[i])]
    BY <2>1
  <2>3. s \in Seq(Songs) /\ Len(s) <= 2 /\ DOMAIN s = 1 .. Len(s) /\ Len(s) \in Nat
    BY <1>1, 2 \in Nat
  <2>4. Len(s) \in 0 .. 2 /\ \A i \in 1 .. Len(s) : s[i] \in Songs
    BY <2>3
  <2>5. \A i \in 1 .. Len(s) : Music!SpotifyTrack(s[i], i, p[i]) \in Tracks
    BY <2>3, <2>4 DEF Music!SpotifyTrack, Music!SpotifyBase, Tracks, SongIds
  <2>6. found \in [1 .. Len(s) -> Tracks]
    BY <2>2, <2>3, <2>5
  <2> QED
    BY <2>4, <2>6
<1> QED
  BY <1>2, <1>3

\* The stored files of a theme and the titles of last resort: never none, no id twice.
LEMMA CatalogueOffers ==
  /\ Music!ThemeTracks # <<>> /\ DistinctIds(Music!ThemeTracks)
  /\ Music!MockTracks # <<>>
<1>1. ASSUME NEW playable
      PROVE  /\ Music!Catalogue(3, playable) # <<>>
             /\ DistinctIds(Music!Catalogue(3, playable))
  BY DEF Music!Catalogue, DistinctIds
<1> QED
  BY <1>1 DEF Music!ThemeTracks, Music!MockTracks, Music!Seeds

\* A song two seeds find is taken once.
LEMMA AppendNewKeeps ==
  ASSUME NEW ts \in Seq(Tracks), DistinctIds(ts), NEW t \in Tracks
  PROVE  /\ Music!AppendNew(ts, t) \in Seq(Tracks)
         /\ DistinctIds(Music!AppendNew(ts, t))
         /\ Len(Music!AppendNew(ts, t)) <= Len(ts) + 1
<1>1. CASE \E i \in DOMAIN ts : ts[i].id = t.id
  BY <1>1 DEF Music!AppendNew
<1>2. CASE ~\E i \in DOMAIN ts : ts[i].id = t.id
  <2> DEFINE a == Append(ts, t)
  <2>1. /\ a \in Seq(Tracks) /\ Len(a) = Len(ts) + 1 /\ a[Len(ts) + 1] = t
        /\ \A i \in 1 .. Len(ts) : a[i] = ts[i]
    OBVIOUS
  <2>2. DOMAIN ts = 1 .. Len(ts) /\ DOMAIN a = 1 .. Len(ts) + 1 /\ Len(ts) \in Nat
    BY <2>1
  <2> HIDE DEF a
  <2>3. DistinctIds(a)
    BY <1>2, <2>1, <2>2 DEF DistinctIds
  <2> QED
    BY <1>2, <2>1, <2>2, <2>3 DEF Music!AppendNew, a
<1> QED
  BY <1>1, <1>2

\* The steps that answer with what they have, or go on to the next call.
LEMMA RespondKeeps ==
  ASSUME MusicInv, NEW status \in {200, 500}, NEW ts, NEW message,
         Music!Respond(status, ts, message),
         status = 200 /\ message # "no_theme" => ts # <<>>,
         message = "theme" => DistinctIds(ts)
  PROVE  MusicInv'
<1>1. /\ call' = "idle" /\ tracks' = <<>> /\ next' = 1
      /\ answer' = [status |-> status, tracks |-> ts, message |-> message]
      /\ offered \subseteq offered' /\ music_id' = music_id
  BY DEF Music!Respond, Music!Goto
<1>2. GatheredOK'
  BY <1>1 DEF GatheredOK, Music!RecommendCalls
<1>3. ChoiceOK'
  BY <1>1 DEF MusicInv, ChoiceOK
<1>4. Music!OffersMusic'
  BY <1>1 DEF Music!OffersMusic, DistinctIds
<1> QED
  BY <1>1, <1>2, <1>3, <1>4 DEF MusicInv

LEMMA GoesOn ==
  ASSUME MusicInv, GatheredOK', UNCHANGED <<answer, offered, music_id>>
  PROVE  MusicInv'
BY DEF MusicInv, ChoiceOK, Music!OffersMusic

\* A request begins, or goes on with nothing gathered.
LEMMA FreshKeeps ==
  ASSUME MusicInv, NEW c \in Music!RecommendCalls \cup {"theme", "no_theme"},
         c \notin {"attach", "attach_again"}, Music!Goto(c, <<>>, 1),
         UNCHANGED <<answer, offered, music_id>>
  PROVE  MusicInv'
<1>1. call' = c /\ tracks' = <<>> /\ next' = 1
  BY DEF Music!Goto
<1>2. <<>> \in Seq(Tracks) /\ Len(<<>>) = 0 /\ DistinctIds(<<>>)
  BY DEF DistinctIds
<1>3. GatheredOK'
  BY <1>1, <1>2 DEF GatheredOK, DistinctIds
<1> QED
  BY <1>3, GoesOn

LEMMA InitMusic == Music!Init => MusicInv
<1> SUFFICES ASSUME Music!Init PROVE MusicInv
  OBVIOUS
<1>1. GatheredOK
  BY DEF Music!Init, GatheredOK, Music!RecommendCalls
<1>2. ChoiceOK
  BY BoundsAssumption DEF Music!Init, ChoiceOK, Music!NoMusic
<1> QED
  BY <1>1, <1>2 DEF MusicInv, Music!Init, Music!NoAnswer, Music!OffersMusic

LEMMA BeginsKeep ==
  ASSUME MusicInv, Music!GetMusicByTheme \/ Music!RecommendMusic PROVE MusicInv'
<1>1. PICK c \in {"theme", "no_theme", "token", "deezer_only"} : Music!Begin(c)
  BY DEF Music!GetMusicByTheme, Music!RecommendMusic
<1> QED
  BY <1>1, FreshKeeps DEF Music!Begin, Music!RecommendCalls

LEMMA ThemeSearchKeeps == ASSUME MusicInv, Music!ThemeSearch PROVE MusicInv'
<1>1. PICK found \in Music!DeezerSearch(1) :
        LET ts == IF found = <<>> THEN tracks ELSE Music!AppendNew(tracks, found[1]) IN
          IF next < Music!Seeds THEN Music!Goto("theme", ts, next + 1) /\ Music!Quiet
          ELSE Music!Respond(200, IF ts = <<>> THEN Music!ThemeTracks ELSE ts, "theme")
  BY DEF Music!ThemeSearch
<1> DEFINE ts == IF found = <<>> THEN tracks ELSE Music!AppendNew(tracks, found[1])
<1>2. /\ tracks \in Seq(Tracks) /\ DistinctIds(tracks) /\ Len(tracks) < next
      /\ next \in 1 .. 4 /\ next <= 3
  BY DEF Music!ThemeSearch, MusicInv, GatheredOK
<1>3. found # <<>> => found[1] \in Tracks
  BY SearchesFindTracks, 1 \in Nat
<1>4. ts \in Seq(Tracks) /\ DistinctIds(ts) /\ Len(ts) <= Len(tracks) + 1
  BY <1>2, <1>3, AppendNewKeeps
<1>5. \/ next < Music!Seeds /\ Music!Goto("theme", ts, next + 1) /\ Music!Quiet
      \/ Music!Respond(200, IF ts = <<>> THEN Music!ThemeTracks ELSE ts, "theme")
  BY <1>1
<1> HIDE DEF ts
<1>6. CASE next < Music!Seeds /\ Music!Goto("theme", ts, next + 1) /\ Music!Quiet
  <2>1. call' = "theme" /\ tracks' = ts /\ next' = next + 1 /\ next < 3
    BY <1>6 DEF Music!Goto, Music!Seeds
  <2>2. Len(ts) \in Nat /\ Len(tracks) \in Nat
    BY <1>2, <1>4
  <2>3. next' \in 1 .. 4 /\ next' <= 3 /\ Len(tracks') < next'
    BY <1>2, <1>4, <2>1, <2>2
  <2>4. GatheredOK'
    BY <1>4, <2>1, <2>3 DEF GatheredOK, DistinctIds
  <2> QED
    BY <1>6, <2>4, GoesOn DEF Music!Quiet
<1>7. CASE Music!Respond(200, IF ts = <<>> THEN Music!ThemeTracks ELSE ts, "theme")
  <2> DEFINE offer == IF ts = <<>> THEN Music!ThemeTracks ELSE ts
  <2>1. offer # <<>> /\ DistinctIds(offer)
    BY <1>4, CatalogueOffers
  <2> HIDE DEF offer
  <2> QED
    BY <1>7, <2>1, RespondKeeps DEF offer
<1> QED
  BY <1>5, <1>6, <1>7

LEMMA SpotifyKeeps == ASSUME MusicInv, Music!Spotify PROVE MusicInv'
<1>1. PICK attach \in {"attach", "attach_again"}, found \in Music!SpotifySearch :
        Music!Goto(attach, found, 1) /\ Music!Quiet
  BY DEF Music!Spotify, Music!SpotifyFinds
<1>2. call' = attach /\ tracks' = found /\ next' = 1
  BY <1>1 DEF Music!Goto
<1>3. found \in Seq(Tracks) /\ Len(found) <= 2 /\ Len(found) \in Nat
  BY SearchesFindTracks
<1>4. GatheredOK'
  BY <1>2, <1>3 DEF GatheredOK, Music!RecommendCalls
<1> QED
  BY <1>1, <1>4, GoesOn DEF Music!Quiet

LEMMA AttachPreviewKeeps == ASSUME MusicInv, Music!AttachPreview PROVE MusicInv'
<1>1. /\ call \in {"attach", "attach_again"} /\ next \in 1 .. Len(tracks)
      /\ tracks \in Seq(Tracks) /\ Len(tracks) <= 2 /\ Music!Quiet
  BY DEF Music!AttachPreview, MusicInv, GatheredOK
<1>2. PICK found \in BOOLEAN :
        Music!Goto(call, [tracks EXCEPT ![next].playable = @ \/ found], next + 1)
  BY DEF Music!AttachPreview
<1> DEFINE t == [tracks[next] EXCEPT !.playable = tracks[next].playable \/ found]
<1>3. tracks[next] \in Tracks
  BY <1>1
<1>4. t \in Tracks
  BY <1>3 DEF Tracks
<1>5. call' = call /\ tracks' = [tracks EXCEPT ![next] = t] /\ next' = next + 1
  BY <1>2 DEF Music!Goto
<1> HIDE DEF t
<1>6. tracks' \in Seq(Tracks) /\ Len(tracks') = Len(tracks)
  BY <1>1, <1>4, <1>5
<1>7. Len(tracks) \in Nat /\ next' \in 1 .. 4 /\ next' <= Len(tracks) + 1
  BY <1>1, <1>5
<1>8. GatheredOK'
  BY <1>1, <1>5, <1>6, <1>7 DEF MusicInv, GatheredOK
<1> QED
  BY <1>1, <1>8, GoesOn DEF Music!Quiet

LEMMA OtherMusicSteps ==
  ASSUME MusicInv,
         Music!UnknownTheme \/ Music!Token \/ Music!Attached \/ Music!DeezerFinds \/ Music!CallFails
  PROVE  MusicInv'
<1>1. CASE Music!UnknownTheme
  BY <1>1, RespondKeeps DEF Music!UnknownTheme
<1>2. CASE Music!Token
  BY <1>2, FreshKeeps DEF Music!Token, Music!Quiet, Music!RecommendCalls
<1>3. CASE Music!Attached
  <2>1. CASE tracks = <<>>
    <3>1. PICK c \in {"spotify_again", "deezer_last"} : Music!Goto(c, <<>>, 1) /\ Music!Quiet
      BY <1>3, <2>1 DEF Music!Attached, Music!AfterEmpty
    <3> QED
      BY <3>1, FreshKeeps DEF Music!Quiet, Music!RecommendCalls
  <2>2. CASE tracks # <<>>
    BY <1>3, <2>2, RespondKeeps DEF Music!Attached
  <2> QED
    BY <2>1, <2>2
<1>4. CASE Music!DeezerFinds
  <2>1. PICK found : \/ found # <<>> /\ Music!Respond(200, found, "found")
                     \/ Music!Respond(200, Music!MockTracks,
                                      IF call = "fallback" THEN "error" ELSE "mock")
    BY <1>4 DEF Music!DeezerFinds
  <2>2. CASE found # <<>> /\ Music!Respond(200, found, "found")
    BY <2>2, RespondKeeps
  <2>3. CASE Music!Respond(200, Music!MockTracks, IF call = "fallback" THEN "error" ELSE "mock")
    <3> DEFINE message == IF call = "fallback" THEN "error" ELSE "mock"
    <3>1. message # "theme"
      OBVIOUS
    <3> HIDE DEF message
    <3> QED
      BY <2>3, <3>1, CatalogueOffers, RespondKeeps DEF message
  <2> QED
    BY <2>1, <2>2, <2>3
<1>5. CASE Music!CallFails
  <2>1. CASE Music!Respond(500, <<>>, call)
    BY <2>1, RespondKeeps DEF DistinctIds
  <2>2. CASE Music!Goto("fallback", <<>>, 1) /\ Music!Quiet
    BY <2>2, FreshKeeps DEF Music!Quiet, Music!RecommendCalls
  <2> QED
    BY <1>5, <2>1, <2>2 DEF Music!CallFails
<1> QED
  BY <1>1, <1>2, <1>3, <1>4, <1>5

\* A music id is stored only if a client was offered it and it fits the column.
LEMMA UpdateMusicKeeps == ASSUME MusicInv, Music!UpdateMusic PROVE MusicInv'
<1>1. UNCHANGED <<call, tracks, next, offered>>
  BY DEF Music!UpdateMusic
<1>2. GatheredOK'
  BY <1>1 DEF MusicInv, GatheredOK
<1>3. PICK track \in offered :
        \/ Music!Fits(track.id) /\ music_id' = track /\ answer' = Music!NoAnswer
        \/ /\ music_id' = music_id
           /\ answer' = [Music!NoAnswer EXCEPT !.status = 500, !.message = "choice"]
  BY DEF Music!UpdateMusic
<1>4. ChoiceOK'
  BY <1>1, <1>3 DEF MusicInv, ChoiceOK, Music!Fits
<1>5. answer'.status \in {0, 500} /\ answer'.message \in {"none", "choice"}
  <2>1. CASE answer' = Music!NoAnswer
    BY <2>1 DEF Music!NoAnswer
  <2>2. CASE answer' = [Music!NoAnswer EXCEPT !.status = 500, !.message = "choice"]
    <3>1. answer' = [status |-> 500, tracks |-> <<>>, message |-> "choice"]
      BY <2>2 DEF Music!NoAnswer
    <3> QED
      BY <3>1
  <2> QED
    BY <1>3, <2>1, <2>2
<1> QED
  BY <1>2, <1>4, <1>5 DEF MusicInv, Music!OffersMusic

LEMMA MusicInvariant == AppSpec => []MusicInv
<1>1. MusicInv /\ [Music!Next]_(Music!vars) => MusicInv'
  <2> SUFFICES ASSUME MusicInv, [Music!Next]_(Music!vars) PROVE MusicInv'
    OBVIOUS
  <2>1. CASE UNCHANGED Music!vars
    BY <2>1 DEF Music!vars, MusicInv, GatheredOK, ChoiceOK, Music!OffersMusic
  <2> QED
    BY <2>1, BeginsKeep, ThemeSearchKeeps, SpotifyKeeps, AttachPreviewKeeps, OtherMusicSteps,
       UpdateMusicKeeps DEF Music!Next, Music!Step, Music!Idle
<1> QED
  BY <1>1, InitMusic, MusicRuns, PTL DEF Music!Spec

\* Whichever of the services fail, a 200 comes with tracks, and a theme's with no song twice.
THEOREM MusicIsOffered == AppSpec => []OffersMusic
<1>1. MusicInv => OffersMusic
  BY DEF MusicInv, OffersMusic
<1> QED
  BY <1>1, MusicInvariant, PTL

-----------------------------------------------------------------------------
(* Media: keys and URLs *)

\* The segments that occur in prefixes, in the names of objects and in public bases.
Words == {"", ".", "..", "a", "b", "generated", "videos", "media", "files",
          "v1.mp4", "v2.mp4", "v3.mp4", "v1.webp", "v2.webp", "v3.webp"}
Segments == Seq(Words)
BadSegments == {"", ".", ".."}

\* A prefix without the slash it begins with.
Unslashed(prefix) == IF prefix # <<>> /\ Head(prefix) = "" THEN Tail(prefix) ELSE prefix

\* A sequence with a name behind it ends in that name.
LEMMA NamedEnds ==
  ASSUME NEW u \in Segments, NEW name \in Words
  PROVE  /\ u \o <<name>> \in Segments
         /\ u \o <<name>> # <<>> /\ Media!Last(u \o <<name>>) = name
<1> DEFINE parts == Append(u, name)
<1>1. u \o <<name>> = parts
  BY AppendIsConcat DEF Segments
<1>2. /\ parts \in Segments /\ parts # <<>>
      /\ Len(parts) = Len(u) + 1 /\ parts[Len(u) + 1] = name
  BY AppendProperties DEF Segments
<1> HIDE DEF parts
<1>3. Media!Last(parts) = name
  BY <1>2 DEF Media!Last
<1> QED
  BY <1>1, <1>2, <1>3

\* What a prefix and a name contain.
LEMMA RangeOfNamed ==
  ASSUME NEW u \in Segments, NEW name \in Words
  PROVE  Media!Range(u \o <<name>>) = Media!Range(u) \cup {name}
<1> DEFINE parts == Append(u, name)
<1>1. u \o <<name>> = parts
  BY AppendIsConcat DEF Segments
<1>2. /\ parts \in Seq(Words) /\ Len(parts) = Len(u) + 1 /\ parts[Len(u) + 1] = name
      /\ \A i \in 1 .. Len(u) : parts[i] = u[i]
  <2>1. parts \in Seq(Words)
    BY AppendProperties DEF Segments
  <2>2. Len(parts) = Len(u) + 1
    BY AppendProperties DEF Segments
  <2>3. parts[Len(u) + 1] = name
    BY AppendProperties DEF Segments
  <2>4. \A i \in 1 .. Len(u) : parts[i] = u[i]
    BY AppendProperties DEF Segments
  <2> QED BY <2>1, <2>2, <2>3, <2>4
<1> HIDE DEF parts
<1>3. /\ DOMAIN parts = 1 .. Len(u) + 1 /\ DOMAIN u = 1 .. Len(u) /\ Len(u) \in Nat
  BY <1>2 DEF Segments
<1>4. ASSUME NEW x \in Media!Range(u) \cup {name} PROVE x \in Media!Range(parts)
  <2>1. CASE x = name
    BY <1>2, <1>3, <2>1 DEF Media!Range
  <2>2. CASE x \in Media!Range(u)
    <3>1. PICK i \in 1 .. Len(u) : x = u[i]
      BY <1>3, <2>2 DEF Media!Range
    <3>2. i \in 1 .. Len(u) + 1 /\ x = parts[i]
      BY <1>2, <1>3, <3>1
    <3> QED
      BY <1>3, <3>2 DEF Media!Range
  <2> QED
    BY <2>1, <2>2
<1>5. ASSUME NEW x \in Media!Range(parts) PROVE x \in Media!Range(u) \cup {name}
  <2>1. PICK i \in 1 .. Len(u) + 1 : x = parts[i]
    BY <1>3 DEF Media!Range
  <2>2. i \in 1 .. Len(u) \/ i = Len(u) + 1
    BY <1>3, <2>1
  <2> QED
    BY <1>2, <1>3, <2>1, <2>2 DEF Media!Range
<1> QED
  BY <1>1, <1>4, <1>5

\* strip takes one empty segment from the front of a prefix, and none from an object's name.
LEMMA StripIs ==
  ASSUME NEW prefix \in Segments, NEW name \in Words, name # ""
  PROVE  /\ Media!strip(prefix \o <<name>>) = Unslashed(prefix) \o <<name>>
         /\ Unslashed(prefix) \in Segments
<1> DEFINE key == prefix \o <<name>>
           first == IF key # <<>> /\ Head(key) = "" THEN Tail(key) ELSE key
           whole == Unslashed(prefix) \o <<name>>
<1>1. Unslashed(prefix) \in Segments
  BY HeadTailProperties DEF Unslashed, Segments
<1>2. first = whole
  <2>1. CASE prefix = <<>>
    <3>1. key = Append(prefix, name)
      BY AppendIsConcat DEF Segments
    <3>2. Head(key) = name
      BY <2>1, <3>1, HeadTailAppend DEF Segments
    <3>3. first = key
      BY <3>2
    <3> QED
      BY <2>1, <3>3 DEF Unslashed
  <2>2. CASE prefix # <<>>
    <3>1. key = Append(prefix, name) /\ Tail(prefix) \in Segments
      BY <2>2, AppendIsConcat, HeadTailProperties DEF Segments
    <3>2. Head(key) = Head(prefix) /\ key # <<>>
      BY <2>2, <3>1, HeadTailAppend, NamedEnds DEF Segments
    <3>3. Tail(key) = Tail(prefix) \o <<name>>
      <4>1. Append(Tail(prefix), name) = Tail(prefix) \o <<name>>
        BY <3>1, AppendIsConcat DEF Segments
      <4>2. Tail(Append(prefix, name)) = Append(Tail(prefix), name)
        BY <2>2, HeadTailAppend DEF Segments
      <4> QED
        BY <3>1, <4>1, <4>2
    <3> QED
      BY <2>2, <3>2, <3>3 DEF Unslashed
  <2> QED
    BY <2>1, <2>2
<1>3. whole # <<>> /\ Media!Last(whole) = name
  BY <1>1, NamedEnds
<1>4. Media!strip(key) = IF first # <<>> /\ Media!Last(first) = "" THEN Media!Front(first) ELSE first
  BY DEF Media!strip
<1> HIDE DEF first, whole, key
<1>5. Media!strip(key) = whole
  BY <1>2, <1>3, <1>4
<1> QED
  BY <1>1, <1>5 DEF key, whole

\* The key of an object: refused for a bad segment of the prefix, else the prefix and the name.
LEMMA ObjectKey ==
  ASSUME NEW prefix \in Segments, NEW name \in Words, name \notin BadSegments
  PROVE  Media!build_storage_key(prefix, name) =
           IF Media!Range(Unslashed(prefix)) \cap BadSegments # {} THEN Media!Refused
           ELSE Unslashed(prefix) \o <<name>>
<1> DEFINE u == Unslashed(prefix)
           parts == u \o <<name>>
<1>1. u \in Segments /\ Media!strip(prefix \o <<name>>) = parts
  BY StripIs DEF BadSegments
<1> HIDE DEF u
<1>2. parts # <<>>
  BY <1>1 DEF Segments
<1>3. Media!Range(parts) = Media!Range(u) \cup {name}
  BY <1>1, RangeOfNamed
<1> HIDE DEF parts
<1>4. Media!Range(parts) \cap BadSegments # {} <=> Media!Range(u) \cap BadSegments # {}
  BY <1>3
<1> QED
  BY <1>1, <1>2, <1>4
  DEF Media!build_storage_key, Media!normalize_storage_key, BadSegments, u, parts

\* What follows for one object: its key is clean and ends in its name.
LEMMA KeyIsClean ==
  ASSUME NEW prefix \in Segments, NEW name \in Words, name \notin BadSegments,
         Media!build_storage_key(prefix, name) # Media!Refused
  PROVE  /\ Media!build_storage_key(prefix, name) \in Segments
         /\ Media!build_storage_key(prefix, name) # <<>>
         /\ Media!Last(Media!build_storage_key(prefix, name)) = name
         /\ Media!Range(Media!build_storage_key(prefix, name)) \cap BadSegments = {}
<1> DEFINE u == Unslashed(prefix)
           parts == u \o <<name>>
<1>1. u \in Segments
  BY StripIs DEF BadSegments
<1>2. Media!build_storage_key(prefix, name) = parts /\ Media!Range(u) \cap BadSegments = {}
  BY ObjectKey
<1> HIDE DEF u
<1>3. parts \in Segments /\ parts # <<>> /\ Media!Last(parts) = name
  BY <1>1, NamedEnds
<1>4. Media!Range(parts) = Media!Range(u) \cup {name}
  BY <1>1, RangeOfNamed
<1> HIDE DEF parts
<1>5. Media!Range(parts) \cap BadSegments = {}
  BY <1>2, <1>4
<1> QED
  BY <1>2, <1>3, <1>5

\* Reading a URL back: the path is what was joined, and without the base it is the key.
LEMMA UrlReadsBack ==
  ASSUME NEW host, NEW base \in Segments, NEW key \in Segments
  PROVE  /\ Media!PathOf(Media!join_public_url(host, base, key)) = base \o key
         /\ key # <<>> => Media!StartsWith(base \o key, base)
         /\ Media!removeprefix(base \o key, base) = key
         /\ Media!join_public_url(host, base, key).host = host
<1> DEFINE joined == base \o key
<1>1. /\ joined \in Segments /\ Len(joined) = Len(base) + Len(key)
      /\ DOMAIN joined = 1 .. Len(base) + Len(key) /\ Len(base) \in Nat /\ Len(key) \in Nat
      /\ \A i \in 1 .. Len(base) : joined[i] = base[i]
      /\ \A i \in 1 .. Len(key) : joined[Len(base) + i] = key[i]
  BY DEF Segments
<1>2. Media!PathOf(Media!join_public_url(host, base, key)) =
        [i \in 1 .. Len(base) + Len(key) |-> joined[i]]
  BY DEF Media!PathOf, Media!unquote, Media!join_public_url, Media!quote
<1>3. joined = [i \in 1 .. Len(base) + Len(key) |-> joined[i]]
  <2> HIDE DEF joined
  <2>1. joined \in [1 .. Len(joined) -> Words]
    BY <1>1 DEF Segments
  <2> QED
    BY <1>1, <2>1
<1>4. key # <<>> => Media!StartsWith(joined, base)
  <2> SUFFICES ASSUME key # <<>> PROVE Media!StartsWith(joined, base)
    OBVIOUS
  <2>1. Len(key) # 0
    BY DEF Segments
  <2>2. joined # base
    BY <1>1, <2>1
  <2>3. SubSeq(base, 1, Len(base)) = SubSeq(joined, 1, Len(base))
    BY <1>1 DEF Segments
  <2> QED
    BY <1>1, <2>2, <2>3 DEF Media!StartsWith, Media!IsStrictPrefix, Media!IsPrefix
<1>5. Media!removeprefix(joined, base) = key
  BY <1>1 DEF Media!removeprefix, Segments
<1>6. Media!join_public_url(host, base, key).host = host
  BY DEF Media!join_public_url
<1> QED
  BY <1>2, <1>3, <1>4, <1>5, <1>6

-----------------------------------------------------------------------------
(* Media: what a run stores stays what it stored *)

Statuses == {"RUNNING", "SUCCEEDED", "FAILED", "CANCELED", "DELETED"}
Hosts == {"none", "self", "api.example.com", "s3", "provider"}
Urls == [host : Hosts, path : Seq([quoted : Words])]
GenerationRows == [status : Statuses, stored : {"nothing", "video", "both"},
            output_url : Urls, thumbnail_url : Urls]
MediaSettings == [storage : StorageProviders, provider : VideoProviders, base : LocalBases,
                  s3_base : Media!S3Bases, prefix : Media!VideoPrefixes]

\* The object a run stores under one of its two names.
ObjectNames(k) == {Media!video_name[k], Media!thumbnail_name[k]}
Stored(p, name, k) == [key |-> Media!build_storage_key(p, name), video |-> k]

\* Every object was stored by one run, under a name of that run and a key that was accepted.
FilesOK(p, fs) ==
  \A f \in fs : \E k \in 1 .. 3 : \E name \in ObjectNames(k) :
    f = Stored(p, name, k) /\ f.key # Media!Refused

\* What a job says it stored is there.
StoredOK(p, provider, fs, job, k) ==
  job.stored # "nothing" =>
    /\ provider = "openai" /\ Media!build_storage_key(p, Media!video_name[k]) # Media!Refused
    /\ Stored(p, Media!video_name[k], k) \in fs
    /\ job.stored = "both" => Stored(p, Media!thumbnail_name[k], k) \in fs

\* What a job shows is what its run stored, under the URL of that object.
ShownOK(k) ==
  IF jobs[k].status = "SUCCEEDED"
  THEN /\ jobs[k].output_url = Media!OutputUrl(k)
       /\ jobs[k].thumbnail_url = Media!ThumbnailUrl(k)
       /\ mediaSettings.provider = "openai" => jobs[k].stored # "nothing"
  ELSE jobs[k].thumbnail_url = Media!NoUrl

MediaInv ==
  /\ mediaSettings \in MediaSettings
  /\ jobs \in Seq(GenerationRows) /\ Len(jobs) <= MaxJobs
  /\ FilesOK(mediaSettings.prefix, files)
  /\ \A k \in 1 .. Len(jobs) :
       /\ StoredOK(mediaSettings.prefix, mediaSettings.provider, files, jobs[k], k)
       /\ ShownOK(k)

\* The names of a run's two objects are file names, and no other run's.
LEMMA NamesAreOwn ==
  ASSUME NEW k \in 1 .. 3, NEW name \in ObjectNames(k)
  PROVE  /\ name \in Words /\ name \notin BadSegments
         /\ \A l \in 1 .. 3 : name \in ObjectNames(l) => l = k
<1>1. /\ ObjectNames(1) = {"v1.mp4", "v1.webp"}
      /\ ObjectNames(2) = {"v2.mp4", "v2.webp"}
      /\ ObjectNames(3) = {"v3.mp4", "v3.webp"}
  BY DEF ObjectNames, Media!video_name, Media!thumbnail_name
<1>2. \A l \in 1 .. 3 : l = 1 \/ l = 2 \/ l = 3
  OBVIOUS
<1>3. \A l \in 1 .. 3 : name \in ObjectNames(l) => l = k
  BY <1>1, <1>2
<1>4. name \in {"v1.mp4", "v1.webp", "v2.mp4", "v2.webp", "v3.mp4", "v3.webp"}
  BY <1>1, <1>2
<1>5. name \in Words
  BY <1>4, Zenon DEF Words
<1>6. name \notin BadSegments
  BY <1>4, Zenon DEF BadSegments
<1> QED
  BY <1>3, <1>5, <1>6

\* Nor is a name used for both.
LEMMA NamesDiffer ==
  ASSUME NEW k \in 1 .. 3
  PROVE  Media!video_name[k] \in ObjectNames(k) /\ Media!thumbnail_name[k] \in ObjectNames(k)
BY DEF ObjectNames

\* A tuple of words is a sequence of them.
LEMMA TuplesAreSegments ==
  ASSUME NEW x \in Words, NEW y \in Words, NEW z \in Words
  PROVE  <<>> \in Segments /\ <<x>> \in Segments /\ <<x, y>> \in Segments /\ <<x, y, z>> \in Segments
<1>1. \A n \in Nat : \A f \in [1 .. n -> Words] : f \in Segments
  BY SeqDef DEF Segments
<1>2. <<>> \in Segments
  BY DEF Segments
<1>3. <<x>> \in Segments
  <2>1. <<x>> = [i \in 1 .. 1 |-> x]
    OBVIOUS
  <2> QED
    BY <1>1, <2>1
<1>4. <<x, y>> \in Segments
  <2>1. <<x, y>> = [i \in 1 .. 2 |-> IF i = 1 THEN x ELSE y]
    OBVIOUS
  <2> QED
    BY <1>1, <2>1
<1>5. <<x, y, z>> \in Segments
  <2>1. <<x, y, z>> = [i \in 1 .. 3 |-> IF i = 1 THEN x ELSE IF i = 2 THEN y ELSE z]
    OBVIOUS
  <2> QED
    BY <1>1, <2>1
<1> QED
  BY <1>2, <1>3, <1>4, <1>5

LEMMA PrefixesAreSegments == Media!VideoPrefixes \subseteq Segments
<1>1. "" \in Words /\ "a" \in Words /\ "b" \in Words /\ "generated" \in Words /\ "videos" \in Words
  BY Zenon DEF Words
<1>2. <<"generated", "videos">> \in Segments /\ <<"">> \in Segments /\ <<"a", "", "b">> \in Segments
  BY <1>1, TuplesAreSegments, Zenon
<1> QED
  BY <1>2, Zenon DEF Media!VideoPrefixes

\* A key names the run that stored the object behind it.
LEMMA KeyNamesRun ==
  ASSUME NEW p \in Segments, NEW k \in 1 .. 3, NEW l \in 1 .. 3,
         NEW name \in ObjectNames(k), NEW other \in ObjectNames(l),
         Media!build_storage_key(p, name) = Media!build_storage_key(p, other),
         Media!build_storage_key(p, name) # Media!Refused
  PROVE  k = l
<1>1. /\ name \in Words /\ name \notin BadSegments
      /\ other \in Words /\ other \notin BadSegments
  BY NamesAreOwn
<1>2. Media!Last(Media!build_storage_key(p, name)) = name
  BY <1>1, KeyIsClean
<1>3. Media!Last(Media!build_storage_key(p, other)) = other
  BY <1>1, KeyIsClean
<1> QED
  BY <1>2, <1>3, NamesAreOwn

\* Storing an object of a run takes no other object away.
LEMMA PutAdds ==
  ASSUME NEW p \in Segments, NEW fs, FilesOK(p, fs),
         NEW k \in 1 .. 3, NEW name \in ObjectNames(k),
         Media!build_storage_key(p, name) # Media!Refused
  PROVE  LET after == Media!put_bytes(fs, Media!build_storage_key(p, name), k)
         IN  after = fs \cup {Stored(p, name, k)} /\ FilesOK(p, after)
<1> DEFINE key == Media!build_storage_key(p, name)
           after == Media!put_bytes(fs, key, k)
<1>1. ASSUME NEW f \in fs, f.key = key PROVE f = Stored(p, name, k)
  <2>1. PICK l \in 1 .. 3 : \E other \in ObjectNames(l) :
          f = Stored(p, other, l) /\ f.key # Media!Refused
    BY DEF FilesOK
  <2>2. PICK other \in ObjectNames(l) : f = Stored(p, other, l) /\ f.key # Media!Refused
    BY <2>1
  <2>3. f.key = Media!build_storage_key(p, other)
    BY <2>2 DEF Stored
  <2>4. l = k
    BY <1>1, <2>2, <2>3, KeyNamesRun
  <2> QED
    BY <1>1, <2>2, <2>3, <2>4 DEF Stored
<1>2. after = {f \in fs : f.key # key} \cup {Stored(p, name, k)}
  BY DEF Media!put_bytes, Stored
<1>3. after = fs \cup {Stored(p, name, k)}
  BY <1>1, <1>2
<1>4. Stored(p, name, k).key = key
  BY DEF Stored
<1>5. FilesOK(p, after)
  BY <1>3, <1>4 DEF FilesOK
<1> QED
  BY <1>3, <1>5

\* Replacing one row of a sequence of rows.
LEMMA RowReplaced ==
  ASSUME NEW s \in Seq(GenerationRows), NEW k \in 1 .. Len(s), NEW entry \in GenerationRows
  PROVE  LET t == [s EXCEPT ![k] = entry]
         IN  /\ t \in Seq(GenerationRows) /\ Len(t) = Len(s) /\ t[k] = entry
             /\ \A i \in 1 .. Len(s) : i # k => t[i] = s[i]
OBVIOUS

\* What a movie's public base is, for the settings a path or two paths.
LEMMA BasesAreSegments ==
  /\ Media!PublicBase["path"] \in Segments /\ Media!PublicBase["nested"] \in Segments
  /\ <<"generated">> \in Segments /\ Media!S3Bases \subseteq Segments
<1>1. "generated" \in Words /\ "media" \in Words /\ "files" \in Words
  BY Zenon DEF Words
<1>2. <<"generated">> \in Segments /\ <<"media">> \in Segments /\ <<"media", "files">> \in Segments
      /\ <<>> \in Segments
  BY <1>1, TuplesAreSegments, Zenon
<1>3. Media!PublicBase["path"] = <<"generated">>
  BY Zenon DEF Media!PublicBase
<1>4. Media!PublicBase["nested"] = <<"media", "files">>
  BY Zenon DEF Media!PublicBase
<1> QED
  BY <1>2, <1>3, <1>4, Zenon DEF Media!S3Bases

\* A joined URL is a URL, and one of its host.
LEMMA JoinedIsUrl ==
  ASSUME NEW host \in Hosts, NEW base \in Segments, NEW key \in Segments
  PROVE  Media!join_public_url(host, base, key) \in Urls
<1> DEFINE joined == base \o key
           path == [i \in 1 .. Len(base) + Len(key) |-> [quoted |-> joined[i]]]
<1>1. joined \in Segments /\ Len(joined) = Len(base) + Len(key)
  BY ConcatProperties DEF Segments
<1>2. Len(base) + Len(key) \in Nat
  BY DEF Segments
<1> HIDE DEF joined
<1>3. \A i \in 1 .. Len(base) + Len(key) : joined[i] \in Words
  BY <1>1 DEF Segments
<1>4. path \in [1 .. Len(base) + Len(key) -> [quoted : Words]]
  BY <1>3
<1> HIDE DEF path
<1>5. path \in Seq([quoted : Words])
  BY <1>2, <1>4, SeqDef
<1>6. Media!join_public_url(host, base, key) = [host |-> host, path |-> path]
  BY DEF Media!join_public_url, Media!quote, path, joined
<1> QED
  BY <1>5, <1>6 DEF Urls

\* What stands for a refused key is no key.
LEMMA RefusedIsNoKey == Media!Refused \notin Segments
<1>1. "refused" \notin Words
  BY Zenon DEF Words
<1>2. Media!Refused[1] = "refused" /\ Len(Media!Refused) = 1
  BY DEF Media!Refused
<1>3. ASSUME NEW s \in Segments, Len(s) = 1 PROVE s[1] \in Words
  BY <1>3 DEF Segments
<1> QED
  BY <1>1, <1>2, <1>3, Zenon

\* The key of an object is accepted or refused by the prefix alone.
LEMMA AcceptedTogether ==
  ASSUME NEW p \in Segments, NEW k \in 1 .. 3, NEW name \in ObjectNames(k), NEW other \in ObjectNames(k),
         Media!build_storage_key(p, name) # Media!Refused
  PROVE  Media!build_storage_key(p, other) # Media!Refused
<1>1. /\ name \in Words /\ name \notin BadSegments
      /\ other \in Words /\ other \notin BadSegments
  BY NamesAreOwn
<1>2. Media!Range(Unslashed(p)) \cap BadSegments = {}
  BY <1>1, ObjectKey
<1>3. Media!build_storage_key(p, other) = Unslashed(p) \o <<other>>
  BY <1>1, <1>2, ObjectKey
<1>4. Unslashed(p) \o <<other>> \in Segments
  BY <1>1, StripIs, NamedEnds DEF BadSegments
<1> QED
  BY <1>3, <1>4, RefusedIsNoKey, Zenon

\* What the settings give for a key does not change under them.
LEMMA UrlsStay ==
  ASSUME UNCHANGED mediaSettings
  PROVE  /\ \A key : Media!public_url(key)' = Media!public_url(key)
         /\ \A k : Media!OutputUrl(k)' = Media!OutputUrl(k)
<1>1. ASSUME NEW key PROVE Media!public_url(key)' = Media!public_url(key)
  <2>1. Media!S3Url(key)' = Media!S3Url(key)
    BY DEF Media!S3Url
  <2>2. Media!LocalUrl(key)' = Media!LocalUrl(key)
    BY DEF Media!LocalUrl
  <2> QED
    BY <2>1, <2>2 DEF Media!public_url
<1>2. ASSUME NEW k PROVE Media!OutputUrl(k)' = Media!OutputUrl(k)
  BY <1>1 DEF Media!OutputUrl, Media!VideoKey, Media!HostedUrl
<1> QED
  BY <1>1, <1>2

\* The URL of an object: a URL, whichever the storage, and not the URL of a job without one.
LEMMA PublicUrlIsUrl ==
  ASSUME mediaSettings \in MediaSettings, NEW key \in Segments
  PROVE  Media!public_url(key) \in Urls
<1>1. mediaSettings.base \in {"path", "nested", "empty", "absolute"}
  BY MediaAssumption DEF MediaSettings
<1>2. mediaSettings.s3_base \in Segments
  BY BasesAreSegments DEF MediaSettings
<1>3. Media!S3Url(key) \in Urls
  BY <1>2, JoinedIsUrl DEF Media!S3Url, Hosts
<1>4. Media!LocalUrl(key) \in Urls
  <2>1. CASE mediaSettings.base = "empty"
    BY <2>1, BasesAreSegments, JoinedIsUrl DEF Media!LocalUrl, Hosts
  <2>2. CASE mediaSettings.base = "absolute"
    BY <2>2, BasesAreSegments, JoinedIsUrl DEF Media!LocalUrl, Hosts
  <2>3. CASE mediaSettings.base = "path"
    BY <2>3, BasesAreSegments, JoinedIsUrl DEF Media!LocalUrl, Hosts
  <2>4. CASE mediaSettings.base = "nested"
    BY <2>4, BasesAreSegments, JoinedIsUrl DEF Media!LocalUrl, Hosts
  <2> QED
    BY <1>1, <2>1, <2>2, <2>3, <2>4
<1> QED
  BY <1>3, <1>4 DEF Media!public_url

\* Having no URL is a value of the same type.
LEMMA NoUrlIsUrl == Media!NoUrl \in Urls
<1>1. <<>> \in Seq([quoted : Words])
  OBVIOUS
<1> QED
  BY <1>1 DEF Media!NoUrl, Urls, Hosts

\* What a run marks its job with.
LEMMA MarkedUrls ==
  ASSUME MediaInv, NEW k \in 1 .. Len(jobs), Media!Finished(k)
  PROVE  Media!OutputUrl(k) \in Urls /\ Media!ThumbnailUrl(k) \in Urls
<1> DEFINE p == mediaSettings.prefix
<1>1. k \in 1 .. 3
  BY MediaAssumption DEF MediaInv
<1>2. p \in Segments
  BY PrefixesAreSegments DEF MediaInv, MediaSettings
<1>3. Media!video_name[k] \in ObjectNames(k) /\ Media!thumbnail_name[k] \in ObjectNames(k)
  BY <1>1, NamesDiffer
<1>4. /\ Media!video_name[k] \in Words /\ Media!video_name[k] \notin BadSegments
      /\ Media!thumbnail_name[k] \in Words /\ Media!thumbnail_name[k] \notin BadSegments
  BY <1>1, <1>3, NamesAreOwn
<1>5. jobs[k].stored # "nothing" =>
        /\ Media!build_storage_key(p, Media!video_name[k]) # Media!Refused
        /\ Media!build_storage_key(p, Media!video_name[k]) \in Segments
        /\ Media!build_storage_key(p, Media!thumbnail_name[k]) \in Segments
  <2> SUFFICES ASSUME jobs[k].stored # "nothing"
               PROVE  /\ Media!build_storage_key(p, Media!video_name[k]) # Media!Refused
                      /\ Media!build_storage_key(p, Media!video_name[k]) \in Segments
                      /\ Media!build_storage_key(p, Media!thumbnail_name[k]) \in Segments
    OBVIOUS
  <2>1. Media!build_storage_key(p, Media!video_name[k]) # Media!Refused
    BY DEF MediaInv, StoredOK
  <2>2. Media!build_storage_key(p, Media!thumbnail_name[k]) # Media!Refused
    BY <1>1, <1>2, <1>3, <2>1, AcceptedTogether
  <2> HIDE DEF p
  <2> QED
    BY <1>2, <1>4, <2>1, <2>2, KeyIsClean
<1>6. mediaSettings.provider = "openai" => jobs[k].stored # "nothing"
  BY MediaAssumption DEF MediaInv, MediaSettings, Media!Finished
<1>7. Media!OutputUrl(k) \in Urls
  <2>1. CASE mediaSettings.provider = "openai"
    BY <1>5, <1>6, <2>1, PublicUrlIsUrl DEF Media!OutputUrl, Media!VideoKey, MediaInv
  <2>2. CASE mediaSettings.provider # "openai"
    <3>1. "videos" \in Words
      BY Zenon DEF Words
    <3>2. <<"videos">> \in Segments /\ <<Media!video_name[k]>> \in Segments
      BY <1>4, <3>1, TuplesAreSegments
    <3> QED
      BY <2>2, <3>2, JoinedIsUrl DEF Media!OutputUrl, Media!HostedUrl, Hosts
  <2> QED
    BY <2>1, <2>2
<1>8. Media!ThumbnailUrl(k) \in Urls
  BY <1>5, PublicUrlIsUrl, NoUrlIsUrl DEF Media!ThumbnailUrl, Media!ThumbnailKey, MediaInv
<1> QED
  BY <1>7, <1>8

\* A job that did not change still shows what its run stored.
LEMMA ShownStays ==
  ASSUME UNCHANGED mediaSettings, NEW k, jobs'[k] = jobs[k], ShownOK(k)
  PROVE  ShownOK(k)'
<1>1. Media!OutputUrl(k)' = Media!OutputUrl(k)
  BY UrlsStay
<1>2. Media!ThumbnailUrl(k)' = Media!ThumbnailUrl(k)
  BY UrlsStay DEF Media!ThumbnailUrl, Media!ThumbnailKey
<1> QED
  BY <1>1, <1>2 DEF ShownOK

\* Nothing a job says it stored is lost when more is stored.
LEMMA StoredStays ==
  ASSUME NEW p, NEW provider, NEW fs, NEW more, fs \subseteq more,
         NEW job, NEW k, StoredOK(p, provider, fs, job, k)
  PROVE  StoredOK(p, provider, more, job, k)
BY DEF StoredOK

LEMMA MediaStart == Media!Init => MediaInv
<1> SUFFICES ASSUME Media!Init PROVE MediaInv
  OBVIOUS
<1>1. mediaSettings \in MediaSettings
  BY DEF Media!Init, MediaSettings
<1>2. jobs \in Seq(GenerationRows) /\ Len(jobs) = 0
  BY DEF Media!Init
<1>3. FilesOK(mediaSettings.prefix, files)
  BY DEF Media!Init, FilesOK
<1> QED
  BY <1>1, <1>2, <1>3, MediaAssumption DEF MediaInv

\* The row of a job that begins.
LEMMA RunningIsRow ==
  ASSUME NEW status \in Statuses
  PROVE  [Media!Running EXCEPT !.status = status] =
           [status |-> status, stored |-> "nothing", output_url |-> Media!NoUrl, thumbnail_url |-> Media!NoUrl]
BY DEF Media!Running

LEMMA RequestGenerationKeeps == ASSUME MediaInv, Media!RequestGeneration PROVE MediaInv'
<1>1. UNCHANGED <<mediaSettings, files>> /\ jobs' = Append(jobs, Media!Running) /\ Len(jobs) < MaxJobs
  BY DEF Media!RequestGeneration
<1>2. Media!Running \in GenerationRows
  BY NoUrlIsUrl DEF Media!Running, GenerationRows, Statuses
<1>3. jobs \in Seq(GenerationRows)
  BY DEF MediaInv
<1>4. /\ jobs' \in Seq(GenerationRows) /\ Len(jobs') = Len(jobs) + 1 /\ jobs'[Len(jobs) + 1] = Media!Running
      /\ \A k \in 1 .. Len(jobs) : jobs'[k] = jobs[k]
  BY <1>1, <1>2, <1>3
<1>5. Len(jobs') <= MaxJobs /\ Len(jobs) \in Nat
  BY <1>1, <1>3, <1>4, MediaAssumption
<1>6. ASSUME NEW k \in 1 .. Len(jobs')
      PROVE  /\ StoredOK(mediaSettings.prefix, mediaSettings.provider, files, jobs'[k], k)
             /\ ShownOK(k)'
  <2>1. CASE k \in 1 .. Len(jobs)
    BY <1>1, <1>4, <2>1, ShownStays DEF MediaInv
  <2>2. CASE k = Len(jobs) + 1
    <3>1. jobs'[k] = [status |-> "RUNNING", stored |-> "nothing", output_url |-> Media!NoUrl,
                      thumbnail_url |-> Media!NoUrl]
      BY <1>4, <2>2 DEF Media!Running
    <3> QED
      BY <3>1 DEF StoredOK, ShownOK
  <2> QED
    BY <1>4, <1>5, <2>1, <2>2
<1> QED
  BY <1>1, <1>4, <1>5, <1>6 DEF MediaInv

LEMMA StoreVideoKeeps ==
  ASSUME MediaInv, NEW j \in DOMAIN jobs, Media!StoreVideo(j) PROVE MediaInv'
<1> DEFINE p == mediaSettings.prefix
           video == Media!put_bytes(files, Media!VideoKey(j), j)
<1>1. /\ jobs[j].status \in {"RUNNING", "CANCELED"} /\ jobs[j].stored = "nothing"
      /\ mediaSettings.provider = "openai" /\ Media!VideoKey(j) # Media!Refused
      /\ UNCHANGED mediaSettings
  BY DEF Media!StoreVideo
<1>2. PICK thumbnail \in BOOLEAN :
        /\ files' = IF thumbnail THEN Media!put_bytes(video, Media!ThumbnailKey(j), j) ELSE video
        /\ jobs' = [jobs EXCEPT ![j].stored = IF thumbnail THEN "both" ELSE "video"]
  BY DEF Media!StoreVideo
<1>3. jobs \in Seq(GenerationRows) /\ j \in 1 .. Len(jobs) /\ jobs[j] \in GenerationRows /\ Len(jobs) <= MaxJobs
  BY DEF MediaInv
<1>4. j \in 1 .. 3
  BY <1>3, MediaAssumption
<1>5. p \in Segments
  BY PrefixesAreSegments DEF MediaInv, MediaSettings
<1>6. Media!video_name[j] \in ObjectNames(j) /\ Media!thumbnail_name[j] \in ObjectNames(j)
  BY <1>4, NamesDiffer
<1>7. /\ Media!VideoKey(j) = Media!build_storage_key(p, Media!video_name[j])
      /\ Media!ThumbnailKey(j) = Media!build_storage_key(p, Media!thumbnail_name[j])
  BY DEF Media!VideoKey, Media!ThumbnailKey
<1>8. Media!ThumbnailKey(j) # Media!Refused
  BY <1>1, <1>4, <1>5, <1>6, <1>7, AcceptedTogether
<1>9. FilesOK(p, files)
  BY DEF MediaInv
<1> HIDE DEF p
<1>10. video = files \cup {Stored(p, Media!video_name[j], j)} /\ FilesOK(p, video)
  BY <1>1, <1>4, <1>5, <1>6, <1>7, <1>9, PutAdds
<1> HIDE DEF video
<1>11. LET both == Media!put_bytes(video, Media!ThumbnailKey(j), j)
       IN  both = video \cup {Stored(p, Media!thumbnail_name[j], j)} /\ FilesOK(p, both)
  BY <1>4, <1>5, <1>6, <1>7, <1>8, <1>10, PutAdds
<1>12. /\ FilesOK(p, files') /\ files \subseteq files' /\ Stored(p, Media!video_name[j], j) \in files'
       /\ thumbnail => Stored(p, Media!thumbnail_name[j], j) \in files'
  BY <1>2, <1>10, <1>11
<1>13. p = mediaSettings.prefix
  BY DEF p
<1> DEFINE outcome == IF thumbnail THEN "both" ELSE "video"
           entry == [status |-> jobs[j].status, stored |-> outcome, output_url |-> jobs[j].output_url,
                   thumbnail_url |-> jobs[j].thumbnail_url]
<1>14. entry \in GenerationRows /\ [jobs[j] EXCEPT !.stored = outcome] = entry
  BY <1>3 DEF GenerationRows
<1>15. jobs' = [jobs EXCEPT ![j] = entry]
  BY <1>2, <1>3, <1>14
<1>16. entry.status \in {"RUNNING", "CANCELED"} /\ entry.thumbnail_url = jobs[j].thumbnail_url
       /\ entry.stored = outcome
  BY <1>1
<1> HIDE DEF entry
<1>17. /\ jobs' \in Seq(GenerationRows) /\ Len(jobs') = Len(jobs) /\ jobs'[j] = entry
       /\ \A k \in 1 .. Len(jobs) : k # j => jobs'[k] = jobs[k]
  BY <1>3, <1>14, <1>15, RowReplaced
<1>18. ASSUME NEW k \in 1 .. Len(jobs')
       PROVE  /\ StoredOK(p, mediaSettings.provider, files', jobs'[k], k)
              /\ ShownOK(k)'
  <2>1. CASE k # j
    BY <1>1, <1>12, <1>13, <1>17, <2>1, ShownStays, StoredStays DEF MediaInv
  <2>2. CASE k = j
    <3>1. StoredOK(p, mediaSettings.provider, files', entry, j)
      BY <1>1, <1>7, <1>12, <1>16 DEF StoredOK
    <3>2. ShownOK(j)'
      BY <1>1, <1>3, <1>16, <1>17 DEF MediaInv, ShownOK
    <3> QED
      BY <1>17, <2>2, <3>1, <3>2
  <2> QED
    BY <2>1, <2>2
<1> QED
  BY <1>1, <1>3, <1>12, <1>13, <1>17, <1>18 DEF MediaInv

LEMMA MarkedRow ==
  ASSUME NEW job \in GenerationRows, NEW output_url, NEW thumbnail_url
  PROVE  [job EXCEPT !.status = "SUCCEEDED", !.output_url = output_url, !.thumbnail_url = thumbnail_url] =
           [status |-> "SUCCEEDED", stored |-> job.stored, output_url |-> output_url,
            thumbnail_url |-> thumbnail_url]
<1>1. [job EXCEPT !.status = "SUCCEEDED", !.output_url = output_url, !.thumbnail_url = thumbnail_url] =
        [[[job EXCEPT !.status = "SUCCEEDED"] EXCEPT !.output_url = output_url]
           EXCEPT !.thumbnail_url = thumbnail_url]
  OBVIOUS
<1>2. [job EXCEPT !.status = "SUCCEEDED"] =
        [status |-> "SUCCEEDED", stored |-> job.stored, output_url |-> job.output_url,
         thumbnail_url |-> job.thumbnail_url]
  BY DEF GenerationRows
<1>3. [[status |-> "SUCCEEDED", stored |-> job.stored, output_url |-> job.output_url,
        thumbnail_url |-> job.thumbnail_url] EXCEPT !.output_url = output_url] =
        [status |-> "SUCCEEDED", stored |-> job.stored, output_url |-> output_url,
         thumbnail_url |-> job.thumbnail_url]
  OBVIOUS
<1>4. [[status |-> "SUCCEEDED", stored |-> job.stored, output_url |-> output_url,
        thumbnail_url |-> job.thumbnail_url] EXCEPT !.thumbnail_url = thumbnail_url] =
        [status |-> "SUCCEEDED", stored |-> job.stored, output_url |-> output_url,
         thumbnail_url |-> thumbnail_url]
  OBVIOUS
<1> QED
  BY <1>1, <1>2, <1>3, <1>4

LEMMA MarkSucceededKeeps ==
  ASSUME MediaInv, NEW j \in DOMAIN jobs, Media!MarkSucceeded(j) PROVE MediaInv'
<1>1. /\ Media!Finished(j) /\ UNCHANGED <<mediaSettings, files>>
      /\ jobs' = [jobs EXCEPT ![j].status = "SUCCEEDED", ![j].output_url = Media!OutputUrl(j),
                              ![j].thumbnail_url = Media!ThumbnailUrl(j)]
  BY DEF Media!MarkSucceeded
<1>2. jobs \in Seq(GenerationRows) /\ j \in 1 .. Len(jobs) /\ jobs[j] \in GenerationRows /\ Len(jobs) <= MaxJobs
  BY DEF MediaInv
<1>3. Media!OutputUrl(j) \in Urls /\ Media!ThumbnailUrl(j) \in Urls
  BY <1>1, <1>2, MarkedUrls
<1> DEFINE entry == [status |-> "SUCCEEDED", stored |-> jobs[j].stored,
                   output_url |-> Media!OutputUrl(j), thumbnail_url |-> Media!ThumbnailUrl(j)]
<1>4. entry \in GenerationRows
  BY <1>2, <1>3 DEF GenerationRows, Statuses
<1>5. [jobs[j] EXCEPT !.status = "SUCCEEDED", !.output_url = Media!OutputUrl(j),
                      !.thumbnail_url = Media!ThumbnailUrl(j)] = entry
  BY <1>2, MarkedRow
<1>6. jobs' = [jobs EXCEPT ![j] = entry]
  BY <1>1, <1>2, <1>5
<1>7. /\ entry.status = "SUCCEEDED" /\ entry.output_url = Media!OutputUrl(j)
      /\ entry.thumbnail_url = Media!ThumbnailUrl(j) /\ entry.stored = jobs[j].stored
  OBVIOUS
<1> HIDE DEF entry
<1>8. /\ jobs' \in Seq(GenerationRows) /\ Len(jobs') = Len(jobs) /\ jobs'[j] = entry
      /\ \A k \in 1 .. Len(jobs) : k # j => jobs'[k] = jobs[k]
  BY <1>2, <1>4, <1>6, RowReplaced
<1>9. ASSUME NEW k \in 1 .. Len(jobs')
      PROVE  /\ StoredOK(mediaSettings.prefix, mediaSettings.provider, files, jobs'[k], k)
             /\ ShownOK(k)'
  <2>1. CASE k # j
    BY <1>1, <1>8, <2>1, ShownStays DEF MediaInv
  <2>2. CASE k = j
    <3>1. StoredOK(mediaSettings.prefix, mediaSettings.provider, files, jobs[j], j)
      BY <1>2 DEF MediaInv
    <3>2. StoredOK(mediaSettings.prefix, mediaSettings.provider, files, entry, j)
      BY <1>7, <3>1 DEF StoredOK
    <3>3. Media!OutputUrl(j)' = Media!OutputUrl(j)
      BY <1>1, UrlsStay
    <3>4. Media!ThumbnailUrl(j)' = Media!ThumbnailUrl(j)
      BY <1>1, <1>7, <1>8, UrlsStay DEF Media!ThumbnailUrl, Media!ThumbnailKey
    <3>5. mediaSettings.provider = "openai" => jobs[j].stored # "nothing"
      BY <1>1 DEF Media!Finished
    <3>6. ShownOK(j)'
      BY <1>1, <1>7, <1>8, <3>3, <3>4, <3>5 DEF ShownOK
    <3> QED
      BY <1>8, <2>2, <3>2, <3>6
  <2> QED
    BY <2>1, <2>2
<1> QED
  BY <1>1, <1>2, <1>8, <1>9 DEF MediaInv

LEMMA StopKeeps ==
  ASSUME MediaInv, NEW j \in DOMAIN jobs, Media!Stop(j) PROVE MediaInv'
<1>1. jobs[j].status = "RUNNING" /\ UNCHANGED <<mediaSettings, files>>
  BY DEF Media!Stop
<1>2. PICK status \in {"FAILED", "CANCELED"} : jobs' = [jobs EXCEPT ![j].status = status]
  BY DEF Media!Stop
<1>3. jobs \in Seq(GenerationRows) /\ j \in 1 .. Len(jobs) /\ jobs[j] \in GenerationRows /\ Len(jobs) <= MaxJobs
  BY DEF MediaInv
<1> DEFINE entry == [status |-> status, stored |-> jobs[j].stored,
                   output_url |-> jobs[j].output_url, thumbnail_url |-> jobs[j].thumbnail_url]
<1>4. entry \in GenerationRows
  BY <1>3 DEF GenerationRows, Statuses
<1>5. [jobs[j] EXCEPT !.status = status] = entry
  BY <1>3 DEF GenerationRows
<1>6. jobs' = [jobs EXCEPT ![j] = entry]
  BY <1>2, <1>3, <1>5
<1>7. /\ entry.status \in {"FAILED", "CANCELED"} /\ entry.thumbnail_url = jobs[j].thumbnail_url
      /\ entry.stored = jobs[j].stored
  OBVIOUS
<1> HIDE DEF entry
<1>8. /\ jobs' \in Seq(GenerationRows) /\ Len(jobs') = Len(jobs) /\ jobs'[j] = entry
      /\ \A k \in 1 .. Len(jobs) : k # j => jobs'[k] = jobs[k]
  BY <1>3, <1>4, <1>6, RowReplaced
<1>9. ASSUME NEW k \in 1 .. Len(jobs')
      PROVE  /\ StoredOK(mediaSettings.prefix, mediaSettings.provider, files, jobs'[k], k)
             /\ ShownOK(k)'
  <2>1. CASE k # j
    BY <1>1, <1>8, <2>1, ShownStays DEF MediaInv
  <2>2. CASE k = j
    <3>1. StoredOK(mediaSettings.prefix, mediaSettings.provider, files, jobs[j], j) /\ ShownOK(j)
      BY <1>3 DEF MediaInv
    <3>2. StoredOK(mediaSettings.prefix, mediaSettings.provider, files, entry, j)
      BY <1>7, <3>1 DEF StoredOK
    <3>3. ShownOK(j)'
      BY <1>1, <1>7, <1>8, <3>1 DEF ShownOK
    <3> QED
      BY <1>8, <2>2, <3>2, <3>3
  <2> QED
    BY <2>1, <2>2
<1> QED
  BY <1>1, <1>3, <1>8, <1>9 DEF MediaInv

LEMMA DeleteMovieKeeps == ASSUME MediaInv, Media!DeleteMovie PROVE MediaInv'
<1> DEFINE entry == [Media!Running EXCEPT !.status = "DELETED"]
<1>1. UNCHANGED <<mediaSettings, files>> /\ jobs' = [k \in 1 .. MaxJobs |-> entry]
  BY DEF Media!DeleteMovie
<1>2. entry = [status |-> "DELETED", stored |-> "nothing", output_url |-> Media!NoUrl,
             thumbnail_url |-> Media!NoUrl]
  BY RunningIsRow DEF Statuses
<1>3. entry \in GenerationRows
  BY <1>2, NoUrlIsUrl DEF GenerationRows, Statuses
<1> HIDE DEF entry
<1>4. jobs' \in Seq(GenerationRows) /\ Len(jobs') = MaxJobs /\ \A k \in 1 .. MaxJobs : jobs'[k] = entry
  <2>1. MaxJobs \in Nat
    BY MediaAssumption
  <2>2. jobs' \in [1 .. MaxJobs -> GenerationRows]
    BY <1>1, <1>3
  <2>3. jobs' \in Seq(GenerationRows)
    BY <2>1, <2>2, SeqDef
  <2>4. DOMAIN jobs' = 1 .. MaxJobs
    BY <2>2
  <2>5. Len(jobs') = MaxJobs
    BY <2>1, <2>3, <2>4
  <2> QED
    BY <1>1, <2>3, <2>5
<1>5. ASSUME NEW k \in 1 .. Len(jobs')
      PROVE  /\ StoredOK(mediaSettings.prefix, mediaSettings.provider, files, jobs'[k], k)
             /\ ShownOK(k)'
  BY <1>2, <1>4 DEF StoredOK, ShownOK
<1>6. Len(jobs') <= MaxJobs
  BY <1>4, MediaAssumption
<1> QED
  BY <1>1, <1>4, <1>5, <1>6 DEF MediaInv

LEMMA MediaInvariant == AppSpec => []MediaInv
<1>1. MediaInv /\ [Media!Next]_(Media!vars) => MediaInv'
  <2> SUFFICES ASSUME MediaInv, [Media!Next]_(Media!vars) PROVE MediaInv'
    OBVIOUS
  <2>1. CASE UNCHANGED Media!vars
    <3>1. UNCHANGED <<mediaSettings, jobs, files>>
      BY <2>1 DEF Media!vars
    <3>2. \A k \in 1 .. Len(jobs) : ShownOK(k)'
      BY <3>1, ShownStays DEF MediaInv
    <3> QED
      BY <3>1, <3>2 DEF MediaInv
  <2> QED
    BY <2>1, RequestGenerationKeeps, StoreVideoKeeps, MarkSucceededKeeps, StopKeeps,
       DeleteMovieKeeps DEF Media!Next, Media!Idle
<1> QED
  BY <1>1, MediaStart, MediaRuns, PTL DEF Media!Spec

\* The object behind a finished job, and the key that names it.
LEMMA FinishedIsStored ==
  ASSUME MediaInv, NEW k \in 1 .. Len(jobs), jobs[k].status = "SUCCEEDED",
         mediaSettings.provider = "openai"
  PROVE  /\ jobs[k].output_url = Media!public_url(Media!VideoKey(k))
         /\ Stored(mediaSettings.prefix, Media!video_name[k], k) \in files
         /\ Media!VideoKey(k) = Media!build_storage_key(mediaSettings.prefix, Media!video_name[k])
         /\ Media!VideoKey(k) # Media!Refused
         /\ Media!VideoKey(k) \in Segments /\ Media!VideoKey(k) # <<>>
         /\ \A f \in files : f.key = Media!VideoKey(k) => f.video = k
<1> DEFINE p == mediaSettings.prefix
           name == Media!video_name[k]
<1>1. k \in 1 .. 3
  BY MediaAssumption DEF MediaInv
<1>2. p \in Segments
  BY PrefixesAreSegments DEF MediaInv, MediaSettings
<1>3. name \in ObjectNames(k) /\ name \in Words /\ name \notin BadSegments
  BY <1>1, NamesDiffer, NamesAreOwn
<1>4. /\ StoredOK(p, mediaSettings.provider, files, jobs[k], k) /\ ShownOK(k)
      /\ FilesOK(p, files)
  BY DEF MediaInv
<1>5. Media!build_storage_key(p, name) # Media!Refused /\ Stored(p, name, k) \in files
  BY <1>4 DEF StoredOK, ShownOK
<1>6. Media!VideoKey(k) = Media!build_storage_key(p, name)
  BY DEF Media!VideoKey
<1>7. jobs[k].output_url = Media!public_url(Media!VideoKey(k))
  BY <1>4 DEF ShownOK, Media!OutputUrl
<1> HIDE DEF p, name
<1>8. Media!VideoKey(k) \in Segments /\ Media!VideoKey(k) # <<>>
  BY <1>2, <1>3, <1>5, <1>6, KeyIsClean
<1>9. ASSUME NEW f \in files, f.key = Media!VideoKey(k) PROVE f.video = k
  <2>1. PICK l \in 1 .. 3 : \E other \in ObjectNames(l) : f = Stored(p, other, l)
    BY <1>4 DEF FilesOK
  <2>2. PICK other \in ObjectNames(l) : f = Stored(p, other, l)
    BY <2>1
  <2>3. f.key = Media!build_storage_key(p, other) /\ f.video = l
    BY <2>2 DEF Stored
  <2>4. l = k
    BY <1>1, <1>2, <1>3, <1>5, <1>6, <1>9, <2>3, KeyNamesRun
  <2> QED
    BY <2>3, <2>4
<1> QED
  BY <1>5, <1>6, <1>7, <1>8, <1>9 DEF p, name

\* No key with an empty or dotted segment is ever stored, and a job's status is one of five.
THEOREM MediaTypes == AppSpec => []Media!TypeOK
<1>1. MediaInv => Media!TypeOK
  <2> SUFFICES ASSUME MediaInv PROVE Media!TypeOK
    OBVIOUS
  <2>1. mediaSettings.prefix \in Segments
    BY PrefixesAreSegments DEF MediaInv, MediaSettings
  <2>2. ASSUME NEW f \in files PROVE f.key # <<>> /\ Media!Range(f.key) \cap BadSegments = {}
    <3>1. PICK k \in 1 .. 3 : \E name \in ObjectNames(k) :
            f = Stored(mediaSettings.prefix, name, k) /\ f.key # Media!Refused
      BY DEF MediaInv, FilesOK
    <3>2. PICK name \in ObjectNames(k) :
            f = Stored(mediaSettings.prefix, name, k) /\ f.key # Media!Refused
      BY <3>1
    <3>3. name \in Words /\ name \notin BadSegments
      BY NamesAreOwn
    <3>4. f.key = Media!build_storage_key(mediaSettings.prefix, name)
      BY <3>2 DEF Stored
    <3> QED
      BY <2>1, <3>2, <3>3, <3>4, KeyIsClean
  <2>3. ASSUME NEW k \in DOMAIN jobs PROVE jobs[k].status \in Statuses
    <3>1. jobs[k] \in GenerationRows
      BY DEF MediaInv
    <3> QED
      BY <3>1 DEF GenerationRows
  <2>4. Len(jobs) <= MaxJobs
    BY DEF MediaInv
  <2> QED
    BY <2>2, <2>3, <2>4, Zenon DEF Media!TypeOK, BadSegments, Statuses
<1> QED
  BY <1>1, MediaInvariant, PTL

\* Every video a user was once given is still there and is still that video, whatever the
\* settings: a later run never writes over it (storage_service.py, _download_variant).
THEOREM VideosAreKept == AppSpec => []VideosKept
<1>1. MediaInv => VideosKept
  <2> SUFFICES ASSUME MediaInv, NEW k \in DOMAIN jobs,
                      jobs[k].status = "SUCCEEDED", mediaSettings.provider = "openai"
               PROVE  \E f \in files : f.video = k /\ Media!public_url(f.key) = jobs[k].output_url
    BY DEF VideosKept, Media!VideosKept
  <2>1. k \in 1 .. Len(jobs)
    BY DEF MediaInv
  <2> DEFINE f == Stored(mediaSettings.prefix, Media!video_name[k], k)
  <2>2. f \in files /\ jobs[k].output_url = Media!public_url(Media!VideoKey(k))
    BY <2>1, FinishedIsStored
  <2>3. f.video = k /\ f.key = Media!VideoKey(k)
    BY DEF Stored, Media!VideoKey
  <2> QED
    BY <2>2, <2>3
<1> QED
  BY <1>1, MediaInvariant, PTL

\* With a public base of path segments, both endpoints read the key back out of the URL.
LEMMA KeyIsRead ==
  ASSUME MediaInv, mediaSettings.base \in {"path", "nested"},
         NEW key \in Segments, key # <<>>
  PROVE  LET url == Media!public_url(key)
             base == Media!PublicBase[mediaSettings.base]
         IN  /\ url # Media!NoUrl
             /\ mediaSettings.storage = "local" =>
                  /\ Media!StartsWith(Media!PathOf(url), base)
                  /\ Media!removeprefix(Media!PathOf(url), base) = key
             /\ mediaSettings.storage = "s3" => Media!S3Key(url) = key
<1> DEFINE url == Media!public_url(key)
           base == Media!PublicBase[mediaSettings.base]
<1>1. base \in Segments
  BY BasesAreSegments
<1>2. mediaSettings.s3_base \in Segments
  BY BasesAreSegments DEF MediaInv, MediaSettings
<1>3. mediaSettings.storage \in {"local", "s3"}
  BY MediaAssumption DEF MediaInv, MediaSettings
<1>4. Media!NoUrl.host = "none"
  BY DEF Media!NoUrl
<1>5. CASE mediaSettings.storage = "local"
  <2>1. url = Media!join_public_url("self", base, key)
    BY <1>5 DEF Media!public_url, Media!LocalUrl
  <2> HIDE DEF url, base
  <2>2. /\ Media!PathOf(url) = base \o key /\ Media!StartsWith(base \o key, base)
        /\ Media!removeprefix(base \o key, base) = key /\ url.host = "self"
    BY <1>1, <2>1, UrlReadsBack
  <2> QED
    BY <1>4, <1>5, <2>2 DEF url, base
<1>6. CASE mediaSettings.storage = "s3"
  <2> DEFINE s3 == mediaSettings.s3_base
  <2>1. url = Media!join_public_url("s3", s3, key)
    BY <1>6 DEF Media!public_url, Media!S3Url
  <2> HIDE DEF url, base
  <2>2. /\ Media!PathOf(url) = s3 \o key /\ Media!StartsWith(s3 \o key, s3)
        /\ Media!removeprefix(s3 \o key, s3) = key /\ url.host = "s3"
    BY <1>2, <2>1, UrlReadsBack
  <2>3. s3 = <<>> => s3 \o key = key
    BY ConcatEmptySeq DEF Segments
  <2>4. Media!S3Key(url) = key
    BY <2>2, <2>3 DEF Media!S3Key
  <2> QED
    BY <1>4, <1>6, <2>2, <2>4 DEF url
<1> QED
  BY <1>3, <1>5, <1>6

\* Once the latest generation succeeded, the download leads to the very file that generation
\* stored, and the thumbnail the list shows is that generation's object: for every prefix,
\* both storages and every bound, the public base being a path and the provider OpenAI.
THEOREM LatestShown ==
  ASSUME LocalBases \subseteq {"path", "nested"}, VideoProviders \subseteq {"openai"}
  PROVE  AppSpec => []LatestIsShown
<1>1. ASSUME MediaInv PROVE Media!LatestIsDelivered
  <2> SUFFICES ASSUME Media!DownloadReady PROVE Media!Delivered = {Len(jobs)}
    BY DEF Media!LatestIsDelivered
  <2> DEFINE k == Len(jobs)
             url == jobs[k].output_url
             key == Media!VideoKey(k)
  <2>1. mediaSettings.base \in {"path", "nested"} /\ mediaSettings.provider = "openai"
    BY <1>1 DEF MediaInv, MediaSettings
  <2>2. mediaSettings.storage \in {"local", "s3"}
    BY <1>1, MediaAssumption DEF MediaInv, MediaSettings
  <2>3. jobs # <<>> /\ jobs \in Seq(GenerationRows) /\ Media!Latest = jobs[k]
    BY <1>1 DEF Media!DownloadReady, Media!HasJob, Media!Latest, Media!Last, MediaInv
  <2>4. k \in 1 .. Len(jobs)
    BY <2>3
  <2>5. jobs[k].status = "SUCCEEDED"
    BY <2>3 DEF Media!DownloadReady
  <2> HIDE DEF k
  <2>6. /\ url = Media!public_url(key) /\ key \in Segments /\ key # <<>>
        /\ Stored(mediaSettings.prefix, Media!video_name[k], k) \in files
        /\ key = Media!build_storage_key(mediaSettings.prefix, Media!video_name[k])
        /\ \A f \in files : f.key = key => f.video = k
    BY <1>1, <2>1, <2>4, <2>5, FinishedIsStored
  <2>7. key \in Media!Keys
    <3>1. Stored(mediaSettings.prefix, Media!video_name[k], k).key = key
      BY <2>6 DEF Stored
    <3> QED
      BY <2>6, <3>1 DEF Media!Keys
  <2>8. {f.video : f \in {g \in files : g.key = key}} = {k}
    <3>1. /\ Stored(mediaSettings.prefix, Media!video_name[k], k).key = key
          /\ Stored(mediaSettings.prefix, Media!video_name[k], k).video = k
      BY <2>6 DEF Stored
    <3> HIDE DEF key
    <3> QED
      BY <2>6, <3>1
  <2>9. Media!HasJob /\ Media!Latest.output_url = url
    BY <2>3 DEF Media!DownloadReady
  <2> HIDE DEF url, key
  <2>10. /\ url # Media!NoUrl
         /\ mediaSettings.storage = "local" =>
              /\ Media!StartsWith(Media!PathOf(url), Media!PublicBase[mediaSettings.base])
              /\ Media!removeprefix(Media!PathOf(url), Media!PublicBase[mediaSettings.base]) = key
         /\ mediaSettings.storage = "s3" => Media!S3Key(url) = key
    BY <1>1, <2>1, <2>6, KeyIsRead
  <2>11. Media!download_movie = Media!build_movie_download_url(url)
    BY <2>9 DEF Media!download_movie
  <2>12. CASE mediaSettings.storage = "local"
    <3>1. Media!download_movie = [kind |-> "file", key |-> <<>>]
      BY <2>10, <2>11, <2>12 DEF Media!build_movie_download_url
    <3>2. Media!download_movie_file = [status |-> 200, key |-> key]
      <4>1. Media!download_movie_file = Media!resolve_local_generated_file_path(url)
        BY <2>9 DEF Media!download_movie_file
      <4> QED
        BY <2>7, <2>10, <2>12, <4>1 DEF Media!resolve_local_generated_file_path
    <3>3. /\ Media!download_movie.kind = "file" /\ Media!download_movie_file.status = 200
          /\ Media!download_movie_file.key = key
      BY <3>1, <3>2
    <3>4. Media!Delivered = {f.video : f \in {g \in files : g.key = key}}
      BY <3>3 DEF Media!Delivered
    <3> QED
      BY <2>8, <3>4 DEF k
  <2>13. CASE mediaSettings.storage = "s3"
    <3>1. Media!download_movie = [kind |-> "presigned", key |-> key]
      BY <2>10, <2>11, <2>13 DEF Media!build_movie_download_url
    <3>2. Media!download_movie.kind = "presigned" /\ Media!download_movie.key = key
      BY <3>1
    <3>3. Media!Delivered = {f.video : f \in {g \in files : g.key = key}}
      BY <3>2 DEF Media!Delivered
    <3> QED
      BY <2>8, <3>3 DEF k
  <2> QED
    BY <2>2, <2>12, <2>13
<1>2. ASSUME MediaInv PROVE Media!ThumbnailIsStored
  <2> DEFINE k == Len(jobs)
             f == Stored(mediaSettings.prefix, Media!thumbnail_name[k], k)
  <2> SUFFICES ASSUME Media!build_movie_summary.thumbnail # Media!NoUrl
               PROVE  \E g \in files :
                        /\ Media!public_url(g.key) = Media!build_movie_summary.thumbnail
                        /\ g.video = k
    BY DEF Media!ThumbnailIsStored
  <2>1. Media!HasJob /\ Media!build_movie_summary.thumbnail = Media!Latest.thumbnail_url
    BY DEF Media!build_movie_summary
  <2>2. jobs # <<>> /\ jobs \in Seq(GenerationRows) /\ Media!Latest = jobs[k]
    BY <1>2, <2>1 DEF Media!HasJob, Media!Latest, Media!Last, MediaInv
  <2>3. k \in 1 .. Len(jobs)
    BY <2>2
  <2> HIDE DEF k
  <2>4. /\ ShownOK(k) /\ StoredOK(mediaSettings.prefix, mediaSettings.provider, files, jobs[k], k)
    BY <1>2, <2>3 DEF MediaInv
  <2>5. jobs[k].thumbnail_url = Media!ThumbnailUrl(k) /\ jobs[k].stored = "both"
    BY <2>1, <2>2, <2>4 DEF ShownOK, Media!ThumbnailUrl
  <2>6. f \in files /\ jobs[k].thumbnail_url = Media!public_url(Media!ThumbnailKey(k))
    BY <2>4, <2>5 DEF StoredOK, Media!ThumbnailUrl
  <2>7. f.video = k /\ f.key = Media!ThumbnailKey(k)
    BY DEF Stored, Media!ThumbnailKey
  <2> QED
    BY <2>1, <2>2, <2>6, <2>7
<1>3. MediaInv => LatestIsShown
  BY <1>1, <1>2 DEF LatestIsShown, Media!LatestIsShown
<1> QED
  BY <1>3, MediaInvariant, PTL

-----------------------------------------------------------------------------
(* Recommendations *)

\* The same of the recommendations.
LEMMA SimilarRuns == AppSpec => Similar!Spec
<1>1. AppInit => Similar!Init
  BY DEF AppInit
<1>2. [AppNext]_appVars => [Similar!Next]_(Similar!vars)
  BY DEF AppNext, appVars, similarVars, Similar!vars
<1> QED
  BY <1>1, <1>2, PTL DEF AppSpec, Similar!Spec

CandidateLists == Seq(SimilarCandidates)

\* The module counts with an instance of the same definition.
LEMMA SameCount == \A S : Similar!Cardinality(S) = Cardinality(S)
BY SMT DEF Similar!Cardinality, Cardinality

LEMMA CandidateTypes ==
  \A c \in SimilarCandidates : c.id \in Nat /\ c.score \in Nat /\ c.named \in BOOLEAN
<1> SUFFICES ASSUME NEW c \in SimilarCandidates
             PROVE  c.id \in Nat /\ c.score \in Nat /\ c.named \in BOOLEAN
  OBVIOUS
<1>1. \/ c = [id |-> 1, score |-> 2, named |-> TRUE]
      \/ c = [id |-> 2, score |-> 1, named |-> TRUE]
      \/ c = [id |-> 3, score |-> 2, named |-> FALSE]
      \/ c = [id |-> 5, score |-> 0, named |-> TRUE]
  BY DEF SimilarCandidates
<1>2. c.id \in Nat /\ c.score \in Nat
  BY <1>1
<1>3. c.named = TRUE \/ c.named = FALSE
  BY <1>1
<1> QED
  BY <1>2, <1>3

\* The better go before the others: places are a counting of the ranked candidates.
LEMMA PlacesCount ==
  ASSUME NEW list \in CandidateLists
  PROVE  LET P == Similar!Positive(list)
             before == [i \in P |-> Similar!Before(list, i)]
         IN  /\ IsFiniteSet(P) /\ P \subseteq DOMAIN list
             /\ \A i \in P : before[i] \subseteq P \ {i}
             /\ \A i, j \in P : i # j => i \in before[j] \/ j \in before[i]
             /\ \A i, j \in P : i \in before[j] => before[i] \subseteq before[j] \ {i}
             /\ \A i, j \in P : i \in before[j] => list[i].score >= list[j].score
<1> DEFINE P == Similar!Positive(list)
<1>1. DOMAIN list = 1 .. Len(list) /\ Len(list) \in Nat
      /\ \A i \in 1 .. Len(list) : list[i] \in SimilarCandidates
  BY DEF CandidateLists
<1>2. P \subseteq DOMAIN list
  BY DEF Similar!Positive
<1>3. IsFiniteSet(P)
  <2>1. IsFiniteSet(1 .. Len(list))
    BY <1>1, FS_Interval
  <2> HIDE DEF P
  <2>2. P \in SUBSET (1 .. Len(list))
    BY <1>1, <1>2
  <2> QED
    BY <2>1, <2>2, FS_Subset
<1>4. \A i \in P : i \in Nat /\ list[i].score \in Nat
  BY <1>1, <1>2, CandidateTypes
<1>5. \A i, k : k \in Similar!Before(list, i) <=>
        k \in P /\ (list[k].score > list[i].score \/ (list[k].score = list[i].score /\ k < i))
  BY DEF Similar!Before
<1> HIDE DEF P
<1>6. \A i, j \in P : i # j => i \in Similar!Before(list, j) \/ j \in Similar!Before(list, i)
  BY <1>4, <1>5
<1>7. \A i \in P : Similar!Before(list, i) \subseteq P \ {i}
  BY <1>4, <1>5
<1>8. ASSUME NEW i \in P, NEW j \in P, i \in Similar!Before(list, j),
             NEW k \in Similar!Before(list, i)
      PROVE  k \in Similar!Before(list, j) /\ k # i
  <2>1. k \in P
    BY <1>5, <1>8
  <2> QED
    BY <1>4, <1>5, <1>8, <2>1
<1>9. \A i, j \in P : i \in Similar!Before(list, j) => list[i].score >= list[j].score
  BY <1>4, <1>5
<1> QED
  BY <1>2, <1>3, <1>6, <1>7, <1>8, <1>9 DEF P

\* In a finite set where everything goes before or after everything else, each place is taken.
LEMMA PlacesAreTaken ==
  ASSUME NEW P, IsFiniteSet(P), NEW before \in [P -> SUBSET P],
         \A i \in P : before[i] \subseteq P \ {i},
         \A i, j \in P : i # j => i \in before[j] \/ j \in before[i],
         \A i, j \in P : i \in before[j] => before[i] \subseteq before[j] \ {i}
  PROVE  /\ \A i, j \in P : i \in before[j] => Cardinality(before[i]) < Cardinality(before[j])
         /\ \A r \in 1 .. Cardinality(P) : \E i \in P : Cardinality(before[i]) = r - 1
<1> DEFINE n == Cardinality(P)
<1>1. n \in Nat
  BY FS_CardinalityType
<1>2. \A i \in P : IsFiniteSet(before[i]) /\ Cardinality(before[i]) \in Nat
  BY FS_Subset, FS_CardinalityType
<1>3. ASSUME NEW i \in P, NEW j \in P, i \in before[j]
      PROVE  Cardinality(before[i]) < Cardinality(before[j])
  <2>1. before[i] \subseteq before[j] \ {i}
    BY <1>3
  <2>2. IsFiniteSet(before[j] \ {i}) /\ Cardinality(before[j] \ {i}) = Cardinality(before[j]) - 1
    BY <1>2, <1>3, FS_RemoveElement
  <2>3. Cardinality(before[i]) <= Cardinality(before[j] \ {i})
    BY <2>1, <2>2, FS_Subset
  <2> QED
    BY <1>2, <2>2, <2>3
<1>4. ASSUME NEW i \in P PROVE Cardinality(before[i]) \in 0 .. n - 1
  <2>1. IsFiniteSet(P \ {i}) /\ Cardinality(P \ {i}) = n - 1
    BY FS_RemoveElement
  <2>2. Cardinality(before[i]) <= Cardinality(P \ {i})
    BY <2>1, FS_Subset
  <2> QED
    BY <1>1, <1>2, <2>1, <2>2
<1> DEFINE place == [i \in P |-> Cardinality(before[i])]
<1>5. place \in [P -> 0 .. n - 1]
  BY <1>4
<1>6. \A i, j \in P : place[i] = place[j] => i = j
  BY <1>2, <1>3
<1>7. place \in Injection(P, 0 .. n - 1)
  BY <1>5, <1>6 DEF Injection, IsInjective
<1>8. IsFiniteSet(0 .. n - 1) /\ Cardinality(0 .. n - 1) = n
  BY <1>1, FS_Interval
<1>9. place \in Surjection(P, 0 .. n - 1)
  BY <1>7, <1>8, FS_Injection
<1>10. ASSUME NEW r \in 1 .. n PROVE \E i \in P : Cardinality(before[i]) = r - 1
  <2>1. r - 1 \in 0 .. n - 1
    BY <1>1
  <2>2. PICK i \in P : place[i] = r - 1
    BY <1>9, <2>1 DEF Surjection
  <2> QED
    BY <2>2
<1> QED
  BY <1>3, <1>10

\* A list of which a request answers and stores: the best first, as many as are kept.
BestFirst(list) ==
  /\ Len(list) <= limit /\ DistinctIds(list)
  /\ \A i, j \in DOMAIN list : i < j => list[i].score >= list[j].score

\* Ranking a list without duplicates gives such a list.
LEMMA KeptIsBest ==
  ASSUME NEW list \in CandidateLists, DistinctIds(list)
  PROVE  Similar!Kept(list) \in CandidateLists /\ BestFirst(Similar!Kept(list))
<1> DEFINE P == Similar!Positive(list)
           before == [i \in P |-> Similar!Before(list, i)]
           n == Cardinality(P)
           m == IF n < limit THEN n ELSE limit
           who(r) == CHOOSE i \in P : Similar!Cardinality(Similar!Before(list, i)) = r - 1
           kept == Similar!Kept(list)
<1>1. /\ IsFiniteSet(P) /\ P \subseteq DOMAIN list
      /\ \A i \in P : before[i] \subseteq P \ {i}
      /\ \A i, j \in P : i # j => i \in before[j] \/ j \in before[i]
      /\ \A i, j \in P : i \in before[j] => before[i] \subseteq before[j] \ {i}
      /\ \A i, j \in P : i \in before[j] => list[i].score >= list[j].score
  BY PlacesCount
<1>2. kept = [r \in 1 .. m |-> list[who(r)]]
  BY SameCount DEF Similar!Kept, Similar!Ranked
<1>3. \A i \in P : before[i] = Similar!Before(list, i)
  OBVIOUS
<1>4. before \in [P -> SUBSET P]
  BY <1>1
<1>5. n \in Nat
  BY <1>1, FS_CardinalityType
<1>6. m \in Nat /\ m <= limit /\ m <= n
  BY <1>5, BoundsAssumption
<1>7. DOMAIN list = 1 .. Len(list) /\ Len(list) \in Nat
      /\ \A i \in DOMAIN list : list[i] \in SimilarCandidates
  BY DEF CandidateLists
<1> HIDE DEF P, before, kept, m
<1>8. /\ \A i, j \in P : i \in before[j] => Cardinality(before[i]) < Cardinality(before[j])
      /\ \A r \in 1 .. n : \E i \in P : Cardinality(before[i]) = r - 1
  BY <1>1, <1>4, PlacesAreTaken
<1>9. ASSUME NEW r \in 1 .. m
      PROVE  who(r) \in P /\ Cardinality(before[who(r)]) = r - 1
  <2>1. r \in 1 .. n
    BY <1>5, <1>6
  <2>2. \E i \in P : Similar!Cardinality(Similar!Before(list, i)) = r - 1
    BY <1>3, <1>8, <2>1, SameCount
  <2>3. who(r) \in P /\ Similar!Cardinality(Similar!Before(list, who(r))) = r - 1
    BY <2>2
  <2> QED
    BY <1>3, <2>3, SameCount
<1> HIDE DEF who
<1>10. \A r \in 1 .. m : kept[r] = list[who(r)] /\ who(r) \in DOMAIN list
  BY <1>1, <1>2, <1>9
<1>11. kept \in [1 .. m -> SimilarCandidates]
  BY <1>1, <1>2, <1>7, <1>9
<1>12. kept \in CandidateLists /\ Len(kept) = m /\ DOMAIN kept = 1 .. m
  <2>1. kept \in Seq(SimilarCandidates)
    BY <1>6, <1>11, SeqDef
  <2> QED
    BY <1>6, <1>11, <2>1 DEF CandidateLists
<1>13. ASSUME NEW r \in 1 .. m, NEW s \in 1 .. m, kept[r].id = kept[s].id PROVE r = s
  <2>1. who(r) = who(s)
    BY <1>10, <1>13 DEF DistinctIds
  <2> QED
    BY <1>6, <1>9, <2>1
<1>14. ASSUME NEW r \in 1 .. m, NEW s \in 1 .. m, r < s PROVE kept[r].score >= kept[s].score
  <2>1. who(r) # who(s)
    BY <1>6, <1>9, <1>14
  <2>2. who(s) \notin before[who(r)]
    BY <1>6, <1>8, <1>9, <1>14
  <2>3. who(r) \in before[who(s)]
    BY <1>1, <1>9, <2>1, <2>2
  <2> QED
    BY <1>1, <1>9, <1>10, <2>3
<1>15. BestFirst(kept)
  BY <1>6, <1>12, <1>13, <1>14 DEF BestFirst, DistinctIds
<1> QED
  BY <1>12, <1>15 DEF kept

\* What a search adds leaves every id once.
LEMMA UnseenKeepsDistinct ==
  ASSUME NEW list \in CandidateLists, DistinctIds(list),
         NEW found \in CandidateLists, Similar!Unseen(list, found)
  PROVE  list \o found \in CandidateLists /\ DistinctIds(list \o found)
<1> DEFINE both == list \o found
<1>1. both \in CandidateLists /\ Len(both) = Len(list) + Len(found)
      /\ \A i \in 1 .. Len(list) + Len(found) :
           both[i] = IF i <= Len(list) THEN list[i] ELSE found[i - Len(list)]
  BY ConcatProperties DEF CandidateLists
<1> HIDE DEF both
<1>2. /\ DOMAIN both = 1 .. Len(list) + Len(found) /\ DOMAIN list = 1 .. Len(list)
      /\ DOMAIN found = 1 .. Len(found) /\ Len(list) \in Nat /\ Len(found) \in Nat
  BY <1>1 DEF CandidateLists
<1>3. ASSUME NEW i \in DOMAIN both, NEW j \in DOMAIN both, both[i].id = both[j].id, i < j
      PROVE  FALSE
  <2>1. CASE j <= Len(list)
    <3>1. i \in DOMAIN list /\ j \in DOMAIN list /\ both[i] = list[i] /\ both[j] = list[j]
      BY <1>1, <1>2, <1>3, <2>1
    <3> QED
      BY <1>2, <1>3, <3>1 DEF DistinctIds
  <2>2. CASE i <= Len(list) /\ j > Len(list)
    <3>1. /\ i \in DOMAIN list /\ j - Len(list) \in DOMAIN found
          /\ both[i] = list[i] /\ both[j] = found[j - Len(list)]
      BY <1>1, <1>2, <1>3, <2>2
    <3> QED
      BY <1>3, <3>1 DEF Similar!Unseen
  <2>3. CASE i > Len(list)
    <3>1. /\ j - Len(list) \in DOMAIN found /\ i - Len(list) \in 1 .. (j - Len(list)) - 1
          /\ both[i] = found[i - Len(list)] /\ both[j] = found[j - Len(list)]
      BY <1>1, <1>2, <1>3, <2>3
    <3> QED
      BY <1>3, <3>1 DEF Similar!Unseen
  <2> QED
    BY <1>2, <2>1, <2>2, <2>3
<1>4. DistinctIds(both)
  <2> SUFFICES ASSUME NEW i \in DOMAIN both, NEW j \in DOMAIN both, both[i].id = both[j].id
               PROVE  i = j
    BY DEF DistinctIds
  <2>1. i < j \/ j < i \/ i = j
    BY <1>2
  <2> QED
    BY <1>3, <2>1
<1> QED
  BY <1>1, <1>4 DEF both

-----------------------------------------------------------------------------

\* Every row stored is of one request's list, which was the best first when it was ranked;
\* no process stores a list that was not.
StoredRow == [id : Nat, rank : Nat, by : 0 .. MaxRequests]
Processing ==
  [step : {"free", "search", "delete", "insert", "reread"}, by : 0 .. MaxRequests,
   candidates : CandidateLists, searched : Nat, gone : SUBSET StoredRow]
ListsOK(q) ==
  /\ q.step = "search" => DistinctIds(q.candidates)
  /\ q.step \in {"delete", "insert"} => BestFirst(q.candidates)
StoredRows ==
  \E list \in CandidateLists, by \in 0 .. MaxRequests :
    BestFirst(list) /\ rows = Similar!Rows(list, by)
AnswersOK == \A a \in answers : a.status \in {200, 500} /\ Similar!Placed(a.rows)

\* What the locks are for: the rows a transaction deleted are the rows there are until it
\* commits.
LocksOK == \A p \in Procs : proc[p].step = "insert" => proc[p].gone = rows

SimilarInv ==
  /\ made \in 0 .. MaxRequests
  /\ proc \in [Procs -> Processing]
  /\ \A p \in Procs : ListsOK(proc[p])
  /\ StoredRows
  /\ LocksOK
  /\ AnswersOK

LEMMA NoCandidates == <<>> \in CandidateLists /\ BestFirst(<<>>) /\ DistinctIds(<<>>)
BY BoundsAssumption DEF CandidateLists, BestFirst, DistinctIds

\* The rows of a list that is kept.
LEMMA RowsPlaced ==
  ASSUME NEW list \in CandidateLists, BestFirst(list), NEW by \in 0 .. MaxRequests
  PROVE  /\ Similar!Rows(list, by) \subseteq StoredRow
         /\ Similar!Placed(Similar!Rows(list, by))
<1>1. /\ DOMAIN list = 1 .. Len(list) /\ Len(list) \in Nat /\ Len(list) <= limit
      /\ \A r \in DOMAIN list : list[r] \in SimilarCandidates
  BY DEF CandidateLists, BestFirst
<1>2. \A r \in DOMAIN list : list[r].id \in Nat /\ r \in Nat /\ r \in 1 .. limit
  BY <1>1, CandidateTypes, BoundsAssumption
<1> QED
  BY <1>2 DEF Similar!Rows, StoredRow, Similar!Placed

LEMMA FreeProcess == Similar!Free \in Processing /\ ListsOK(Similar!Free)
<1>1. Similar!Free \in Processing
  BY NoCandidates, BoundsAssumption DEF Similar!Free, Processing
<1>2. ListsOK(Similar!Free)
  BY DEF Similar!Free, ListsOK
<1> QED
  BY <1>1, <1>2

\* One process moves on, and the others stay.
LEMMA ProcessMoves ==
  ASSUME SimilarInv, NEW p \in Procs, NEW q \in Processing, ListsOK(q),
         proc' = [proc EXCEPT ![p] = q]
  PROVE  proc' \in [Procs -> Processing] /\ \A o \in Procs : ListsOK(proc'[o])
<1>1. proc \in [Procs -> Processing] /\ \A o \in Procs : ListsOK(proc[o])
  BY DEF SimilarInv
<1> HIDE DEF Processing
<1>2. proc' \in [Procs -> Processing] /\ \A o \in Procs : proc'[o] = IF o = p THEN q ELSE proc[o]
  BY <1>1
<1> QED
  BY <1>1, <1>2

LEMMA StoredArePlaced == StoredRows => rows \subseteq StoredRow /\ Similar!Placed(rows)
BY RowsPlaced DEF StoredRows

\* While the rows stay, a process that moves on keeps to the locks if it deleted them.
LEMMA LocksStay ==
  ASSUME SimilarInv, NEW p \in Procs, NEW q \in Processing,
         proc' = [proc EXCEPT ![p] = q], rows' = rows,
         q.step = "insert" => q.gone = rows
  PROVE  LocksOK'
<1>1. proc \in [Procs -> Processing] /\ LocksOK
  BY DEF SimilarInv
<1> HIDE DEF Processing
<1>2. \A o \in Procs : proc'[o] = IF o = p THEN q ELSE proc[o]
  BY <1>1
<1> QED
  BY <1>1, <1>2 DEF LocksOK

\* The fields a step assigns, one after the other.
LEMMA ProcessAsks ==
  ASSUME NEW q \in Processing, NEW a, NEW b
  PROVE  [q EXCEPT !.step = a, !.by = b] =
           [step |-> a, by |-> b, candidates |-> q.candidates,
            searched |-> q.searched, gone |-> q.gone]
<1>1. [q EXCEPT !.step = a, !.by = b] = [[q EXCEPT !.step = a] EXCEPT !.by = b]
  OBVIOUS
<1>2. [q EXCEPT !.step = a] =
        [step |-> a, by |-> q.by, candidates |-> q.candidates,
         searched |-> q.searched, gone |-> q.gone]
  BY DEF Processing
<1>3. [[step |-> a, by |-> q.by, candidates |-> q.candidates,
       searched |-> q.searched, gone |-> q.gone] EXCEPT !.by = b] =
        [step |-> a, by |-> b, candidates |-> q.candidates,
         searched |-> q.searched, gone |-> q.gone]
  OBVIOUS
<1> QED
  BY <1>1, <1>2, <1>3

LEMMA ProcessSearched ==
  ASSUME NEW q \in Processing, NEW a, NEW b
  PROVE  [q EXCEPT !.searched = a, !.candidates = b] =
           [step |-> q.step, by |-> q.by, candidates |-> b,
            searched |-> a, gone |-> q.gone]
<1>1. [q EXCEPT !.searched = a, !.candidates = b] = [[q EXCEPT !.searched = a] EXCEPT !.candidates = b]
  OBVIOUS
<1>2. [q EXCEPT !.searched = a] =
        [step |-> q.step, by |-> q.by, candidates |-> q.candidates,
         searched |-> a, gone |-> q.gone]
  BY DEF Processing
<1>3. [[step |-> q.step, by |-> q.by, candidates |-> q.candidates,
       searched |-> a, gone |-> q.gone] EXCEPT !.candidates = b] =
        [step |-> q.step, by |-> q.by, candidates |-> b,
         searched |-> a, gone |-> q.gone]
  OBVIOUS
<1> QED
  BY <1>1, <1>2, <1>3

LEMMA ProcessRanked ==
  ASSUME NEW q \in Processing, NEW a, NEW b
  PROVE  [q EXCEPT !.step = a, !.candidates = b] =
           [step |-> a, by |-> q.by, candidates |-> b,
            searched |-> q.searched, gone |-> q.gone]
<1>1. [q EXCEPT !.step = a, !.candidates = b] = [[q EXCEPT !.step = a] EXCEPT !.candidates = b]
  OBVIOUS
<1>2. [q EXCEPT !.step = a] =
        [step |-> a, by |-> q.by, candidates |-> q.candidates,
         searched |-> q.searched, gone |-> q.gone]
  BY DEF Processing
<1>3. [[step |-> a, by |-> q.by, candidates |-> q.candidates,
       searched |-> q.searched, gone |-> q.gone] EXCEPT !.candidates = b] =
        [step |-> a, by |-> q.by, candidates |-> b,
         searched |-> q.searched, gone |-> q.gone]
  OBVIOUS
<1> QED
  BY <1>1, <1>2, <1>3

LEMMA ProcessLocks ==
  ASSUME NEW q \in Processing, NEW a, NEW b
  PROVE  [q EXCEPT !.step = a, !.gone = b] =
           [step |-> a, by |-> q.by, candidates |-> q.candidates,
            searched |-> q.searched, gone |-> b]
<1>1. [q EXCEPT !.step = a, !.gone = b] = [[q EXCEPT !.step = a] EXCEPT !.gone = b]
  OBVIOUS
<1>2. [q EXCEPT !.step = a] =
        [step |-> a, by |-> q.by, candidates |-> q.candidates,
         searched |-> q.searched, gone |-> q.gone]
  BY DEF Processing
<1>3. [[step |-> a, by |-> q.by, candidates |-> q.candidates,
       searched |-> q.searched, gone |-> q.gone] EXCEPT !.gone = b] =
        [step |-> a, by |-> q.by, candidates |-> q.candidates,
         searched |-> q.searched, gone |-> b]
  OBVIOUS
<1> QED
  BY <1>1, <1>2, <1>3

LEMMA SimilarAsk ==
  ASSUME SimilarInv, NEW p \in Procs, Similar!Ask(p)
  PROVE  SimilarInv'
<1>1. /\ made \in 0 .. MaxRequests /\ made < MaxRequests /\ made' = made + 1 /\ rows' = rows
      /\ StoredRows /\ AnswersOK /\ proc \in [Procs -> Processing]
  BY DEF SimilarInv, Similar!Ask
<1>2. made' \in 0 .. MaxRequests
  BY <1>1, BoundsAssumption
<1>3. StoredRows'
  BY <1>1 DEF StoredRows
<1> DEFINE asking == [step |-> "search", by |-> made + 1, candidates |-> <<>>, searched |-> 0,
                      gone |-> {}]
<1>4. asking \in Processing /\ ListsOK(asking)
  BY <1>1, <1>2, NoCandidates DEF Processing, ListsOK
<1>5. CASE proc' = [proc EXCEPT ![p] = [Similar!Free EXCEPT !.step = "search", !.by = made + 1]]
           /\ answers' = answers
  <2>1. [Similar!Free EXCEPT !.step = "search", !.by = made + 1] = asking
    <3>1. [Similar!Free EXCEPT !.step = "search", !.by = made + 1] =
             [step |-> "search", by |-> made + 1, candidates |-> Similar!Free.candidates,
              searched |-> Similar!Free.searched, gone |-> Similar!Free.gone]
      BY FreeProcess, ProcessAsks
    <3> QED
      BY <3>1 DEF Similar!Free
  <2>2. proc' = [proc EXCEPT ![p] = asking]
    BY <1>5, <2>1
  <2> HIDE DEF asking
  <2>3. proc' \in [Procs -> Processing] /\ \A o \in Procs : ListsOK(proc'[o])
    BY <1>4, <2>2, ProcessMoves
  <2>4. LocksOK'
    BY <1>1, <1>4, <2>2, LocksStay DEF asking
  <2> QED
    BY <1>1, <1>2, <1>3, <1>5, <2>3, <2>4 DEF SimilarInv, AnswersOK
<1>6. ASSUME NEW list, Similar!Placed(list), Similar!Finish(p, made + 1, 200, list)
      PROVE  SimilarInv'
  <2>1. proc' = [proc EXCEPT ![p] = Similar!Free]
        /\ answers' = answers \cup {[by |-> made + 1, status |-> 200, rows |-> list]}
    BY <1>6 DEF Similar!Finish
  <2>2. proc' \in [Procs -> Processing] /\ \A o \in Procs : ListsOK(proc'[o])
    BY <2>1, FreeProcess, ProcessMoves
  <2>3. AnswersOK'
    BY <1>1, <1>6, <2>1 DEF AnswersOK
  <2>4. LocksOK'
    BY <1>1, <2>1, FreeProcess, LocksStay DEF Similar!Free
  <2> QED
    BY <1>2, <1>3, <2>2, <2>3, <2>4 DEF SimilarInv
<1>7. Similar!Placed(rows) /\ Similar!Placed({})
  BY <1>1, StoredArePlaced DEF Similar!Placed
<1>8. \/ proc' = [proc EXCEPT ![p] = [Similar!Free EXCEPT !.step = "search", !.by = made + 1]]
         /\ answers' = answers
      \/ Similar!Finish(p, made + 1, 200, rows)
      \/ Similar!Finish(p, made + 1, 200, {})
  BY DEF Similar!Ask
<1> QED
  BY <1>5, <1>6, <1>7, <1>8

\* A request that is answered leaves its process free.
LEMMA SimilarFinish ==
  ASSUME SimilarInv, NEW p \in Procs, NEW by, NEW status \in {200, 500}, NEW list,
         Similar!Placed(list), Similar!Finish(p, by, status, list), rows' = rows, made' = made
  PROVE  SimilarInv'
<1>1. proc' = [proc EXCEPT ![p] = Similar!Free]
      /\ answers' = answers \cup {[by |-> by, status |-> status, rows |-> list]}
  BY DEF Similar!Finish
<1>2. proc' \in [Procs -> Processing] /\ \A o \in Procs : ListsOK(proc'[o])
  BY <1>1, FreeProcess, ProcessMoves
<1>3. AnswersOK'
  BY <1>1 DEF AnswersOK, SimilarInv
<1>4. LocksOK'
  <2> DEFINE free == Similar!Free
  <2>1. free \in Processing /\ (free.step = "insert" => free.gone = rows)
    BY FreeProcess DEF Similar!Free
  <2>2. proc' = [proc EXCEPT ![p] = free] /\ rows' = rows
    BY <1>1
  <2> HIDE DEF free
  <2> QED
    BY <2>1, <2>2, LocksStay
<1> QED
  BY <1>2, <1>3, <1>4 DEF SimilarInv, StoredRows

\* A process that goes on with a list.
LEMMA SimilarGoesOn ==
  ASSUME SimilarInv, NEW p \in Procs, NEW q \in Processing, ListsOK(q),
         proc' = [proc EXCEPT ![p] = q], answers' = answers, made' = made, StoredRows', LocksOK'
  PROVE  SimilarInv'
<1>1. proc' \in [Procs -> Processing] /\ \A o \in Procs : ListsOK(proc'[o])
  BY ProcessMoves
<1> QED
  BY <1>1 DEF SimilarInv, AnswersOK

LEMMA SimilarSearch ==
  ASSUME SimilarInv, NEW p \in Procs, Similar!Search(p)
  PROVE  SimilarInv'
<1>1. PICK found \in UNION {[1 .. n -> SimilarCandidates] : n \in 0 .. 2} :
        /\ Similar!Unseen(proc[p].candidates, found)
        /\ proc' = [proc EXCEPT ![p].searched = @ + 1, ![p].candidates = @ \o found]
  BY DEF Similar!Search
<1>2. /\ proc[p].step = "search" /\ rows' = rows /\ answers' = answers /\ made' = made
  BY DEF Similar!Search, Similar!At
<1>3. found \in CandidateLists
  <2>1. PICK n \in 0 .. 2 : found \in [1 .. n -> SimilarCandidates]
    BY <1>1
  <2> QED
    BY <2>1, SeqDef DEF CandidateLists
<1>4. proc \in [Procs -> Processing] /\ ListsOK(proc[p]) /\ StoredRows
  BY DEF SimilarInv
<1>5. proc[p] \in Processing
  BY <1>4
<1> DEFINE both == proc[p].candidates \o found
           q == [step |-> "search", by |-> proc[p].by, candidates |-> both,
                 searched |-> proc[p].searched + 1, gone |-> proc[p].gone]
<1>6. both \in CandidateLists /\ DistinctIds(both)
  <2>1. proc[p].candidates \in CandidateLists /\ DistinctIds(proc[p].candidates)
    BY <1>2, <1>4, <1>5 DEF Processing, ListsOK
  <2> QED
    BY <1>1, <1>3, <2>1, UnseenKeepsDistinct
<1>7. proc' = [proc EXCEPT ![p] = [proc[p] EXCEPT !.searched = @ + 1, !.candidates = @ \o found]]
  BY <1>1, <1>4
<1>8. [proc[p] EXCEPT !.searched = @ + 1, !.candidates = @ \o found] = q
  <2>1. [proc[p] EXCEPT !.searched = proc[p].searched + 1, !.candidates = both] =
          [step |-> proc[p].step, by |-> proc[p].by, candidates |-> both,
           searched |-> proc[p].searched + 1, gone |-> proc[p].gone]
    <3> HIDE DEF both
    <3> QED
      BY <1>5, ProcessSearched
  <2> QED
    BY <1>2, <2>1
<1> HIDE DEF both
<1>9. q \in Processing /\ ListsOK(q)
  BY <1>5, <1>6 DEF Processing, ListsOK
<1>10. proc' = [proc EXCEPT ![p] = q]
  BY <1>7, <1>8
<1> HIDE DEF q
<1>11. StoredRows'
  BY <1>2, <1>4 DEF StoredRows
<1>12. LocksOK'
  BY <1>2, <1>9, <1>10, LocksStay DEF q
<1> QED
  BY <1>2, <1>9, <1>10, <1>11, <1>12, SimilarGoesOn

LEMMA SimilarRank ==
  ASSUME SimilarInv, NEW p \in Procs, Similar!Rank(p)
  PROVE  SimilarInv'
<1> DEFINE kept == Similar!Kept(proc[p].candidates)
<1>1. /\ proc[p].step = "search" /\ rows' = rows /\ made' = made
      /\ \/ Similar!Finish(p, proc[p].by, 200, {})
         \/ Similar!Finish(p, proc[p].by, 500, {})
         \/ /\ proc' = [proc EXCEPT ![p].step = "delete", ![p].candidates = kept]
            /\ answers' = answers
  BY DEF Similar!Rank, Similar!At
<1>2. proc \in [Procs -> Processing] /\ ListsOK(proc[p]) /\ StoredRows
  BY DEF SimilarInv
<1>3. proc[p] \in Processing
  BY <1>2
<1>4. kept \in CandidateLists /\ BestFirst(kept)
  <2>1. proc[p].candidates \in CandidateLists /\ DistinctIds(proc[p].candidates)
    BY <1>1, <1>2, <1>3 DEF Processing, ListsOK
  <2> QED
    BY <2>1, KeptIsBest
<1> HIDE DEF kept
<1> DEFINE q == [step |-> "delete", by |-> proc[p].by, candidates |-> kept,
                 searched |-> proc[p].searched, gone |-> proc[p].gone]
<1>5. Similar!Placed({})
  BY DEF Similar!Placed
<1>6. CASE proc' = [proc EXCEPT ![p].step = "delete", ![p].candidates = kept]
           /\ answers' = answers
  <2>1. proc' = [proc EXCEPT ![p] = [proc[p] EXCEPT !.step = "delete", !.candidates = kept]]
    BY <1>2, <1>6
  <2>2. [proc[p] EXCEPT !.step = "delete", !.candidates = kept] = q
    BY <1>3, ProcessRanked
  <2>3. q \in Processing /\ ListsOK(q)
    BY <1>3, <1>4 DEF Processing, ListsOK
  <2>4. proc' = [proc EXCEPT ![p] = q]
    BY <2>1, <2>2
  <2> HIDE DEF q
  <2>5. StoredRows'
    BY <1>1, <1>2 DEF StoredRows
  <2>6. LocksOK'
    BY <1>1, <2>3, <2>4, LocksStay DEF q
  <2> QED
    BY <1>1, <1>6, <2>3, <2>4, <2>5, <2>6, SimilarGoesOn
<1> QED
  BY <1>1, <1>5, <1>6, SimilarFinish

LEMMA SimilarDelete ==
  ASSUME SimilarInv, NEW p \in Procs, Similar!Delete(p)
  PROVE  SimilarInv'
<1>1. /\ proc[p].step = "delete" /\ rows' = rows /\ answers' = answers /\ made' = made
      /\ proc' = [proc EXCEPT ![p].step = "insert", ![p].gone = rows]
  BY DEF Similar!Delete, Similar!At
<1>2. proc \in [Procs -> Processing] /\ ListsOK(proc[p]) /\ StoredRows
  BY DEF SimilarInv
<1>3. proc[p] \in Processing
  BY <1>2
<1> DEFINE q == [step |-> "insert", by |-> proc[p].by, candidates |-> proc[p].candidates,
                 searched |-> proc[p].searched, gone |-> rows]
<1>4. proc' = [proc EXCEPT ![p] = [proc[p] EXCEPT !.step = "insert", !.gone = rows]]
  BY <1>1, <1>2
<1>5. [proc[p] EXCEPT !.step = "insert", !.gone = rows] = q
  BY <1>3, ProcessLocks
<1>6. q \in Processing /\ ListsOK(q)
  BY <1>1, <1>2, <1>3, StoredArePlaced DEF Processing, ListsOK
<1>7. proc' = [proc EXCEPT ![p] = q]
  BY <1>4, <1>5
<1> HIDE DEF q
<1>8. StoredRows'
  BY <1>1, <1>2 DEF StoredRows
<1>9. LocksOK'
  BY <1>1, <1>6, <1>7, LocksStay DEF q
<1> QED
  BY <1>1, <1>6, <1>7, <1>8, <1>9, SimilarGoesOn

LEMMA SimilarInsert ==
  ASSUME SimilarInv, NEW p \in Procs, Similar!Insert(p)
  PROVE  SimilarInv'
<1>1. /\ proc[p].step = "insert" /\ answers' = answers /\ made' = made
      /\ rows' = (rows \ proc[p].gone) \cup Similar!Rows(proc[p].candidates, proc[p].by)
      /\ proc' = [proc EXCEPT ![p].step = "reread", ![p].gone = {}]
      /\ \A o \in Procs \ {p} : proc[o].step # "insert"
  BY DEF Similar!Insert, Similar!At, Similar!NewRows, Similar!Holders
<1>2. proc \in [Procs -> Processing] /\ ListsOK(proc[p]) /\ proc[p].gone = rows
  BY <1>1 DEF SimilarInv, LocksOK
<1>3. proc[p] \in Processing
  BY <1>2
<1> DEFINE q == [step |-> "reread", by |-> proc[p].by, candidates |-> proc[p].candidates,
                 searched |-> proc[p].searched, gone |-> {}]
<1>4. proc' = [proc EXCEPT ![p] = [proc[p] EXCEPT !.step = "reread", !.gone = {}]]
  BY <1>1, <1>2
<1>5. [proc[p] EXCEPT !.step = "reread", !.gone = {}] = q
  BY <1>3, ProcessLocks
<1>6. q \in Processing /\ ListsOK(q)
  BY <1>3 DEF Processing, ListsOK
<1>7. proc' = [proc EXCEPT ![p] = q]
  BY <1>4, <1>5
<1> HIDE DEF q
<1>8. /\ proc[p].candidates \in CandidateLists /\ BestFirst(proc[p].candidates)
      /\ proc[p].by \in 0 .. MaxRequests
  BY <1>1, <1>2, <1>3 DEF Processing, ListsOK
<1>9. StoredRows'
  <2>1. rows' = Similar!Rows(proc[p].candidates, proc[p].by)
    BY <1>1, <1>2
  <2> QED
    BY <1>8, <2>1 DEF StoredRows
<1>10. LocksOK'
  <2> HIDE DEF Processing
  <2>1. \A o \in Procs : proc'[o] = IF o = p THEN q ELSE proc[o]
    BY <1>2, <1>7
  <2>2. q.step = "reread"
    BY DEF q
  <2> QED
    BY <1>1, <2>1, <2>2 DEF LocksOK
<1> QED
  BY <1>1, <1>6, <1>7, <1>9, <1>10, SimilarGoesOn

\* The cascade leaves no rows, which are those of an empty list.
LEMMA SimilarDeleteMovie ==
  ASSUME SimilarInv, Similar!DeleteMovie
  PROVE  SimilarInv'
<1>1. /\ rows' = {} /\ proc' = proc /\ answers' = answers /\ made' = made
      /\ rows = {} \/ \A p \in Procs : proc[p].step # "insert"
  BY DEF Similar!DeleteMovie, Similar!At
<1>2. Similar!Rows(<<>>, 0) = {}
  BY DEF Similar!Rows
<1>3. 0 \in 0 .. MaxRequests
  BY BoundsAssumption
<1>4. StoredRows'
  BY <1>1, <1>2, <1>3, NoCandidates DEF StoredRows
<1>5. LocksOK'
  BY <1>1 DEF SimilarInv, LocksOK
<1> QED
  BY <1>1, <1>4, <1>5 DEF SimilarInv, AnswersOK

\* The recommendations keep their invariant, whoever asks, stores and deletes meanwhile.
LEMMA SimilarInvariant == AppSpec => []SimilarInv
<1>1. Similar!Init => SimilarInv
  <2> SUFFICES ASSUME Similar!Init PROVE SimilarInv
    OBVIOUS
  <2>1. /\ rows = {} /\ proc = [p \in Procs |-> Similar!Free] /\ answers = {} /\ made = 0
    BY DEF Similar!Init
  <2>2. 0 \in 0 .. MaxRequests
    BY BoundsAssumption
  <2>3. Similar!Rows(<<>>, 0) = {}
    BY DEF Similar!Rows
  <2>4. StoredRows
    BY <2>1, <2>2, <2>3, NoCandidates DEF StoredRows
  <2>5. proc \in [Procs -> Processing] /\ \A p \in Procs : ListsOK(proc[p])
    BY <2>1, FreeProcess
  <2>6. LocksOK
    BY <2>1 DEF LocksOK, Similar!Free
  <2> QED
    BY <2>1, <2>2, <2>4, <2>5, <2>6 DEF SimilarInv, AnswersOK
<1>2. SimilarInv /\ [Similar!Next]_(Similar!vars) => SimilarInv'
  <2> SUFFICES ASSUME SimilarInv, [Similar!Next]_(Similar!vars) PROVE SimilarInv'
    OBVIOUS
  <2>1. ASSUME UNCHANGED Similar!vars PROVE SimilarInv'
    BY <2>1 DEF Similar!vars, SimilarInv, StoredRows, LocksOK, AnswersOK
  <2>2. Similar!Placed({}) /\ Similar!Placed(rows)
    BY StoredArePlaced DEF SimilarInv, Similar!Placed
  <2>3. ASSUME NEW p \in Procs, Similar!Ask(p) \/ Similar!Step(p) PROVE SimilarInv'
    <3>1. CASE Similar!Ask(p)
      BY <3>1, SimilarAsk
    <3>2. CASE Similar!Search(p)
      BY <3>2, SimilarSearch
    <3>3. CASE Similar!Rank(p)
      BY <3>3, SimilarRank
    <3>4. CASE Similar!Delete(p)
      BY <3>4, SimilarDelete
    <3>5. CASE Similar!Insert(p)
      BY <3>5, SimilarInsert
    <3>6. CASE Similar!Reread(p)
      <4>1. Similar!Finish(p, proc[p].by, 200, rows) /\ rows' = rows /\ made' = made
        BY <3>6 DEF Similar!Reread
      <4> QED
        BY <2>2, <4>1, SimilarFinish
    <3>7. CASE Similar!Abort(p)
      <4>1. Similar!Finish(p, proc[p].by, 500, {}) /\ rows' = rows /\ made' = made
        BY <3>7 DEF Similar!Abort
      <4> QED
        BY <2>2, <4>1, SimilarFinish
    <3> QED
      BY <2>3, <3>1, <3>2, <3>3, <3>4, <3>5, <3>6, <3>7 DEF Similar!Step
  <2> QED
    BY <2>1, <2>3, SimilarDeleteMovie DEF Similar!Next, Similar!Idle
<1> QED
  BY <1>1, <1>2, SimilarRuns, PTL DEF Similar!Spec

\* Rows of the best first are one request's whole result.
LEMMA StoredIsWhole == StoredRows => Similar!OneWholeResult
<1> SUFFICES ASSUME StoredRows PROVE Similar!OneWholeResult
  OBVIOUS
<1>1. PICK list \in CandidateLists, by \in 0 .. MaxRequests :
        BestFirst(list) /\ rows = Similar!Rows(list, by)
  BY DEF StoredRows
<1>2. DOMAIN list = 1 .. Len(list) /\ Len(list) \in Nat
      /\ \A i \in DOMAIN list : list[i] \in SimilarCandidates
  BY DEF CandidateLists
<1>3. rows = {[id |-> list[r].id, rank |-> r, by |-> by] : r \in DOMAIN list}
  BY <1>1 DEF Similar!Rows
<1>4. \A x \in rows : x.rank \in DOMAIN list /\ x.id = list[x.rank].id /\ x.by = by
  BY <1>3
<1>5. ASSUME NEW r \in DOMAIN list PROVE \E y \in rows : y.rank = r
  <2>1. [id |-> list[r].id, rank |-> r, by |-> by] \in rows
    BY <1>3
  <2> QED
    BY <2>1
<1>6. \A x, y \in rows : x.rank = y.rank => x = y
  BY <1>3
<1>7. \A x, y \in rows : x.id = y.id => x = y
  BY <1>1, <1>4, <1>6 DEF BestFirst, DistinctIds
<1>8. ASSUME NEW x \in rows, NEW r \in 1 .. x.rank PROVE \E y \in rows : y.rank = r
  <2>1. x.rank \in 1 .. Len(list)
    BY <1>2, <1>4
  <2>2. r \in DOMAIN list
    BY <1>2, <2>1
  <2> QED
    BY <1>5, <2>2
<1>9. \A x \in rows : list[x.rank].score \in Similar!Scores(x.id)
  BY <1>2, <1>4 DEF Similar!Scores
<1>10. \A x, y \in rows : x.rank < y.rank =>
         \E s \in Similar!Scores(x.id), t \in Similar!Scores(y.id) : s >= t
  BY <1>1, <1>4, <1>9 DEF BestFirst
<1> QED
  BY <1>4, <1>6, <1>7, <1>8, <1>10 DEF Similar!OneWholeResult

\* However many requests replace the stored rows at once, what their commits leave is one
\* request's complete result, in order and without duplicates
\* (movie_recommendation_repository.py, replace_for_movie), for any number of processes,
\* searches and rows kept: who holds the locks of a DELETE deleted all the rows there are
\* when it commits (LocksOK).  The gap locks of REPEATABLE READ are assumed; a commit takes
\* away only the rows its own DELETE saw.
THEOREM OneResultIsWhole == AppSpec => []OneWholeResult
<1>1. SimilarInv => OneWholeResult
  BY StoredIsWhole DEF SimilarInv, OneWholeResult
<1> QED
  BY <1>1, SimilarInvariant, PTL

\* The requests' states and answers keep their types, and no more rows are stored or
\* answered than are kept.
THEOREM SimilarTypes == AppSpec => []Similar!TypeOK
<1>1. SimilarInv => Similar!TypeOK
  BY StoredArePlaced DEF SimilarInv, AnswersOK, Processing, Similar!TypeOK
<1> QED
  BY <1>1, SimilarInvariant, PTL

-----------------------------------------------------------------------------
(* The types of every part *)

\* The same of the provider's run, whose settings no step changes, and of the prompt.
LEMMA ProvidersRun == AppSpec => Spec
<1>1. AppInit => Init
  BY DEF AppInit
<1>2. [AppNext]_appVars => [Next]_vars
  BY DEF AppNext, appVars, providerVars
<1> QED
  BY <1>1, <1>2, PTL DEF AppSpec, Spec

LEMMA PromptsRun == AppSpec => Prompts!Spec
<1>1. AppInit => Prompts!Init
  BY DEF AppInit, Prompts!Init
<1>2. [AppNext]_appVars => [Prompts!Next]_(Prompts!vars)
  BY DEF AppNext, appVars, promptVars, Prompts!vars
<1> QED
  BY <1>1, <1>2, PTL DEF AppSpec, Prompts!Spec

\* Wherever the cut falls, what is left fits.
LEMMA CutFits ==
  ASSUME NEW length, NEW ends
  PROVE  Prompts!truncate_prompt(length, ends, 2800).length <= 2800
BY DEF Prompts!truncate_prompt

\* The prompt sent to OpenAI never exceeds its limit.
THEOREM PromptFits == AppSpec => []Prompts!TypeOK
<1>1. Prompts!Init => Prompts!TypeOK
  BY DEF Prompts!Init, Prompts!NotBuilt, Prompts!TypeOK, Prompts!Built
<1>2. Prompts!TypeOK /\ [Prompts!Next]_(Prompts!vars) => Prompts!TypeOK'
  <2> SUFFICES ASSUME Prompts!TypeOK, [Prompts!Next]_(Prompts!vars) PROVE Prompts!TypeOK'
    OBVIOUS
  <2>1. CASE UNCHANGED Prompts!vars
    BY <2>1 DEF Prompts!vars, Prompts!TypeOK, Prompts!Built
  <2>2. CASE Prompts!Build
    <3>1. CASE prompt' = Prompts!Refused
      <4>1. prompt'.status = "provider_error"
        BY <3>1 DEF Prompts!Refused, Prompts!NotBuilt
      <4> QED
        BY <4>1 DEF Prompts!TypeOK, Prompts!Built
    <3>2. CASE input.provider = "openai" /\ prompt' = Prompts!build_openai_video_prompt(input)
      <4>1. prompt'.status = "built" /\ prompt'.length <= 2800
        BY <3>2, CutFits
        DEF Prompts!build_openai_video_prompt, Prompts!MAX_OPENAI_VIDEO_PROMPT_LENGTH
      <4> QED
        BY <4>1 DEF Prompts!TypeOK, Prompts!MAX_OPENAI_VIDEO_PROMPT_LENGTH
    <3>3. CASE input.provider # "openai" /\ prompt' = Prompts!build_fal_payload(input)
      <4>1. prompt'.status = "built" /\ input' = input
        BY <2>2, <3>3 DEF Prompts!build_fal_payload, Prompts!Build
      <4> QED
        BY <3>3, <4>1 DEF Prompts!TypeOK, Prompts!Built
    <3> QED
      BY <2>2, <3>1, <3>2, <3>3 DEF Prompts!Build
  <2> QED
    BY <2>1, <2>2 DEF Prompts!Next, Prompts!Idle
<1> QED
  BY <1>1, <1>2, PromptsRun, PTL DEF Prompts!Spec

-----------------------------------------------------------------------------
(* What the prompt keeps of the story.  Where its lines end is a recursive function of their *)
(* lengths: UpTo is the induction it needs, for sets of numbers.                           *)

\* What holds of 0, and of every number up to N after the one before it, holds up to N.
LEMMA UpTo ==
  ASSUME NEW N \in Nat, NEW G, 0 \in G, \A k \in 1 .. N : k - 1 \in G => k \in G
  PROVE  0 .. N \subseteq G
<1> DEFINE B == (0 .. N) \ G
           before == [i \in B |-> {j \in B : j < i}]
<1>1. SUFFICES ASSUME B # {} PROVE FALSE
  OBVIOUS
<1>2. IsFiniteSet(B)
  <2>1. IsFiniteSet(0 .. N) /\ B \subseteq 0 .. N
    BY FS_Interval
  <2> QED
    BY <2>1, FS_Subset
<1>3. Cardinality(B) \in Nat /\ Cardinality(B) # 0
  BY <1>1, <1>2, FS_CardinalityType, FS_EmptySet
<1>4. /\ before \in [B -> SUBSET B]
      /\ \A i \in B : before[i] \subseteq B \ {i}
      /\ \A i, j \in B : i # j => i \in before[j] \/ j \in before[i]
      /\ \A i, j \in B : i \in before[j] => before[i] \subseteq before[j] \ {i}
  OBVIOUS
<1>5. \E i \in B : Cardinality(before[i]) = 1 - 1
  <2> HIDE DEF before, B
  <2>1. 1 \in 1 .. Cardinality(B)
    BY <1>3
  <2> QED
    BY <1>2, <1>4, <2>1, PlacesAreTaken
<1>6. PICK i \in B : Cardinality(before[i]) = 0
  <2> HIDE DEF before, B
  <2> QED
    BY <1>5
<1>7. before[i] = {}
  <2>1. IsFiniteSet(before[i])
    BY <1>2, FS_Subset
  <2> QED
    BY <1>6, <2>1, FS_EmptySet
<1>8. i \in 1 .. N /\ i - 1 \notin B
  BY <1>7
<1> QED
  BY <1>8

\* Ends is what its equations say.
LEMMA EndsAre ==
  ASSUME NEW lengths \in Seq(Nat), NEW separator \in Nat
  PROVE  LET end == Prompts!Ends(lengths, separator)
             n == Len(lengths)
         IN /\ end \in [0 .. n -> Nat]
            /\ end[0] = 0
            /\ \A k \in 1 .. n :
                 end[k] = IF lengths[k] = 0 THEN end[k - 1]
                          ELSE IF end[k - 1] = 0 THEN lengths[k]
                          ELSE end[k - 1] + separator + lengths[k]
<1> DEFINE N == Len(lengths)
           Next1(x, k) == IF lengths[k] = 0 THEN x
                          ELSE IF x = 0 THEN lengths[k] ELSE x + separator + lengths[k]
           Whole(f) == [k \in 0 .. N |-> IF k = 0 THEN 0 ELSE Next1(f[k - 1], k)]
           Good(f, m) == f[0] = 0 /\ \A k \in 1 .. m : f[k] = Next1(f[k - 1], k)
           G == {m \in 0 .. N : \E f \in [0 .. N -> Nat] : Good(f, m)}
<1>1. N \in Nat /\ \A k \in 1 .. N : lengths[k] \in Nat
  BY SeqDef
<1>2. ASSUME NEW x \in Nat, NEW k \in 1 .. N PROVE Next1(x, k) \in Nat
  BY <1>1
<1> HIDE DEF N
<1>3. 0 \in G
  <2>1. [k \in 0 .. N |-> 0] \in [0 .. N -> Nat]
    OBVIOUS
  <2>2. Good([k \in 0 .. N |-> 0], 0)
    BY <1>1
  <2> HIDE DEF Good
  <2>3. \E f \in [0 .. N -> Nat] : Good(f, 0)
    BY <2>1, <2>2
  <2> QED
    BY <1>1, <2>3
<1>4. ASSUME NEW m \in 1 .. N, m - 1 \in G PROVE m \in G
  <2>1. PICK f \in [0 .. N -> Nat] : Good(f, m - 1)
    BY <1>4
  <2> DEFINE g == [f EXCEPT ![m] = Next1(f[m - 1], m)]
  <2>2. f[m - 1] \in Nat
    BY <1>1
  <2>3. Next1(f[m - 1], m) \in Nat
    BY <1>2, <2>2
  <2> HIDE DEF Next1
  <2>4. g \in [0 .. N -> Nat]
    BY <1>1, <2>3
  <2>5. Good(g, m)
    BY <1>1, <2>1
  <2> HIDE DEF Good, g
  <2>6. \E h \in [0 .. N -> Nat] : Good(h, m)
    BY <2>4, <2>5
  <2> QED
    BY <2>6
<1>5. \E f \in [0 .. N -> Nat] : Good(f, N)
  <2> HIDE DEF G
  <2>1. 0 .. N \subseteq G
    BY <1>1, <1>3, <1>4, UpTo
  <2>2. N \in G
    BY <1>1, <2>1
  <2> HIDE DEF Good
  <2> QED
    BY <2>2 DEF G
<1>6. PICK f \in [0 .. N -> Nat] : Good(f, N)
  BY <1>5
<1>7. f = Whole(f)
  <2> HIDE DEF Next1
  <2> QED
    BY <1>1, <1>6
<1>8. Prompts!Ends(lengths, separator) = Whole(Prompts!Ends(lengths, separator))
  BY <1>7 DEF Prompts!Ends, N
<1> DEFINE end == Prompts!Ends(lengths, separator)
<1> HIDE DEF end
<1>9. end = Whole(end)
  BY <1>8 DEF end
<1>10. end[0] = 0 /\ \A k \in 1 .. N : end[k] = Next1(end[k - 1], k)
  <2> HIDE DEF Next1
  <2> QED
    BY <1>1, <1>9
<1>11. \A k \in 0 .. N : end[k] \in Nat
  <2> DEFINE H == {k \in 0 .. N : end[k] \in Nat}
  <2>1. 0 \in H
    BY <1>1, <1>10
  <2>2. ASSUME NEW k \in 1 .. N, k - 1 \in H PROVE k \in H
    <3> HIDE DEF Next1
    <3>1. k - 1 \in 0 .. N /\ end[k - 1] \in Nat /\ k \in 0 .. N
      BY <1>1, <2>2
    <3> QED
      BY <1>2, <1>10, <3>1
  <2>3. 0 .. N \subseteq H
    <3> HIDE DEF H
    <3> QED
      BY <1>1, <2>1, <2>2, UpTo
  <2> QED
    BY <2>3
<1>12. end \in [0 .. N -> Nat]
  <2> HIDE DEF Next1
  <2>1. DOMAIN end = 0 .. N /\ end = [k \in 0 .. N |-> end[k]]
    BY <1>9
  <2> QED
    BY <1>11, <2>1
<1> QED
  BY <1>10, <1>12 DEF end, N

\* Later texts end later.
LEMMA EndsGrow ==
  ASSUME NEW lengths \in Seq(Nat), NEW separator \in Nat
  PROVE  \A j \in 0 .. Len(lengths) : \A i \in 0 .. j :
           Prompts!Ends(lengths, separator)[i] <= Prompts!Ends(lengths, separator)[j]
<1> DEFINE end == Prompts!Ends(lengths, separator)
           N == Len(lengths)
           G == {j \in 0 .. N : \A i \in 0 .. j : end[i] <= end[j]}
<1>1. /\ N \in Nat /\ end \in [0 .. N -> Nat]
      /\ \A k \in 1 .. N : lengths[k] \in Nat
      /\ \A k \in 1 .. N : end[k] = IF lengths[k] = 0 THEN end[k - 1]
                                    ELSE IF end[k - 1] = 0 THEN lengths[k]
                                    ELSE end[k - 1] + separator + lengths[k]
  BY EndsAre, SeqDef
<1> HIDE DEF end, N
<1>2. 0 \in G
  BY <1>1
<1>3. ASSUME NEW k \in 1 .. N, k - 1 \in G PROVE k \in G
  <2>1. end[k - 1] \in Nat /\ end[k] \in Nat /\ lengths[k] \in Nat
    BY <1>1
  <2>2. end[k - 1] <= end[k]
    BY <1>1, <2>1
  <2>3. ASSUME NEW i \in 0 .. k PROVE end[i] <= end[k]
    <3>1. CASE i = k
      BY <2>1, <3>1
    <3>2. CASE i \in 0 .. k - 1
      <4>1. end[i] <= end[k - 1] /\ end[i] \in Nat
        BY <1>1, <1>3, <3>2
      <4> QED
        BY <2>1, <2>2, <4>1
    <3> QED
      BY <3>1, <3>2
  <2> QED
    BY <2>3
<1>4. 0 .. N \subseteq G
  <2> HIDE DEF G
  <2> QED
    BY <1>1, <1>2, <1>3, UpTo
<1> QED
  BY <1>4 DEF end, N

\* Without a separator the ends are the sums; with one of length 1, a list of k texts is longer
\* than their sum by at most k - 1.
LEMMA SpacedEnds ==
  ASSUME NEW lengths \in Seq(Nat)
  PROVE  LET plain  == Prompts!Ends(lengths, 0)
             spaced == Prompts!Ends(lengths, 1)
         IN \A k \in 1 .. Len(lengths) : /\ plain[k] = plain[k - 1] + lengths[k]
                                         /\ spaced[k] <= plain[k] + k - 1
<1> DEFINE plain == Prompts!Ends(lengths, 0)
           spaced == Prompts!Ends(lengths, 1)
           N == Len(lengths)
           G == {k \in 0 .. N : k = 0 \/ spaced[k] <= plain[k] + k - 1}
<1>1. /\ N \in Nat /\ plain \in [0 .. N -> Nat] /\ spaced \in [0 .. N -> Nat]
      /\ plain[0] = 0 /\ spaced[0] = 0
      /\ \A k \in 1 .. N : lengths[k] \in Nat
      /\ \A k \in 1 .. N : plain[k] = IF lengths[k] = 0 THEN plain[k - 1]
                                      ELSE IF plain[k - 1] = 0 THEN lengths[k]
                                      ELSE plain[k - 1] + 0 + lengths[k]
      /\ \A k \in 1 .. N : spaced[k] = IF lengths[k] = 0 THEN spaced[k - 1]
                                       ELSE IF spaced[k - 1] = 0 THEN lengths[k]
                                       ELSE spaced[k - 1] + 1 + lengths[k]
  BY EndsAre, SeqDef
<1> HIDE DEF plain, spaced, N
<1>2. ASSUME NEW k \in 1 .. N PROVE plain[k] = plain[k - 1] + lengths[k]
  <2>1. plain[k - 1] \in Nat /\ lengths[k] \in Nat
    BY <1>1
  <2>2. plain[k] = IF lengths[k] = 0 THEN plain[k - 1]
                   ELSE IF plain[k - 1] = 0 THEN lengths[k] ELSE plain[k - 1] + 0 + lengths[k]
    BY <1>1
  <2> HIDE DEF G
  <2> QED
    BY <2>1, <2>2
<1>3. 0 \in G
  BY <1>1
<1>4. ASSUME NEW k \in 1 .. N, k - 1 \in G PROVE k \in G
  <2>1. /\ plain[k - 1] \in Nat /\ plain[k] \in Nat /\ lengths[k] \in Nat
        /\ spaced[k - 1] \in Nat /\ spaced[k] \in Nat
    BY <1>1
  <2>2. k = 1 \/ spaced[k - 1] <= plain[k - 1] + (k - 1) - 1
    BY <1>4
  <2>3. spaced[k] = IF lengths[k] = 0 THEN spaced[k - 1]
                    ELSE IF spaced[k - 1] = 0 THEN lengths[k] ELSE spaced[k - 1] + 1 + lengths[k]
    BY <1>1
  <2>4. plain[k] = plain[k - 1] + lengths[k]
    BY <1>2
  <2>5. k = 1 => spaced[k - 1] = 0
    BY <1>1
  <2>6. spaced[k] <= plain[k] + k - 1
    <3> HIDE DEF G
    <3> QED
      BY <2>1, <2>2, <2>3, <2>4, <2>5
  <2> QED
    BY <2>6
<1>5. 0 .. N \subseteq G
  <2> HIDE DEF G
  <2> QED
    BY <1>1, <1>3, <1>4, UpTo
<1> QED
  BY <1>2, <1>5 DEF plain, spaced, N

LEMMA LineTyped ==
  ASSUME NEW name, NEW label \in Nat, NEW text \in Nat
  PROVE  Prompts!optional_prompt_line(name, label, text).length \in Nat
BY DEF Prompts!optional_prompt_line, Prompts!Part

LEMMA SceneText ==
  ASSUME NEW scene \in {0, 1, 2}
  PROVE  /\ Prompts!scene_blueprint_text(scene) \in Nat
         /\ scene # 0 => Prompts!scene_blueprint_text(scene) > 0
<1> DEFINE details == <<40, 9 + 5, 8 + 5, 24 + 40>>
<1>1. details \in Seq(Nat) /\ Len(details) = 4
  OBVIOUS
<1>2. Prompts!Joined(details, 3) \in Nat
  <2> HIDE DEF details
  <2>1. Prompts!Ends(details, 3) \in [0 .. 4 -> Nat]
    BY <1>1, EndsAre, Zenon
  <2> QED
    BY <1>1, <2>1 DEF Prompts!Joined
<1> QED
  BY <1>2 DEF Prompts!scene_blueprint_text, Prompts!Short

LEMMA NoneCounted == Prompts!Cardinality({}) = 0
BY DEF Prompts!Cardinality

\* The block of the scenes, and that it is there when one of them says something.
LEMMA ScenesBlock ==
  ASSUME NEW scenes \in Seq({0, 1, 2})
  PROVE  LET block == Prompts!optional_prompt_block("scenes", 15,
                                                    Prompts!extract_scene_blueprint(scenes))
         IN /\ block.length \in Nat
            /\ block.name = "scenes"
            /\ (\E i \in DOMAIN scenes : scenes[i] # 0) => block.length > 0
<1> DEFINE n == Len(scenes)
           texts == [i \in 1 .. n |-> Prompts!scene_blueprint_text(scenes[i])]
           before(i) == {k \in 1 .. i - 1 : texts[k] > 0}
           kept == [i \in 1 .. n |-> IF Prompts!Cardinality(before(i)) < 4 THEN texts[i] ELSE 0]
           lines == [i \in 1 .. n |-> IF kept[i] = 0 THEN 0 ELSE 2 + kept[i]]
           block == Prompts!optional_prompt_block("scenes", 15, kept)
<1>1. n \in Nat /\ DOMAIN scenes = 1 .. n /\ \A i \in 1 .. n : scenes[i] \in {0, 1, 2}
  BY SeqDef
<1>2. Prompts!extract_scene_blueprint(scenes) = kept
  BY <1>1 DEF Prompts!extract_scene_blueprint
<1>3. \A i \in 1 .. n : texts[i] \in Nat /\ (scenes[i] # 0 => texts[i] > 0)
  BY <1>1, SceneText
<1> HIDE DEF texts, n
<1>4. kept \in [1 .. n -> Nat]
  BY <1>3
<1>5. ASSUME NEW i \in 1 .. n, scenes[i] # 0 PROVE \E k \in 1 .. n : kept[k] # 0
  <2> DEFINE G == {m \in 0 .. n : \A k \in 1 .. m : texts[k] = 0}
  <2>1. ~ (0 .. n \subseteq G)
    <3>1. n \in 0 .. n /\ n \notin G
      BY <1>1, <1>3, <1>5
    <3> QED
      BY <3>1
  <2>2. 0 \in G
    BY <1>1
  <2>3. PICK m \in 1 .. n : m - 1 \in G /\ m \notin G
    <3> HIDE DEF G
    <3> QED
      BY <1>1, <2>1, <2>2, UpTo
  <2>4. before(m) = {} /\ texts[m] # 0
    BY <1>1, <1>3, <2>3
  <2>5. Prompts!Cardinality(before(m)) = 0
    BY <2>4, NoneCounted
  <2> HIDE DEF before, G
  <2>6. kept[m] = texts[m]
    BY <2>5
  <2> HIDE DEF kept
  <2> QED
    BY <2>4, <2>6
<1> HIDE DEF kept
<1>6. lines \in [1 .. n -> Nat]
  BY <1>4
<1>7. Prompts!Joined(lines, 1) \in Nat
  <2>1. lines \in Seq(Nat) /\ Len(lines) = n
    BY <1>1, <1>6, SeqDef
  <2> HIDE DEF lines
  <2>2. Prompts!Ends(lines, 1) \in [0 .. n -> Nat]
    BY <2>1, EndsAre
  <2> QED
    BY <1>1, <2>1, <2>2 DEF Prompts!Joined
<1>8. /\ block.name = "scenes"
      /\ block.length = IF \A i \in 1 .. n : kept[i] = 0 THEN 0
                        ELSE 15 + 2 + Prompts!Joined(lines, 1)
      /\ block = [name |-> "scenes", length |-> IF \A i \in 1 .. n : kept[i] = 0 THEN 0
                                             ELSE 15 + 2 + Prompts!Joined(lines, 1)]
  <2>1. DOMAIN kept = 1 .. n
    BY <1>4
  <2> QED
    BY <2>1 DEF Prompts!optional_prompt_block, Prompts!Part
<1> HIDE DEF block, lines
<1>9. block.length \in Nat /\ ((\E k \in 1 .. n : kept[k] # 0) => block.length > 0)
  BY <1>7, <1>8
<1> QED
  BY <1>1, <1>2, <1>5, <1>8, <1>9 DEF block

\* What build_video_generation_input can pass.
LEMMA SnapshotTypes ==
  ASSUME NEW story \in Prompts!Snapshots
  PROVE  /\ story.provider_prompt \in Nat /\ story.summary \in Nat
         /\ story.others \in Nat /\ story.assets \in Nat
         /\ story.locations \in Seq(Nat) /\ story.scenes \in Seq({0, 1, 2})
<1>1. /\ story.provider_prompt \in TextLengths /\ story.summary \in TextLengths
      /\ story.others \in {0, 40} /\ story.assets \in {0, 200}
      /\ story.locations \in {<<>>, <<0, 9>>, <<9, 9, 9, 9, 0, 9>>}
      /\ story.scenes \in Prompts!Lists({0, 2}) \cup {<<1, 2>>}
  BY DEF Prompts!Snapshots, Prompts!Short
<1>2. story.locations \in Seq(Nat)
  <2>1. <<>> \in Seq(Nat) /\ <<0, 9>> \in Seq(Nat) /\ <<9, 9, 9, 9, 0, 9>> \in Seq(Nat)
    OBVIOUS
  <2> QED
    BY <1>1, <2>1, Zenon
<1>3. story.scenes \in Seq({0, 1, 2})
  <2>1. CASE story.scenes = <<1, 2>>
    BY <2>1
  <2>2. CASE story.scenes \in Prompts!Lists({0, 2})
    <3>1. PICK n \in 0 .. MaxListed : story.scenes \in [1 .. n -> {0, 2}]
      BY <2>2 DEF Prompts!Lists
    <3>2. n \in Nat
      BY <3>1, BoundsAssumption
    <3>3. story.scenes \in [1 .. n -> {0, 1, 2}]
      BY <3>1
    <3> QED
      BY <3>2, <3>3, SeqDef
  <2> QED
    BY <1>1, <2>1, <2>2
<1>4. story.provider_prompt \in Nat /\ story.summary \in Nat
  BY <1>1, BoundsAssumption
<1>5. story.others \in Nat /\ story.assets \in Nat
  BY <1>1
<1> QED
  BY <1>2, <1>3, <1>4, <1>5

\* The twelve optional parts.
LEMMA MaterialTypes ==
  ASSUME NEW story \in Prompts!Snapshots
  PROVE  /\ Len(Prompts!Material(story)) = 12 /\ DOMAIN Prompts!Material(story) = 1 .. 12
         /\ Prompts!Material(story) = [i \in 1 .. 12 |-> Prompts!Material(story)[i]]
         /\ \A i \in 1 .. 12 : Prompts!Material(story)[i].length \in Nat
         /\ Prompts!Material(story)[11] =
              Prompts!optional_prompt_block("scenes", 15,
                                            Prompts!extract_scene_blueprint(story.scenes))
<1> DEFINE l1 == Prompts!optional_prompt_line("title", 5, story.others)
           l2 == Prompts!optional_prompt_line("logline", 7, story.others)
           l3 == Prompts!optional_prompt_line("summary", 13, story.summary)
           l4 == Prompts!optional_prompt_line("protagonist", 11, story.others)
           l5 == Prompts!optional_prompt_line("time_period", 11, story.others)
           l6 == Prompts!optional_prompt_line("locations", 9,
                                              Prompts!join_prompt_values(story.locations))
           l7 == Prompts!optional_prompt_line("emotional_arc", 13, story.others)
           l8 == Prompts!optional_prompt_line("ending_tone", 11, story.others)
           l9 == Prompts!optional_prompt_line("visual_style", 12, Prompts!Short)
           l10 == Prompts!optional_prompt_line("music", 20, IF story.others = 0 THEN 0 ELSE 3)
           l11 == Prompts!optional_prompt_block("scenes", 15,
                                                Prompts!extract_scene_blueprint(story.scenes))
           l12 == Prompts!optional_prompt_line("assets", 24, story.assets)
<1>1. /\ story.provider_prompt \in Nat /\ story.summary \in Nat
      /\ story.others \in Nat /\ story.assets \in Nat
      /\ story.locations \in Seq(Nat) /\ story.scenes \in Seq({0, 1, 2})
  BY SnapshotTypes
<1>2. Prompts!join_prompt_values(story.locations) \in Nat
  <2>1. Prompts!Ends(story.locations, 2) \in [0 .. Len(story.locations) -> Nat]
    BY <1>1, EndsAre
  <2>2. Len(story.locations) \in Nat
    BY <1>1
  <2> QED
    BY <2>1, <2>2 DEF Prompts!join_prompt_values
<1>3. /\ l1.length \in Nat /\ l2.length \in Nat /\ l3.length \in Nat /\ l4.length \in Nat
      /\ l5.length \in Nat /\ l7.length \in Nat /\ l8.length \in Nat /\ l12.length \in Nat
  BY <1>1, LineTyped
<1>4. l6.length \in Nat
  BY <1>2, LineTyped
<1>5. l9.length \in Nat
  BY LineTyped DEF Prompts!Short
<1>6. l10.length \in Nat
  <2>1. (IF story.others = 0 THEN 0 ELSE 3) \in Nat
    OBVIOUS
  <2> QED
    BY <2>1, LineTyped
<1>7. l11.length \in Nat
  BY <1>1, ScenesBlock
<1>8. Prompts!Material(story) = <<l1, l2, l3, l4, l5, l6, l7, l8, l9, l10, l11, l12>>
  BY DEF Prompts!Material
<1> HIDE DEF l1, l2, l3, l4, l5, l6, l7, l8, l9, l10, l11, l12
<1>9. /\ Len(Prompts!Material(story)) = 12 /\ DOMAIN Prompts!Material(story) = 1 .. 12
      /\ Prompts!Material(story)[11] = l11
  BY <1>8
<1>11. Prompts!Material(story) = [i \in 1 .. 12 |-> Prompts!Material(story)[i]]
  BY <1>8
<1>10. ASSUME NEW i \in 1 .. 12 PROVE Prompts!Material(story)[i].length \in Nat
  <2>1. \/ i = 1 \/ i = 2 \/ i = 3 \/ i = 4 \/ i = 5 \/ i = 6
        \/ i = 7 \/ i = 8 \/ i = 9 \/ i = 10 \/ i = 11 \/ i = 12
    OBVIOUS
  <2> QED
    BY <1>3, <1>4, <1>5, <1>6, <1>7, <1>8, <2>1
<1> QED
  BY <1>9, <1>10, <1>11 DEF l11

LEMMA FunctionIsList ==
  ASSUME NEW S, NEW n \in Nat, NEW s \in [1 .. n -> S]
  PROVE  s \in Seq(S) /\ Len(s) = n
<1>1. s \in Seq(S)
  BY SeqDef
<1>2. Len(s) \in Nat /\ 1 .. Len(s) = 1 .. n
  BY <1>1, LenProperties
<1> QED
  BY <1>1, <1>2

LEMMA Appended ==
  ASSUME NEW S, NEW s \in Seq(S), NEW t \in Seq(S)
  PROVE  /\ s \o t \in Seq(S) /\ Len(s \o t) = Len(s) + Len(t)
         /\ \A i \in 1 .. Len(s) : (s \o t)[i] = s[i]
         /\ \A i \in 1 .. Len(t) : (s \o t)[Len(s) + i] = t[i]
<1>1. /\ s \o t \in Seq(S) /\ Len(s \o t) = Len(s) + Len(t)
      /\ \A i \in 1 .. Len(s) + Len(t) :
           (s \o t)[i] = IF i <= Len(s) THEN s[i] ELSE t[i - Len(s)]
  BY ConcatProperties
<1>2. Len(s) \in Nat /\ Len(t) \in Nat
  OBVIOUS
<1>3. ASSUME NEW i \in 1 .. Len(s) PROVE (s \o t)[i] = s[i]
  BY <1>1, <1>2
<1>4. ASSUME NEW i \in 1 .. Len(t) PROVE (s \o t)[Len(s) + i] = t[i]
  <2>1. Len(s) + i \in 1 .. Len(s) + Len(t) /\ ~ (Len(s) + i <= Len(s)) /\ Len(s) + i - Len(s) = i
    BY <1>2
  <2> QED
    BY <1>1, <2>1
<1> QED
  BY <1>1, <1>3, <1>4

\* The prompt's 21 parts: where each is and how long.
LEMMA PartsAre ==
  ASSUME NEW story \in Prompts!Snapshots
  PROVE  LET parts    == Prompts!Parts(story)
             material == Prompts!Material(story)
         IN /\ Len(parts) = 21 /\ DOMAIN parts = 1 .. 21
            /\ parts[1] = Prompts!Part("premium", 73)
            /\ parts[2] = Prompts!Part("core_story", 12 + story.provider_prompt)
            /\ \A i \in 1 .. 12 : parts[2 + i] = material[i]
            /\ \A i \in 1 .. 7 : parts[14 + i] = Prompts!Constraints[i]
<1> DEFINE intro == Prompts!Intro(story)
           material == Prompts!Material(story)
           last == Prompts!Constraints
           S == {intro[i] : i \in 1 .. 2} \cup {material[i] : i \in 1 .. 12} \cup
                {last[i] : i \in 1 .. 7}
<1>1. /\ intro = [i \in 1 .. 2 |-> intro[i]]
      /\ intro[1] = Prompts!Part("premium", 73)
      /\ intro[2] = Prompts!Part("core_story", 12 + story.provider_prompt)
  BY DEF Prompts!Intro
<1>2. material = [i \in 1 .. 12 |-> material[i]]
  BY MaterialTypes
<1>3. last = [i \in 1 .. 7 |-> last[i]]
  BY DEF Prompts!Constraints
<1>4. Prompts!Parts(story) = intro \o material \o last
  BY DEF Prompts!Parts
<1> HIDE DEF intro, material, last
<1>5. /\ intro \in [1 .. 2 -> S] /\ material \in [1 .. 12 -> S] /\ last \in [1 .. 7 -> S]
  BY <1>1, <1>2, <1>3
<1> HIDE DEF S
<1>6. /\ intro \in Seq(S) /\ Len(intro) = 2
      /\ material \in Seq(S) /\ Len(material) = 12
      /\ last \in Seq(S) /\ Len(last) = 7
  <2>1. 2 \in Nat /\ 12 \in Nat /\ 7 \in Nat
    OBVIOUS
  <2>2. intro \in Seq(S) /\ Len(intro) = 2
    BY <1>5, <2>1, FunctionIsList
  <2>3. material \in Seq(S) /\ Len(material) = 12
    <3>1. material \in [1 .. 12 -> S]
      BY <1>5
    <3> QED
      BY ONLY <2>1, <3>1, FunctionIsList
  <2>4. last \in Seq(S) /\ Len(last) = 7
    <3>1. last \in [1 .. 7 -> S]
      BY <1>5
    <3> QED
      BY ONLY <2>1, <3>1, FunctionIsList
  <2> QED
    BY <2>2, <2>3, <2>4
<1> DEFINE both == intro \o material
<1>7. /\ both \in Seq(S) /\ Len(both) = 14
      /\ \A i \in 1 .. 2 : both[i] = intro[i]
      /\ \A i \in 1 .. 12 : both[2 + i] = material[i]
  <2>0. intro \in Seq(S) /\ material \in Seq(S)
    BY <1>6
  <2>1. /\ both \in Seq(S) /\ Len(both) = Len(intro) + Len(material)
        /\ \A i \in 1 .. Len(intro) : both[i] = intro[i]
        /\ \A i \in 1 .. Len(material) : both[Len(intro) + i] = material[i]
    BY ONLY <2>0, Appended
  <2> HIDE DEF both
  <2> QED
    BY <1>6, <2>1
<1> HIDE DEF both
<1> DEFINE parts == both \o last
<1>8. /\ parts \in Seq(S) /\ Len(parts) = 21
      /\ \A i \in 1 .. 14 : parts[i] = both[i]
      /\ \A i \in 1 .. 7 : parts[14 + i] = last[i]
  <2>0. both \in Seq(S) /\ last \in Seq(S)
    BY <1>6, <1>7
  <2>1. /\ parts \in Seq(S) /\ Len(parts) = Len(both) + Len(last)
        /\ \A i \in 1 .. Len(both) : parts[i] = both[i]
        /\ \A i \in 1 .. Len(last) : parts[Len(both) + i] = last[i]
    BY ONLY <2>0, Appended
  <2> HIDE DEF parts
  <2> QED
    BY <1>6, <1>7, <2>1
<1>9. Prompts!Parts(story) = parts
  BY <1>4 DEF both
<1> HIDE DEF parts
<1>10. parts[1] = intro[1] /\ parts[2] = intro[2]
  BY <1>7, <1>8
<1>11. ASSUME NEW i \in 1 .. 12 PROVE parts[2 + i] = material[i]
  <2>1. 2 + i \in 1 .. 14
    OBVIOUS
  <2> QED
    BY <1>7, <1>8, <2>1
<1>12. DOMAIN parts = 1 .. 21
  BY <1>8
<1> QED
  BY <1>1, <1>8, <1>9, <1>10, <1>11, <1>12 DEF material, last

LEMMA LengthsAre ==
  ASSUME NEW story \in Prompts!Snapshots
  PROVE  LET lengths == Prompts!Lengths(Prompts!Parts(story))
             material == Prompts!Lengths(Prompts!Material(story))
         IN /\ lengths \in Seq(Nat) /\ Len(lengths) = 21
            /\ \A i \in 1 .. 21 : lengths[i] = Prompts!Parts(story)[i].length
            /\ lengths[1] = 73 /\ lengths[2] = 12 + story.provider_prompt
            /\ material \in Seq(Nat) /\ Len(material) = 12
            /\ \A i \in 1 .. 12 : lengths[2 + i] = material[i]
            /\ lengths[15] = 161 /\ lengths[16] = 164 /\ lengths[17] = 261 /\ lengths[18] = 231
            /\ lengths[19] = 186 /\ lengths[20] = 163 /\ lengths[21] = 266
<1> DEFINE parts == Prompts!Parts(story)
           own == Prompts!Material(story)
           last == Prompts!Constraints
           lengths == Prompts!Lengths(parts)
           material == Prompts!Lengths(own)
<1>1. /\ DOMAIN parts = 1 .. 21
      /\ parts[1] = Prompts!Part("premium", 73)
      /\ parts[2] = Prompts!Part("core_story", 12 + story.provider_prompt)
      /\ \A i \in 1 .. 12 : parts[2 + i] = own[i]
      /\ \A i \in 1 .. 7 : parts[14 + i] = last[i]
  BY PartsAre
<1>2. DOMAIN own = 1 .. 12 /\ \A i \in 1 .. 12 : own[i].length \in Nat
  BY MaterialTypes
<1>3. /\ last[1].length = 161 /\ last[2].length = 164 /\ last[3].length = 261
      /\ last[4].length = 231 /\ last[5].length = 186 /\ last[6].length = 163
      /\ last[7].length = 266
  BY DEF Prompts!Constraints, Prompts!Part
<1>4. story.provider_prompt \in Nat
  BY SnapshotTypes
<1> HIDE DEF parts, own, last
<1>5. lengths = [i \in 1 .. 21 |-> parts[i].length] /\ material = [i \in 1 .. 12 |-> own[i].length]
  BY <1>1, <1>2 DEF Prompts!Lengths
<1>6. parts[1].length = 73 /\ parts[2].length = 12 + story.provider_prompt
  BY <1>1 DEF Prompts!Part
<1>7. /\ parts[15].length = 161 /\ parts[16].length = 164 /\ parts[17].length = 261
      /\ parts[18].length = 231 /\ parts[19].length = 186 /\ parts[20].length = 163
      /\ parts[21].length = 266
  <2>1. /\ parts[14 + 1] = last[1] /\ parts[14 + 2] = last[2] /\ parts[14 + 3] = last[3]
        /\ parts[14 + 4] = last[4] /\ parts[14 + 5] = last[5] /\ parts[14 + 6] = last[6]
        /\ parts[14 + 7] = last[7]
    BY <1>1
  <2> QED
    BY <1>3, <2>1
<1>8. ASSUME NEW i \in 1 .. 12 PROVE parts[2 + i].length = own[i].length
  BY <1>1
<1>9. ASSUME NEW i \in 1 .. 21 PROVE parts[i].length \in Nat
  <2>1. CASE i \in 3 .. 14
    <3>1. i - 2 \in 1 .. 12 /\ 2 + (i - 2) = i
      BY <2>1
    <3>2. parts[i].length = own[i - 2].length
      BY <1>8, <3>1
    <3> QED
      BY <1>2, <3>1, <3>2
  <2>2. CASE i = 1 \/ i = 2
    BY <1>4, <1>6, <2>2
  <2>3. CASE i = 15 \/ i = 16 \/ i = 17 \/ i = 18 \/ i = 19 \/ i = 20 \/ i = 21
    BY <1>7, <2>3
  <2> QED
    BY <2>1, <2>2, <2>3
<1> HIDE DEF lengths, material
<1>10. lengths \in Seq(Nat) /\ Len(lengths) = 21
  <2>1. lengths \in [1 .. 21 -> Nat]
    BY <1>5, <1>9
  <2> QED
    BY <2>1, FunctionIsList
<1>11. material \in Seq(Nat) /\ Len(material) = 12
  <2>1. material \in [1 .. 12 -> Nat]
    BY <1>2, <1>5
  <2> QED
    BY <2>1, FunctionIsList
<1>12. ASSUME NEW i \in 1 .. 12 PROVE lengths[2 + i] = material[i]
  <2>1. 2 + i \in 1 .. 21
    OBVIOUS
  <2> QED
    BY <1>5, <1>8, <2>1
<1>13. /\ lengths[1] = 73 /\ lengths[2] = 12 + story.provider_prompt
       /\ lengths[15] = 161 /\ lengths[16] = 164 /\ lengths[17] = 261 /\ lengths[18] = 231
       /\ lengths[19] = 186 /\ lengths[20] = 163 /\ lengths[21] = 266
  BY <1>5, <1>6, <1>7
<1> QED
  BY <1>5, <1>10, <1>11, <1>12, <1>13 DEF lengths, material, parts, own

\* The purpose and the core story end at 86 characters more than the story has; the whole is
\* as long as its texts, the fixed sentences and at most 20 newlines.
LEMMA PartEnds ==
  ASSUME NEW story \in Prompts!Snapshots
  PROVE  LET ends  == Prompts!Ends(Prompts!Lengths(Prompts!Parts(story)), 1)
             total == Prompts!Joined(Prompts!Lengths(Prompts!Material(story)), 0)
         IN /\ ends \in [0 .. 21 -> Nat] /\ total \in Nat
            /\ \A i \in 1 .. 21 : ends[i] <= ends[21]
            /\ ends[1] = 73 /\ ends[2] = 86 + story.provider_prompt
            /\ ends[21] <= 85 + story.provider_prompt + total + 1432 + 20
<1> DEFINE lengths == Prompts!Lengths(Prompts!Parts(story))
           own == Prompts!Lengths(Prompts!Material(story))
           ends == Prompts!Ends(lengths, 1)
           plain == Prompts!Ends(lengths, 0)
           sums == Prompts!Ends(own, 0)
           pp == story.provider_prompt
           G == {i \in 0 .. 12 : plain[2 + i] = 85 + pp + sums[i]}
<1>1. /\ lengths \in Seq(Nat) /\ Len(lengths) = 21
      /\ lengths[1] = 73 /\ lengths[2] = 12 + pp
      /\ own \in Seq(Nat) /\ Len(own) = 12
      /\ \A i \in 1 .. 12 : lengths[2 + i] = own[i]
      /\ lengths[15] = 161 /\ lengths[16] = 164 /\ lengths[17] = 261 /\ lengths[18] = 231
      /\ lengths[19] = 186 /\ lengths[20] = 163 /\ lengths[21] = 266
  BY LengthsAre
<1>2. pp \in Nat
  BY SnapshotTypes
<1> HIDE DEF lengths, own, pp
<1>3. /\ ends \in [0 .. 21 -> Nat] /\ ends[0] = 0
      /\ \A k \in 1 .. 21 : ends[k] = IF lengths[k] = 0 THEN ends[k - 1]
                                      ELSE IF ends[k - 1] = 0 THEN lengths[k]
                                      ELSE ends[k - 1] + 1 + lengths[k]
  <2>1. lengths \in Seq(Nat) /\ 1 \in Nat
    BY <1>1
  <2>2. /\ ends \in [0 .. Len(lengths) -> Nat] /\ ends[0] = 0
        /\ \A k \in 1 .. Len(lengths) : ends[k] = IF lengths[k] = 0 THEN ends[k - 1]
                                                  ELSE IF ends[k - 1] = 0 THEN lengths[k]
                                                  ELSE ends[k - 1] + 1 + lengths[k]
    BY ONLY <2>1, EndsAre
  <2> HIDE DEF ends
  <2> QED
    BY <1>1, <2>2
<1>4. plain \in [0 .. 21 -> Nat] /\ plain[0] = 0
  <2>1. lengths \in Seq(Nat) /\ 0 \in Nat
    BY <1>1
  <2>2. plain \in [0 .. Len(lengths) -> Nat] /\ plain[0] = 0
    BY ONLY <2>1, EndsAre
  <2> HIDE DEF plain
  <2> QED
    BY <1>1, <2>2
<1>5. sums \in [0 .. 12 -> Nat] /\ sums[0] = 0
  <2>1. own \in Seq(Nat) /\ 0 \in Nat
    BY <1>1
  <2>2. sums \in [0 .. Len(own) -> Nat] /\ sums[0] = 0
    BY ONLY <2>1, EndsAre
  <2> HIDE DEF sums
  <2> QED
    BY <1>1, <2>2
<1>6. \A i \in 1 .. 21 : ends[i] <= ends[21]
  <2>1. lengths \in Seq(Nat) /\ 1 \in Nat
    BY <1>1
  <2>2. \A j \in 0 .. Len(lengths) : \A i \in 0 .. j : ends[i] <= ends[j]
    BY ONLY <2>1, EndsGrow
  <2> HIDE DEF ends
  <2>3. 21 \in 0 .. Len(lengths) /\ \A i \in 1 .. 21 : i \in 0 .. 21
    BY <1>1
  <2> QED
    BY <2>2, <2>3
<1>7. \A k \in 1 .. 21 : plain[k] = plain[k - 1] + lengths[k] /\ ends[k] <= plain[k] + k - 1
  BY <1>1, SpacedEnds
<1>8. \A k \in 1 .. 12 : sums[k] = sums[k - 1] + own[k]
  <2>1. own \in Seq(Nat)
    BY <1>1
  <2>2. \A k \in 1 .. Len(own) : sums[k] = sums[k - 1] + own[k]
    BY ONLY <2>1, SpacedEnds
  <2> HIDE DEF sums
  <2> QED
    BY <1>1, <2>2
<1>9. Prompts!Joined(own, 0) = sums[12]
  BY <1>1 DEF Prompts!Joined
<1> HIDE DEF ends, plain, sums
<1>10. ends[1] = 73 /\ ends[2] = 86 + pp
  <2>1. ends[1] = IF lengths[1] = 0 THEN ends[0] ELSE IF ends[0] = 0 THEN lengths[1]
                  ELSE ends[0] + 1 + lengths[1]
    BY <1>3
  <2>2. ends[1] = 73
    BY <1>1, <1>3, <2>1
  <2>3. ends[2] = IF lengths[2] = 0 THEN ends[1] ELSE IF ends[1] = 0 THEN lengths[2]
                  ELSE ends[1] + 1 + lengths[2]
    BY <1>3
  <2>4. lengths[2] = 12 + pp
    BY <1>1
  <2>5. ends[2] = ends[1] + 1 + lengths[2]
    BY ONLY <1>2, <2>2, <2>3, <2>4
  <2> QED
    BY ONLY <1>2, <2>2, <2>4, <2>5
<1>11. 0 \in G
  <2>1. plain[1] = plain[0] + lengths[1] /\ plain[2] = plain[1] + lengths[2]
    BY <1>7
  <2>2. plain[2] = 85 + pp
    BY <1>1, <1>2, <1>4, <2>1
  <2> QED
    BY <1>2, <1>5, <2>2
<1>12. ASSUME NEW k \in 1 .. 12, k - 1 \in G PROVE k \in G
  <2>1. plain[2 + (k - 1)] = 85 + pp + sums[k - 1]
    BY <1>12
  <2>2. 2 + k \in 1 .. 21 /\ (2 + k) - 1 = 2 + (k - 1) /\ k - 1 \in 0 .. 12
    OBVIOUS
  <2>3. plain[2 + k] = plain[2 + (k - 1)] + lengths[2 + k]
    BY <1>7, <2>2
  <2>4. sums[k] = sums[k - 1] + own[k] /\ lengths[2 + k] = own[k]
    BY <1>1, <1>8
  <2>5. own[k] \in Nat /\ sums[k - 1] \in Nat
    <3>1. k \in 1 .. Len(own)
      BY <1>1
    <3>2. own[k] \in Nat
      <4>1. own \in Seq(Nat)
        BY <1>1
      <4> QED
        BY ONLY <3>1, <4>1, ElementOfSeq
    <3> QED
      BY <1>5, <2>2, <3>2
  <2>6. plain[2 + k] = 85 + pp + sums[k]
    BY <1>2, <2>1, <2>3, <2>4, <2>5
  <2> QED
    BY <2>6
<1>13. plain[14] = 85 + pp + sums[12]
  <2>1. 0 .. 12 \subseteq G
    <3> HIDE DEF G
    <3> QED
      BY <1>11, <1>12, UpTo
  <2>2. 12 \in G
    BY <2>1
  <2> QED
    BY <2>2
<1>14. plain[21] = plain[14] + 1432
  <2>1. /\ plain[15] = plain[14] + lengths[15] /\ plain[16] = plain[15] + lengths[16]
        /\ plain[17] = plain[16] + lengths[17] /\ plain[18] = plain[17] + lengths[18]
        /\ plain[19] = plain[18] + lengths[19] /\ plain[20] = plain[19] + lengths[20]
        /\ plain[21] = plain[20] + lengths[21]
    BY <1>7
  <2>2. plain[14] \in Nat
    BY <1>4
  <2>3. /\ lengths[15] = 161 /\ lengths[16] = 164 /\ lengths[17] = 261 /\ lengths[18] = 231
        /\ lengths[19] = 186 /\ lengths[20] = 163 /\ lengths[21] = 266
    BY <1>1
  <2> QED
    BY ONLY <2>1, <2>2, <2>3
<1>15. ends[21] <= 85 + pp + sums[12] + 1432 + 20
  <2>1. ends[21] <= plain[21] + 21 - 1
    BY <1>7
  <2>2. ends[21] \in Nat /\ plain[21] \in Nat /\ sums[12] \in Nat
    BY <1>3, <1>4, <1>5
  <2> QED
    BY <1>2, <1>13, <1>14, <2>1, <2>2
<1>16. sums[12] \in Nat
  BY <1>5
<1> QED
  BY <1>3, <1>6, <1>9, <1>10, <1>15, <1>16 DEF ends, lengths, own, pp

\* What StoryKept says, of the prompt built from a story.
LEMMA BuiltPrompt ==
  ASSUME NEW story \in Prompts!Snapshots
  PROVE  LET built == Prompts!build_openai_video_prompt(story)
             parts == Prompts!Parts(story)
         IN /\ story.provider_prompt <= 2700 => {"premium", "core_story"} \subseteq built.whole
            /\ story.provider_prompt + Prompts!Joined(Prompts!Lengths(Prompts!Material(story)), 0)
                 <= Prompts!Room
               => \A i \in DOMAIN parts : parts[i].length > 0 => parts[i].name \in built.whole
            /\ (\E i \in DOMAIN story.scenes : story.scenes[i] # 0) => "scenes" \in built.parts
<1> DEFINE parts == Prompts!Parts(story)
           filled == {i \in DOMAIN parts : parts[i].length > 0}
           ends == Prompts!Ends(Prompts!Lengths(parts), 1)
           total == Prompts!Joined(Prompts!Lengths(Prompts!Material(story)), 0)
           cut == Prompts!truncate_prompt(ends[Len(parts)], {ends[i] : i \in filled}, 2800)
           built == Prompts!build_openai_video_prompt(story)
           pp == story.provider_prompt
<1>1. /\ built.parts = {parts[i].name : i \in filled}
      /\ built.whole = {parts[i].name : i \in {k \in filled : ends[k] <= cut.kept}}
  BY DEF Prompts!build_openai_video_prompt, Prompts!MAX_OPENAI_VIDEO_PROMPT_LENGTH
<1>2. /\ Len(parts) = 21 /\ DOMAIN parts = 1 .. 21
      /\ parts[1] = Prompts!Part("premium", 73)
      /\ parts[2] = Prompts!Part("core_story", 12 + pp)
      /\ parts[13] = Prompts!Material(story)[11]
  <2>1. parts[2 + 11] = Prompts!Material(story)[11]
    BY PartsAre
  <2> QED
    BY <2>1, PartsAre
<1>3. /\ ends \in [0 .. 21 -> Nat] /\ total \in Nat
      /\ \A i \in 1 .. 21 : ends[i] <= ends[21]
      /\ ends[1] = 73 /\ ends[2] = 86 + pp
      /\ ends[21] <= 85 + pp + total + 1432 + 20
  BY PartEnds
<1>4. cut = IF ends[21] <= 2800 THEN [length |-> ends[21], kept |-> ends[21]]
            ELSE IF 2798 \in {ends[i] : i \in filled} THEN [length |-> 2799, kept |-> 2798]
            ELSE [length |-> 2800, kept |-> 2799]
  BY <1>2 DEF Prompts!truncate_prompt
<1>5. pp \in Nat /\ story.scenes \in Seq({0, 1, 2})
  BY SnapshotTypes
<1> HIDE DEF parts, ends, total, built, cut, filled, pp
<1>6. /\ ends[21] <= 2800 => cut.kept = ends[21]
      /\ ~ (ends[21] <= 2800) => cut.kept \in {2798, 2799}
  BY <1>4
<1>7. /\ parts[1].name = "premium" /\ parts[1].length > 0
      /\ parts[2].name = "core_story" /\ parts[2].length > 0
  <2>1. parts[1].name = "premium" /\ parts[2].name = "core_story"
    BY <1>2 DEF Prompts!Part
  <2>2. parts[1].length = 73 /\ parts[2].length = 12 + pp
    BY <1>2 DEF Prompts!Part
  <2> QED
    BY <1>5, <2>1, <2>2
<1>8. 1 \in filled /\ 2 \in filled
  BY <1>2, <1>7 DEF filled
<1>9. ASSUME pp <= 2700 PROVE {"premium", "core_story"} \subseteq built.whole
  <2>1. ends[21] \in Nat /\ ends[1] <= ends[21] /\ ends[2] <= ends[21]
    BY <1>3
  <2>2. ends[1] <= cut.kept /\ ends[2] <= cut.kept
    <3>1. ends[1] = 73 /\ ends[2] = 86 + pp
      BY <1>3
    <3> QED
      BY ONLY <1>5, <1>6, <1>9, <2>1, <3>1
  <2>3. parts[1].name \in built.whole /\ parts[2].name \in built.whole
    BY <1>1, <1>8, <2>2
  <2> QED
    BY <1>7, <2>3
<1>10. ASSUME pp + total <= Prompts!Room, NEW i \in DOMAIN parts, parts[i].length > 0
       PROVE  parts[i].name \in built.whole
  <2>1. ends[21] <= 2800
    <3>1. /\ ends[21] \in Nat /\ total \in Nat
          /\ ends[21] <= 85 + pp + total + 1432 + 20
      BY <1>3
    <3>2. pp + total <= 2800 - 73 - 1432 - 12 - 20
      BY <1>10 DEF Prompts!Room
    <3> QED
      BY ONLY <1>5, <3>1, <3>2
  <2>2. ends[i] <= cut.kept
    BY <1>2, <1>3, <1>6, <1>10, <2>1
  <2>3. i \in filled
    BY <1>10 DEF filled
  <2> QED
    BY <1>1, <2>2, <2>3
<1>11. ASSUME \E i \in DOMAIN story.scenes : story.scenes[i] # 0
       PROVE  "scenes" \in built.parts
  <2>1. parts[13] = Prompts!optional_prompt_block("scenes", 15,
                                                  Prompts!extract_scene_blueprint(story.scenes))
    BY <1>2, MaterialTypes
  <2>2. parts[13].name = "scenes" /\ parts[13].length > 0
    BY <1>5, <1>11, <2>1, ScenesBlock
  <2>3. 13 \in filled
    BY <1>2, <2>2 DEF filled
  <2> QED
    BY <1>1, <2>2, <2>3
<1> QED
  BY <1>9, <1>10, <1>11 DEF built, parts, total, pp

\* What a run has built is built from its story.
PromptInv ==
  /\ input \in Prompts!Snapshots
  /\ Prompts!Built => prompt = Prompts!build_openai_video_prompt(input)

\* The user's story reaches the provider: the core story and the prompt's purpose up to 2700
\* characters, everything when there is room, and scenes behind blank ones
\* (build_openai_video_prompt, video_generation_provider.py:362-421).
THEOREM StoryReaches == AppSpec => []StoryKept
<1>1. Prompts!Init => PromptInv
  BY DEF Prompts!Init, Prompts!NotBuilt, PromptInv, Prompts!Built
<1>2. PromptInv /\ [Prompts!Next]_(Prompts!vars) => PromptInv'
  <2> SUFFICES ASSUME PromptInv, [Prompts!Next]_(Prompts!vars) PROVE PromptInv'
    OBVIOUS
  <2>1. CASE UNCHANGED Prompts!vars
    <3>1. input' = input /\ prompt' = prompt
      BY <2>1 DEF Prompts!vars
    <3> QED
      BY <3>1 DEF PromptInv, Prompts!Built
  <2>2. CASE Prompts!Build
    <3>1. input' = input
      BY <2>2 DEF Prompts!Build
    <3>2. CASE prompt' = Prompts!Refused
      <4>1. prompt'.status = "provider_error"
        BY <3>2 DEF Prompts!Refused, Prompts!NotBuilt
      <4> QED
        BY <3>1, <4>1 DEF PromptInv, Prompts!Built
    <3>3. CASE input.provider = "openai" /\ prompt' = Prompts!build_openai_video_prompt(input)
      BY <3>1, <3>3 DEF PromptInv, Prompts!Built
    <3>4. CASE input.provider # "openai"
      BY <3>1, <3>4 DEF PromptInv, Prompts!Built
    <3> QED
      BY <2>2, <3>2, <3>3, <3>4 DEF Prompts!Build
  <2> QED
    BY <2>1, <2>2 DEF Prompts!Next, Prompts!Idle
<1>3. PromptInv => StoryKept
  <2> SUFFICES ASSUME PromptInv PROVE Prompts!StoryKept
    BY DEF StoryKept
  <2>1. CASE ~ Prompts!Built
    BY <2>1 DEF Prompts!StoryKept, Prompts!StoryComesFirst, Prompts!StoryFits,
      Prompts!BlankScenesDoNotCount
  <2>2. CASE Prompts!Built
    <3>1. input \in Prompts!Snapshots /\ prompt = Prompts!build_openai_video_prompt(input)
      BY <2>2 DEF PromptInv
    <3>2. Prompts!StoryComesFirst
      BY <3>1, BuiltPrompt DEF Prompts!StoryComesFirst
    <3>3. Prompts!StoryFits
      BY <3>1, BuiltPrompt DEF Prompts!StoryFits
    <3>4. Prompts!BlankScenesDoNotCount
      BY <3>1, BuiltPrompt DEF Prompts!BlankScenesDoNotCount
    <3> QED
      BY <3>2, <3>3, <3>4 DEF Prompts!StoryKept
  <2> QED
    BY <2>1, <2>2
<1> QED
  BY <1>1, <1>2, <1>3, PromptsRun, PTL DEF Prompts!Spec

-----------------------------------------------------------------------------
(* The types of every part *)

LEMMA AccountsTyped == AppSpec => []Accounts!TypeOK
<1>1. AccountFacts!Spec => []AccountFacts!TypeOK
  BY BoundsAssumption, AccountFacts!AccountTypes DEF AccountFacts!Bounded
<1>2. AccountFacts!TypeOK => Accounts!TypeOK
  BY DEF Accounts!TypeOK, Accounts!Ids, Accounts!Users, Accounts!NoUser, Accounts!Spellings,
         Accounts!UserStatus, Accounts!LoginRequests, Accounts!TokenRequests, Accounts!NoRequest,
         AccountFacts!TypeOK, AccountFacts!Ids, AccountFacts!Users, AccountFacts!NoUser,
         AccountFacts!Spellings, AccountFacts!UserStatus, AccountFacts!LoginRequests,
         AccountFacts!TokenRequests, AccountFacts!NoRequest
<1> QED
  BY <1>1, <1>2, AccountSpecs, PTL

LEMMA DraftsTyped == AppSpec => []Drafts!TypeOK
<1>1. DraftFacts!Spec => []DraftFacts!TypeOK
  BY BoundsAssumption, DraftFacts!DraftTypes DEF DraftFacts!Bounded
<1>2. DraftFacts!TypeOK => Drafts!TypeOK
  BY DEF Drafts!TypeOK, Drafts!Deleted, Drafts!TurnSeqs, Drafts!Null,
         DraftFacts!TypeOK, DraftFacts!Deleted, DraftFacts!TurnSeqs, DraftFacts!Null
<1> QED
  BY <1>1, <1>2, DraftSpecs, PTL

LEMMA PipelineTyped == AppSpec => []Pipeline!TypeOK
<1>1. PipelineFacts!TypeOK => Pipeline!TypeOK
  BY DEF Pipeline!TypeOK, Pipeline!NoId, Pipeline!Done, Pipeline!IsAnswer,
         PipelineFacts!TypeOK, PipelineFacts!NoId, PipelineFacts!Done, PipelineFacts!IsAnswer
<1> QED
  BY <1>1, PipelineFacts!PipelineTypes, PipelineSpecs, PTL

LEMMA MusicTyped == AppSpec => []Music!TypeOK
<1>1. MusicInv => Music!TypeOK
  <2> SUFFICES ASSUME MusicInv PROVE Music!TypeOK
    OBVIOUS
  <2>1. Len(tracks) <= 3
    BY DEF MusicInv, GatheredOK
  <2> QED
    BY <2>1 DEF MusicInv, GatheredOK, ChoiceOK, Music!TypeOK, Music!Seeds
<1> QED
  BY <1>1, MusicInvariant, PTL

\* A side asked for is a number, and so is one derived from the other.
LEMMA SidesAreNumbers ==
  ASSUME ImageInv PROVE Images!Width \in Nat /\ Images!Height \in Nat
<1>1. /\ asked.width \in Nat /\ asked.height \in Nat
      /\ source.width \in Nat \ {0} /\ source.height \in Nat \ {0}
  BY BoundsAssumption DEF ImageInv, Images!Asked, Images!Source
<1>2. \A side, given \in Nat, other \in Nat \ {0} : Images!Scaled(side, given, other) \in Nat
  <2> SUFFICES ASSUME NEW side \in Nat, NEW given \in Nat, NEW other \in Nat \ {0}
               PROVE  Images!Scaled(side, given, other) \in Nat
    OBVIOUS
  <2> DEFINE a == side * given
  <2>1. a \in Nat
    OBVIOUS
  <2>2. Images!Scaled(side, given, other) = a \div other
    BY DEF Images!Scaled
  <2> HIDE DEF a
  <2> QED
    BY <2>1, <2>2, DivisionRoundsDown
<1> QED
  BY <1>1, <1>2 DEF Images!Width, Images!Height

LEMMA ImagesTyped == AppSpec => []Images!TypeOK
<1>1. ImageInv => Images!TypeOK
  <2> SUFFICES ASSUME ImageInv PROVE Images!TypeOK
    OBVIOUS
  <2>1. \A status : Images!Refuse(status).status = status
    BY DEF Images!Refuse, Images!NoAnswer
  <2>2. picture.status \in {0, 200, 400, 413, 415, 500, 502}
    <3>1. CASE picture = Images!NoAnswer
      BY <3>1 DEF Images!NoAnswer
    <3>2. CASE picture = Images!resize_image
      BY <2>1, <3>2 DEF Images!resize_image, Images!Resized, Images!Original
    <3> QED
      BY <3>1, <3>2 DEF ImageInv
  <2>3. ASSUME picture.width > 0 \/ picture.height > 0
        PROVE  picture.width > 0 /\ picture.height > 0
    <3>1. /\ picture = [status |-> 200, width |-> Images!Width, height |-> Images!Height]
          /\ Images!Width # 0 /\ Images!Height # 0
      BY <2>3, ResizedIs
    <3>2. Images!Width \in Nat /\ Images!Height \in Nat
      BY SidesAreNumbers
    <3> QED
      BY <3>1, <3>2
  <2> QED
    BY <2>2, <2>3 DEF ImageInv, Images!TypeOK
<1> QED
  BY <1>1, ImageInvariant, PTL

\* Every part's variables keep their types: a prompt keeps to its provider's limit, a stored
\* key never leaves the storage, a stored music id was offered and fits its column.
THEOREM TypesAreKept == ASSUME Durations PROVE AppSpec => []TypesOK
<1>1. AppSpec => []TypeOK
  BY ProvidersRun, RunTypeCorrect, PTL
<1>2. AppSpec => [](part \in Parts)
  <2>1. AppInit => part \in Parts
    BY DEF AppInit
  <2>2. part \in Parts /\ [AppNext]_appVars => (part \in Parts)'
    BY DEF AppNext, appVars
  <2> QED
    BY <2>1, <2>2, PTL DEF AppSpec
<1>3. /\ part \in Parts /\ TypeOK /\ Accounts!TypeOK /\ Prompts!TypeOK /\ Media!TypeOK
      /\ Drafts!TypeOK /\ Similar!TypeOK /\ Music!TypeOK /\ Images!TypeOK /\ Pipeline!TypeOK
      => TypesOK
  BY DEF Parts, TypesOK
<1> QED
  BY <1>1, <1>2, <1>3, AccountsTyped, PromptFits, MediaTypes, DraftsTyped, SimilarTypes,
     MusicTyped, ImagesTyped, PipelineTyped, PTL
=============================================================================
