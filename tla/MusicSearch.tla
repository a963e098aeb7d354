----------------------------- MODULE MusicSearch -----------------------------
(***************************************************************************)
(* The music the user is offered and the one the movie keeps:              *)
(* routers/music.py (GET /api/v1/music, POST /api/v1/music/recommend) and  *)
(* PUT /api/movies/{id}/music.  A request is a chain of calls to Spotify   *)
(* and Deezer; each call is a step that may find songs, none, or fail.     *)
(*                                                                         *)
(* A track is [song, id, playable]: the song a listener would hear, the    *)
(* music_id the client is given, and whether file_url is set.              *)
(***************************************************************************)
EXTENDS Naturals, Sequences, FiniteSets, SequencesExt

CONSTANTS
  Songs,        \* the songs there are, each named by its id at Deezer
  MaxMusicId,   \* the largest id the INTEGER column movies.music_id holds: 2^31 - 1,
                \* which TLC's own integers cannot exceed, so runs use a smaller one
  Credentials,  \* whether Spotify is configured: a subset of BOOLEAN
  MaxRequests   \* bound: requests made, one after the other

Seeds == 3                    \* songs of a theme in MUSIC_BY_THEME
SpotifyBase == 2000
MaxFound == 2                 \* bound: tracks one search returns (5 in the code)

VARIABLES
  configured,  \* Spotify credentials are set
  call,        \* the external call the request waits for, or "idle"
  tracks,      \* tracks gathered so far by the request under way
  next,        \* position in tracks or in the seeds that is looked up next
  answer,      \* the last answer: status, tracks, message
  offered,     \* every [song, id] a client has been offered
  music_id,    \* the movie's column: [song, id], or NoMusic
  made         \* requests made

vars == <<configured, call, tracks, next, answer, offered, music_id, made>>
request == <<call, tracks, next>>

NoMusic == [song |-> 0, id |-> 0]
NoAnswer == [status |-> 0, tracks |-> <<>>, message |-> "none"]

RecommendCalls == {"deezer_only", "token", "spotify", "attach", "spotify_again",
                   "attach_again", "deezer_last", "fallback"}

Init ==
  /\ configured \in Credentials
  /\ call = "idle" /\ tracks = <<>> /\ next = 1
  /\ answer = NoAnswer
  /\ offered = {} /\ music_id = NoMusic /\ made = 0

-----------------------------------------------------------------------------
(* Tracks *)

\* _search_deezer_tracks: only items with a preview become tracks.
DeezerTrack(song) == [song |-> song, id |-> song, playable |-> TRUE]

\* _search_spotify_tracks: the id is the position in this answer.
SpotifyTrack(song, i, preview) ==
  [song |-> song, id |-> SpotifyBase + i - 1, playable |-> preview]

\* _mock_recommend: three titles nobody can play; build_theme_track: a stored file.
Catalogue(n, playable) ==
  [i \in 1 .. n |-> [song |-> 9000 + i, id |-> 9000 + i, playable |-> playable]]
MockTracks == Catalogue(3, FALSE)
ThemeTracks == Catalogue(Seeds, TRUE)

Found(limit) == {s \in UNION {[1 .. n -> Songs] : n \in 0 .. limit} : IsInjective(s)}
DeezerSearch(limit) == {[i \in DOMAIN s |-> DeezerTrack(s[i])] : s \in Found(limit)}
SpotifySearch ==
  UNION {{[i \in DOMAIN s |-> SpotifyTrack(s[i], i, p[i])] : p \in [DOMAIN s -> BOOLEAN]} :
            s \in Found(MaxFound)}

-----------------------------------------------------------------------------
(* Steps of a request *)

Goto(c, ts, n) == call' = c /\ tracks' = ts /\ next' = n
Quiet == UNCHANGED <<configured, answer, offered, music_id, made>>

Respond(status, ts, message) ==
  /\ Goto("idle", <<>>, 1)
  /\ answer' = [status |-> status, tracks |-> ts, message |-> message]
  /\ offered' = offered \cup {[song |-> ts[i].song, id |-> ts[i].id] : i \in DOMAIN ts}
  /\ UNCHANGED <<configured, music_id, made>>

Begin(first) ==
  /\ call = "idle" /\ made < MaxRequests
  /\ made' = made + 1
  /\ Goto(first, <<>>, 1)
  /\ UNCHANGED <<configured, answer, offered, music_id>>

GetMusicByTheme == Begin("theme") \/ Begin("no_theme")
RecommendMusic == Begin(IF configured THEN "token" ELSE "deezer_only")

\* build_playable_theme_tracks: one search per seed; a song two searches both find is
\* taken once.  Without a single track the stored files are offered.
AppendAlways(ts, t) == Append(ts, t)
AppendNew(ts, t) == IF \E i \in DOMAIN ts : ts[i].id = t.id THEN ts ELSE Append(ts, t)

ThemeSearch ==
  /\ call = "theme"
  /\ \E found \in DeezerSearch(1) :
       LET ts == IF found = <<>> THEN tracks ELSE AppendNew(tracks, found[1]) IN
         IF next < Seeds THEN Goto("theme", ts, next + 1) /\ Quiet
         ELSE Respond(200, IF ts = <<>> THEN ThemeTracks ELSE ts, "theme")

\* A theme_id the code does not list has no seeds.
UnknownTheme == call = "no_theme" /\ Respond(200, <<>>, "no_theme")

Token ==
  /\ call = "token" /\ Goto("spotify", <<>>, 1) /\ Quiet

\* Nothing found: ask again with the bare message, then Deezer, then the catalogue.
AfterEmpty(step) == IF step = "attach" THEN "spotify_again" ELSE "deezer_last"

SpotifyFinds(step, attach) ==
  /\ call = step
  /\ \E found \in SpotifySearch : Goto(attach, found, 1)
  /\ Quiet
Spotify == SpotifyFinds("spotify", "attach") \/ SpotifyFinds("spotify_again", "attach_again")

\* _attach_deezer_previews: a track without a preview is looked up at Deezer and keeps
\* its id and title; it stays without a preview when Deezer has none.
AttachPreview ==
  /\ call \in {"attach", "attach_again"} /\ next <= Len(tracks)
  /\ \E found \in BOOLEAN :
       Goto(call, [tracks EXCEPT ![next].playable = @ \/ found], next + 1)
  /\ Quiet

Attached ==
  /\ call \in {"attach", "attach_again"} /\ next > Len(tracks)
  /\ IF tracks = <<>> THEN Goto(AfterEmpty(call), <<>>, 1) /\ Quiet
     ELSE Respond(200, tracks, "found")

\* The three places that search Deezer by the query: no credentials, the last resort of
\* an empty Spotify, and the except branch.
DeezerFinds ==
  /\ call \in {"deezer_only", "deezer_last", "fallback"}
  /\ \E found \in DeezerSearch(MaxFound) :
       IF found # <<>> THEN Respond(200, found, "found")
       ELSE Respond(200, MockTracks, IF call = "fallback" THEN "error" ELSE "mock")

\* A call that fails.  recommend_music catches what is raised inside its try; the other
\* Deezer searches are outside of it, and what they raise is answered 500.
Uncaught == {"theme", "deezer_only", "fallback"}
AfterFailure(c) == IF c \in Uncaught THEN "crash" ELSE "fallback"

CallFails ==
  /\ call \notin {"idle", "no_theme"}
  /\ call \in {"attach", "attach_again"} => next <= Len(tracks) /\ ~tracks[next].playable
  /\ IF AfterFailure(call) = "crash" THEN Respond(500, <<>>, call)
     ELSE Goto("fallback", <<>>, 1) /\ Quiet

\* update_music stores the id of a track the client was offered; an id that does not fit
\* the column is refused by MySQL and answered 500.
Fits(id) == id <= MaxMusicId
UpdateMusic ==
  /\ call = "idle"
  /\ \E track \in offered :
       IF Fits(track.id)
       THEN music_id' = track /\ answer' = NoAnswer
       ELSE music_id' = music_id /\ answer' = [NoAnswer EXCEPT !.status = 500, !.message = "choice"]
  /\ UNCHANGED <<configured, call, tracks, next, offered, made>>

Step == \/ ThemeSearch \/ UnknownTheme \/ Token \/ Spotify \/ AttachPreview \/ Attached \/ DeezerFinds
        \/ CallFails
Idle == call = "idle" /\ UNCHANGED vars

Next == GetMusicByTheme \/ RecommendMusic \/ Step \/ UpdateMusic \/ Idle

Spec == Init /\ [][Next]_vars

\* Every call has a timeout (10 s at Deezer, httpx's default at Spotify).
LiveSpec == Spec /\ WF_vars(Step)

-----------------------------------------------------------------------------
(* Properties *)

TypeOK ==
  /\ call \in RecommendCalls \cup {"idle", "theme", "no_theme"}
  /\ Len(tracks) <= Seeds /\ next \in 1 .. Seeds + 1
  /\ answer.status \in {0, 200, 500}
  /\ music_id = NoMusic \/ music_id \in offered
  /\ music_id.id <= MaxMusicId

\* An answer 200 always offers music: every way through the fallbacks ends with tracks
\* (only a theme nobody defined is answered with an empty list), and a theme's list names
\* no song twice, whatever the searches of its seeds find.
OffersMusic ==
  /\ answer.status = 200 /\ answer.message # "no_theme" => answer.tracks # <<>>
  /\ answer.message = "theme" =>
       \A i, j \in DOMAIN answer.tracks : answer.tracks[i].id = answer.tracks[j].id => i = j

\* Every request is answered: a failed call never sends the request back to an earlier one.
RequestAnswered == call # "idle" ~> call = "idle"
=============================================================================
