---------------------------- MODULE MediaDelivery ----------------------------
(***************************************************************************)
(* From a finished generation to the file the user downloads: where a run  *)
(* stores its video (services/storage_service.py and the OpenAI provider's *)
(* _download_variant), which URL the job remembers, and what the download  *)
(* endpoints make of it later (api/movies/router.py:423-706).              *)
(*                                                                         *)
(* A key and the path of a URL are sequences of segments; quote() wraps a  *)
(* segment of a URL and unquote() unwraps it.  The settings are read once  *)
(* and chosen in Init.  One movie of its owner, its jobs in id order.      *)
(***************************************************************************)
EXTENDS Naturals, Sequences, FiniteSets, SequencesExt

CONSTANTS
  StorageProviders,   \* STORAGE_PROVIDER: a subset of {"local", "s3"}
  VideoProviders,     \* who makes the video: a subset of {"openai", "hosted"}
  LocalBases,         \* LOCAL_PUBLIC_BASE_URL: names of PublicBase's domain
  MaxJobs             \* bound: generations requested, 1 .. 3

VARIABLES
  settings,   \* storage, provider, base, s3_base, prefix
  jobs,       \* the movie's jobs, the latest last
  files       \* stored objects: [key, video], video the run that made it

vars == <<settings, jobs, files>>

-----------------------------------------------------------------------------
(* Settings, as core/config.py loads them *)

\* What "/" + local_public_base_url.strip("/") is, in segments.
PublicBase ==
  [path     |-> <<"generated">>,
   nested   |-> <<"media", "files">>,
   empty    |-> <<"">>,
   absolute |-> <<"https:", "", "api.example.com", "generated">>]

S3Bases == {<<>>, <<"media">>, <<"generated">>}
VideoPrefixes == {<<"generated", "videos">>, <<"">>, <<"a", "", "b">>}

Init ==
  /\ settings \in [storage : StorageProviders, provider : VideoProviders,
                   base : LocalBases, s3_base : S3Bases, prefix : VideoPrefixes]
  /\ jobs = <<>>
  /\ files = {}

-----------------------------------------------------------------------------
(* Keys and URLs *)

Refused == <<"refused">>      \* StorageConfigError
NoUrl == [host |-> "none", path |-> <<>>]

strip(key) == LET first == IF key # <<>> /\ Head(key) = "" THEN Tail(key) ELSE key
              IN IF first # <<>> /\ Last(first) = "" THEN Front(first) ELSE first

LaxKey(key) == strip(key)
normalize_storage_key(key) ==
  LET parts == strip(key) IN
    IF parts = <<>> \/ Range(parts) \cap {"", ".", ".."} # {} THEN Refused ELSE parts

build_storage_key(prefix, name) == normalize_storage_key(prefix \o <<name>>)

quote(part) == [quoted |-> part]
unquote(path) == [i \in DOMAIN path |-> path[i].quoted]

join_public_url(host, base, key) ==
  [host |-> host, path |-> [i \in 1 .. Len(base) + Len(key) |-> quote((base \o key)[i])]]

\* LocalStorageService falls back to /generated; an absolute base has its host.
LocalUrl(key) ==
  CASE settings.base = "empty"    -> join_public_url("self", <<"generated">>, key)
    [] settings.base = "absolute" -> join_public_url("api.example.com", <<"generated">>, key)
    [] OTHER -> join_public_url("self", PublicBase[settings.base], key)

\* Without a public base the bucket's own host serves the key.
S3Url(key) == join_public_url("s3", settings.s3_base, key)

public_url(key) == IF settings.storage = "local" THEN LocalUrl(key) ELSE S3Url(key)

-----------------------------------------------------------------------------
(* Generation: the run stores the files, then the job is marked *)

Running == [status |-> "RUNNING", stored |-> "nothing", output_url |-> NoUrl, thumbnail_url |-> NoUrl]

video_name == <<"v1.mp4", "v2.mp4", "v3.mp4">>
thumbnail_name == <<"v1.webp", "v2.webp", "v3.webp">>

\* One unfinished job at a time (request_generation refuses a second).
RequestGeneration ==
  /\ Len(jobs) < MaxJobs
  /\ \A j \in DOMAIN jobs : jobs[j].status # "RUNNING"
  /\ jobs' = Append(jobs, Running)
  /\ UNCHANGED <<settings, files>>

\* _download_variant: the object is named after the provider's video id, which
\* is new for every run.
NamedAfterMovie(j) == build_storage_key(settings.prefix, video_name[1])
VideoKey(j) == build_storage_key(settings.prefix, video_name[j])
ThumbnailKey(j) == build_storage_key(settings.prefix, thumbnail_name[j])

\* put_bytes writes over an object of the same key.
put_bytes(stored, key, video) ==
  {f \in stored : f.key # key} \cup {[key |-> key, video |-> video]}

\* The video must be stored; a thumbnail that fails is left out.  A run whose
\* job was cancelled does not notice and stores its files as well.
StoreVideo(j) ==
  /\ jobs[j].status \in {"RUNNING", "CANCELED"} /\ jobs[j].stored = "nothing"
  /\ settings.provider = "openai" /\ VideoKey(j) # Refused
  /\ \E thumbnail \in BOOLEAN :
       LET video == put_bytes(files, VideoKey(j), j) IN
         /\ files' = IF thumbnail THEN put_bytes(video, ThumbnailKey(j), j) ELSE video
         /\ jobs' = [jobs EXCEPT ![j].stored = IF thumbnail THEN "both" ELSE "video"]
  /\ UNCHANGED settings

\* fal and the mock return a URL of their own host; nothing is stored.
HostedUrl(j) == join_public_url("provider", <<"videos">>, <<video_name[j]>>)
OutputUrl(j) ==
  IF settings.provider = "openai" THEN public_url(VideoKey(j)) ELSE HostedUrl(j)
ThumbnailUrl(j) ==
  IF jobs[j].stored = "both" THEN public_url(ThumbnailKey(j)) ELSE NoUrl

Finished(j) == jobs[j].status = "RUNNING" /\ (jobs[j].stored # "nothing" \/ settings.provider = "hosted")

\* _mark_succeeded
MarkSucceeded(j) ==
  /\ Finished(j)
  /\ jobs' = [jobs EXCEPT ![j].status = "SUCCEEDED", ![j].output_url = OutputUrl(j),
                       ![j].thumbnail_url = ThumbnailUrl(j)]
  /\ UNCHANGED <<settings, files>>

\* A provider error, a refused key (after the generation was paid for), a crash
\* before or after the upload, or the user's cancel.
Stop(j) ==
  /\ jobs[j].status = "RUNNING"
  /\ \E status \in {"FAILED", "CANCELED"} :
       jobs' = [jobs EXCEPT ![j].status = status]
  /\ UNCHANGED <<settings, files>>

\* delete_movie: the rows go, the stored objects stay; the movie is not made again.
DeleteMovie ==
  /\ jobs # <<>>
  /\ jobs' = [j \in 1 .. MaxJobs |-> [Running EXCEPT !.status = "DELETED"]]
  /\ UNCHANGED <<settings, files>>

Idle == (\A j \in DOMAIN jobs : jobs[j].status # "RUNNING") /\ UNCHANGED vars

Next ==
  \/ RequestGeneration
  \/ \E j \in DOMAIN jobs : StoreVideo(j) \/ MarkSucceeded(j) \/ Stop(j)
  \/ DeleteMovie
  \/ Idle

Spec == Init /\ [][Next]_vars

-----------------------------------------------------------------------------
(* The read side: what each endpoint answers in the present state *)

Keys == {f.key : f \in files}
HasJob == jobs # <<>> /\ Last(jobs).status # "DELETED"
Latest == Last(jobs)

\* path.startswith(f"{base}/")
StartsWith(path, base) == IsStrictPrefix(base, path)
removeprefix(path, base) == SubSeq(path, Len(base) + 1, Len(path))

PathOf(url) == unquote(url.path)

\* resolve_local_generated_file_path; a stored key has no "..", so the 400 for
\* a path outside the root does not arise here.
resolve_local_generated_file_path(url) ==
  LET path == PathOf(url)
      base == PublicBase[settings.base]
      key  == removeprefix(path, base)
  IN CASE ~StartsWith(path, base) -> [status |-> 422, key |-> <<>>]
       [] key \notin Keys \/ settings.storage # "local" -> [status |-> 404, key |-> <<>>]
       [] OTHER -> [status |-> 200, key |-> key]

\* get_download_ready_job and download_movie_file
DownloadReady == HasJob /\ Latest.status = "SUCCEEDED" /\ Latest.output_url # NoUrl
download_movie_file ==
  IF DownloadReady THEN resolve_local_generated_file_path(Latest.output_url)
  ELSE [status |-> 409, key |-> <<>>]

\* resolve_s3_object_key_from_output_url
WholePath(url) == PathOf(url)
S3Key(url) ==
  LET path == PathOf(url) IN
    IF settings.s3_base # <<>> /\ StartsWith(path, settings.s3_base)
    THEN removeprefix(path, settings.s3_base) ELSE path

\* build_movie_download_url: kind "file" is /api/movies/{id}/download/file.
build_movie_download_url(url) ==
  CASE url = NoUrl -> [kind |-> "none", key |-> <<>>]
    [] settings.storage = "local" /\ StartsWith(PathOf(url), PublicBase[settings.base]) ->
         [kind |-> "file", key |-> <<>>]
    [] settings.storage = "s3" -> [kind |-> "presigned", key |-> S3Key(url)]
    [] OTHER -> [kind |-> "external", key |-> <<>>]

\* download_movie does not look at the job's status.
download_movie ==
  build_movie_download_url(IF HasJob THEN Latest.output_url ELSE NoUrl)

\* build_movie_summary, as the list and the detail of the movie show it.
build_movie_summary ==
  [output_url |-> IF HasJob THEN Latest.output_url ELSE NoUrl,
   thumbnail |-> IF HasJob THEN Latest.thumbnail_url ELSE NoUrl]

-----------------------------------------------------------------------------
(* Properties *)

\* Type correctness; no key with an empty or dotted segment is ever stored.
TypeOK ==
  /\ Len(jobs) <= MaxJobs
  /\ \A j \in DOMAIN jobs :
       jobs[j].status \in {"RUNNING", "SUCCEEDED", "FAILED", "CANCELED", "DELETED"}
  /\ \A f \in files : f.key # <<>> /\ Range(f.key) \cap {"", ".", ".."} = {}

\* The file behind what the client is handed: through the file endpoint, through
\* a presigned GET, or none.
Delivered ==
  CASE download_movie.kind = "file" /\ download_movie_file.status = 200 ->
         {f.video : f \in {g \in files : g.key = download_movie_file.key}}
    [] download_movie.kind = "presigned" ->
         {f.video : f \in {g \in files : g.key = download_movie.key}}
    [] OTHER -> {}

\* Once the latest generation succeeded, the download leads to the very file that
\* generation stored, whatever the prefix and the public base path, and however
\* many runs, failed or cancelled, stored files before (router.py:485).
LatestIsDelivered ==
  DownloadReady => Delivered = {Len(jobs)}

\* Every video a user was once given is still there and is still that video: a
\* later run of the same movie never writes over it.
VideosKept ==
  \A j \in DOMAIN jobs : (jobs[j].status = "SUCCEEDED" /\ settings.provider = "openai") =>
    \E f \in files : f.video = j /\ public_url(f.key) = jobs[j].output_url

\* A thumbnail that the movie list shows is a stored object of the latest run.
ThumbnailIsStored ==
  build_movie_summary.thumbnail # NoUrl =>
    \E f \in files : public_url(f.key) = build_movie_summary.thumbnail /\ f.video = Len(jobs)

\* What the endpoints show of the latest generation is what that generation stored.
LatestIsShown == LatestIsDelivered /\ ThumbnailIsStored
=============================================================================
