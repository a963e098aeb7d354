----------------------------- MODULE StoryDrafts -----------------------------
(***************************************************************************)
(* The story of one movie before its video is requested: the /movies       *)
(* handlers create, music, files, chat, finalize-story, generate and       *)
(* delete (api/movies/router.py:63-304, 469-478) over                      *)
(* story_generation_service.py.                                            *)
(*                                                                         *)
(* All handlers run in one event loop, so a handler is atomic up to an     *)
(* await.  chat and finalize-story await the model: each loads the movie,  *)
(* lets others run while it waits, and then writes the columns whose value *)
(* differs from what it loaded (SQLAlchemy's unit of work).                *)
(*                                                                         *)
(* A chat turn (a message and its answer) is a number.  The draft, the     *)
(* story brief and the prompt are represented by the turns they are made   *)
(* from: the model and the fallback both build them from what they get,    *)
(* and a turn always changes the draft.  Without OPENAI_API_KEY nothing is *)
(* awaited: those are the behaviours in which the answer comes at once.    *)
(***************************************************************************)
EXTENDS Naturals, Sequences, FiniteSets, SequencesExt

CONSTANTS
  Requests,     \* requests under way at once
  MaxTurns,     \* bound: chat turns begun
  MaxUploads    \* bound: files uploaded

VARIABLES
  movie,      \* the row, Deleted once it is gone
  request,    \* request -> what it does, its loaded row, where it stands
  turns,      \* chat turns begun so far
  answered,   \* turns whose chat request was answered 200
  uploads,    \* uploads answered 200
  snapshot    \* input_snapshot of the generation requested last

vars == <<movie, request, turns, answered, uploads, snapshot>>

Null == <<0>>        \* SQL NULL of a column made from turns
None == [kind |-> "none"]
Deleted == [exists |-> FALSE]
Draft == [exists |-> TRUE, chat_history |-> <<>>, current_draft |-> <<>>,
          story_brief |-> Null, generation_prompt |-> Null, files |-> 0, music |-> FALSE]
NoSnapshot == [summary |-> <<>>, provider_prompt |-> Null, images |-> 0]

TurnSeqs == UNION {[1 .. n -> 1 .. MaxTurns] : n \in 0 .. MaxTurns}
TypeOK ==
  /\ movie = Deleted \/
       /\ {movie.chat_history, movie.current_draft, movie.story_brief,
           movie.generation_prompt} \subseteq TurnSeqs \cup {Null}
       /\ movie.files \in 0 .. MaxUploads
       /\ movie.music \in BOOLEAN
  /\ \A r \in Requests : request[r].kind \in {"none", "chat", "finalize"}
  /\ turns \in 0 .. MaxTurns
  /\ answered \subseteq 1 .. MaxTurns
  /\ uploads \in 0 .. MaxUploads
  /\ snapshot.provider_prompt \in TurnSeqs \cup {Null}

\* create_draft has answered: the client has the movie's id.
Init ==
  /\ movie = Draft
  /\ request = [r \in Requests |-> None]
  /\ turns = 0 /\ answered = {} /\ uploads = 0
  /\ snapshot = NoSnapshot

\* _get_movie_or_403 for the owner: a movie that is gone is a 404.
Found == movie.exists

\* The row after a flush: only changed columns are written.
WholeRow(now, loaded, new) == new
Flush(now, loaded, new) ==
  [c \in DOMAIN now |-> IF new[c] = loaded[c] THEN now[c] ELSE new[c]]

Begin(r, kind, turn) ==
  /\ request[r] = None /\ Found
  /\ request' = [request EXCEPT ![r] =
       [kind |-> kind, loaded |-> movie, turn |-> turn, attempt |-> 0, step |-> "await"]]

ChatPrompt(r) ==
  /\ turns < MaxTurns
  /\ turns' = turns + 1
  /\ Begin(r, "chat", turns + 1)
  /\ UNCHANGED <<movie, answered, uploads, snapshot>>

has_story_input(row) == row.current_draft # <<>> \/ row.chat_history # <<>>

\* A finalized story is answered as it is stored; no story input is a 409.
NeedsFinalizing(row) == row.generation_prompt = Null /\ has_story_input(row)
FinalizeStory(r) ==
  /\ Found /\ NeedsFinalizing(movie)
  /\ Begin(r, "finalize", 0)
  /\ UNCHANGED <<movie, turns, answered, uploads, snapshot>>

\* generate_chat_turn, finalize_story: one more attempt after a first timeout;
\* any other failure, or a second timeout, falls back to the canned result.
ModelTimesOutForever(r) ==
  /\ request[r] # None /\ request[r].step = "await"
  /\ request' = [request EXCEPT ![r].attempt = 1 - @]
ModelTimesOut(r) ==
  /\ request[r] # None /\ request[r].step = "await"
  /\ request' = [request EXCEPT ![r].attempt = 1,
                                ![r].step = IF request[r].attempt = 0 THEN "await" ELSE "write"]
ModelAnswers(r) ==
  /\ request[r] # None /\ request[r].step = "await"
  /\ request' = [request EXCEPT ![r].step = "write"]

AwaitModel(r) ==
  /\ ModelTimesOut(r) \/ ModelAnswers(r)
  /\ UNCHANGED <<movie, turns, answered, uploads, snapshot>>

\* merge_draft, or the model's draft of the same history.
AfterChatRestart(row, turn) ==
  [row EXCEPT !.chat_history = <<turn>>, !.current_draft = <<turn>>,
              !.story_brief = Null, !.generation_prompt = Null]
AfterChat(row, turn) ==
  [row EXCEPT !.chat_history = Append(@, turn),
              !.current_draft = Append(row.current_draft, turn),
              !.story_brief = Null, !.generation_prompt = Null]
AfterFinalize(row) ==
  [row EXCEPT !.story_brief = row.chat_history, !.generation_prompt = row.chat_history]

NewRow(r) ==
  LET q == request[r] IN
    IF q.kind = "chat" THEN AfterChat(q.loaded, q.turn) ELSE AfterFinalize(q.loaded)

\* repo.update.  A row deleted meanwhile makes the flush fail (500).
Update(r) ==
  /\ request[r] # None /\ request[r].step = "write"
  /\ movie' = IF Found THEN Flush(movie, request[r].loaded, NewRow(r)) ELSE movie
  /\ answered' = answered \cup (IF Found /\ request[r].kind = "chat"
                                  THEN {request[r].turn} ELSE {})
  /\ request' = [request EXCEPT ![r] = None]
  /\ UNCHANGED <<turns, uploads, snapshot>>

UploadFile ==
  /\ Found /\ uploads < MaxUploads
  /\ movie' = [movie EXCEPT !.files = @ + 1]
  /\ uploads' = uploads + 1
  /\ UNCHANGED <<request, turns, answered, snapshot>>

UpdateMusicResetsStory ==
  /\ Found /\ ~movie.music
  /\ movie' = [movie EXCEPT !.music = TRUE, !.story_brief = Null, !.generation_prompt = Null]
  /\ UNCHANGED <<request, turns, answered, uploads, snapshot>>
UpdateMusic ==
  /\ Found /\ ~movie.music
  /\ movie' = [movie EXCEPT !.music = TRUE]
  /\ UNCHANGED <<request, turns, answered, uploads, snapshot>>

build_video_generation_input(row) ==
  [summary |-> row.current_draft, provider_prompt |-> row.generation_prompt,
   images |-> row.files]

\* generate: refused (409) without a prompt.  VideoGeneration.tla has the job.
GenerateMovie ==
  /\ Found /\ movie.generation_prompt # Null
  /\ snapshot' = build_video_generation_input(movie)
  /\ UNCHANGED <<movie, request, turns, answered, uploads>>

DeleteMovie ==
  /\ Found
  /\ movie' = Deleted
  /\ UNCHANGED <<request, turns, answered, uploads, snapshot>>

Idle == ~Found /\ (\A r \in Requests : request[r] = None) /\ UNCHANGED vars

Next ==
  \/ \E r \in Requests : ChatPrompt(r) \/ FinalizeStory(r) \/ AwaitModel(r) \/ Update(r)
  \/ UploadFile \/ UpdateMusic \/ GenerateMovie \/ DeleteMovie \/ Idle

Spec == Init /\ [][Next]_vars

\* The model's client has a timeout, and a coroutine whose await is over runs.
LiveSpec == Spec /\ \A r \in Requests : WF_vars(AwaitModel(r) \/ Update(r))

get_chat_history == movie.chat_history
build_summary_response ==
  [prompt |-> movie.current_draft, files |-> movie.files,
   story_brief |-> movie.story_brief, generation_prompt |-> movie.generation_prompt,
   is_finalized |-> movie.generation_prompt # Null]

\* The pairs no reader sees half of, and the uploads: the draft ends where the history ends,
\* brief and prompt are made from one history, and every upload answered while chats were
\* waiting for the model is listed.
Paired ==
  Found =>
    LET s == build_summary_response IN
      /\ s.prompt = get_chat_history
      /\ s.story_brief = s.generation_prompt
      /\ s.files = uploads

\* A prompt is made from the history it stands beside.
StoryAgrees == movie.generation_prompt \in {Null, movie.chat_history}

\* A request writes over a story that is not the one it loaded.
Overtaken(r) ==
  \/ request[r].loaded.chat_history # movie.chat_history
  \/ request[r].loaded.generation_prompt # movie.generation_prompt

\* What the summary shows is paired, and prompt and history are of one story until requests
\* overlap.  A chat that loaded the row before a finalize-story wrote it sets a prompt to
\* NULL that was NULL already, which writes nothing, and a finalize-story that loaded an
\* older history writes its prompt beside a newer one: only such a write parts the two.
SummaryConsistent ==
  [][/\ Paired /\ Paired'
     /\ Found /\ Found' /\ StoryAgrees /\ ~StoryAgrees' =>
          \E r \in Requests : request[r] # None /\ request'[r] = None /\ Overtaken(r)]_vars

\* A story once finalized is replaced only by a chat turn that takes it back,
\* or by a finalize-story that had begun before.
FinalizedUntilChat ==
  [][Found /\ movie'.exists /\ movie.generation_prompt # Null
       /\ movie'.generation_prompt # movie.generation_prompt =>
       \E r \in Requests :
         /\ request[r] # None /\ request'[r] = None
         /\ \/ request[r].kind = "chat"
            \/ request[r].loaded.generation_prompt = Null]_vars

\* Every chat and finalize-story request is answered, by the fallback if the
\* model does not.
RequestAnswered(r) == request[r] # None ~> request[r] = None

\* GET /chat returns the history "so far" (router.py:214).  Overlapping requests
\* write whole histories, so an answered turn can be lost, but only to a request
\* that had begun before the turn was answered: none ever loses what it has seen.
SeenTurnsKept ==
  [][Found /\ Found' =>
       \A t \in ToSet(movie.chat_history) \ ToSet(movie'.chat_history) :
         \E r \in Requests :
           /\ request[r] # None /\ request'[r] = None
           /\ t \notin ToSet(request[r].loaded.chat_history)]_vars
=============================================================================
