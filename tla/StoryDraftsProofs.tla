-------------------------- MODULE StoryDraftsProofs --------------------------
(***************************************************************************)
(* Proofs about StoryDrafts: that chats and finalize-stories which write   *)
(* columns of rows they loaded long ago keep the columns of a summary in   *)
(* pairs, part prompt from history only over a story they did not load,    *)
(* replace a finalized story only when they may, and never drop a turn     *)
(* they have seen.                                                         *)
(***************************************************************************)
EXTENDS StoryDrafts, SequenceTheorems, TLAPS

\* The bounds of the model are numbers: nothing about the code.
Bounded == MaxTurns \in Nat /\ MaxUploads \in Nat

Stories == TurnSeqs \cup {Null}
Rows ==
  [exists : {TRUE}, chat_history : TurnSeqs, current_draft : TurnSeqs, story_brief : Stories,
   generation_prompt : Stories, files : 0 .. MaxUploads, music : BOOLEAN]
Columns == {"exists", "chat_history", "current_draft", "story_brief", "generation_prompt",
            "files", "music"}

\* A row no reader sees half of: draft with history, brief with prompt.
OfOneStory(row) ==
  row.current_draft = row.chat_history /\ row.story_brief = row.generation_prompt

\* A request under way, n turns having begun.  The row it loaded is of one story; a chat's turn is later than all
\* it loaded; a finalize-story found no prompt.
Underway ==
  [kind : {"chat", "finalize"}, loaded : Rows, turn : 0 .. MaxTurns, attempt : {0, 1},
   step : {"await", "write"}]
RequestOK(q, n) ==
  /\ q \in Underway
  /\ OfOneStory(q.loaded)
  /\ q.kind = "chat" => q.turn \in 1 .. n /\ Len(q.loaded.chat_history) < q.turn
  /\ q.kind = "finalize" => q.loaded.generation_prompt = Null

MovieOK ==
  movie # Deleted =>
    /\ movie \in Rows
    /\ OfOneStory(movie)
    /\ movie.files = uploads
    /\ Len(movie.chat_history) <= turns

CountersOK ==
  /\ turns \in 0 .. MaxTurns
  /\ uploads \in 0 .. MaxUploads
  /\ answered \subseteq 1 .. turns

RequestsOK ==
  /\ request = [r \in Requests |-> request[r]]
  /\ \A r \in Requests : request[r] # None => RequestOK(request[r], turns)

DraftInv ==
  CountersOK /\ MovieOK /\ RequestsOK /\ snapshot.provider_prompt \in Stories

-----------------------------------------------------------------------------
(* Turns and rows *)

\* A sequence of turns, as a sequence of the library's kind and back.
LEMMA TurnSeqIsSeq ==
  ASSUME MaxTurns \in Nat, NEW s
  PROVE  s \in TurnSeqs <=> s \in Seq(1 .. MaxTurns) /\ Len(s) <= MaxTurns
<1>1. ASSUME s \in TurnSeqs
      PROVE  s \in Seq(1 .. MaxTurns) /\ Len(s) <= MaxTurns
  <2>1. PICK n \in 0 .. MaxTurns : s \in [1 .. n -> 1 .. MaxTurns]
    BY <1>1 DEF TurnSeqs
  <2>2. s \in Seq(1 .. MaxTurns) /\ Len(s) = n
    BY <2>1
  <2> QED
    BY <2>1, <2>2
<1>2. ASSUME s \in Seq(1 .. MaxTurns), Len(s) <= MaxTurns
      PROVE  s \in TurnSeqs
  <2>1. Len(s) \in 0 .. MaxTurns /\ s \in [1 .. Len(s) -> 1 .. MaxTurns]
    BY <1>2
  <2> QED
    BY <2>1 DEF TurnSeqs
<1> QED
  BY <1>1, <1>2

\* A chat turn extends a history by one turn, which makes it another history.
LEMMA AppendTurn ==
  ASSUME MaxTurns \in Nat, NEW s \in TurnSeqs, NEW t \in 1 .. MaxTurns, Len(s) < MaxTurns
  PROVE  /\ Append(s, t) \in TurnSeqs
         /\ Append(s, t) # s
         /\ Len(Append(s, t)) = Len(s) + 1
         /\ ToSet(s) \subseteq ToSet(Append(s, t))
<1>1. s \in Seq(1 .. MaxTurns)
  BY TurnSeqIsSeq
<1>2. /\ Append(s, t) \in Seq(1 .. MaxTurns) /\ Len(Append(s, t)) = Len(s) + 1
      /\ \A i \in 1 .. Len(s) : Append(s, t)[i] = s[i]
  BY <1>1
<1>3. Len(s) \in Nat /\ DOMAIN s = 1 .. Len(s) /\ DOMAIN Append(s, t) = 1 .. Len(s) + 1
  BY <1>1, <1>2
<1>4. ToSet(s) \subseteq ToSet(Append(s, t))
  BY <1>2, <1>3 DEF ToSet
<1>5. Append(s, t) \in TurnSeqs
  <2> DEFINE a == Append(s, t)
  <2>1. a \in Seq(1 .. MaxTurns) /\ Len(a) <= MaxTurns
    BY <1>2, <1>3
  <2> HIDE DEF a
  <2>2. a \in TurnSeqs
    BY <2>1, TurnSeqIsSeq
  <2> QED
    BY <2>2 DEF a
<1>6. Append(s, t) # s
  <2>1. \A n \in Nat : n + 1 # n
    OBVIOUS
  <2>2. Len(Append(s, t)) # Len(s)
    BY <1>2, <1>3, <2>1, Zenon
  <2> QED
    BY <2>2, Zenon
<1> QED
  BY <1>2, <1>4, <1>5, <1>6

LEMMA EmptyHistory ==
  ASSUME MaxTurns \in Nat PROVE <<>> \in TurnSeqs /\ Len(<<>>) = 0
<1> DEFINE e == <<>>
<1>1. e \in Seq(1 .. MaxTurns) /\ Len(e) = 0 /\ Len(e) <= MaxTurns
  OBVIOUS
<1> HIDE DEF e
<1>2. e \in TurnSeqs
  BY <1>1, TurnSeqIsSeq
<1> QED
  BY <1>1, <1>2 DEF e

LEMMA RowColumns == ASSUME NEW row \in Rows PROVE DOMAIN row = Columns
BY DEF Rows, Columns

\* Flush, column by column.
LEMMA FlushColumns ==
  ASSUME NEW now \in Rows, NEW loaded \in Rows, NEW new \in Rows
  PROVE  /\ Flush(now, loaded, new) \in Rows
         /\ \A c \in Columns :
              Flush(now, loaded, new)[c] = IF new[c] = loaded[c] THEN now[c] ELSE new[c]
<1>1. \A c \in Columns :
        Flush(now, loaded, new)[c] = IF new[c] = loaded[c] THEN now[c] ELSE new[c]
  BY RowColumns DEF Flush
<1>2. Flush(now, loaded, new) \in Rows
  BY RowColumns DEF Flush, Rows, Columns
<1> QED
  BY <1>1, <1>2

\* A deleted row is no row.
LEMMA DeletedIsNone ==
  /\ ~Deleted.exists
  /\ \A row \in Rows : row # Deleted /\ row.exists
<1>1. ~Deleted.exists
  BY DEF Deleted
<1>2. \A row \in Rows : row.exists
  BY DEF Rows
<1> QED
  BY <1>1, <1>2

LEMMA NoneIsNone == \A q \in Underway : q # None
BY DEF Underway, None

-----------------------------------------------------------------------------
(* Steps *)

LEMMA InitDrafts == ASSUME Bounded PROVE Init => DraftInv
<1> SUFFICES ASSUME Init PROVE DraftInv
  OBVIOUS
<1>1. movie = Draft /\ Draft \in Rows /\ OfOneStory(Draft) /\ Draft.files = 0
      /\ Len(Draft.chat_history) = 0
  BY EmptyHistory DEF Init, Draft, Rows, Stories, OfOneStory, Bounded
<1>2. CountersOK
  BY DEF Init, CountersOK, Bounded
<1>3. MovieOK
  BY <1>1, <1>2 DEF Init, MovieOK, CountersOK
<1>4. RequestsOK
  BY DEF Init, RequestsOK
<1>5. snapshot.provider_prompt \in Stories
  BY DEF Init, NoSnapshot, Stories
<1> QED
  BY <1>2, <1>3, <1>4, <1>5 DEF DraftInv

\* What a request needs of the turns begun still holds when more begin.
LEMMA MoreTurns ==
  ASSUME NEW n \in Nat, NEW m \in Nat, n <= m, NEW q, RequestOK(q, n)
  PROVE  RequestOK(q, m)
BY DEF RequestOK

\* The requests after a step that gives one of them another state, or ends it.
LEMMA OneRequest ==
  ASSUME RequestsOK, turns \in Nat, turns' \in Nat, turns <= turns',
         NEW r \in Requests, NEW q, q # None => RequestOK(q, turns'),
         request' = [request EXCEPT ![r] = q]
  PROVE  RequestsOK'
<1>1. \A s \in Requests : s # r => request'[s] = request[s]
  BY DEF RequestsOK
<1>2. request'[r] = q /\ request' = [s \in Requests |-> request'[s]]
  BY DEF RequestsOK
<1>3. \A s \in Requests : request'[s] # None => RequestOK(request'[s], turns')
  <2> SUFFICES ASSUME NEW s \in Requests, request'[s] # None, s # r
               PROVE  RequestOK(request[s], turns')
    BY <1>1, <1>2
  <2>1. RequestOK(request[s], turns)
    BY <1>1 DEF RequestsOK
  <2> QED
    BY <2>1, MoreTurns
<1> QED
  BY <1>2, <1>3 DEF RequestsOK

\* A request begins with the row as it is.
LEMMA BeginKeeps ==
  ASSUME DraftInv, Bounded, NEW r \in Requests,
         NEW kind \in {"chat", "finalize"}, NEW turn \in 0 .. MaxTurns,
         Begin(r, kind, turn),
         kind = "chat" => turn = turns + 1 /\ turns' = turns + 1,
         kind = "finalize" => turns' = turns /\ NeedsFinalizing(movie),
         UNCHANGED <<movie, answered, uploads, snapshot>>, turns' \in 0 .. MaxTurns
  PROVE  DraftInv'
<1> DEFINE q == [kind |-> kind, loaded |-> movie, turn |-> turn, attempt |-> 0, step |-> "await"]
<1>1. movie \in Rows /\ OfOneStory(movie) /\ Len(movie.chat_history) <= turns
      /\ movie.files = uploads
  BY DeletedIsNone DEF Begin, Found, DraftInv, MovieOK
<1>2. turns \in Nat /\ turns' \in Nat /\ turns <= turns'
  BY DEF DraftInv, CountersOK
<1>3. Len(movie.chat_history) \in Nat
  <2>1. movie.chat_history \in TurnSeqs
    BY <1>1 DEF Rows
  <2> QED
    BY <2>1, TurnSeqIsSeq DEF Bounded
<1>4. RequestOK(q, turns')
  <2>1. q \in Underway /\ q.kind = kind /\ q.turn = turn /\ q.loaded = movie
    BY <1>1 DEF Underway
  <2> HIDE DEF q
  <2>2. kind = "chat" => q.turn \in 1 .. turns' /\ Len(q.loaded.chat_history) < q.turn
    BY <1>1, <1>2, <1>3, <2>1
  <2>3. kind = "finalize" => q.loaded.generation_prompt = Null
    BY <2>1 DEF NeedsFinalizing
  <2> QED
    BY <1>1, <2>1, <2>2, <2>3 DEF RequestOK
<1>5. RequestsOK'
  <2>1. request' = [request EXCEPT ![r] = q]
    BY DEF Begin
  <2> HIDE DEF q
  <2> QED
    BY <1>2, <1>4, <2>1, OneRequest DEF DraftInv
<1>6. MovieOK'
  BY <1>1, <1>2, <1>3 DEF MovieOK, OfOneStory
<1>7. CountersOK'
  BY <1>2 DEF DraftInv, CountersOK
<1> QED
  BY <1>5, <1>6, <1>7 DEF DraftInv

LEMMA ChatPromptKeeps ==
  ASSUME DraftInv, Bounded, NEW r \in Requests, ChatPrompt(r) PROVE DraftInv'
<1>1. turns + 1 \in 0 .. MaxTurns
  BY DEF ChatPrompt, DraftInv, CountersOK, Bounded
<1> QED
  BY <1>1, BeginKeeps DEF ChatPrompt

LEMMA FinalizeStoryKeeps ==
  ASSUME DraftInv, Bounded, NEW r \in Requests, FinalizeStory(r) PROVE DraftInv'
<1>1. 0 \in 0 .. MaxTurns /\ turns \in 0 .. MaxTurns
  BY DEF DraftInv, CountersOK, Bounded
<1> QED
  BY <1>1, BeginKeeps DEF FinalizeStory

\* While a request waits for the model only its attempt and step change.
LEMMA AwaitModelKeeps ==
  ASSUME DraftInv, Bounded, NEW r \in Requests, AwaitModel(r) PROVE DraftInv'
<1>1. RequestOK(request[r], turns) /\ request[r] # None
  BY DEF AwaitModel, ModelTimesOut, ModelAnswers, DraftInv, RequestsOK
<1>2. PICK attempt \in {0, 1}, step \in {"await", "write"} :
        request' = [request EXCEPT ![r] = [request[r] EXCEPT !.attempt = attempt, !.step = step]]
  <2>1. CASE ModelTimesOut(r)
    BY <2>1 DEF ModelTimesOut
  <2>2. CASE ModelAnswers(r)
    <3>1. request[r] = [request[r] EXCEPT !.attempt = request[r].attempt]
          /\ request[r].attempt \in {0, 1}
      BY <1>1 DEF RequestOK, Underway
    <3> QED
      BY <2>2, <3>1 DEF ModelAnswers
  <2> QED
    BY <2>1, <2>2 DEF AwaitModel
<1> DEFINE q == [request[r] EXCEPT !.attempt = attempt, !.step = step]
<1>3. q \in Underway /\ q.kind = request[r].kind /\ q.loaded = request[r].loaded
      /\ q.turn = request[r].turn
  BY <1>1 DEF RequestOK, Underway
<1> HIDE DEF q
<1>4. RequestOK(q, turns)
  BY <1>1, <1>3 DEF RequestOK
<1>5. UNCHANGED <<movie, turns, answered, uploads, snapshot>>
  BY DEF AwaitModel
<1>6. RequestsOK'
  <2>1. turns \in Nat /\ turns' \in Nat /\ turns <= turns' /\ RequestOK(q, turns')
    BY <1>4, <1>5 DEF DraftInv, CountersOK
  <2>2. request' = [request EXCEPT ![r] = q]
    BY <1>2 DEF q
  <2> QED
    BY <2>1, <2>2, OneRequest DEF DraftInv
<1> QED
  BY <1>5, <1>6 DEF DraftInv, CountersOK, MovieOK, OfOneStory

-----------------------------------------------------------------------------
(* The write of a request: what Update does to the row, column by column *)

\* The row a chat or a finalize-story asks the unit of work to write.
LEMMA NewRowIs ==
  ASSUME DraftInv, Bounded, NEW r \in Requests, request[r] # None
  PROVE  /\ NewRow(r) \in Rows /\ OfOneStory(NewRow(r))
         /\ NewRow(r).files = request[r].loaded.files
         /\ request[r].kind = "chat" =>
              /\ NewRow(r).chat_history # request[r].loaded.chat_history
              /\ Len(NewRow(r).chat_history) <= turns
              /\ ToSet(request[r].loaded.chat_history) \subseteq ToSet(NewRow(r).chat_history)
         /\ request[r].kind = "finalize" =>
              NewRow(r).chat_history = request[r].loaded.chat_history
<1> DEFINE q == request[r]
           row == q.loaded
<1>0. RequestOK(q, turns) /\ turns \in Nat /\ turns <= MaxTurns
  BY DEF DraftInv, RequestsOK, CountersOK, Bounded
<1>1. row \in Rows /\ OfOneStory(row) /\ row.chat_history \in TurnSeqs /\ q \in Underway
  BY <1>0 DEF RequestOK, Underway, Rows
<1>2. CASE q.kind = "chat"
  <2> DEFINE h == Append(row.chat_history, q.turn)
  <2>1. q.turn \in 1 .. MaxTurns /\ q.turn <= turns /\ Len(row.chat_history) < q.turn
    BY <1>0, <1>2 DEF RequestOK, Bounded
  <2>2. Len(row.chat_history) \in Nat
    BY <1>1, TurnSeqIsSeq DEF Bounded
  <2>3. Len(row.chat_history) < MaxTurns /\ Len(row.chat_history) + 1 <= turns
    BY <1>0, <2>1, <2>2 DEF Bounded
  <2>4. /\ h \in TurnSeqs /\ h # row.chat_history /\ Len(h) = Len(row.chat_history) + 1
        /\ ToSet(row.chat_history) \subseteq ToSet(h)
    BY <1>1, <2>1, <2>3, AppendTurn DEF Bounded
  <2>5. NewRow(r) = [row EXCEPT !.chat_history = h, !.current_draft = h,
                                !.story_brief = Null, !.generation_prompt = Null]
    BY <1>1, <1>2 DEF NewRow, AfterChat, OfOneStory, Rows
  <2> HIDE DEF h
  <2>6. /\ NewRow(r) \in Rows /\ NewRow(r).chat_history = h /\ NewRow(r).current_draft = h
        /\ NewRow(r).story_brief = NewRow(r).generation_prompt /\ NewRow(r).files = row.files
    BY <1>1, <2>4, <2>5 DEF Rows, Stories
  <2> QED
    BY <1>2, <2>3, <2>4, <2>6 DEF OfOneStory
<1>3. CASE q.kind = "finalize"
  <2>1. NewRow(r) = [row EXCEPT !.story_brief = row.chat_history,
                                !.generation_prompt = row.chat_history]
    BY <1>3 DEF NewRow, AfterFinalize
  <2>2. /\ NewRow(r) \in Rows /\ NewRow(r).chat_history = row.chat_history
        /\ NewRow(r).current_draft = row.current_draft
        /\ NewRow(r).story_brief = NewRow(r).generation_prompt /\ NewRow(r).files = row.files
    BY <1>1, <2>1 DEF Rows, Stories
  <2> QED
    BY <1>1, <1>3, <2>2 DEF OfOneStory
<1> QED
  BY <1>1, <1>2, <1>3 DEF Underway

\* The row after the write: of one story again, the files as they are now, and the history
\* the request's own, or the one that was there.
LEMMA Written ==
  ASSUME DraftInv, Bounded, NEW r \in Requests, Update(r), Found
  PROVE  /\ movie' \in Rows /\ OfOneStory(movie') /\ movie'.files = movie.files
         /\ request[r].kind = "chat" => movie'.chat_history = NewRow(r).chat_history
         /\ request[r].kind = "finalize" => movie'.chat_history = movie.chat_history
<1> DEFINE old == request[r].loaded
           new == NewRow(r)
<1>1. request[r] # None /\ movie' = Flush(movie, old, new)
  BY DEF Update
<1>2. movie \in Rows /\ OfOneStory(movie)
  BY DeletedIsNone DEF Found, DraftInv, MovieOK
<1>3. old \in Rows /\ OfOneStory(old) /\ request[r].kind \in {"chat", "finalize"}
  BY <1>1 DEF DraftInv, RequestsOK, RequestOK, Underway
<1>4. /\ new \in Rows /\ OfOneStory(new) /\ new.files = old.files
      /\ request[r].kind = "chat" => new.chat_history # old.chat_history
      /\ request[r].kind = "finalize" => new.chat_history = old.chat_history
  BY <1>1, NewRowIs
<1> HIDE DEF old, new
<1>5. /\ movie' \in Rows
      /\ \A c \in Columns : movie'[c] = IF new[c] = old[c] THEN movie[c] ELSE new[c]
  BY <1>1, <1>2, <1>3, <1>4, FlushColumns
<1>6. /\ movie'.chat_history =
           IF new.chat_history = old.chat_history THEN movie.chat_history ELSE new.chat_history
      /\ movie'.current_draft =
           IF new.current_draft = old.current_draft THEN movie.current_draft ELSE new.current_draft
      /\ movie'.story_brief =
           IF new.story_brief = old.story_brief THEN movie.story_brief ELSE new.story_brief
      /\ movie'.generation_prompt =
           IF new.generation_prompt = old.generation_prompt THEN movie.generation_prompt
           ELSE new.generation_prompt
      /\ movie'.files = IF new.files = old.files THEN movie.files ELSE new.files
  BY <1>5 DEF Columns
<1>7. OfOneStory(movie')
  BY <1>2, <1>3, <1>4, <1>6 DEF OfOneStory
<1> QED
  BY <1>4, <1>5, <1>6, <1>7 DEF new

LEMMA UpdateKeeps ==
  ASSUME DraftInv, Bounded, NEW r \in Requests, Update(r) PROVE DraftInv'
<1>0. /\ request[r] # None /\ request' = [request EXCEPT ![r] = None]
      /\ UNCHANGED <<turns, uploads, snapshot>>
      /\ turns \in Nat /\ turns <= turns
  BY DEF Update, DraftInv, CountersOK
<1>1. RequestsOK'
  BY <1>0, OneRequest DEF DraftInv
<1>2. RequestOK(request[r], turns)
  BY <1>0 DEF DraftInv, RequestsOK
<1>3. CountersOK'
  BY <1>0, <1>2 DEF Update, DraftInv, CountersOK, RequestOK
<1>4. MovieOK'
  <2>1. CASE Found
    <3>1. movie # Deleted
      BY <2>1, DeletedIsNone DEF Found
    <3>2. movie.files = uploads /\ Len(movie.chat_history) <= turns
      BY <3>1 DEF DraftInv, MovieOK
    <3>3. Len(movie'.chat_history) <= turns
      BY <1>0, <1>2, <2>1, <3>2, Written, NewRowIs DEF RequestOK, Underway
    <3> QED
      BY <1>0, <2>1, <3>2, <3>3, Written DEF MovieOK, OfOneStory
  <2>2. CASE ~Found
    <3>1. movie = Deleted
      BY <2>2, DeletedIsNone DEF Found, DraftInv, MovieOK
    <3> QED
      BY <2>2, <3>1 DEF Update, MovieOK
  <2> QED
    BY <2>1, <2>2
<1> QED
  BY <1>0, <1>1, <1>3, <1>4 DEF DraftInv

\* The handlers that await nothing.
LEMMA AtOnceKeeps ==
  ASSUME DraftInv, Bounded, UploadFile \/ UpdateMusic \/ GenerateMovie \/ DeleteMovie
  PROVE  DraftInv'
<1>0. Found /\ UNCHANGED <<request, turns, answered>>
  BY DEF UploadFile, UpdateMusic, GenerateMovie, DeleteMovie
<1>1. RequestsOK'
  BY <1>0 DEF DraftInv, RequestsOK
<1>2. /\ movie \in Rows /\ OfOneStory(movie) /\ movie.files = uploads
      /\ Len(movie.chat_history) <= turns /\ uploads \in 0 .. MaxUploads
  BY <1>0, DeletedIsNone DEF Found, DraftInv, MovieOK, CountersOK
<1>3. CASE UploadFile
  <2>1. uploads' = uploads + 1 /\ uploads' \in 0 .. MaxUploads /\ snapshot' = snapshot
    BY <1>2, <1>3 DEF UploadFile, Bounded
  <2>2. movie' = [movie EXCEPT !.files = uploads']
    BY <1>2, <1>3 DEF UploadFile
  <2>3. /\ movie' \in Rows /\ OfOneStory(movie') /\ movie'.files = uploads'
        /\ movie'.chat_history = movie.chat_history
    BY <1>2, <2>1, <2>2 DEF Rows, OfOneStory
  <2> QED
    BY <1>0, <1>1, <1>2, <2>1, <2>3 DEF DraftInv, CountersOK, MovieOK, OfOneStory
<1>4. CASE UpdateMusic
  <2>1. movie' = [movie EXCEPT !.music = TRUE] /\ UNCHANGED <<uploads, snapshot>>
    BY <1>4 DEF UpdateMusic
  <2>2. /\ movie' \in Rows /\ OfOneStory(movie') /\ movie'.files = movie.files
        /\ movie'.chat_history = movie.chat_history
    BY <1>2, <2>1 DEF Rows, OfOneStory
  <2> QED
    BY <1>0, <1>1, <1>2, <2>1, <2>2 DEF DraftInv, CountersOK, MovieOK, OfOneStory
<1>5. CASE GenerateMovie
  <2>1. snapshot'.provider_prompt = movie.generation_prompt
    BY <1>5 DEF GenerateMovie, build_video_generation_input
  <2>2. snapshot'.provider_prompt \in Stories
    BY <1>2, <2>1 DEF Rows
  <2> QED
    BY <1>0, <1>1, <1>5, <2>2 DEF GenerateMovie, DraftInv, CountersOK, MovieOK, OfOneStory
<1>6. CASE DeleteMovie
  BY <1>0, <1>1, <1>6 DEF DeleteMovie, DraftInv, CountersOK, MovieOK
<1> QED
  BY <1>3, <1>4, <1>5, <1>6

LEMMA DraftStep == ASSUME DraftInv, Bounded, [Next]_vars PROVE DraftInv'
<1>1. CASE UNCHANGED vars
  BY <1>1 DEF vars, DraftInv, CountersOK, MovieOK, OfOneStory, RequestsOK
<1>2. CASE Idle
  BY <1>1, <1>2 DEF Idle
<1> QED
  BY <1>1, <1>2, ChatPromptKeeps, FinalizeStoryKeeps, AwaitModelKeeps, UpdateKeeps, AtOnceKeeps
  DEF Next

LEMMA DraftInvariant == ASSUME Bounded PROVE Spec => []DraftInv
<1>1. Init => DraftInv
  BY InitDrafts
<1>2. DraftInv /\ [Next]_vars => DraftInv'
  BY DraftStep
<1> QED
  BY <1>1, <1>2, PTL DEF Spec

-----------------------------------------------------------------------------
(* The theorems *)

\* The movie, its requests and the counters keep their types; a stored history never
\* outgrows the turns that were begun.
THEOREM DraftTypes == ASSUME Bounded PROVE Spec => []TypeOK
<1>1. DraftInv => TypeOK
  <2> SUFFICES ASSUME DraftInv PROVE TypeOK
    OBVIOUS
  <2>1. movie = Deleted \/
          /\ {movie.chat_history, movie.current_draft, movie.story_brief,
              movie.generation_prompt} \subseteq TurnSeqs \cup {Null}
          /\ movie.files \in 0 .. MaxUploads
          /\ movie.music \in BOOLEAN
    BY DEF DraftInv, MovieOK, Rows, Stories
  <2>2. \A r \in Requests : request[r].kind \in {"none", "chat", "finalize"}
    BY DEF DraftInv, RequestsOK, RequestOK, Underway, None
  <2>3. turns \in 0 .. MaxTurns /\ answered \subseteq 1 .. MaxTurns /\ uploads \in 0 .. MaxUploads
    BY DEF DraftInv, CountersOK, Bounded
  <2> QED
    BY <2>1, <2>2, <2>3 DEF TypeOK, DraftInv, Stories
<1> QED
  BY <1>1, DraftInvariant, PTL

\* Only the write of a chat or a finalize-story, and a delete, replace the story of the row.
LEMMA OnlyUpdateWritesStories ==
  ASSUME DraftInv, Bounded, [Next]_vars, Found, movie'.exists,
         \/ movie'.generation_prompt # movie.generation_prompt
         \/ movie'.chat_history # movie.chat_history
  PROVE  \E r \in Requests : Update(r)
<1>0. movie \in Rows
  BY DeletedIsNone DEF Found, DraftInv, MovieOK
<1>1. CASE movie' = movie
  BY <1>1
<1>2. CASE UploadFile \/ UpdateMusic
  BY <1>0, <1>2 DEF UploadFile, UpdateMusic, Rows
<1>3. CASE DeleteMovie
  BY <1>3, DeletedIsNone DEF DeleteMovie
<1>4. CASE \E r \in Requests : ChatPrompt(r) \/ FinalizeStory(r) \/ AwaitModel(r)
  BY <1>1, <1>4 DEF ChatPrompt, FinalizeStory, AwaitModel
<1>5. CASE GenerateMovie \/ Idle \/ UNCHANGED vars
  BY <1>1, <1>5 DEF GenerateMovie, Idle, vars
<1> QED
  BY <1>2, <1>3, <1>4, <1>5 DEF Next

\* A write ends its request.
LEMMA UpdateEnds ==
  ASSUME DraftInv, NEW r \in Requests, Update(r)
  PROVE  request[r] # None /\ request'[r] = None /\ RequestOK(request[r], turns)
BY DEF Update, DraftInv, RequestsOK

\* A request that writes over the very story it loaded leaves prompt and history of one
\* story: a chat takes back the prompt there is, a finalize-story makes its prompt from the
\* history there is.
LEMMA InTimeAgrees ==
  ASSUME DraftInv, Bounded, NEW r \in Requests, Update(r), Found, StoryAgrees, ~Overtaken(r)
  PROVE  StoryAgrees'
<1> DEFINE old == request[r].loaded
           new == NewRow(r)
<1>1. request[r] # None /\ movie' = Flush(movie, old, new)
  BY DEF Update
<1>2. movie \in Rows
  BY DeletedIsNone DEF Found, DraftInv, MovieOK
<1>3. old \in Rows /\ request[r].kind \in {"chat", "finalize"} /\ new \in Rows
  BY <1>1, NewRowIs DEF DraftInv, RequestsOK, RequestOK, Underway
<1>4. /\ old.chat_history = movie.chat_history
      /\ old.generation_prompt = movie.generation_prompt
  BY DEF Overtaken
<1>5. /\ request[r].kind = "chat" => new.generation_prompt = Null
      /\ request[r].kind = "finalize" =>
           new.generation_prompt = old.chat_history /\ new.chat_history = old.chat_history
  BY <1>3 DEF NewRow, AfterChat, AfterFinalize, Rows
<1> HIDE DEF old, new
<1>6. \A c \in Columns : movie'[c] = IF new[c] = old[c] THEN movie[c] ELSE new[c]
  BY <1>1, <1>2, <1>3, FlushColumns
<1>7. movie'.generation_prompt = new.generation_prompt /\ movie'.chat_history = new.chat_history
  BY <1>4, <1>6 DEF Columns
<1> QED
  BY <1>3, <1>4, <1>5, <1>7 DEF StoryAgrees

\* The summary's draft is always the history's, its brief and prompt are of one history, and
\* it lists every upload; its prompt parts from its history only when a chat or
\* finalize-story writes over a story other than the one it loaded.
THEOREM SummaryIsConsistent == ASSUME Bounded PROVE Spec => SummaryConsistent
<1> DEFINE Parted ==
      Found /\ Found' /\ StoryAgrees /\ ~StoryAgrees' =>
        \E r \in Requests : request[r] # None /\ request'[r] = None /\ Overtaken(r)
<1>1. DraftInv => Paired
  BY DeletedIsNone
  DEF DraftInv, MovieOK, OfOneStory, Paired, Found, build_summary_response, get_chat_history
<1>2. DraftInv /\ [Next]_vars => Parted \/ UNCHANGED vars
  <2> SUFFICES ASSUME DraftInv, [Next]_vars, Found, Found', StoryAgrees, ~StoryAgrees'
               PROVE  \E r \in Requests :
                        request[r] # None /\ request'[r] = None /\ Overtaken(r)
    OBVIOUS
  <2>1. \/ movie'.generation_prompt # movie.generation_prompt
        \/ movie'.chat_history # movie.chat_history
    BY DEF StoryAgrees
  <2>2. PICK r \in Requests : Update(r)
    BY <2>1, OnlyUpdateWritesStories DEF Found
  <2> QED
    BY <2>2, UpdateEnds, InTimeAgrees
<1>3. Paired /\ Paired' /\ (Parted \/ UNCHANGED vars) => [Paired /\ Paired' /\ Parted]_vars
  OBVIOUS
<1> QED
  BY <1>1, <1>2, <1>3, DraftInvariant, PTL DEF Spec, SummaryConsistent

\* A finalized story is replaced by a chat turn, or by a finalize-story that had found the
\* story unfinished: the columns a request did not change are not written.
THEOREM FinalizedStays == ASSUME Bounded PROVE Spec => FinalizedUntilChat
<1> DEFINE Replaced ==
      Found /\ movie'.exists /\ movie.generation_prompt # Null
       /\ movie'.generation_prompt # movie.generation_prompt =>
       \E r \in Requests :
         /\ request[r] # None /\ request'[r] = None
         /\ \/ request[r].kind = "chat"
            \/ request[r].loaded.generation_prompt = Null
<1>1. DraftInv /\ [Next]_vars => [Replaced]_vars
  <2> SUFFICES ASSUME DraftInv, [Next]_vars, Found, movie'.exists,
                      movie'.generation_prompt # movie.generation_prompt
               PROVE  \E r \in Requests :
                        /\ request[r] # None /\ request'[r] = None
                        /\ \/ request[r].kind = "chat"
                           \/ request[r].loaded.generation_prompt = Null
    OBVIOUS
  <2>1. PICK r \in Requests : Update(r)
    BY OnlyUpdateWritesStories
  <2>2. request[r].kind = "chat" \/ request[r].loaded.generation_prompt = Null
    BY <2>1, UpdateEnds DEF RequestOK, Underway
  <2> QED
    BY <2>1, <2>2, UpdateEnds
<1> QED
  BY <1>1, DraftInvariant, PTL DEF Spec, FinalizedUntilChat

\* A turn leaves the history only with a write by a request that had loaded the row before
\* the turn was in it.
THEOREM SeenTurnsStay == ASSUME Bounded PROVE Spec => SeenTurnsKept
<1> DEFINE Kept ==
      Found /\ Found' =>
       \A t \in ToSet(movie.chat_history) \ ToSet(movie'.chat_history) :
         \E r \in Requests :
           /\ request[r] # None /\ request'[r] = None
           /\ t \notin ToSet(request[r].loaded.chat_history)
<1>1. DraftInv /\ [Next]_vars => [Kept]_vars
  <2> SUFFICES ASSUME DraftInv, [Next]_vars, Found, Found',
                      NEW t \in ToSet(movie.chat_history) \ ToSet(movie'.chat_history)
               PROVE  \E r \in Requests :
                        /\ request[r] # None /\ request'[r] = None
                        /\ t \notin ToSet(request[r].loaded.chat_history)
    OBVIOUS
  <2>1. movie'.chat_history # movie.chat_history
    OBVIOUS
  <2>2. PICK r \in Requests : Update(r)
    BY <2>1, OnlyUpdateWritesStories DEF Found
  <2>3. request[r].kind = "chat"
    BY <2>1, <2>2, UpdateEnds, Written DEF RequestOK, Underway
  <2>4. ToSet(request[r].loaded.chat_history) \subseteq ToSet(movie'.chat_history)
    BY <2>2, <2>3, UpdateEnds, Written, NewRowIs
  <2> QED
    BY <2>2, <2>4, UpdateEnds
<1> QED
  BY <1>1, DraftInvariant, PTL DEF Spec, SeenTurnsKept
=============================================================================
