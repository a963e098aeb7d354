--------------------------- MODULE Recommendations ---------------------------
(***************************************************************************)
(* The similar movies of one movie: GET /movies/{id}/similar and the       *)
(* detail GET /movies/{id} over movie_recommendation_service.py and        *)
(* movie_recommendation_repository.py.  Either request reads the stored    *)
(* rows and, when there are none, plans, searches, ranks and stores.       *)
(*                                                                         *)
(* The calls to OpenAI and TMDB block the process, so requests interleave  *)
(* only across API processes, and, in MySQL, between the statements of     *)
(* their transactions.  A candidate is [id, score, named]; a stored row is *)
(* [id, rank, by], by the request that stored it.                          *)
(***************************************************************************)
EXTENDS Naturals, Sequences, FiniteSets

CONSTANTS
  Procs,        \* API processes
  Candidates,   \* what TMDB can answer: records [id, score, named]
  Queries,      \* bound: searches of a plan (12 in the code)
  limit,        \* how many are kept, 4 in the code
  MaxRequests   \* bound: requests made

VARIABLES
  movie,    \* the movie's row exists
  rows,     \* its committed movie_recommendations
  proc,     \* process -> step, request, candidates and searches done, rows it deleted
  answers,  \* [by, status, rows] of the requests answered
  made      \* requests made

vars == <<movie, rows, proc, answers, made>>

Free == [step |-> "free", by |-> 0, candidates |-> <<>>, searched |-> 0, gone |-> {}]

Init ==
  /\ movie = TRUE /\ rows = {}
  /\ proc = [p \in Procs |-> Free]
  /\ answers = {} /\ made = 0

At(p, step) == proc[p].step = step
Goto(p, step) == proc' = [proc EXCEPT ![p].step = step]
Finish(p, by, status, shown) ==
  /\ proc' = [proc EXCEPT ![p] = Free]
  /\ answers' = answers \cup {[by |-> by, status |-> status, rows |-> shown]}

-----------------------------------------------------------------------------
(* Ranking *)

\* collect_tmdb_candidates skips an id it has seen: what a search adds to the list.
Unseen(list, found) ==
  \A i \in DOMAIN found :
    /\ \A k \in DOMAIN list : list[k].id # found[i].id
    /\ \A k \in 1 .. i - 1 : found[k].id # found[i].id

\* rank_tmdb_candidates: a stable sort by score, the highest first, without the zeros; a
\* candidate's place is one more than the number of candidates that go before it.
Positive(list) == {i \in DOMAIN list : list[i].score > 0}
Before(list, i) ==
  {k \in Positive(list) :
     \/ list[k].score > list[i].score
     \/ list[k].score = list[i].score /\ k < i}
Ranked(list, r) == list[CHOOSE i \in Positive(list) : Cardinality(Before(list, i)) = r - 1]

Kept(list) ==
  LET n == Cardinality(Positive(list))
  IN  [r \in 1 .. (IF n < limit THEN n ELSE limit) |-> Ranked(list, r)]

\* movie_recommendation_model_from_recommended_movie
Rows(list, by) == {[id |-> list[r].id, rank |-> r, by |-> by] : r \in DOMAIN list}

-----------------------------------------------------------------------------
(* Steps of a request *)

\* get_or_create_for_movie reads the stored rows first; without a planner or TMDB, or when
\* the plan cannot be made, the answer is empty and nothing is stored.
MustPlan == rows = {}
Ask(p) ==
  /\ At(p, "free") /\ movie /\ made < MaxRequests
  /\ made' = made + 1
  /\ \/ MustPlan /\ proc' = [proc EXCEPT ![p] = [Free EXCEPT !.step = "search", !.by = made + 1]]
        /\ UNCHANGED answers
     \/ ~MustPlan /\ Finish(p, made + 1, 200, rows)
     \/ MustPlan /\ Finish(p, made + 1, 200, {})
  /\ UNCHANGED <<movie, rows>>

\* One search, of whose results the unseen ones are collected; one that fails adds nothing.
Search(p) ==
  /\ At(p, "search") /\ proc[p].searched < Queries
  /\ \E found \in UNION {[1 .. n -> Candidates] : n \in 0 .. 2} :
       /\ Unseen(proc[p].candidates, found)
       /\ proc' = [proc EXCEPT ![p].searched = @ + 1, ![p].candidates = @ \o found]
  /\ UNCHANGED <<movie, rows, answers, made>>

\* build_recommended_movie raises for a candidate that is kept without a title: nobody
\* catches it, and the request is answered 500.
Unnamed(list) == \E i \in DOMAIN list : ~list[i].named
Rank(p) ==
  /\ At(p, "search") /\ proc[p].searched = Queries
  /\ LET kept == Kept(proc[p].candidates) IN
       CASE kept = <<>>    -> Finish(p, proc[p].by, 200, {})
         [] kept # <<>> /\ Unnamed(kept) -> Finish(p, proc[p].by, 500, {})
         [] kept # <<>> /\ ~Unnamed(kept) ->
              proc' = [proc EXCEPT ![p].step = "delete", ![p].candidates = kept]
              /\ UNCHANGED answers
  /\ UNCHANGED <<movie, rows, made>>

\* Between its DELETE and its commit a transaction holds the locks of the DELETE: the gap,
\* when there was no row, or else the rows.
RecordLocksOnly(p) == {o \in Procs \ {p} : At(o, "insert") /\ proc[o].gone # {}}
Holders(p) == {o \in Procs \ {p} : At(o, "insert")}

\* replace_for_movie, its DELETE: of no rows it locks the gap, which several may do; of rows
\* it waits for whoever holds them.  Others see the rows until the commit.
Delete(p) ==
  /\ At(p, "delete") /\ (rows = {} \/ Holders(p) = {})
  /\ proc' = [proc EXCEPT ![p].step = "insert", ![p].gone = rows]
  /\ UNCHANGED <<movie, rows, answers, made>>

\* The inserts wait for every other holder; the commit takes away the rows this transaction
\* deleted, and no others, adds its own and releases its locks, and the list is read again.
NewRows(p) == Rows(proc[p].candidates, proc[p].by)
Insert(p) ==
  /\ At(p, "insert") /\ movie /\ Holders(p) = {}
  /\ rows' = (rows \ proc[p].gone) \cup NewRows(p)
  /\ proc' = [proc EXCEPT ![p].step = "reread", ![p].gone = {}]
  /\ UNCHANGED <<movie, answers, made>>

Reread(p) ==
  /\ At(p, "reread")
  /\ Finish(p, proc[p].by, 200, rows)
  /\ UNCHANGED <<movie, rows, made>>

\* InnoDB kills one of two that wait for each other's gap; a movie deleted meanwhile fails
\* the foreign key.  Neither is caught.
Abort(p) ==
  /\ At(p, "insert") /\ (~movie \/ Holders(p) # {})
  /\ Finish(p, proc[p].by, 500, {})
  /\ UNCHANGED <<movie, rows, made>>

\* delete_movie takes its recommendations along (ON DELETE CASCADE).
DeleteMovie ==
  /\ movie /\ (rows = {} \/ \A p \in Procs : ~At(p, "insert"))
  /\ movie' = FALSE /\ rows' = {}
  /\ UNCHANGED <<proc, answers, made>>

Step(p) == Search(p) \/ Rank(p) \/ Delete(p) \/ Insert(p) \/ Reread(p) \/ Abort(p)
Idle == (\A p \in Procs : At(p, "free")) /\ UNCHANGED vars

Next == (\E p \in Procs : Ask(p) \/ Step(p)) \/ DeleteMovie \/ Idle

Spec == Init /\ [][Next]_vars

\* Every process goes on; its calls have timeouts (8 s each).
LiveSpec == Spec /\ \A p \in Procs : WF_vars(Step(p))

-----------------------------------------------------------------------------
(* Properties *)

Placed(list) == \A row \in list : row.rank \in 1 .. limit
TypeOK ==
  /\ \A p \in Procs : proc[p].step \in {"free", "search", "delete", "insert", "reread"}
                      /\ proc[p].by \in 0 .. MaxRequests
  /\ Placed(rows)
  /\ \A a \in answers : a.status \in {200, 500} /\ Placed(a.rows)

\* However many requests replace the stored rows at once, what is stored is always the
\* complete result of one of them, the best candidates first: no mixture, no duplicate,
\* ranks 1 to n, no row before one that scored higher.  Two that delete at once both find no
\* rows to delete: only the locks keep the second's rows from joining the first's.  (A row
\* has its candidate's score by its id in the model's Candidates.)
Scores(id) == {c.score : c \in {d \in Candidates : d.id = id}}
OneWholeResult ==
  /\ \A x, y \in rows : x.by = y.by
  /\ \A x, y \in rows : x.id = y.id \/ x.rank = y.rank => x = y
  /\ \A x \in rows : \A r \in 1 .. x.rank : \E y \in rows : y.rank = r
  /\ \A x, y \in rows : x.rank < y.rank =>
       \E s \in Scores(x.id), t \in Scores(y.id) : s >= t

\* Requests that wait for each other's locks are always resolved: each is answered.
RequestAnswered(p) == ~At(p, "free") ~> At(p, "free")
=============================================================================
