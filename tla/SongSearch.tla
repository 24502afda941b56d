----------------------------- MODULE SongSearch -----------------------------
(***************************************************************************)
(* A search request of a phone, next to what fills the index and the table *)
(* (SearchIndex): Bleve gives numbers of songs, the table the songs, and   *)
(* where either fails a LIKE query of the table is the answer.  The        *)
(* request is served by several steps, between which the table and the     *)
(* index change.                                                           *)
(*                                                                         *)
(* A query is the set of the documents it matches (see SongQuery for which *)
(* those are); the order of the hits is arbitrary.                         *)
(***************************************************************************)
EXTENDS SearchIndex, SequencesExt, Subsequences

CONSTANTS
    Queries,
    Limit             \* hits per answer, after clamping

ASSUME SongSearchAssumption ==
    /\ \A q \in Queries : q \subseteq Doc
    /\ Limit \in Nat \ {0}

VARIABLE ask          \* the request

Ask ==
    [pc     : {"idle", "bleve", "lookup", "sql", "answered"},
     query  : Queries \cup {{}},
     hits   : Seq(Songs),
     of     : {"none", "index", "table"},       \* where the answer is from
     answer : Seq(Songs),
     due    : SUBSET Songs]           \* history: rows it matched on arrival, if
                                      \* the rebuild had failed by then

NoAsk == [pc |-> "idle", query |-> {}, hits |-> <<>>, of |-> "none",
          answer |-> <<>>, due |-> {}]

Matches(q, version) ==
    {s \in Songs : [song |-> s, version |-> version[s]] \in q}

\* The first Limit of the songs, in any order.
Rankings(found) ==
    {r \in [1 .. Min({Limit, Cardinality(found)}) -> found] : IsInjective(r)}

Answered(songs, of) ==
    [ask EXCEPT !.pc = "answered", !.answer = songs, !.of = of]

-----------------------------------------------------------------------------
StartSearch(q) ==
    /\ phase = "up"
    /\ ask.pc = "idle"
    /\ ask' = [NoAsk EXCEPT !.pc = IF engine THEN "bleve" ELSE "sql",
                            !.query = q,
                            !.due = IF rebuild.pc = "failed" THEN Matches(q, stored) ELSE {}]
    /\ UNCHANGED vars

BleveSearch ==
    /\ ask.pc = "bleve"
    /\ \E hits \in Rankings(Matches(ask.query, index)) :
         ask' = IF hits = <<>> THEN Answered(<<>>, "index")
                ELSE [ask EXCEPT !.pc = "lookup", !.hits = hits]
    /\ UNCHANGED vars

BleveFails ==
    /\ "bleve" \in Faults
    /\ ask.pc = "bleve"
    /\ ask' = [ask EXCEPT !.pc = "sql"]
    /\ UNCHANGED vars

\* Faulty variant: the rows as the database returns them.
FindByTjNumbersUnordered(hits) ==
    SetToSortSeq(ToSet(hits) \cap InTable, LAMBDA s, t : place[s] < place[t])

\* In the order of the hits; a hit that is no row is left out.
FindByTjNumbers(hits) == Subsequence(hits, {i \in DOMAIN hits : hits[i] \in InTable})

Lookup ==
    /\ ask.pc = "lookup"
    /\ ask' = Answered(FindByTjNumbers(ask.hits), "index")
    /\ UNCHANGED vars

LookupFails ==
    /\ "store" \in Faults
    /\ ask.pc = "lookup"
    /\ ask' = [ask EXCEPT !.pc = "sql", !.hits = <<>>]
    /\ UNCHANGED vars

SqlSearch ==
    /\ ask.pc = "sql"
    /\ \E rows \in Rankings(Matches(ask.query, stored)) : ask' = Answered(rows, "table")
    /\ UNCHANGED vars

\* 500, or the answer is sent.
SqlFails ==
    /\ "store" \in Faults
    /\ ask.pc = "sql"
    /\ ask' = NoAsk
    /\ UNCHANGED vars

Reply ==
    /\ ask.pc = "answered"
    /\ ask' = NoAsk
    /\ UNCHANGED vars

-----------------------------------------------------------------------------
SearchInit == Init /\ ask = NoAsk

AskNext ==
    \/ \E q \in Queries : StartSearch(q)
    \/ BleveSearch
    \/ BleveFails
    \/ Lookup
    \/ LookupFails
    \/ SqlSearch
    \/ SqlFails
    \/ Reply

\* app.Shutdown waits for the requests in flight, a crash cuts them off.
ServerStep ==
    /\ ServerNext
    /\ phase = "up" /\ phase' = "draining" => ask.pc = "idle"
    /\ ask' = IF phase' = "down" THEN NoAsk ELSE ask

SearchNext ==
    \/ ServerStep
    \/ CliFetch /\ UNCHANGED ask
    \/ CliStore /\ UNCHANGED ask
    \/ CliStoreFails /\ UNCHANGED ask
    \/ AskNext

SearchSpec == SearchInit /\ [][SearchNext]_<<vars, ask>>

-----------------------------------------------------------------------------
(* Every hit of the index is answered, in the order of the scores, although *)
(* the rows are looked up later and in another store: what searchWithBleve  *)
(* and FindByTjNumbers make of the hits leaves none of them out.            *)
HitsAreAnswered ==
    ask.pc = "answered" /\ ask.of = "index" => ask.answer = ask.hits

(* The invariant TLAPS proves for it: a song that is a hit stays a row, so  *)
(* that whatever is stored and indexed before the rows are looked up, none  *)
(* of the hits is missing.                                                  *)
AskInv ==
    /\ ask \in Ask
    /\ ask.pc = "bleve" => ask.hits = <<>>
    /\ ask.pc = "lookup" => ToSet(ask.hits) \subseteq InTable
    /\ HitsAreAnswered

(* What the repository says of itself, and the code does not do.           *)

(* docs/bleve-search-comparison-report.md:171: if Bleve fails, search goes *)
(* over to SQL, so that the service degrades gracefully.  Once a rebuild   *)
(* has failed, an answer with room for all matching rows has them.         *)
GracefulDegradation ==
    ask.pc = "answered" /\ Cardinality(ask.due) <= Limit =>
      ask.due \subseteq ToSet(ask.answer)
=============================================================================
