# Musicon backend: formal models

TLA+ models of the backend of Musicon (Go, Fiber, SQLite, Bleve), their TLC
configurations, and proofs checked by TLAPS. Musicon keeps a copy of TJ's karaoke
song list; it lets phones reserve songs that are not out yet and pushes a
notification when one appears; it searches the songs; and it matches the tracks
of a phone's Spotify and YouTube accounts with them.

Paths below are those of the repository. Line numbers of every definition are
in `PROJECT.json` (`map`).

## 1. Inventory

| component | state | operations | called by, calls |
|---|---|---|---|
| devices (`handler/device_handler.go`, `service/device_service.go`, `repository/device_repository.go`) | table `devices` (token, platform) | register (upsert by token) | phones |
| reservations (`reservation_handler.go`, `reservation_service.go`, `reservation_repository.go`) | tables `reservations`, `reservation_notifications` | create, list, update, delete; for matching: `FindActiveWithTokens`, `MarkAsMatched`, `MarkAsNotified`, `HasNotified`, `RecordNotification` | phones, matching |
| matching (`matching_service.go`) | memory of one run | `MatchNewSongs` | scheduler, `cmd/fetch`; calls Expo |
| scheduler (`song_scheduler.go`) | one goroutine, ticker, stop channel | run: fetch, store, index, match | started by `main` |
| `cmd/fetch` | one process, same database file | fetch and store months, match | an operator |
| TJ fetcher (`tj_fetcher.go`) | none | `FetchByMonth`, initial consonants | scheduler, `cmd/fetch` |
| Expo push (`expo_push.go`) | none | `SendBatch` in chunks of 100 | matching |
| songs (`song_repository.go`) | table `songs` | `UpsertMany`, `FindAll`, `Search`, `FindByTjNumbers` | scheduler, `cmd/fetch`, search, index |
| search index (`search/indexer.go`, `index.go`) | Bleve index on disk, flag `rebuilding` | open or create, rebuild, incremental index, close | `main`, scheduler |
| song search (`song_service.go`, `bleve_searcher.go`, `chosung.go`) | none | search in Bleve and look-up of its hits, SQL fallback | phones; reads index and songs |
| music accounts (`music_auth_service.go`, `music_account_repository.go`) | table `music_accounts` | connect, disconnect, list, refresh tokens | phones, sync; calls providers |
| music sync (`music_sync_service.go`, `music_track_repository.go`, `track_match_repository.go`) | tables `music_tracks`, `track_matches` | sync all accounts of a device | phones; calls providers, matcher |
| music query (`music_query_service.go`) | none | list of a device's matches | phones |
| providers (`provider/*.go`) | none (tokens and lists are at Spotify and Google) | exchange, refresh, fetch tracks page by page | accounts, sync |
| matcher (`matcher/*.go`) | none | normalise, Jaro-Winkler, Levenshtein, best match | sync |
| `main`, config, migrations, health, swagger, deployment | process | start, graceful shutdown | |

The components share one SQLite database, through a connection pool in which
only one connection has `PRAGMA foreign_keys=ON`, and one Bleve index. Actors
that run concurrently: a goroutine per request, the scheduler goroutine, the
rebuild goroutine, and any number of `cmd/fetch` processes. There is no
transaction across two statements but in the two `UpsertMany`, and no lock; only
the flag `rebuilding` keeps two goroutines apart.

What makes it hard: everything is check-then-act; runs work on snapshots while
requests change the rows; pushing and recording are two steps of which either
may fail or be cut off; several errors are logged and passed over; shutdown does
not wait for the scheduler; refresh tokens may be good for one use only.
`PROJECT.json` lists these hazards with the line where each bites, and the
properties that would catch it.

What makes each part correct:

* reservations and matching: no reservation is closed without a push; nothing
  is lost, though it may be sent twice; only its owner changes a reservation.
* search index: what is found exists; a song does not go back to an older
  title; a rebuild misses no row it started with; a listed song is found in the end.
* song search: every hit of the index is answered, in the order of the index; a
  song is found by its title and by its initials, Korean or not.
* music accounts and sync: no tokens or tracks go from one device to another;
  a match belongs to its track; an account can go on refreshing.
* providers: a fetch is all or nothing, ends, and overlooks no liked track while
  the user goes on liking.
* matcher: a similarity is symmetric and 1 for equal strings only; a track whose
  song is in the table, and among the candidates, is matched with it or with one
  of the same normalised title and artist (which songs are candidates: section 5).

## 2. Modules

```
ReservationStore    tables of the reservations, one operator per statement
  ReservationApi    + requests of phones
  SongMatching      + scheduler and cmd/fetch pipelines
    Musicon         = ReservationApi and SongMatching on one database, properties
      ReservationLedger   what the service promises (abstract), INSTANCEd WITH
      MCMusicon     instances for TLC
      MusiconProofs

SearchIndex         songs table, Bleve index, rebuild, scheduler, server life
  SongSearch        + a search request, properties
    MCSongSearch    instances for TLC
  MCSearchIndex     instances for TLC
    SearchProofs    of both

MusicStore          tables of the music accounts
  MusicSync         concurrent connect, disconnect and sync requests, properties
    MusicLibrary    what the service promises (abstract), INSTANCEd WITH
    MCMusicSync     instances for TLC
    MusicProofs <- RefreshProofs

TrackFetch          FetchUserTracks of both providers, request by request
  TrackListing      what a call promises (abstract), INSTANCEd WITH
  MCTrackFetch      instances for TLC
  TrackProofs

Subsequences        part of a sequence: of answers, lists and texts
  SubsequenceProofs

Text                strings as code points, library functions
  SongQuery         what a query finds: sub-queries, fields, LIKE
  TrackMatching     which song a track is matched with: normalise, score, best
    MCText          two strings typed by their users, properties of both
      QueryProofs   of what is found
      MatcherProofs of what is matched
```

How the state and the actions correspond to the code:

* A table is a function from ids to rows, or a set where a UNIQUE column
  identifies the row. One SQL statement, or one transaction, is one step; so is
  one call of TJ, Expo or a provider. All that the code does between two of
  them is local, and part of the step before or after.
* What a goroutine holds in memory is a record with a program counter:
  `run[p]` for a pipeline, `req[h]` for a request, `rebuild` and `sched` for the
  two users of the index. A crash forgets it.
* A read followed by a write that relies on it are two steps, and whatever else
  may run comes between. `Check` and `ApplyUpdate`/`ApplyDelete` are the check
  of the owner and the statement of `ReservationService.Update` and `Delete`;
  a refused request is no step at all.
* An error is a step of its own (`...Fails`), enabled if `Faults` names its
  cause; where the code logs and goes on, the step goes on. `SQLITE_BUSY`
  makes `"store"` an everyday fault.
* The ids of fetched songs are `ZeroId` (`SongId`): `FetchByMonth` does not set
  `domain.Song.ID` and `UpsertMany` does not read it back.
* `Enforces` is the choice of the connection: whether foreign keys hold for a
  statement. For the server it is free, for `cmd/fetch`, whose pool never opens
  a second connection, it is TRUE.
* Pure functions are operators. In `SongQuery` and `TrackMatching` a string is a
  sequence of code points, of which `Text` knows the classes that the code tells
  apart (Hangul syllables and consonants, ASCII letters and digits, the space).
  A similarity is an integer number of parts of `Whole`, chosen so that every
  division for strings of up to 6 characters is exact.
* `SongSearch` takes from these that a query matches some documents and no
  others, `MusicSync` that the matcher finds some song or none, and `TrackFetch`
  stands for the one step of `MusicSync` that fetches.
* Rows without a hit, duplicates and an unliked track are left out of a list,
  and first letters and matched characters picked out of a string, by
  `Subsequence`, which says at which positions the elements stay. It is neither
  recursive nor a fold, so that its results can be reasoned about. For the same
  reason the greedy pairing of characters (`Matched`) is a recursive function.
* Elsewhere strings are model values; `ArtistIn` and `TitleIn` say which terms a song's
  artist and title contain (any relation is allowed), `SongOf` which song the
  matcher finds for a track, versions stand for corrected titles.
* History, which no code reads: `pushed` (what Expo has accepted), the grant of
  a track, the track a match was computed from, `rebuild.base`, `ask.due`, and
  the fields `base`, `had` and `cut` of a fetch.

Definitions called "Faulty variant" are the code with a plausible mistake. They
are in no next-state relation; each is used to make sure that a property fails
if the mistake is made.

The scheduler's run appears twice, in `SongMatching` without `IndexSongs` and in
`SearchIndex` without matching. They touch disjoint state but for the songs
table, and a failure of `IndexSongs` is only logged, so a run behaves the same
in both; composing them would multiply the states and relate nothing new.

## 3. Runs

All runs use symmetry only for interchangeable values and never with liveness.
Passing runs:

| run | instance | checks |
|---|---|---|
| `service` | 2 devices, 2 requests, 2 reservations, 1 song, chunks of 1, all faults and crashes | `TypeOK`, `SettledWasPushed`, `NothingSettledIsSent`, `OwnerOnly` |
| `two_processes` | scheduler and `cmd/fetch`, 2 months of 1 song each, 1 reservation, chunks of 1, faults | `IndInv` (of the proofs), `PushedSongIsStored`, `KeepsLedger` (implements `ReservationLedger`) |
| `liveness` | scheduler, 1 reservation, 2 songs of which one contains the title, chunks of 1, faults | `EventuallyPushed` |
| `search` | 3 songs, pages of 2, batches of 1, `cmd/fetch`, a request with answers of up to 2, all faults | `IndexedIsStored`, `RebuildCovers`, `HitsAreAnswered`, and of the proofs `SearchInv`, `CoverInv`, `AskInv` |
| `corrections` | 2 songs of 2 versions, pages and batches of 1, failing statements and batches | `VersionInv` (of the proofs), `NeverStaler`, `ListedIsSearchable` |
| `accounts` | 2 devices, 2 requests, 1 provider, 1 track whose song may be stored, 2 ids, all faults | `MusicTypeOK`, `TokensStayWithDevice`, `MatchOfItsTrack`, `KeepsLibrary` (implements `MusicLibrary`), and of the proofs `MusicInv`, `LibraryInv` |
| `refresh` | 1 device, 2 requests, 2 providers that renew, failing providers | `NotLockedOut`, `RefreshInv` (of the proofs) |
| `tracks` | lists of up to 4 tracks, pages of 1 or 2, at most 3 tracks, 2 pages of YouTube, 2 changes, failing requests | `FetchTypeOK`, `NoTrackTwice`, `NothingOverlooked`, `FetchInv` (of the proofs), `ListsTracks` (implements `TrackListing`), `FetchEnds` |
| `text` | a title and a query of up to 3 characters out of 8 (two syllables, a consonant, letters in both cases, a digit, a space, a mark); titles of up to 4 out of 4 (two letters, brackets), one noise word, keywords of 2 | `FoundByTitle`, `FoundByChosung`, `FoundByInitials`, `ChosungIsSharper`, `JaroSymmetric`, `OneIfEqual`, `SameSongWins` |

Why the bounds are enough for the interesting cases: two reservations of one
song, or one of two songs, give a batch of two chunks, of which the second can
fail, and an artist-only and a titled reservation in one batch; two requests
and the scheduler give every race of two, and no step of the code looks at more
than one other actor; two devices and two reservations let an id be wanted by
the wrong one; two months let one fail and the next go on; three songs with
pages of two give a full page, a partial one, and rows added while paging; two
versions let a page be read, corrected, and written; two ids let a track or an
account be removed and its id wanted again, by its device or the other one, and
a track be fetched again under another id, while an earlier sync still holds the
old one (a sync starts only if there are ids left for the tracks it may insert); a sync of several tracks is in the proofs
only, as its interleavings are too many for two requests. Four tracks on
pages of two, of which three are wanted, make a call need a second page, cut it
off, share its limit with top tracks, and lets two changes shift a page by its
whole length. Strings of three and four characters hold a bracket or a noise word with
something before or after it, two words, transposed and repeated characters at
window distances 0 and 1, and a keyword shorter than its title; `Whole` is exact for
up to six characters.
`MaxReservations`, `MaxMonth`, `MaxVersion`, `MaxGrants`, `MaxRefreshes`,
`MaxRows`, `MaxChanges`, `MaxTitle` and `MaxLength` are the bounds on counters
and lengths; the proofs have none of these limits, only that they are some
number. (`PageSize`, `BatchSize`, `Limit`, `MaxTracks`, `MaxPages`,
`KeywordLength` and `MaxCandidates` are limits of the code, made small.)

Deadlock is checked in every run: a request or a run can always start again, or
the server start.

### What the repository says and the code does not do

Each of these runs checks a sentence of the repository, and TLC finds a
behaviour of the code against it. Only `artist_only` needs fairness, and only
`partial_index` a fault, which is what its sentence is about.

| run | claim | what happens |
|---|---|---|
| `artist_only` | `matching_service.go:30`: artist-only reservations match all songs and stay active | after one push every song has been "notified", since all song ids are 0 |
| `disconnect` | `music_auth_service.go:73`: removes the account and its tracks | a sync in flight stores the tracks again |
| `partial_index` | `docs/bleve-search-comparison-report.md:171`: when Bleve fails, search goes over to SQL and degrades gracefully | after a failed rebuild the searcher answers from a partial index, without an error, and SQL is never asked |

Also noticed while reading, mostly visible in the models, though no run is spent
on them:

* Marking a titled reservation as matched stores song id 0, which a foreign key
  refuses: the error is logged, and the row stays active and notified, against
  "transition to matched" of `matching_service.go:31`.
* A notified reservation edited to an empty title is artist-only and never
  matched again, against `reservation_repository.go:141`.
* A run pushes every song of the list that contains a titled reservation's
  title, against "match once" of `matching_service.go:31`.
* A delete on a pooled connection without foreign keys leaves rows of
  `reservation_notifications` behind, against the ON DELETE CASCADE of migration
  007.
* The index is closed "after its users are done" (`main.go:203`), but the
  scheduler may be between two batches.
* A Disconnect between the write of an account and its read-back gives the
  callback (`music_handler.go:102`) a nil account, and a panic.
* A rebuild that ends well misses songs stored after its last page, which
  `IndexSongs` has skipped, until the next run.
* A title that has a mark in it is not found by its initial consonants, though
  `song_handler.go:22` takes them as queries: they are stored as one exact
  keyword with the mark, and a query with a mark is not looked up as initials.
  A title without any letter or digit is not found by Bleve at all.
* The SQL search takes `%` and `_` of a query as wildcards and does not trim it.
* The keyword of the matcher comes from the normalised title and is looked for
  in the stored one: a title with a bracketed part or a noise word in its middle
  may not even be its own candidate, and stays unmatched.
* A track unliked between two pages shifts the next one, so that another track
  is missed until the next sync.
* `ParseYouTubeTitle` (`matcher/normalizer.go`), `ExtractInitials` and
  `IsRebuilding` are called by no code but tests.

### Fairness

Only what the program schedules itself is fair, and the world owes nothing:
phones, TJ, the calendar, `cmd/fetch`, stops and restarts are unfair.

* `Musicon`: the ticker starts a run whenever the last is over (weak), and its
  goroutine goes on recording (weak). A download, statement or push that is
  tried again and again works some time (strong): the ticker repeats the whole
  run for ever, and a fault that lasts for ever serves nobody. The strong
  fairness is per match and per chunk, since a fault could otherwise always hit
  the same one. Expo and SQLite justify no more, and the property needs no less.
* `SearchIndex`: the same for the run's indexing part, strong per song for the
  batches; the rebuild goroutine goes on (weak). `ListedIsSearchable` is stated for a server that stays up.

* `TrackFetch`: the next request of a call is answered some time, unless it fails
  (weak): both clients have a timeout of 30 s, and YouTube's whole call has a
  deadline of 120 s. Users and the callers are unfair.

`EventuallyPushed` asks for songs of the current month only: after the month is
over nobody looks for them (a listed hazard).

## 4. Proofs

Checked by TLAPS for every value of the constants: any number of devices,
reservations, songs, requests and processes, any faults. The assumptions are
the ASSUMEs of the modules (types of the constants; NULL and 0 are no songs),
which the runs evaluate.

`MusiconProofs`: `SettledWasPushed` is not inductive: recording is a step after
the push, so one must know that what a run records was accepted. `IndInv` adds
to it, and to the types,
  * `RunInv`: matches of a run that records, and the sent part of one that
    sends, are in `pushed`; what it holds is about booked reservations and
    stored songs; its counter stays within its matches;
  * `ReqInv`: a checked request still names a reservation of its device, if it
    is still there (ids are not used twice);
  * `PushedInv`: only booked reservations and stored songs were pushed.
One lemma per action shows that it keeps `IndInv`. From it follow `TypeCorrect`,
`NothingSettledUnpushed` and `NothingUnstoredPushed`.

The same module has `OwnersOnly` (an action property, by `ReqInv`), and
`SchedulerSendsOpen`: with no `cmd/fetch`, what the scheduler is about to push
is still open, by a further invariant on what it has not looked at yet.

`ImplementsLedger`: each step of `Musicon` is a step of `ReservationLedger` or a
stutter under the mapping `Life`, with `cmd/fetch` running or not.

`SearchProofs`: `HitsCanBeLookedUp` by `SearchInv`, which adds that what the
two goroutines hold for Bleve is in the table (rows are never deleted); and,
if `cmd/fetch` does not run (`ServerSpec`), `IndexNeverStaler` by `VersionInv`: a page being
written is not older than the index, and equal to the table as long as a
scheduler that entered the index before the rebuild is still in it.

The same module has `RebuildIsComplete` (`RebuildCovers`). That the last page was
short says nothing by itself, as LIMIT and OFFSET only count rows. `CoverInv`
says that the places of the rows are 1 to their number without a gap, that the
rows up to the offset are indexed, those of the page are indexed or left to
write, and that the last page reaches the end of the rows the rebuild began
with. It needs that rows come at the end and are never deleted, that the index
loses no song, and a page whose places are just the next ones (`RowsOfPage`, by
counting).

And of requests: `SearchImplementsIndex`, they change neither table nor
index, so every theorem about `SearchIndex` holds next to them; `HitsAnswered`
by `AskInv`: the hits of a request that waits for the look-up are rows, as
`SearchInv` has it of the index, and stay rows.

`MusicProofs`: one invariant, `MusicInv`, for `MusicTypeCorrect`, `TokensStay` and
`MatchesAreOfTheirTracks`. None is inductive alone: an id held by a sync must
not come to name another row. `IdsInv` says that ids in use are below the
counter of their table, which only grows; `GrantsInv` that grants are numbered
without a gap, so that a new one is nobody's; `HeldOK` and `RequestOK` that what
a request holds of a row was read there, and still is if the row is;
`MatchesInv` that a match whose track has gone will never find another one.

The same module has the refinement: `ImplementsLibrary` (`KeepsLibrary`), under
the mapping of `MusicSync`: `GivenTo`, `ConnectedBy`, `ListedOf`, `ShownOf`. It
needs `LibraryInv` besides (`LibraryInvariance`): one account for a device and
provider, so that an update by id replaces the whole of what the owner has; one
row for a track (`NewTracks`: an upsert inserts only what has no row, each under
an id of its own), so that a match replaces the one shown with the track; and
that a match about to be saved is the one of the track in hand. Eight statements
are steps of the library, one lemma each; two of them, storing tokens and saving
a match, may come after their row has gone, and are stutters then, because its
id names no other row. A new row has no match, as ids of tracks in
`track_matches` are below the counter.

`RefreshProofs`: `NotLockedOut` under each of its two hypotheses, which are
those of section 5.
  * `RenewedIsNotLockedOut` (each refresh renews the token; the server and the
    database work, answers arrive; a provider may still refuse): by `RefreshInv`,
    which has a grant unused until its account is saved (`UnsavedInv`), one
    account for a device and provider (`UniqueInv`), and (`CopiesInv`) the tokens
    of a grant at one account only, none newer than the good one, and a sync
    with a token to store alone in having it, so that no older token can
    overwrite it. `RefreshInvariance` is the invariant itself.
  * `NeverRenewedIsNotLockedOut` (no refresh renews it): whatever fails, by
    `NeverRenewed`: all copies of a token are the one that is good.

  For a provider that sometimes renews, the property is false: a sync with the
  answer "not renewed" writes back the token it had read, over the new one of
  an overlapping sync. The hypotheses are needed, not a convenience.

`TrackProofs`: `NoDuplicates`, `OnlyTheOldestAreMissing`, `FetchTypeCorrect` and
the refinement `FetchImplementsListing`, by `FetchInv`. While nothing is
unliked, the list at the call is the end of the list now (`OnlyLiked`), moved
down by the likes since (`Shift`); the pages read have all its tracks up to the
next page (`PassedUpto`); and a track on them comes after those liked later
(`LatestFirst`), so that cutting the answer off leaves out the oldest. The page
between the requests is where it could go wrong: `PageGoesOn` shows that the
next page starts at or before the first track not read. `DeduplicatedIsList`
says what deduplicateTracks does to any sequence: of each track the first
occurrence stays (there is a first, as a set of numbers has a least one).

`SubsequenceProofs`: picking elements out of a sequence neither adds nor repeats
any (`SubsequenceIsPart`, by the bijection of positions and ranks), and gives the
same in a window that has all of them (`SubsequenceOfWindow`).

`QueryProofs`: what a search finds, for every title and query of any length over
any characters: `TitleFindsSong`, `ChosungFindsSong`, `InitialsFindSong` and
`SqlFindsWhatChosungFinds`. The states are all pairs of strings, so the invariant
is only that they are strings; the work is in the functions. The index trims what
the fetcher has trimmed and extracted, the searcher trims what was typed:
`TrimmedTwice`, `ExtractTrimmed` and `InitialsTrimmed` say that none of this
depends on the order, `DocumentOf` what the index holds of a song after all of
it. `QuotientIsPlace` shows that the quotients by 28 and 21 of the code find the
consonant of each of the 11172 syllables; `HasToken` that a text with a letter
has a token; `InitialsAreSmall` that what may be taken for initials cannot be
taken for consonants.

`MatcherProofs`: `SimilarityIsSymmetric`, `SimilarityIsOneIfEqual` and
`TrackFindsItsSong`, for strings of any length and characters. The matcher goes
through the shorter string and gives each character the first free equal one of
the other within a window: that the order of the arguments does not matter is
anything but plain. The argument:
  * the recursion of `Matched` has one solution, by its least counterexample
    (the library's induction theorems cannot be used);
  * its pairing is stable (`MatchedStable`): a pair that is left out has a
    partner that is paired with an earlier position;
  * there is only one stable pairing (`StableIsUnique`): of the pairs two of them
    differ in, take the one with the least sum of positions, which both sides
    would have had to take;
  * stability does not tell left from right, so the pairing of the arguments
    swapped is the same, swapped (`MatchedSwapped`), and a string is paired with
    itself position by position (`MatchedWithItself`);
  * the counts of pairs and transpositions are then the same
    (`PairsCounted`, `TranspositionsCounted`), and all pairs without transposition
    make the strings equal.

`JaroWinklerIsShare` and `ScoreIsShare` bound the scores, so that an equal title
and artist, which score `Whole`, are above the minimum and cannot be beaten;
`KeywordInside` has the song among the candidates if normalisation takes nothing
out of the middle of its title, which `SameSongWins` says. `TrackFindsItsSong`
assumes `MaxCandidates >= 2`, the number of songs it is stated with; the code's
LIMIT is 100. All this is about the integer arithmetic of the model, which is
exact for strings of up to 6 characters and rounds down, in both orders alike,
for longer ones.

The constants are assumed to be of their types, and the sets that are counted
to be finite.

Only model-checked:

* the liveness properties `EventuallyPushed`, `ListedIsSearchable` and `FetchEnds`:
  fairness and ENABLED are out of the prover's reach;
* that the claims of `artist_only`, `disconnect` and `partial_index` fail: a
  counterexample is TLC's.

## 5. Limits

* `NothingSettledIsSent` is about the scheduler alone. With `cmd/fetch` at the
  same time a reservation may be pushed twice; nothing in the code prevents it,
  and `ReservationLedger` promises at-least-once only.
* `NeverStaler` is without `cmd/fetch`, which stores but never indexes.
* `NotLockedOut` needs answers that arrive, a database that works and a provider
  that always renews refresh tokens, or never does. If it does both, two
  overlapping syncs may store them in the wrong order; and a lost answer, a
  failed UPDATE or a crash at the wrong time locks the account out. It also
  takes every authorisation to come with a refresh token. Google sends one only
  with some consents, and `ExchangeCode` (`youtube_provider.go:64`) stores what
  comes, an empty one too, over the old: such an account cannot refresh.
* `SettledWasPushed` asks for one accepted push. How often a reservation is pushed
  has no bound in the code.
* `RebuildCovers` is about rebuilds that end well. A partial index that a failed or
  cancelled one leaves is not rebuilt by the next start, unless its documents
  cannot be counted: the error is dropped (`main.go:106`) and counts as empty.
* `SameSongWins` is for titles of which normalisation removes nothing in the
  middle, and for a table within the LIMIT of the candidates; others may not be
  candidates at all.
* `MusicLibrary` lets a sync list tracks after a Disconnect, which is what the run
  `disconnect` finds, and lets a match be replaced by an older result.
* `TokensStayWithDevice` tells grants apart by device and provider. A device that
  connects as another user while a sync is refreshing may get the old user's
  tokens back.
* The runs of the scheduler have a 5 minute context, and requests are cancelled
  when the server shuts down: both appear as failing statements or crashes.
* `cmd/fetch` takes the local month, the scheduler that of Seoul; one calendar
  stands for both.
* Songs, devices and notifications are never deleted by the code, nor in the
  models.
* Scores of the matcher are exact in the model and float64 in the code, which
  may decide otherwise between two equal scores or at the minimum of 0.7.
* Noise words of several words or with punctuation inside are left out, and so
  are spaces other than U+0020, upper case outside ASCII and NFKC. A query
  without Korean of more than 10 bytes is not looked up as initials
  (`InitialsMaxBytes`); `FoundByInitials` is stated without such, and strings as
  long are beyond the bounds of `text`.
* The services of `TrackFetch` give at least one track a page unless the list has
  ended. If Spotify gave empty pages with new links for ever, only a cancelled
  request would end the call; YouTube's loop counts its pages. YouTube's tracks
  are not cleared of duplicates: they count in `TracksFound` and are upserted
  twice.
* In `SongSearch` a query matches a fixed set of documents and the order of the
  hits is arbitrary; offsets are 0. Two pages of one query may come from two
  different orders, which nothing in the code prevents.
* Not modelled: ranking and boosts of the search, wildcards of LIKE, parsing of
  TJ's and the providers' answers, Expo's push tickets, configuration,
  migrations (sequential, before anything else runs), health, swagger,
  deployment.

## 6. Plan

Done, in this order: reservations, matching and their proofs; the ledger; the
search index and its proofs; music accounts and sync; a search request; the
pure functions of search and matcher; the paging of the providers and its
abstract listing; the proofs of the safety properties of `MusicSync`, `SearchIndex`,
`SongSearch` and `TrackFetch`, of what a query finds and of what the matcher
does; the library of a device and the proof that `MusicSync` implements it.

Next:

1. An abstract specification of the index (a set of searchable songs that
   follows the table) that `SearchIndex` implements, which would put together what
   `IndexedIsStored`, `NeverStaler` and `RebuildCovers` say.
2. `ParseYouTubeTitle` and the search handler's limits.

## 7. Running

`tlc -config <X>.cfg <MC module>` and `tlapm <proof module>`; which module goes
with which configuration is in `PROJECT.json` (`runs`).
