------------------------- MODULE ReservationStore -------------------------
(***************************************************************************)
(* The SQLite database as the reservation code sees it: the tables         *)
(* devices, reservations, reservation_notifications and songs, and one     *)
(* operator per SQL statement that changes them.  Each operator is an      *)
(* action on the tables only; SQLite runs a statement atomically, so the   *)
(* modules that EXTEND this one put one statement in one step.             *)
(*                                                                         *)
(* A device row is identified with its token (UNIQUE, and no code deletes  *)
(* a device), a song row with the song (tj_number is UNIQUE).              *)
(***************************************************************************)
EXTENDS Integers, FiniteSets

CONSTANTS
    Devices,          \* Expo push tokens
    Artists,          \* artist terms a reservation can carry
    Titles,           \* non-empty title terms
    NoTitle,          \* the empty title: an artist-only reservation
    Songs,            \* songs, each one TJ number
    ZeroId,           \* the zero value of domain.Song.ID
    NoSong,           \* SQL NULL in matched_song_id
    ArtistIn,         \* ArtistIn[s]: the artist terms contained in s's artist
    TitleIn,          \* TitleIn[s]: the title terms contained in s's title
    MaxReservations   \* bound on the ids ever assigned

ASSUME StoreAssumption ==
    /\ NoTitle \notin Titles
    /\ ZeroId \notin Songs
    /\ NoSong \notin Songs \cup {ZeroId}
    /\ ArtistIn \in [Songs -> SUBSET Artists]
    /\ TitleIn \in [Songs -> SUBSET Titles]
    /\ MaxReservations \in Nat

VARIABLES
    devices,          \* tokens in table devices
    reservations,     \* table reservations: id -> row
    nextId,           \* the next AUTOINCREMENT id of reservations
    notifications,    \* table reservation_notifications: <<reservation, song id>>
    songs             \* songs in table songs

storeVars == <<devices, reservations, nextId, notifications, songs>>

ResIds == 1 .. MaxReservations
Terms  == [artist : Artists, title : Titles \cup {NoTitle}]

Row == [device   : Devices,
        artist   : Artists,
        title    : Titles \cup {NoTitle},
        status   : {"active", "matched"},
        song     : Songs \cup {ZeroId, NoSong},
        notified : BOOLEAN]

StoreTypeOK ==
    /\ devices \subseteq Devices
    /\ nextId \in 1 .. MaxReservations + 1
    /\ DOMAIN reservations \subseteq 1 .. nextId - 1
    /\ reservations \in [DOMAIN reservations -> Row]
    /\ notifications \subseteq ResIds \X (Songs \cup {ZeroId})
    /\ songs \subseteq Songs

StoreInit ==
    /\ devices = {}
    /\ reservations = [r \in {} |-> 0]
    /\ nextId = 1
    /\ notifications = {}
    /\ songs = {}

-----------------------------------------------------------------------------
Exists(r) == r \in DOMAIN reservations

\* Reservation.IsArtistOnly.
IsArtistOnly(row) == row.title = NoTitle

\* The negation of the WHERE clause of FindActiveWithTokens: matching never
\* looks at the row again.
Settled(row) == row.status # "active" \/ row.notified

\* The two strings.Contains tests, on lower-cased strings.
Eligible(row, s) ==
    /\ row.artist \in ArtistIn[s]
    /\ IsArtistOnly(row) \/ row.title \in TitleIn[s]

\* Faulty variant: the id is NULL.
SongIdNull(s) == NoSong

\* domain.Song.ID of a song built by FetchByMonth: the field is never set and
\* UpsertMany does not fill it in.
SongId(s) == ZeroId

\* A matched_song_id REFERENCES songs(id) constraint is met.
ReferencesSong(id) == id \in songs

-----------------------------------------------------------------------------
UpsertDevice(d) ==
    /\ devices' = devices \cup {d}
    /\ UNCHANGED <<reservations, nextId, notifications, songs>>

InsertReservation(d, terms) ==
    /\ nextId <= MaxReservations
    /\ reservations' =
         [i \in DOMAIN reservations \cup {nextId} |->
            IF i = nextId
            THEN [device |-> d, artist |-> terms.artist, title |-> terms.title,
                  status |-> "active", song |-> NoSong, notified |-> FALSE]
            ELSE reservations[i]]
    /\ nextId' = nextId + 1
    /\ UNCHANGED <<devices, notifications, songs>>

\* An UPDATE of one row by id: no row, no change.
UpdateRow(r, row) ==
    /\ reservations' = IF Exists(r) THEN [reservations EXCEPT ![r] = row]
                                    ELSE reservations
    /\ UNCHANGED <<devices, nextId, notifications, songs>>

\* Faulty variant: an edit makes the reservation active again.
UpdateTermsReactivating(r, terms) ==
    UpdateRow(r, [reservations[r] EXCEPT !.artist = terms.artist,
                                         !.title = terms.title,
                                         !.status = "active",
                                         !.notified = FALSE])

\* Update sets the terms and nothing else: status and notified_at stay.
UpdateTerms(r, terms) ==
    UpdateRow(r, [reservations[r] EXCEPT !.artist = terms.artist,
                                         !.title = terms.title])

\* Faulty variant: an id column without AUTOINCREMENT, which gives the largest
\* id out again once its row is deleted.
DeleteReservationFreeingId(r, fk) ==
    /\ reservations' = [i \in DOMAIN reservations \ {r} |-> reservations[i]]
    /\ nextId' = IF r = nextId - 1 THEN r ELSE nextId
    /\ UNCHANGED <<devices, notifications, songs>>

\* fk says whether the pooled connection that runs the statement enforces
\* foreign keys: ON DELETE CASCADE removes the notification rows, or not.
DeleteReservation(r, fk) ==
    /\ reservations' = [i \in DOMAIN reservations \ {r} |-> reservations[i]]
    /\ notifications' = IF fk THEN {n \in notifications : n[1] # r}
                              ELSE notifications
    /\ UNCHANGED <<devices, nextId, songs>>

MarkAsMatched(r, id, fk) ==
    IF fk /\ ~ReferencesSong(id)
    THEN UNCHANGED storeVars
    ELSE UpdateRow(r, [reservations[r] EXCEPT !.status = "matched", !.song = id])

MarkAsNotified(r) ==
    UpdateRow(r, [reservations[r] EXCEPT !.notified = TRUE])

HasNotified(r, id) == <<r, id>> \in notifications

\* INSERT OR IGNORE: the UNIQUE constraint makes a repeat a no-op; a missing
\* reservation is an error under enforced foreign keys, an orphan row otherwise.
RecordNotification(r, id, fk) ==
    /\ notifications' = IF fk /\ ~Exists(r) THEN notifications
                                            ELSE notifications \cup {<<r, id>>}
    /\ UNCHANGED <<devices, reservations, nextId, songs>>

\* One transaction for the whole batch.
UpsertMany(batch) ==
    /\ songs' = songs \cup batch
    /\ UNCHANGED <<devices, reservations, nextId, notifications>>
=============================================================================
