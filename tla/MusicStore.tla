---------------------------- MODULE MusicStore ----------------------------
(***************************************************************************)
(* The tables behind the music accounts: music_accounts, music_tracks and  *)
(* track_matches, with one operator per SQL statement.                     *)
(*                                                                         *)
(* A refresh token is the grant it came from and its place in the series   *)
(* of that grant; names, access tokens and the scores of matches are left  *)
(* out.  A track, and a match, also say what they were computed from,      *)
(* which the tables do not: these are history.                             *)
(***************************************************************************)
EXTENDS Naturals, FiniteSets, Functions

CONSTANTS
    Devices,
    Providers,
    Exts,             \* tracks of the music services, by external id
    Songs,
    NoSong,           \* NULL, the song_id of an unmatched track
    MaxGrants,        \* bound on the authorisations ever given
    MaxRefreshes,     \* bound on the refresh tokens of one grant
    MaxRows           \* bound on the ids given out in each table

ASSUME MusicStoreAssumption ==
    /\ IsFiniteSet(Exts)
    /\ NoSong \notin Songs
    /\ MaxGrants \in Nat
    /\ MaxRefreshes \in Nat
    /\ MaxRows \in Nat

VARIABLES
    accounts,         \* id -> row of music_accounts
    nextAccount,      \* AUTOINCREMENT
    tracks,           \* id -> row of music_tracks
    nextTrack,
    matches,          \* music_track_id -> row of track_matches
    songs             \* the songs table

musicTables == <<accounts, nextAccount, tracks, nextTrack, matches, songs>>

Grants == 1 .. MaxGrants
RowIds == 1 .. MaxRows
Token == [grant : Grants, serial : 0 .. MaxRefreshes]
Account == [device : Devices, provider : Providers, token : Token]
Track == [device : Devices, provider : Providers, ext : Exts, grant : Grants]
Key == [device : Devices, provider : Providers, ext : Exts]
TrackMatch == [song : Songs \cup {NoSong}, of : Key]

IsTable(f, Row) == DOMAIN f \subseteq RowIds /\ \A i \in DOMAIN f : f[i] \in Row

MusicStoreTypeOK ==
    /\ IsTable(accounts, Account)
    /\ IsTable(tracks, Track)
    /\ IsTable(matches, TrackMatch)
    /\ nextAccount \in Nat \ {0}
    /\ nextTrack \in Nat \ {0}
    /\ songs \subseteq Songs

EmptyTable == [i \in {} |-> {}]

MusicStoreInit ==
    /\ accounts = EmptyTable
    /\ nextAccount = 1
    /\ tracks = EmptyTable
    /\ nextTrack = 1
    /\ matches = EmptyTable
    /\ songs = {}

AccountsOf(d, p) == {a \in DOMAIN accounts : accounts[a].device = d /\ accounts[a].provider = p}
TracksOf(d, p) == {t \in DOMAIN tracks : tracks[t].device = d /\ tracks[t].provider = p}

\* What a row of music_tracks is about.
KeyOf(t) == [device |-> tracks[t].device, provider |-> tracks[t].provider, ext |-> tracks[t].ext]

Put(f, i, row) == [j \in DOMAIN f \cup {i} |-> IF j = i THEN row ELSE f[j]]

\* Faulty variant: without AUTOINCREMENT, the id after the highest in the table.
NextIdReusing(f, counter) ==
    CHOOSE i \in 1 .. counter :
      (\A j \in DOMAIN f : j < i) /\ (i = 1 \/ i - 1 \in DOMAIN f)

\* AUTOINCREMENT: the id a new row of table f gets.
NextId(f, counter) == counter

-----------------------------------------------------------------------------
(* music_accounts                                                          *)

\* Faulty variant: an INSERT without ON CONFLICT, into a table without UNIQUE.
InsertAccount(d, p, token) ==
    LET id == NextId(accounts, nextAccount)
    IN  /\ id <= MaxRows
        /\ accounts' = Put(accounts, id, [device |-> d, provider |-> p, token |-> token])
        /\ nextAccount' = id + 1

\* A device has one account per provider; connecting again keeps its id.
UpsertAccount(d, p, token) ==
    LET row == [device |-> d, provider |-> p, token |-> token]
        id  == NextId(accounts, nextAccount)
    IN  IF AccountsOf(d, p) # {}
        THEN /\ accounts' = [a \in DOMAIN accounts |->
                               IF a \in AccountsOf(d, p) THEN row ELSE accounts[a]]
             /\ UNCHANGED nextAccount
        ELSE /\ id <= MaxRows
             /\ accounts' = Put(accounts, id, row)
             /\ nextAccount' = id + 1

DeleteAccount(d, p) ==
    accounts' = Restrict(accounts, DOMAIN accounts \ AccountsOf(d, p))

\* Faulty variant: the refresh token the request came with is written back.
UpdateTokensKeepingRefresh(id, old, new) ==
    accounts' = [a \in DOMAIN accounts |->
                   IF a = id THEN [accounts[a] EXCEPT !.token = old] ELSE accounts[a]]

\* By id alone: nothing happens if the account has gone.
UpdateTokens(id, old, new) ==
    accounts' = [a \in DOMAIN accounts |->
                   IF a = id THEN [accounts[a] EXCEPT !.token = new] ELSE accounts[a]]

-----------------------------------------------------------------------------
(* music_tracks                                                            *)

\* UpsertMany: one transaction, in which new rows get the next ids in the order
\* of the list, and the row of a track already there keeps its id (the gaps
\* SQLite may leave in the ids are not modelled).
UpsertTracks(d, p, grant, exts) ==
    LET new  == exts \ {tracks[t].ext : t \in TracksOf(d, p)}
        base == NextId(tracks, nextTrack)
        next == base + Cardinality(new)
    IN  \E at \in [new -> base .. next - 1] :
          /\ next - 1 <= MaxRows
          /\ \A e, f \in new : at[e] = at[f] => e = f
          /\ tracks' = [t \in DOMAIN tracks \cup Range(at) |->
                          IF t \in DOMAIN tracks
                          THEN IF t \in TracksOf(d, p) /\ tracks[t].ext \in exts
                               THEN [tracks[t] EXCEPT !.grant = grant] ELSE tracks[t]
                          ELSE [device |-> d, provider |-> p, grant |-> grant,
                                ext |-> CHOOSE e \in new : at[e] = t]]
          /\ nextTrack' = next

\* DeleteByDeviceAndProvider; the matches go only where foreign keys are
\* enforced, by ON DELETE CASCADE.
DeleteTracks(d, p, fk) ==
    /\ tracks' = Restrict(tracks, DOMAIN tracks \ TracksOf(d, p))
    /\ matches' = IF fk THEN Restrict(matches, DOMAIN matches \ TracksOf(d, p))
                        ELSE matches

-----------------------------------------------------------------------------
(* track_matches, and the songs it refers to                               *)

\* Faulty variant: a track without a match gets the id 0 for NULL.
UpsertMatchZero(t, song, key, fk) ==
    matches' = IF fk /\ t \notin DOMAIN tracks THEN matches
               ELSE Put(matches, t, [song |-> IF song = NoSong THEN 0 ELSE song, of |-> key])

\* One row per music_track_id; refused for a track that has gone, where foreign
\* keys are enforced, and the error is only logged.
UpsertMatch(t, song, key, fk) ==
    matches' = IF fk /\ t \notin DOMAIN tracks THEN matches
               ELSE Put(matches, t, [song |-> song, of |-> key])

\* What is shown to a device: tracks of its own that have a match, joined with
\* it, and with its song if that is there.  The order and the page, by score and
\* at most 100, are left out.
FindMatchedByDeviceID(d) ==
    {[track |-> KeyOf(t), match |-> matches[t], song |-> {matches[t].song} \cap songs] :
       t \in {u \in DOMAIN tracks \cap DOMAIN matches : tracks[u].device = d}}
=============================================================================
