----------------------------- MODULE TrackFetch -----------------------------
(***************************************************************************)
(* FetchUserTracks of the two providers, one action per request, while the *)
(* user goes on liking and unliking tracks: the pages are cut out of a     *)
(* list that shifts between the requests.  Spotify's answer starts with    *)
(* the user's top tracks and is cleared of duplicates, YouTube's is not.   *)
(*                                                                         *)
(* The services are external: the list is in the order of liking, latest   *)
(* first, a page may be shorter than asked for, and the next link is the   *)
(* offset of the page that follows, left out when the list ends.           *)
(***************************************************************************)
EXTENDS Integers, FiniteSets, SequencesExt, Subsequences

CONSTANTS
    Tracks,
    PageSize,         \* tracks per request
    MaxTracks,        \* spotifyMaxTracks, youtubeMaxTracks
    MaxPages,         \* youtubeMaxPages
    MaxChanges,       \* bound on the changes of the list
    Faults            \* "provider": a request may fail, or time out

ASSUME TrackFetchAssumption ==
    /\ IsFiniteSet(Tracks)
    /\ PageSize \in Nat \ {0}
    /\ MaxTracks \in Nat /\ PageSize <= MaxTracks
    /\ MaxPages \in Nat \ {0}
    /\ MaxChanges \in Nat
    /\ Faults \subseteq {"provider"}

VARIABLES
    liked,            \* the user's list, latest first
    favourites,       \* Spotify's top tracks of the user
    changes,          \* likes and unlikes so far
    fetch             \* the call of FetchUserTracks

vars == <<liked, favourites, changes, fetch>>

NoLink == -1

Fetch ==
    [of     : {"spotify", "youtube"},
     pc     : {"idle", "top", "saved", "videos", "done", "failed"},
     top    : Seq(Tracks),
     all    : Seq(Tracks),            \* the liked tracks so far
     link   : Nat \cup {NoLink},      \* the next page
     pages  : Nat,                    \* pages asked for
     result : Seq(Tracks),
     base   : Seq(Tracks),            \* history: the list at the call
     had    : SUBSET Tracks,          \* history: all tracks on a list since then
     cut    : BOOLEAN]                \* history: a track was unliked since then

Idle == [of |-> "spotify", pc |-> "idle", top |-> <<>>, all |-> <<>>, link |-> 0, pages |-> 0,
         result |-> <<>>, base |-> <<>>, had |-> {}, cut |-> FALSE]

IsList(s) == s \in Seq(Tracks) /\ \A i, j \in DOMAIN s : s[i] = s[j] => i = j

Lists(n) == {s \in BoundedSeq(Tracks, n) : IsList(s)}

FetchTypeOK ==
    /\ IsList(liked)
    /\ IsList(favourites) /\ Len(favourites) <= PageSize
    /\ changes \in 0 .. MaxChanges
    /\ fetch \in Fetch /\ Len(fetch.result) <= MaxTracks

Init ==
    /\ liked \in Lists(Cardinality(Tracks))
    /\ favourites \in Lists(PageSize)
    /\ changes = 0
    /\ fetch = Idle

Busy == fetch.pc \in {"top", "saved", "videos"}

-----------------------------------------------------------------------------
(* The user.                                                               *)

Like(t) ==
    /\ changes < MaxChanges
    /\ t \notin ToSet(liked)
    /\ liked' = <<t>> \o liked
    /\ changes' = changes + 1
    /\ fetch' = IF Busy THEN [fetch EXCEPT !.had = @ \cup {t}] ELSE fetch
    /\ UNCHANGED favourites

Unlike(t) ==
    /\ changes < MaxChanges
    /\ t \in ToSet(liked)
    /\ liked' = Subsequence(liked, {i \in DOMAIN liked : liked[i] # t})
    /\ changes' = changes + 1
    /\ fetch' = IF Busy THEN [fetch EXCEPT !.cut = TRUE] ELSE fetch
    /\ UNCHANGED favourites

-----------------------------------------------------------------------------
(* The services' answers.                                                  *)

Page(offset, size) == SubSeq(liked, offset + 1, Min({offset + size, Len(liked)}))

LinkAfter(offset, size) ==
    IF offset + size < Len(liked) THEN offset + size ELSE NoLink

-----------------------------------------------------------------------------
(* The two clients.                                                        *)

\* Faulty: nothing is cut off.
FirstOfAll(s, n) == s

First(s, n) == IF Len(s) > n THEN SubSeq(s, 1, n) ELSE s

\* Faulty: the answer is not cleared.
DuplicatesStay(s) == s

\* deduplicateTracks: the first of equal tracks stays.
Deduplicated(s) ==
    Subsequence(s, {i \in DOMAIN s : \A j \in 1 .. i - 1 : s[j] # s[i]})

\* Faulty: the top tracks are not counted.
TopNotCounted(f) == MaxTracks

\* Room for saved tracks, next to the top tracks.
MaxCount(f) == MaxTracks - Len(f.top)

\* The loop of fetchSavedTracks, and what comes after it.
Saved(f) ==
    IF f.link # NoLink /\ Len(f.all) < MaxCount(f) THEN f
    ELSE [f EXCEPT !.pc = "done",
                   !.result = Deduplicated(f.top \o First(f.all, MaxCount(f)))]

\* The loop of YouTube's FetchUserTracks, and what comes after it.
Videos(f) ==
    IF f.link # NoLink /\ f.pages < MaxPages /\ Len(f.all) < MaxTracks THEN f
    ELSE [f EXCEPT !.pc = "done", !.result = First(f.all, MaxTracks)]

Call ==
    /\ fetch.pc = "idle"
    /\ \E of \in {"spotify", "youtube"} :
         fetch' = [Idle EXCEPT !.of = of,
                               !.pc = IF of = "spotify" THEN "top" ELSE "videos",
                               !.base = liked,
                               !.had = ToSet(liked) \cup ToSet(favourites)]
    /\ UNCHANGED <<liked, favourites, changes>>

FetchTopTracks ==
    /\ fetch.pc = "top"
    /\ fetch' = Saved([fetch EXCEPT !.pc = "saved", !.top = favourites])
    /\ UNCHANGED <<liked, favourites, changes>>

\* Faulty: every page replaces the one before.
LastPageOnly ==
    /\ fetch.pc = "saved"
    /\ \E size \in 1 .. PageSize :
         fetch' = Saved([fetch EXCEPT !.all = Page(fetch.link, size),
                                      !.link = LinkAfter(fetch.link, size)])
    /\ UNCHANGED <<liked, favourites, changes>>

\* Faulty: the link is not followed.
LinkStays ==
    /\ fetch.pc = "saved"
    /\ fetch' = Saved([fetch EXCEPT !.all = @ \o Page(fetch.link, PageSize)])
    /\ UNCHANGED <<liked, favourites, changes>>

FetchSavedTracksPage ==
    /\ fetch.pc = "saved"
    /\ \E size \in 1 .. PageSize :
         fetch' = Saved([fetch EXCEPT !.all = @ \o Page(fetch.link, size),
                                      !.link = LinkAfter(fetch.link, size)])
    /\ UNCHANGED <<liked, favourites, changes>>

\* A page without tracks is the last one, whatever its link.
FetchVideosPage ==
    /\ fetch.pc = "videos"
    /\ \E size \in 1 .. PageSize :
         LET page == Page(fetch.link, size)
         IN  fetch' = Videos([fetch EXCEPT !.all = @ \o page,
                                           !.link = IF page = <<>> THEN NoLink
                                                    ELSE LinkAfter(fetch.link, size),
                                           !.pages = @ + 1])
    /\ UNCHANGED <<liked, favourites, changes>>

\* Any failed request fails the call, and what was fetched is dropped.
RequestFails ==
    /\ "provider" \in Faults
    /\ Busy
    /\ fetch' = [fetch EXCEPT !.pc = "failed"]
    /\ UNCHANGED <<liked, favourites, changes>>

\* The sync takes over, or passes the account over.
Return ==
    /\ fetch.pc \in {"done", "failed"}
    /\ fetch' = Idle
    /\ UNCHANGED <<liked, favourites, changes>>

-----------------------------------------------------------------------------
Answered == FetchTopTracks \/ FetchSavedTracksPage \/ FetchVideosPage

Next ==
    \/ \E t \in Tracks : Like(t) \/ Unlike(t)
    \/ Call
    \/ Answered
    \/ RequestFails
    \/ Return

Spec == Init /\ [][Next]_vars

\* A request is answered, unless it fails.
FairSpec == Spec /\ WF_vars(Answered)

-----------------------------------------------------------------------------
(* What a sync relies on.                                                  *)

(* Spotify's tracks come without duplicates (deduplicateTracks), though a  *)
(* top track may be a liked one and a track liked between two requests     *)
(* pushes the last one of a page onto the next page.                       *)
NoTrackTwice == fetch.pc = "done" /\ fetch.of = "spotify" => IsList(fetch.result)

(* Liking goes on between the requests without a liked track being         *)
(* overlooked: unless one was unliked, the liked tracks that are missing   *)
(* are older than all that were returned, and none is missing if the last  *)
(* page was read and nothing was cut off.                                  *)
NothingOverlooked ==
    fetch.pc = "done" /\ ~ fetch.cut =>
      LET missing  == ToSet(fetch.base) \ ToSet(fetch.result)
          returned == ToSet(fetch.result) \ ToSet(fetch.top)
      IN  /\ \A i, j \in DOMAIN fetch.base :
               fetch.base[i] \in missing /\ fetch.base[j] \in returned => j < i
          /\ fetch.link = NoLink /\ Len(fetch.top) + Len(fetch.all) <= MaxTracks
               => missing = {}

(* The invariant TLAPS proves for both and for the listing below.  As long *)
(* as nothing is unliked, the list at the call is the end of the list now, *)
(* and the pages so far have its tracks from the latest to the one before  *)
(* the next page, each after the later ones: a like may repeat a track on  *)
(* the next page but not push one back onto a page read before.            *)
Shift == Len(liked) - Len(fetch.base)

OnlyLiked ==
    /\ Len(fetch.base) <= Len(liked)
    /\ \A i \in DOMAIN fetch.base : fetch.base[i] = liked[i + Shift]

PassedUpto(f, n) == \A i \in DOMAIN f.base : i + Shift <= n => f.base[i] \in ToSet(f.all)

LatestFirst(f) ==
    \A p \in DOMAIN f.all, j \in DOMAIN f.base : f.all[p] = f.base[j] =>
      \A i \in 1 .. j - 1 : \E q \in 1 .. p : f.all[q] = f.base[i]

FetchInv ==
    /\ FetchTypeOK
    /\ NoTrackTwice
    /\ NothingOverlooked
    /\ fetch.pc # "done" => fetch.result = <<>>
    /\ ToSet(fetch.result) \subseteq fetch.had
    /\ Len(fetch.top) <= PageSize
    /\ fetch.pc \in {"top", "videos"} => fetch.top = <<>>
    /\ fetch.pc = "top" => fetch.all = <<>>
    /\ Busy =>
         /\ fetch.of = IF fetch.pc = "videos" THEN "youtube" ELSE "spotify"
         /\ fetch.link # NoLink
         /\ ToSet(liked) \cup ToSet(favourites) \subseteq fetch.had
         /\ ToSet(fetch.top) \cup ToSet(fetch.all) \subseteq fetch.had
         /\ ~ fetch.cut => OnlyLiked /\ PassedUpto(fetch, fetch.link) /\ LatestFirst(fetch)

Stage ==
    CASE Busy                -> "busy"
      [] fetch.pc = "idle"   -> "idle"
      [] fetch.pc = "done"   -> "done"
      [] fetch.pc = "failed" -> "failed"

Listing == INSTANCE TrackListing WITH
    Limit  <- MaxTracks,
    stage  <- Stage,
    had    <- fetch.had,
    result <- ToSet(fetch.result)

(* A call that takes many requests is to its caller what the abstract      *)
(* listing is: all or nothing, only tracks the user had meanwhile, and no  *)
(* more than the maximum of top and liked tracks together.                 *)
ListsTracks == Listing!Spec

(* The loops that follow the links end, however the list changes: a sync,  *)
(* whose HTTP request waits for it, comes back.                            *)
FetchEnds == Busy ~> ~ Busy

=============================================================================
