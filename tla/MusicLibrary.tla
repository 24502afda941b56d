---------------------------- MODULE MusicLibrary ----------------------------
(***************************************************************************)
(* What connecting, disconnecting and syncing promise about the music of a *)
(* device at a service, without rows, ids, statements or requests: at most *)
(* one account, by an authorisation of its own; a list of its tracks that  *)
(* only grows until it is forgotten as a whole; and, for some of the       *)
(* listed tracks, the song each is matched with, or none.                  *)
(*                                                                         *)
(* Each step is about one device and service.  Disconnecting and           *)
(* forgetting the tracks are two steps, and neither keeps a sync from      *)
(* listing tracks once more: that is not promised.                         *)
(***************************************************************************)
EXTENDS Naturals

CONSTANTS Devices, Providers, Exts, Songs, Grants, SongOf

VARIABLES
    given,            \* given[o]: the authorisations given for o
    account,          \* account[o]: the one its account goes by, if it has one
    listed,           \* listed[o]: the tracks of o
    shown,            \* <<e, found>> in shown[o]: track e is shown with these songs
    known             \* the songs there are to match with

\* A device at a service.
Owners == Devices \X Providers

Init ==
    /\ given = [o \in Owners |-> {}]
    /\ account = [o \in Owners |-> {}]
    /\ listed = [o \in Owners |-> {}]
    /\ shown = [o \in Owners |-> {}]
    /\ known = {}

Authorise(o) ==
    /\ \E g \in Grants \ UNION {given[q] : q \in Owners} :
         given' = [given EXCEPT ![o] = @ \cup {g}]
    /\ UNCHANGED <<account, listed, shown, known>>

\* Connected, or reconnected, by any authorisation of its own.
Connect(o) ==
    /\ \E g \in given[o] : account' = [account EXCEPT ![o] = {g}]
    /\ UNCHANGED <<given, listed, shown, known>>

Disconnect(o) ==
    /\ account' = [account EXCEPT ![o] = {}]
    /\ UNCHANGED <<given, listed, shown, known>>

List(o, exts) ==
    /\ given[o] # {}
    /\ listed' = [listed EXCEPT ![o] = @ \cup exts]
    /\ UNCHANGED <<given, account, shown, known>>

\* A track has one match at a time, which is its song if that is known.
Match(o, e, found) ==
    /\ e \in listed[o]
    /\ found \subseteq {SongOf[e]} \cap known
    /\ shown' = [shown EXCEPT ![o] = {row \in @ : row[1] # e} \cup {<<e, found>>}]
    /\ UNCHANGED <<given, account, listed, known>>

Forget(o) ==
    /\ listed' = [listed EXCEPT ![o] = {}]
    /\ shown' = [shown EXCEPT ![o] = {}]
    /\ UNCHANGED <<given, account, known>>

Learn(s) ==
    /\ known' = known \cup {s}
    /\ UNCHANGED <<given, account, listed, shown>>

Next ==
    \/ \E o \in Owners : Authorise(o) \/ Connect(o) \/ Disconnect(o) \/ Forget(o)
    \/ \E o \in Owners, exts \in SUBSET Exts : List(o, exts)
    \/ \E o \in Owners, e \in Exts, found \in SUBSET Songs : Match(o, e, found)
    \/ \E s \in Songs : Learn(s)

Spec == Init /\ [][Next]_<<given, account, listed, shown, known>>
=============================================================================
