------------------------------ MODULE ScreenCache ------------------------------
(***************************************************************************)
(* The lists a page of the web client shows, as TanStack Query caches them *)
(* (src/frontend/src/hooks, app/providers.tsx): a screen that is mounted   *)
(* fetches the lists it shows unless they are fresh, a call that succeeds  *)
(* names the lists to invalidate, and which lists the server wrote for it  *)
(* only the server knows.  Calls and screens are those of WebScreens.      *)
(*                                                                         *)
(* Lists do not depend on each other, so one is watched in a behaviour.    *)
(* Of its contents only counts whether a change this page made is missing. *)
(* What the server goes on doing after an answer is left out.              *)
(***************************************************************************)
EXTENDS Common, WebScreens

CONSTANT Hands  \* calls that a page can have on their way at a time

VARIABLES
    client,   \* the client the login sees: the Workbench, a portal or the older pages
    view,     \* its screen that is mounted
    watched,  \* the list
    cached,   \* what the cache holds of it
    calls,    \* the page's calls, as far as the list is concerned
    blind     \* history: the list has missed a change in a way that is known

cacheVars == <<client, view, watched, cached, calls, blind>>

-----------------------------------------------------------------------------
(* The cache. *)

NoData == [data |-> "NONE", marked |-> FALSE, old |-> FALSE, fetch |-> "IDLE"]

\* What is on its way for the list: a call that may write it, name it, or do so unnamed.
Coming == [writes : BOOLEAN, names : BOOLEAN, missed : BOOLEAN, done : BOOLEAN]

ASSUME NullCallAssumption == Null \notin Coming

(* The entry and the calls are of their types, and an entry without data is neither *)
(* old nor behind.                                                                  *)
CacheTypeOK ==
    /\ client \in DOMAIN Clients /\ view \in ScreensOf[client]
    /\ watched \in ShownIn(client)
    /\ cached \in [data : {"NONE", "CURRENT", "BEHIND"}, marked : BOOLEAN, old : BOOLEAN,
                   fetch : {"IDLE", "SENT", "READ_CURRENT", "READ_BEHIND"}]
    /\ cached.data = "NONE" => ~cached.old
    /\ calls \in [Hands -> Coming \cup {Null}]
    /\ blind \in BOOLEAN

Mounted == watched \in Clients[client].frame.shows \/ watched \in ScreenOf[view].shows

\* An observer that mounts fetches unless the data is fresh; a fetch under way is joined.
Fetching(entry) == [entry EXCEPT !.fetch = IF @ = "IDLE" THEN "SENT" ELSE @]

MountOn(entry) ==
    IF entry.data = "NONE" \/ entry.marked \/ entry.old THEN Fetching(entry) ELSE entry

CacheInit ==
    /\ client \in DOMAIN Clients /\ view \in ScreensOf[client]
    /\ watched \in ShownIn(client)
    /\ cached = IF Mounted THEN MountOn(NoData) ELSE NoData
    /\ calls = [h \in Hands |-> Null]
    /\ blind = FALSE

\* Another screen of the client takes this one's place.
Show(s) ==
    /\ s \in ScreensOf[client] \ {view}
    /\ view' = s
    /\ cached' = IF watched \in ScreenOf[s].shows THEN MountOn(cached) ELSE cached
    /\ UNCHANGED <<client, watched, calls, blind>>

ServerReads ==
    /\ cached.fetch = "SENT"
    /\ cached' = [cached EXCEPT !.fetch = "READ_CURRENT"]
    /\ UNCHANGED <<client, view, watched, calls, blind>>

\* Data lands, and the mark is cleared although it may have been set since the read.
FetchLands ==
    /\ cached.fetch \in {"READ_CURRENT", "READ_BEHIND"}
    /\ LET data == IF cached.fetch = "READ_CURRENT" THEN "CURRENT" ELSE "BEHIND"
       IN  /\ cached' = [data |-> data, marked |-> FALSE, old |-> FALSE, fetch |-> "IDLE"]
           /\ blind' = (blind /\ data = "BEHIND")
    /\ UNCHANGED <<client, view, watched, calls>>

\* A fetch fails: it is tried again, once, or the data stays as it is.
FetchFails ==
    /\ cached.fetch # "IDLE"
    /\ \/ cached' = [cached EXCEPT !.fetch = "SENT"] /\ UNCHANGED blind
       \/ /\ cached' = [cached EXCEPT !.fetch = "IDLE"]
          /\ blind' = (blind \/ cached.data = "BEHIND")
    /\ UNCHANGED <<client, view, watched, calls>>

PollAgain ==
    /\ Mounted /\ watched \in Polled
    /\ cached' = Fetching(cached)
    /\ UNCHANGED <<client, view, watched, calls, blind>>

\* Fifteen seconds go by.
GrowOld ==
    /\ cached.data # "NONE"
    /\ cached' = [cached EXCEPT !.old = TRUE]
    /\ UNCHANGED <<client, view, watched, calls, blind>>

\* An entry nothing uses is collected.
Collect ==
    /\ ~Mounted /\ cached.fetch = "IDLE"
    /\ cached' = NoData
    /\ blind' = FALSE
    /\ UNCHANGED <<client, view, watched, calls>>

-----------------------------------------------------------------------------
(* Calls of the page. *)

\* A change that is not named is missed where the list is not shown, or is forgotten.
SendCallOf(h, c) ==
    /\ calls[h] = Null
    /\ watched \in c.writes \/ watched \in c.names
    /\ c.name \in ScreenOf[view].makes \cup Clients[client].frame.makes
    /\ calls' = [calls EXCEPT ![h] =
                    [writes |-> watched \in c.writes, names |-> watched \in c.names,
                     missed |-> watched \in c.writes \ c.names
                                /\ (~Mounted \/ <<c.name, watched>> \in Forgotten),
                     done |-> FALSE]]
    /\ UNCHANGED <<client, view, watched, cached, blind>>

Behind(entry) ==
    [entry EXCEPT !.data = IF @ = "CURRENT" THEN "BEHIND" ELSE @,
                  !.fetch = IF @ = "READ_CURRENT" THEN "READ_BEHIND" ELSE @]

ServerPerforms(h) ==
    /\ calls[h] # Null /\ ~calls[h].done
    /\ calls' = [calls EXCEPT ![h].done = TRUE]
    /\ cached' = IF calls[h].writes THEN Behind(cached) ELSE cached
    /\ UNCHANGED <<client, view, watched, blind>>

Lacking == cached.data = "BEHIND" \/ cached.fetch = "READ_BEHIND"

\* Marked, and fetched anew where it is mounted; a first load is joined, not cancelled.
Invalidated ==
    [cached EXCEPT !.marked = TRUE,
                   !.fetch = IF Mounted /\ (cached.data # "NONE" \/ @ = "IDLE") THEN "SENT" ELSE @]

CallSucceeds(h) ==
    /\ calls[h] # Null /\ calls[h].done
    /\ calls' = [calls EXCEPT ![h] = Null]
    /\ cached' = IF calls[h].names THEN Invalidated ELSE cached
    /\ blind' = \/ blind
                \/ Lacking /\ calls[h].missed
                \/ cached.fetch = "READ_BEHIND" /\ calls[h].names
                   /\ (~Mounted \/ cached.data = "NONE")
    /\ UNCHANGED <<client, view, watched>>

\* The answer is an error: after a change it is missed, as nothing is invalidated.
CallFails(h) ==
    /\ calls[h] # Null
    /\ calls' = [calls EXCEPT ![h] = Null]
    /\ blind' = (blind \/ (Lacking /\ calls[h].writes))
    /\ UNCHANGED <<client, view, watched, cached>>

CacheNext ==
    \/ \E s \in ScreensOf[client] : Show(s)
    \/ ServerReads \/ FetchLands \/ FetchFails \/ PollAgain \/ GrowOld \/ Collect
    \/ \E h \in Hands :
          \/ \E c \in AllCalls : SendCallOf(h, c)
          \/ ServerPerforms(h) \/ CallSucceeds(h) \/ CallFails(h)

CacheSpec == CacheInit /\ [][CacheNext]_cacheVars

-----------------------------------------------------------------------------
(* Once calls and fetches are through, a list on the screen shows what this page    *)
(* changed, on whichever screen and in whatever order: but for the pairs of          *)
(* Forgotten, the hooks name every list their screen shows (hooks/useLeave.ts,       *)
(* useDevices.ts and the others), and what is not shown is fetched when it is.       *)
(* Known to be missed are those pairs; lists of other screens that are not named,    *)
(* until their next fetch; a change that meets a first load or a fetch of a list     *)
(* just left, which lands and clears the mark; and what an error kept away.          *)
ShowsOwnChanges ==
    Mounted /\ cached.fetch = "IDLE" /\ (\A h \in Hands : calls[h] = Null)
        => cached.data # "BEHIND" \/ blind
=============================================================================
