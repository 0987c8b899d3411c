-------------------------------- MODULE Session --------------------------------
(***************************************************************************)
(* Who is signed in: the pages of one browser, the token, the user record  *)
(* and the Workbench layout they share through localStorage, and the calls *)
(* they send (lib/auth-store.ts, lib/api.ts, hooks/useRequireAuth.ts,      *)
(* hooks/useWorkbenchStore.ts, components/shell/AppShellRoot.tsx).         *)
(*                                                                         *)
(* A page reads the token and the record once, when it hydrates, and sends *)
(* with every call the token that is in localStorage by then.  A token is  *)
(* named after its login: two tokens of one login are not told apart.  Of  *)
(* a layout only the logins that opened its tabs are kept.  A page has one *)
(* call at a time on its way.                                              *)
(***************************************************************************)
EXTENDS Common

CONSTANTS
    Pages,       \* pages (tabs and windows) of the browser
    Visitors,    \* logins
    Casts,       \* which roles they have: functions from Visitors (input set)
    OpenedAt     \* where pages are opened (input set)

VARIABLES
    page,    \* an open page, or Null
    kept,  \* localStorage: smart_hrm_token and smart_hrm_user
    layout,  \* localStorage: smart_hrm_workbench_v1, by who opened the tabs
    roleOf,  \* User.role, chosen once
    valid,   \* the logins whose tokens the server accepts
    shared   \* history: two logins have used the browser without a sign-out between

sessionVars == <<page, kept, layout, roleOf, valid, shared>>

Paths == {"ROOT", "LOGIN", "HRADMIN", "MANAGER", "SUPERVISOR", "EMPLOYEE"}
PortalRoles == {"EMPLOYEE", "SUPERVISOR", "MANAGER", "HR"}
UserRecord == [of : Visitors, role : PortalRoles, must : BOOLEAN]
Forms == {"STAFF", "EMPLOYEE"}
WebCall == [kind : {"SIGNIN", "SIGNOUT", "CHANGE", "POLL"}, as : Visitors \cup {Null},
            to : Paths \cup {Null}]
Page == [path : Paths, hydrated : BOOLEAN, token : Visitors \cup {Null},
         user : UserRecord \cup {Null}, bench : (SUBSET Visitors) \cup {Null},
         call : WebCall \cup {Null}]

ASSUME SessionAssumption ==
    /\ Casts \subseteq [Visitors -> PortalRoles] /\ OpenedAt \subseteq Paths
    /\ Null \notin Visitors /\ Null \notin Paths /\ \A tabs \in SUBSET Visitors : tabs # Null
    /\ Null \notin Page /\ Null \notin UserRecord /\ Null \notin WebCall

(* Pages, calls and what they keep are of their types, and no token is kept without  *)
(* its record, which would open the Admin/HR area to anybody (useRequireAuth's ready). *)
SessionTypeOK ==
    /\ page \in [Pages -> Page \cup {Null}]
    /\ kept \in [token : Visitors \cup {Null}, user : UserRecord \cup {Null}]
    /\ kept.token # Null => kept.user # Null
    /\ layout \in (SUBSET Visitors) \cup {Null}
    /\ roleOf \in [Visitors -> PortalRoles]
    /\ valid \subseteq Visitors
    /\ shared \in BOOLEAN

NobodyStored == [token |-> Null, user |-> Null]

SessionInit ==
    /\ page = [p \in Pages |-> Null]
    /\ kept = NobodyStored
    /\ layout = Null
    /\ roleOf \in Casts
    /\ valid = {}
    /\ shared = FALSE

-----------------------------------------------------------------------------
(* Areas. *)

HomeRoute(role) == IF role \in {"EMPLOYEE", "MANAGER", "SUPERVISOR"} THEN role ELSE "HRADMIN"

InArea(path, role) ==
    IF role \in {"EMPLOYEE", "MANAGER", "SUPERVISOR"} THEN path = role ELSE path = "HRADMIN"

\* The page shows its area and no longer a spinner.
Ready(p) ==
    /\ page[p] # Null /\ page[p].path \notin {"ROOT", "LOGIN"}
    /\ page[p].hydrated /\ page[p].token # Null
    /\ page[p].user # Null => InArea(page[p].path, page[p].user.role)

\* A page as it is loaded, with empty stores.
Loaded(path) == [path |-> path, hydrated |-> FALSE, token |-> Null, user |-> Null,
                 bench |-> Null, call |-> Null]

OpenPage(p, path) ==
    /\ page[p] = Null
    /\ page' = [page EXCEPT ![p] = Loaded(path)]
    /\ UNCHANGED <<kept, layout, roleOf, valid, shared>>

ClosePage(p) ==
    /\ page[p] # Null
    /\ page' = [page EXCEPT ![p] = Null]
    /\ UNCHANGED <<kept, layout, roleOf, valid, shared>>

\* Where the effects of a page with these stores send it next.
NextPath(g) ==
    LET home == HomeRoute(IF g.user = Null THEN Null ELSE g.user.role)
    IN  CASE g.path = "LOGIN" -> IF g.token = Null THEN "LOGIN" ELSE home
          [] g.path # "LOGIN" /\ g.token = Null -> "LOGIN"
          [] g.path = "ROOT" /\ g.token # Null -> home
          [] OTHER -> IF g.user = Null \/ InArea(g.path, g.user.role) THEN g.path ELSE home

\* The tabs AppShellRoot restores when it mounts, ready or not; never twice.
Tabs(g) == IF g.path = "HRADMIN" /\ g.bench = Null
           THEN IF layout = Null THEN {} ELSE layout ELSE g.bench

\* hydrate() and the effects that follow; only the first ones read what pages share.
\* A login page without a token stays, any other without one hydrates there anew.
Hydrate(p) ==
    /\ page[p] # Null /\ ~page[p].hydrated
    /\ LET g == [page[p] EXCEPT !.hydrated = TRUE, !.token = kept.token, !.user = kept.user,
                                !.bench = Tabs(page[p])]
       IN  /\ page' = [page EXCEPT ![p] =
                          [g EXCEPT !.path = NextPath(g),
                                    !.hydrated = g.path = "LOGIN" \/ NextPath(g) # "LOGIN"]]
           /\ layout' = IF g.bench = page[p].bench THEN layout ELSE g.bench
    /\ UNCHANGED <<kept, roleOf, valid, shared>>

\* A navigation inside the page: its stores stay, but the login page hydrates anew.
Redirect(p) ==
    /\ page[p] # Null /\ page[p].hydrated /\ NextPath(page[p]) # page[p].path
    /\ page' = [page EXCEPT ![p] = [@ EXCEPT !.path = NextPath(page[p]),
                                             !.hydrated = NextPath(page[p]) # "LOGIN"]]
    /\ UNCHANGED <<kept, layout, roleOf, valid, shared>>

-----------------------------------------------------------------------------
(* The Workbench layout of the Admin/HR area. *)

\* A page that arrives at the area with its stores restores it there, and the store
\* mirrors every change back.
RestoreLayout(p) ==
    /\ page[p] # Null /\ page[p].hydrated /\ page[p].path = "HRADMIN" /\ page[p].bench = Null
    /\ page' = [page EXCEPT ![p].bench = Tabs(page[p])]
    /\ layout' = Tabs(page[p])
    /\ UNCHANGED <<kept, roleOf, valid, shared>>

\* openProgram, closeTab and their like.
ChangeTabs(p, tabs) ==
    /\ Ready(p) /\ page[p].path = "HRADMIN" /\ page[p].bench # Null /\ page[p].user # Null
    /\ tabs \in {page[p].bench \cup {page[p].user.of}} \cup SUBSET page[p].bench
    /\ page' = [page EXCEPT ![p].bench = tabs]
    /\ layout' = tabs
    /\ UNCHANGED <<kept, roleOf, valid, shared>>

-----------------------------------------------------------------------------
(* Calls and their answers. *)

SendCall(p, kind, as, to) ==
    /\ page[p].call = Null
    /\ page' = [page EXCEPT ![p].call = [kind |-> kind, as |-> as, to |-> to]]
    /\ UNCHANGED <<kept, layout, roleOf, valid, shared>>

\* The password gate stands in front of the employee portal.
AtGate(p) == page[p].path = "EMPLOYEE" /\ page[p].user # Null /\ page[p].user.must

\* The header with the bell and the user's menu is on the page.
HasHeader(p) ==
    /\ Ready(p) /\ ~AtGate(p)
    /\ page[p].path = "HRADMIN" => page[p].bench # Null

SignIn(p, u, form) ==
    /\ page[p] # Null /\ page[p].path = "LOGIN"
    /\ page[p].hydrated /\ page[p].token = Null
    /\ SendCall(p, "SIGNIN", u, IF form = "STAFF" THEN "HRADMIN" ELSE HomeRoute(roleOf[u]))

SignOut(p) == HasHeader(p) /\ SendCall(p, "SIGNOUT", kept.token, Null)

\* The bell's half-minute poll; the token is whichever localStorage holds.
Poll(p) == HasHeader(p) /\ SendCall(p, "POLL", kept.token, Null)

SendNewPassword(p) ==
    /\ Ready(p) /\ AtGate(p)
    /\ SendCall(p, "CHANGE", kept.token, Null)

\* The logins the other open pages show.
Elsewhere(p) ==
    {page[q].user.of : q \in {q \in Pages \ {p} : page[q] # Null /\ page[q].user # Null}}

\* issueSession answers with the token and the record; a refused sign-in is Unauthorized.
Admitted(p) ==
    LET call == page[p].call IN
    /\ page[p] # Null /\ call # Null /\ call.kind = "SIGNIN"
    /\ \E must \in (IF roleOf[call.as] = "EMPLOYEE" THEN BOOLEAN ELSE {FALSE}) :
          LET me == [of |-> call.as, role |-> roleOf[call.as], must |-> must] IN
          /\ kept' = [token |-> call.as, user |-> me]
          /\ page' = [page EXCEPT ![p] = [@ EXCEPT !.token = call.as, !.user = me,
                                                   !.call = Null, !.path = call.to]]
    /\ shared' = (shared \/ ~(Elsewhere(p) \cup {kept.token} \subseteq {call.as, Null}))
    /\ valid' = valid \cup {call.as}
    /\ UNCHANGED <<layout, roleOf>>

\* Slip: the page stays where it is.
UnauthorizedStaying(p) ==
    LET call == page[p].call IN
    /\ page[p] # Null /\ call # Null /\ call.kind # "SIGNOUT"
    /\ call.kind = "SIGNIN" \/ call.as \notin valid
    /\ kept' = NobodyStored
    /\ page' = [page EXCEPT ![p].call = Null]
    /\ shared' = (shared \/ Elsewhere(p) # {} \/ layout \notin {Null, {}})
    /\ UNCHANGED <<layout, roleOf, valid>>

\* The interceptor forgets whoever is kept by then, and leaves for the login page.
Unauthorized(p) ==
    LET call == page[p].call IN
    /\ page[p] # Null /\ call # Null /\ call.kind # "SIGNOUT"
    /\ call.kind = "SIGNIN" \/ call.as \notin valid
    /\ kept' = NobodyStored
    /\ page' = [page EXCEPT ![p] = IF @.path = "LOGIN" THEN [@ EXCEPT !.call = Null]
                                                       ELSE Loaded("LOGIN")]
    /\ shared' = (shared \/ Elsewhere(p) # {} \/ layout \notin {Null, {}})
    /\ UNCHANGED <<layout, roleOf, valid>>

\* Slip: the layout stays behind.
SignedOutKeeping(p) ==
    /\ page[p] # Null /\ page[p].call # Null /\ page[p].call.kind = "SIGNOUT"
    /\ kept' = NobodyStored
    /\ page' = [page EXCEPT ![p] = Loaded("LOGIN")]
    /\ shared' = (shared \/ Elsewhere(p) # {})
    /\ UNCHANGED <<layout, roleOf, valid>>

\* Whatever the answer, logout() clears all three and reloads.
SignedOut(p) ==
    /\ page[p] # Null /\ page[p].call # Null /\ page[p].call.kind = "SIGNOUT"
    /\ kept' = NobodyStored
    /\ layout' = Null
    /\ page' = [page EXCEPT ![p] = Loaded("LOGIN")]
    /\ shared' = (shared \/ Elsewhere(p) # {})
    /\ UNCHANGED <<roleOf, valid>>

\* A change of password that the server accepts: setUser writes this page's record.
PasswordChanged(p) ==
    LET me == [page[p].user EXCEPT !.must = FALSE] IN
    /\ page[p] # Null /\ page[p].call # Null /\ page[p].call.kind = "CHANGE"
    /\ page[p].call.as \in valid \cap {page[p].user.of}
    /\ kept' = [kept EXCEPT !.user = me]
    /\ page' = [page EXCEPT ![p].user = me, ![p].call = Null]
    /\ UNCHANGED <<layout, roleOf, valid, shared>>

\* An answer that changes nothing: notifications, a wrong password, no network.
NothingChanges(p) ==
    /\ page[p] # Null /\ page[p].call # Null
    /\ page[p].call.kind # "SIGNOUT"
    /\ page[p].call.kind = "POLL" => page[p].call.as \in valid
    /\ page' = [page EXCEPT ![p].call = Null]
    /\ UNCHANGED <<kept, layout, roleOf, valid, shared>>

\* A token runs out, or its login is disabled or removed.
Expire(u) ==
    /\ u \in valid
    /\ valid' = valid \ {u}
    /\ UNCHANGED <<page, kept, layout, roleOf, shared>>

-----------------------------------------------------------------------------
Answer(p) ==
    \/ Admitted(p) \/ Unauthorized(p) \/ SignedOut(p)
    \/ PasswordChanged(p) \/ NothingChanges(p)

Polling(p) == Poll(p) \/ Answer(p)
Effects(p) == Hydrate(p) \/ Redirect(p) \/ RestoreLayout(p)

SessionNext ==
    \/ \E p \in Pages :
          \/ \E path \in OpenedAt : OpenPage(p, path)
          \/ ClosePage(p) \/ Effects(p)
          \/ \E tabs \in SUBSET Visitors : ChangeTabs(p, tabs)
          \/ \E u \in Visitors, form \in Forms : SignIn(p, u, form)
          \/ SignOut(p) \/ SendNewPassword(p) \/ Polling(p)
    \/ \E u \in Visitors : Expire(u)

\* A page runs its effects, polls while it is looked at, and is answered.
SessionSpec ==
    /\ SessionInit /\ [][SessionNext]_sessionVars
    /\ \A p \in Pages : WF_sessionVars(Effects(p)) /\ WF_sessionVars(Polling(p))

-----------------------------------------------------------------------------
(* A Workbench shows its own login's tabs only, unless logins shared the browser  *)
(* without a sign-out of the last page between them (hooks/useWorkbenchStore.ts:  *)
(* 171-172: "so the next person to sign in on this browser doesn't inherit the    *)
(* previous user's open tabs").                                                   *)
NobodyInherits ==
    \A p \in Pages :
        Ready(p) /\ page[p].path = "HRADMIN" /\ page[p].bench # Null /\ page[p].user # Null
            => shared \/ page[p].bench \subseteq {page[p].user.of}

(* A page that goes on showing an area after its token ran out, or after another   *)
(* page signed out, is sent away by the next poll, unless somebody signs in        *)
(* meanwhile (lib/api.ts:20-31); the password gate does not poll.                  *)
RefusedLeave == \A p \in Pages : []<>~(HasHeader(p) /\ kept.token \notin valid)
=============================================================================
