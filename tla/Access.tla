-------------------------------- MODULE Access --------------------------------
(***************************************************************************)
(* Who may do what: the local administrator and the sessions of the        *)
(* dashboard (local_auth.py, web/dashboard.py), and the keys, scopes and   *)
(* request rates of the API (api/auth.py, api/app.py).                     *)
(*                                                                         *)
(* One process serves them on one event loop, and a handler that awaits    *)
(* nothing runs at once.  The process may die, in the middle of a handler  *)
(* too, and start again: the administrator is in a file, the request       *)
(* windows are in memory.                                                  *)
(***************************************************************************)
EXTENDS Cuts

CONSTANTS
    Browsers, Passwords,
    StrongPasswords,     \* those of at least 14 characters
    ApiKeys,                \* token -> [id, scopes] of the API keys
    ApiTokens,              \* what a caller may show, "" for none
    ApiScopes,              \* the scopes that requests ask for
    SessionAge,          \* maximum_age_seconds of valid_session
    MaxRequests, RateWindow, \* of SlidingWindowRateLimiter
    MaxTime,             \* bound: the clock stops there
    MaxSecrets           \* bound: of the session secrets drawn

ASSUME RateAssumption == MaxRequests \in Nat /\ RateWindow \in Nat

VARIABLES
    served,          \* whether the process of the part is up
    time,            \* time.time() and time.monotonic() in one
    stored,          \* local-administrator.json: NoAdministrator, TornFile or [password, secret]
    secretsMade,     \* how many session secrets were drawn
    cookie,          \* browser -> [issued, secret] or NoSession
    windows,         \* key id -> times, oldest first
    accepted,        \* history: key id -> times of the requests accepted since the start
    proved           \* history: browser -> the password it last proved to know, or ""

accessVars == <<served, time, stored, secretsMade, cookie, windows, accepted, proved>>

NoAdministrator == [none |-> TRUE]
NoSession == [none |-> TRUE]
TornFile == [torn |-> TRUE]
KeyIds == {ApiKeys[t].id : t \in DOMAIN ApiKeys}
-------------------------------------------------------------------------------
(* LocalAdministratorStore. *)

Configured == stored # NoAdministrator
AdministratorReadable == stored \notin {NoAdministrator, TornFile}

(* verify; the user's name is taken to be right. *)
Verifies(password) == AdministratorReadable /\ stored.password = password

SessionNow(secret) == [issued |-> time, secret |-> secret]

(* valid_session: of this administrator, not from the future, not too old, *)
(* and signed with the secret of the file as it is now.                    *)
ValidSession(session) ==
    /\ session # NoSession /\ AdministratorReadable
    /\ time - session.issued \in 0..SessionAge
    /\ session.secret = stored.secret

(* The middleware: a page of the dashboard wants a valid session. *)
LetIn(b) == Configured /\ ValidSession(cookie[b])

Proves(b, password, secret) ==
    /\ cookie' = [cookie EXCEPT ![b] = SessionNow(secret)]
    /\ proved' = [proved EXCEPT ![b] = password]

(* create and the session that follows it. *)
SetsUp(b, password) ==
    /\ served = "up" /\ password \in StrongPasswords /\ ~Configured /\ secretsMade < MaxSecrets
    /\ secretsMade' = secretsMade + 1
    /\ stored' = [password |-> password, secret |-> secretsMade + 1]
    /\ Proves(b, password, secretsMade + 1)
    /\ UNCHANGED <<served, time, windows, accepted>>

(* The process dies after create has opened the file and before what it    *)
(* wrote is in it.                                                         *)
TearsSetup ==
    /\ served = "up" /\ ~Configured
    /\ stored' = TornFile
    /\ served' = "down"
    /\ UNCHANGED <<time, secretsMade, cookie, windows, accepted, proved>>

LogsIn(b, password) ==
    /\ served = "up" /\ Verifies(password)
    /\ Proves(b, password, stored.secret)
    /\ UNCHANGED <<served, time, stored, secretsMade, windows, accepted>>

LogsOut(b) ==
    /\ served = "up" /\ cookie[b] # NoSession
    /\ cookie' = [cookie EXCEPT ![b] = NoSession]
    /\ UNCHANGED <<served, time, stored, secretsMade, windows, accepted, proved>>

(* Mutant of Rotated: the password is new, the sessions go on. *)
Rotated_Keeps(password) == [password |-> password, secret |-> stored.secret]

(* What change_password writes: a fresh secret ends all the sessions. *)
Rotated(password) == [password |-> password, secret |-> secretsMade + 1]

MayChange(b, current, new) ==
    /\ LetIn(b) /\ Verifies(current) /\ secretsMade < MaxSecrets
    /\ new \in StrongPasswords /\ new # current

(* change_password and the new session of who asked for it. *)
ChangesPassword(b, current, new) ==
    /\ served = "up" /\ MayChange(b, current, new)
    /\ stored' = Rotated(new)
    /\ secretsMade' = secretsMade + 1
    /\ Proves(b, new, stored'.secret)
    /\ UNCHANGED <<served, time, windows, accepted>>

(* The process dies after the file was replaced and before the answer. *)
DiesChanging(b, current, new) ==
    /\ served = "up" /\ MayChange(b, current, new)
    /\ stored' = Rotated(new)
    /\ secretsMade' = secretsMade + 1
    /\ served' = "down"
    /\ UNCHANGED <<time, cookie, windows, accepted, proved>>
-------------------------------------------------------------------------------
(* The API: authentication, then the scope, then the request rate. *)

Authenticates(token) == token # "" /\ token \in DOMAIN ApiKeys

(* What is popped: the longest front part of times that are old. *)
Outdated(times) == {n \in 0..Len(times) : \A i \in 1..n : times[i] <= time - RateWindow}
StillCounted(times) == SubSeq(times, Max(Outdated(times)) + 1, Len(times))

(* check: a refused request does not count. *)
Admitted(times) == Len(times) < MaxRequests

(* require_scope.  What is refused before check leaves no trace. *)
Calls(token, scope) ==
    /\ served = "up" /\ Authenticates(token) /\ scope \in ApiKeys[token].scopes
    /\ LET id == ApiKeys[token].id
           window == StillCounted(windows[id])
       IN  /\ windows' = [windows EXCEPT ![id] = IF Admitted(window) THEN Append(window, time) ELSE window]
           /\ accepted' = [accepted EXCEPT ![id] = IF Admitted(window) THEN Append(@, time) ELSE @]
    /\ UNCHANGED <<served, time, stored, secretsMade, cookie, proved>>
-------------------------------------------------------------------------------
TimePasses ==
    /\ served # "off" /\ time < MaxTime
    /\ time' = time + 1
    /\ UNCHANGED <<served, stored, secretsMade, cookie, windows, accepted, proved>>

EmptyWindows == [id \in KeyIds |-> <<>>]

(* The service manager starts a new process: its limiter is a new one. *)
Restarts ==
    /\ served = "down"
    /\ served' = "up"
    /\ windows' = EmptyWindows /\ accepted' = EmptyWindows
    /\ UNCHANGED <<time, stored, secretsMade, cookie, proved>>

AccessFresh ==
    /\ time = 0 /\ stored = NoAdministrator /\ secretsMade = 0
    /\ cookie = [b \in Browsers |-> NoSession] /\ proved = [b \in Browsers |-> ""]
    /\ windows = EmptyWindows /\ accepted = EmptyWindows

AccessIdle == served = "off" /\ AccessFresh
AccessInit == served = "up" /\ AccessFresh

AccessNext ==
    \/ \E b \in Browsers, p \in Passwords : SetsUp(b, p)
    \/ TearsSetup
    \/ \E b \in Browsers, p \in Passwords : LogsIn(b, p)
    \/ \E b \in Browsers : LogsOut(b)
    \/ \E b \in Browsers, p, q \in Passwords : ChangesPassword(b, p, q)
    \/ \E b \in Browsers, p, q \in Passwords : DiesChanging(b, p, q)
    \/ \E t \in ApiTokens, s \in ApiScopes : Calls(t, s)
    \/ TimePasses
    \/ Restarts

AccessSpec == AccessInit /\ [][AccessNext]_accessVars
-------------------------------------------------------------------------------
(* Properties. *)

(* The administrator is stored whole, torn or not at all, and the times    *)
(* kept for a key are ordered.                                             *)
AccessTypeOK ==
    /\ served \in {"off", "up", "down"} /\ time \in 0..MaxTime
    /\ stored \in {NoAdministrator, TornFile} \/ stored \in [password : Passwords, secret : 1..secretsMade]
    /\ \A b \in Browsers : cookie[b] = NoSession \/ cookie[b] \in [issued : 0..time, secret : 1..secretsMade]
    /\ \A id \in KeyIds : \A i, j \in DOMAIN windows[id] : i <= j => windows[id][i] <= windows[id][j]

(* Whoever still gets in has proved to know the password that holds now:   *)
(* changing it signs every other browser out, also when the process died   *)
(* before it could answer (docs/dashboard.md:36-37).                       *)
SessionsKnowThePassword ==
    \A b \in Browsers : ValidSession(cookie[b]) => proved[b] = stored.password

(* In no stretch of time as long as the window were more requests of a key *)
(* accepted than the maximum (docs/api.md:31-33), as long as the process   *)
(* lives: a request and the one the maximum after it are a window apart.   *)
RateIsBounded ==
    \A id \in KeyIds : \A i, j \in DOMAIN accepted[id] :
        j = i + MaxRequests => accepted[id][j] - accepted[id][i] >= RateWindow

(* Access to the dashboard and to the API is what was promised, whatever   *)
(* the order of logins, password changes, calls and crashes.               *)
AccessIsEarned == SessionsKnowThePassword /\ RateIsBounded
===============================================================================
