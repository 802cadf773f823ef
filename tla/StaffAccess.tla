---------------------------- MODULE StaffAccess ----------------------------
(***************************************************************************)
(* Signing in: the login with its rate limit, the tokens, and the kitchen  *)
(* page of the admin web in one tab, which keeps itself signed in and its  *)
(* event stream open.                                                      *)
(*                                                                         *)
(* The page asks for "me" when it is loaded, for "poll", its query, all    *)
(* the time, for "move", a mutation, when staff wants, and for "sse", the  *)
(* token of the stream, every few minutes.  One request of each kind is in *)
(* progress at a time.  Times are abstracted: a token is fresh until it    *)
(* expires, a bucket locked until it is unlocked.  A request is answered   *)
(* in one step with its arrival, from what held at some time in between.   *)
(***************************************************************************)
EXTENDS Naturals, FiniteSetsExt

CONSTANTS
    Users, None,
    MaxAttempts,    \* failures after which a bucket is locked
    MaxTroubles     \* bound on lost requests, broken streams, reloads, tokens
                    \* that expire, sign-outs, and logins in vain or elsewhere

ASSUME AccessBounds == {MaxAttempts, MaxTroubles} \subseteq Nat

VARIABLES
    active,     \* users whose status is "active"
    bucket,     \* login attempts per user
    attempt,    \* the login that is in progress in the tab
    store,      \* session storage of the tab
    page,       \* what the tab shows
    request,    \* requests of the page by kind
    flight,     \* refreshInFlight
    stream,     \* the EventSource
    overtaken,  \* a sign-in came while requests of an earlier one were open
    troubles

server == <<active, bucket, attempt>>
vars == <<server, store, page, request, flight, stream, overtaken, troubles>>

\* "either" is a token that stopped being good after it was sent.
Token == [sub : Users, age : {"fresh", "either", "stale"}]
Issued(u) == [sub |-> u, age |-> "fresh"]
Kinds == {"me", "poll", "move", "sse"}
Call == [by : Users, token : Token, step : {"sent", "waiting", "again"},
         wanted : BOOLEAN]
Login == [user : Users, right : BOOLEAN, granted : BOOLEAN]
SignedOut == [access |-> None, refresh |-> None, user |-> None]
NoStream == [state |-> "none", fresh |-> FALSE]

ASSUME AccessNone ==
    /\ None \notin Users /\ None \notin Token
    /\ None \notin Call /\ None \notin Login

AccessTypeOK ==
    /\ active \in SUBSET Users
    /\ bucket \in [Users -> [count : 0 .. MaxAttempts, locked : BOOLEAN]]
    /\ attempt \in Login \cup {None}
    /\ store \in [access : Token \cup {None}, refresh : Token \cup {None},
                  user : Users \cup {None}]
    /\ page \in {"login", "loading", "open", "leaving"}
    /\ request \in [Kinds -> Call \cup {None}]
    /\ flight \in Token \cup {None}
    /\ stream \in [state : {"none", "connecting", "open", "closed"},
                   fresh : BOOLEAN]
    /\ overtaken \in BOOLEAN
    /\ troubles \in 0 .. MaxTroubles

Init ==
    /\ active = Users
    /\ bucket = [u \in Users |-> [count |-> 0, locked |-> FALSE]]
    /\ attempt = None
    /\ store = SignedOut /\ page = "login"
    /\ request = [k \in Kinds |-> None]
    /\ flight = None /\ stream = NoStream
    /\ overtaken = FALSE
    /\ troubles = 0

Trouble == troubles < MaxTroubles /\ troubles' = troubles + 1

-----------------------------------------------------------------------------
(* handleLogin and the rate limit.                                         *)

\* Done in the database; somebody stays.
Deactivate(u) ==
    /\ u \in active /\ active # {u}
    /\ active' = active \ {u}
    /\ flight' = IF flight = Issued(u) THEN [flight EXCEPT !.age = "either"]
                                       ELSE flight
    /\ UNCHANGED <<bucket, attempt, store, page, request, stream, overtaken,
                   troubles>>

CheckRateLimit(u) == ~bucket[u].locked

\* Further failures only make the locks longer.
FailRateLimit(u) ==
    LET failures == Min({bucket[u].count + 1, MaxAttempts}) IN
    bucket' = [bucket EXCEPT ![u] = [count |-> failures,
                                     locked |-> failures = MaxAttempts]]

ResetRateLimit(u) ==
    bucket' = [bucket EXCEPT ![u] = [count |-> 0, locked |-> FALSE]]

\* The lock runs out; the failures stay counted.
Unlock(u) ==
    /\ bucket[u].locked
    /\ bucket' = [bucket EXCEPT ![u].locked = FALSE]
    /\ UNCHANGED <<active, attempt, store, page, request, flight, stream,
                   overtaken, troubles>>

\* An attempt from elsewhere ends, which was let in some time ago.
AttemptElsewhere(u) ==
    /\ Trouble
    /\ FailRateLimit(u) \/ ResetRateLimit(u)
    /\ UNCHANGED <<active, attempt, store, page, request, flight, stream,
                   overtaken>>

BeginLogin(u, right) ==
    /\ attempt = None /\ page = "login"
    /\ CheckRateLimit(u)
    /\ IF right /\ u \in active THEN UNCHANGED troubles
                                 ELSE Trouble
    /\ attempt' = [user |-> u, right |-> right, granted |-> FALSE]
    /\ UNCHANGED <<active, bucket, store, page, request, flight, stream,
                   overtaken>>

\* The user is looked up and the password verified, some time later.
FinishLogin ==
    /\ attempt # None /\ ~attempt.granted
    /\ LET u == attempt.user IN
       IF u \in active /\ attempt.right
       THEN ResetRateLimit(u) /\ attempt' = [attempt EXCEPT !.granted = TRUE]
       ELSE FailRateLimit(u) /\ attempt' = None
    /\ UNCHANGED <<active, store, page, request, flight, stream, overtaken, troubles>>

\* LoginForm: the answer is stored, and the page loaded in the same document.
SignIn ==
    /\ attempt # None /\ attempt.granted
    /\ LET u == attempt.user IN
       store' = [access |-> Issued(u), refresh |-> Issued(u), user |-> u]
    /\ attempt' = None
    /\ page' = "loading"
    /\ overtaken' = (overtaken \/ flight # None
                     \/ \E k \in Kinds : request[k] # None)
    /\ UNCHANGED <<active, bucket, request, flight, stream, troubles>>

LoseLogin ==
    /\ attempt # None /\ attempt.granted
    /\ Trouble
    /\ attempt' = None
    /\ UNCHANGED <<active, bucket, store, page, request, flight, stream, overtaken>>

-----------------------------------------------------------------------------
(* Requests of the page.                                                   *)

\* Mutant: a stream's token is asked for only while there is none.
DueOnce(kind) ==
    CASE kind = "me" -> page = "loading"
      [] kind \in {"poll", "move"} -> page = "open"
      [] kind = "sse" -> page = "open" /\ stream.state = "none"

\* validateSession on mount; refetchInterval; the interval of useKitchenSSE.
Due(kind) ==
    CASE kind = "me" -> page = "loading"
      [] kind \in {"poll", "move", "sse"} -> page = "open"

\* execute, up to the fetch.
Ask(kind) ==
    /\ request[kind] = None /\ Due(kind) /\ store.access # None
    /\ request' = [request EXCEPT ![kind] =
           [by |-> store.user, token |-> store.access, step |-> "sent",
            wanted |-> TRUE]]
    /\ UNCHANGED <<server, store, page, flight, stream, overtaken, troubles>>

\* What the check of a token says, some time between request and answer;
\* good is the rest of it.
Verdicts(token, good) ==
    CASE token.age = "fresh" -> {good}
      [] token.age = "stale" -> {FALSE}
      [] token.age = "either" -> BOOLEAN

Sent(kind) == request[kind] # None /\ request[kind].step # "waiting"
Done(kind) == request' = [request EXCEPT ![kind] = None]

\* signOutAndRedirect: elsewhere than on the login page, the browser is told
\* to load that one.
SignOutAndRedirect ==
    /\ store' = SignedOut
    /\ page' = IF page = "login" THEN "login" ELSE "leaving"

\* requireUser lets it pass.  A loaded page is shown, a new token makes a new
\* EventSource.
Answered(kind) ==
    /\ Sent(kind) /\ TRUE \in Verdicts(request[kind].token, TRUE)
    /\ Done(kind)
    /\ page' = IF kind = "me" /\ page = "loading" THEN "open" ELSE page
    /\ stream' = IF kind = "sse" /\ request[kind].wanted
                 THEN [state |-> "connecting", fresh |-> TRUE] ELSE stream
    /\ UNCHANGED <<server, store, flight, overtaken, troubles>>

Refused(kind) == Sent(kind) /\ FALSE \in Verdicts(request[kind].token, TRUE)
Retried(kind) == kind # "sse" /\ request[kind].step = "sent"

\* validateSession signs out, fetchSseToken has no token.
Failed(kind) ==
    /\ Done(kind)
    /\ IF kind = "me" THEN SignOutAndRedirect ELSE UNCHANGED <<store, page>>
    /\ stream' = IF kind = "sse" /\ request[kind].wanted THEN NoStream ELSE stream
    /\ UNCHANGED <<server, flight, overtaken>>

\* A request that is refused a second time, or under /auth/.
RefusedForGood(kind) ==
    Refused(kind) /\ ~Retried(kind) /\ Failed(kind) /\ UNCHANGED troubles

LoseRequest(kind) == Sent(kind) /\ Trouble /\ Failed(kind)

\* Mutant: a refresh in flight is taken for one that failed.
RefuseSecond(kind) ==
    /\ Refused(kind) /\ Retried(kind)
    /\ IF store.refresh = None \/ flight # None
       THEN SignOutAndRedirect /\ Done(kind) /\ UNCHANGED flight
       ELSE /\ flight' = store.refresh
            /\ request' = [request EXCEPT ![kind].step = "waiting"]
            /\ UNCHANGED <<store, page>>
    /\ UNCHANGED <<server, stream, overtaken, troubles>>

\* api after a 401: one refresh at a time, which every such request awaits.
AwaitRefresh(kind) ==
    /\ Refused(kind) /\ Retried(kind)
    /\ IF store.refresh = None
       THEN SignOutAndRedirect /\ Done(kind) /\ UNCHANGED flight
       ELSE /\ flight' = IF flight # None THEN flight ELSE store.refresh
            /\ request' = [request EXCEPT ![kind].step = "waiting"]
            /\ UNCHANGED <<store, page>>
    /\ UNCHANGED <<server, stream, overtaken, troubles>>

Waiting == {k \in Kinds : request[k] # None /\ request[k].step = "waiting"}

\* handleRefresh.
Refreshed == Verdicts(flight, flight.sub \in active)

\* The requests that wait are sent again, or sign out.
Renewed ==
    LET access == Issued(flight.sub) IN
    /\ store' = [store EXCEPT !.access = access, !.refresh = access]
    /\ request' = [k \in Kinds |->
           IF k \in Waiting
           THEN [request[k] EXCEPT !.token = access, !.step = "again"]
           ELSE request[k]]
    /\ flight' = None
    /\ UNCHANGED <<server, page, stream, overtaken, troubles>>
NotRenewed ==
    /\ SignOutAndRedirect
    /\ request' = [k \in Kinds |-> IF k \in Waiting THEN None ELSE request[k]]
    /\ flight' = None
    /\ UNCHANGED <<server, stream, overtaken>>

\* Mutant: the tokens are stored whether or not somebody is signed in.
LandUnchecked ==
    /\ flight # None
    /\ \/ TRUE \in Refreshed /\ Renewed
       \/ FALSE \in Refreshed /\ NotRenewed /\ UNCHANGED troubles

\* refreshAccessToken after its fetch: the user is the one stored by now.
LandRefresh ==
    /\ flight # None
    /\ \/ TRUE \in Refreshed /\ store.user # None /\ Renewed
       \/ (FALSE \in Refreshed \/ store.user = None) /\ NotRenewed /\ UNCHANGED troubles

LoseRefresh == flight # None /\ Trouble /\ NotRenewed

-----------------------------------------------------------------------------
(* The stream.                                                             *)

\* requireUserForSse.
Admitted == stream.fresh

\* The kitchen's stream; the browser does not try again after a refusal.
Connect ==
    /\ stream.state = "connecting"
    /\ stream' = [stream EXCEPT !.state = IF Admitted THEN "open" ELSE "closed"]
    /\ UNCHANGED <<server, store, page, request, flight, overtaken, troubles>>

\* The browser reconnects to the same URL.
Disconnect ==
    /\ stream.state = "open"
    /\ Trouble
    /\ stream' = [stream EXCEPT !.state = "connecting"]
    /\ UNCHANGED <<server, store, page, request, flight, overtaken>>

-----------------------------------------------------------------------------
(* The user, the browser and time.                                         *)

\* The page is left within the document: its requests and a refresh go on.
SignOut ==
    /\ page = "open"
    /\ Trouble
    /\ store' = SignedOut /\ page' = "login" /\ stream' = NoStream
    /\ request' = IF request["sse"] = None THEN request
                  ELSE [request EXCEPT !["sse"].wanted = FALSE]
    /\ UNCHANGED <<server, flight, overtaken>>

NewDocument ==
    /\ request' = [k \in Kinds |-> None]
    /\ flight' = None /\ stream' = NoStream
    /\ UNCHANGED <<server, store, overtaken>>

Redirect ==
    /\ page = "leaving" /\ page' = "login"
    /\ NewDocument /\ UNCHANGED troubles

Reload ==
    /\ page \in {"loading", "open"}
    /\ Trouble
    /\ page' = IF store.access = None THEN "login" ELSE "loading"
    /\ NewDocument

Stale(token) == IF token = None THEN None ELSE [token EXCEPT !.age = "stale"]
OldRequests ==
    [k \in Kinds |-> IF request[k] = None \/ request[k].token.age # "fresh"
                     THEN request[k]
                     ELSE [request[k] EXCEPT !.token.age = "either"]]

\* After 15 minutes the access token, with the copies that are older than it.
ExpireAccess ==
    /\ store.access # None /\ store.access.age = "fresh"
    /\ Trouble
    /\ store' = [store EXCEPT !.access = Stale(@)]
    /\ request' = OldRequests
    /\ UNCHANGED <<server, page, flight, stream, overtaken>>

\* After 30 days without a request.
ExpireRefresh ==
    /\ store.refresh # None /\ store.refresh.age = "fresh" /\ flight = None
    /\ Trouble
    /\ store' = [store EXCEPT !.access = Stale(@), !.refresh = Stale(@)]
    /\ request' = OldRequests
    /\ UNCHANGED <<server, page, flight, stream, overtaken>>

\* After 5 minutes; a stream that is open stays open.
ExpireStream ==
    /\ stream.fresh
    /\ Trouble
    /\ stream' = [stream EXCEPT !.fresh = FALSE]
    /\ UNCHANGED <<server, store, page, request, flight, overtaken>>

-----------------------------------------------------------------------------

Land(kind) == Answered(kind) \/ RefusedForGood(kind) \/ AwaitRefresh(kind)
SignInAgain == \E u \in active : BeginLogin(u, TRUE)

Next ==
    \/ \E u \in Users :
           \/ Deactivate(u) \/ Unlock(u) \/ AttemptElsewhere(u)
           \/ \E right \in BOOLEAN : BeginLogin(u, right)
    \/ FinishLogin \/ SignIn \/ LoseLogin
    \/ \E kind \in Kinds :
           Ask(kind) \/ Land(kind) \/ LoseRequest(kind)
    \/ LandRefresh \/ LoseRefresh
    \/ Connect \/ Disconnect
    \/ SignOut \/ Redirect \/ Reload
    \/ ExpireAccess \/ ExpireRefresh \/ ExpireStream

Spec == Init /\ [][Next]_vars

\* Requests are answered or lost, the timers of the page run, locks run out,
\* and staff that finds the login page signs in.
FairSpec ==
    /\ Spec
    /\ WF_vars(SignInAgain) /\ WF_vars(FinishLogin) /\ WF_vars(SignIn)
    /\ \A u \in Users : WF_vars(Unlock(u))
    /\ \A kind \in Kinds :
           /\ kind # "move" => WF_vars(Ask(kind))
           /\ WF_vars(Land(kind))
    /\ WF_vars(LandRefresh)
    /\ WF_vars(Connect) /\ WF_vars(Redirect)

-----------------------------------------------------------------------------
(* Properties.                                                             *)

\* The stored token is that of the stored user, and a request carries the
\* token of the user who made it, whatever sign-outs come while a refresh is
\* in flight; unless somebody signed in over requests of an earlier user.
NamesMatch ==
    overtaken \/
        /\ store.access # None => store.access.sub = store.user
        /\ \A k \in Kinds :
               request[k] # None => request[k].token.sub = request[k].by

\* An expired access token alone signs nobody out: it takes the user, a lost
\* request or refresh, an account or a refresh token that is no longer good, a
\* token that expires again before the page is loaded, or an earlier user's
\* request.
KeptSignedIn ==
    [][store.access # None /\ store'.access = None =>
          \/ overtaken
          \/ troubles' > troubles
          \/ store.user \notin active \/ store.refresh.age = "stale"
          \/ request["me"] # None /\ request["me"].step = "again"]_vars

\* The kitchen's board is live again and again: after expired tokens, refused
\* streams, locked logins and pages that were signed out.
BoardComesBack == []<>(stream.state = "open")
=============================================================================
