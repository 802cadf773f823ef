-------------------------- MODULE StaffAccessProofs --------------------------
(***************************************************************************)
(* Proofs about StaffAccess, for any users and any number of troubles.     *)
(*                                                                         *)
(* Tokens change hands by way of the one refresh in flight: it is begun    *)
(* with the stored token, the requests that were refused wait for it, and  *)
(* what it brings is stored under the name that is stored by then.  So the *)
(* refresh belongs to the stored user, if there is one (FlightIsOurs), and *)
(* to everybody who waits for it (WaitersAgree).  It fails only if its     *)
(* user or its token is no longer good (FlightFails).                      *)
(***************************************************************************)
EXTENDS StaffAccess, TLAPS

\* The type of the tab; the limiter and the stream play no part.
TabTypeOK ==
    /\ active \in SUBSET Users
    /\ attempt \in Login \cup {None}
    /\ store \in [access : Token \cup {None}, refresh : Token \cup {None},
                  user : Users \cup {None}]
    /\ request \in [Kinds -> Call \cup {None}]
    /\ flight \in Token \cup {None}
    /\ overtaken \in BOOLEAN
    /\ troubles \in Nat

\* Tokens are stored and cleared together with the user.
StoredTogether ==
    /\ store.access = None <=> store.user = None
    /\ store.refresh = None <=> store.user = None

\* Unless somebody signed in over requests of an earlier user: the stored
\* tokens are the stored user's, ...
StoreIsOurs ==
    /\ store.access # None => store.access.sub = store.user
    /\ store.refresh # None => store.refresh.sub = store.user

\* ... a request carries its maker's token, and that is the stored user, ...
RequestsAreOurs ==
    \A k \in Kinds : request[k] # None =>
        /\ request[k].token.sub = request[k].by
        /\ store.user # None => request[k].by = store.user

\* ... and so is the refresh.
FlightIsOurs ==
    flight # None /\ store.user # None =>
        /\ flight.sub = store.user
        /\ flight.age = "stale" => store.refresh.age = "stale"

WaitersAgree ==
    \A k \in Kinds : request[k] # None /\ request[k].step = "waiting" =>
        flight # None /\ request[k].by = flight.sub

\* What is stored was good once more, or is known to be old.
StoredIsSettled == store.refresh # None => store.refresh.age # "either"

\* A token that is not what it was is that of a user who was turned out.
FlightFails ==
    flight # None /\ flight.age = "either" => flight.sub \notin active

Ours == StoreIsOurs /\ RequestsAreOurs /\ FlightIsOurs /\ WaitersAgree
AccessInv ==
    /\ TabTypeOK
    /\ StoredTogether
    /\ StoredIsSettled
    /\ FlightFails
    /\ overtaken \/ Ours

-----------------------------------------------------------------------------
(* The start.                                                              *)

LEMMA AccessInvInitially == Init => AccessInv
<1> SUFFICES ASSUME Init PROVE AccessInv
  OBVIOUS
<1>1. TabTypeOK
  BY AccessBounds DEF Init, TabTypeOK, SignedOut
<1> QED
  BY <1>1 DEF Init, AccessInv, StoredTogether, StoredIsSettled, SignedOut, FlightFails, Ours,
              StoreIsOurs, RequestsAreOurs, FlightIsOurs, WaitersAgree

-----------------------------------------------------------------------------
(* Steps by what they do to the tab.                                       *)

\* Steps that leave store, requests and refresh alone.
LEMMA ElsewhereKeepsInv ==
  ASSUME AccessInv, UNCHANGED <<active, store, request, flight, overtaken>>,
         attempt' \in Login \cup {None}, troubles' \in Nat
  PROVE  AccessInv'
<1>1. TabTypeOK'
  BY DEF AccessInv, TabTypeOK
<1> QED
  BY <1>1 DEF AccessInv, StoredTogether, StoredIsSettled, FlightFails, Ours, StoreIsOurs,
              RequestsAreOurs, FlightIsOurs, WaitersAgree

\* Steps that clear the store, and drop requests or none, but none that wait
\* without the refresh they wait for.
LEMMA SignedOutKeepsInv ==
  ASSUME AccessInv, UNCHANGED <<active, attempt, overtaken>>, store' = SignedOut,
         request' \in [Kinds -> Call \cup {None}],
         \A k \in Kinds : request'[k] # None =>
             /\ request[k] # None
             /\ request'[k].token = request[k].token
             /\ request'[k].by = request[k].by
             /\ request'[k].step = request[k].step,
         \/ flight' = flight
         \/ /\ flight' = None
            /\ \A k \in Kinds : request'[k] # None => request'[k].step # "waiting",
         troubles' \in Nat
  PROVE  AccessInv'
<1>1. TabTypeOK'
  BY DEF AccessInv, TabTypeOK, SignedOut
<1>2. StoredTogether' /\ StoredIsSettled' /\ StoreIsOurs' /\ FlightIsOurs'
  BY DEF StoredTogether, StoredIsSettled, StoreIsOurs, FlightIsOurs, SignedOut
<1>3. FlightFails'
  BY DEF AccessInv, FlightFails
<1>4. ASSUME Ours PROVE RequestsAreOurs'
  BY <1>4 DEF Ours, RequestsAreOurs, SignedOut
<1>5. ASSUME Ours PROVE WaitersAgree'
  BY <1>5 DEF Ours, WaitersAgree
<1> QED
  BY <1>1, <1>2, <1>3, <1>4, <1>5 DEF AccessInv, Ours

\* Steps that leave the store alone and only drop requests.
LEMMA DroppedKeepsInv ==
  ASSUME AccessInv, UNCHANGED <<active, attempt, store, overtaken>>,
         request' \in [Kinds -> Call \cup {None}],
         \A k \in Kinds : request'[k] # None => request'[k] = request[k],
         \/ flight' = flight
         \/ /\ flight' = None
            /\ \A k \in Kinds : request'[k] = None,
         troubles' \in Nat
  PROVE  AccessInv'
<1>1. TabTypeOK'
  BY DEF AccessInv, TabTypeOK
<1>2. StoredTogether' /\ StoredIsSettled' /\ FlightFails'
  BY DEF AccessInv, StoredTogether, StoredIsSettled, FlightFails
<1>3. ASSUME Ours PROVE StoreIsOurs' /\ RequestsAreOurs' /\ FlightIsOurs'
  BY <1>3 DEF Ours, StoreIsOurs, RequestsAreOurs, FlightIsOurs
<1>4. ASSUME Ours PROVE WaitersAgree'
  BY <1>4 DEF Ours, WaitersAgree
<1> QED
  BY <1>1, <1>2, <1>3, <1>4 DEF AccessInv, Ours

-----------------------------------------------------------------------------
(* The steps.                                                              *)

LEMMA IssuedIsFresh ==
  ASSUME NEW u \in Users
  PROVE  Issued(u) \in Token /\ Issued(u).sub = u /\ Issued(u).age = "fresh"
  BY DEF Token, Issued

LEMMA AskKeepsInv ==
  ASSUME AccessInv, NEW kind \in Kinds, Ask(kind)
  PROVE  AccessInv'
<1>1. /\ request[kind] = None /\ store.access # None
      /\ UNCHANGED <<active, attempt, store, flight, overtaken, troubles>>
  BY DEF Ask, server
<1>2. PICK call \in Call :
          /\ request' = [request EXCEPT ![kind] = call]
          /\ call.by = store.user /\ call.token = store.access
          /\ call.step = "sent"
  <2>1. store.user \in Users /\ store.access \in Token
    BY <1>1 DEF AccessInv, TabTypeOK, StoredTogether
  <2>2. [by |-> store.user, token |-> store.access, step |-> "sent",
         wanted |-> TRUE] \in Call
    BY <2>1 DEF Call
  <2> QED
    BY <2>2 DEF Ask
<1>3. /\ request'[kind] = call
      /\ \A k \in Kinds : k # kind => request'[k] = request[k]
  BY <1>2 DEF AccessInv, TabTypeOK
<1>4. TabTypeOK'
  BY <1>1, <1>2 DEF AccessInv, TabTypeOK
<1>5. StoredTogether' /\ StoredIsSettled' /\ FlightFails'
  BY <1>1 DEF AccessInv, StoredTogether, StoredIsSettled, FlightFails
<1>6. ASSUME Ours PROVE Ours'
  <2>1. StoreIsOurs' /\ FlightIsOurs'
    BY <1>1, <1>6 DEF Ours, StoreIsOurs, FlightIsOurs
  <2>2. RequestsAreOurs' /\ WaitersAgree'
    BY <1>1, <1>2, <1>3, <1>6 DEF Ours, StoreIsOurs, RequestsAreOurs, WaitersAgree
  <2> QED
    BY <2>1, <2>2 DEF Ours
<1> QED
  BY <1>1, <1>4, <1>5, <1>6 DEF AccessInv

\* A request is over: it leaves the others alone.
LEMMA DoneDrops ==
  ASSUME AccessInv, NEW kind \in Kinds, Done(kind)
  PROVE  /\ request' \in [Kinds -> Call \cup {None}]
         /\ \A k \in Kinds : request'[k] # None => request'[k] = request[k]
  BY DEF Done, AccessInv, TabTypeOK

LEMMA TroublesCount ==
  ASSUME AccessInv, Trouble \/ UNCHANGED troubles
  PROVE  troubles' \in Nat
  BY DEF AccessInv, TabTypeOK, Trouble

LEMMA FailedKeepsInv ==
  ASSUME AccessInv, NEW kind \in Kinds, Failed(kind), Trouble \/ UNCHANGED troubles
  PROVE  AccessInv'
<1>1. /\ Done(kind) /\ UNCHANGED <<active, attempt, flight, overtaken>>
      /\ store' = SignedOut \/ store' = store
  BY DEF Failed, SignOutAndRedirect, server
<1> QED
  BY <1>1, DoneDrops, TroublesCount, SignedOutKeepsInv, DroppedKeepsInv

LEMMA AwaitKeepsInv ==
  ASSUME AccessInv, NEW kind \in Kinds, AwaitRefresh(kind)
  PROVE  AccessInv'
<1>1. /\ request[kind] # None
      /\ UNCHANGED <<active, attempt, overtaken, troubles>>
  BY DEF AwaitRefresh, Refused, Sent, server
<1>2. CASE store.refresh = None
  <2>1. store' = SignedOut /\ Done(kind) /\ UNCHANGED flight
    BY <1>2 DEF AwaitRefresh, SignOutAndRedirect
  <2> QED
    BY <1>1, <2>1, DoneDrops, TroublesCount, SignedOutKeepsInv
<1>3. CASE store.refresh # None
  <2>1. /\ flight' = IF flight # None THEN flight ELSE store.refresh
        /\ request' = [request EXCEPT ![kind].step = "waiting"]
        /\ store' = store
    BY <1>3 DEF AwaitRefresh
  <2>2. request[kind] \in Call
    BY <1>1 DEF AccessInv, TabTypeOK
  <2>3. PICK call \in Call :
            /\ request' = [request EXCEPT ![kind] = call]
            /\ call.by = request[kind].by /\ call.token = request[kind].token
            /\ call.step = "waiting"
    <3>1. [request[kind] EXCEPT !.step = "waiting"] \in Call
      BY <2>2 DEF Call
    <3>2. request' = [request EXCEPT ![kind] =
                         [request[kind] EXCEPT !.step = "waiting"]]
      BY <2>1
    <3> QED
      BY <2>2, <3>1, <3>2 DEF Call
  <2>4. /\ request'[kind] = call
        /\ \A k \in Kinds : k # kind => request'[k] = request[k]
    BY <2>3 DEF AccessInv, TabTypeOK
  <2>5. store.refresh \in Token /\ store.user # None
    BY <1>3 DEF AccessInv, TabTypeOK, StoredTogether
  <2>6. TabTypeOK'
    BY <1>1, <2>1, <2>3, <2>5 DEF AccessInv, TabTypeOK
  <2>7. StoredTogether' /\ StoredIsSettled' /\ FlightFails'
    BY <1>1, <2>1, <1>3 DEF AccessInv, StoredTogether, StoredIsSettled, FlightFails
  <2>8. ASSUME Ours PROVE Ours'
    <3>1. StoreIsOurs' /\ FlightIsOurs'
      BY <1>3, <2>1, <2>8 DEF Ours, StoreIsOurs, FlightIsOurs
    <3>2. RequestsAreOurs'
      BY <1>1, <2>1, <2>3, <2>4, <2>8 DEF Ours, RequestsAreOurs
    <3>3. flight' # None /\ flight'.sub = store.user
      BY <1>3, <2>1, <2>5, <2>8 DEF Ours, StoreIsOurs, FlightIsOurs
    <3>4. call.by = store.user
      BY <1>1, <2>3, <2>5, <2>8 DEF Ours, RequestsAreOurs
    <3>5. \A k \in Kinds : k # kind /\ request[k] # None /\ request[k].step = "waiting"
                            => flight' = flight /\ request[k].by = flight.sub
      BY <2>1, <2>8 DEF Ours, WaitersAgree
    <3>6. WaitersAgree'
      BY <2>4, <3>3, <3>4, <3>5 DEF WaitersAgree
    <3> QED
      BY <3>1, <3>2, <3>6 DEF Ours
  <2> QED
    BY <1>1, <2>6, <2>7, <2>8 DEF AccessInv
<1> QED
  BY <1>2, <1>3

\* The refresh succeeds: its token is the stored user's and everybody's who
\* waited for it.
LEMMA RenewedKeepsInv ==
  ASSUME AccessInv, flight # None, store.user # None, Renewed
  PROVE  AccessInv'
<1>1. PICK u \in Users : u = flight.sub
  BY DEF AccessInv, TabTypeOK, Token
<1>2. PICK t \in Token : t = Issued(u) /\ t.sub = u /\ t.age = "fresh"
  BY IssuedIsFresh
<1>3. /\ store' = [store EXCEPT !.access = t, !.refresh = t]
      /\ request' = [k \in Kinds |->
             IF k \in Waiting
             THEN [request[k] EXCEPT !.token = t, !.step = "again"]
             ELSE request[k]]
      /\ flight' = None
      /\ UNCHANGED <<active, attempt, overtaken, troubles>>
  BY <1>1, <1>2 DEF Renewed, server
<1>4. /\ store'.access = t /\ store'.refresh = t /\ store'.user = store.user
      /\ store' \in [access : Token \cup {None}, refresh : Token \cup {None},
                     user : Users \cup {None}]
  BY <1>3 DEF AccessInv, TabTypeOK
<1>5. \A k \in Waiting : /\ request[k] \in Call
                         /\ request'[k] = [request[k] EXCEPT !.token = t, !.step = "again"]
  BY <1>3 DEF Waiting, AccessInv, TabTypeOK
<1>6. \A k \in Waiting : /\ request'[k] \in Call
                         /\ request'[k].by = request[k].by
                         /\ request'[k].token = t /\ request'[k].step = "again"
  BY <1>5 DEF Call
<1>7. \A k \in Kinds : k \notin Waiting => request'[k] = request[k]
  BY <1>3
<1>8. TabTypeOK'
  <2>1. request' \in [Kinds -> Call \cup {None}]
    BY <1>3, <1>6, <1>7 DEF AccessInv, TabTypeOK
  <2> QED
    BY <1>3, <1>4, <2>1 DEF AccessInv, TabTypeOK
<1>9. StoredTogether' /\ StoredIsSettled' /\ FlightFails'
  BY <1>2, <1>3, <1>4, AccessNone DEF StoredTogether, StoredIsSettled, FlightFails
<1>10. ASSUME Ours PROVE Ours'
  <2>1. StoreIsOurs' /\ FlightIsOurs'
    BY <1>1, <1>2, <1>3, <1>4, <1>10 DEF Ours, StoreIsOurs, FlightIsOurs
  <2>2. RequestsAreOurs'
    <3>1. \A k \in Waiting : /\ k \in Kinds /\ request[k] # None
                             /\ request[k].by = u /\ store.user = u
      BY <1>1, <1>10 DEF Ours, WaitersAgree, Waiting, FlightIsOurs
    <3> QED
      BY <1>2, <1>4, <1>6, <1>7, <1>10, <3>1 DEF Ours, RequestsAreOurs
  <2>3. WaitersAgree'
    BY <1>6, <1>7 DEF WaitersAgree, Waiting
  <2> QED
    BY <2>1, <2>2, <2>3 DEF Ours
<1> QED
  BY <1>3, <1>8, <1>9, <1>10 DEF AccessInv

LEMMA NotRenewedKeepsInv ==
  ASSUME AccessInv, NotRenewed, Trouble \/ UNCHANGED troubles
  PROVE  AccessInv'
<1>1. /\ store' = SignedOut /\ flight' = None
      /\ request' = [k \in Kinds |-> IF k \in Waiting THEN None ELSE request[k]]
      /\ UNCHANGED <<active, attempt, overtaken>>
  BY DEF NotRenewed, SignOutAndRedirect, server
<1>2. request' \in [Kinds -> Call \cup {None}]
  BY <1>1 DEF AccessInv, TabTypeOK
<1>3. \A k \in Kinds : request'[k] # None =>
          /\ request'[k] = request[k] /\ request[k].step # "waiting"
  BY <1>1 DEF Waiting
<1> QED
  BY <1>1, <1>2, <1>3, TroublesCount, SignedOutKeepsInv

LEMMA SignInKeepsInv ==
  ASSUME AccessInv, SignIn
  PROVE  AccessInv'
<1>1. PICK u \in Users : u = attempt.user
  BY DEF SignIn, AccessInv, TabTypeOK, Login
<1>2. PICK t \in Token : t = Issued(u) /\ t.sub = u /\ t.age = "fresh"
  BY IssuedIsFresh
<1>3. /\ store' = [access |-> t, refresh |-> t, user |-> u]
      /\ attempt' = None
      /\ overtaken' = (overtaken \/ flight # None
                       \/ \E k \in Kinds : request[k] # None)
      /\ UNCHANGED <<active, request, flight, troubles>>
  BY <1>1, <1>2 DEF SignIn
<1>4. /\ store'.access = t /\ store'.refresh = t /\ store'.user = u
      /\ store' \in [access : Token \cup {None}, refresh : Token \cup {None},
                     user : Users \cup {None}]
  BY <1>3
<1>5. overtaken' \in BOOLEAN
  BY <1>3 DEF AccessInv, TabTypeOK
<1>6. TabTypeOK'
  BY <1>3, <1>4, <1>5 DEF AccessInv, TabTypeOK
<1>7. StoredTogether' /\ StoredIsSettled' /\ FlightFails'
  BY <1>2, <1>3, <1>4, AccessNone DEF AccessInv, StoredTogether, StoredIsSettled,
                                      FlightFails
<1>8. overtaken' \/ Ours'
  BY <1>2, <1>3, <1>4 DEF Ours, StoreIsOurs, RequestsAreOurs, FlightIsOurs,
                          WaitersAgree
<1> QED
  BY <1>6, <1>7, <1>8 DEF AccessInv

LEMMA SignOutKeepsInv ==
  ASSUME AccessInv, SignOut
  PROVE  AccessInv'
<1>1. /\ store' = SignedOut /\ Trouble
      /\ request' = IF request["sse"] = None THEN request
                    ELSE [request EXCEPT !["sse"].wanted = FALSE]
      /\ UNCHANGED <<active, attempt, flight, overtaken>>
  BY DEF SignOut, server
<1>2. CASE request["sse"] = None
  BY <1>1, <1>2, TroublesCount, SignedOutKeepsInv DEF AccessInv, TabTypeOK
<1>3. CASE request["sse"] # None
  <2>1. request["sse"] \in Call /\ "sse" \in Kinds
    BY <1>3 DEF AccessInv, TabTypeOK, Kinds
  <2>2. /\ request' = [request EXCEPT !["sse"] =
                           [request["sse"] EXCEPT !.wanted = FALSE]]
        /\ [request["sse"] EXCEPT !.wanted = FALSE] \in Call
    BY <1>1, <1>3, <2>1 DEF Call
  <2>3. request' \in [Kinds -> Call \cup {None}]
    BY <2>2 DEF AccessInv, TabTypeOK
  <2>4. \A k \in Kinds : request'[k] # None =>
            /\ request[k] # None
            /\ request'[k].token = request[k].token
            /\ request'[k].by = request[k].by
            /\ request'[k].step = request[k].step
    BY <1>3, <2>1, <2>2 DEF AccessInv, TabTypeOK, Call
  <2> QED
    BY <1>1, <2>3, <2>4, TroublesCount, SignedOutKeepsInv
<1> QED
  BY <1>2, <1>3

LEMMA NewDocumentKeepsInv ==
  ASSUME AccessInv, NewDocument, Trouble \/ UNCHANGED troubles
  PROVE  AccessInv'
<1>1. /\ UNCHANGED <<active, attempt, store, overtaken>> /\ flight' = None
      /\ request' \in [Kinds -> Call \cup {None}]
      /\ \A k \in Kinds : request'[k] = None
  BY DEF NewDocument, server
<1> QED
  BY <1>1, TroublesCount, DroppedKeepsInv

LEMMA ExpireKeepsInv ==
  ASSUME AccessInv, ExpireAccess \/ ExpireRefresh
  PROVE  AccessInv'
<1>1. /\ store.access # None /\ store.access \in Token
      /\ store.refresh # None /\ store.refresh \in Token /\ store.user # None
  BY DEF AccessInv, TabTypeOK, StoredTogether, ExpireAccess, ExpireRefresh
<1>2. PICK a \in Token : /\ a = Stale(store.access) /\ a.sub = store.access.sub
  <2>1. /\ [store.access EXCEPT !.age = "stale"] \in Token
        /\ [store.access EXCEPT !.age = "stale"].sub = store.access.sub
    BY <1>1 DEF Token
  <2> QED
    BY <1>1, <2>1 DEF Stale
<1>3. PICK r \in Token : /\ r = Stale(store.refresh) /\ r.sub = store.refresh.sub
                        /\ r.age = "stale"
  <2>1. /\ [store.refresh EXCEPT !.age = "stale"] \in Token
        /\ [store.refresh EXCEPT !.age = "stale"].sub = store.refresh.sub
        /\ [store.refresh EXCEPT !.age = "stale"].age = "stale"
    BY <1>1 DEF Token
  <2> QED
    BY <1>1, <2>1 DEF Stale
<1>4. /\ \/ store' = [store EXCEPT !.access = a]
         \/ store' = [store EXCEPT !.access = a, !.refresh = r] /\ flight = None
      /\ request' = OldRequests /\ Trouble
      /\ UNCHANGED <<active, attempt, flight, overtaken>>
  BY <1>2, <1>3 DEF ExpireAccess, ExpireRefresh, server
<1>5. /\ store' \in [access : Token \cup {None}, refresh : Token \cup {None},
                     user : Users \cup {None}]
      /\ store'.access = a /\ store'.user = store.user
      /\ store'.refresh \in {store.refresh, r}
      /\ store'.refresh = store.refresh \/ flight = None
  BY <1>4 DEF AccessInv, TabTypeOK
<1>6. /\ request' \in [Kinds -> Call \cup {None}]
      /\ \A k \in Kinds :
             /\ request'[k] = None <=> request[k] = None
             /\ request[k] # None => /\ request'[k].by = request[k].by
                                     /\ request'[k].step = request[k].step
                                     /\ request'[k].token.sub = request[k].token.sub
  <2> SUFFICES ASSUME NEW k \in Kinds
               PROVE  /\ OldRequests[k] \in Call \cup {None}
                      /\ OldRequests[k] = None <=> request[k] = None
                      /\ request[k] # None =>
                             /\ OldRequests[k].by = request[k].by
                             /\ OldRequests[k].step = request[k].step
                             /\ OldRequests[k].token.sub = request[k].token.sub
    BY <1>4 DEF OldRequests
  <2>1. CASE request[k] = None \/ request[k].token.age # "fresh"
    BY <2>1 DEF OldRequests, AccessInv, TabTypeOK
  <2>2. CASE request[k] # None /\ request[k].token.age = "fresh"
    <3>1. request[k] \in Call /\ request[k].token \in Token
      BY <2>2 DEF AccessInv, TabTypeOK, Call
    <3>2. PICK old \in Token : /\ old = [request[k].token EXCEPT !.age = "either"]
                              /\ old.sub = request[k].token.sub
      <4>1. /\ [request[k].token EXCEPT !.age = "either"] \in Token
            /\ [request[k].token EXCEPT !.age = "either"].sub
                   = request[k].token.sub
        BY <3>1 DEF Token
      <4> QED
        BY <4>1
    <3>3. OldRequests[k] = [request[k] EXCEPT !.token = old]
      BY <2>2, <3>1, <3>2 DEF OldRequests, Call
    <3>4. /\ [request[k] EXCEPT !.token = old] \in Call
          /\ [request[k] EXCEPT !.token = old].by = request[k].by
          /\ [request[k] EXCEPT !.token = old].step = request[k].step
          /\ [request[k] EXCEPT !.token = old].token = old
      BY <3>1 DEF Call
    <3> QED
      BY <2>2, <3>2, <3>3, <3>4, AccessNone
  <2> QED
    BY <2>1, <2>2
<1>7. TabTypeOK'
  BY <1>4, <1>5, <1>6, TroublesCount DEF AccessInv, TabTypeOK
<1>8. StoredTogether' /\ StoredIsSettled' /\ FlightFails'
  BY <1>1, <1>3, <1>4, <1>5, AccessNone
     DEF AccessInv, StoredTogether, StoredIsSettled, FlightFails
<1>9. ASSUME Ours PROVE Ours'
  <2>1. StoreIsOurs'
    BY <1>1, <1>2, <1>3, <1>5, <1>9 DEF Ours, StoreIsOurs
  <2>2. FlightIsOurs'
    BY <1>4, <1>5, <1>9 DEF Ours, FlightIsOurs
  <2>3. RequestsAreOurs' /\ WaitersAgree'
    BY <1>4, <1>5, <1>6, <1>9 DEF Ours, RequestsAreOurs, WaitersAgree
  <2> QED
    BY <2>1, <2>2, <2>3 DEF Ours
<1> QED
  BY <1>4, <1>7, <1>8, <1>9 DEF AccessInv

\* Whoever is turned out makes the refresh of this moment doubtful.
LEMMA DeactivateKeepsInv ==
  ASSUME AccessInv, NEW u \in Users, Deactivate(u)
  PROVE  AccessInv'
<1>1. /\ active' = active \ {u}
      /\ flight' = IF flight = Issued(u) THEN [flight EXCEPT !.age = "either"]
                                         ELSE flight
      /\ UNCHANGED <<attempt, store, request, overtaken, troubles>>
  BY DEF Deactivate
<1>2. /\ flight' \in Token \cup {None} /\ (flight' = None <=> flight = None)
      /\ flight # None => /\ flight'.sub = flight.sub
                          /\ flight'.age = "stale" => flight.age = "stale"
                          /\ flight'.age = "either" =>
                                 flight.age = "either" \/ flight.sub = u
  <2>1. CASE flight = Issued(u)
    <3>1. flight \in Token /\ flight.sub = u
      BY <2>1, IssuedIsFresh
    <3>2. /\ [flight EXCEPT !.age = "either"] \in Token
          /\ [flight EXCEPT !.age = "either"].sub = u
          /\ [flight EXCEPT !.age = "either"].age = "either"
      BY <3>1 DEF Token
    <3> QED
      BY <1>1, <2>1, <3>1, <3>2, AccessNone
  <2>2. CASE flight # Issued(u)
    BY <1>1, <2>2 DEF AccessInv, TabTypeOK
  <2> QED
    BY <2>1, <2>2
<1>3. TabTypeOK'
  BY <1>1, <1>2 DEF AccessInv, TabTypeOK
<1>4. StoredTogether' /\ StoredIsSettled' /\ FlightFails'
  BY <1>1, <1>2 DEF AccessInv, StoredTogether, StoredIsSettled, FlightFails
<1>5. ASSUME Ours PROVE Ours'
  BY <1>1, <1>2, <1>5 DEF Ours, StoreIsOurs, RequestsAreOurs, FlightIsOurs,
                          WaitersAgree
<1> QED
  BY <1>1, <1>3, <1>4, <1>5 DEF AccessInv

\* What the limiter and the stream do, and logins that end in nothing.
LEMMA LoginKeepsInv ==
  ASSUME AccessInv,
         \/ \E u \in Users : \/ Unlock(u) \/ AttemptElsewhere(u)
                             \/ \E right \in BOOLEAN : BeginLogin(u, right)
         \/ FinishLogin \/ LoseLogin \/ Connect \/ Disconnect \/ ExpireStream
         \/ UNCHANGED vars
  PROVE  AccessInv'
<1>1. UNCHANGED <<active, store, request, flight, overtaken>>
  BY DEF Unlock, AttemptElsewhere, BeginLogin, FinishLogin, LoseLogin, Connect,
         Disconnect, ExpireStream, vars, server
<1>2. Trouble \/ UNCHANGED troubles
  BY DEF Unlock, AttemptElsewhere, BeginLogin, FinishLogin, LoseLogin, Connect,
         Disconnect, ExpireStream, vars
<1>3. attempt' \in Login \cup {None}
  <2>1. CASE \E u \in Users, right \in BOOLEAN : BeginLogin(u, right)
    BY <2>1 DEF BeginLogin, Login
  <2>2. CASE FinishLogin
    <3>1. attempt \in Login
      BY <2>2 DEF FinishLogin, AccessInv, TabTypeOK
    <3>2. [attempt EXCEPT !.granted = TRUE] \in Login
      BY <3>1 DEF Login
    <3> QED
      BY <2>2, <3>2 DEF FinishLogin
  <2>3. CASE attempt' \in {attempt, None}
    BY <2>3 DEF AccessInv, TabTypeOK
  <2> QED
    BY <2>1, <2>2, <2>3 DEF Unlock, AttemptElsewhere, LoseLogin, Connect,
                            Disconnect, ExpireStream, vars, server
<1> QED
  BY <1>1, <1>2, <1>3, TroublesCount, ElsewhereKeepsInv

-----------------------------------------------------------------------------
(* The theorems.                                                           *)

\* The invariant, for any users, requests and troubles.
THEOREM AccessInvCorrect == Spec => []AccessInv
<1>1. Init => AccessInv
  BY AccessInvInitially
<1>2. AccessInv /\ [Next]_vars => AccessInv'
  <2> SUFFICES ASSUME AccessInv, [Next]_vars PROVE AccessInv'
    OBVIOUS
  <2>1. ASSUME NEW u \in Users, Deactivate(u) PROVE AccessInv'
    BY <2>1, DeactivateKeepsInv
  <2>2. ASSUME NEW kind \in Kinds, Ask(kind) PROVE AccessInv'
    BY <2>2, AskKeepsInv
  <2>3. ASSUME NEW kind \in Kinds, Answered(kind) PROVE AccessInv'
    <3>1. /\ Done(kind)
          /\ UNCHANGED <<active, attempt, store, flight, overtaken, troubles>>
      BY <2>3 DEF Answered, server
    <3> QED
      BY <3>1, DoneDrops, TroublesCount, DroppedKeepsInv
  <2>4. ASSUME NEW kind \in Kinds, RefusedForGood(kind) \/ LoseRequest(kind)
        PROVE  AccessInv'
    BY <2>4, FailedKeepsInv DEF RefusedForGood, LoseRequest
  <2>5. ASSUME NEW kind \in Kinds, AwaitRefresh(kind) PROVE AccessInv'
    BY <2>5, AwaitKeepsInv
  <2>6. CASE LandRefresh \/ LoseRefresh
    BY <2>6, RenewedKeepsInv, NotRenewedKeepsInv DEF LandRefresh, LoseRefresh
  <2>7. CASE SignIn \/ SignOut
    BY <2>7, SignInKeepsInv, SignOutKeepsInv
  <2>8. CASE Redirect \/ Reload
    BY <2>8, NewDocumentKeepsInv DEF Redirect, Reload
  <2>9. CASE ExpireAccess \/ ExpireRefresh
    BY <2>9, ExpireKeepsInv
  <2> QED
    BY <2>1, <2>2, <2>3, <2>4, <2>5, <2>6, <2>7, <2>8, <2>9, LoginKeepsInv
       DEF Next, Land
<1> QED
  BY <1>1, <1>2, PTL DEF Spec

\* Tokens and requests keep the name of their user, whatever sign-outs,
\* reloads and refreshes come between.
THEOREM NamesCorrect == Spec => []NamesMatch
<1>1. AccessInv => NamesMatch
  BY DEF AccessInv, Ours, StoreIsOurs, RequestsAreOurs, NamesMatch
<1> QED
  BY <1>1, AccessInvCorrect, PTL

\* A step that takes the stored token away is one of those the property
\* names.
LEMMA LosingToken ==
  ASSUME AccessInv, Next, store.access # None, store'.access = None
  PROVE  \/ overtaken
         \/ troubles' > troubles
         \/ store.user \notin active \/ store.refresh.age = "stale"
         \/ request["me"] # None /\ request["me"].step = "again"
<1>1. store.user # None /\ store.refresh # None
  BY DEF AccessInv, StoredTogether
<1>2. Trouble => troubles' > troubles
  BY DEF Trouble, AccessInv, TabTypeOK
<1>3. ASSUME NEW kind \in Kinds, RefusedForGood(kind)
      PROVE  request["me"] # None /\ request["me"].step = "again"
  <2>1. kind = "me" /\ request["me"] # None
    BY <1>3 DEF RefusedForGood, Failed, Refused, Sent
  <2>2. /\ request["me"].step \in {"sent", "waiting", "again"}
        /\ request["me"].step \notin {"sent", "waiting"}
    BY <1>3, <2>1 DEF RefusedForGood, Retried, Refused, Sent, AccessInv, TabTypeOK,
                      Call, Kinds
  <2> QED
    BY <2>1, <2>2
<1>4. ASSUME NEW kind \in Kinds, AwaitRefresh(kind)
      PROVE  FALSE
  BY <1>1, <1>4 DEF AwaitRefresh
<1>5. CASE LandRefresh
  <2>1. flight # None /\ flight \in Token
    BY <1>5 DEF LandRefresh, AccessInv, TabTypeOK
  <2>2. CASE Renewed
    <3>1. store'.access = Issued(flight.sub)
      BY <2>2 DEF Renewed, AccessInv, TabTypeOK
    <3> QED
      BY <2>1, <3>1, IssuedIsFresh, AccessNone DEF Token
  <2>3. CASE FALSE \in Refreshed
    <3>1. \/ flight.age = "fresh" /\ flight.sub \notin active
          \/ flight.age = "stale" \/ flight.age = "either"
      BY <2>1, <2>3 DEF Refreshed, Verdicts, Token
    <3>2. ~overtaken => /\ flight.sub = store.user
                        /\ flight.age = "stale" => store.refresh.age = "stale"
      BY <1>1, <2>1 DEF AccessInv, Ours, FlightIsOurs
    <3>3. flight.age = "either" => flight.sub \notin active
      BY <2>1 DEF AccessInv, FlightFails
    <3> QED
      BY <3>1, <3>2, <3>3
  <2> QED
    BY <1>1, <1>5, <2>2, <2>3 DEF LandRefresh
<1>6. CASE LoseRefresh \/ SignOut \/ Reload \/ ExpireAccess \/ ExpireRefresh
  BY <1>2, <1>6 DEF LoseRefresh, SignOut, Reload, ExpireAccess, ExpireRefresh
<1>7. ASSUME NEW kind \in Kinds, LoseRequest(kind) PROVE troubles' > troubles
  BY <1>2, <1>7 DEF LoseRequest
<1>8. CASE SignIn
  <2>1. PICK u \in Users : u = attempt.user /\ store'.access = Issued(u)
    BY <1>8 DEF SignIn, AccessInv, TabTypeOK, Login
  <2> QED
    BY <2>1, IssuedIsFresh, AccessNone
<1>9. CASE store' = store
  BY <1>9
<1> QED
  BY <1>3, <1>4, <1>5, <1>6, <1>7, <1>8, <1>9
     DEF Next, Deactivate, Unlock, AttemptElsewhere, BeginLogin, FinishLogin,
         LoseLogin, Ask, Land, Answered, Connect, Disconnect, Redirect,
         NewDocument, ExpireStream

\* An expired access token alone signs nobody out.
THEOREM SignedInCorrect == Spec => KeptSignedIn
<1>1. AccessInv /\ [Next]_vars =>
          [store.access # None /\ store'.access = None =>
              \/ overtaken
              \/ troubles' > troubles
              \/ store.user \notin active \/ store.refresh.age = "stale"
              \/ request["me"] # None /\ request["me"].step = "again"]_vars
  BY LosingToken
<1> QED
  BY <1>1, AccessInvCorrect, PTL DEF Spec, KeptSignedIn
=============================================================================
