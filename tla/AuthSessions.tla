---------------------------- MODULE AuthSessions ----------------------------
(***************************************************************************)
(* One session from sign-in to its end: the row in the backend with the    *)
(* hash of its refresh token (AuthService, AuthGuard, SetUserEnabled), and  *)
(* the client that holds it, which is a browser with its tabs (session      *)
(* store, interceptor and refresh on startup) or the phone (authenticator, *)
(* cookie jar and stored session).                                         *)
(*                                                                         *)
(* A refresh token is its generation, 0 is none; the row holds the hash of  *)
(* the last one.  The use cases read a row, work on the copy and save all   *)
(* of it, so calls are interleaved between read and save.  An access token  *)
(* may expire at any time; the row does not.  Retrying a request after a    *)
(* refresh is part of the call that refreshed.  The user may have other     *)
(* sessions: a request with one of them meets the guard as well.           *)
(*                                                                         *)
(* All clients are honest.  ended says why the session was disabled; cause *)
(* which of the events the code does not handle have happened: "together"  *)
(* calls or a disabling that overlap, "lost" an answer that got lost,      *)
(* "retry" a retried request that failed, "restart" a phone restarted      *)
(* after it refreshed, "guard" a guard that comes after the user has been   *)
(* enabled again.                                                          *)
(***************************************************************************)
EXTENDS Integers

CONSTANTS Tabs, Calls,
          Phone, Nobody,
          MaxGen,    \* bound on refresh tokens: none expires or reloads past it
          MaxFaults  \* bound on lost answers and failed retries

ASSUME AuthSessionsAssumption ==
    /\ MaxGen \in Nat /\ MaxFaults \in Nat
    /\ Phone \notin Tabs /\ Nobody \notin Tabs \cup {Phone}

VARIABLES enabled,  \* users.enabled
          guard,    \* AuthGuard is about to disable all sessions of the user
          admin,    \* SetUserEnabled has one more statement to run
          session,  \* auth_sessions: the row
          issued,   \* refresh tokens issued
          tab,      \* access token of each tab, refreshInProgress
          browser,  \* its refresh cookie, and whether its storage has a session
          phone,    \* access token, cookie jar and what is stored of both
          call,     \* refresh and logout calls
          ended, cause, faults

row == <<enabled, admin, guard, session>>
clients == <<tab, browser, phone>>
history == <<ended, cause, faults>>
vars == <<row, issued, clients, call, history>>

NoSession == [exists |-> FALSE, enabled |-> FALSE, gen |-> 0]
Done == [at |-> "done", by |-> Nobody]

NoTab == [token |-> "none", refreshing |-> FALSE]
NoBrowser == [cookie |-> 0, stored |-> FALSE]
NoPhone == [token |-> "none", cookie |-> 0, stored |-> FALSE, storedCookie |-> 0]

Free(c) == call[c] = Done
AtServer == {"sent", "user", "revoke", "save", "logout", "answer", "refused", "out"}
InFlight(d) == call[d].at \in AtServer
Goes(c, r) == call' = [call EXCEPT ![c] = r]

\* What a call that starts overlaps with; a tab's own retries should not.
Together(by, kind) ==
    {why \in {"together"} :
        \/ admin
        \/ \E d \in Calls : InFlight(d) /\ ~(call[d].by = by /\ call[d].kind = kind
                                             /\ kind = "retry")}

Request(by, kind, cookie) ==
    [at |-> "sent", by |-> by, kind |-> kind, token |-> cookie, row |-> NoSession]

-----------------------------------------------------------------------------
(* Signing in and out                                                      *)

\* login and startSession; the browser or the phone gets the session.
Login(who) ==
    /\ ~session.exists /\ enabled
    /\ session' = [exists |-> TRUE, enabled |-> TRUE, gen |-> 1] /\ issued' = 1
    /\ IF who = Phone
       THEN /\ phone' = [token |-> "fresh", cookie |-> 1, stored |-> TRUE, storedCookie |-> 1]
            /\ UNCHANGED <<tab, browser>>
       ELSE /\ tab' = [tab EXCEPT ![who].token = "fresh"]
            /\ browser' = [cookie |-> 1, stored |-> TRUE]
            /\ UNCHANGED phone
    /\ UNCHANGED <<enabled, admin, guard, call, history>>

\* The session clients hold is still good for a request.
Valid(token) == token = "fresh" /\ session.enabled /\ enabled
Held(who) == IF who = Phone THEN phone.token ELSE tab[who].token

\* logout: AuthGuard lets it pass, and the row is read.
Logout(who, c) ==
    /\ Free(c) /\ Valid(Held(who))
    /\ \A d \in Calls : call[d].at = "logout" => call[d].by # who
    /\ Goes(c, [Request(who, "logout", 0) EXCEPT !.at = "logout", !.row = session])
    /\ cause' = cause \cup Together(who, "logout")
    /\ UNCHANGED <<row, issued, clients, ended, faults>>

LogoutSave(c) ==
    /\ call[c].at = "logout"
    /\ session' = [call[c].row EXCEPT !.enabled = FALSE]
    /\ ended' = ended \cup {"logout"}
    /\ Goes(c, [call[c] EXCEPT !.at = "out"])
    /\ UNCHANGED <<enabled, admin, guard, issued, clients, cause, faults>>

-----------------------------------------------------------------------------
(* What a client does with an answer                                       *)

\* IdentitySessionStore.clear, expireSession
Clear(who) ==
    CASE who \in Tabs -> /\ tab' = [tab EXCEPT ![who] = NoTab]
                         /\ browser' = [browser EXCEPT !.stored = FALSE]
                         /\ UNCHANGED phone
      [] who = Phone -> phone' = NoPhone /\ UNCHANGED <<tab, browser>>
      [] OTHER -> UNCHANGED clients

\* The refresh is over: the flag of the interceptor is released.
Released(t, c, token) ==
    [token |-> token,
     refreshing |-> tab[t].refreshing /\ call[c].kind # "retry"]

ClearKeepsFlag(c) ==
    LET who == call[c].by
    IN  IF who \in Tabs
        THEN /\ tab' = [tab EXCEPT ![who].token = "none"]
             /\ browser' = [browser EXCEPT !.stored = FALSE]
             /\ UNCHANGED phone
        ELSE Clear(who)
\* The error handlers of the interceptor, of the startup and of the phone.
Refuse(c) ==
    LET who == call[c].by
    IN  IF who \in Tabs
        THEN /\ tab' = [tab EXCEPT ![who] = Released(who, c, "none")]
             /\ browser' = [browser EXCEPT !.stored = FALSE]
             /\ UNCHANGED phone
        ELSE Clear(who)

Refused(c) ==
    /\ call[c].at = "refused"
    /\ Refuse(c) /\ Goes(c, Done)
    /\ UNCHANGED <<row, issued, history>>

\* A refreshed session: cookie, access token and, in the browser, the storage.
\* The phone stores neither.  A request that waited for it is sent again.
Answer(c) ==
    /\ call[c].at = "answer"
    /\ LET who == call[c].by
       IN  /\ CASE who \in Tabs ->
                     /\ tab' = [tab EXCEPT ![who] = Released(who, c, "fresh")]
                     /\ browser' = [cookie |-> call[c].token, stored |-> TRUE]
                     /\ UNCHANGED phone
                [] who = Phone ->
                     /\ phone' = [phone EXCEPT !.token = "fresh", !.cookie = call[c].token]
                     /\ UNCHANGED <<tab, browser>>
                [] OTHER -> UNCHANGED clients
           /\ Goes(c, IF who = Nobody \/ call[c].kind = "startup" THEN Done
                      ELSE [call[c] EXCEPT !.at = "again"])
    /\ UNCHANGED <<row, issued, history>>

\* The answer of a logout; the browser drops its cookie.
Out(c) ==
    /\ call[c].at = "out"
    /\ LET who == call[c].by
       IN  IF who \in Tabs
           THEN /\ tab' = [tab EXCEPT ![who].token = "none"]
                /\ browser' = NoBrowser
                /\ UNCHANGED phone
           ELSE Clear(who)
    /\ Goes(c, Done)
    /\ UNCHANGED <<row, issued, history>>

\* The request or its answer is lost: the client takes it for a failure.
Lose(c) ==
    /\ call[c].at \in {"sent", "logout", "answer", "refused", "out"} /\ call[c].by # Nobody
    /\ faults < MaxFaults /\ faults' = faults + 1
    /\ Refuse(c) /\ Goes(c, Done)
    /\ cause' = cause \cup {"lost"}
    /\ UNCHANGED <<row, issued, ended>>

-----------------------------------------------------------------------------
(* Refreshing                                                              *)

\* An access token expires.
Expire(who) ==
    /\ Held(who) = "fresh" /\ issued < MaxGen
    /\ IF who = Phone THEN phone' = [phone EXCEPT !.token = "stale"] /\ UNCHANGED tab
       ELSE tab' = [tab EXCEPT ![who].token = "stale"] /\ UNCHANGED phone
    /\ UNCHANGED <<row, issued, browser, call, history>>

\* AuthGuard reads a user that is disabled, beside a session that is enabled,
\* or was when it was read.
GuardFinds ==
    /\ ~enabled /\ ~guard /\ guard' = TRUE
    /\ UNCHANGED <<enabled, admin, session, issued, clients, call, history>>

\* disableAllForUser of AuthGuard.
GuardDisables ==
    /\ guard /\ guard' = FALSE
    /\ session' = [session EXCEPT !.enabled = FALSE]
    /\ IF session.enabled
       THEN /\ ended' = ended \cup {why \in {"admin"} : ~enabled}
            /\ cause' = cause \cup {why \in {"guard"} : enabled}
                              \cup {why \in {"together"} : \E d \in Calls : InFlight(d)}
       ELSE UNCHANGED <<ended, cause>>
    /\ UNCHANGED <<enabled, admin, issued, clients, call, faults>>

\* A token that is answered 401 (once the guard is through, for a user that is
\* disabled).
Turned(token) == token = "stale" \/ (token = "fresh" /\ ~session.enabled)

\* A request of a tab is answered 401 and no refresh is in progress.
RetriesAlways(t, c) ==
    /\ Free(c) /\ Turned(tab[t].token)
    /\ tab' = [tab EXCEPT ![t].refreshing = TRUE]
    /\ Goes(c, Request(t, "retry", browser.cookie))
    /\ cause' = cause \cup Together(t, "retry")
    /\ UNCHANGED <<row, issued, browser, phone, ended, faults>>
Unauthorized(t, c) ==
    /\ Free(c) /\ Turned(tab[t].token)
    /\ ~tab[t].refreshing
    /\ tab' = [tab EXCEPT ![t].refreshing = TRUE]
    /\ Goes(c, Request(t, "retry", browser.cookie))
    /\ cause' = cause \cup Together(t, "retry")
    /\ UNCHANGED <<row, issued, browser, phone, ended, faults>>

\* A request of the phone is answered 401; threads that wait for the lock take
\* the token of the one that has it.
PhoneUnauthorized(c) ==
    /\ Free(c) /\ Turned(phone.token)
    /\ \A d \in Calls : ~(call[d].by = Phone /\ call[d].kind = "retry" /\ InFlight(d))
    /\ Goes(c, Request(Phone, "retry", phone.cookie))
    /\ cause' = cause \cup Together(Phone, "retry")
    /\ UNCHANGED <<row, issued, clients, ended, faults>>

\* refresh: the session is found by its id and the hashes compared.
Read(c) ==
    /\ call[c].at = "sent"
    /\ Goes(c, CASE call[c].token = 0 -> [call[c] EXCEPT !.at = "refused"]
                 [] call[c].token \notin {0, session.gen} ->
                      [call[c] EXCEPT !.at = "revoke", !.row = session]
                 [] OTHER -> [call[c] EXCEPT !.at = "user", !.row = session])
    /\ UNCHANGED <<row, issued, clients, history>>

\* The token was used before, or the user may not sign in: the row is saved
\* disabled.
Revoke(c) ==
    /\ call[c].at = "revoke"
    /\ session' = [call[c].row EXCEPT !.enabled = FALSE]
    /\ ended' = ended \cup {IF call[c].token = call[c].row.gen THEN "admin" ELSE "reuse"}
    /\ Goes(c, [call[c] EXCEPT !.at = "refused"])
    /\ UNCHANGED <<enabled, admin, guard, issued, clients, cause, faults>>

CheckUser(c) ==
    /\ call[c].at = "user"
    /\ IF enabled /\ call[c].row.enabled
       THEN /\ issued' = issued + 1
            /\ Goes(c, [call[c] EXCEPT !.at = "save", !.token = issued + 1])
       ELSE /\ Goes(c, [call[c] EXCEPT !.at = IF call[c].row.enabled THEN "revoke" ELSE "refused"])
            /\ UNCHANGED issued
    /\ UNCHANGED <<row, clients, history>>

SaveUnrotated(c) ==
    /\ call[c].at = "save"
    /\ session' = call[c].row
    /\ Goes(c, [call[c] EXCEPT !.at = "answer"])
    /\ UNCHANGED <<enabled, admin, guard, issued, clients, history>>
\* rotate and save
Save(c) ==
    /\ call[c].at = "save"
    /\ session' = [call[c].row EXCEPT !.gen = call[c].token]
    /\ Goes(c, [call[c] EXCEPT !.at = "answer"])
    /\ UNCHANGED <<enabled, admin, guard, issued, clients, history>>

-----------------------------------------------------------------------------
(* The request that is sent again                                          *)

AgainSucceeds(c) ==
    /\ call[c].at = "again"
    /\ call[c].by = Phone => Valid(phone.token)
    /\ Goes(c, Done)
    /\ UNCHANGED <<row, issued, clients, history>>

\* It fails, for whatever reason: the tab ends its session all the same.
AgainFails(c) ==
    /\ call[c].at = "again" /\ call[c].by \in Tabs
    /\ faults < MaxFaults /\ faults' = faults + 1
    /\ Refuse(c) /\ Goes(c, Done)
    /\ cause' = cause \cup {"retry"}
    /\ UNCHANGED <<row, issued, ended>>

\* A second 401 ends the phone's session.
PhoneAgain(c) ==
    /\ call[c].at = "again" /\ call[c].by = Phone /\ Turned(phone.token)
    /\ Clear(Phone) /\ Goes(c, Done)
    /\ cause' = cause \cup {why \in {"retry"} : phone.token = "stale"}
    /\ UNCHANGED <<row, issued, ended, faults>>

-----------------------------------------------------------------------------
(* Reloads, restarts and administration                                    *)

\* Nobody waits any more for the calls of a client that starts again.
Orphans(who) ==
    /\ cause' = cause \cup {why \in {"lost"} : \E d \in Calls : call[d].by = who}
    /\ call' = [d \in Calls |-> IF call[d].by # who THEN call[d]
                  ELSE IF InFlight(d) THEN [call[d] EXCEPT !.by = Nobody] ELSE Done]

\* A tab is opened or loaded again without a session in storage.
OpenEmpty(t) ==
    /\ ~browser.stored /\ tab[t] # NoTab
    /\ tab' = [tab EXCEPT ![t] = NoTab]
    /\ Orphans(t)
    /\ UNCHANGED <<row, issued, browser, phone, ended, faults>>

\* With one: refreshIdentitySessionOnStartup, which does not set the flag.
Open(t, c) ==
    /\ browser.stored /\ Free(c) /\ issued < MaxGen
    /\ tab' = [tab EXCEPT ![t] = [token |-> "fresh", refreshing |-> FALSE]]
    /\ \A d \in Calls : call[d].by # t
    /\ Goes(c, Request(t, "startup", browser.cookie))
    /\ cause' = cause \cup Together(t, "startup")
    /\ UNCHANGED <<row, issued, browser, phone, ended, faults>>

\* The tab goes away in the middle of its calls.
Close(t) ==
    /\ faults < MaxFaults /\ faults' = faults + 1
    /\ \E d \in Calls : call[d].by = t
    /\ Orphans(t)
    /\ tab' = [tab EXCEPT ![t] = NoTab]
    /\ UNCHANGED <<row, issued, browser, phone, ended>>

\* The process of the phone ends and starts again: restoreSession.
Restart ==
    /\ faults < MaxFaults /\ faults' = faults + 1
    /\ phone.stored
    /\ phone' = [phone EXCEPT !.token = "fresh", !.cookie = phone.storedCookie]
    /\ call' = [d \in Calls |-> IF call[d].by # Phone THEN call[d]
                  ELSE IF InFlight(d) THEN [call[d] EXCEPT !.by = Nobody] ELSE Done]
    /\ cause' = cause \cup {why \in {"lost"} : \E d \in Calls : call[d].by = Phone}
                      \cup {why \in {"restart"} : phone.cookie # phone.storedCookie}
    /\ UNCHANGED <<row, issued, tab, browser, ended>>

\* SetUserEnabled(false): the user is saved, with its sessions, and then the
\* sessions once more.
Disable ==
    /\ enabled /\ ~admin
    /\ enabled' = FALSE /\ admin' = TRUE
    /\ session' = [session EXCEPT !.enabled = FALSE]
    /\ ended' = ended \cup {why \in {"admin"} : session.exists}
    /\ cause' = cause \cup {why \in {"together"} : \E d \in Calls : InFlight(d)}
    /\ UNCHANGED <<guard, issued, clients, call, faults>>
DisableAll ==
    /\ admin /\ admin' = FALSE
    /\ session' = [session EXCEPT !.enabled = FALSE]
    /\ UNCHANGED <<enabled, guard, issued, clients, call, history>>
EnableRevives ==
    /\ ~enabled /\ ~admin
    /\ faults < MaxFaults /\ faults' = faults + 1
    /\ enabled' = TRUE /\ session' = [session EXCEPT !.enabled = TRUE]
    /\ UNCHANGED <<admin, guard, issued, clients, call, ended, cause>>
Enable ==
    /\ ~enabled /\ ~admin
    /\ faults < MaxFaults /\ faults' = faults + 1
    /\ enabled' = TRUE
    /\ UNCHANGED <<admin, guard, session, issued, clients, call, ended, cause>>

-----------------------------------------------------------------------------
Init ==
    /\ enabled = TRUE /\ admin = FALSE /\ guard = FALSE /\ session = NoSession /\ issued = 0
    /\ tab = [t \in Tabs |-> NoTab] /\ browser = NoBrowser /\ phone = NoPhone
    /\ call = [c \in Calls |-> Done]
    /\ ended = {} /\ cause = {} /\ faults = 0

Server(c) == LogoutSave(c) \/ Read(c) \/ Revoke(c) \/ CheckUser(c) \/ Save(c)
Client(c) == Refused(c) \/ Answer(c) \/ Out(c) \/ AgainSucceeds(c) \/ PhoneAgain(c)

Next ==
    \/ \E who \in Tabs \cup {Phone} : Login(who) \/ Expire(who)
    \/ \E c \in Calls :
         \/ Server(c) \/ Client(c) \/ Lose(c) \/ AgainFails(c)
         \/ \E who \in Tabs \cup {Phone} : Logout(who, c)
         \/ \E t \in Tabs : Unauthorized(t, c) \/ Open(t, c)
         \/ PhoneUnauthorized(c)
    \/ \E t \in Tabs : OpenEmpty(t) \/ Close(t)
    \/ Restart \/ Disable \/ DisableAll \/ Enable \/ GuardFinds \/ GuardDisables

\* Calls are served and answered; a tab polls its floor, and so meets the guard
\* and a 401.
Fairness ==
    /\ \A c \in Calls : WF_vars(Server(c)) /\ WF_vars(Client(c))
    /\ \A t \in Tabs : WF_vars(\E c \in Calls : Unauthorized(t, c))
    /\ WF_vars(DisableAll) /\ WF_vars(GuardDisables)
    /\ WF_vars(GuardFinds /\ \E t \in Tabs : tab[t].token = "fresh")

Spec == Init /\ [][Next]_vars /\ Fairness

-----------------------------------------------------------------------------
(* Properties                                                              *)

Row == [exists : BOOLEAN, enabled : BOOLEAN, gen : Nat]
Call == [at : AtServer \cup {"again"}, by : Tabs \cup {Phone, Nobody},
         kind : {"retry", "startup", "logout"}, token : Nat, row : Row]
Token == {"none", "fresh", "stale"}

\* Every variable has its type, and the row holds the hash of a token that was
\* issued.
TypeOK ==
    /\ {enabled, admin, guard} \subseteq BOOLEAN
    /\ session \in Row /\ issued \in Nat /\ session.gen <= issued
    /\ session.exists <=> session.gen > 0
    /\ tab \in [Tabs -> [token : Token, refreshing : BOOLEAN]]
    /\ browser \in [cookie : Nat, stored : BOOLEAN]
    /\ phone \in [token : Token, cookie : Nat, stored : BOOLEAN, storedCookie : Nat]
    /\ call \in [Calls -> {Done} \cup Call]
    /\ ended \subseteq {"logout", "admin", "reuse"}
    /\ cause \subseteq {"together", "lost", "retry", "restart", "guard"}
    /\ faults \in 0 .. MaxFaults

\* refreshInProgress: one tab has one refresh of its interceptor at a time, as
\* long as no retried request fails (which releases the flag of any other).
Retrying(t, c) == call[c].by = t /\ InFlight(c) /\ call[c].kind = "retry"
OneRefreshPerTab == "retry" \notin cause =>
    \A t \in Tabs : \A c, d \in Calls : Retrying(t, c) /\ Retrying(t, d) => c = d

\* The row, the tokens that clients hold and the calls in flight agree in every
\* state.
SessionConsistent == TypeOK /\ OneRefreshPerTab

\* Reuse of a refresh token is never detected in an honest client, except after
\* overlapping calls, a lost answer, or a restart of the phone.
FalseAlarm == "reuse" \in ended => cause \cap {"together", "lost", "restart"} # {}

\* A session that was disabled stays disabled, also when its user is enabled
\* again, unless the save of an overlapping call brings the row back.
StaysDisabled == [][session.exists /\ ~session.enabled /\ session'.enabled
                      => "together" \in cause']_vars

\* Nobody is signed out before the session is ended on purpose, except by one of
\* the events of cause.
SignedOutForAReason == [][
    (\/ \E t \in Tabs : tab[t].token # "none" /\ tab'[t].token = "none"
     \/ phone.token # "none" /\ phone'.token = "none")
      => ended' \cap {"logout", "admin"} # {} \/ cause' # {}]_vars

\* Whoever has a session when its user is disabled for good loses it: the tab's
\* requests are refused, its refresh too, and it is back at the login page.
DisabledIsOut == <>[](~enabled) => <>[](\A t \in Tabs : tab[t] = NoTab)
=============================================================================
