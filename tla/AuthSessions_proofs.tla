------------------------- MODULE AuthSessions_proofs -------------------------
(***************************************************************************)
(* One session with any number of tabs, calls, tokens and faults: types    *)
(* and the flag of the interceptor, disabled sessions that stay disabled,  *)
(* no false alarm about a reused refresh token, and no sign-out without a  *)
(* reason.                                                                 *)
(***************************************************************************)
EXTENDS AuthSessions, TLAPS

Quiet == "together" \notin cause
Faithful == cause \cap {"together", "lost", "restart"} = {}

\* The use case has its copy of the row.
Holds(c) == call[c].at \in {"user", "revoke", "save", "logout"}

\* The browser takes no part in the session: it is the phone's, or there is none.
NoTabs == browser = NoBrowser /\ \A t \in Tabs : tab[t].token = "none"

\* A call belongs to a session, and the copy of the row it has is of that one.
Dated(c) ==
    /\ call[c] # Done => session.exists
    /\ Holds(c) => call[c].row.exists /\ call[c].row.gen \in 1 .. issued
    /\ call[c].at = "save" => call[c].token \in 1 .. issued

\* A call is of the client that has the session.
Owned(c) ==
    /\ call[c].by = Phone => NoTabs /\ \A d \in Calls : call[d].by \notin Tabs
    /\ call[c].by \in Tabs => phone = NoPhone

\* The refresh of a tab keeps it from starting another one.
Flagged(c) ==
    \A t \in Tabs : Retrying(t, c) =>
        /\ "retry" \notin cause => tab[t].refreshing
        /\ Quiet => tab[t].refreshing \/ tab[t].token = "none"

\* What a call read is still the row as long as nothing overlapped, and the token
\* it holds is that of the row as long as nothing got lost either.
Timely(c) ==
    /\ Quiet /\ Holds(c) => call[c].row = session
    /\ Faithful =>
         /\ call[c] # Done => call[c].by # Nobody
         /\ call[c].at = "sent" => call[c].token \in {0, session.gen}
         /\ call[c].at \in {"user", "revoke", "answer"} => call[c].token = session.gen

Good(c) == Dated(c) /\ Owned(c) /\ Flagged(c) /\ Timely(c)

Answered(S) == \E c \in Calls : call[c].at = "answer" /\ call[c].by \in S

Shared ==
    /\ ~session.exists => NoTabs /\ phone = NoPhone /\ ~session.enabled
    /\ NoTabs \/ phone = NoPhone
    /\ admin => ~enabled
    /\ Quiet => /\ ~enabled => ~session.enabled
                /\ \A c, d \in Calls : InFlight(c) /\ InFlight(d) => c = d
    /\ Faithful => /\ "reuse" \notin ended
                   /\ browser.cookie \in {0, session.gen} \/ Answered(Tabs)
                   /\ phone.cookie \in {0, session.gen} \/ Answered({Phone})

Inv == TypeOK /\ OneRefreshPerTab /\ Shared /\ \A c \in Calls : Good(c)

LEMMA CallFields ==
  ASSUME TypeOK, NEW c \in Calls
  PROVE  /\ call[c] = Done \/ call[c] \in Call
         /\ InFlight(c) \/ call[c].at = "again" => call[c] \in Call /\ call[c] # Done
         /\ Holds(c) => InFlight(c)
  BY DEF TypeOK, Done, InFlight, Holds, AtServer, Call

\* A call that goes on keeps what it does not change.
LEMMA GoesTo ==
  ASSUME NEW r \in Call, NEW at \in AtServer \cup {"again"}, NEW x, x = [r EXCEPT !.at = at]
  PROVE  /\ x \in Call /\ x.at = at /\ x.by = r.by /\ x.kind = r.kind
         /\ x.token = r.token /\ x.row = r.row
  BY DEF Call

\* Tokens that were issued stay issued.
LEMMA Later ==
  ASSUME NEW n \in Nat, NEW m \in {n, n + 1}
  PROVE  m \in Nat /\ \A k \in 1 .. n : k \in 1 .. m
  OBVIOUS

LEMMA InitInv == Init => Inv
<1> SUFFICES ASSUME Init PROVE Inv
  OBVIOUS
<1>1. /\ \A c \in Calls : call[c] = Done
      /\ \A t \in Tabs : tab[t] = NoTab
      /\ session = NoSession /\ browser = NoBrowser /\ phone = NoPhone
      /\ cause = {} /\ ended = {} /\ ~admin
  BY DEF Init
<1>2. TypeOK
  <2>1. session \in Row /\ session.gen = 0 /\ session.exists = FALSE /\ issued = 0
    BY DEF Init, NoSession, Row
  <2>2. /\ tab \in [Tabs -> [token : Token, refreshing : BOOLEAN]]
        /\ browser \in [cookie : Nat, stored : BOOLEAN]
        /\ phone \in [token : Token, cookie : Nat, stored : BOOLEAN, storedCookie : Nat]
    BY DEF Init, NoTab, NoBrowser, NoPhone, Token
  <2>3. faults \in 0 .. MaxFaults
    BY AuthSessionsAssumption DEF Init
  <2>4. call \in [Calls -> {Done} \cup Call] /\ {enabled, admin, guard} \subseteq BOOLEAN
        /\ ended = {} /\ cause = {}
    BY DEF Init
  <2>5. QED
    BY <2>1, <2>2, <2>3, <2>4 DEF TypeOK
<1>3. ASSUME NEW c \in Calls PROVE Good(c) /\ ~InFlight(c)
  BY <1>1, AuthSessionsAssumption DEF Good, Dated, Owned, Flagged, Timely, Done, Holds, InFlight, AtServer, Retrying
<1>4. OneRefreshPerTab
  BY <1>3 DEF OneRefreshPerTab, Retrying
<1>5. Shared
  BY <1>1, <1>3 DEF Shared, NoTabs, NoTab, NoBrowser, NoPhone, NoSession
<1>6. QED
  BY <1>2, <1>3, <1>4, <1>5 DEF Inv

-----------------------------------------------------------------------------
(* Calls at the server that only read                                      *)

\* The next state of a call that the others do not notice.
LEMMA QuietStep ==
  ASSUME Inv, NEW c \in Calls, TypeOK', InFlight(c), call[c].at # "answer",
         NEW r \in Call, call' = [call EXCEPT ![c] = r], r.at \in AtServer \ {"answer"},
         r.by = call[c].by, r.kind = call[c].kind,
         issued' \in {issued, issued + 1},
         UNCHANGED <<row, clients, ended, cause>>, Good(c)'
  PROVE  Inv'
<1>0. /\ call[c] # Done /\ session.exists
      /\ \A d \in Calls : call'[d] = IF d = c THEN r ELSE call[d]
  BY CallFields DEF Inv, TypeOK, Good, Dated, Owned, Flagged, Timely
<1>1. \A d \in Calls : InFlight(d)' <=> InFlight(d)
  BY <1>0 DEF InFlight
<1>2. OneRefreshPerTab'
  BY <1>0, <1>1 DEF Inv, OneRefreshPerTab, Retrying
<1>3. ASSUME NEW d \in Calls PROVE Good(d)'
  <2>1. CASE d = c
    BY <2>1
  <2>2. CASE d # c
    <3>1. /\ call'[d] = call[d] /\ Good(d) /\ \A e \in Calls : call'[e].by = call[e].by
          /\ UNCHANGED <<session, tab, browser, phone, cause>>
      BY <1>0, <2>2 DEF Inv, row, clients
    <3>2. Dated(d)'
      BY <3>1, Later DEF Inv, TypeOK, Good, Dated, Holds
    <3>3. Owned(d)' /\ Flagged(d)' /\ Timely(d)'
      BY <1>1, <3>1 DEF Good, Owned, Flagged, Timely, Holds, NoTabs, Retrying, InFlight, Quiet, Faithful
    <3>4. QED
      BY <3>2, <3>3 DEF Good
  <2>3. QED
    BY <2>1, <2>2
<1>4. Shared'
  <2>1. \A S : Answered(S) => Answered(S)'
    BY <1>0 DEF Answered
  <2>2. QED
    BY <1>0, <1>1, <2>1 DEF Inv, Shared, NoTabs, Quiet, Faithful, row, clients
<1>5. QED
  BY <1>2, <1>3, <1>4 DEF Inv

LEMMA ReadStep ==
  ASSUME Inv, NEW c \in Calls, Read(c)
  PROVE  Inv'
<1> DEFINE r == CASE call[c].token = 0 -> [call[c] EXCEPT !.at = "refused"]
                  [] call[c].token \notin {0, session.gen} -> [call[c] EXCEPT !.at = "revoke", !.row = session]
                  [] OTHER -> [call[c] EXCEPT !.at = "user", !.row = session]
<1>0. /\ call[c] \in Call /\ InFlight(c) /\ call[c].at = "sent" /\ session \in Row
      /\ call[c] # Done /\ session.exists /\ call \in [Calls -> {Done} \cup Call]
  BY CallFields DEF Inv, TypeOK, Read, InFlight, AtServer, Good, Dated, Owned, Flagged, Timely
<1>1. r \in Call /\ r.by = call[c].by /\ r.kind = call[c].kind /\ r.token = call[c].token
      /\ r.at \in {"refused", "revoke", "user"} /\ (r.at # "refused" => r.row = session)
      /\ (r.at = "user" => r.token = session.gen)
      /\ (r.at = "revoke" => r.token \notin {0, session.gen})
  <2>1. /\ "refused" \in AtServer /\ "revoke" \in AtServer /\ "user" \in AtServer
        /\ call[c].token \in Nat
    BY <1>0 DEF AtServer, Call
  <2>2. CASE call[c].token = 0
    <3>1. r = [call[c] EXCEPT !.at = "refused"]
      BY <1>0, <2>2
    <3> HIDE DEF r
    <3>2. QED
      BY <1>0, <2>1, <3>1, GoesTo
  <2>3. CASE call[c].token # 0 /\ session.gen # call[c].token
    <3>1. r = [call[c] EXCEPT !.at = "revoke", !.row = session]
      BY <2>3
    <3> HIDE DEF r
    <3>2. QED
      BY <1>0, <2>1, <2>3, <3>1 DEF Call
  <2>4. CASE call[c].token # 0 /\ session.gen = call[c].token
    <3>1. r = [call[c] EXCEPT !.at = "user", !.row = session]
      BY <2>4
    <3> HIDE DEF r
    <3>2. QED
      BY <1>0, <2>1, <2>4, <3>1 DEF Call
  <2>5. QED
    BY <2>2, <2>3, <2>4
<1>2. call' = [call EXCEPT ![c] = r] /\ UNCHANGED <<row, issued, clients, history>>
  BY DEF Read, Goes
<1> HIDE DEF r
<1>3. TypeOK'
  BY <1>1, <1>2 DEF Inv, TypeOK, row, clients, history
<1>4. Good(c)'
  <2>1. /\ call'[c] = r /\ Good(c) /\ UNCHANGED <<session, issued, tab, browser, phone, cause>>
        /\ \A d \in Calls : call'[d].by = call[d].by
    BY <1>0, <1>1, <1>2 DEF Inv, row, clients, history
  <2>2. Dated(c)'
    <3>1. session.gen \in 1 .. issued
      BY <1>0 DEF Inv, TypeOK, Row
    <3>2. QED
      BY <1>0, <1>1, <2>1, <3>1 DEF Dated, Holds
  <2>3. Owned(c)' /\ Flagged(c)' /\ Timely(c)'
    BY <1>0, <1>1, <2>1 DEF Good, Owned, Flagged, Timely, Holds, NoTabs, Retrying, InFlight, AtServer,
       Quiet, Faithful
  <2>4. QED
    BY <2>2, <2>3 DEF Good
<1>5. QED
  BY <1>0, <1>1, <1>2, <1>3, <1>4, QuietStep DEF history, AtServer

LEMMA CheckUserStep ==
  ASSUME Inv, NEW c \in Calls, CheckUser(c)
  PROVE  Inv'
<1> DEFINE r == IF enabled /\ call[c].row.enabled
                THEN [call[c] EXCEPT !.at = "save", !.token = issued + 1]
                ELSE [call[c] EXCEPT !.at = IF call[c].row.enabled THEN "revoke" ELSE "refused"]
<1>0. /\ call[c] \in Call /\ InFlight(c) /\ call[c].at = "user" /\ Holds(c)
      /\ session \in Row /\ issued \in Nat /\ session.gen <= issued
      /\ call[c] # Done /\ call \in [Calls -> {Done} \cup Call]
  BY CallFields DEF Inv, TypeOK, CheckUser, InFlight, AtServer, Holds
<1>1. r \in Call /\ r.by = call[c].by /\ r.kind = call[c].kind /\ r.row = call[c].row
      /\ r.at \in {"refused", "revoke", "save"} /\ (r.at = "revoke" => r.token = call[c].token)
      /\ (r.at = "save" => r.token = issued + 1 /\ issued' = issued + 1)
  <2>1. /\ "refused" \in AtServer /\ "revoke" \in AtServer /\ "save" \in AtServer
        /\ issued + 1 \in Nat
        /\ call[c].row \in Row
    BY <1>0 DEF AtServer, Call
  <2>2. \/ r = [call[c] EXCEPT !.at = "save", !.token = issued + 1] /\ issued' = issued + 1
        \/ r = [call[c] EXCEPT !.at = "revoke"]
        \/ r = [call[c] EXCEPT !.at = "refused"]
    BY DEF CheckUser
  <2> HIDE DEF r
  <2>3. QED
    BY <1>0, <2>1, <2>2 DEF Call
<1>2. call' = [call EXCEPT ![c] = r] /\ UNCHANGED <<row, clients, history>>
      /\ issued' \in {issued, issued + 1}
  BY DEF CheckUser, Goes
<1> HIDE DEF r
<1>3. TypeOK'
  <2>1. issued' \in Nat /\ session.gen <= issued'
    <3>1. session.gen \in Nat
      BY <1>0 DEF Row
    <3>2. QED
      BY <1>0, <1>2, <3>1
  <2>2. QED
    BY <1>1, <1>2, <2>1 DEF Inv, TypeOK, row, clients, history
<1>4. Good(c)'
  <2>1. /\ call'[c] = r /\ Good(c) /\ UNCHANGED <<session, tab, browser, phone, cause>>
        /\ \A d \in Calls : call'[d].by = call[d].by
    BY <1>0, <1>1, <1>2 DEF Inv, row, clients, history
  <2>2. Dated(c)'
    <3>1. r.at = "save" => r.token \in 1 .. issued'
      BY <1>0, <1>1, <1>2
    <3>2. QED
      BY <1>0, <1>1, <1>2, <2>1, <3>1, Later DEF Good, Dated, Holds
  <2>3. Owned(c)' /\ Flagged(c)' /\ Timely(c)'
    BY <1>0, <1>1, <2>1 DEF Good, Owned, Flagged, Timely, Holds, NoTabs, Retrying, InFlight, AtServer,
       Quiet, Faithful
  <2>4. QED
    BY <2>2, <2>3 DEF Good
<1>5. QED
  BY <1>0, <1>1, <1>2, <1>3, <1>4, QuietStep DEF history, AtServer

-----------------------------------------------------------------------------
(* Calls that save the row                                                 *)

LEMMA SaveStep ==
  ASSUME Inv, NEW c \in Calls, Holds(c), TypeOK',
         NEW r \in Call, call' = [call EXCEPT ![c] = r], r.at \in {"out", "refused", "answer"},
         r.by = call[c].by, r.kind = call[c].kind,
         session'.exists, session'.enabled => call[c].row.enabled,
         session'.gen = IF r.at = "answer" THEN r.token ELSE call[c].row.gen,
         UNCHANGED <<enabled, admin, guard, issued, clients, cause>>,
         Faithful /\ "reuse" \notin ended => "reuse" \notin ended'
  PROVE  Inv'
<1>1. /\ call[c] # Done /\ call[c] \in Call /\ InFlight(c) /\ Good(c) /\ session.exists
      /\ \A d \in Calls : call'[d] = IF d = c THEN r ELSE call[d]
  BY CallFields DEF Inv, TypeOK, Good, Dated
<1>2. /\ \A d \in Calls : InFlight(d)' <=> InFlight(d)
      /\ \A d \in Calls : call'[d].by = call[d].by
      /\ \A d \in Calls : Holds(d) => InFlight(d)
  BY <1>1, CallFields DEF Inv, InFlight, AtServer
<1>3. UNCHANGED <<enabled, admin, guard, issued, tab, browser, phone, cause>>
  BY DEF clients
<1>4. OneRefreshPerTab'
  BY <1>1, <1>2, <1>3 DEF Inv, OneRefreshPerTab, Retrying
<1>5. Quiet => \A d \in Calls : InFlight(d) => d = c
  BY <1>1 DEF Inv, Shared
<1>6. ASSUME NEW d \in Calls PROVE Good(d)'
  <2>1. Good(d)
    BY DEF Inv
  <2>2. Dated(d)'
    BY <1>1, <1>3, <2>1 DEF Good, Dated, Holds
  <2>3. Owned(d)'
    BY <1>2, <1>3, <2>1 DEF Good, Owned, NoTabs
  <2>4. Flagged(d)'
    BY <1>1, <1>2, <1>3, <2>1 DEF Good, Flagged, Retrying, Quiet
  <2>5. Timely(d)'
    <3>1. CASE d = c
      BY <1>1, <1>3, <3>1 DEF Good, Timely, Holds, Quiet, Faithful
    <3>2. CASE d # c
      BY <1>1, <1>2, <1>3, <1>5, <2>1, <3>2 DEF Good, Timely, Holds, InFlight, AtServer, Quiet, Faithful
    <3>3. QED
      BY <3>1, <3>2
  <2>6. QED
    BY <2>2, <2>3, <2>4, <2>5 DEF Good
<1>7. Shared'
  <2>1. Quiet => call[c].row = session
    BY <1>1 DEF Good, Timely
  <2>2. Quiet' => /\ ~enabled' => ~session'.enabled
                  /\ \A d, e \in Calls : InFlight(d)' /\ InFlight(e)' => d = e
    BY <1>2, <1>3, <1>5, <2>1 DEF Inv, Shared, Quiet
  <2>3. ASSUME Faithful'
        PROVE  /\ browser.cookie \in {0, session'.gen} \/ Answered(Tabs)'
               /\ phone.cookie \in {0, session'.gen} \/ Answered({Phone})'
    <3>0. Faithful /\ Quiet
      BY <1>3, <2>3 DEF Faithful, Quiet
    <3>1. ~Answered(Tabs) /\ ~Answered({Phone})
      BY <1>1, <1>5, <3>0 DEF Answered, Holds, InFlight, AtServer
    <3>2. browser.cookie \in {0, session.gen} /\ phone.cookie \in {0, session.gen}
      BY <3>0, <3>1 DEF Inv, Shared
    <3>3. CASE r.at # "answer"
      BY <2>1, <3>0, <3>2, <3>3
    <3>4. CASE r.at = "answer" /\ r.by = Phone
      BY <1>1, <3>4 DEF Good, Owned, NoTabs, NoBrowser, Answered
    <3>5. CASE r.at = "answer" /\ r.by \in Tabs
      BY <1>1, <3>5 DEF Good, Owned, NoPhone, Answered
    <3>6. r.by \in Tabs \cup {Phone}
      BY <1>1, <3>0 DEF Good, Timely, Call
    <3>7. QED
      BY <3>3, <3>4, <3>5, <3>6
  <2>4. QED
    BY <1>3, <2>2, <2>3 DEF Inv, Shared, NoTabs, Faithful
<1>8. QED
  BY <1>4, <1>6, <1>7 DEF Inv

\* What the row becomes when a copy of it is saved has its type.
LEMMA SavedRow ==
  ASSUME Inv, NEW c \in Calls, Holds(c), NEW q, NEW n \in 1 .. issued,
         \/ q = [call[c].row EXCEPT !.enabled = FALSE] /\ n = call[c].row.gen
         \/ q = [call[c].row EXCEPT !.gen = n]
  PROVE  /\ q \in Row /\ q.exists /\ q.gen = n /\ q.gen <= issued /\ q.gen > 0
         /\ q.enabled => call[c].row.enabled
<1>1. call[c].row \in Row /\ call[c].row.exists /\ issued \in Nat
  BY CallFields DEF Inv, TypeOK, Good, Dated, Call
<1>2. n \in Nat /\ n > 0 /\ n <= issued
  BY <1>1
<1>3. QED
  BY <1>1, <1>2 DEF Row

LEMMA LogoutSaveStep ==
  ASSUME Inv, NEW c \in Calls, LogoutSave(c)
  PROVE  Inv'
<1> DEFINE r == [call[c] EXCEPT !.at = "out"]
<1>1. /\ call[c] \in Call /\ Holds(c) /\ call[c].row.gen \in 1 .. issued
      /\ call \in [Calls -> {Done} \cup Call] /\ "out" \in AtServer
  BY CallFields DEF Inv, TypeOK, LogoutSave, Holds, InFlight, AtServer, Good, Dated
<1>2. r \in Call /\ r.at = "out" /\ r.by = call[c].by /\ r.kind = call[c].kind
  BY <1>1, GoesTo
<1>3. /\ call' = [call EXCEPT ![c] = r] /\ ended' = ended \cup {"logout"}
      /\ session' = [call[c].row EXCEPT !.enabled = FALSE]
      /\ UNCHANGED <<enabled, admin, guard, issued, clients, cause, faults>>
  BY DEF LogoutSave, Goes
<1> HIDE DEF r
<1>4. /\ session' \in Row /\ session'.exists /\ session'.gen = call[c].row.gen
      /\ session'.gen <= issued /\ session'.gen > 0
      /\ session'.enabled => call[c].row.enabled
  BY <1>1, <1>3, SavedRow
<1>5. TypeOK'
  BY <1>2, <1>3, <1>4 DEF Inv, TypeOK, clients
<1>6. QED
  BY <1>1, <1>2, <1>3, <1>4, <1>5, SaveStep

LEMMA RevokeStep ==
  ASSUME Inv, NEW c \in Calls, Revoke(c)
  PROVE  Inv'
<1> DEFINE r == [call[c] EXCEPT !.at = "refused"]
<1>1. /\ call[c] \in Call /\ Holds(c) /\ call[c].row.gen \in 1 .. issued /\ Good(c)
      /\ call \in [Calls -> {Done} \cup Call] /\ "refused" \in AtServer
  BY CallFields DEF Inv, TypeOK, Revoke, Holds, InFlight, AtServer, Good, Dated
<1>2. r \in Call /\ r.at = "refused" /\ r.by = call[c].by /\ r.kind = call[c].kind
  BY <1>1, GoesTo
<1>3. /\ call' = [call EXCEPT ![c] = r]
      /\ ended' = ended \cup {IF call[c].token = call[c].row.gen THEN "admin" ELSE "reuse"}
      /\ session' = [call[c].row EXCEPT !.enabled = FALSE]
      /\ UNCHANGED <<enabled, admin, guard, issued, clients, cause, faults>>
  BY DEF Revoke, Goes
<1> HIDE DEF r
<1>4. /\ session' \in Row /\ session'.exists /\ session'.gen = call[c].row.gen
      /\ session'.gen <= issued /\ session'.gen > 0
      /\ session'.enabled => call[c].row.enabled
  BY <1>1, <1>3, SavedRow
<1>5. TypeOK'
  BY <1>2, <1>3, <1>4 DEF Inv, TypeOK, clients
<1>6. Faithful /\ "reuse" \notin ended => "reuse" \notin ended'
  BY <1>1, <1>3 DEF Revoke, Good, Timely, Quiet, Faithful
<1>7. QED
  BY <1>1, <1>2, <1>3, <1>4, <1>5, <1>6, SaveStep

LEMMA SaveTokenStep ==
  ASSUME Inv, NEW c \in Calls, Save(c)
  PROVE  Inv'
<1> DEFINE r == [call[c] EXCEPT !.at = "answer"]
<1>1. /\ call[c] \in Call /\ Holds(c) /\ call[c].token \in 1 .. issued
      /\ call \in [Calls -> {Done} \cup Call] /\ "answer" \in AtServer
  BY CallFields DEF Inv, TypeOK, Save, Holds, InFlight, AtServer, Good, Dated
<1>2. /\ r \in Call /\ r.at = "answer" /\ r.by = call[c].by /\ r.kind = call[c].kind
      /\ r.token = call[c].token
  BY <1>1, GoesTo
<1>3. /\ call' = [call EXCEPT ![c] = r] /\ UNCHANGED ended
      /\ session' = [call[c].row EXCEPT !.gen = call[c].token]
      /\ UNCHANGED <<enabled, admin, guard, issued, clients, cause, faults>>
  BY DEF Save, Goes, history
<1> HIDE DEF r
<1>4. /\ session' \in Row /\ session'.exists /\ session'.gen = r.token
      /\ session'.gen <= issued /\ session'.gen > 0
      /\ session'.enabled => call[c].row.enabled
  BY <1>1, <1>2, <1>3, SavedRow
<1>5. TypeOK'
  BY <1>2, <1>3, <1>4 DEF Inv, TypeOK, clients
<1>6. QED
  BY <1>1, <1>2, <1>3, <1>4, <1>5, SaveStep

-----------------------------------------------------------------------------
(* Calls that are answered                                                 *)

\* What the client of a call that is over may do with its answer.
Takes(c) ==
    /\ call[c].by \notin Tabs => UNCHANGED <<tab, browser>>
    /\ call[c].by # Phone => UNCHANGED phone
    /\ \A t \in Tabs :
         \/ /\ tab'[t].refreshing = tab[t].refreshing
            /\ tab[t].token = "none" => tab'[t].token = "none" \/ InFlight(c)
         \/ Retrying(t, c)
         \/ "retry" \in cause' /\ tab'[t].token = "none"
    /\ Faithful' =>
         /\ \/ browser'.cookie \in {0, session.gen}
            \/ call[c].at # "answer" /\ browser'.cookie = browser.cookie
            \/ call[c].by \notin Tabs
         /\ \/ phone'.cookie \in {0, session.gen}
            \/ call[c].at # "answer" /\ phone'.cookie = phone.cookie
            \/ call[c].by # Phone

LEMMA EndStep ==
  ASSUME Inv, NEW c \in Calls, call[c] # Done, TypeOK',
         NEW r, call' = [call EXCEPT ![c] = r],
         r = Done \/ (r.at = "again" /\ r.by = call[c].by /\ r # Done),
         Takes(c), cause \subseteq cause',
         session'.exists = session.exists, session'.gen = session.gen,
         session'.enabled => session.enabled, Quiet => session' = session,
         UNCHANGED <<enabled, admin, guard, issued>>, "reuse" \in ended' => "reuse" \in ended
  PROVE  Inv'
<1>1. /\ session.exists /\ Good(c)
      /\ \A d \in Calls : call'[d] = IF d = c THEN r ELSE call[d]
  BY DEF Inv, TypeOK, Good, Dated
<1>2. /\ ~InFlight(c)'
      /\ \A d \in Calls : d # c => call'[d] = call[d] /\ (InFlight(d)' <=> InFlight(d))
      /\ r.by \in {call[c].by, Nobody} /\ r.at \in {"again", "done"}
  BY <1>1 DEF InFlight, AtServer, Done
<1>3. (Quiet' => Quiet) /\ (Faithful' => Faithful)
  BY DEF Quiet, Faithful
<1>4. OneRefreshPerTab'
  BY <1>2 DEF Inv, OneRefreshPerTab, Retrying
<1>5. Nobody \notin Tabs /\ Nobody # Phone /\ Phone \notin Tabs
  BY AuthSessionsAssumption
<1>6. \A d \in Calls : call'[d].by \in {call[d].by, Nobody}
  BY <1>1, <1>2
<1>7. ASSUME NEW d \in Calls PROVE Good(d)'
  <2>1. Good(d)
    BY DEF Inv
  <2>2. Dated(d)'
    BY <1>1, <1>2, <2>1 DEF Good, Dated, Holds
  <2>3. Owned(d)'
    <3>1. CASE call[d].by = Phone
      <4>1. call[c].by \notin Tabs
        BY <2>1, <3>1 DEF Good, Owned
      <4>2. UNCHANGED <<tab, browser>> /\ NoTabs
        BY <2>1, <3>1, <4>1 DEF Takes, Good, Owned
      <4>3. \A e \in Calls : call'[e].by \notin Tabs
        BY <1>5, <1>6, <2>1, <3>1 DEF Good, Owned
      <4>4. QED
        BY <1>5, <1>6, <3>1, <4>2, <4>3 DEF Owned, NoTabs
    <3>2. CASE call[d].by \in Tabs
      <4>1. call[c].by # Phone
        BY <1>1, <3>2 DEF Good, Owned
      <4>2. phone' = NoPhone
        BY <2>1, <3>2, <4>1 DEF Takes, Good, Owned
      <4>3. QED
        BY <1>5, <1>6, <3>2, <4>2 DEF Owned
    <3>3. QED
      BY <1>5, <1>6, <3>1, <3>2 DEF Owned
  <2>4. Flagged(d)'
    <3>1. SUFFICES ASSUME NEW t \in Tabs, Retrying(t, d)'
                   PROVE  /\ "retry" \notin cause' => tab'[t].refreshing
                          /\ Quiet' => tab'[t].refreshing \/ tab'[t].token = "none"
      BY DEF Flagged
    <3>2. d # c /\ Retrying(t, d) /\ InFlight(d)
      BY <1>2, <3>1 DEF Retrying
    <3>3. /\ "retry" \notin cause' => tab[t].refreshing /\ ~Retrying(t, c)
          /\ Quiet' => (tab[t].refreshing \/ tab[t].token = "none") /\ ~InFlight(c) /\ ~Retrying(t, c)
      BY <1>3, <2>1, <3>2 DEF Inv, Good, Flagged, OneRefreshPerTab, Shared, Retrying
    <3>4. QED
      BY <3>3 DEF Takes
  <2>5. Timely(d)'
    BY <1>1, <1>2, <1>3, <1>5, <2>1 DEF Good, Timely, Holds, InFlight, AtServer, Done
  <2>6. QED
    BY <2>2, <2>3, <2>4, <2>5 DEF Good
<1>8. Shared'
  <2>1. NoTabs' \/ phone' = NoPhone
    BY <1>1 DEF Takes, Inv, Shared, Good, Owned, NoTabs
  <2>2. Quiet' => /\ ~enabled' => ~session'.enabled
                  /\ \A d, e \in Calls : InFlight(d)' /\ InFlight(e)' => d = e
    BY <1>2, <1>3 DEF Inv, Shared
  <2>3. ASSUME Faithful'
        PROVE  /\ browser'.cookie \in {0, session'.gen} \/ Answered(Tabs)'
               /\ phone'.cookie \in {0, session'.gen} \/ Answered({Phone})'
    <3>1. /\ browser.cookie \in {0, session.gen} \/ Answered(Tabs)
          /\ phone.cookie \in {0, session.gen} \/ Answered({Phone})
      BY <1>3, <2>3 DEF Inv, Shared
    <3>2. ASSUME NEW S, call[c].at # "answer" \/ call[c].by \notin S, Answered(S)
          PROVE  Answered(S)'
      BY <1>2, <3>2 DEF Answered
    <3>3. browser'.cookie \in {0, session'.gen} \/ Answered(Tabs)'
      BY <2>3, <3>1, <3>2 DEF Takes
    <3>4. phone'.cookie \in {0, session'.gen} \/ Answered({Phone})'
      BY <2>3, <3>1, <3>2 DEF Takes
    <3>5. QED
      BY <3>3, <3>4
  <2>4. QED
    BY <1>1, <1>3, <2>1, <2>2, <2>3 DEF Inv, Shared, Faithful
<1>9. QED
  BY <1>4, <1>7, <1>8 DEF Inv

TypedClients ==
    /\ tab \in [Tabs -> [token : Token, refreshing : BOOLEAN]]
    /\ browser \in [cookie : Nat, stored : BOOLEAN]
    /\ phone \in [token : Token, cookie : Nat, stored : BOOLEAN, storedCookie : Nat]

LEMMA RefuseTakes ==
  ASSUME Inv, NEW c \in Calls, Refuse(c),
         call[c].kind = "retry" /\ call[c].by \in Tabs => InFlight(c) \/ "retry" \in cause',
         Faithful' => call[c].at # "answer"
  PROVE  Takes(c) /\ TypedClients'
<1> DEFINE who == call[c].by
<1>0. TypedClients /\ Phone \notin Tabs
  BY AuthSessionsAssumption DEF Inv, TypeOK, TypedClients
<1>1. CASE who \in Tabs
  <2>1. /\ tab' = [tab EXCEPT ![who] = Released(who, c, "none")]
        /\ browser' = [browser EXCEPT !.stored = FALSE] /\ phone' = phone
    BY <1>1 DEF Refuse
  <2>2. /\ Released(who, c, "none") \in [token : Token, refreshing : BOOLEAN]
        /\ Released(who, c, "none").token = "none"
        /\ call[c].kind # "retry" => Released(who, c, "none").refreshing = tab[who].refreshing
    BY <1>0, <1>1 DEF Released, Token, TypedClients
  <2>3. /\ browser' \in [cookie : Nat, stored : BOOLEAN] /\ browser'.cookie = browser.cookie
        /\ \A t \in Tabs : tab'[t] = IF t = who THEN Released(who, c, "none") ELSE tab[t]
    BY <1>0, <2>1 DEF TypedClients
  <2>4. TypedClients'
    BY <1>0, <1>1, <2>1, <2>2, <2>3 DEF TypedClients
  <2>5. QED
    BY <1>0, <1>1, <2>1, <2>2, <2>3, <2>4 DEF Takes, Retrying
<1>2. CASE who = Phone
  <2>1. UNCHANGED <<tab, browser>> /\ phone' = NoPhone
    BY <1>0, <1>2 DEF Refuse, Clear
  <2>2. QED
    BY <1>0, <1>2, <2>1 DEF Takes, TypedClients, NoPhone, Token
<1>3. CASE who \notin Tabs \cup {Phone}
  <2>1. UNCHANGED <<tab, browser, phone>>
    BY <1>3 DEF Refuse, Clear, clients
  <2>2. QED
    BY <1>0, <1>3, <2>1 DEF Takes, TypedClients
<1>4. QED
  BY <1>1, <1>2, <1>3

LEMMA RefusedStep ==
  ASSUME Inv, NEW c \in Calls, Refused(c)
  PROVE  Inv'
<1>1. /\ call[c] # Done /\ InFlight(c) /\ call[c].at = "refused"
      /\ call' = [call EXCEPT ![c] = Done] /\ Refuse(c)
      /\ UNCHANGED <<enabled, admin, guard, session, issued, ended, cause, faults>>
  BY CallFields DEF Inv, Refused, Goes, InFlight, AtServer, row, history
<1>2. Takes(c) /\ TypedClients'
  BY <1>1, RefuseTakes
<1>3. TypeOK'
  BY <1>1, <1>2 DEF Inv, TypeOK, TypedClients
<1>4. QED
  BY <1>1, <1>2, <1>3, EndStep

LEMMA LoseStep ==
  ASSUME Inv, NEW c \in Calls, Lose(c)
  PROVE  Inv'
<1>1. /\ call[c] # Done /\ InFlight(c) /\ call' = [call EXCEPT ![c] = Done] /\ Refuse(c)
      /\ cause' = cause \cup {"lost"} /\ faults' = faults + 1 /\ faults < MaxFaults
      /\ UNCHANGED <<enabled, admin, guard, session, issued, ended>>
  BY CallFields DEF Inv, Lose, Goes, InFlight, AtServer, row
<1>2. Takes(c) /\ TypedClients'
  BY <1>1, RefuseTakes DEF Faithful
<1>3. faults' \in 0 .. MaxFaults
  BY <1>1, AuthSessionsAssumption DEF Inv, TypeOK
<1>4. TypeOK'
  BY <1>1, <1>2, <1>3 DEF Inv, TypeOK, TypedClients
<1>5. QED
  BY <1>1, <1>2, <1>4, EndStep

LEMMA AgainFailsStep ==
  ASSUME Inv, NEW c \in Calls, AgainFails(c)
  PROVE  Inv'
<1>1. /\ call[c] # Done /\ call[c].at = "again" /\ call' = [call EXCEPT ![c] = Done]
      /\ cause' = cause \cup {"retry"} /\ faults' = faults + 1 /\ faults < MaxFaults
      /\ UNCHANGED <<enabled, admin, guard, session, issued, ended>> /\ Refuse(c)
  BY CallFields DEF Inv, AgainFails, Goes, row
<1>2. Takes(c) /\ TypedClients'
  BY <1>1, RefuseTakes
<1>3. faults' \in 0 .. MaxFaults
  BY <1>1, AuthSessionsAssumption DEF Inv, TypeOK
<1>4. TypeOK'
  BY <1>1, <1>2, <1>3 DEF Inv, TypeOK, TypedClients
<1>5. QED
  BY <1>1, <1>2, <1>4, EndStep

LEMMA AnswerStep ==
  ASSUME Inv, NEW c \in Calls, Answer(c)
  PROVE  Inv'
<1> DEFINE who == call[c].by
           r == IF who = Nobody \/ call[c].kind = "startup" THEN Done
                ELSE [call[c] EXCEPT !.at = "again"]
<1>1. /\ call[c] # Done /\ call[c] \in Call /\ InFlight(c) /\ call[c].at = "answer" /\ Good(c)
      /\ call' = [call EXCEPT ![c] = r] /\ TypedClients /\ Phone \notin Tabs
      /\ UNCHANGED <<enabled, admin, guard, session, issued, ended, cause, faults>>
  BY CallFields, AuthSessionsAssumption
  DEF Inv, TypeOK, TypedClients, Answer, Goes, InFlight, AtServer, row, history
<1>2. r = Done \/ (r \in Call /\ r.at = "again" /\ r.by = call[c].by /\ r # Done)
  <2>1. CASE who = Nobody \/ call[c].kind = "startup"
    BY <2>1
  <2>2. CASE ~(who = Nobody \/ call[c].kind = "startup")
    <3>1. r = [call[c] EXCEPT !.at = "again"]
      BY <2>2
    <3> HIDE DEF r
    <3>2. r \in Call /\ r.at = "again" /\ r.by = call[c].by
      BY <1>1, <3>1, GoesTo
    <3>3. QED
      BY <3>2 DEF Done
  <2>3. QED
    BY <2>1, <2>2
<1> HIDE DEF r
<1>3. Takes(c) /\ TypedClients'
  <2>0. call[c].token \in Nat /\ (Faithful' => call[c].token = session.gen)
    BY <1>1 DEF Call, Good, Timely, Faithful
  <2>1. CASE who \in Tabs
    <3>1. /\ tab' = [tab EXCEPT ![who] = Released(who, c, "fresh")]
          /\ browser' = [cookie |-> call[c].token, stored |-> TRUE] /\ phone' = phone
      BY <1>1, <2>1 DEF Answer
    <3>2. /\ Released(who, c, "fresh") \in [token : Token, refreshing : BOOLEAN]
          /\ call[c].kind # "retry" => Released(who, c, "fresh").refreshing = tab[who].refreshing
      BY <1>1, <2>1 DEF Released, Token, TypedClients
    <3>3. /\ browser' \in [cookie : Nat, stored : BOOLEAN] /\ browser'.cookie = call[c].token
          /\ \A t \in Tabs : tab'[t] = IF t = who THEN Released(who, c, "fresh") ELSE tab[t]
      BY <1>1, <2>0, <3>1 DEF TypedClients
    <3>4. TypedClients'
      BY <1>1, <2>1, <3>1, <3>2, <3>3 DEF TypedClients
    <3>5. QED
      BY <1>1, <2>0, <2>1, <3>1, <3>2, <3>3, <3>4 DEF Takes, Retrying
  <2>2. CASE who = Phone
    <3>1. /\ phone' = [phone EXCEPT !.token = "fresh", !.cookie = call[c].token]
          /\ UNCHANGED <<tab, browser>>
      BY <1>1, <2>2 DEF Answer
    <3>2. /\ phone'.cookie = call[c].token
          /\ phone' \in [token : Token, cookie : Nat, stored : BOOLEAN, storedCookie : Nat]
      BY <1>1, <2>0, <3>1 DEF TypedClients, Token
    <3>3. QED
      BY <1>1, <2>0, <2>2, <3>1, <3>2 DEF Takes, TypedClients
  <2>3. CASE who \notin Tabs \cup {Phone}
    <3>1. UNCHANGED <<tab, browser, phone>>
      BY <2>3 DEF Answer, clients
    <3>2. QED
      BY <1>1, <2>3, <3>1 DEF Takes, TypedClients
  <2>4. QED
    BY <2>1, <2>2, <2>3
<1>4. TypeOK'
  BY <1>1, <1>2, <1>3 DEF Inv, TypeOK, TypedClients
<1>5. QED
  BY <1>1, <1>2, <1>3, <1>4, EndStep

LEMMA OutStep ==
  ASSUME Inv, NEW c \in Calls, Out(c)
  PROVE  Inv'
<1> DEFINE who == call[c].by
<1>1. /\ call[c] # Done /\ call[c].at = "out"
      /\ call' = [call EXCEPT ![c] = Done] /\ TypedClients /\ Phone \notin Tabs
      /\ UNCHANGED <<enabled, admin, guard, session, issued, ended, cause, faults>>
  BY CallFields, AuthSessionsAssumption
  DEF Inv, TypeOK, TypedClients, Out, Goes, InFlight, AtServer, row, history
<1>2. Takes(c) /\ TypedClients'
  <2>1. CASE who \in Tabs
    <3>1. tab' = [tab EXCEPT ![who].token = "none"] /\ browser' = NoBrowser /\ phone' = phone
      BY <2>1 DEF Out
    <3>2. /\ tab' \in [Tabs -> [token : Token, refreshing : BOOLEAN]]
          /\ \A t \in Tabs : /\ tab'[t].refreshing = tab[t].refreshing
                             /\ tab'[t].token \in {tab[t].token, "none"}
      BY <1>1, <2>1, <3>1 DEF TypedClients, Token
    <3>3. QED
      BY <1>1, <2>1, <3>1, <3>2 DEF Takes, TypedClients, NoBrowser
  <2>2. CASE who = Phone
    <3>1. UNCHANGED <<tab, browser>> /\ phone' = NoPhone
      BY <1>1, <2>2 DEF Out, Clear
    <3>2. QED
      BY <1>1, <2>2, <3>1 DEF Takes, TypedClients, NoPhone, Token
  <2>3. CASE who \notin Tabs \cup {Phone}
    <3>1. UNCHANGED <<tab, browser, phone>>
      BY <2>3 DEF Out, Clear, clients
    <3>2. QED
      BY <1>1, <2>3, <3>1 DEF Takes, TypedClients
  <2>4. QED
    BY <2>1, <2>2, <2>3
<1>3. TypeOK'
  BY <1>1, <1>2 DEF Inv, TypeOK, TypedClients
<1>4. QED
  BY <1>1, <1>2, <1>3, EndStep

LEMMA AgainSucceedsStep ==
  ASSUME Inv, NEW c \in Calls, AgainSucceeds(c)
  PROVE  Inv'
<1>1. /\ call[c] # Done /\ call[c].at = "again" /\ call' = [call EXCEPT ![c] = Done]
      /\ UNCHANGED <<enabled, admin, guard, session, issued, tab, browser, phone, ended, cause, faults>>
  BY CallFields DEF Inv, AgainSucceeds, Goes, row, clients, history
<1>2. Takes(c)
  BY <1>1 DEF Takes
<1>3. TypeOK'
  BY <1>1 DEF Inv, TypeOK
<1>4. QED
  BY <1>1, <1>2, <1>3, EndStep

LEMMA PhoneAgainStep ==
  ASSUME Inv, NEW c \in Calls, PhoneAgain(c)
  PROVE  Inv'
<1>1. /\ call[c] # Done /\ call[c].at = "again" /\ call[c].by = Phone /\ Phone \notin Tabs
      /\ call' = [call EXCEPT ![c] = Done] /\ TypedClients
      /\ UNCHANGED <<enabled, admin, guard, session, issued, ended, faults>> /\ Clear(Phone)
      /\ cause' = cause \cup {why \in {"retry"} : phone.token = "stale"}
  BY CallFields, AuthSessionsAssumption DEF Inv, TypeOK, TypedClients, PhoneAgain, Goes, row
<1>2. UNCHANGED <<tab, browser>> /\ phone' = NoPhone
  BY <1>1 DEF Clear
<1>3. Takes(c) /\ TypedClients'
  BY <1>1, <1>2 DEF Takes, TypedClients, NoPhone, Token
<1>4. cause \subseteq cause' /\ cause' \subseteq {"together", "lost", "retry", "restart", "guard"}
  BY <1>1 DEF Inv, TypeOK
<1>5. TypeOK'
  BY <1>1, <1>3, <1>4 DEF Inv, TypeOK, TypedClients
<1>6. QED
  BY <1>1, <1>3, <1>4, <1>5, EndStep

-----------------------------------------------------------------------------
(* Calls that start                                                        *)

\* The client r.by, which has the session, sends the request r.
Starts(c, r) ==
    /\ Free(c) /\ call' = [call EXCEPT ![c] = r]
    /\ r \in Call /\ r.at \in {"sent", "logout"} /\ r.by \in Tabs \cup {Phone}
    /\ r.at = "logout" => r.row = session /\ session' = session
    /\ r.at = "sent" => r.token = IF r.by = Phone THEN phone.cookie ELSE browser.cookie
    /\ IF r.by = Phone THEN phone # NoPhone ELSE ~NoTabs
    /\ cause' = cause \cup Together(r.by, r.kind)
    /\ UNCHANGED <<browser, phone>>
    /\ \A t \in Tabs : t # r.by => tab'[t] = tab[t]
    /\ \A t \in Tabs : \/ tab'[t] = tab[t] \/ tab'[t].refreshing
                       \/ \A d \in Calls : ~Retrying(t, d)

LEMMA StartStep ==
  ASSUME Inv, NEW c \in Calls, TypeOK', NEW r, Starts(c, r),
         r.kind = "retry" /\ r.by \in Tabs => tab'[r.by].refreshing,
         r.kind = "retry" /\ ("retry" \notin cause \/ Quiet) => \A d \in Calls : ~Retrying(r.by, d),
         session'.exists = session.exists, session'.gen = session.gen,
         session'.enabled => session.enabled, Quiet => session' = session,
         UNCHANGED <<enabled, admin, guard, issued>>, "reuse" \in ended' => "reuse" \in ended
  PROVE  Inv'
<1>1. /\ \A d \in Calls : call'[d] = IF d = c THEN r ELSE call[d]
      /\ call[c] = Done /\ r \in Call /\ r.at \in {"sent", "logout"}
      /\ r.by \in Tabs \cup {Phone} /\ UNCHANGED <<browser, phone>>
      /\ cause \subseteq cause' /\ Phone \notin Tabs /\ Nobody \notin Tabs /\ Nobody # Phone
  BY AuthSessionsAssumption DEF Inv, TypeOK, Starts, Free
<1>2. /\ InFlight(c)' /\ ~InFlight(c) /\ r # Done
      /\ \A d \in Calls : d # c => call'[d] = call[d] /\ (InFlight(d)' <=> InFlight(d))
      /\ \A d \in Calls : Holds(d) => InFlight(d)
  BY <1>1, CallFields DEF Inv, InFlight, AtServer, Done
<1>3. (Quiet' => Quiet) /\ (Faithful' => Faithful /\ Quiet')
  BY <1>1 DEF Quiet, Faithful
<1>4. Quiet' => \A d \in Calls : ~InFlight(d)
  <2>1. SUFFICES ASSUME Quiet', NEW d \in Calls, InFlight(d) PROVE FALSE
    OBVIOUS
  <2>2. call[d].by = r.by /\ call[d].kind = r.kind /\ r.kind = "retry"
    BY <2>1 DEF Starts, Together, Quiet
  <2>3. QED
    BY <1>3, <2>1, <2>2 DEF Retrying
<1>5. /\ session.exists
      /\ r.by = Phone => NoTabs /\ \A t \in Tabs : tab'[t] = tab[t]
      /\ r.by \in Tabs => phone = NoPhone
      /\ \A d \in Calls : call[d].by = Phone => r.by = Phone
      /\ \A d \in Calls : call[d].by \in Tabs => r.by \in Tabs
  BY <1>1 DEF Inv, Starts, Shared, Good, Owned
<1>6. OneRefreshPerTab'
  BY <1>1, <1>2 DEF Inv, OneRefreshPerTab, Retrying
<1>7. ASSUME NEW d \in Calls PROVE Good(d)'
  <2>1. CASE d = c
    <3>1. Dated(d)'
      <4>1. session.gen \in 1 .. issued
        BY <1>5 DEF Inv, TypeOK, Row
      <4>2. QED
        BY <1>1, <1>5, <2>1, <4>1 DEF Dated, Holds, Starts
    <3>2. Owned(d)'
      BY <1>1, <1>2, <1>5, <2>1 DEF Owned, NoTabs
    <3>3. Flagged(d)'
      BY <1>1, <2>1 DEF Flagged, Retrying
    <3>4. Timely(d)'
      <4>1. Faithful' => browser.cookie \in {0, session.gen} /\ phone.cookie \in {0, session.gen}
        BY <1>3, <1>4 DEF Inv, Shared, Answered, InFlight, AtServer
      <4>2. QED
        BY <1>1, <1>3, <2>1, <4>1 DEF Timely, Holds, Starts
    <3>5. QED
      BY <3>1, <3>2, <3>3, <3>4 DEF Good
  <2>2. CASE d # c
    <3>1. Good(d) /\ call'[d] = call[d] /\ (InFlight(d)' <=> InFlight(d))
      BY <1>2, <2>2 DEF Inv
    <3>2. Dated(d)'
      BY <3>1 DEF Good, Dated, Holds
    <3>3. Owned(d)'
      BY <1>1, <1>2, <1>5, <3>1 DEF Good, Owned, NoTabs
    <3>4. Flagged(d)'
      BY <1>1, <1>3, <3>1 DEF Starts, Good, Flagged, Retrying
    <3>5. Timely(d)'
      BY <1>2, <1>3, <1>4, <3>1 DEF Good, Timely, Holds, InFlight, AtServer
    <3>6. QED
      BY <3>2, <3>3, <3>4, <3>5 DEF Good
  <2>3. QED
    BY <2>1, <2>2
<1>8. Shared'
  <2>1. NoTabs' \/ phone' = NoPhone
    BY <1>1, <1>5 DEF NoTabs
  <2>2. Quiet' => /\ ~enabled' => ~session'.enabled
                  /\ \A d, e \in Calls : InFlight(d)' /\ InFlight(e)' => d = e
    BY <1>2, <1>3, <1>4 DEF Inv, Shared
  <2>3. Faithful' => browser.cookie \in {0, session.gen} /\ phone.cookie \in {0, session.gen}
    BY <1>3, <1>4 DEF Inv, Shared, Answered, InFlight, AtServer
  <2>4. QED
    BY <1>1, <1>3, <1>5, <2>1, <2>2, <2>3 DEF Inv, Shared
<1>9. QED
  BY <1>6, <1>7, <1>8 DEF Inv

LEMMA RequestFields ==
  ASSUME NEW by \in Tabs \cup {Phone}, NEW kind \in {"retry", "startup", "logout"}, NEW cookie \in Nat
  PROVE  /\ Request(by, kind, cookie) \in Call /\ Request(by, kind, cookie).at = "sent"
         /\ Request(by, kind, cookie).by = by /\ Request(by, kind, cookie).kind = kind
         /\ Request(by, kind, cookie).token = cookie
  BY DEF Request, Call, AtServer, NoSession, Row

LEMMA LogoutStep ==
  ASSUME Inv, NEW c \in Calls, NEW who \in Tabs \cup {Phone}, Logout(who, c)
  PROVE  Inv'
<1> DEFINE q == Request(who, "logout", 0)
           r == [q EXCEPT !.at = "logout", !.row = session]
<1>0. q \in Call /\ q.by = who /\ q.kind = "logout"
  BY RequestFields
<1> HIDE DEF q
<1>1. session \in Row /\ call \in [Calls -> {Done} \cup Call] /\ "logout" \in AtServer
  BY DEF Inv, TypeOK, AtServer
<1>2. r \in Call /\ r.at = "logout" /\ r.by = who /\ r.kind = "logout" /\ r.row = session
  BY <1>0, <1>1 DEF Call
<1>3. /\ Free(c) /\ call' = [call EXCEPT ![c] = r] /\ cause' = cause \cup Together(who, "logout")
      /\ UNCHANGED <<enabled, admin, guard, session, issued, tab, browser, phone, ended, faults>>
      /\ Held(who) = "fresh"
  BY DEF q, Logout, Goes, row, clients, Valid
<1> HIDE DEF r
<1>4. IF who = Phone THEN phone # NoPhone ELSE ~NoTabs
  BY <1>3 DEF Held, NoPhone, NoTabs
<1>5. Starts(c, r)
  BY <1>2, <1>3, <1>4 DEF Starts
<1>6. TypeOK'
  BY <1>1, <1>2, <1>3 DEF Inv, TypeOK, Together
<1>7. QED
  BY <1>2, <1>3, <1>5, <1>6, StartStep

LEMMA UnauthorizedStep ==
  ASSUME Inv, NEW c \in Calls, NEW t \in Tabs, Unauthorized(t, c)
  PROVE  Inv'
<1> DEFINE r == Request(t, "retry", browser.cookie)
<1>1. /\ TypedClients /\ call \in [Calls -> {Done} \cup Call] /\ t # Phone
  BY AuthSessionsAssumption DEF Inv, TypeOK, TypedClients
<1>2. /\ r \in Call /\ r.at = "sent" /\ r.by = t /\ r.kind = "retry"
      /\ r.token = browser.cookie
  BY <1>1, RequestFields DEF TypedClients
<1>3. /\ Free(c) /\ call' = [call EXCEPT ![c] = r] /\ cause' = cause \cup Together(t, "retry")
      /\ tab[t].token # "none" /\ ~tab[t].refreshing
      /\ tab' = [tab EXCEPT ![t].refreshing = TRUE]
      /\ UNCHANGED <<enabled, admin, guard, session, issued, browser, phone, ended, faults>>
  BY DEF Unauthorized, Goes, Turned, row
<1> HIDE DEF r
<1>4. /\ tab' \in [Tabs -> [token : Token, refreshing : BOOLEAN]] /\ tab'[t].refreshing
      /\ \A u \in Tabs : u # t => tab'[u] = tab[u]
  BY <1>1, <1>3 DEF TypedClients
<1>5. Starts(c, r)
  BY <1>1, <1>2, <1>3, <1>4 DEF Starts, NoTabs
<1>6. "retry" \notin cause \/ Quiet => \A d \in Calls : ~Retrying(t, d)
  BY <1>3 DEF Inv, Good, Flagged
<1>7. TypeOK'
  BY <1>1, <1>2, <1>3, <1>4 DEF Inv, TypeOK, Together, TypedClients
<1>8. QED
  BY <1>2, <1>3, <1>4, <1>5, <1>6, <1>7, StartStep

LEMMA PhoneUnauthorizedStep ==
  ASSUME Inv, NEW c \in Calls, PhoneUnauthorized(c)
  PROVE  Inv'
<1> DEFINE r == Request(Phone, "retry", phone.cookie)
<1>1. /\ TypedClients /\ call \in [Calls -> {Done} \cup Call] /\ Phone \notin Tabs
  BY AuthSessionsAssumption DEF Inv, TypeOK, TypedClients
<1>2. /\ r \in Call /\ r.at = "sent" /\ r.by = Phone /\ r.kind = "retry"
      /\ r.token = phone.cookie
  BY <1>1, RequestFields DEF TypedClients
<1>3. /\ Free(c) /\ call' = [call EXCEPT ![c] = r] /\ cause' = cause \cup Together(Phone, "retry")
      /\ phone.token # "none"
      /\ \A d \in Calls : ~Retrying(Phone, d)
      /\ UNCHANGED <<enabled, admin, guard, session, issued, tab, browser, phone, ended, faults>>
  BY DEF PhoneUnauthorized, Goes, Retrying, Turned, row, clients
<1> HIDE DEF r
<1>4. Starts(c, r)
  BY <1>1, <1>2, <1>3 DEF Starts, NoPhone
<1>5. TypeOK'
  BY <1>1, <1>2, <1>3 DEF Inv, TypeOK, Together, TypedClients
<1>6. QED
  BY <1>1, <1>2, <1>3, <1>4, <1>5, StartStep

LEMMA OpenStep ==
  ASSUME Inv, NEW c \in Calls, NEW t \in Tabs, Open(t, c)
  PROVE  Inv'
<1> DEFINE r == Request(t, "startup", browser.cookie)
<1>1. /\ TypedClients /\ call \in [Calls -> {Done} \cup Call] /\ t # Phone
  BY AuthSessionsAssumption DEF Inv, TypeOK, TypedClients
<1>2. /\ r \in Call /\ r.at = "sent" /\ r.by = t /\ r.kind = "startup"
      /\ r.token = browser.cookie
  BY <1>1, RequestFields DEF TypedClients
<1>3. /\ Free(c) /\ call' = [call EXCEPT ![c] = r] /\ cause' = cause \cup Together(t, "startup")
      /\ browser.stored /\ \A d \in Calls : call[d].by # t
      /\ tab' = [tab EXCEPT ![t] = [token |-> "fresh", refreshing |-> FALSE]]
      /\ UNCHANGED <<enabled, admin, guard, session, issued, browser, phone, ended, faults>>
  BY DEF Open, Goes, row
<1> HIDE DEF r
<1>4. /\ tab' \in [Tabs -> [token : Token, refreshing : BOOLEAN]]
      /\ \A u \in Tabs : u # t => tab'[u] = tab[u]
      /\ \A d \in Calls : ~Retrying(t, d)
  BY <1>1, <1>3 DEF TypedClients, Token, Retrying
<1>5. Starts(c, r)
  BY <1>1, <1>2, <1>3, <1>4 DEF Starts, NoTabs, NoBrowser
<1>6. TypeOK'
  BY <1>1, <1>2, <1>3, <1>4 DEF Inv, TypeOK, Together, TypedClients
<1>7. QED
  BY <1>2, <1>3, <1>5, <1>6, StartStep

-----------------------------------------------------------------------------
(* Clients that come and go                                                *)

LEMMA LoginStep ==
  ASSUME Inv, NEW who \in Tabs \cup {Phone}, Login(who)
  PROVE  Inv'
<1>1. /\ ~session.exists /\ enabled /\ TypedClients /\ Phone \notin Tabs
      /\ session' = [exists |-> TRUE, enabled |-> TRUE, gen |-> 1] /\ issued' = 1
      /\ UNCHANGED <<enabled, admin, guard, call, ended, cause, faults>>
  BY AuthSessionsAssumption DEF Inv, TypeOK, TypedClients, Login, history
<1>2. NoTabs /\ phone = NoPhone /\ \A c \in Calls : call[c] = Done
  BY <1>1 DEF Inv, Shared, Good, Dated
<1>3. /\ TypedClients' /\ (NoTabs' \/ phone' = NoPhone)
      /\ browser'.cookie \in {0, 1} /\ phone'.cookie \in {0, 1}
  <2>1. CASE who = Phone
    <3>1. /\ phone' = [token |-> "fresh", cookie |-> 1, stored |-> TRUE, storedCookie |-> 1]
          /\ UNCHANGED <<tab, browser>>
      BY <2>1 DEF Login
    <3>2. QED
      BY <1>1, <1>2, <3>1 DEF TypedClients, Token, NoTabs, NoBrowser
  <2>2. CASE who \in Tabs
    <3>1. /\ tab' = [tab EXCEPT ![who].token = "fresh"] /\ UNCHANGED phone
          /\ browser' = [cookie |-> 1, stored |-> TRUE]
      BY <1>1, <2>2 DEF Login
    <3>2. tab' \in [Tabs -> [token : Token, refreshing : BOOLEAN]]
      BY <1>1, <2>2, <3>1 DEF TypedClients, Token
    <3>3. QED
      BY <1>1, <1>2, <3>1, <3>2 DEF TypedClients, NoPhone
  <2>3. QED
    BY <2>1, <2>2
<1>4. TypeOK'
  <2>1. session' \in Row /\ session'.exists = TRUE /\ session'.gen = 1 /\ session'.enabled = TRUE
    BY <1>1 DEF Row
  <2>2. QED
    BY <1>1, <1>3, <2>1 DEF Inv, TypeOK, TypedClients
<1>5. ASSUME NEW c \in Calls PROVE Good(c)' /\ ~InFlight(c)'
  BY <1>1, <1>2, AuthSessionsAssumption
  DEF Good, Dated, Owned, Flagged, Timely, Done, Holds, InFlight, AtServer, Retrying
<1>6. OneRefreshPerTab'
  BY <1>5 DEF OneRefreshPerTab, Retrying
<1>7. Shared'
  BY <1>1, <1>3, <1>5 DEF Inv, Shared, Faithful
<1>8. QED
  BY <1>4, <1>5, <1>6, <1>7 DEF Inv

LEMMA ExpireStep ==
  ASSUME Inv, NEW who \in Tabs \cup {Phone}, Expire(who)
  PROVE  Inv'
<1>1. /\ TypedClients /\ Phone \notin Tabs /\ Held(who) = "fresh"
      /\ UNCHANGED <<enabled, admin, guard, session, issued, browser, call, ended, cause, faults>>
  BY AuthSessionsAssumption DEF Inv, TypeOK, TypedClients, Expire, row, history
<1>2. /\ TypedClients' /\ phone'.cookie = phone.cookie
      /\ \A t \in Tabs : /\ tab'[t].refreshing = tab[t].refreshing
                         /\ tab[t].token = "none" => tab'[t].token = "none"
      /\ IF who = Phone THEN phone # NoPhone /\ UNCHANGED tab ELSE ~NoTabs /\ UNCHANGED phone
  <2>1. CASE who = Phone
    <3>1. phone' = [phone EXCEPT !.token = "stale"] /\ UNCHANGED tab
      BY <2>1 DEF Expire
    <3>2. QED
      BY <1>1, <2>1, <3>1 DEF TypedClients, Token, Held, NoPhone
  <2>2. CASE who \in Tabs
    <3>1. tab' = [tab EXCEPT ![who].token = "stale"] /\ UNCHANGED phone /\ tab[who].token = "fresh"
      BY <1>1, <2>2 DEF Expire, Held
    <3>2. tab' \in [Tabs -> [token : Token, refreshing : BOOLEAN]]
      BY <1>1, <2>2, <3>1 DEF TypedClients, Token
    <3>3. QED
      BY <1>1, <2>2, <3>1, <3>2 DEF TypedClients, NoTabs
  <2>3. QED
    BY <2>1, <2>2
<1>3. TypeOK'
  BY <1>1, <1>2 DEF Inv, TypeOK, TypedClients
<1>4. /\ NoTabs => who = Phone /\ NoTabs'
      /\ phone = NoPhone => who # Phone /\ phone' = NoPhone
  BY <1>1, <1>2 DEF NoTabs
<1>5. OneRefreshPerTab'
  BY <1>1 DEF Inv, OneRefreshPerTab, Retrying, InFlight
<1>6. ASSUME NEW c \in Calls PROVE Good(c)'
  <2>1. Good(c)
    BY DEF Inv
  <2>2. Dated(c)' /\ Timely(c)'
    BY <1>1, <2>1 DEF Good, Dated, Timely, Holds, Quiet, Faithful
  <2>3. Owned(c)'
    <3>1. call[c].by = Phone => NoTabs' /\ \A d \in Calls : call'[d].by \notin Tabs
      BY <1>1, <1>4, <2>1 DEF Good, Owned
    <3>2. call[c].by \in Tabs => phone' = NoPhone
      BY <1>4, <2>1 DEF Good, Owned
    <3>3. QED
      BY <1>1, <3>1, <3>2 DEF Owned
  <2>4. Flagged(c)'
    <3>1. \A t \in Tabs : Retrying(t, c)' => Retrying(t, c)
      BY <1>1 DEF Retrying, InFlight
    <3>2. (Quiet' <=> Quiet) /\ cause' = cause
      BY <1>1 DEF Quiet
    <3>3. ASSUME NEW t \in Tabs, Retrying(t, c)
          PROVE  /\ "retry" \notin cause => tab'[t].refreshing
                 /\ Quiet => tab'[t].refreshing \/ tab'[t].token = "none"
      <4>1. /\ "retry" \notin cause => tab[t].refreshing
            /\ Quiet => tab[t].refreshing \/ tab[t].token = "none"
        BY <2>1, <3>3 DEF Good, Flagged
      <4>2. QED
        BY <1>2, <4>1
    <3>4. QED
      BY <3>1, <3>2, <3>3 DEF Flagged
  <2>5. QED
    BY <2>2, <2>3, <2>4 DEF Good
<1>7. Shared'
  BY <1>1, <1>2, <1>4 DEF Inv, Shared, Answered, InFlight, Quiet, Faithful
<1>8. QED
  BY <1>3, <1>5, <1>6, <1>7 DEF Inv

\* Nobody waits for the calls of who any more.
LEMMA AwayStep ==
  ASSUME Inv, NEW who \in Tabs \cup {Phone}, TypeOK',
         call' = [d \in Calls |-> IF call[d].by # who THEN call[d]
                    ELSE IF InFlight(d) THEN [call[d] EXCEPT !.by = Nobody] ELSE Done],
         cause \subseteq cause', (\E d \in Calls : call[d].by = who) => "lost" \in cause',
         UNCHANGED <<enabled, admin, guard, session, issued, browser, ended>>,
         \A t \in Tabs : tab'[t] = IF t = who THEN NoTab ELSE tab[t],
         IF who = Phone THEN phone # NoPhone /\ (Faithful' => phone'.cookie = phone.cookie)
         ELSE UNCHANGED phone
  PROVE  Inv'
<1>1. ASSUME NEW d \in Calls
      PROVE  /\ call[d].by # who => call'[d] = call[d]
             /\ call[d].by = who /\ ~InFlight(d) => call'[d] = Done
             /\ call[d].by = who /\ InFlight(d) =>
                  /\ call'[d].at = call[d].at /\ call'[d].by = Nobody /\ call'[d].kind = call[d].kind
                  /\ call'[d].token = call[d].token /\ call'[d].row = call[d].row
                  /\ call[d] # Done
  <2>1. CASE call[d].by # who \/ ~InFlight(d)
    BY <2>1
  <2>2. CASE call[d].by = who /\ InFlight(d)
    <3>1. call'[d] = [call[d] EXCEPT !.by = Nobody] /\ call[d] \in Call /\ call[d] # Done
      BY <2>2, CallFields DEF Inv
    <3>2. QED
      BY <2>2, <3>1 DEF Call
  <2>3. QED
    BY <2>1, <2>2
<1>2. (Quiet' => Quiet) /\ (Faithful' => Faithful /\ call' = call)
  <2>1. Faithful' => \A d \in Calls : call[d].by # who
    BY DEF Faithful
  <2>2. call \in [Calls -> {Done} \cup Call]
    BY DEF Inv, TypeOK
  <2>3. QED
    BY <2>1, <2>2 DEF Quiet, Faithful
<1>3. Nobody \notin Tabs /\ Nobody # Phone /\ Phone \notin Tabs /\ who # Nobody
  BY AuthSessionsAssumption
<1>4. \A d \in Calls : /\ call'[d].by \in {call[d].by, Nobody} \ {who}
                       /\ InFlight(d)' => (InFlight(d) /\ call'[d].at = call[d].at)
                       /\ call'[d] # Done => call[d] # Done
                       /\ call'[d].at \in {"done", call[d].at}
  BY <1>1, <1>3 DEF InFlight, AtServer, Done
<1>5. (NoTabs => NoTabs') /\ (phone = NoPhone => phone' = NoPhone)
  BY DEF NoTabs, NoTab
<1>6. ASSUME NEW t \in Tabs, NEW d \in Calls, Retrying(t, d)'
      PROVE  Retrying(t, d) /\ tab'[t] = tab[t]
  BY <1>1, <1>3, <1>4, <1>6 DEF Retrying
<1>7. OneRefreshPerTab'
  BY <1>6 DEF Inv, OneRefreshPerTab
<1>8. ASSUME NEW d \in Calls PROVE Good(d)'
  <2>1. Good(d)
    BY DEF Inv
  <2>2. Dated(d)'
    BY <1>1, <1>4, <2>1 DEF Good, Dated, Holds, Done, InFlight, AtServer
  <2>3. Owned(d)'
    BY <1>3, <1>4, <1>5, <2>1 DEF Good, Owned
  <2>4. Flagged(d)'
    BY <1>2, <1>6, <2>1 DEF Good, Flagged
  <2>5. Timely(d)'
    BY <1>1, <1>2, <1>4, <2>1 DEF Good, Timely, Holds, InFlight, AtServer, Done
  <2>6. QED
    BY <2>2, <2>3, <2>4, <2>5 DEF Good
<1>9. Shared'
  <2>1. NoTabs' \/ phone' = NoPhone
    BY <1>5 DEF Inv, Shared
  <2>2. Quiet' => \A d, e \in Calls : InFlight(d)' /\ InFlight(e)' => d = e
    BY <1>2, <1>4 DEF Inv, Shared
  <2>3. Faithful' => /\ browser.cookie \in {0, session.gen} \/ Answered(Tabs)'
                     /\ phone'.cookie \in {0, session.gen} \/ Answered({Phone})'
    BY <1>2 DEF Inv, Shared, Answered
  <2>4. /\ ~session.exists => NoTabs' /\ phone' = NoPhone /\ ~session.enabled
        /\ admin => ~enabled
    BY <1>5 DEF Inv, Shared
  <2>5. /\ Quiet' => (~enabled => ~session.enabled)
        /\ Faithful' => "reuse" \notin ended
    BY <1>2 DEF Inv, Shared
  <2>6. UNCHANGED <<enabled, admin, guard, session, browser, ended>>
    OBVIOUS
  <2>7. QED
    BY <2>1, <2>2, <2>3, <2>4, <2>5, <2>6 DEF Shared
<1>10. QED
  BY <1>7, <1>8, <1>9 DEF Inv

LEMMA OrphansCalls ==
  ASSUME TypeOK, NEW who \in Tabs \cup {Phone},
         call' = [d \in Calls |-> IF call[d].by # who THEN call[d]
                    ELSE IF InFlight(d) THEN [call[d] EXCEPT !.by = Nobody] ELSE Done]
  PROVE  call' \in [Calls -> {Done} \cup Call]
<1>1. ASSUME NEW d \in Calls, InFlight(d) PROVE [call[d] EXCEPT !.by = Nobody] \in Call
  BY <1>1, CallFields DEF Call
<1>2. QED
  BY <1>1 DEF TypeOK

LEMMA TabGoes ==
  ASSUME Inv, NEW t \in Tabs, Orphans(t), tab' = [tab EXCEPT ![t] = NoTab],
         UNCHANGED <<enabled, admin, guard, session, issued, browser, phone, ended>>,
         faults' \in 0 .. MaxFaults
  PROVE  Inv'
<1>1. t # Phone /\ TypedClients
  BY AuthSessionsAssumption DEF Inv, TypeOK, TypedClients
<1>2. tab' \in [Tabs -> [token : Token, refreshing : BOOLEAN]]
      /\ \A u \in Tabs : tab'[u] = IF u = t THEN NoTab ELSE tab[u]
  BY <1>1 DEF TypedClients, NoTab, Token
<1>3. /\ cause \subseteq cause' /\ cause' \subseteq cause \cup {"lost"}
      /\ (\E d \in Calls : call[d].by = t) => "lost" \in cause'
      /\ call' \in [Calls -> {Done} \cup Call]
  BY OrphansCalls DEF Inv, Orphans
<1>4. TypeOK'
  BY <1>1, <1>2, <1>3 DEF Inv, TypeOK, TypedClients
<1>5. QED
  BY <1>1, <1>2, <1>3, <1>4, AwayStep DEF Orphans

LEMMA OpenEmptyStep ==
  ASSUME Inv, NEW t \in Tabs, OpenEmpty(t)
  PROVE  Inv'
BY TabGoes DEF OpenEmpty, Inv, TypeOK, row

LEMMA CloseStep ==
  ASSUME Inv, NEW t \in Tabs, Close(t)
  PROVE  Inv'
<1>1. faults' \in 0 .. MaxFaults
  BY AuthSessionsAssumption DEF Close, Inv, TypeOK
<1>2. QED
  BY <1>1, TabGoes DEF Close, row

LEMMA RestartStep ==
  ASSUME Inv, Restart
  PROVE  Inv'
<1>1. /\ TypedClients /\ Phone \notin Tabs /\ phone.stored
      /\ phone' = [phone EXCEPT !.token = "fresh", !.cookie = phone.storedCookie]
      /\ UNCHANGED <<enabled, admin, guard, session, issued, tab, browser, ended>>
  BY AuthSessionsAssumption DEF Inv, TypeOK, TypedClients, Restart, row
<1>2. /\ phone' \in [token : Token, cookie : Nat, stored : BOOLEAN, storedCookie : Nat]
      /\ phone'.cookie = phone.storedCookie
  BY <1>1 DEF TypedClients, Token
<1>3. phone # NoPhone
  BY <1>1 DEF NoPhone
<1>4. /\ cause \subseteq cause' /\ cause' \subseteq cause \cup {"lost", "restart"}
      /\ (\E d \in Calls : call[d].by = Phone) => "lost" \in cause'
      /\ phone.cookie # phone.storedCookie => "restart" \in cause'
      /\ call' \in [Calls -> {Done} \cup Call]
  BY OrphansCalls DEF Inv, Restart
<1>5. faults' \in 0 .. MaxFaults
  BY AuthSessionsAssumption DEF Restart, Inv, TypeOK
<1>6. TypeOK'
  BY <1>1, <1>2, <1>4, <1>5 DEF Inv, TypeOK
<1>7. Faithful' => phone'.cookie = phone.cookie
  BY <1>2, <1>4 DEF Faithful
<1>8. QED
  BY <1>1, <1>3, <1>4, <1>6, <1>7, AwayStep DEF Restart

-----------------------------------------------------------------------------
(* Administration                                                          *)

\* Only the user, the flag of the row and what it says about it change.
LEMMA AdminStep ==
  ASSUME Inv, TypeOK', session' \in Row, session'.exists = session.exists, session'.gen = session.gen,
         session'.enabled => session.enabled,
         cause \subseteq cause', ended' \subseteq ended \cup {"admin"},
         UNCHANGED <<issued, tab, browser, phone, call>>,
         admin' => ~enabled',
         "together" \notin cause' =>
           /\ ~enabled' => ~session'.enabled
           /\ session' = session \/ \A d \in Calls : ~InFlight(d)
  PROVE  Inv'
<1>1. (Quiet' => Quiet) /\ (Faithful' => Faithful)
  BY DEF Quiet, Faithful
<1>2. OneRefreshPerTab'
  BY DEF Inv, OneRefreshPerTab, Retrying, InFlight
<1>3. ASSUME NEW d \in Calls PROVE Good(d)'
  <2>1. Good(d)
    BY DEF Inv
  <2>2. Dated(d)' /\ Owned(d)'
    BY <2>1 DEF Good, Dated, Owned, Holds, NoTabs
  <2>3. Flagged(d)'
    BY <1>1, <2>1 DEF Good, Flagged, Retrying, InFlight
  <2>4. Timely(d)'
    <3>1. Quiet' => (session' = session \/ ~InFlight(d))
      BY DEF Quiet
    <3>2. Holds(d) => InFlight(d)
      BY DEF Holds, InFlight, AtServer
    <3>3. QED
      BY <1>1, <2>1, <3>1, <3>2 DEF Good, Timely, Holds
  <2>5. QED
    BY <2>2, <2>3, <2>4 DEF Good
<1>4. Shared'
  <2>1. /\ ~session'.exists => NoTabs' /\ phone' = NoPhone /\ ~session'.enabled
        /\ NoTabs' \/ phone' = NoPhone
    BY DEF Inv, Shared, NoTabs
  <2>2. Quiet' => /\ ~enabled' => ~session'.enabled
                  /\ \A c, d \in Calls : InFlight(c)' /\ InFlight(d)' => c = d
    BY <1>1 DEF Inv, Shared, Quiet, InFlight
  <2>3. Faithful' => /\ "reuse" \notin ended'
                     /\ browser'.cookie \in {0, session'.gen} \/ Answered(Tabs)'
                     /\ phone'.cookie \in {0, session'.gen} \/ Answered({Phone})'
    BY <1>1 DEF Inv, Shared, Answered
  <2>4. QED
    BY <2>1, <2>2, <2>3 DEF Shared
<1>5. QED
  BY <1>2, <1>3, <1>4 DEF Inv

LEMMA DisabledRow ==
  ASSUME TypeOK, session' = [session EXCEPT !.enabled = FALSE]
  PROVE  /\ session' \in Row /\ session'.exists = session.exists /\ session'.gen = session.gen
         /\ session'.enabled = FALSE /\ (~session.enabled => session' = session)
BY DEF TypeOK, Row

LEMMA DisableStep ==
  ASSUME Inv, Disable
  PROVE  Inv'
<1>1. /\ session' \in Row /\ session'.exists = session.exists /\ session'.gen = session.gen
      /\ session'.enabled = FALSE
  BY DisabledRow DEF Inv, Disable
<1>2. /\ enabled' = FALSE /\ cause \subseteq cause' /\ cause' \subseteq cause \cup {"together"}
      /\ (\E d \in Calls : InFlight(d)) => "together" \in cause'
      /\ UNCHANGED <<issued, tab, browser, phone, call, faults>>
      /\ admin' = TRUE /\ guard' = guard
      /\ ended' = ended \cup {why \in {"admin"} : session.exists}
  BY DEF Disable, clients
<1>3. TypeOK'
  BY <1>1, <1>2 DEF Inv, TypeOK
<1>4. QED
  BY <1>1, <1>2, <1>3, AdminStep

LEMMA DisableAllStep ==
  ASSUME Inv, DisableAll
  PROVE  Inv'
<1>1. /\ session' \in Row /\ session'.exists = session.exists /\ session'.gen = session.gen
      /\ session'.enabled = FALSE /\ (~session.enabled => session' = session)
  BY DisabledRow DEF Inv, DisableAll
<1>2. /\ admin /\ admin' = FALSE
      /\ UNCHANGED <<enabled, guard, issued, tab, browser, phone, call, ended, cause, faults>>
  BY DEF DisableAll, clients, history
<1>3. TypeOK'
  BY <1>1, <1>2 DEF Inv, TypeOK
<1>4. "together" \notin cause => session' = session
  BY <1>1, <1>2 DEF Inv, Shared, Quiet
<1>5. QED
  BY <1>1, <1>2, <1>3, <1>4, AdminStep

LEMMA EnableStep ==
  ASSUME Inv, Enable
  PROVE  Inv'
<1>1. /\ ~enabled /\ ~admin /\ enabled' = TRUE /\ faults' \in 0 .. MaxFaults
      /\ UNCHANGED <<admin, guard, session, issued, tab, browser, phone, call, ended, cause>>
  BY AuthSessionsAssumption DEF Inv, TypeOK, Enable, clients
<1>2. TypeOK'
  BY <1>1 DEF Inv, TypeOK
<1>3. session \in Row
  BY DEF Inv, TypeOK
<1>4. QED
  BY <1>1, <1>2, <1>3, AdminStep

LEMMA GuardFindsStep ==
  ASSUME Inv, GuardFinds
  PROVE  Inv'
<1>1. /\ guard' = TRUE
      /\ UNCHANGED <<enabled, admin, session, issued, tab, browser, phone, call, ended, cause, faults>>
  BY DEF GuardFinds, clients, history
<1>2. TypeOK' /\ session \in Row
  BY <1>1 DEF Inv, TypeOK
<1>3. /\ admin => ~enabled
      /\ "together" \notin cause => (~enabled => ~session.enabled)
  BY DEF Inv, Shared, Quiet
<1>4. QED
  BY <1>1, <1>2, <1>3, AdminStep

\* The guard takes a session only from under calls it overlaps with.
LEMMA GuardDisablesStep ==
  ASSUME Inv, GuardDisables
  PROVE  Inv'
<1>1. /\ session' \in Row /\ session'.exists = session.exists /\ session'.gen = session.gen
      /\ session'.enabled = FALSE /\ (~session.enabled => session' = session)
  BY DisabledRow DEF Inv, GuardDisables
<1>2. /\ guard' = FALSE
      /\ UNCHANGED <<enabled, admin, issued, tab, browser, phone, call, faults>>
  BY DEF GuardDisables, clients
<1>3. /\ cause \subseteq cause' /\ cause' \subseteq cause \cup {"guard", "together"}
      /\ ended \subseteq ended' /\ ended' \subseteq ended \cup {"admin"}
      /\ session.enabled /\ (\E d \in Calls : InFlight(d)) => "together" \in cause'
  BY DEF GuardDisables
<1>4. TypeOK'
  BY <1>1, <1>2, <1>3 DEF Inv, TypeOK
<1>5. admin => ~enabled
  BY DEF Inv, Shared
<1>6. session \in Row
  BY DEF Inv, TypeOK
<1>7. "together" \notin cause' => session' = session \/ \A d \in Calls : ~InFlight(d)
  <2>1. session.enabled \in BOOLEAN
    BY <1>6 DEF Row
  <2>2. QED
    BY <1>1, <1>3, <2>1
<1>8. QED
  BY <1>1, <1>2, <1>3, <1>4, <1>5, <1>7, AdminStep

-----------------------------------------------------------------------------
(* The theorems                                                            *)

LEMMA NextInv == Inv /\ [Next]_vars => Inv'
<1> SUFFICES ASSUME Inv, [Next]_vars PROVE Inv'
  OBVIOUS
<1>1. ASSUME NEW who \in Tabs \cup {Phone}, Login(who) \/ Expire(who) PROVE Inv'
  BY <1>1, LoginStep, ExpireStep
<1>2. ASSUME NEW c \in Calls, Server(c) PROVE Inv'
  BY <1>2, LogoutSaveStep, ReadStep, RevokeStep, CheckUserStep, SaveTokenStep DEF Server
<1>3. ASSUME NEW c \in Calls, Client(c) PROVE Inv'
  BY <1>3, RefusedStep, AnswerStep, OutStep, AgainSucceedsStep, PhoneAgainStep DEF Client
<1>4. ASSUME NEW c \in Calls, Lose(c) \/ AgainFails(c) \/ PhoneUnauthorized(c) PROVE Inv'
  BY <1>4, LoseStep, AgainFailsStep, PhoneUnauthorizedStep
<1>5. ASSUME NEW c \in Calls, NEW who \in Tabs \cup {Phone}, Logout(who, c) PROVE Inv'
  BY <1>5, LogoutStep
<1>6. ASSUME NEW c \in Calls, NEW t \in Tabs, Unauthorized(t, c) \/ Open(t, c) PROVE Inv'
  BY <1>6, UnauthorizedStep, OpenStep
<1>7. ASSUME NEW t \in Tabs, OpenEmpty(t) \/ Close(t) PROVE Inv'
  BY <1>7, OpenEmptyStep, CloseStep
<1>8. ASSUME Restart \/ Disable \/ DisableAll \/ Enable \/ GuardFinds \/ GuardDisables PROVE Inv'
  BY <1>8, RestartStep, DisableStep, DisableAllStep, EnableStep, GuardFindsStep, GuardDisablesStep
<1>9. ASSUME UNCHANGED vars PROVE Inv'
  <2>1. /\ UNCHANGED <<enabled, admin, guard, session, issued, tab, browser, phone, call, ended, cause, faults>>
    BY <1>9 DEF vars, row, clients, history
  <2>2. TypeOK' /\ session \in Row
    BY <2>1 DEF Inv, TypeOK
  <2>3. (~enabled => ~session.enabled) \/ "together" \in cause
    BY DEF Inv, Shared, Quiet
  <2>4. admin => ~enabled
    BY DEF Inv, Shared
  <2>5. QED
    BY <2>1, <2>2, <2>3, <2>4, AdminStep
<1>10. QED
  BY <1>1, <1>2, <1>3, <1>4, <1>5, <1>6, <1>7, <1>8, <1>9 DEF Next

\* The row, the clients' tokens and the copies that calls hold belong together, at
\* any interleaving of AuthService's calls with what clients and administration do.
THEOREM AuthInvariant == Spec => []Inv
<1>1. Init => Inv
  BY InitInv
<1>2. Inv /\ [Next]_vars => Inv'
  BY NextInv
<1>3. QED
  BY <1>1, <1>2, PTL DEF Spec

\* Every variable keeps its type, and refreshInProgress of the interceptor holds
\* each tab to one refresh as long as no retried request has failed.
THEOREM SessionConsistentHolds == Spec => []SessionConsistent
<1>1. Inv => SessionConsistent
  BY DEF Inv, SessionConsistent
<1>2. QED
  BY <1>1, AuthInvariant, PTL

\* refresh revokes a session for the reuse of a token only after calls that
\* overlapped, an answer that got lost or a restart of the phone.
THEOREM FalseAlarmHolds == Spec => []FalseAlarm
<1>1. Inv => FalseAlarm
  BY DEF Inv, Shared, Faithful, FalseAlarm
<1>2. QED
  BY <1>1, AuthInvariant, PTL

\* What refresh, logout, the guard or SetUserEnabled disabled is only enabled again
\* by the save of a call that another one overlapped.
THEOREM StaysDisabledHolds == Spec => StaysDisabled
<1> DEFINE Kept == session.exists /\ ~session.enabled /\ session'.enabled => "together" \in cause'
<1>1. ASSUME Inv, [Next]_vars PROVE Kept
  <2>1. CASE \E who \in Tabs \cup {Phone} : Login(who) \/ Expire(who)
    BY <2>1 DEF Login, Expire, row
  <2>2. CASE \E c \in Calls : Server(c)
    <3>1. PICK c \in Calls : Server(c)
      BY <2>2
    <3>2. CASE Read(c) \/ CheckUser(c)
      BY <3>2 DEF Read, CheckUser, row
    <3>3. CASE LogoutSave(c) \/ Revoke(c)
      <4>1. call[c].row \in Row /\ session' = [call[c].row EXCEPT !.enabled = FALSE]
        BY <1>1, <3>3, CallFields DEF Inv, InFlight, AtServer, LogoutSave, Revoke, Call
      <4>2. session'.enabled = FALSE
        BY <4>1 DEF Row
      <4>3. QED
        BY <4>2
    <3>4. CASE Save(c)
      <4>1. call[c].row \in Row /\ session' = [call[c].row EXCEPT !.gen = call[c].token]
        BY <1>1, <3>4, CallFields DEF Inv, InFlight, AtServer, Save, Call
      <4>2. session'.enabled = call[c].row.enabled
        BY <4>1 DEF Row
      <4>3. "together" \in cause \/ call[c].row = session
        BY <1>1, <3>4 DEF Inv, Good, Timely, Holds, Quiet, Save
      <4>4. cause' = cause
        BY <3>4 DEF Save, history
      <4>5. QED
        BY <4>2, <4>3, <4>4
    <3>5. QED
      BY <3>1, <3>2, <3>3, <3>4 DEF Server
  <2>3. CASE \E c \in Calls : \/ Refused(c) \/ Answer(c) \/ Out(c) \/ AgainSucceeds(c)
                              \/ Lose(c) \/ AgainFails(c)
                              \/ \E who \in Tabs \cup {Phone} : Logout(who, c)
                              \/ \E t \in Tabs : Open(t, c)
    BY <2>3 DEF Refused, Answer, Out, AgainSucceeds, Lose, AgainFails, Logout, Open, row
  <2>4. CASE \E c \in Calls : \/ PhoneAgain(c) \/ PhoneUnauthorized(c)
                              \/ \E t \in Tabs : Unauthorized(t, c)
    BY <2>4 DEF PhoneAgain, PhoneUnauthorized, Unauthorized, row
  <2>5. CASE Restart \/ Enable \/ GuardFinds \/ \E t \in Tabs : OpenEmpty(t) \/ Close(t)
    BY <2>5 DEF Restart, Enable, GuardFinds, OpenEmpty, Close, row
  <2>6. CASE Disable \/ DisableAll \/ GuardDisables
    BY <1>1, <2>6, DisabledRow DEF Inv, Disable, DisableAll, GuardDisables
  <2>7. CASE UNCHANGED vars
    BY <2>7 DEF vars, row
  <2>8. QED
    BY <1>1, <2>1, <2>2, <2>3, <2>4, <2>5, <2>6, <2>7 DEF Next, Client
<1>2. Inv /\ [Next]_vars => [Kept]_vars
  BY <1>1
<1>3. QED
  BY <1>2, AuthInvariant, PTL DEF Spec, StaysDisabled, Kept

-----------------------------------------------------------------------------
(* Who is signed out                                                       *)

\* Nobody has ended the session, and nothing of cause has happened.
Innocent == ended \cap {"logout", "admin"} = {} /\ cause = {}

\* No call is about to end a session.
Served(c) ==
    /\ call[c].at \notin {"refused", "revoke", "out"}
    /\ call[c].at = "sent" => call[c].token # 0

\* Whoever has an access token can refresh it.
Carried ==
    /\ \A t \in Tabs : tab[t].token # "none" => browser.stored
    /\ browser.stored => browser.cookie # 0
    /\ phone.token # "none" \/ phone.stored => phone.cookie # 0

Standing ==
    /\ session.exists => session.enabled /\ enabled
    /\ Carried
    /\ \A c \in Calls : Served(c)

Blameless == Innocent => Standing

\* A step that takes no access token away.
Stays ==
    /\ \A t \in Tabs : tab[t].token # "none" => tab'[t].token # "none"
    /\ phone.token # "none" => phone'.token # "none"

LEMMA HistoryGrows ==
  ASSUME [Next]_vars
  PROVE  ended \subseteq ended' /\ cause \subseteq cause'
<1>1. CASE UNCHANGED vars
  BY <1>1 DEF vars, history
<1>2. ASSUME NEW who \in Tabs \cup {Phone}, Login(who) \/ Expire(who)
      PROVE  ended \subseteq ended' /\ cause \subseteq cause'
  BY <1>2 DEF Login, Expire, history
<1>3. ASSUME NEW c \in Calls, Server(c) \/ Client(c) \/ Lose(c) \/ AgainFails(c)
      PROVE  ended \subseteq ended' /\ cause \subseteq cause'
  BY <1>3 DEF Server, Client, LogoutSave, Read, Revoke, CheckUser, Save, Refused, Answer,
              Out, AgainSucceeds, PhoneAgain, Lose, AgainFails, history
<1>4. ASSUME NEW c \in Calls, \/ \E who \in Tabs \cup {Phone} : Logout(who, c)
                              \/ \E t \in Tabs : Unauthorized(t, c) \/ Open(t, c)
                              \/ PhoneUnauthorized(c)
      PROVE  ended \subseteq ended' /\ cause \subseteq cause'
  BY <1>4 DEF Logout, Unauthorized, Open, PhoneUnauthorized
<1>5. ASSUME \/ \E t \in Tabs : OpenEmpty(t) \/ Close(t)
             \/ Restart \/ Disable \/ DisableAll \/ Enable \/ GuardFinds \/ GuardDisables
      PROVE  ended \subseteq ended' /\ cause \subseteq cause'
  BY <1>5 DEF OpenEmpty, Close, Orphans, Restart, Disable, DisableAll, Enable, GuardFinds, GuardDisables, history
<1>6. QED
  BY <1>1, <1>2, <1>3, <1>4, <1>5 DEF Next

\* What is known while nobody is to blame.
LEMMA BlamelessFacts ==
  ASSUME Inv, Innocent, Standing, NEW c \in Calls
  PROVE  /\ Faithful /\ Quiet
         /\ call[c].at = "sent" => call[c].token = session.gen /\ call[c].token # 0
         /\ Holds(c) => call[c].row = session /\ session.enabled /\ enabled
         /\ call[c].at = "answer" => call[c].token # 0 /\ call[c].by # Nobody
         /\ call[c] # Done => call[c].by # Nobody
<1>1. Faithful /\ Quiet
  BY DEF Innocent, Faithful, Quiet
<1>2. Dated(c) /\ Timely(c) /\ Served(c)
  BY DEF Inv, Good, Standing
<1>3. session.exists => session.gen # 0 /\ session.enabled /\ enabled
  BY DEF Inv, TypeOK, Row, Standing
<1>4. call[c].at = "answer" => call[c] # Done
  BY CallFields DEF Inv, InFlight, AtServer
<1>5. Holds(c) => call[c].row.exists /\ call[c].row = session
  BY <1>1, <1>2 DEF Dated, Timely
<1>6. QED
  BY <1>1, <1>2, <1>3, <1>4, <1>5 DEF Dated, Timely, Served

\* One call moves on; the rest of Standing is left as it is.
LEMMA ServedStep ==
  ASSUME TypeOK, Standing, NEW c \in Calls, NEW r, Goes(c, r),
         r.at \notin {"refused", "revoke", "out"}, r.at = "sent" => r.token # 0
  PROVE  \A d \in Calls : Served(d)'
<1>1. \A d \in Calls : call'[d] = IF d = c THEN r ELSE call[d]
  BY DEF Goes, TypeOK
<1>2. QED
  BY <1>1 DEF Standing, Served

LEMMA BlamelessServer ==
  ASSUME Inv, Innocent, Standing, Innocent', NEW c \in Calls, Server(c)
  PROVE  Standing' /\ Stays
<1>1. /\ Holds(c) => call[c].row = session /\ session.enabled /\ enabled
      /\ call[c].at = "sent" => call[c].token = session.gen /\ call[c].token # 0
      /\ call[c].at # "revoke" /\ TypeOK
  BY BlamelessFacts DEF Inv, Standing, Served
<1>2. CASE Read(c)
  <2>1. call[c] \in Call
    BY <1>1, <1>2, CallFields DEF Read, InFlight, AtServer
  <2>2. Goes(c, [call[c] EXCEPT !.at = "user", !.row = session])
    BY <1>1, <1>2 DEF Read
  <2>3. [call[c] EXCEPT !.at = "user", !.row = session].at = "user"
    BY <2>1 DEF Call
  <2>4. \A d \in Calls : Served(d)'
    BY <1>1, <2>2, <2>3, ServedStep
  <2>5. QED
    BY <1>2, <2>4 DEF Read, Standing, Carried, Stays, row, clients
<1>3. CASE CheckUser(c)
  <2>1. call[c] \in Call /\ Holds(c)
    BY <1>1, <1>3, CallFields DEF CheckUser, InFlight, AtServer, Holds
  <2>2. Goes(c, [call[c] EXCEPT !.at = "save", !.token = issued + 1])
    BY <1>1, <1>3, <2>1 DEF CheckUser, Standing
  <2>3. [call[c] EXCEPT !.at = "save", !.token = issued + 1].at = "save"
    BY <2>1 DEF Call
  <2>4. \A d \in Calls : Served(d)'
    BY <1>1, <2>2, <2>3, ServedStep
  <2>5. QED
    BY <1>3, <2>4 DEF CheckUser, Standing, Carried, Stays, row, clients
<1>4. CASE Save(c)
  <2>1. call[c] \in Call /\ Holds(c)
    BY <1>1, <1>4, CallFields DEF Save, InFlight, AtServer, Holds
  <2>2. [call[c] EXCEPT !.at = "answer"].at = "answer"
    BY <2>1 DEF Call
  <2>3. \A d \in Calls : Served(d)'
    BY <1>1, <1>4, <2>2, ServedStep DEF Save
  <2>4. session \in Row /\ session' = [session EXCEPT !.gen = call[c].token]
    BY <1>1, <1>4, <2>1 DEF Save, TypeOK
  <2>5. session'.enabled = session.enabled /\ session'.exists = session.exists
    BY <2>4 DEF Row
  <2>6. QED
    BY <1>4, <2>3, <2>5 DEF Save, Standing, Carried, Stays, clients
<1>5. ~LogoutSave(c) /\ ~Revoke(c)
  BY <1>1 DEF LogoutSave, Revoke, Innocent
<1>6. QED
  BY <1>2, <1>3, <1>4, <1>5 DEF Server

LEMMA BlamelessClient ==
  ASSUME Inv, Innocent, Standing, Innocent', NEW c \in Calls, Client(c)
  PROVE  Standing' /\ Stays
<1>1. TypeOK /\ Done.at = "done"
  BY DEF Inv, Done
<1>2. ~Refused(c) /\ ~Out(c)
  BY DEF Standing, Served, Refused, Out
<1>3. CASE AgainSucceeds(c)
  <2>1. \A d \in Calls : Served(d)'
    BY <1>1, <1>3, ServedStep DEF AgainSucceeds
  <2>2. QED
    BY <1>3, <2>1 DEF AgainSucceeds, Standing, Carried, Stays, row, clients
<1>4. CASE Answer(c)
  <2>1. call[c] \in Call /\ call[c].token # 0 /\ call[c].by \in Tabs \cup {Phone}
    BY <1>1, <1>4, CallFields, BlamelessFacts DEF Answer, InFlight, AtServer, Call
  <2>2. /\ [call[c] EXCEPT !.at = "again"].at = "again"
    BY <2>1 DEF Call
  <2>3. \A d \in Calls : Served(d)'
    BY <1>1, <1>4, <2>2, ServedStep DEF Answer
  <2>4. session' = session /\ enabled' = enabled
    BY <1>4 DEF Answer, row
  <2>5. Carried' /\ Stays
    <3>1. CASE call[c].by \in Tabs
      <4> DEFINE t == call[c].by
      <4>1. /\ tab' = [tab EXCEPT ![t] = Released(t, c, "fresh")]
            /\ browser' = [cookie |-> call[c].token, stored |-> TRUE] /\ phone' = phone
        BY <1>4, <3>1, AuthSessionsAssumption DEF Answer
      <4>2. tab'[t].token = "fresh" /\ \A u \in Tabs : u # t => tab'[u] = tab[u]
        BY <1>1, <3>1, <4>1 DEF TypeOK, Released
      <4>3. QED
        BY <2>1, <4>1, <4>2 DEF Standing, Carried, Stays
    <3>2. CASE call[c].by = Phone
      <4>1. /\ phone' = [phone EXCEPT !.token = "fresh", !.cookie = call[c].token]
            /\ tab' = tab /\ browser' = browser
        BY <1>4, <3>2, AuthSessionsAssumption DEF Answer
      <4>2. phone'.token = "fresh" /\ phone'.cookie = call[c].token
        BY <1>1, <4>1 DEF TypeOK
      <4>3. QED
        BY <2>1, <4>1, <4>2 DEF Standing, Carried, Stays
    <3>3. QED
      BY <2>1, <3>1, <3>2
  <2>6. QED
    BY <2>3, <2>4, <2>5 DEF Standing
<1>5. CASE PhoneAgain(c)
  <2>1. phone.token \in Token
    BY <1>1 DEF TypeOK
  <2>2. phone.token # "none" => session.enabled
    BY DEF Inv, Shared, NoPhone, Standing
  <2>3. FALSE
    BY <1>5, <2>1, <2>2 DEF PhoneAgain, Innocent, Turned
  <2>4. QED
    BY <2>3
<1>6. QED
  BY <1>2, <1>3, <1>4, <1>5 DEF Client

\* Calls start without a change to the session.
LEMMA BlamelessStart ==
  ASSUME Inv, Innocent, Standing, Innocent', NEW c \in Calls,
         \/ \E who \in Tabs \cup {Phone} : Logout(who, c)
         \/ \E t \in Tabs : Unauthorized(t, c) \/ Open(t, c)
         \/ PhoneUnauthorized(c)
  PROVE  Standing' /\ Stays
<1>1. TypeOK
  BY DEF Inv
<1>2. ASSUME NEW who \in Tabs \cup {Phone}, Logout(who, c) PROVE Standing' /\ Stays
  <2>1. [Request(who, "logout", 0) EXCEPT !.at = "logout", !.row = session].at = "logout"
    BY DEF Request
  <2>2. \A d \in Calls : Served(d)'
    BY <1>1, <1>2, <2>1, ServedStep DEF Logout
  <2>3. QED
    BY <1>2, <2>2 DEF Logout, Standing, Carried, Stays, row, clients
<1>4. ASSUME NEW t \in Tabs, Unauthorized(t, c) PROVE Standing' /\ Stays
  <2>1. browser.cookie # 0 /\ Request(t, "retry", browser.cookie).token # 0
    BY <1>4 DEF Unauthorized, Turned, Standing, Carried, Request
  <2>2. Request(t, "retry", browser.cookie).at = "sent"
    BY DEF Request
  <2>3. \A d \in Calls : Served(d)'
    BY <1>1, <1>4, <2>1, <2>2, ServedStep DEF Unauthorized
  <2>4. \A u \in Tabs : tab'[u].token = tab[u].token
    BY <1>1, <1>4 DEF Unauthorized, TypeOK
  <2>5. session' = session
    BY <1>4 DEF Unauthorized, row
  <2>6. QED
    BY <1>4, <2>3, <2>4, <2>5 DEF Unauthorized, Standing, Carried, Stays, row
<1>5. ASSUME PhoneUnauthorized(c) PROVE Standing' /\ Stays
  <2>1. phone.cookie # 0 /\ Request(Phone, "retry", phone.cookie).token # 0
    BY <1>5 DEF PhoneUnauthorized, Turned, Standing, Carried, Request
  <2>2. Request(Phone, "retry", phone.cookie).at = "sent"
    BY DEF Request
  <2>3. \A d \in Calls : Served(d)'
    BY <1>1, <1>5, <2>1, <2>2, ServedStep DEF PhoneUnauthorized
  <2>4. session' = session
    BY <1>5 DEF PhoneUnauthorized, row
  <2>5. QED
    BY <1>5, <2>3, <2>4 DEF PhoneUnauthorized, Standing, Carried, Stays, row, clients
<1>6. ASSUME NEW t \in Tabs, Open(t, c) PROVE Standing' /\ Stays
  <2>1. browser.cookie # 0 /\ Request(t, "startup", browser.cookie).token # 0
    BY <1>6 DEF Open, Standing, Carried, Request
  <2>2. Request(t, "startup", browser.cookie).at = "sent"
    BY DEF Request
  <2>3. \A d \in Calls : Served(d)'
    BY <1>1, <1>6, <2>1, <2>2, ServedStep DEF Open
  <2>4. /\ tab'[t].token = "fresh" /\ \A u \in Tabs : u # t => tab'[u] = tab[u]
        /\ browser.stored
    BY <1>1, <1>6 DEF Open, TypeOK
  <2>5. QED
    BY <1>6, <2>3, <2>4 DEF Open, Standing, Carried, Stays, row
<1>7. QED
  BY <1>2, <1>4, <1>5, <1>6

LEMMA BlamelessElse ==
  ASSUME Inv, Innocent, Standing, Innocent',
         \/ \E who \in Tabs \cup {Phone} : Login(who) \/ Expire(who)
         \/ \E t \in Tabs : OpenEmpty(t) \/ Close(t)
         \/ Restart \/ Disable \/ DisableAll \/ Enable \/ GuardFinds \/ GuardDisables
  PROVE  Standing' /\ Stays
<1>1. TypeOK /\ (admin => ~enabled)
  BY DEF Inv, Shared
<1>2. CASE Disable \/ DisableAll \/ Enable \/ GuardFinds \/ GuardDisables
  <2>1. /\ session'.exists = session.exists
        /\ session.exists => session'.enabled /\ enabled'
    <3>1. CASE Enable \/ GuardFinds
      BY <3>1 DEF Enable, GuardFinds, Standing
    <3>2. CASE Disable \/ DisableAll
      <4>1. ~session.exists
        BY <1>1, <3>2 DEF Disable, DisableAll, Standing, Innocent
      <4>2. QED
        BY <1>1, <3>2, <4>1, DisabledRow DEF Disable, DisableAll
    <3>3. CASE GuardDisables
      <4>1. ~session.enabled
        BY <3>3 DEF GuardDisables, Innocent
      <4>2. QED
        BY <1>1, <3>3, <4>1, DisabledRow DEF GuardDisables, Standing
    <3>4. QED
      BY <1>2, <3>1, <3>2, <3>3
  <2>2. UNCHANGED <<clients, call>>
    BY <1>2 DEF Disable, DisableAll, Enable, GuardFinds, GuardDisables
  <2>3. QED
    BY <2>1, <2>2 DEF Standing, Carried, Served, Stays, clients
<1>3. ASSUME NEW who \in Tabs \cup {Phone}, Login(who) PROVE Standing' /\ Stays
  <2>1. \A d \in Calls : Served(d)'
    BY <1>3 DEF Login, Standing, Served
  <2>2. session'.enabled /\ enabled'
    BY <1>3 DEF Login
  <2>3. Carried' /\ Stays
    <3>1. CASE who = Phone
      BY <1>3, <3>1 DEF Login, Standing, Carried, Stays
    <3>2. CASE who \in Tabs
      <4>1. /\ tab'[who].token = "fresh" /\ \A u \in Tabs : u # who => tab'[u] = tab[u]
            /\ browser' = [cookie |-> 1, stored |-> TRUE] /\ phone' = phone
        BY <1>1, <1>3, <3>2, AuthSessionsAssumption DEF Login, TypeOK
      <4>2. QED
        BY <4>1 DEF Standing, Carried, Stays
    <3>3. QED
      BY <3>1, <3>2
  <2>4. QED
    BY <2>1, <2>2, <2>3 DEF Standing
<1>4. ASSUME NEW who \in Tabs \cup {Phone}, Expire(who) PROVE Standing' /\ Stays
  <2>1. \A d \in Calls : Served(d)'
    BY <1>4 DEF Expire, Standing, Served
  <2>2. Carried' /\ Stays
    <3>1. CASE who = Phone
      <4>1. /\ tab' = tab /\ browser' = browser /\ phone'.token = "stale"
            /\ phone.token = "fresh" /\ phone'.cookie = phone.cookie
        BY <1>1, <1>4, <3>1 DEF Expire, Held, TypeOK
      <4>2. QED
        BY <4>1 DEF Standing, Carried, Stays
    <3>2. CASE who \in Tabs
      <4>1. /\ tab'[who].token = "stale" /\ \A u \in Tabs : u # who => tab'[u] = tab[u]
            /\ tab[who].token = "fresh" /\ browser' = browser /\ phone' = phone
        BY <1>1, <1>4, <3>2, AuthSessionsAssumption DEF Expire, Held, TypeOK
      <4>2. QED
        BY <4>1 DEF Standing, Carried, Stays
    <3>3. QED
      BY <3>1, <3>2
  <2>3. QED
    BY <1>4, <2>1, <2>2 DEF Expire, Standing, row
<1>5. ASSUME NEW t \in Tabs, OpenEmpty(t) PROVE Standing' /\ Stays
  <2>1. \A d \in Calls : call'[d] = call[d]
    BY <1>5 DEF OpenEmpty, Orphans, Innocent
  <2>2. \A u \in Tabs : tab[u].token = "none"
    BY <1>5 DEF OpenEmpty, Standing, Carried
  <2>3. \A u \in Tabs : tab'[u].token = "none"
    BY <1>1, <1>5, <2>2 DEF OpenEmpty, TypeOK, NoTab
  <2>4. QED
    BY <1>5, <2>1, <2>2, <2>3 DEF OpenEmpty, Standing, Carried, Served, Stays, row
<1>6. ASSUME NEW t \in Tabs, Close(t) PROVE FALSE
  BY <1>6 DEF Close, Orphans, Innocent
<1>7. CASE Restart
  <2>1. \A d \in Calls : call[d].by # Phone
    BY <1>7 DEF Restart, Innocent
  <2>2. \A d \in Calls : call'[d] = call[d]
    BY <1>7, <2>1 DEF Restart
  <2>3. phone.cookie = phone.storedCookie /\ phone.stored
    BY <1>7 DEF Restart, Innocent
  <2>4. phone'.token = "fresh" /\ phone'.cookie = phone.cookie
    BY <1>1, <1>7, <2>3 DEF Restart, TypeOK
  <2>5. QED
    BY <1>7, <2>2, <2>3, <2>4 DEF Restart, Standing, Carried, Served, Stays, row
<1>8. QED
  BY <1>2, <1>3, <1>4, <1>5, <1>6, <1>7

LEMMA BlamelessStep ==
  ASSUME Inv, Innocent, Standing, Innocent', [Next]_vars
  PROVE  Standing' /\ Stays
<1>1. ASSUME NEW c \in Calls PROVE ~Lose(c) /\ ~AgainFails(c)
  BY DEF Lose, AgainFails, Innocent
<1>2. CASE UNCHANGED vars
  BY <1>2 DEF vars, row, clients, Standing, Carried, Served, Stays
<1>3. QED
  BY <1>1, <1>2, BlamelessServer, BlamelessClient, BlamelessStart, BlamelessElse DEF Next

\* IdentitySessionStore.clear takes an access token away only after a logout or an
\* administrator ended the session, or after one of the events of cause.
THEOREM SignedOutForAReasonHolds == Spec => SignedOutForAReason
<1> DEFINE Kept ==
       (\/ \E t \in Tabs : tab[t].token # "none" /\ tab'[t].token = "none"
        \/ phone.token # "none" /\ phone'.token = "none")
         => ended' \cap {"logout", "admin"} # {} \/ cause' # {}
<1>1. Init => Blameless
  BY DEF Init, Blameless, Standing, Carried, Served, NoSession, NoBrowser, NoPhone, NoTab, Done
<1>2. Inv /\ [Next]_vars /\ Innocent' => Innocent
  BY HistoryGrows DEF Innocent
<1>3. Inv /\ Blameless /\ [Next]_vars => Blameless'
  BY <1>2, BlamelessStep DEF Blameless
<1>4. Inv /\ Blameless /\ [Next]_vars => [Kept]_vars
  <2> SUFFICES ASSUME Inv, Blameless, [Next]_vars, Innocent' PROVE Kept
    BY DEF Innocent
  <2>1. Stays
    BY <1>2, BlamelessStep DEF Blameless
  <2>2. QED
    BY <2>1 DEF Stays
<1>5. QED
  BY <1>1, <1>3, <1>4, AuthInvariant, PTL DEF Spec, SignedOutForAReason
=============================================================================
