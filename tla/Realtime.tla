------------------------------ MODULE Realtime ------------------------------
(***************************************************************************)
(* The realtime channel of orders: a terminal (RealtimeService over        *)
(* SocketIoRealtimeTransport) that follows the active restaurant of its    *)
(* user, and the gateway that authenticates each connection and puts it in *)
(* the room of the restaurant it asks for (RealtimeGateway).               *)
(*                                                                         *)
(* A connection is used once.  Socket.IO is modelled by what both sides    *)
(* rely on: messages of a connection arrive in order, what is emitted      *)
(* without a connection waits for it, a broken connection is made again    *)
(* and one closed by the server is not, and a closed socket joins no room. *)
(* A handler of the gateway may be interleaved at each of its awaits.      *)
(*                                                                         *)
(* lost records why the terminal may be deaf: "early" a join that came     *)
(* before its connection was authenticated, "overlap" a join that began    *)
(* while another one was on its way, "again" a connection made again,      *)
(* "shut" one closed by the server, "scope" a join refused or not decided. *)
(***************************************************************************)
EXTENDS Integers, Sequences, FiniteSets

CONSTANTS Restaurants, Sessions, Conns,
          Grants,      \* the scopes a user may have
          MaxSelects,  \* bound on the restaurants the user picks
          None

\* The scopes of a token; an organization is the set of its restaurants.
Scopes == [restaurants : SUBSET Restaurants,
           organizations : SUBSET SUBSET Restaurants]

ASSUME RealtimeAssumption ==
    /\ MaxSelects \in Nat /\ Grants \subseteq Scopes
    /\ None \notin Restaurants \cup Sessions \cup Conns

VARIABLES grant,    \* scopes of the user in the database
          usable,   \* sessions signed in and not revoked
          session,  \* the terminal's session, the scopes of its token
          active,   \* activeRestaurant
          service,  \* connected, joinedRestaurantId
          link,     \* the client's socket: its connection and what waits for one
          sent,     \* joins on the wire, by connection
          conn,     \* the gateway's sockets
          joins,    \* handleJoinRestaurant calls in flight
          lost, selects

user == <<grant, usable, session, active>>
client == <<service, link>>
vars == <<user, client, sent, conn, joins, lost, selects>>

SignedIn == session.id # None
Unused == {c \in Conns : conn[c].state = "unused"}

NoLink == [conn |-> None, state |-> "none", wait |-> <<>>]
NoScopes == [restaurants |-> {}, organizations |-> {}]
NewConn == [state |-> "unused", session |-> None, scopes |-> NoScopes, auth |-> FALSE,
            joined |-> None, rooms |-> {}, interval |-> FALSE]

\* The restaurants that scopes give access to (listRestaurants).
Accessible(s) == s.restaurants \cup UNION s.organizations

-----------------------------------------------------------------------------
(* The user                                                                *)

\* A sign-in; the terminal has torn the last connection down by then.
SignIn(s) ==
    /\ ~SignedIn /\ ~service.connected /\ Unused # {}
    /\ s \notin usable /\ \A c \in Conns : conn[c].session # s
    /\ usable' = usable \cup {s}
    /\ session' = [id |-> s, scopes |-> grant]
    /\ UNCHANGED <<grant, active, client, sent, conn, joins, lost, selects>>

\* The session ends on the terminal, and with it the active restaurant.
SignOut ==
    /\ SignedIn
    /\ session' = [id |-> None, scopes |-> NoScopes] /\ active' = None
    /\ UNCHANGED <<grant, usable, client, sent, conn, joins, lost, selects>>

\* A refreshed token carries the scopes of now.
RefreshToken ==
    /\ session.id \in usable /\ session.scopes # grant
    /\ session' = [session EXCEPT !.scopes = grant]
    /\ UNCHANGED <<grant, usable, active, client, sent, conn, joins, lost, selects>>

Revoke(s) ==
    /\ s \in usable
    /\ usable' = usable \ {s}
    /\ UNCHANGED <<grant, session, active, client, sent, conn, joins, lost, selects>>

\* An administrator gives the user one more restaurant or organization.
Regrant(s) ==
    /\ s # grant /\ grant' = s
    /\ grant.restaurants \subseteq s.restaurants
    /\ grant.organizations \subseteq s.organizations
    /\ UNCHANGED <<usable, session, active, client, sent, conn, joins, lost, selects>>

Select(r) ==
    /\ SignedIn /\ r \in Accessible(session.scopes) \ {active}
    /\ selects < MaxSelects /\ selects' = selects + 1
    /\ active' = r
    /\ UNCHANGED <<grant, usable, session, client, sent, conn, joins, lost>>

-----------------------------------------------------------------------------
(* RealtimeService and its transport                                       *)

Torn == [connected |-> FALSE, joined |-> None]

\* teardown
Teardown ==
    /\ service' = Torn /\ link' = NoLink
    /\ UNCHANGED sent

\* transport.connect, when there is no connection, and emit.
Follow ==
    LET open == IF service.connected THEN link ELSE [NoLink EXCEPT !.state = "connecting"]
        up == open.state = "up"
    IN  /\ service' = [connected |-> TRUE, joined |-> active]
        /\ link' = IF up THEN open ELSE [open EXCEPT !.wait = Append(@, active)]
        /\ sent' = IF up THEN [sent EXCEPT ![open.conn] = Append(@, active)] ELSE sent

EffectOnce ==
    /\ \/ /\ service.connected /\ (~SignedIn \/ active = None)
          /\ Teardown
       \/ /\ SignedIn /\ active # None /\ ~service.connected
          /\ Follow
    /\ UNCHANGED <<user, conn, joins, lost, selects>>
\* The effect of the constructor, whenever what it reads has changed.
Effect ==
    /\ \/ /\ service.connected /\ (~SignedIn \/ active = None)
          /\ Teardown
       \/ /\ SignedIn /\ active # None
          /\ ~service.connected \/ service.joined # active
          /\ Follow
    /\ UNCHANGED <<user, conn, joins, lost, selects>>

\* A connection is made: it carries the token of now, and what waited for it.
Connect(c) ==
    /\ link.state = "connecting" /\ c \in Unused
    /\ conn' = [conn EXCEPT ![c].state = "open", ![c].session = session.id,
                            ![c].scopes = session.scopes]
    /\ link' = [conn |-> c, state |-> "up", wait |-> <<>>]
    /\ sent' = [sent EXCEPT ![c] = link.wait]
    /\ UNCHANGED <<user, service, joins, lost, selects>>

-----------------------------------------------------------------------------
(* The gateway                                                             *)

\* handleDisconnect, after Socket.IO has taken the socket out of its rooms.
Closed(c) == [conn EXCEPT ![c].state = "closed", ![c].rooms = {}, ![c].interval = FALSE]

\* client.disconnect(true): the client's socket is not connected again.
Shut(c) ==
    IF conn[c].state = "open"
    THEN /\ conn' = Closed(c)
         /\ link' = IF link.conn = c THEN [link EXCEPT !.state = "dead"] ELSE link
         /\ sent' = [sent EXCEPT ![c] = <<>>]
         /\ lost' = lost \cup {"shut"}
    ELSE UNCHANGED <<conn, link, sent, lost>>

Authenticating(c) == conn[c].state # "unused" /\ ~conn[c].auth
SessionValid(c) == conn[c].session \in usable

AuthenticateOnce(c) ==
    /\ Authenticating(c) /\ SessionValid(c)
    /\ conn' = [conn EXCEPT ![c].auth = TRUE]
    /\ UNCHANGED <<user, client, sent, joins, lost, selects>>
\* The two outcomes of handleConnection, at its last await.  It does not look
\* whether the socket is still there.
Authenticate(c) ==
    /\ Authenticating(c) /\ SessionValid(c)
    /\ conn' = [conn EXCEPT ![c].auth = TRUE, ![c].interval = TRUE]
    /\ UNCHANGED <<user, client, sent, joins, lost, selects>>
\* The session is not valid, a read of the database failed or the token has
\* expired meanwhile.
Reject(c) ==
    /\ conn[c].state = "open" /\ ~conn[c].auth
    /\ Shut(c)
    /\ UNCHANGED <<user, service, joins, selects>>

\* expiryTimer; clearTimeout or the end of the connection stops it.
Expire(c) ==
    /\ conn[c].state = "open" /\ conn[c].auth
    /\ Shut(c)
    /\ UNCHANGED <<user, service, joins, selects>>

\* sessionCheckInterval
Revalidate(c) ==
    /\ conn[c].interval /\ ~SessionValid(c)
    /\ Shut(c)
    /\ UNCHANGED <<user, service, joins, selects>>

\* A number that tells a join from the others in flight.
Free(c) == CHOOSE n \in 1 .. MaxSelects : \A j \in joins[c] : j.n # n

\* handleJoinRestaurant, up to its first await.
JoinArrives(c) ==
    /\ conn[c].state = "open" /\ sent[c] # <<>>
    /\ LET r == Head(sent[c])
       IN  /\ joins' = IF conn[c].auth /\ conn[c].joined # r
                       THEN [joins EXCEPT ![c] = @ \cup
                               {[n |-> Free(c), rid |-> r,
                                 prev |-> conn[c].joined, at |-> "access"]}]
                       ELSE joins
           /\ lost' = lost \cup {why \in {"early"} : ~conn[c].auth}
                           \cup {why \in {"overlap"} : joins[c] # {}}
    /\ sent' = [sent EXCEPT ![c] = Tail(@)]
    /\ UNCHANGED <<user, client, conn, selects>>

Moves(c, j, at) == joins' = [joins EXCEPT ![c] = (@ \ {j}) \cup {[j EXCEPT !.at = at]}]
Leaves(c, r) == IF r = None \/ conn[c].state # "open" THEN conn
                ELSE [conn EXCEPT ![c].rooms = @ \ {r}]

JoinUnchecked(c, j) ==
    /\ j.at = "access"
    /\ conn' = Leaves(c, j.prev) /\ Moves(c, j, "join")
    /\ UNCHANGED <<user, client, sent, lost, selects>>
\* canAccessRestaurant answers; the room of before is left.
JoinAllowed(c, j) ==
    /\ j.at = "access" /\ j.rid \in Accessible(conn[c].scopes)
    /\ conn' = Leaves(c, j.prev) /\ Moves(c, j, "join")
    /\ UNCHANGED <<user, client, sent, lost, selects>>

\* It answers no, or throws: a restaurant that is not itself in the scopes is
\* looked up in the database, when there are organizations.
LookupFails(c, j) == /\ j.rid \notin conn[c].scopes.restaurants
                     /\ conn[c].scopes.organizations # {}
JoinRefused(c, j) ==
    /\ j.at = "access"
    /\ j.rid \notin Accessible(conn[c].scopes) \/ LookupFails(c, j)
    /\ joins' = [joins EXCEPT ![c] = @ \ {j}]
    /\ lost' = lost \cup {"scope"}
    /\ UNCHANGED <<user, client, sent, conn, selects>>

\* client.join, which does nothing on a closed socket.
JoinRoom(c, j) ==
    /\ j.at = "join" /\ Moves(c, j, "joined")
    /\ conn' = IF conn[c].state = "open" THEN [conn EXCEPT ![c].rooms = @ \cup {j.rid}] ELSE conn
    /\ UNCHANGED <<user, client, sent, lost, selects>>

JoinRemembered(c, j) ==
    /\ j.at = "joined"
    /\ joins' = [joins EXCEPT ![c] = @ \ {j}]
    /\ conn' = [conn EXCEPT ![c].joined = j.rid]
    /\ UNCHANGED <<user, client, sent, lost, selects>>

-----------------------------------------------------------------------------
(* The network                                                             *)

\* The connection of a socket that the terminal disconnected ends, after what
\* was on the wire.
Ends(c) ==
    /\ conn[c].state = "open" /\ link.conn # c /\ sent[c] = <<>>
    /\ conn' = Closed(c)
    /\ UNCHANGED <<user, client, sent, joins, lost, selects>>

\* A connection breaks; the client's socket makes another one.
Break(c) ==
    /\ conn[c].state = "open" /\ link.conn = c /\ link.state = "up" /\ Unused # {}
    /\ conn' = Closed(c)
    /\ link' = [NoLink EXCEPT !.state = "connecting"]
    /\ sent' = [sent EXCEPT ![c] = <<>>]
    /\ lost' = lost \cup {"again"}
    /\ UNCHANGED <<user, service, joins, selects>>

-----------------------------------------------------------------------------
Init ==
    /\ grant \in Grants /\ usable = {}
    /\ session = [id |-> None, scopes |-> NoScopes] /\ active = None
    /\ service = Torn /\ link = NoLink
    /\ sent = [c \in Conns |-> <<>>]
    /\ conn = [c \in Conns |-> NewConn]
    /\ joins = [c \in Conns |-> {}]
    /\ lost = {} /\ selects = 0

Join(c) == \E j \in joins[c] :
    JoinAllowed(c, j) \/ JoinRefused(c, j) \/ JoinRoom(c, j) \/ JoinRemembered(c, j)

Next ==
    \/ \E s \in Sessions : SignIn(s) \/ Revoke(s)
    \/ SignOut \/ RefreshToken
    \/ (\E s \in Grants : Regrant(s)) \/ (\E r \in Restaurants : Select(r))
    \/ Effect
    \/ \E c \in Conns :
         \/ Connect(c) \/ Authenticate(c) \/ Reject(c) \/ Expire(c) \/ Revalidate(c)
         \/ JoinArrives(c) \/ Join(c) \/ Ends(c) \/ Break(c)

\* Handlers go on, timers fire, the wire delivers, and a socket that tries to
\* connect succeeds.  Nothing forces the user, an administrator, the network to
\* break or a token to expire.
Fairness ==
    /\ WF_vars(Effect) /\ WF_vars(\E c \in Conns : Connect(c))
    /\ \A c \in Conns :
         /\ WF_vars(Authenticate(c)) /\ WF_vars(Reject(c)) /\ WF_vars(Revalidate(c))
         /\ WF_vars(JoinArrives(c)) /\ WF_vars(Join(c)) /\ WF_vars(Ends(c))

Spec == Init /\ [][Next]_vars /\ Fairness

-----------------------------------------------------------------------------
(* Properties                                                              *)

Place == {"access", "join", "joined"}

\* Every variable has its type; only restaurants are asked for.
TypeOK ==
    /\ grant \in Grants /\ usable \subseteq Sessions
    /\ session \in [id : Sessions \cup {None}, scopes : Scopes]
    /\ active \in Restaurants \cup {None}
    /\ service \in [connected : BOOLEAN, joined : Restaurants \cup {None}]
    /\ link \in [conn : Conns \cup {None}, state : {"none", "connecting", "up", "dead"},
                 wait : Seq(Restaurants)]
    /\ sent \in [Conns -> Seq(Restaurants)]
    /\ conn \in [Conns -> [state : {"unused", "open", "closed"},
                           session : Sessions \cup {None}, scopes : Scopes,
                           auth : BOOLEAN, joined : Restaurants \cup {None},
                           rooms : SUBSET Restaurants, interval : BOOLEAN]]
    /\ joins \in [Conns -> SUBSET
         [n : 1 .. MaxSelects, rid : Restaurants, prev : Restaurants \cup {None}, at : Place]]
    /\ lost \subseteq {"early", "overlap", "again", "shut", "scope"}
    /\ selects \in 0 .. MaxSelects

\* Tenants do not leak: however joins interleave, a connection is only in rooms
\* its authenticated token gives access to.
OwnRooms == \A c \in Conns :
    conn[c].rooms \subseteq (IF conn[c].auth THEN Accessible(conn[c].scopes) ELSE {})

\* The gateway's memory of the room is right between joins as long as they never
\* overlap: the room of before was left.
RoomRemembered == "overlap" \notin lost =>
    \A c \in Conns : conn[c].state = "open" /\ joins[c] = {} =>
        conn[c].rooms = {conn[c].joined} \ {None}

\* Whatever interleaves at the awaits of the gateway, its sockets are only in
\* rooms they may be in, and know which one.
RoomsConsistent == TypeOK /\ OwnRooms /\ RoomRemembered

\* A connection whose session is revoked is closed in the end, also when the
\* revocation falls between the check of handleConnection and its interval.
RevokedLeaves == \A c \in Conns :
    (conn[c].state = "open" /\ ~SessionValid(c)) ~> (conn[c].state = "closed")

\* A terminal whose restaurant stays the same ends up in its room and nowhere
\* else, unless for one of the reasons that lost names.
Follows == \A r \in Restaurants :
    <>[](active = r /\ session.id \in usable) =>
        \/ <>(lost # {})
        \/ <>[](link.state = "up" /\ conn[link.conn].rooms = {r})
=============================================================================
