-------------------------- MODULE Realtime_proofs --------------------------
(***************************************************************************)
(* The rooms of the gateway for any number of restaurants, sessions,       *)
(* connections and joins: however the awaits interleave, a connection is   *)
(* in no room its token does not give access to.                           *)
(***************************************************************************)
EXTENDS Realtime, FiniteSetTheorems, TLAPS

\* The effect of the service has still to follow a selection.
Owed == IF active # None /\ (~service.connected \/ service.joined # active) THEN 1 ELSE 0

\* Every join, in flight or on its way, stems from a selection of its own.
Fits(c) ==
    /\ IsFiniteSet(joins[c])
    /\ Cardinality(joins[c]) + Len(sent[c]) + Len(link.wait) + Owed <= selects

\* What handleJoinRestaurant has done so far to the rooms of an open socket.
Steady(c) ==
    /\ \A i, j \in joins[c] : i = j
    /\ \A j \in joins[c] : j.prev = conn[c].joined
    /\ conn[c].state = "open" =>
         /\ joins[c] = {} => conn[c].rooms = {conn[c].joined} \ {None}
         /\ \A j \in joins[c] :
              /\ j.at = "access" => conn[c].rooms = {conn[c].joined} \ {None}
              /\ j.at = "join" => conn[c].rooms = {}
              /\ j.at = "joined" => conn[c].rooms = {j.rid}

\* Only an authenticated socket joins, and only what its token gives.
Sound(c) ==
    /\ conn[c].state = "unused" => conn[c] = NewConn /\ sent[c] = <<>> /\ joins[c] = {}
    /\ joins[c] # {} => conn[c].auth
    /\ \A j \in joins[c] : j.at # "access" => j.rid \in Accessible(conn[c].scopes)
    /\ conn[c].rooms \subseteq (IF conn[c].auth THEN Accessible(conn[c].scopes) ELSE {})
    /\ "overlap" \notin lost => Steady(c)

Linked == /\ ~SignedIn => active = None
          /\ link.state = "up" => link.conn \in Conns /\ conn[link.conn].state = "open"

Inv == TypeOK /\ Linked /\ \A c \in Conns : Fits(c) /\ Sound(c)

Joins == [n : 1 .. MaxSelects, rid : Restaurants, prev : Restaurants \cup {None}, at : Place]
Sockets == [state : {"unused", "open", "closed"},
            session : Sessions \cup {None}, scopes : Scopes,
            auth : BOOLEAN, joined : Restaurants \cup {None},
            rooms : SUBSET Restaurants, interval : BOOLEAN]

-----------------------------------------------------------------------------
(* Facts about the state                                                   *)

LEMMA SocketFields ==
  ASSUME TypeOK, NEW c \in Conns
  PROVE  /\ conn[c] \in Sockets /\ sent[c] \in Seq(Restaurants) /\ joins[c] \subseteq Joins
         /\ link.wait \in Seq(Restaurants) /\ Owed \in {0, 1} /\ selects \in Nat
         /\ MaxSelects \in Nat /\ selects <= MaxSelects
  BY RealtimeAssumption DEF TypeOK, Sockets, Joins, Owed

\* With room for one more join there is a number for it.
LEMMA FreeNumber ==
  ASSUME TypeOK, NEW c \in Conns, Fits(c), sent[c] # <<>>
  PROVE  Free(c) \in 1 .. MaxSelects
<1>1. /\ joins[c] \subseteq Joins /\ IsFiniteSet(joins[c])
      /\ Cardinality(joins[c]) \in Nat /\ MaxSelects \in Nat
      /\ Cardinality(joins[c]) < MaxSelects
  <2>1. Cardinality(joins[c]) \in Nat
    BY FS_CardinalityType DEF Fits
  <2>2. Len(sent[c]) \in Nat /\ Len(sent[c]) > 0 /\ Len(link.wait) \in Nat
    BY SocketFields
  <2>3. QED
    BY <2>1, <2>2, SocketFields DEF Fits
<1>2. \E n \in 1 .. MaxSelects : \A j \in joins[c] : j.n # n
  <2> SUFFICES ASSUME \A n \in 1 .. MaxSelects : \E j \in joins[c] : j.n = n PROVE FALSE
    OBVIOUS
  <2> DEFINE f == [n \in 1 .. MaxSelects |-> CHOOSE j \in joins[c] : j.n = n]
  <2>1. f \in [1 .. MaxSelects -> joins[c]] /\ \A n \in 1 .. MaxSelects : f[n].n = n
    OBVIOUS
  <2>2. IsFiniteSet(1 .. MaxSelects) /\ Cardinality(1 .. MaxSelects) = MaxSelects
    BY <1>1, FS_Interval
  <2> HIDE DEF f
  <2>3. \E x, y \in 1 .. MaxSelects : x # y /\ f[x] = f[y]
    BY <1>1, <2>1, <2>2, FS_PigeonHole
  <2>4. QED
    BY <2>1, <2>3
<1>3. QED
  BY <1>2 DEF Free

\* A socket nothing happens to.
LEMMA SoundFrame ==
  ASSUME NEW c \in Conns, Sound(c), lost \subseteq lost',
         conn'[c] = conn[c], sent'[c] = sent[c], joins'[c] = joins[c]
  PROVE  Sound(c)'
  BY DEF Sound, Steady

LEMMA Sums ==
  ASSUME NEW a \in Nat, NEW b \in Nat, NEW d \in Nat,
         NEW aa \in Nat, NEW bb \in Nat, NEW dd \in Nat, aa <= a, bb <= b, dd <= d,
         NEW o \in {0, 1}, NEW oo \in {0, 1}, NEW s \in Nat, NEW ss \in Nat,
         oo - o <= ss - s, a + b + d + o <= s
  PROVE  aa + bb + dd + oo <= ss
  OBVIOUS

\* A join that moves or ends makes the set of joins no larger.
LEMMA FewerJoins ==
  ASSUME NEW S, NEW T, IsFiniteSet(S),
         \/ T = S
         \/ \E j \in S : T = S \ {j}
         \/ \E j \in S : \E k : T = (S \ {j}) \cup {k}
  PROVE  IsFiniteSet(T) /\ Cardinality(T) \in Nat /\ Cardinality(T) <= Cardinality(S)
<1>1. Cardinality(S) \in Nat
  BY FS_CardinalityType
<1>2. CASE T = S
  BY <1>1, <1>2
<1>3. ASSUME NEW j \in S, T = S \ {j} \/ \E k : T = (S \ {j}) \cup {k}
      PROVE  IsFiniteSet(T) /\ Cardinality(T) \in Nat /\ Cardinality(T) <= Cardinality(S)
  <2>1. IsFiniteSet(S \ {j}) /\ Cardinality(S \ {j}) = Cardinality(S) - 1
    BY FS_RemoveElement
  <2>2. CASE T = S \ {j}
    BY <1>1, <2>1, <2>2, FS_CardinalityType
  <2>3. ASSUME NEW k, T = (S \ {j}) \cup {k}
        PROVE  IsFiniteSet(T) /\ Cardinality(T) \in Nat /\ Cardinality(T) <= Cardinality(S)
    <3>1. /\ IsFiniteSet(T)
          /\ \/ Cardinality(T) = Cardinality(S \ {j})
             \/ Cardinality(T) = Cardinality(S \ {j}) + 1
      BY <2>1, <2>3, FS_AddElement
    <3>2. Cardinality(T) \in Nat
      BY <3>1, FS_CardinalityType
    <3>3. QED
      BY <1>1, <2>1, <3>1, <3>2
  <2>4. QED
    BY <1>3, <2>2, <2>3
<1>4. QED
  BY <1>2, <1>3

\* Fewer joins in flight or on their way still fit.
LEMMA FitsFrame ==
  ASSUME TypeOK, TypeOK', NEW c \in Conns, Fits(c),
         \/ joins'[c] = joins[c]
         \/ \E j \in joins[c] : joins'[c] = joins[c] \ {j}
         \/ \E j \in joins[c] : \E k : joins'[c] = (joins[c] \ {j}) \cup {k},
         sent'[c] = sent[c] \/ sent'[c] = <<>>,
         link'.wait = link.wait \/ link'.wait = <<>>,
         Owed' - Owed <= selects' - selects
  PROVE  Fits(c)'
<1>1. IsFiniteSet(joins[c]) /\ Cardinality(joins[c]) \in Nat
  BY FS_CardinalityType DEF Fits
<1>2. /\ IsFiniteSet(joins'[c]) /\ Cardinality(joins'[c]) \in Nat
      /\ Cardinality(joins'[c]) <= Cardinality(joins[c])
  BY <1>1, FewerJoins
<1>3. /\ Len(sent[c]) \in Nat /\ Len(sent'[c]) \in Nat /\ Len(sent'[c]) <= Len(sent[c])
      /\ Len(link.wait) \in Nat /\ Len(link'.wait) \in Nat
      /\ Len(link'.wait) <= Len(link.wait)
  BY SocketFields
<1>4. /\ Owed \in {0, 1} /\ Owed' \in {0, 1} /\ selects \in Nat /\ selects' \in Nat
  BY DEF TypeOK, Owed
<1> DEFINE a == Cardinality(joins[c])
           b == Len(sent[c])
           d == Len(link.wait)
           aa == Cardinality(joins'[c])
           bb == Len(sent'[c])
           dd == Len(link'.wait)
           o == Owed
           oo == Owed'
<1>5. a + b + d + o <= selects
  BY DEF Fits
<1>6. aa + bb + dd + oo <= selects'
  <2> HIDE DEF a, b, d, aa, bb, dd, o, oo
  <2>1. /\ a \in Nat /\ b \in Nat /\ d \in Nat /\ aa \in Nat /\ bb \in Nat /\ dd \in Nat
        /\ aa <= a /\ bb <= b /\ dd <= d
    BY <1>1, <1>2, <1>3 DEF a, b, d, aa, bb, dd
  <2>2. o \in {0, 1} /\ oo \in {0, 1} /\ selects \in Nat /\ selects' \in Nat
        /\ oo - o <= selects' - selects
    BY <1>4 DEF o, oo
  <2>3. QED
    <3> DEFINE s == selects
               ss == selects'
    <3>1. oo - o <= ss - s /\ a + b + d + o <= s
      BY <2>2, <1>5
    <3>2. s \in Nat /\ ss \in Nat
      BY <2>2
    <3> HIDE DEF s, ss
    <3>3. aa + bb + dd + oo <= ss
      BY <2>1, <2>2, <3>1, <3>2, Sums
    <3>4. QED
      BY <3>3 DEF ss
<1>7. QED
  BY <1>2, <1>6 DEF Fits

\* A step of the gateway at one socket.
LEMMA SocketStep ==
  ASSUME Inv, NEW c \in Conns, TypeOK', Linked', Sound(c)',
         \A d \in Conns \ {c} : conn'[d] = conn[d] /\ sent'[d] = sent[d] /\ joins'[d] = joins[d],
         lost \subseteq lost', UNCHANGED <<active, service, selects>>,
         link'.wait = link.wait \/ link'.wait = <<>>,
         sent'[c] = sent[c] \/ sent'[c] = <<>>,
         \/ joins'[c] = joins[c]
         \/ \E j \in joins[c] : joins'[c] = joins[c] \ {j}
         \/ \E j \in joins[c] : \E k : joins'[c] = (joins[c] \ {j}) \cup {k}
  PROVE  Inv'
<1>1. Owed' - Owed <= selects' - selects
  <2>1. Owed' = Owed /\ selects' = selects
    BY DEF Owed
  <2>2. Owed \in {0, 1} /\ selects \in Nat
    BY DEF Inv, TypeOK, Owed
  <2>3. QED
    BY <2>1, <2>2
<1>2. ASSUME NEW d \in Conns PROVE Fits(d)'
  BY <1>1, FitsFrame DEF Inv
<1>3. ASSUME NEW d \in Conns PROVE Sound(d)'
  BY SoundFrame DEF Inv
<1>4. QED
  BY <1>2, <1>3 DEF Inv

-----------------------------------------------------------------------------
(* The steps of the gateway                                                *)

\* A socket that is closed keeps what it was, without its rooms.
LEMMA ClosedStep ==
  ASSUME Inv, NEW c \in Conns, conn[c].state = "open",
         conn' = Closed(c), sent' = sent \/ sent' = [sent EXCEPT ![c] = <<>>],
         UNCHANGED <<user, service, joins, selects>>, lost \subseteq lost',
         lost' \subseteq {"early", "overlap", "again", "shut", "scope"},
         \/ link' = link /\ link.conn # c
         \/ link' = [link EXCEPT !.state = "dead"]
         \/ link' = [NoLink EXCEPT !.state = "connecting"]
  PROVE  Inv'
<1>1. TypeOK'
  <2>1. conn' \in [Conns -> Sockets]
    <3>1. /\ conn[c] \in Sockets /\ conn \in [Conns -> Sockets]
          /\ conn' = [conn EXCEPT ![c] = [conn[c] EXCEPT !.state = "closed", !.rooms = {},
                                                        !.interval = FALSE]]
      BY SocketFields DEF Closed, Inv, TypeOK, Sockets
    <3>2. [conn[c] EXCEPT !.state = "closed", !.rooms = {}, !.interval = FALSE] \in Sockets
      BY <3>1 DEF Sockets
    <3>3. QED
      BY <3>1, <3>2
  <2>2. sent' \in [Conns -> Seq(Restaurants)]
    <3>1. sent \in [Conns -> Seq(Restaurants)] /\ <<>> \in Seq(Restaurants)
      BY DEF Inv, TypeOK
    <3>2. QED
      BY <3>1
  <2>3. link' \in [conn : Conns \cup {None}, state : {"none", "connecting", "up", "dead"},
                   wait : Seq(Restaurants)]
    <3>1. /\ link \in [conn : Conns \cup {None}, state : {"none", "connecting", "up", "dead"},
                       wait : Seq(Restaurants)]
          /\ <<>> \in Seq(Restaurants)
      BY DEF Inv, TypeOK
    <3>2. QED
      BY <3>1 DEF NoLink
  <2>4. QED
    BY <2>1, <2>2, <2>3 DEF Inv, TypeOK, Sockets, user
<1>2. /\ \A d \in Conns \ {c} : conn'[d] = conn[d] /\ sent'[d] = sent[d]
      /\ conn'[c] = [conn[c] EXCEPT !.state = "closed", !.rooms = {}, !.interval = FALSE]
      /\ sent'[c] = sent[c] \/ sent'[c] = <<>>
  BY DEF Closed, Inv, TypeOK
<1>3. Linked'
  BY <1>2 DEF Inv, Linked, TypeOK, NoLink, user, SignedIn
<1>4. Sound(c)'
  <2>1. /\ conn'[c].state = "closed" /\ conn'[c].rooms = {}
        /\ conn'[c].auth = conn[c].auth /\ conn'[c].scopes = conn[c].scopes
        /\ conn'[c].joined = conn[c].joined
    BY <1>2, SocketFields DEF Inv, Sockets
  <2>2. QED
    BY <2>1 DEF Inv, Sound, Steady
<1>5. link'.wait = link.wait \/ link'.wait = <<>>
  BY DEF NoLink, Inv, TypeOK
<1>6. QED
  BY <1>1, <1>2, <1>3, <1>4, <1>5, SocketStep DEF user

LEMMA ShutStep ==
  ASSUME Inv, NEW c \in Conns, conn[c].state = "open", Shut(c),
         UNCHANGED <<user, service, joins, selects>>
  PROVE  Inv'
<1>1. lost' \subseteq {"early", "overlap", "again", "shut", "scope"}
  BY DEF Inv, TypeOK, Shut
<1>2. QED
  BY <1>1, ClosedStep DEF Shut

\* A step that changes nothing.
LEMMA StutterInv ==
  ASSUME Inv, UNCHANGED vars
  PROVE  Inv'
<1>1. /\ UNCHANGED <<grant, usable, session, active, service, link, sent, conn,
                    joins, lost, selects>>
  BY DEF vars, user, client
<1>2. TypeOK' /\ Linked'
  BY <1>1 DEF Inv, TypeOK, Linked, SignedIn
<1>3. \A c \in Conns : Fits(c)' /\ Sound(c)'
  BY <1>1 DEF Inv, Fits, Owed, Sound, Steady, Place
<1>4. QED
  BY <1>2, <1>3 DEF Inv

LEMMA RevalidateStep ==
  ASSUME Inv, NEW c \in Conns, Revalidate(c)
  PROVE  Inv'
<1>1. CASE conn[c].state = "open"
  BY <1>1, ShutStep DEF Revalidate
<1>2. CASE conn[c].state # "open"
  <2>1. UNCHANGED <<user, client, sent, conn, joins, lost, selects>>
    BY <1>2 DEF Revalidate, Shut, client
  <2>2. QED
    BY <2>1, StutterInv DEF vars
<1>3. QED
  BY <1>1, <1>2

LEMMA AuthenticateStep ==
  ASSUME Inv, NEW c \in Conns, Authenticate(c)
  PROVE  Inv'
<1>1. /\ conn' = [conn EXCEPT ![c] = [conn[c] EXCEPT !.auth = TRUE, !.interval = TRUE]]
      /\ conn[c] \in Sockets /\ ~conn[c].auth /\ conn[c].state # "unused"
  BY SocketFields DEF Authenticate, Authenticating, Inv, TypeOK
<1>2. /\ \A d \in Conns \ {c} : conn'[d] = conn[d]
      /\ conn'[c] = [conn[c] EXCEPT !.auth = TRUE, !.interval = TRUE]
  BY <1>1 DEF Inv, TypeOK
<1>3. TypeOK'
  <2>1. conn' \in [Conns -> Sockets]
    BY <1>1 DEF Inv, TypeOK, Sockets
  <2>2. QED
    BY <2>1 DEF Authenticate, Inv, TypeOK, Sockets, user, client
<1>4. Linked'
  BY <1>1, <1>2 DEF Authenticate, Inv, Linked, SignedIn, user, client, Sockets
<1>5. Sound(c)'
  <2>0. conn'[c].auth = TRUE
    BY <1>1, <1>2 DEF Sockets
  <2>1. /\ conn'[c].state = conn[c].state /\ conn'[c].rooms = conn[c].rooms
        /\ conn'[c].scopes = conn[c].scopes /\ conn'[c].joined = conn[c].joined
    BY <1>1, <1>2 DEF Sockets
  <2>2. UNCHANGED <<sent, joins, lost>> /\ Sound(c)
    BY DEF Authenticate, Inv, client
  <2>3. conn[c].rooms = {}
    BY <1>1, <2>2 DEF Sound
  <2>4. Steady(c) => Steady(c)'
    BY <2>1, <2>2 DEF Steady
  <2>5. QED
    BY <1>1, <2>0, <2>1, <2>2, <2>3, <2>4 DEF Sound
<1>6. QED
  BY <1>2, <1>3, <1>4, <1>5, SocketStep DEF Authenticate, user, client

\* A step of one join: it changes the rooms and the memory of its socket.
LEMMA JoinStep ==
  ASSUME Inv, NEW c \in Conns, NEW j \in joins[c],
         NEW rooms \in SUBSET Restaurants, NEW joined \in Restaurants \cup {None},
         conn' = [conn EXCEPT ![c] = [conn[c] EXCEPT !.rooms = rooms, !.joined = joined]],
         UNCHANGED <<user, client, sent, selects>>, lost \subseteq lost',
         lost' \subseteq {"early", "overlap", "again", "shut", "scope"},
         \/ joins' = [joins EXCEPT ![c] = joins[c] \ {j}]
         \/ \E at \in Place :
              /\ joins' = [joins EXCEPT ![c] = (joins[c] \ {j}) \cup {[j EXCEPT !.at = at]}]
              /\ at # "access" => j.rid \in Accessible(conn[c].scopes),
         rooms \subseteq conn[c].rooms \cup (IF j.at = "access" THEN {} ELSE {j.rid}),
         "overlap" \notin lost' => Steady(c)'
  PROVE  Inv'
<1>0. /\ conn[c] \in Sockets /\ joins[c] \subseteq Joins /\ j \in Joins
      /\ conn \in [Conns -> Sockets] /\ joins \in [Conns -> SUBSET Joins]
      /\ conn[c].auth /\ conn[c].state # "unused" /\ Sound(c)
  <2>1. conn \in [Conns -> Sockets] /\ joins \in [Conns -> SUBSET Joins] /\ Sound(c)
    BY DEF Inv, TypeOK, Sockets, Joins
  <2>2. joins[c] # {} /\ conn[c].auth /\ conn[c].state # "unused"
    BY <2>1 DEF Sound
  <2>3. QED
    BY <2>1, <2>2
<1>1. /\ conn' \in [Conns -> Sockets] /\ joins' \in [Conns -> SUBSET Joins]
      /\ \A d \in Conns \ {c} : conn'[d] = conn[d] /\ joins'[d] = joins[d]
      /\ conn'[c] = [conn[c] EXCEPT !.rooms = rooms, !.joined = joined]
  <2>1. [conn[c] EXCEPT !.rooms = rooms, !.joined = joined] \in Sockets
    BY <1>0 DEF Sockets
  <2>2. \A at \in Place : [j EXCEPT !.at = at] \in Joins
    BY <1>0 DEF Joins
  <2>3. QED
    BY <1>0, <2>1, <2>2
<1>2. TypeOK'
  BY <1>1 DEF Inv, TypeOK, Sockets, Joins, user, client
<1>3. /\ conn'[c].state = conn[c].state /\ conn'[c].scopes = conn[c].scopes
      /\ conn'[c].rooms = rooms /\ conn'[c].auth = conn[c].auth
  BY <1>0, <1>1 DEF Sockets
<1>4. Linked'
  BY <1>1, <1>3 DEF Inv, Linked, SignedIn, user, client
<1>5. /\ \/ joins'[c] = joins[c] \ {j}
         \/ \E k : joins'[c] = (joins[c] \ {j}) \cup {k}
      /\ \A i \in joins'[c] : i.at # "access" => i.rid \in Accessible(conn[c].scopes)
  <2>1. CASE joins' = [joins EXCEPT ![c] = joins[c] \ {j}]
    BY <1>0, <2>1 DEF Sound
  <2>2. ASSUME NEW at \in Place, at # "access" => j.rid \in Accessible(conn[c].scopes),
               joins' = [joins EXCEPT ![c] = (joins[c] \ {j}) \cup {[j EXCEPT !.at = at]}]
        PROVE  /\ \E k : joins'[c] = (joins[c] \ {j}) \cup {k}
               /\ \A i \in joins'[c] : i.at # "access" => i.rid \in Accessible(conn[c].scopes)
    <3>1. joins'[c] = (joins[c] \ {j}) \cup {[j EXCEPT !.at = at]}
      BY <1>0, <2>2
    <3>2. [j EXCEPT !.at = at].at = at /\ [j EXCEPT !.at = at].rid = j.rid
      BY <1>0 DEF Joins
    <3>3. QED
      BY <1>0, <2>2, <3>1, <3>2 DEF Sound
  <2>3. QED
    BY <2>1, <2>2
<1>6. Sound(c)'
  <2>1. rooms \subseteq Accessible(conn[c].scopes)
    BY <1>0 DEF Sound
  <2>2. QED
    BY <1>0, <1>3, <1>5, <2>1 DEF Sound
<1>7. /\ UNCHANGED <<active, service, selects, sent, link>>
  BY DEF user, client
<1>8. QED
  BY <1>1, <1>2, <1>4, <1>5, <1>6, <1>7, SocketStep

LEMMA AllowedStep ==
  ASSUME Inv, NEW c \in Conns, NEW j \in joins[c], JoinAllowed(c, j)
  PROVE  Inv'
<1> DEFINE rooms == IF j.prev = None \/ conn[c].state # "open" THEN conn[c].rooms
                    ELSE conn[c].rooms \ {j.prev}
<1>0. /\ conn[c] \in Sockets /\ joins[c] \subseteq Joins /\ j \in Joins /\ Sound(c)
      /\ conn \in [Conns -> Sockets] /\ joins \in [Conns -> SUBSET Joins]
  BY DEF Inv, TypeOK, Sockets, Joins
<1>1. rooms \in SUBSET Restaurants /\ conn[c].joined \in Restaurants \cup {None}
  BY <1>0 DEF Sockets
<1>2. conn' = [conn EXCEPT ![c] = [conn[c] EXCEPT !.rooms = rooms, !.joined = conn[c].joined]]
  BY <1>0 DEF JoinAllowed, Leaves, Sockets
<1>3. joins' = [joins EXCEPT ![c] = (joins[c] \ {j}) \cup {[j EXCEPT !.at = "join"]}]
  BY <1>0 DEF JoinAllowed, Moves
<1>4. "overlap" \notin lost' => Steady(c)'
  <2> SUFFICES ASSUME "overlap" \notin lost' PROVE Steady(c)'
    OBVIOUS
  <2>1. joins[c] = {j} /\ Steady(c)
    BY <1>0 DEF JoinAllowed, Sound, Steady
  <2>2. /\ joins'[c] = {[j EXCEPT !.at = "join"]}
        /\ conn'[c].state = conn[c].state /\ conn'[c].joined = conn[c].joined
        /\ conn'[c].rooms = rooms
    BY <1>0, <1>1, <1>2, <1>3, <2>1 DEF Sockets
  <2>3. [j EXCEPT !.at = "join"].at = "join" /\ [j EXCEPT !.at = "join"].prev = j.prev
    BY <1>0 DEF Joins
  <2>4. conn[c].state = "open" => rooms = {}
    BY <2>1 DEF Steady, JoinAllowed
  <2> HIDE DEF rooms
  <2>5. QED
    BY <2>1, <2>2, <2>3, <2>4 DEF Steady
<1>5. /\ rooms \subseteq conn[c].rooms /\ "join" \in Place /\ j.rid \in Accessible(conn[c].scopes)
      /\ UNCHANGED <<user, client, sent, lost, selects>>
  BY DEF JoinAllowed, Place
<1>6. lost' \subseteq {"early", "overlap", "again", "shut", "scope"}
  BY <1>5 DEF Inv, TypeOK
<1> HIDE DEF rooms
<1>7. QED
  BY <1>1, <1>2, <1>3, <1>4, <1>5, <1>6, JoinStep

LEMMA RefusedStep ==
  ASSUME Inv, NEW c \in Conns, NEW j \in joins[c], JoinRefused(c, j)
  PROVE  Inv'
<1>0. /\ conn[c] \in Sockets /\ joins[c] \subseteq Joins /\ j \in Joins /\ Sound(c)
      /\ conn \in [Conns -> Sockets] /\ joins \in [Conns -> SUBSET Joins]
      /\ lost \subseteq {"early", "overlap", "again", "shut", "scope"}
  BY DEF Inv, TypeOK, Sockets, Joins
<1>1. conn[c].rooms \in SUBSET Restaurants /\ conn[c].joined \in Restaurants \cup {None}
  BY <1>0 DEF Sockets
<1>2. /\ conn' = [conn EXCEPT ![c] = [conn[c] EXCEPT !.rooms = conn[c].rooms,
                                                   !.joined = conn[c].joined]]
  BY <1>0 DEF JoinRefused, Sockets
<1>3. joins' = [joins EXCEPT ![c] = joins[c] \ {j}] /\ UNCHANGED <<user, client, sent, selects>>
  BY <1>0 DEF JoinRefused
<1>4. "overlap" \notin lost' => Steady(c)'
  <2> SUFFICES ASSUME "overlap" \notin lost' PROVE Steady(c)'
    OBVIOUS
  <2>1. joins[c] = {j} /\ Steady(c) /\ j.at = "access"
    BY <1>0 DEF JoinRefused, Sound, Steady
  <2>2. joins'[c] = {} /\ conn'[c] = conn[c]
    BY <1>0, <1>3, <2>1 DEF JoinRefused
  <2>3. QED
    BY <2>1, <2>2 DEF Steady
<1>5. QED
  BY <1>0, <1>1, <1>2, <1>3, <1>4, JoinStep DEF JoinRefused

LEMMA RoomStep ==
  ASSUME Inv, NEW c \in Conns, NEW j \in joins[c], JoinRoom(c, j)
  PROVE  Inv'
<1> DEFINE rooms == IF conn[c].state = "open" THEN conn[c].rooms \cup {j.rid}
                    ELSE conn[c].rooms
<1>0. /\ conn[c] \in Sockets /\ joins[c] \subseteq Joins /\ j \in Joins /\ Sound(c)
      /\ conn \in [Conns -> Sockets] /\ joins \in [Conns -> SUBSET Joins]
      /\ lost \subseteq {"early", "overlap", "again", "shut", "scope"}
  BY DEF Inv, TypeOK, Sockets, Joins
<1>1. rooms \in SUBSET Restaurants /\ conn[c].joined \in Restaurants \cup {None}
  BY <1>0 DEF Sockets, Joins
<1>2. conn' = [conn EXCEPT ![c] = [conn[c] EXCEPT !.rooms = rooms, !.joined = conn[c].joined]]
  BY <1>0 DEF JoinRoom, Sockets
<1>3. joins' = [joins EXCEPT ![c] = (joins[c] \ {j}) \cup {[j EXCEPT !.at = "joined"]}]
  BY <1>0 DEF JoinRoom, Moves
<1>4. "overlap" \notin lost' => Steady(c)'
  <2> SUFFICES ASSUME "overlap" \notin lost' PROVE Steady(c)'
    OBVIOUS
  <2>1. joins[c] = {j} /\ Steady(c)
    BY <1>0 DEF JoinRoom, Sound, Steady
  <2>2. /\ joins'[c] = {[j EXCEPT !.at = "joined"]}
        /\ conn'[c].state = conn[c].state /\ conn'[c].joined = conn[c].joined
        /\ conn'[c].rooms = rooms
    BY <1>0, <1>1, <1>2, <1>3, <2>1 DEF Sockets
  <2>3. /\ [j EXCEPT !.at = "joined"].at = "joined"
        /\ [j EXCEPT !.at = "joined"].prev = j.prev /\ [j EXCEPT !.at = "joined"].rid = j.rid
    BY <1>0 DEF Joins
  <2>4. conn[c].state = "open" => rooms = {j.rid}
    BY <2>1 DEF Steady, JoinRoom
  <2> HIDE DEF rooms
  <2>5. QED
    BY <2>1, <2>2, <2>3, <2>4 DEF Steady
<1>5. /\ rooms \subseteq conn[c].rooms \cup {j.rid} /\ "joined" \in Place
      /\ j.at = "join" /\ j.rid \in Accessible(conn[c].scopes)
      /\ UNCHANGED <<user, client, sent, lost, selects>>
  BY <1>0 DEF JoinRoom, Place, Sound
<1> HIDE DEF rooms
<1>6. QED
  BY <1>0, <1>1, <1>2, <1>3, <1>4, <1>5, JoinStep

LEMMA RememberedStep ==
  ASSUME Inv, NEW c \in Conns, NEW j \in joins[c], JoinRemembered(c, j)
  PROVE  Inv'
<1>0. /\ conn[c] \in Sockets /\ joins[c] \subseteq Joins /\ j \in Joins /\ Sound(c)
      /\ conn \in [Conns -> Sockets] /\ joins \in [Conns -> SUBSET Joins]
      /\ lost \subseteq {"early", "overlap", "again", "shut", "scope"}
  BY DEF Inv, TypeOK, Sockets, Joins
<1>1. conn[c].rooms \in SUBSET Restaurants /\ j.rid \in Restaurants
  BY <1>0 DEF Sockets, Joins
<1>2. conn' = [conn EXCEPT ![c] = [conn[c] EXCEPT !.rooms = conn[c].rooms, !.joined = j.rid]]
  BY <1>0 DEF JoinRemembered, Sockets
<1>3. joins' = [joins EXCEPT ![c] = joins[c] \ {j}]
  BY <1>0 DEF JoinRemembered
<1>4. "overlap" \notin lost' => Steady(c)'
  <2> SUFFICES ASSUME "overlap" \notin lost' PROVE Steady(c)'
    OBVIOUS
  <2>1. joins[c] = {j} /\ Steady(c)
    BY <1>0 DEF JoinRemembered, Sound, Steady
  <2>2. /\ joins'[c] = {} /\ conn'[c].state = conn[c].state
        /\ conn'[c].joined = j.rid /\ conn'[c].rooms = conn[c].rooms
    BY <1>0, <1>2, <1>3, <2>1 DEF Sockets
  <2>3. /\ conn[c].state = "open" => conn[c].rooms = {j.rid}
        /\ {j.rid} \ {None} = {j.rid}
    BY <1>1, <2>1, RealtimeAssumption DEF Steady, JoinRemembered
  <2>4. QED
    BY <2>2, <2>3 DEF Steady
<1>5. UNCHANGED <<user, client, sent, lost, selects>>
  BY DEF JoinRemembered
<1>6. QED
  BY <1>0, <1>1, <1>2, <1>3, <1>4, <1>5, JoinStep

\* A join arrives: at an open socket, and perhaps while another is in flight.
LEMMA ArrivesStep ==
  ASSUME Inv, NEW c \in Conns, JoinArrives(c)
  PROVE  Inv'
<1> DEFINE r == Head(sent[c])
           j == [n |-> Free(c), rid |-> r, prev |-> conn[c].joined, at |-> "access"]
           goes == conn[c].auth /\ conn[c].joined # r
<1>0. /\ conn[c] \in Sockets /\ joins[c] \subseteq Joins /\ Sound(c) /\ Fits(c)
      /\ conn \in [Conns -> Sockets] /\ joins \in [Conns -> SUBSET Joins]
      /\ sent \in [Conns -> Seq(Restaurants)] /\ sent[c] # <<>>
      /\ conn[c].state = "open"
      /\ lost \subseteq {"early", "overlap", "again", "shut", "scope"}
  BY DEF Inv, TypeOK, Sockets, Joins, JoinArrives
<1>1. j \in Joins /\ j.at = "access" /\ j.prev = conn[c].joined
  <2>1. Free(c) \in 1 .. MaxSelects
    BY <1>0, FreeNumber DEF Inv
  <2>2. r \in Restaurants
    BY <1>0
  <2>3. QED
    BY <1>0, <2>1, <2>2 DEF Joins, Sockets, Place
<1>2. /\ UNCHANGED <<user, client, conn, selects>>
      /\ sent' = [sent EXCEPT ![c] = Tail(sent[c])]
      /\ joins' = IF goes THEN [joins EXCEPT ![c] = joins[c] \cup {j}] ELSE joins
      /\ lost' = lost \cup {why \in {"early"} : ~conn[c].auth}
                      \cup {why \in {"overlap"} : joins[c] # {}}
  BY DEF JoinArrives
<1> HIDE DEF j, r
<1>3. /\ sent' \in [Conns -> Seq(Restaurants)] /\ joins' \in [Conns -> SUBSET Joins]
      /\ sent'[c] = Tail(sent[c]) /\ joins'[c] = IF goes THEN joins[c] \cup {j} ELSE joins[c]
      /\ \A d \in Conns \ {c} : sent'[d] = sent[d] /\ joins'[d] = joins[d]
  <2>1. Tail(sent[c]) \in Seq(Restaurants)
    BY <1>0
  <2>2. QED
    BY <1>0, <1>1, <1>2, <2>1
<1>4. /\ lost \subseteq lost' /\ lost' \subseteq {"early", "overlap", "again", "shut", "scope"}
      /\ "overlap" \notin lost' => joins[c] = {}
  BY <1>0, <1>2
<1>5. TypeOK'
  BY <1>2, <1>3, <1>4 DEF Inv, TypeOK, Joins, user, client
<1>6. Linked'
  BY <1>2 DEF Inv, Linked, SignedIn, user, client
<1>7. Sound(c)'
  <2>1. conn'[c] = conn[c] /\ (joins'[c] # {} => conn[c].auth)
    BY <1>0, <1>2, <1>3 DEF Sound
  <2>2. \A i \in joins'[c] : i.at # "access" => i.rid \in Accessible(conn[c].scopes)
    BY <1>0, <1>1, <1>3 DEF Sound
  <2>3. ASSUME "overlap" \notin lost' PROVE Steady(c)'
    <3>1. joins[c] = {} /\ Steady(c)
      BY <1>0, <1>4, <2>3 DEF Sound
    <3>2. joins'[c] = {} \/ joins'[c] = {j}
      BY <1>3, <3>1
    <3>3. conn[c].rooms = {conn[c].joined} \ {None}
      BY <1>0, <3>1 DEF Steady
    <3>4. QED
      BY <1>1, <2>1, <3>2, <3>3 DEF Steady
  <2>4. QED
    BY <1>0, <2>1, <2>2, <2>3 DEF Sound
<1>8. Fits(c)'
  <2>1. /\ IsFiniteSet(joins[c]) /\ IsFiniteSet(joins'[c])
        /\ Cardinality(joins[c]) \in Nat /\ Cardinality(joins'[c]) \in Nat
        /\ Cardinality(joins'[c]) <= Cardinality(joins[c]) + 1
    <3>1. IsFiniteSet(joins[c]) /\ Cardinality(joins[c]) \in Nat
      BY <1>0, FS_CardinalityType DEF Fits
    <3>2. /\ IsFiniteSet(joins[c] \cup {j})
          /\ \/ Cardinality(joins[c] \cup {j}) = Cardinality(joins[c])
             \/ Cardinality(joins[c] \cup {j}) = Cardinality(joins[c]) + 1
      BY <3>1, FS_AddElement
    <3>3. joins'[c] = joins[c] \/ joins'[c] = joins[c] \cup {j}
      BY <1>3, Zenon
    <3> DEFINE more == joins[c] \cup {j}
               next == joins'[c]
    <3> HIDE DEF more, next
    <3>4. IsFiniteSet(more) /\ (Cardinality(more) = Cardinality(joins[c])
                                \/ Cardinality(more) = Cardinality(joins[c]) + 1)
      BY <3>2 DEF more
    <3>5. next = joins[c] \/ next = more
      BY <3>3 DEF next, more
    <3>6. IsFiniteSet(next) /\ Cardinality(next) \in Nat
          /\ Cardinality(next) <= Cardinality(joins[c]) + 1
      BY <3>1, <3>4, <3>5
    <3>7. QED
      BY <3>1, <3>6 DEF next
  <2>2. /\ Len(sent[c]) \in Nat /\ Len(sent'[c]) = Len(sent[c]) - 1 /\ Len(link.wait) \in Nat
    BY <1>0, <1>3, SocketFields DEF Inv
  <2>3. Owed \in {0, 1} /\ selects \in Nat
    BY SocketFields DEF Inv
  <2>4. Owed' = Owed /\ selects' = selects /\ link' = link
    BY <1>2 DEF Owed, user, client
  <2>5. Cardinality(joins'[c]) + Len(sent'[c]) + Len(link.wait) + Owed <= selects
    BY <1>0, <2>1, <2>2, <2>3 DEF Fits
  <2>6. QED
    BY <2>1, <2>4, <2>5 DEF Fits
<1>9. ASSUME NEW d \in Conns \ {c} PROVE Fits(d)' /\ Sound(d)'
  <2>1. conn'[d] = conn[d] /\ UNCHANGED <<link, selects>> /\ Owed' = Owed
    BY <1>2 DEF user, client, Owed
  <2>2. QED
    BY <1>3, <1>4, <2>1, SoundFrame DEF Inv, Fits
<1>10. QED
  BY <1>5, <1>6, <1>7, <1>8, <1>9 DEF Inv

-----------------------------------------------------------------------------
(* The steps of the terminal                                               *)

\* A step that leaves the gateway alone.
LEMMA TerminalStep ==
  ASSUME Inv, TypeOK', UNCHANGED <<service, link, sent, conn, joins, lost>>,
         ~SignedIn' => active' = None,
         Owed' - Owed <= selects' - selects
  PROVE  Inv'
<1>1. Linked'
  BY DEF Inv, Linked
<1>2. ASSUME NEW c \in Conns PROVE Fits(c)' /\ Sound(c)'
  BY SoundFrame, FitsFrame DEF Inv
<1>3. QED
  BY <1>1, <1>2 DEF Inv

LEMMA UserStep ==
  ASSUME Inv,
         \/ \E s \in Sessions : SignIn(s) \/ Revoke(s)
         \/ SignOut \/ RefreshToken
         \/ (\E s \in Grants : Regrant(s)) \/ (\E r \in Restaurants : Select(r))
  PROVE  Inv'
<1>0. /\ TypeOK /\ Linked /\ selects \in Nat /\ Owed \in {0, 1} /\ Owed' \in {0, 1}
      /\ None \notin Sessions /\ MaxSelects \in Nat
      /\ grant \in Scopes /\ NoScopes \in Scopes
  BY RealtimeAssumption DEF Inv, TypeOK, Owed, NoScopes, Scopes
<1>1. ASSUME NEW s \in Sessions, SignIn(s) PROVE Inv'
  <2>1. TypeOK' /\ Owed' = Owed /\ SignedIn' /\ selects' = selects
    BY <1>0, <1>1 DEF SignIn, TypeOK, Owed, SignedIn, client
  <2>2. QED
    BY <1>0, <1>1, <2>1, TerminalStep DEF SignIn, client
<1>2. ASSUME NEW s \in Sessions, Revoke(s) PROVE Inv'
  <2>1. TypeOK' /\ Owed' = Owed /\ selects' = selects /\ UNCHANGED <<session, active>>
    BY <1>0, <1>2 DEF Revoke, TypeOK, Owed, client
  <2>2. QED
    BY <1>0, <1>2, <2>1, TerminalStep DEF Revoke, client, Linked, SignedIn
<1>3. CASE SignOut
  <2>1. TypeOK' /\ Owed' = 0 /\ selects' = selects /\ active' = None
    BY <1>0, <1>3 DEF SignOut, TypeOK, Owed, client
  <2>2. QED
    BY <1>0, <1>3, <2>1, TerminalStep DEF SignOut, client
<1>4. CASE RefreshToken
  <2>1. TypeOK' /\ Owed' = Owed /\ selects' = selects /\ session'.id = session.id /\ active' = active
    BY <1>0, <1>4 DEF RefreshToken, TypeOK, Owed, client
  <2>2. QED
    BY <1>0, <1>4, <2>1, TerminalStep DEF RefreshToken, client, Linked, SignedIn
<1>5. ASSUME NEW s \in Grants, Regrant(s) PROVE Inv'
  <2>1. TypeOK' /\ Owed' = Owed /\ selects' = selects /\ UNCHANGED <<session, active>>
    BY <1>0, <1>5 DEF Regrant, TypeOK, Owed, client
  <2>2. QED
    BY <1>0, <1>5, <2>1, TerminalStep DEF Regrant, client, Linked, SignedIn
<1>6. ASSUME NEW r \in Restaurants, Select(r) PROVE Inv'
  <2>1. TypeOK' /\ selects' = selects + 1 /\ SignedIn'
    BY <1>0, <1>6 DEF Select, TypeOK, SignedIn, client
  <2>2. Owed' - Owed <= selects' - selects
    <3> DEFINE o == Owed
               oo == Owed'
    <3> HIDE DEF o, oo
    <3>2. o \in {0, 1} /\ oo \in {0, 1} /\ selects \in Nat /\ selects' = selects + 1
      BY <1>0, <2>1 DEF o, oo
    <3>3. oo - o <= selects' - selects
      BY <3>2
    <3>4. QED
      BY <3>3 DEF o, oo
  <2>3. QED
    BY <1>6, <2>1, <2>2, TerminalStep DEF Select, client
<1>7. QED
  BY <1>1, <1>2, <1>3, <1>4, <1>5, <1>6

LEMMA TeardownStep ==
  ASSUME Inv, active = None, Teardown, UNCHANGED <<user, conn, joins, lost, selects>>
  PROVE  Inv'
<1>1. TypeOK' /\ link' = NoLink
  BY DEF Inv, TypeOK, Teardown, Torn, NoLink, user
<1>2. Linked'
  BY <1>1 DEF Inv, Linked, SignedIn, NoLink, user
<1>3. Owed' = 0 /\ Owed = 0 /\ selects' = selects /\ selects \in Nat
  BY DEF Owed, user, Inv, TypeOK
<1>4. Owed' - Owed <= selects' - selects
  BY <1>3
<1>5. ASSUME NEW c \in Conns PROVE Fits(c)' /\ Sound(c)'
  <2>1. link'.wait = <<>> /\ sent' = sent
    BY <1>1 DEF NoLink, Teardown
  <2>2. QED
    BY <1>1, <1>4, <2>1, SoundFrame, FitsFrame DEF Inv
<1>6. QED
  BY <1>1, <1>2, <1>5 DEF Inv

\* The service asks for the selected restaurant: one more message, for a
\* selection that was owed one.
LEMMA FollowStep ==
  ASSUME Inv, active # None, ~service.connected \/ service.joined # active, Follow,
         UNCHANGED <<user, conn, joins, lost, selects>>
  PROVE  Inv'
<1> DEFINE open == IF service.connected THEN link ELSE [NoLink EXCEPT !.state = "connecting"]
           Links == [conn : Conns \cup {None}, state : {"none", "connecting", "up", "dead"},
                     wait : Seq(Restaurants)]
<1>0. /\ link \in Links /\ sent \in [Conns -> Seq(Restaurants)]
      /\ active \in Restaurants /\ Linked /\ selects \in Nat
      /\ service' = [connected |-> TRUE, joined |-> active]
  BY DEF Inv, TypeOK, Follow
<1>1. /\ open \in Links /\ (open.wait = link.wait \/ open.wait = <<>>)
      /\ open.state = "up" => open = link
  <2>1. NoLink \in Links
    BY DEF NoLink
  <2>2. CASE service.connected
    BY <1>0, <2>2
  <2>3. CASE ~service.connected
    <3>1. open = [NoLink EXCEPT !.state = "connecting"]
      BY <2>3
    <3>2. open.state = "connecting" /\ open.wait = <<>> /\ open \in Links
      BY <2>1, <3>1 DEF NoLink
    <3>3. QED
      BY <3>2
  <2>4. QED
    BY <2>2, <2>3
<1>2. Owed = 1 /\ Owed' = 0 /\ selects' = selects
  BY <1>0 DEF Owed, user
<1>3. \/ /\ open.state = "up" /\ link' = link
         /\ sent' = [sent EXCEPT ![link.conn] = Append(sent[link.conn], active)]
      \/ /\ open.state # "up" /\ sent' = sent
         /\ link' = [open EXCEPT !.wait = Append(open.wait, active)]
  BY <1>1 DEF Follow
<1> HIDE DEF open
<1>4. ASSUME link' \in Links, sent' \in [Conns -> Seq(Restaurants)],
             \A c \in Conns : /\ conn[c].state = "unused" => sent'[c] = sent[c]
                              /\ Len(sent'[c]) + Len(link'.wait)
                                   <= Len(sent[c]) + Len(link.wait) + 1,
             link'.state = "up" => link'.conn = link.conn /\ link.state = "up"
      PROVE  Inv'
  <2>1. TypeOK'
    BY <1>0, <1>4 DEF Inv, TypeOK, user
  <2>2. Linked'
    BY <1>0, <1>4 DEF Linked, SignedIn, user
  <2>3. ASSUME NEW c \in Conns PROVE Sound(c)'
    <3>1. Sound(c) /\ conn'[c] = conn[c] /\ joins'[c] = joins[c] /\ lost' = lost
      BY DEF Inv
    <3>2. Steady(c) => Steady(c)'
      BY <3>1 DEF Steady
    <3>3. conn[c].state = "unused" => sent'[c] = sent[c]
      BY <1>4
    <3>4. QED
      BY <3>1, <3>2, <3>3 DEF Sound
  <2>4. ASSUME NEW c \in Conns PROVE Fits(c)'
    <3>1. IsFiniteSet(joins[c]) /\ Cardinality(joins[c]) \in Nat
      BY FS_CardinalityType DEF Inv, Fits
    <3>2. /\ Len(sent[c]) \in Nat /\ Len(sent'[c]) \in Nat
          /\ Len(link.wait) \in Nat /\ Len(link'.wait) \in Nat
      BY <1>0, <1>4
    <3>3. Cardinality(joins[c]) + Len(sent[c]) + Len(link.wait) + 1 <= selects
      BY <1>2 DEF Inv, Fits
    <3>4. Len(sent'[c]) + Len(link'.wait) <= Len(sent[c]) + Len(link.wait) + 1
      BY <1>4
    <3>5. Cardinality(joins[c]) + Len(sent'[c]) + Len(link'.wait) + 0 <= selects
      <4> DEFINE a == Cardinality(joins[c])
                 b == Len(sent[c])
                 d == Len(link.wait)
                 bb == Len(sent'[c])
                 dd == Len(link'.wait)
      <4>1. /\ a \in Nat /\ b \in Nat /\ d \in Nat /\ bb \in Nat /\ dd \in Nat
            /\ selects \in Nat /\ a + b + d + 1 <= selects /\ bb + dd <= b + d + 1
        BY <1>0, <3>1, <3>2, <3>3, <3>4
      <4> HIDE DEF a, b, d, bb, dd
      <4>2. a + bb + dd + 0 <= selects
        BY <4>1
      <4>3. QED
        BY <4>2 DEF a, bb, dd
    <3>6. QED
      BY <1>2, <3>1, <3>5 DEF Fits
  <2>5. QED
    BY <2>1, <2>2, <2>3, <2>4 DEF Inv
<1>5. CASE /\ open.state = "up" /\ link' = link
           /\ sent' = [sent EXCEPT ![link.conn] = Append(sent[link.conn], active)]
  <2>1. link.conn \in Conns /\ conn[link.conn].state = "open" /\ link.state = "up"
    BY <1>0, <1>1, <1>5 DEF Linked
  <2>2. /\ Append(sent[link.conn], active) \in Seq(Restaurants)
        /\ Len(Append(sent[link.conn], active)) = Len(sent[link.conn]) + 1
        /\ Len(link.wait) \in Nat /\ \A c \in Conns : Len(sent[c]) \in Nat
    BY <1>0, <2>1
  <2>3. /\ sent' \in [Conns -> Seq(Restaurants)] /\ link' \in Links
        /\ \A c \in Conns : sent'[c] = IF c = link.conn THEN Append(sent[c], active) ELSE sent[c]
    BY <1>0, <1>5, <2>1, <2>2
  <2>4. ASSUME NEW c \in Conns
        PROVE  /\ conn[c].state = "unused" => sent'[c] = sent[c]
               /\ Len(sent'[c]) + Len(link'.wait) <= Len(sent[c]) + Len(link.wait) + 1
    BY <1>5, <2>1, <2>2, <2>3
  <2>5. QED
    BY <1>4, <1>5, <2>1, <2>3, <2>4
<1>6. CASE /\ open.state # "up" /\ sent' = sent
           /\ link' = [open EXCEPT !.wait = Append(open.wait, active)]
  <2>1. /\ Append(open.wait, active) \in Seq(Restaurants)
        /\ Len(Append(open.wait, active)) = Len(open.wait) + 1
        /\ Len(open.wait) \in Nat /\ Len(link.wait) \in Nat /\ Len(open.wait) <= Len(link.wait)
    BY <1>0, <1>1
  <2>2. /\ link' \in Links /\ link'.wait = Append(open.wait, active)
        /\ link'.state = open.state
    BY <1>1, <1>6, <2>1
  <2>3. ASSUME NEW c \in Conns
        PROVE  Len(sent'[c]) + Len(link'.wait) <= Len(sent[c]) + Len(link.wait) + 1
    <3>1. /\ Len(sent[c]) \in Nat /\ Len(link.wait) \in Nat /\ Len(open.wait) \in Nat
          /\ Len(open.wait) <= Len(link.wait)
      BY <1>0, <2>1
    <3>2. sent'[c] = sent[c] /\ Len(link'.wait) = Len(open.wait) + 1
      BY <1>6, <2>1, <2>2
    <3> DEFINE b == Len(sent[c])
               d == Len(link.wait)
               w == Len(open.wait)
    <3>3. b \in Nat /\ d \in Nat /\ w \in Nat /\ w <= d
      BY <3>1
    <3> HIDE DEF b, d, w
    <3>4. b + (w + 1) <= b + d + 1
      BY <3>3
    <3>5. QED
      BY <3>2, <3>4 DEF b, d, w
  <2>4. QED
    BY <1>0, <1>4, <1>6, <2>2, <2>3
<1>7. QED
  BY <1>3, <1>5, <1>6

LEMMA EffectStep == ASSUME Inv, Effect PROVE Inv'
<1>1. CASE service.connected /\ (~SignedIn \/ active = None) /\ Teardown
  BY <1>1, TeardownStep DEF Effect, Inv, Linked
<1>2. CASE /\ active # None /\ Follow
           /\ ~service.connected \/ service.joined # active
  BY <1>2, FollowStep DEF Effect
<1>3. QED
  BY <1>1, <1>2 DEF Effect

\* A connection that is made carries what waited for it.
LEMMA ConnectStep ==
  ASSUME Inv, NEW c \in Conns, Connect(c)
  PROVE  Inv'
<1> DEFINE new == [NewConn EXCEPT !.state = "open", !.session = session.id,
                                  !.scopes = session.scopes]
<1>0. /\ conn \in [Conns -> Sockets] /\ sent \in [Conns -> Seq(Restaurants)]
      /\ link.wait \in Seq(Restaurants)
      /\ session \in [id : Sessions \cup {None}, scopes : Scopes]
      /\ conn[c] = NewConn /\ sent[c] = <<>> /\ joins[c] = {}
      /\ Sound(c) /\ Fits(c)
  BY DEF Inv, TypeOK, Sockets, Connect, Unused, Sound
<1>1. /\ new \in Sockets /\ new.state = "open" /\ new.rooms = {}
      /\ new.joined = None
  BY <1>0 DEF NewConn, Sockets
<1>2. /\ conn' = [conn EXCEPT ![c] = new] /\ sent' = [sent EXCEPT ![c] = link.wait]
      /\ link' = [conn |-> c, state |-> "up", wait |-> <<>>]
      /\ UNCHANGED <<user, service, joins, lost, selects>>
  BY <1>0 DEF Connect, Sockets
<1> HIDE DEF new
<1>3. /\ conn' \in [Conns -> Sockets] /\ sent' \in [Conns -> Seq(Restaurants)]
      /\ conn'[c] = new /\ sent'[c] = link.wait
      /\ \A d \in Conns \ {c} : conn'[d] = conn[d] /\ sent'[d] = sent[d]
  BY <1>0, <1>1, <1>2
<1>4. TypeOK'
  <2>1. link' \in [conn : Conns \cup {None}, state : {"none", "connecting", "up", "dead"},
                   wait : Seq(Restaurants)]
    BY <1>2
  <2>2. QED
    BY <1>2, <1>3, <2>1 DEF Inv, TypeOK, Sockets, user
<1>5. Linked'
  BY <1>1, <1>2, <1>3 DEF Inv, Linked, SignedIn, user
<1>6. Owed' = Owed /\ selects' = selects /\ link'.wait = <<>> /\ joins' = joins
  BY <1>2 DEF Owed, user
<1>7. Sound(c)' /\ Fits(c)'
  <2>1. joins'[c] = {}
    BY <1>0, <1>6
  <2>2. Sound(c)'
    BY <1>1, <1>3, <2>1 DEF Sound, Steady
  <2>3. /\ Len(sent[c]) = 0 /\ Len(link'.wait) = 0
        /\ Cardinality(joins[c]) \in Nat /\ Len(link.wait) \in Nat
        /\ Owed \in {0, 1} /\ selects \in Nat
    BY <1>0, <1>6, FS_CardinalityType, SocketFields DEF Fits, Inv
  <2> DEFINE a == Cardinality(joins[c])
             w == Len(link.wait)
             o == Owed
  <2>4. a \in Nat /\ w \in Nat /\ o \in Nat /\ selects \in Nat /\ a + 0 + w + o <= selects
    BY <1>0, <2>3 DEF Fits
  <2> HIDE DEF a, w, o
  <2>5. a + w + 0 + o <= selects
    BY <2>4
  <2>6. QED
    BY <1>0, <1>3, <1>6, <2>2, <2>3, <2>5 DEF Fits, a, w, o
<1>8. ASSUME NEW d \in Conns \ {c} PROVE Fits(d)' /\ Sound(d)'
  <2>1. Owed' - Owed <= selects' - selects
    <3>1. Owed \in {0, 1} /\ selects \in Nat
      BY SocketFields DEF Inv
    <3>2. QED
      BY <1>6, <3>1
  <2>2. QED
    BY <1>2, <1>3, <1>4, <1>6, <2>1, SoundFrame, FitsFrame DEF Inv
<1>9. QED
  BY <1>4, <1>5, <1>7, <1>8 DEF Inv

LEMMA NetworkStep ==
  ASSUME Inv, NEW c \in Conns, Ends(c) \/ Break(c) \/ Reject(c) \/ Expire(c)
  PROVE  Inv'
<1>0. lost \subseteq {"early", "overlap", "again", "shut", "scope"}
  BY DEF Inv, TypeOK
<1>1. CASE Ends(c)
  BY <1>0, <1>1, ClosedStep DEF Ends, client
<1>2. CASE Break(c)
  <2>1. lost' \subseteq {"early", "overlap", "again", "shut", "scope"} /\ lost \subseteq lost'
    BY <1>0, <1>2 DEF Break
  <2>2. QED
    BY <1>2, <2>1, ClosedStep DEF Break
<1>3. CASE Reject(c)
  BY <1>3, ShutStep DEF Reject
<1>4. CASE Expire(c)
  BY <1>4, ShutStep DEF Expire
<1>5. QED
  BY <1>1, <1>2, <1>3, <1>4

-----------------------------------------------------------------------------
(* The invariant                                                           *)

LEMMA InitInv == Init => Inv
<1> SUFFICES ASSUME Init PROVE Inv
  OBVIOUS
<1>1. /\ \A c \in Conns : conn[c] = NewConn /\ sent[c] = <<>> /\ joins[c] = {}
      /\ link = NoLink /\ active = None /\ service = Torn /\ selects = 0 /\ lost = {}
      /\ ~SignedIn
  BY DEF Init, SignedIn
<1>2. TypeOK
  <2>1. NewConn \in Sockets
    BY DEF NewConn, Sockets, NoScopes, Scopes
  <2>2. /\ conn \in [Conns -> Sockets] /\ sent \in [Conns -> Seq(Restaurants)]
        /\ joins \in [Conns -> SUBSET Joins]
    BY <2>1 DEF Init
  <2>3. selects \in 0 .. MaxSelects
    BY <1>1, RealtimeAssumption
  <2>4. QED
    BY <2>2, <2>3 DEF Init, TypeOK, Sockets, Joins, Torn, NoLink, NoScopes, Scopes
<1>3. Linked
  BY <1>1 DEF Linked, NoLink
<1>4. ASSUME NEW c \in Conns PROVE Fits(c) /\ Sound(c)
  <2>1. Sound(c)
    <3>1. /\ conn[c] = NewConn /\ sent[c] = <<>> /\ joins[c] = {}
          /\ NewConn.state = "unused" /\ NewConn.rooms = {}
      BY <1>1 DEF NewConn
    <3>2. Steady(c)
      BY <3>1 DEF Steady
    <3>3. QED
      BY <3>1, <3>2 DEF Sound
  <2>2. /\ IsFiniteSet(joins[c]) /\ Cardinality(joins[c]) = 0 /\ Len(sent[c]) = 0
        /\ Len(link.wait) = 0 /\ Owed = 0 /\ selects = 0
    <3>1. joins[c] = {} /\ sent[c] = <<>> /\ link.wait = <<>> /\ Owed = 0 /\ selects = 0
      BY <1>1 DEF NoLink, Owed
    <3>2. QED
      BY <3>1, FS_EmptySet
  <2>3. QED
    BY <2>1, <2>2 DEF Fits
<1>5. QED
  BY <1>2, <1>3, <1>4 DEF Inv

LEMMA NextInv == Inv /\ [Next]_vars => Inv'
<1>1. ASSUME Inv, Next PROVE Inv'
  <2>1. ASSUME NEW c \in Conns, Join(c) PROVE Inv'
    BY <1>1, <2>1, AllowedStep, RefusedStep, RoomStep, RememberedStep DEF Join
  <2>2. QED
    BY <1>1, <2>1, UserStep, EffectStep, ConnectStep, AuthenticateStep, NetworkStep,
       RevalidateStep, ArrivesStep DEF Next
<1>2. ASSUME Inv, UNCHANGED vars PROVE Inv'
  BY <1>2, StutterInv
<1>3. QED
  BY <1>1, <1>2

\* Whatever interleaves at the awaits of the gateway, its sockets are only in
\* rooms they may be in, and know which one as long as joins do not overlap: for
\* any number of restaurants, sessions, connections and selections.
THEOREM RoomsConsistentHolds == Spec => []RoomsConsistent
<1>1. Inv => RoomsConsistent
  <2> SUFFICES ASSUME Inv PROVE RoomsConsistent
    OBVIOUS
  <2>1. OwnRooms
    BY DEF Inv, OwnRooms, Sound
  <2>2. RoomRemembered
    BY DEF Inv, RoomRemembered, Sound, Steady
  <2>3. QED
    BY <2>1, <2>2 DEF Inv, RoomsConsistent
<1>2. Spec => []Inv
  BY InitInv, NextInv, PTL DEF Spec
<1>3. QED
  BY <1>1, <1>2, PTL

\* Tenants do not leak: a connection is in no room that its authenticated token
\* does not give access to, however many joins interleave.
THEOREM OwnRoomsHolds == Spec => []OwnRooms
<1>1. RoomsConsistent => OwnRooms
  BY DEF RoomsConsistent
<1>2. QED
  BY <1>1, RoomsConsistentHolds, PTL
==============================================================================
