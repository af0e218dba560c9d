----------------------- MODULE ConnectionManagerProofs -----------------------
(***************************************************************************)
(* What holds of the WebSocket feed for any number of processes, sockets,  *)
(* attempts and events.                                                    *)
(***************************************************************************)
EXTENDS ConnectionManager, TLAPS

-----------------------------------------------------------------------------
(* Helpers.                                                                *)

LEMMA Places ==
  /\ \A s \in Sockets : HostOf[s] \in Processes /\ ChannelOf[s] \in Migrations
  /\ \A b \in Publishers : /\ HostOf[b] \in Processes /\ ChannelOf[b] \in Migrations
                           /\ NumEvents[b] \in Nat
BY PlacesOK

\* One channel of one process is set, or deleted, and no other changes.
LEMMA ChannelSet ==
  ASSUME TypeOK, NEW p \in Processes, NEW m \in Migrations, NEW sockets,
         connections' = WithChannel(p, m, sockets)
  PROVE  \A q \in Processes : \A k :
           Channel(q, k)' = IF q = p /\ k = m THEN sockets ELSE Channel(q, k)
BY DEF TypeOK, ConnectionsOK, WithChannel, Channel

LEMMA ChannelDeleted ==
  ASSUME TypeOK, NEW p \in Processes, NEW m \in Migrations,
         connections' = WithoutChannel(p, m)
  PROVE  \A q \in Processes : \A k :
           Channel(q, k)' = IF q = p /\ k = m THEN {} ELSE Channel(q, k)
BY DEF TypeOK, ConnectionsOK, WithoutChannel, Channel

LEMMA ChannelType ==
  ASSUME TypeOK, NEW p \in Processes, NEW m
  PROVE  Channel(p, m) \subseteq Sockets
BY DEF TypeOK, ConnectionsOK, Channel

LEMMA WithChannelType ==
  ASSUME TypeOK, NEW p \in Processes, NEW m \in Migrations, NEW sockets \in SUBSET Sockets,
         connections' = WithChannel(p, m, sockets)
  PROVE  ConnectionsOK'
BY DEF TypeOK, ConnectionsOK, WithChannel

LEMMA WithoutChannelType ==
  ASSUME TypeOK, NEW p \in Processes, NEW m, connections' = WithoutChannel(p, m)
  PROVE  ConnectionsOK'
BY DEF TypeOK, ConnectionsOK, WithoutChannel

\* One publisher's record is replaced.
LEMMA PublisherReplaced ==
  ASSUME TypeOK, NEW b \in Publishers, NEW q \in PublisherType,
         publisher' = [publisher EXCEPT ![b] = q]
  PROVE  /\ publisher' \in [Publishers -> PublisherType]
         /\ publisher'[b] = q
         /\ \A c \in Publishers : c # b => publisher'[c] = publisher[c]
BY DEF TypeOK, PublisherType

\* What is left of broadcast()'s loop: one socket fewer, for whatever reason.
OneLess(b, s) ==
  /\ publisher[b].pc = "sending" /\ s \in publisher[b].sockets
  /\ publisher' \in [Publishers -> PublisherType]
  /\ \A c \in Publishers : c # b => publisher'[c] = publisher[c]
  /\ publisher'[b].pc = "sending" /\ publisher'[b].sent = publisher[b].sent
  /\ publisher'[b].sockets = publisher[b].sockets \ {s}
  /\ publisher[b].stale \subseteq publisher'[b].stale
  /\ publisher'[b].stale \subseteq publisher[b].stale \cup {s}

\* The other broadcasts are as good as they were.
LEMMA PublishersKept ==
  ASSUME TypeOK, NEW b \in Publishers, PublisherOK(b)',
         \A c \in Publishers : c # b => publisher'[c] = publisher[c]
  PROVE  \A c \in Publishers : PublisherOK(c)'
BY DEF TypeOK, PublisherOK

LEMMA LoopStep ==
  ASSUME TypeOK, NEW b \in Publishers, NEW s \in Sockets,
         Send(b, s) \/ SendFails(b, s) \/ PassOver(b, s)
  PROVE  /\ OneLess(b, s)
         /\ ~SendFails(b, s) => publisher'[b].stale = publisher[b].stale
         /\ UNCHANGED <<connections, handler, client_state, peer, expecting>>
<1>0. publisher[b] \in PublisherType /\ publisher[b].pc = "sending" /\ s \in publisher[b].sockets
  BY DEF TypeOK, PublisherType, Send, SendFails, PassOver
<1>1. CASE Send(b, s) \/ PassOver(b, s)
  <2> DEFINE q == [publisher[b] EXCEPT !.sockets = @ \ {s}]
  <2>1. q \in PublisherType /\ publisher' = [publisher EXCEPT ![b] = q]
    BY <1>0, <1>1 DEF Send, PassOver, PublisherType
  <2>2. /\ q.pc = "sending" /\ q.sent = publisher[b].sent /\ q.stale = publisher[b].stale
        /\ q.sockets = publisher[b].sockets \ {s}
    BY <1>0 DEF PublisherType
  <2> HIDE DEF q
  <2> QED
    BY <1>0, <1>1, <2>1, <2>2, PublisherReplaced DEF Send, PassOver, OneLess
<1>2. CASE SendFails(b, s)
  <2>1. PICK noticed \in BOOLEAN :
          publisher' = [publisher EXCEPT ![b].sockets = @ \ {s},
                                         ![b].stale = IF noticed THEN @ \cup {s} ELSE @]
    BY <1>2 DEF SendFails
  <2> DEFINE q == [publisher[b] EXCEPT !.sockets = @ \ {s},
                                       !.stale = IF noticed THEN @ \cup {s} ELSE @]
  <2>2. q \in PublisherType
    BY <1>0 DEF PublisherType
  <2>3. publisher' = [publisher EXCEPT ![b] = q]
    BY <2>1 DEF TypeOK
  <2>4. /\ q.pc = "sending" /\ q.sent = publisher[b].sent
        /\ q.sockets = publisher[b].sockets \ {s}
        /\ publisher[b].stale \subseteq q.stale /\ q.stale \subseteq publisher[b].stale \cup {s}
    BY <1>0 DEF PublisherType
  <2> HIDE DEF q
  <2> QED
    BY <1>0, <1>2, <2>2, <2>3, <2>4, PublisherReplaced DEF SendFails, OneLess
<1> QED
  BY <1>1, <1>2

LEMMA LoopEnds ==
  ASSUME TypeOK, NEW b \in Publishers, RemoveStale(b)
  PROVE  /\ publisher[b].pc = "sending" /\ publisher[b].sockets = {}
         /\ publisher' \in [Publishers -> PublisherType]
         /\ \A c \in Publishers : c # b => publisher'[c] = publisher[c]
         /\ publisher'[b].pc = "idle" /\ publisher'[b].sent = publisher[b].sent
         /\ publisher'[b].sockets = {} /\ publisher'[b].stale = {}
         /\ UNCHANGED <<handler, client_state, peer, received, expecting>>
<1> DEFINE q == [publisher[b] EXCEPT !.pc = "idle", !.stale = {}]
<1>0. publisher[b] \in PublisherType /\ publisher[b].sockets = {} /\ publisher[b].pc = "sending"
  BY DEF TypeOK, PublisherType, RemoveStale
<1>1. q \in PublisherType /\ publisher' = [publisher EXCEPT ![b] = q]
  BY <1>0 DEF RemoveStale, PublisherType
<1>2. q.pc = "idle" /\ q.sent = publisher[b].sent /\ q.sockets = {} /\ q.stale = {}
  BY <1>0 DEF PublisherType
<1> HIDE DEF q
<1> QED
  BY <1>0, <1>1, <1>2, PublisherReplaced DEF RemoveStale

LEMMA LoopBegins ==
  ASSUME TypeOK, NEW b \in Publishers, Snapshot(b)
  PROVE  /\ publisher[b].pc = "idle"
         /\ publisher' \in [Publishers -> PublisherType]
         /\ \A c \in Publishers : c # b => publisher'[c] = publisher[c] /\ expecting'[c] = expecting[c]
         /\ publisher'[b].pc = "sending" /\ publisher'[b].sent = publisher[b].sent + 1
         /\ publisher'[b].sent <= NumEvents[b]
         /\ publisher'[b].sockets = Channel(HostOf[b], ChannelOf[b]) /\ publisher'[b].stale = {}
         /\ expecting' \in [Publishers -> SUBSET Sockets]
         /\ expecting'[b] = {s \in Sockets : Subscribed(s, b)}
         /\ UNCHANGED <<connections, handler, client_state, peer, received>>
<1> DEFINE q == [pc |-> "sending", sent |-> publisher[b].sent + 1,
                 sockets |-> Channel(HostOf[b], ChannelOf[b]), stale |-> {}]
<1>1. Channel(HostOf[b], ChannelOf[b]) \subseteq Sockets
  BY Places, ChannelType
<1>2. publisher[b].sent \in Nat /\ publisher[b].sent + 1 <= NumEvents[b]
  BY Places DEF TypeOK, PublisherType, Snapshot
<1>3. q \in PublisherType /\ publisher' = [publisher EXCEPT ![b] = q]
  BY <1>1, <1>2 DEF Snapshot, PublisherType
<1>4. /\ expecting' \in [Publishers -> SUBSET Sockets]
      /\ expecting'[b] = {s \in Sockets : Subscribed(s, b)}
      /\ \A c \in Publishers : c # b => expecting'[c] = expecting[c]
  BY DEF Snapshot, TypeOK
<1>5. /\ q.pc = "sending" /\ q.sent = publisher[b].sent + 1 /\ q.stale = {}
      /\ q.sockets = Channel(HostOf[b], ChannelOf[b])
  OBVIOUS
<1>6. /\ publisher[b].pc = "idle"
      /\ UNCHANGED <<connections, handler, client_state, peer, received>>
  BY DEF Snapshot
<1> HIDE DEF q
<1>7. publisher' \in [Publishers -> PublisherType] /\ publisher'[b] = q
      /\ \A c \in Publishers : c # b => publisher'[c] = publisher[c]
  BY <1>3, PublisherReplaced
<1> QED
  BY <1>2, <1>4, <1>5, <1>6, <1>7

-----------------------------------------------------------------------------
(* Type correctness.                                                       *)

\* Every variable keeps its shape; no broadcast ends before its copy of the sockets
\* is worked off, nor counts a socket both as waiting and as stale.
THEOREM FeedTypeCorrect == Spec => []TypeOK
<1>1. Init => TypeOK
  BY Places DEF Init, TypeOK, IdlePublisher, ConnectionsOK, PublisherType, PublisherOK
<1>2. TypeOK /\ [Next]_vars => TypeOK'
  <2> SUFFICES ASSUME TypeOK, [Next]_vars
               PROVE  TypeOK'
    OBVIOUS
  <2>1. ASSUME NEW s \in Sockets, Accept(s) \/ PeerLeaves(s) \/ ReceiveRaises(s)
        PROVE  TypeOK'
    BY <2>1 DEF Accept, PeerLeaves, ReceiveRaises, TypeOK, ConnectionsOK, PublisherOK
  <2>2. ASSUME NEW s \in Sockets, Register(s)
        PROVE  TypeOK'
    <3>1. Channel(HostOf[s], ChannelOf[s]) \cup {s} \in SUBSET Sockets
      BY Places, ChannelType
    <3>2. ConnectionsOK'
      BY <2>2, <3>1, Places, WithChannelType DEF Register
    <3> QED
      BY <2>2, <3>2 DEF Register, TypeOK, PublisherOK
  <2>3. ASSUME NEW s \in Sockets, Disconnect(s)
        PROVE  TypeOK'
    <3> DEFINE others == Channel(HostOf[s], ChannelOf[s]) \ {s}
    <3>1. others \in SUBSET Sockets
      BY Places, ChannelType
    <3>2. ConnectionsOK'
      BY <2>3, <3>1, Places, WithChannelType, WithoutChannelType DEF Disconnect
    <3> QED
      BY <2>3, <3>2 DEF Disconnect, TypeOK, PublisherOK
  <2>4. ASSUME NEW b \in Publishers, Snapshot(b)
        PROVE  TypeOK'
    <3>1. PublisherOK(b)'
      BY <2>4, LoopBegins DEF TypeOK, PublisherType, PublisherOK
    <3>2. \A c \in Publishers : PublisherOK(c)'
      BY <2>4, <3>1, LoopBegins, PublishersKept
    <3> QED
      BY <2>4, <3>2, LoopBegins DEF TypeOK, ConnectionsOK
  <2>5. ASSUME NEW b \in Publishers, NEW s \in Sockets,
               Send(b, s) \/ SendFails(b, s) \/ PassOver(b, s)
        PROVE  TypeOK'
    <3>1. OneLess(b, s) /\ UNCHANGED <<connections, handler, client_state, peer, expecting>>
      BY <2>5, LoopStep
    <3>2. received' \in [Sockets -> [Publishers -> Seq(Nat)]]
      <4>1. CASE Send(b, s)
        <5>1. Append(received[s][b], publisher[b].sent) \in Seq(Nat)
          BY DEF TypeOK, PublisherType
        <5> QED
          BY <4>1, <5>1 DEF Send, Got, TypeOK
      <4>2. CASE SendFails(b, s) \/ PassOver(b, s)
        BY <4>2 DEF SendFails, PassOver, TypeOK
      <4> QED
        BY <2>5, <4>1, <4>2
    <3>3. PublisherOK(b)'
      BY <3>1 DEF OneLess, TypeOK, PublisherType, PublisherOK
    <3>4. \A c \in Publishers : PublisherOK(c)'
      BY <3>1, <3>3, PublishersKept DEF OneLess
    <3> QED
      BY <3>1, <3>2, <3>4 DEF TypeOK, OneLess, ConnectionsOK
  <2>6. ASSUME NEW b \in Publishers, RemoveStale(b)
        PROVE  TypeOK'
    <3>1. Channel(HostOf[b], ChannelOf[b]) \ publisher[b].stale \in SUBSET Sockets
      BY Places, ChannelType
    <3>2. ConnectionsOK'
      BY <2>6, <3>1, Places, WithChannelType DEF RemoveStale, TypeOK, ConnectionsOK
    <3>3. PublisherOK(b)'
      BY <2>6, LoopEnds DEF TypeOK, PublisherOK
    <3>4. \A c \in Publishers : PublisherOK(c)'
      BY <2>6, <3>3, LoopEnds, PublishersKept
    <3> QED
      BY <2>6, <3>2, <3>4, LoopEnds DEF TypeOK
  <2>7. CASE UNCHANGED vars
    BY <2>7 DEF vars, TypeOK, ConnectionsOK, PublisherOK
  <2> QED
    BY <2>1, <2>2, <2>3, <2>4, <2>5, <2>6, <2>7 DEF Next, BroadcastStep
<1> QED
  BY <1>1, <1>2, PTL DEF Spec

-----------------------------------------------------------------------------
(* Who is in the dicts.                                                    *)

\* A process has only its own sockets, under their own migration, between their
\* registration and the end of their handler.
Registered ==
  \A p \in Processes : \A m : \A s \in Channel(p, m) :
    p = HostOf[s] /\ m = ChannelOf[s] /\ handler[s] \in {"serving", "leaving"}

\* How the channels change in a step.
LEMMA ChannelSteps ==
  ASSUME TypeOK, [Next]_vars, NEW p \in Processes, NEW m
  PROVE  \/ Channel(p, m)' \subseteq Channel(p, m)
         \/ \E s \in Sockets : /\ Register(s) /\ p = HostOf[s] /\ m = ChannelOf[s]
                               /\ Channel(p, m)' = Channel(p, m) \cup {s}
<1>1. ASSUME NEW s \in Sockets, Register(s)
      PROVE  Channel(p, m)' = IF p = HostOf[s] /\ m = ChannelOf[s] THEN Channel(p, m) \cup {s}
                              ELSE Channel(p, m)
  BY <1>1, Places, ChannelSet DEF Register
<1>2. ASSUME NEW s \in Sockets, Disconnect(s)
      PROVE  Channel(p, m)' \subseteq Channel(p, m)
  BY <1>2, Places, ChannelSet, ChannelDeleted DEF Disconnect
<1>3. ASSUME NEW b \in Publishers, RemoveStale(b)
      PROVE  Channel(p, m)' \subseteq Channel(p, m)
  <2>1. CASE connections' = connections
    BY <2>1 DEF Channel
  <2>2. CASE connections' # connections
    BY <1>3, <2>2, Places, ChannelSet DEF RemoveStale
  <2> QED
    BY <2>1, <2>2
<1>4. CASE UNCHANGED connections
  BY <1>4 DEF Channel
<1> QED
  BY <1>1, <1>2, <1>3, <1>4
     DEF Next, vars, BroadcastStep, Accept, PeerLeaves, ReceiveRaises, Snapshot, Send, SendFails,
         PassOver

LEMMA RegisteredInvariant == Spec => []Registered
<1>1. Init => Registered
  BY DEF Init, Registered, Channel
<1>2. TypeOK /\ Registered /\ [Next]_vars => Registered'
  <2> SUFFICES ASSUME TypeOK, Registered, [Next]_vars,
                      NEW p \in Processes, NEW m, NEW s \in Channel(p, m)'
               PROVE  /\ p = HostOf[s] /\ m = ChannelOf[s]
                      /\ handler'[s] \in {"serving", "leaving"}
    BY DEF Registered
  <2>1. CASE s \in Channel(p, m)
    <3>1. s \in Sockets /\ p = HostOf[s] /\ m = ChannelOf[s] /\ handler[s] \in {"serving", "leaving"}
      BY <2>1, ChannelType DEF Registered
    <3>2. ~Disconnect(s)
      <4>1. ASSUME Disconnect(s)
            PROVE  s \notin Channel(p, m)'
        BY <3>1, <4>1, Places, ChannelSet, ChannelDeleted DEF Disconnect
      <4> QED
        BY <4>1
    <3>3. handler'[s] \in {handler[s], "serving", "leaving"}
      <4>1. ASSUME NEW r \in Sockets, Accept(r)
            PROVE  handler'[s] \in {handler[s], "serving", "leaving"}
        BY <3>1, <4>1 DEF Accept, TypeOK
      <4>2. ASSUME NEW r \in Sockets, Register(r) \/ PeerLeaves(r) \/ ReceiveRaises(r)
            PROVE  handler'[s] \in {handler[s], "serving", "leaving"}
        BY <3>1, <4>2 DEF Register, PeerLeaves, ReceiveRaises, TypeOK
      <4>3. ASSUME NEW r \in Sockets, Disconnect(r)
            PROVE  handler'[s] \in {handler[s], "serving", "leaving"}
        BY <3>1, <3>2, <4>3 DEF Disconnect, TypeOK
      <4>4. CASE UNCHANGED handler
        BY <4>4
      <4> QED
        BY <4>1, <4>2, <4>3, <4>4
           DEF Next, vars, BroadcastStep, Snapshot, Send, SendFails, PassOver, RemoveStale
    <3> QED
      BY <3>1, <3>3
  <2>2. CASE s \notin Channel(p, m)
    <3>1. PICK r \in Sockets : /\ Register(r) /\ p = HostOf[r] /\ m = ChannelOf[r]
                               /\ Channel(p, m)' = Channel(p, m) \cup {r}
      BY <2>2, ChannelSteps
    <3>2. s = r
      BY <2>2, <3>1
    <3> QED
      BY <3>1, <3>2 DEF Register, TypeOK
  <2> QED
    BY <2>1, <2>2
<1> QED
  BY <1>1, <1>2, FeedTypeCorrect, PTL DEF Spec

\* However broadcasts, losses and disconnects interleave, a socket whose handler has
\* ended is in no dict.
THEOREM EndedSocketsAreForgotten == Spec => []EndedIsForgotten
<1>1. Registered => EndedIsForgotten
  BY DEF Registered, EndedIsForgotten
<1> QED
  BY <1>1, RegisteredInvariant, PTL

-----------------------------------------------------------------------------
(* What a client receives.                                                 *)

\* How what was received changes in a step.
LEMMA ReceivedSteps ==
  ASSUME TypeOK, [Next]_vars
  PROVE  \/ received' = received
         \/ \E b \in Publishers, s \in Sockets : Send(b, s)
BY DEF Next, vars, BroadcastStep, Accept, Register, PeerLeaves, ReceiveRaises, Disconnect,
       Snapshot, SendFails, PassOver, RemoveStale

LEMMA SentOne ==
  ASSUME TypeOK, NEW b \in Publishers, NEW s \in Sockets, Send(b, s)
  PROVE  /\ \A r \in Sockets, c \in Publishers :
              <<r, c>> # <<s, b>> => received'[r][c] = received[r][c]
         /\ received[s][b] \in Seq(Nat) /\ publisher[b].sent \in Nat
         /\ received'[s][b] = Append(received[s][b], publisher[b].sent)
<1>1. received[s][b] \in Seq(Nat) /\ publisher[b].sent \in Nat
  BY DEF TypeOK, PublisherType
<1> QED
  BY <1>1 DEF Send, Got, TypeOK

\* How the publishers change in a step.
LEMMA PublisherSteps ==
  ASSUME TypeOK, [Next]_vars
  PROVE  \/ publisher' = publisher /\ expecting' = expecting
         \/ \E b \in Publishers : Snapshot(b) \/ RemoveStale(b)
         \/ \E b \in Publishers, s \in Sockets : Send(b, s) \/ SendFails(b, s) \/ PassOver(b, s)
BY DEF Next, vars, BroadcastStep, Accept, Register, PeerLeaves, ReceiveRaises, Disconnect

Near(s, b) == HostOf[s] = HostOf[b] /\ ChannelOf[s] = ChannelOf[b]

Inside ==
  \A b \in Publishers :
    /\ \A s \in publisher[b].sockets : Near(s, b)
    /\ \A s \in Sockets : ~Near(s, b) => received[s][b] = <<>>

\* A client gets the events of its own migration only, and only from attempts that run
\* in the process it is connected to: from a Celery worker it gets none.
StaysInside == \A s \in Sockets, b \in Publishers : ~Near(s, b) => received[s][b] = <<>>

THEOREM OtherProcessesHearNothing == Spec => []StaysInside
<1>1. Init => Inside
  BY DEF Init, Inside, IdlePublisher
<1>2. TypeOK /\ Registered /\ Inside /\ [Next]_vars => Inside'
  <2> SUFFICES ASSUME TypeOK, Registered, Inside, [Next]_vars
               PROVE  Inside'
    OBVIOUS
  <2>1. ASSUME NEW b \in Publishers, NEW s \in publisher'[b].sockets
        PROVE  Near(s, b)
    <3>1. CASE s \in publisher[b].sockets
      BY <3>1 DEF Inside
    <3>2. CASE s \notin publisher[b].sockets
      <4>1. Snapshot(b)
        <5>1. ASSUME NEW c \in Publishers, Snapshot(c)
              PROVE  Snapshot(b)
          BY <2>1, <3>2, <5>1, LoopBegins
        <5>2. ASSUME NEW c \in Publishers, RemoveStale(c)
              PROVE  FALSE
          BY <2>1, <3>2, <5>2, LoopEnds
        <5>3. ASSUME NEW c \in Publishers, NEW r \in Sockets,
                     Send(c, r) \/ SendFails(c, r) \/ PassOver(c, r)
              PROVE  FALSE
          BY <2>1, <3>2, <5>3, LoopStep DEF OneLess
        <5> QED
          BY <2>1, <3>2, <5>1, <5>2, <5>3, PublisherSteps
      <4>2. s \in Channel(HostOf[b], ChannelOf[b])
        BY <2>1, <4>1, LoopBegins
      <4> QED
        BY <4>2, Places DEF Registered, Near
    <3> QED
      BY <3>1, <3>2
  <2>2. ASSUME NEW b \in Publishers, NEW s \in Sockets, ~Near(s, b)
        PROVE  received'[s][b] = <<>>
    <3>1. received[s][b] = <<>>
      BY <2>2 DEF Inside
    <3>2. ~Send(b, s)
      BY <2>2 DEF Send, Inside
    <3>3. ASSUME NEW c \in Publishers, NEW r \in Sockets, Send(c, r)
          PROVE  received'[s][b] = received[s][b]
      <4>1. <<s, b>> # <<r, c>>
        BY <3>2, <3>3
      <4> QED
        BY <2>2, <3>3, <4>1, SentOne
    <3> QED
      BY <3>1, <3>3, ReceivedSteps
  <2> QED
    BY <2>1, <2>2 DEF Inside, Near
<1>3. Inside => StaysInside
  BY DEF Inside, StaysInside
<1> QED
  BY <1>1, <1>2, <1>3, FeedTypeCorrect, RegisteredInvariant, PTL DEF Spec

-----------------------------------------------------------------------------
(* The order of the events.                                                *)

\* What a client has of an attempt is rising, and below the event it waits for.
Rising(s, b) ==
  /\ \A i, j \in DOMAIN received[s][b] : i < j => received[s][b][i] < received[s][b][j]
  /\ \A i \in DOMAIN received[s][b] :
       /\ received[s][b][i] <= publisher[b].sent
       /\ s \in publisher[b].sockets => received[s][b][i] < publisher[b].sent
AllRising == \A s \in Sockets, b \in Publishers : Rising(s, b)

LEMMA LargestLast ==
  ASSUME NEW q \in Seq(Nat), NEW n \in Nat,
         \A i, j \in DOMAIN q : i < j => q[i] < q[j],
         \A i \in DOMAIN q : q[i] < n
  PROVE  /\ \A i, j \in DOMAIN Append(q, n) : i < j => Append(q, n)[i] < Append(q, n)[j]
         /\ \A i \in DOMAIN Append(q, n) : Append(q, n)[i] <= n
<1>1. /\ DOMAIN Append(q, n) = 1..(Len(q) + 1) /\ DOMAIN q = 1..Len(q) /\ Len(q) \in Nat
      /\ \A i \in 1..Len(q) : q[i] \in Nat /\ Append(q, n)[i] = q[i]
      /\ Append(q, n)[Len(q) + 1] = n
  OBVIOUS
<1> DEFINE a == Append(q, n)
<1>2. \A i \in 1..(Len(q) + 1) : i \in 1..Len(q) \/ i = Len(q) + 1
  BY <1>1
<1>3. ASSUME NEW i \in DOMAIN a
      PROVE  a[i] <= n
  BY <1>1, <1>2
<1>4. ASSUME NEW i \in DOMAIN a, NEW j \in DOMAIN a, i < j
      PROVE  a[i] < a[j]
  <2>1. i \in 1..Len(q)
    BY <1>1, <1>4
  <2> QED
    BY <1>1, <1>2, <2>1, <1>4
<1> QED
  BY <1>3, <1>4

\* Each client gets the events of one attempt in their order and none twice, however
\* the broadcasts of several attempts overlap.
THEOREM EventsStayInOrder == Spec => []InOrder
<1>1. Init => AllRising
  BY DEF Init, AllRising, Rising
<1>2. TypeOK /\ AllRising /\ [Next]_vars => AllRising'
  <2> SUFFICES ASSUME TypeOK, AllRising, [Next]_vars, NEW s \in Sockets, NEW b \in Publishers
               PROVE  Rising(s, b)'
    BY DEF AllRising
  <2>0. /\ Rising(s, b) /\ received[s][b] \in Seq(Nat) /\ publisher[b].sent \in Nat
        /\ \A i \in DOMAIN received[s][b] : received[s][b][i] \in Nat
    BY DEF AllRising, TypeOK, PublisherType
  <2>1. CASE Send(b, s)
    <3>1. /\ received'[s][b] = Append(received[s][b], publisher[b].sent)
          /\ publisher'[b].sent = publisher[b].sent /\ s \notin publisher'[b].sockets
          /\ s \in publisher[b].sockets
      BY <2>1, SentOne, LoopStep DEF OneLess
    <3>2. \A i \in DOMAIN received[s][b] : received[s][b][i] < publisher[b].sent
      BY <2>0, <3>1 DEF Rising
    <3>3. \A i, j \in DOMAIN received[s][b] : i < j => received[s][b][i] < received[s][b][j]
      BY <2>0 DEF Rising
    <3>4. \A i, j \in DOMAIN received'[s][b] : i < j => received'[s][b][i] < received'[s][b][j]
      BY <2>0, <3>1, <3>2, <3>3, LargestLast
    <3>5. \A i \in DOMAIN received'[s][b] : received'[s][b][i] <= publisher[b].sent
      BY <2>0, <3>1, <3>2, <3>3, LargestLast
    <3> QED
      BY <3>1, <3>4, <3>5 DEF Rising
  <2>2. CASE ~Send(b, s)
    <3>1. received'[s][b] = received[s][b]
      <4>1. ASSUME NEW c \in Publishers, NEW r \in Sockets, Send(c, r)
            PROVE  received'[s][b] = received[s][b]
        <5>1. <<s, b>> # <<r, c>>
          BY <2>2, <4>1
        <5> QED
          BY <4>1, <5>1, SentOne
      <4> QED
        BY <4>1, ReceivedSteps
    <3>2. \/ publisher'[b].sent = publisher[b].sent /\ publisher'[b].sockets \subseteq publisher[b].sockets
          \/ publisher'[b].sent = publisher[b].sent + 1 /\ publisher[b].sockets = {}
      <4>1. ASSUME NEW c \in Publishers, Snapshot(c)
            PROVE  \/ publisher'[b] = publisher[b]
                   \/ publisher'[b].sent = publisher[b].sent + 1 /\ publisher[b].sockets = {}
        BY <4>1, LoopBegins DEF TypeOK, PublisherOK
      <4>2. ASSUME NEW c \in Publishers, RemoveStale(c)
            PROVE  \/ publisher'[b] = publisher[b]
                   \/ publisher'[b].sent = publisher[b].sent /\ publisher'[b].sockets = {}
        BY <4>2, LoopEnds
      <4>3. ASSUME NEW c \in Publishers, NEW r \in Sockets,
                   Send(c, r) \/ SendFails(c, r) \/ PassOver(c, r)
            PROVE  /\ publisher'[b].sent = publisher[b].sent
                   /\ publisher'[b].sockets \subseteq publisher[b].sockets
        BY <4>3, LoopStep DEF OneLess
      <4> QED
        BY <4>1, <4>2, <4>3, PublisherSteps
    <3>3. ASSUME NEW i \in DOMAIN received[s][b]
          PROVE  /\ received[s][b][i] <= publisher'[b].sent
                 /\ s \in publisher'[b].sockets => received[s][b][i] < publisher'[b].sent
      <4> DEFINE n == received[s][b][i]
      <4>1. n \in Nat
        BY <2>0
      <4>2. n <= publisher[b].sent
        BY <2>0 DEF Rising
      <4>3. s \in publisher[b].sockets => n < publisher[b].sent
        BY <2>0 DEF Rising
      <4> HIDE DEF n
      <4>4. n <= publisher'[b].sent
        BY <2>0, <3>2, <4>1, <4>2
      <4>5. s \in publisher'[b].sockets => n < publisher'[b].sent
        BY <2>0, <3>2, <4>1, <4>2, <4>3
      <4> QED
        BY <4>4, <4>5 DEF n
    <3>4. \A i, j \in DOMAIN received[s][b] : i < j => received[s][b][i] < received[s][b][j]
      BY <2>0 DEF Rising
    <3> QED
      BY <3>1, <3>3, <3>4 DEF Rising
  <2> QED
    BY <2>1, <2>2
<1>3. AllRising => InOrder
  BY DEF AllRising, Rising, InOrder
<1> QED
  BY <1>1, <1>2, <1>3, FeedTypeCorrect, PTL DEF Spec

-----------------------------------------------------------------------------
(* No event is withheld.                                                   *)

\* All in one process: the attempts run where the sockets are.
OneProcess == \A s \in Sockets, b \in Publishers : HostOf[s] = HostOf[b]

Healthy(s) == handler[s] = "serving" /\ peer[s] = "open"
HasLast(s, b) == \E i \in DOMAIN received[s][b] : received[s][b][i] = publisher[b].sent

\* Healthy sockets are registered and count as connected.
Serving ==
  \A s \in Sockets :
    /\ handler[s] \in {"accepted", "serving"} => client_state[s] = "connected"
    /\ Healthy(s) => s \in Channel(HostOf[s], ChannelOf[s])

\* Each subscriber still healthy has its event, or its turn is to come.
Waiting ==
  \A b \in Publishers : \A s \in expecting[b] :
    /\ handler[s] \in {"serving", "leaving", "done"}
    /\ Healthy(s) => s \in publisher[b].sockets \/ HasLast(s, b)

\* What no step undoes.
LEMMA NoWayBack ==
  ASSUME TypeOK, [Next]_vars, NEW s \in Sockets
  PROVE  /\ peer[s] = "gone" => peer'[s] = "gone"
         /\ handler[s] \in {"serving", "leaving", "done"} => handler'[s] \in {"serving", "leaving", "done"}
         /\ handler[s] \in {"leaving", "done"} => handler'[s] \in {"leaving", "done"}
         /\ handler'[s] = "serving" => handler[s] \in {"accepted", "serving"}
         /\ Healthy(s)' /\ handler[s] # "accepted" => Healthy(s)
<1>1. ASSUME NEW r \in Sockets, Accept(r) \/ Register(r) \/ PeerLeaves(r) \/ ReceiveRaises(r)
      PROVE  /\ peer[s] = "gone" => peer'[s] = "gone"
             /\ handler[s] \in {"serving", "leaving", "done"} => handler'[s] \in {"serving", "leaving", "done"}
             /\ handler[s] \in {"leaving", "done"} => handler'[s] \in {"leaving", "done"}
             /\ handler'[s] = "serving" => handler[s] \in {"accepted", "serving"}
  BY <1>1 DEF Accept, Register, PeerLeaves, ReceiveRaises, TypeOK
<1>2. ASSUME NEW r \in Sockets, Disconnect(r)
      PROVE  /\ peer[s] = "gone" => peer'[s] = "gone"
             /\ handler[s] \in {"serving", "leaving", "done"} => handler'[s] \in {"serving", "leaving", "done"}
             /\ handler[s] \in {"leaving", "done"} => handler'[s] \in {"leaving", "done"}
             /\ handler'[s] = "serving" => handler[s] \in {"accepted", "serving"}
  BY <1>2 DEF Disconnect, TypeOK
<1>3. \/ UNCHANGED <<handler, peer>>
      \/ \E r \in Sockets : Accept(r) \/ Register(r) \/ PeerLeaves(r) \/ ReceiveRaises(r) \/ Disconnect(r)
  BY DEF Next, vars, BroadcastStep, Snapshot, Send, SendFails, PassOver, RemoveStale
<1> QED
  BY <1>1, <1>2, <1>3 DEF Healthy, TypeOK

\* Only sockets that are gone are removed as stale, and so the others stay registered.
LEMMA ServingInvariant == Spec => [](Serving /\ \A b \in Publishers : \A s \in publisher[b].stale : peer[s] = "gone")
<1> DEFINE Gone == \A b \in Publishers : \A s \in publisher[b].stale : peer[s] = "gone"
<1>1. Init => Serving /\ Gone
  BY DEF Init, Serving, Healthy, IdlePublisher
<1>2. TypeOK /\ Serving /\ Gone /\ [Next]_vars => Serving' /\ Gone'
  <2> SUFFICES ASSUME TypeOK, Serving, Gone, [Next]_vars
               PROVE  Serving' /\ Gone'
    OBVIOUS
  <2>1. ASSUME NEW s \in Sockets, handler'[s] \in {"accepted", "serving"}
        PROVE  client_state'[s] = "connected"
    <3>1. ASSUME NEW r \in Sockets, Accept(r)
          PROVE  client_state'[s] = "connected"
      BY <2>1, <3>1 DEF Accept, Serving, TypeOK
    <3>2. ASSUME NEW r \in Sockets, Register(r) \/ PeerLeaves(r) \/ ReceiveRaises(r)
          PROVE  client_state'[s] = "connected"
      BY <2>1, <3>2 DEF Register, PeerLeaves, ReceiveRaises, Serving, TypeOK
    <3>3. ASSUME NEW r \in Sockets, Disconnect(r)
          PROVE  client_state'[s] = "connected"
      BY <2>1, <3>3 DEF Disconnect, Serving, TypeOK
    <3>4. CASE UNCHANGED <<handler, client_state>>
      BY <2>1, <3>4 DEF Serving
    <3> QED
      BY <3>1, <3>2, <3>3, <3>4
         DEF Next, vars, BroadcastStep, Snapshot, Send, SendFails, PassOver, RemoveStale
  <2>2. ASSUME NEW s \in Sockets, Healthy(s)'
        PROVE  s \in Channel(HostOf[s], ChannelOf[s])'
    <3> DEFINE p == HostOf[s]
               m == ChannelOf[s]
    <3>0. p \in Processes /\ m \in Migrations
      BY Places
    <3>1. CASE Register(s)
      BY <3>0, <3>1, ChannelSet DEF Register
    <3>2. CASE ~Register(s)
      <4>1. handler[s] # "accepted"
        <5>1. ASSUME handler[s] = "accepted", NEW r \in Sockets, r # s \/ ~Register(r)
              PROVE  (Accept(r) \/ Register(r) \/ PeerLeaves(r) \/ ReceiveRaises(r) \/ Disconnect(r))
                        => handler'[s] = handler[s]
          BY <5>1 DEF Accept, Register, PeerLeaves, ReceiveRaises, Disconnect, TypeOK
        <5> QED
          BY <2>2, <3>2, <5>1
             DEF Healthy, Next, vars, BroadcastStep, Snapshot, Send, SendFails, PassOver, RemoveStale
      <4>2. Healthy(s) /\ s \in Channel(p, m)
        BY <2>2, <4>1, NoWayBack DEF Serving
      <4>3. ASSUME NEW r \in Sockets, Register(r)
            PROVE  s \in Channel(p, m)'
        BY <3>0, <4>2, <4>3, Places, ChannelSet DEF Register
      <4>4. ASSUME NEW r \in Sockets, Disconnect(r)
            PROVE  s \in Channel(p, m)'
        <5>1. r # s
          BY <4>2, <4>4 DEF Disconnect, Healthy
        <5>2. CASE HostOf[r] = p /\ ChannelOf[r] = m
          <6>1. s \in Channel(p, m) \ {r}
            BY <4>2, <5>1
          <6>2. connections' = WithChannel(p, m, Channel(p, m) \ {r})
            BY <4>4, <5>2, <6>1 DEF Disconnect
          <6> QED
            BY <3>0, <6>1, <6>2, ChannelSet
        <5>3. CASE ~(HostOf[r] = p /\ ChannelOf[r] = m)
          BY <3>0, <4>2, <4>4, <5>3, Places, ChannelSet, ChannelDeleted DEF Disconnect
        <5> QED
          BY <5>2, <5>3
      <4>5. ASSUME NEW b \in Publishers, RemoveStale(b)
            PROVE  s \in Channel(p, m)'
        <5>1. s \notin publisher[b].stale
          BY <4>2 DEF Healthy
        <5>2. CASE connections' = connections
          BY <4>2, <5>2 DEF Channel
        <5>3. CASE connections' # connections
          <6>1. connections' = WithChannel(HostOf[b], ChannelOf[b],
                                 Channel(HostOf[b], ChannelOf[b]) \ publisher[b].stale)
            BY <4>5, <5>3 DEF RemoveStale
          <6> QED
            BY <3>0, <4>2, <5>1, <6>1, Places, ChannelSet
        <5> QED
          BY <5>2, <5>3
      <4>6. CASE UNCHANGED connections
        BY <4>2, <4>6 DEF Channel
      <4> QED
        BY <4>3, <4>4, <4>5, <4>6
           DEF Next, vars, BroadcastStep, Accept, PeerLeaves, ReceiveRaises, Snapshot, Send,
               SendFails, PassOver
    <3> QED
      BY <3>1, <3>2
  <2>3. ASSUME NEW b \in Publishers, NEW s \in publisher'[b].stale
        PROVE  peer'[s] = "gone"
    <3>0. s \in Sockets
      <4>1. publisher' \in [Publishers -> PublisherType]
        BY PublisherSteps, LoopBegins, LoopEnds, LoopStep DEF OneLess, TypeOK
      <4> QED
        BY <2>3, <4>1 DEF PublisherType
    <3>1. CASE s \in publisher[b].stale
      BY <3>0, <3>1, NoWayBack
    <3>2. CASE s \notin publisher[b].stale
      <4>1. ASSUME NEW c \in Publishers, Snapshot(c) \/ RemoveStale(c)
            PROVE  FALSE
        BY <2>3, <3>2, <4>1, LoopBegins, LoopEnds
      <4>2. ASSUME NEW c \in Publishers, NEW r \in Sockets,
                   Send(c, r) \/ SendFails(c, r) \/ PassOver(c, r)
            PROVE  peer'[s] = "gone"
        <5>1. c = b /\ s = r
          BY <2>3, <3>2, <4>2, LoopStep DEF OneLess
        <5>2. SendFails(c, r)
          BY <2>3, <3>2, <4>2, <5>1, LoopStep
        <5> QED
          BY <5>1, <5>2 DEF SendFails
      <4> QED
        BY <2>3, <3>2, <4>1, <4>2, PublisherSteps
    <3> QED
      BY <3>1, <3>2
  <2> QED
    BY <2>1, <2>2, <2>3 DEF Serving
<1> QED
  BY <1>1, <1>2, FeedTypeCorrect, PTL DEF Spec

\* What an attempt owes its subscribers changes only when its next broadcast begins.
LEMMA SameEvent ==
  ASSUME TypeOK, [Next]_vars, NEW b \in Publishers, ~Snapshot(b)
  PROVE  expecting'[b] = expecting[b] /\ publisher'[b].sent = publisher[b].sent
<1>1. ASSUME NEW c \in Publishers, Snapshot(c)
      PROVE  expecting'[b] = expecting[b] /\ publisher'[b] = publisher[b]
  <2>1. c # b
    BY <1>1
  <2> QED
    BY <1>1, <2>1, LoopBegins
<1>2. ASSUME NEW c \in Publishers, RemoveStale(c)
      PROVE  expecting'[b] = expecting[b] /\ publisher'[b].sent = publisher[b].sent
  BY <1>2, LoopEnds
<1>3. ASSUME NEW c \in Publishers, NEW r \in Sockets,
             Send(c, r) \/ SendFails(c, r) \/ PassOver(c, r)
      PROVE  expecting'[b] = expecting[b] /\ publisher'[b].sent = publisher[b].sent
  BY <1>3, LoopStep DEF OneLess
<1> QED
  BY <1>1, <1>2, <1>3, PublisherSteps

\* A socket leaves the loop with its event, or since it is gone.
LEMMA ServedInTurn ==
  ASSUME TypeOK, [Next]_vars, NEW b \in Publishers, NEW s \in publisher[b].sockets,
         s \notin publisher'[b].sockets
  PROVE  Send(b, s) \/ SendFails(b, s) \/ PassOver(b, s)
<1>1. ASSUME NEW c \in Publishers, Snapshot(c) \/ RemoveStale(c)
      PROVE  FALSE
  <2>1. publisher[b].pc # "idle"
    BY DEF TypeOK, PublisherOK
  <2>2. CASE Snapshot(c)
    BY <1>1, <2>1, <2>2, LoopBegins
  <2>3. CASE RemoveStale(c)
    BY <1>1, <2>3, LoopEnds
  <2> QED
    BY <1>1, <2>2, <2>3
<1>2. ASSUME NEW c \in Publishers, NEW r \in Sockets,
             Send(c, r) \/ SendFails(c, r) \/ PassOver(c, r)
      PROVE  c = b /\ r = s
  BY <1>2, LoopStep DEF OneLess
<1> QED
  BY <1>1, <1>2, PublisherSteps

\* What has arrived stays.
LEMMA LastStays ==
  ASSUME TypeOK, [Next]_vars, NEW b \in Publishers, NEW s \in Sockets, ~Snapshot(b)
  PROVE  HasLast(s, b) \/ Send(b, s) => HasLast(s, b)'
<1>0. publisher'[b].sent = publisher[b].sent /\ received[s][b] \in Seq(Nat) /\ publisher[b].sent \in Nat
  BY SameEvent DEF TypeOK, PublisherType
<1>1. CASE Send(b, s)
  <2>1. received'[s][b] = Append(received[s][b], publisher[b].sent)
    BY <1>1, SentOne
  <2>2. Len(received[s][b]) + 1 \in DOMAIN received'[s][b]
        /\ received'[s][b][Len(received[s][b]) + 1] = publisher[b].sent
    BY <1>0, <2>1
  <2> QED
    BY <1>0, <2>2 DEF HasLast
<1>2. CASE ~Send(b, s)
  <2>1. received'[s][b] = received[s][b]
    <3>1. ASSUME NEW c \in Publishers, NEW r \in Sockets, Send(c, r)
          PROVE  received'[s][b] = received[s][b]
      <4>1. <<s, b>> # <<r, c>>
        BY <1>2, <3>1
      <4> QED
        BY <3>1, <4>1, SentOne
    <3> QED
      BY <3>1, ReceivedSteps
  <2> QED
    BY <1>0, <1>2, <2>1 DEF HasLast
<1> QED
  BY <1>1, <1>2

\* Where the attempts run in the process of the sockets, no broadcast passes over a
\* subscriber that stays, whoever joins, leaves or fails meanwhile.
THEOREM NoEventIsWithheld == ASSUME OneProcess PROVE Spec => []Delivered
<1>1. Init => Waiting
  BY DEF Init, Waiting
<1>2. TypeOK /\ Serving /\ Waiting /\ [Next]_vars => Waiting'
  <2> SUFFICES ASSUME TypeOK, Serving, Waiting, [Next]_vars,
                      NEW b \in Publishers, NEW s \in expecting'[b]
               PROVE  /\ handler'[s] \in {"serving", "leaving", "done"}
                      /\ Healthy(s)' => s \in publisher'[b].sockets \/ HasLast(s, b)'
    BY DEF Waiting
  <2>1. CASE Snapshot(b)
    <3>1. s \in Sockets /\ Subscribed(s, b) /\ UNCHANGED <<handler, peer>>
      BY <2>1, LoopBegins
    <3>2. Healthy(s) => s \in Channel(HostOf[b], ChannelOf[b])
      BY <3>1, OneProcess DEF Serving, Subscribed, OneProcess
    <3> QED
      BY <2>1, <3>1, <3>2, LoopBegins DEF Subscribed, Healthy
  <2>2. CASE ~Snapshot(b)
    <3>1. s \in expecting[b] /\ s \in Sockets
      BY <2>2, SameEvent DEF TypeOK
    <3>2. handler[s] \in {"serving", "leaving", "done"}
      BY <3>1 DEF Waiting
    <3>3. handler'[s] \in {"serving", "leaving", "done"}
      BY <3>1, <3>2, NoWayBack
    <3>4. ASSUME Healthy(s)', s \notin publisher'[b].sockets
          PROVE  HasLast(s, b)'
      <4>1. Healthy(s) /\ client_state[s] = "connected"
        BY <3>1, <3>2, <3>4, NoWayBack DEF Serving, Healthy
      <4>2. HasLast(s, b) \/ s \in publisher[b].sockets
        BY <3>1, <4>1 DEF Waiting
      <4>3. HasLast(s, b) \/ Send(b, s)
        BY <3>4, <4>1, <4>2, ServedInTurn DEF SendFails, PassOver, Healthy
      <4> QED
        BY <2>2, <3>1, <4>3, LastStays
    <3> QED
      BY <3>3, <3>4
  <2> QED
    BY <2>1, <2>2
<1>3. TypeOK /\ Waiting => Delivered
  <2> SUFFICES ASSUME TypeOK, Waiting, NEW b \in Publishers, publisher[b].pc = "idle",
                      NEW s \in expecting[b], Subscribed(s, b), peer[s] = "open"
               PROVE  HasLast(s, b)
    BY DEF Delivered, HasLast
  <2>1. publisher[b].sockets = {}
    BY DEF TypeOK, PublisherOK
  <2> QED
    BY <2>1 DEF Waiting, Healthy, Subscribed
<1> QED
  BY <1>1, <1>2, <1>3, FeedTypeCorrect, ServingInvariant, PTL DEF Spec

=============================================================================
