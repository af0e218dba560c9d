-------------------------- MODULE ConnectionManager ---------------------------
(***************************************************************************)
(* The WebSocket feed: ConnectionManager, of which every process has one    *)
(* (ws_manager), the handler of each socket, and the attempts that          *)
(* broadcast their progress, logs and outcome.                              *)
(* asyncio.Lock is never held across an await, so that each block under it  *)
(* is one step; between those blocks, and at every send, others may run.    *)
(***************************************************************************)
EXTENDS Naturals, Sequences, FiniteSets

CONSTANTS
  Processes,
  Sockets,
  Publishers,   \* calls of _execute() that broadcast
  Migrations,
  HostOf,       \* [Sockets \cup Publishers -> Processes]
  ChannelOf,    \* [Sockets \cup Publishers -> Migrations]
  NumEvents     \* [Publishers -> Nat]: how many events each one broadcasts

ASSUME PlacesOK ==
  /\ HostOf \in [Sockets \cup Publishers -> Processes]
  /\ ChannelOf \in [Sockets \cup Publishers -> Migrations]
  /\ NumEvents \in [Publishers -> Nat]

VARIABLES
  connections,  \* _connections of each process: [Processes -> channels], a
                \* channel being in the domain when the dict has the key
  handler,      \* handle_migration_ws() of each socket
  client_state, \* what the server believes of the socket
  peer,         \* "open", or "gone"
  received,     \* the numbers of the events the client got: [Publishers -> Seq(Nat)]
  publisher,    \* broadcast() of each publisher
  expecting     \* [Publishers -> the sockets subscribed when broadcast() began]

vars == <<connections, handler, client_state, peer, received, publisher, expecting>>

IdlePublisher == [pc |-> "idle", sent |-> 0, sockets |-> {}, stale |-> {}]

Channel(p, m) == IF m \in DOMAIN connections[p] THEN connections[p][m] ELSE {}

\* self._connections[m] = sockets; and del self._connections[m]
WithChannel(p, m, sockets) ==
  [connections EXCEPT ![p] =
     [k \in DOMAIN connections[p] \cup {m} |-> IF k = m THEN sockets ELSE connections[p][k]]]
WithoutChannel(p, m) ==
  [connections EXCEPT ![p] = [k \in DOMAIN connections[p] \ {m} |-> connections[p][k]]]

-----------------------------------------------------------------------------
(* handle_migration_ws()                                                   *)

\* ws.accept()
Accept(s) ==
  /\ handler[s] = "new"
  /\ handler' = [handler EXCEPT ![s] = "accepted"]
  /\ client_state' = [client_state EXCEPT ![s] = "connected"]
  /\ UNCHANGED <<connections, peer, received, publisher, expecting>>

Register(s) ==
  /\ handler[s] = "accepted"
  /\ connections' = WithChannel(HostOf[s], ChannelOf[s],
                                Channel(HostOf[s], ChannelOf[s]) \cup {s})
  /\ handler' = [handler EXCEPT ![s] = "serving"]
  /\ UNCHANGED <<client_state, peer, received, publisher, expecting>>

\* The other side goes away; the server finds out when it receives or sends.
PeerLeaves(s) ==
  /\ handler[s] # "new" /\ peer[s] = "open"
  /\ peer' = [peer EXCEPT ![s] = "gone"]
  /\ UNCHANGED <<connections, handler, client_state, received, publisher, expecting>>

\* receive_text() raises since the peer disconnected; or it gets what is not a
\* text, or the pong cannot be sent, and the socket counts as connected still.
ReceiveRaises(s) ==
  /\ handler[s] = "serving"
  /\ \/ /\ peer[s] = "gone"
        /\ client_state' = [client_state EXCEPT ![s] = "disconnected"]
     \/ UNCHANGED client_state
  /\ handler' = [handler EXCEPT ![s] = "leaving"]
  /\ UNCHANGED <<connections, peer, received, publisher, expecting>>

\* Wrong on purpose: the channel is deleted with its first socket.
DisconnectEveryone(s) ==
  /\ handler[s] = "leaving"
  /\ connections' = WithoutChannel(HostOf[s], ChannelOf[s])
  /\ handler' = [handler EXCEPT ![s] = "done"]
  /\ peer' = [peer EXCEPT ![s] = "gone"]
  /\ UNCHANGED <<client_state, received, publisher, expecting>>

\* Wrong on purpose: no "finally".
DisconnectForgotten(s) ==
  /\ handler[s] = "leaving"
  /\ handler' = [handler EXCEPT ![s] = "done"]
  /\ peer' = [peer EXCEPT ![s] = "gone"]
  /\ UNCHANGED <<connections, client_state, received, publisher, expecting>>

\* disconnect(); the server closes the socket when the handler has ended.
Disconnect(s) ==
  LET others == Channel(HostOf[s], ChannelOf[s]) \ {s}
  IN  /\ handler[s] = "leaving"
      /\ connections' = IF others = {} THEN WithoutChannel(HostOf[s], ChannelOf[s])
                                       ELSE WithChannel(HostOf[s], ChannelOf[s], others)
      /\ handler' = [handler EXCEPT ![s] = "done"]
      /\ peer' = [peer EXCEPT ![s] = "gone"]
      /\ UNCHANGED <<client_state, received, publisher, expecting>>

-----------------------------------------------------------------------------
(* broadcast()                                                             *)

Subscribed(s, b) == handler[s] = "serving" /\ ChannelOf[s] = ChannelOf[b]

\* sockets = set(self._connections.get(...)): a copy, and no key is made.
Snapshot(b) ==
  /\ publisher[b].pc = "idle" /\ publisher[b].sent < NumEvents[b]
  /\ publisher' = [publisher EXCEPT ![b] =
       [pc |-> "sending", sent |-> publisher[b].sent + 1,
        sockets |-> Channel(HostOf[b], ChannelOf[b]), stale |-> {}]]
  /\ expecting' = [expecting EXCEPT ![b] = {s \in Sockets : Subscribed(s, b)}]
  /\ UNCHANGED <<connections, handler, client_state, peer, received>>

Got(s, b) == received' = [received EXCEPT ![s][b] = Append(@, publisher[b].sent)]

\* Wrong on purpose: the socket stays in the loop.
SendAgain(b, s) ==
  /\ publisher[b].pc = "sending" /\ s \in publisher[b].sockets
  /\ client_state[s] = "connected" /\ peer[s] = "open"
  /\ Got(s, b)
  /\ UNCHANGED <<connections, handler, client_state, peer, publisher, expecting>>

Send(b, s) ==
  /\ publisher[b].pc = "sending" /\ s \in publisher[b].sockets
  /\ client_state[s] = "connected" /\ peer[s] = "open"
  /\ Got(s, b)
  /\ publisher' = [publisher EXCEPT ![b].sockets = @ \ {s}]
  /\ UNCHANGED <<connections, handler, client_state, peer, expecting>>

\* Wrong on purpose: the error leaves broadcast().
SendRaisesOut(b, s) ==
  /\ publisher[b].pc = "sending" /\ s \in publisher[b].sockets
  /\ client_state[s] = "connected" /\ peer[s] = "gone"
  /\ publisher' = [publisher EXCEPT ![b].pc = "idle"]
  /\ UNCHANGED <<connections, handler, client_state, peer, received, expecting>>

\* Sending to a peer that is gone raises, or disappears in a buffer.
SendFails(b, s) ==
  /\ publisher[b].pc = "sending" /\ s \in publisher[b].sockets
  /\ client_state[s] = "connected" /\ peer[s] = "gone"
  /\ \E noticed \in BOOLEAN :
       publisher' = [publisher EXCEPT ![b].sockets = @ \ {s},
                                      ![b].stale = IF noticed THEN @ \cup {s} ELSE @]
  /\ UNCHANGED <<connections, handler, client_state, peer, received, expecting>>

\* A socket known to be disconnected is passed over.
PassOver(b, s) ==
  /\ publisher[b].pc = "sending" /\ s \in publisher[b].sockets
  /\ client_state[s] # "connected"
  /\ publisher' = [publisher EXCEPT ![b].sockets = @ \ {s}]
  /\ UNCHANGED <<connections, handler, client_state, peer, received, expecting>>

\* Wrong on purpose: writes the copy back, without the stale sockets.
WriteBack(b) ==
  /\ publisher[b].pc = "sending" /\ publisher[b].sockets = {}
  /\ IF publisher[b].stale = {} THEN UNCHANGED connections
     ELSE connections' = WithChannel(HostOf[b], ChannelOf[b], expecting[b] \ publisher[b].stale)
  /\ publisher' = [publisher EXCEPT ![b].pc = "idle", ![b].stale = {}]
  /\ UNCHANGED <<handler, client_state, peer, received, expecting>>

\* discard() on the defaultdict makes the key again, when the last handler has
\* deleted it meanwhile: an empty channel stays.
RemoveStale(b) ==
  /\ publisher[b].pc = "sending" /\ publisher[b].sockets = {}
  /\ IF publisher[b].stale = {} THEN UNCHANGED connections
     ELSE connections' = WithChannel(HostOf[b], ChannelOf[b],
                           Channel(HostOf[b], ChannelOf[b]) \ publisher[b].stale)
  /\ publisher' = [publisher EXCEPT ![b].pc = "idle", ![b].stale = {}]
  /\ UNCHANGED <<handler, client_state, peer, received, expecting>>

-----------------------------------------------------------------------------
Init ==
  /\ connections = [p \in Processes |-> [m \in {} |-> {}]]
  /\ handler = [s \in Sockets |-> "new"]
  /\ client_state = [s \in Sockets |-> "connecting"]
  /\ peer = [s \in Sockets |-> "open"]
  /\ received = [s \in Sockets |-> [b \in Publishers |-> <<>>]]
  /\ publisher = [b \in Publishers |-> IdlePublisher]
  /\ expecting = [b \in Publishers |-> {}]

HandlerStep(s) == Register(s) \/ (ReceiveRaises(s) /\ peer[s] = "gone") \/ Disconnect(s)
BroadcastStep(b) ==
  \/ \E s \in Sockets : Send(b, s) \/ SendFails(b, s) \/ PassOver(b, s)
  \/ RemoveStale(b)

Next ==
  \/ \E s \in Sockets :
       Accept(s) \/ Register(s) \/ PeerLeaves(s) \/ ReceiveRaises(s) \/ Disconnect(s)
  \/ \E b \in Publishers : Snapshot(b) \/ BroadcastStep(b)

Spec == Init /\ [][Next]_vars

\* The event loop runs a handler that can run; a client need not connect, nor
\* leave, and nothing is asked of the broadcasts.
FairSpec == Spec /\ \A s \in Sockets : WF_vars(HandlerStep(s))

-----------------------------------------------------------------------------
(* Properties.                                                             *)

ConnectionsOK ==
  /\ DOMAIN connections = Processes
  /\ \A p \in Processes : /\ DOMAIN connections[p] \subseteq Migrations
                          /\ \A m \in DOMAIN connections[p] : connections[p][m] \subseteq Sockets

PublisherType == [pc : {"idle", "sending"}, sent : Nat, sockets : SUBSET Sockets,
                  stale : SUBSET Sockets]
PublisherOK(b) ==
  /\ publisher[b].sent <= NumEvents[b]
  /\ publisher[b].sockets \cap publisher[b].stale = {}
  /\ publisher[b].pc = "idle" => publisher[b].sockets = {}
  /\ publisher[b].pc = "sending" => publisher[b].sent > 0

\* The shape of every variable.
TypeOK ==
  /\ ConnectionsOK
  /\ handler \in [Sockets -> {"new", "accepted", "serving", "leaving", "done"}]
  /\ client_state \in [Sockets -> {"connecting", "connected", "disconnected"}]
  /\ peer \in [Sockets -> {"open", "gone"}]
  /\ received \in [Sockets -> [Publishers -> Seq(Nat)]]
  /\ publisher \in [Publishers -> PublisherType]
  /\ \A b \in Publishers : PublisherOK(b)
  /\ expecting \in [Publishers -> SUBSET Sockets]

\* A socket whose handler has ended is in no dict, not even when a broadcast
\* that had copied it earlier cleans up afterwards.
EndedIsForgotten ==
  \A s \in Sockets : handler[s] \in {"new", "done"} =>
    \A p \in Processes, m \in Migrations : s \notin Channel(p, m)

\* Each client gets the events of one attempt in their order, and none twice.
InOrder ==
  \A s \in Sockets, b \in Publishers : \A i, j \in DOMAIN received[s][b] :
    i < j => received[s][b][i] < received[s][b][j]

\* When broadcast() returns, every socket that was subscribed when it began,
\* and still is, has the event: others that fail, leave or join meanwhile make
\* no difference.
Delivered ==
  \A b \in Publishers : publisher[b].pc = "idle" =>
    \A s \in expecting[b] :
      Subscribed(s, b) /\ peer[s] = "open" =>
        \E i \in DOMAIN received[s][b] : received[s][b][i] = publisher[b].sent

\* A client that has gone is forgotten in the end (and for good, since its
\* handler has ended then).
Forgotten(s) ==
  handler[s] = "done" /\ \A p \in Processes, m \in Migrations : s \notin Channel(p, m)
GoneIsForgotten == \A s \in Sockets : peer[s] = "gone" ~> Forgotten(s)

=============================================================================
