----------------------------- MODULE Networking -----------------------------
(***************************************************************************)
(* NetClient and NetServer over ENet, with their bases NetNode and         *)
(* NetConnection.  A step is one call of a member function; the nodes of a *)
(* program are not shared between threads.                                 *)
(*                                                                         *)
(* ENet is external: a host is created with one peer per connection it can *)
(* have, creating it may fail, enet_host_service returns any event that is *)
(* possible for one of its peers, and destroying it destroys its peers. A  *)
(* peer is "free", "live", or "leaving" after enet_peer_disconnect, until  *)
(* its disconnect event.                                                   *)
(***************************************************************************)
EXTENDS Integers, FiniteSets, SequencesExt

CONSTANTS Clients, Servers,   \* the NetClient and NetServer objects
          Hosts, Packets,     \* bounds: ENet hosts and received packets at a time
          Addresses           \* addresses of remote hosts

Nil == 0                      \* no host, no event
Clean == 0 - 1                \* an event without a packet
Nodes == Clients \cup Servers
Slots == {1, 2}               \* peers of a server's host; a client's has the first
MaxPeers == 2                 \* bound on a list of clients and on the connections at a time

VARIABLE net
(* net.node    per object: mHost, mLastEvent (Nil, Clean or its packet),  *)
(*             and peers: mClients of a server, mNode of a client          *)
(* net.hosts   the ENet hosts that exist                                   *)
(* net.peer    per host and slot, its state and address                    *)
(* net.packets the received packets that exist                             *)
(* net.lost    hosts and packets no object refers to any more              *)
(* net.assigned, net.unclear  history: servers and hosts for which         *)
(*             PeersExist and ClientListIsCurrent promise nothing          *)

Fresh == [mHost |-> Nil, mLastEvent |-> Nil, peers |-> <<>>]
NoPeer == [state |-> "free", address |-> CHOOSE a \in Addresses : TRUE]

Init ==
    net = [node |-> [o \in Nodes |-> Fresh], hosts |-> {},
           peer |-> [h \in Hosts |-> [i \in Slots |-> NoPeer]], packets |-> {},
           lost |-> [hosts |-> {}, packets |-> {}], assigned |-> {}, unclear |-> {}]

-----------------------------------------------------------------------------
(* Helpers: the state after a part of a call                               *)

AddressOf(s, p) == s.peer[p[1]][p[2]].address
StateOf(s, p) == s.peer[p[1]][p[2]].state

\* enet_peer_disconnect, of each peer in P
PeersLeave(s, P) ==
    [s EXCEPT !.peer = [h \in Hosts |-> [i \in Slots |->
        IF <<h, i>> \in P /\ s.peer[h][i].state = "live"
        THEN [s.peer[h][i] EXCEPT !.state = "leaving"] ELSE s.peer[h][i]]]]

\* Mutant: the packet of the last event is forgotten.
clean_last_event_packet_Forgets(s, o) == [s EXCEPT !.node[o].mLastEvent = Clean]

clean_last_event_packet(s, o) ==
    [s EXCEPT !.packets = @ \ {s.node[o].mLastEvent}, !.node[o].mLastEvent = Clean]

HostDestroyed(s, h) ==
    [s EXCEPT !.hosts = @ \ {h}, !.unclear = @ \ {h},
              !.peer[h] = [i \in Slots |-> NoPeer]]

\* NetNode::disconnect
NodeDisconnected(s, o) ==
    LET c == clean_last_event_packet(s, o)
    IN [HostDestroyed(c, c.node[o].mHost) EXCEPT !.node[o].mHost = Nil,
                                                !.node[o].mLastEvent = Nil]

\* NetClient::disconnect and NetServer::disconnect: peers first, then the host.
Disconnected(s, o) ==
    IF s.node[o].mHost = Nil THEN s
    ELSE NodeDisconnected([PeersLeave(s, ToSet(s.node[o].peers)) EXCEPT !.node[o].peers = <<>>], o)

\* enet_host_create
HostCreated(s, h) == [s EXCEPT !.hosts = @ \cup {h}]

WithHost(s, o, h) == [HostCreated(s, h) EXCEPT !.node[o].mHost = h]

\* A name for a new host: none that an object still has a peer of.
Unused(s) ==
    {h \in Hosts \ s.hosts : \A o \in Nodes, i \in Slots : ~Contains(s.node[o].peers, <<h, i>>)}

-----------------------------------------------------------------------------
(* NetServer *)

ServerConnect(o) ==
    LET s == Disconnected(net, o)
    IN \/ net' = s                                        \* -2: no host
       \/ \E h \in Unused(s) :
            \/ net' = Disconnected(WithHost(s, o, h), o)  \* -3: no event data
            \/ net' = [WithHost(s, o, h) EXCEPT !.node[o].mLastEvent = Clean]

\* The places of an address in a list of clients, and the first of them
Places(s, o, a) ==
    {i \in DOMAIN s.node[o].peers : AddressOf(s, s.node[o].peers[i]) = a}

FirstPlace(s, o, a) ==
    CHOOSE i \in Places(s, o, a) : \A j \in Places(s, o, a) : i <= j

\* erase of the first element with an address, if there is one.
WithoutAddress(s, o, a) ==
    LET peers == s.node[o].peers
        i == FirstPlace(s, o, a)
    IN IF Places(s, o, a) = {} THEN s
       ELSE [s EXCEPT !.node[o].peers =
                SubSeq(peers, 1, i - 1) \o SubSeq(peers, i + 1, Len(peers))]

\* The address of a free peer matters only as long as a list still has it.
Forgotten(s, p) ==
    IF \E o \in Nodes : Contains(s.node[o].peers, p) THEN s
    ELSE [s EXCEPT !.peer[p[1]][p[2]] = NoPeer]

\* NetServer::disconnect(clientIp)
DisconnectAddress(o, a) ==
    /\ net.node[o].mHost # Nil
    /\ Places(net, o, a) # {}
    /\ net' = WithoutAddress(PeersLeave(net, {net.node[o].peers[FirstPlace(net, o, a)]}), o, a)

\* Every poll first gives back the packet of the event before.
Polled(o) == clean_last_event_packet(net, o)
Polls(o) == net.node[o].mHost # Nil

\* ENET_EVENT_TYPE_CONNECT
ServerPollsConnect(o, i, a) ==
    LET s == Polled(o)
        h == s.node[o].mHost
    IN /\ Polls(o)
       /\ s.peer[h][i].state = "free"
       /\ net.assigned = {}      \* bound, as are the next two lines
       /\ Len(s.node[o].peers) < MaxPeers
       /\ Cardinality({p \in Hosts \X Slots : StateOf(s, p) # "free"}) < MaxPeers
       /\ net' = [s EXCEPT
            !.peer[h][i] = [state |-> "live", address |-> a],
            !.node[o].peers = Append(@, <<h, i>>),
            !.unclear = IF \E j \in Slots : s.peer[h][j].state # "free" /\ s.peer[h][j].address = a
                       THEN @ \cup {h} ELSE @]

\* Mutant: the client stays in the list.
ServerPollsDisconnect_Keeps(o, i) ==
    LET s == Polled(o)
        h == s.node[o].mHost
    IN /\ Polls(o)
       /\ s.peer[h][i].state # "free"
       /\ net' = [s EXCEPT !.peer[h][i].state = "free"]

\* ENET_EVENT_TYPE_DISCONNECT, of a peer that left or that was told to.
ServerPollsDisconnect(o, i) ==
    LET s == Polled(o)
        h == s.node[o].mHost
    IN /\ Polls(o)
       /\ s.peer[h][i].state # "free"
       /\ net' = Forgotten(WithoutAddress([s EXCEPT !.peer[h][i].state = "free"],
                                          o, s.peer[h][i].address), <<h, i>>)

\* ENET_EVENT_TYPE_RECEIVE, of either kind of node.
PollsReceive(o, i) ==
    LET s == Polled(o)
        h == s.node[o].mHost
    IN /\ Polls(o)
       /\ s.peer[h][i].state = "live"
       /\ \E k \in Packets \ s.packets :
            net' = [s EXCEPT !.packets = @ \cup {k}, !.node[o].mLastEvent = k]

\* No event, an event of no type that is handled, or an error.
PollsNothing(o) == Polls(o) /\ net' = Polled(o)

\* NetServer{NetServer&&}, into an object that is constructed by it
ServerMoveConstruct(to, from) ==
    /\ net.node[to] = Fresh
    /\ net' = [net EXCEPT !.node[to] = net.node[from], !.node[from] = Fresh,
                          !.assigned = IF from \in @ THEN @ \cup {to} ELSE @]

\* NetServer::operator=(NetServer&&) moves the clients; the hosts stay.
ServerMoveAssign(to, from) ==
    /\ net.assigned = {}      \* bound
    /\ net' = [net EXCEPT !.node[to].peers = net.node[from].peers,
                         !.node[from].peers = <<>>,
                         !.assigned = @ \cup {to},
                         !.unclear = @ \cup ({net.node[to].mHost, net.node[from].mHost} \ {Nil})]

-----------------------------------------------------------------------------
(* NetClient *)

\* NetConnection::connect of the peer of a new host, where it finds one and that
\* answers in time
PeerConnected(s, h) == [HostCreated(s, h) EXCEPT !.peer[h][1].state = "live"]

\* NetClient::connect.  mHost is set last.
ClientConnect(o) ==
    LET s == Disconnected(net, o)
    IN \/ net' = s                                     \* -2: no host
       \/ \E h \in Unused(s) :
            \* -3: no peer, or no answer in time
            \/ net' = HostDestroyed(HostCreated(s, h), h)
            \* -4: no event data; disconnect does nothing without mHost
            \/ net' = [Disconnected(PeerConnected(s, h), o) EXCEPT !.lost.hosts = @ \cup {h}]
            \/ net' = [WithHost(PeerConnected(s, h), o, h) EXCEPT
                         !.node[o].mLastEvent = Clean,
                         !.node[o].peers = <<<<h, 1>>>>]

\* A disconnect event leaves mNode as it is.
ClientPollsDisconnect(o) ==
    LET s == Polled(o)
        h == s.node[o].mHost
    IN /\ Polls(o)
       /\ s.peer[h][1].state # "free"
       /\ net' = [s EXCEPT !.peer[h][1].state = "free"]

\* NetConnection::disconnect, which a client's owner reaches through mNode too.
ConnectionDisconnect(o) ==
    /\ net.node[o].peers # <<>>
    /\ net' = [PeersLeave(net, {Head(net.node[o].peers)}) EXCEPT !.node[o].peers = <<>>]

\* NetNode::operator= overwrites mHost and mLastEvent.
ClientMoveAssign(to, from) ==
    LET old == net.node[to]
    IN net' = [net EXCEPT
                 !.node[to] = net.node[from], !.node[from] = Fresh,
                 !.lost.hosts = @ \cup ({old.mHost} \ {Nil}),
                 !.lost.packets = @ \cup ({old.mLastEvent} \ {Nil, Clean})]

-----------------------------------------------------------------------------
Disconnect(o) == net' = Disconnected(net, o)

\* The destructor, and the next object in the same place.
Destroy(o) == net' = [Disconnected(net, o) EXCEPT !.node[o] = Fresh, !.assigned = @ \ {o}]

ServerNext(o) ==
    \/ ServerConnect(o)
    \/ \E a \in Addresses : DisconnectAddress(o, a)
    \/ \E i \in Slots, a \in Addresses : ServerPollsConnect(o, i, a)
    \/ \E i \in Slots : ServerPollsDisconnect(o, i)
    \/ \E i \in Slots : PollsReceive(o, i)
    \/ \E p \in Servers \ {o} : ServerMoveConstruct(o, p)
    \/ \E p \in Servers \ {o} : ServerMoveAssign(o, p)

ClientNext(o) ==
    \/ ClientConnect(o)
    \/ ClientPollsDisconnect(o)
    \/ PollsReceive(o, 1)
    \/ ConnectionDisconnect(o)
    \/ \E p \in Clients \ {o} : ClientMoveAssign(o, p)

NodeNext(o) == PollsNothing(o) \/ Disconnect(o) \/ Destroy(o)

ServersNext == \E o \in Servers : ServerNext(o) \/ NodeNext(o)

ClientsNext == \E o \in Clients : ClientNext(o) \/ NodeNext(o)

Next == ServersNext \/ ClientsNext

-----------------------------------------------------------------------------
Owners(h) == {o \in Nodes : net.node[o].mHost = h}

(* Every ENet host and every received packet has one object that gives it  *)
(* back, whatever fails on the way, but for the two ways to lose one: a    *)
(* client that gets no event data, and a move onto a node in use.          *)
EverythingHasOneOwner ==
    /\ {net.node[o].mHost : o \in Nodes} \ {Nil} \subseteq net.hosts
    /\ \A h \in net.hosts : Cardinality(Owners(h)) = IF h \in net.lost.hosts THEN 0 ELSE 1
    /\ \A k \in net.packets :
         Cardinality({o \in Nodes : net.node[o].mLastEvent = k})
             = IF k \in net.lost.packets THEN 0 ELSE 1

(* No object refers to a peer whose host was destroyed, as long as no      *)
(* server was assigned from another: that one got the peers of a host that *)
(* the other may destroy.                                                  *)
PeersExist ==
    \A o \in Nodes \ net.assigned, p \in Hosts \X Slots :
        Contains(net.node[o].peers, p) => p[1] \in net.hosts

(* The clients of a server are the peers that are connected, once each.    *)
(* The server finds a client by its address alone, so this needs that no   *)
(* two peers had one address at a time; a client that comes back before    *)
(* the event of its old connection was polled is enough to lose it.  A     *)
(* move assignment takes a server's clients away but not its host.         *)
ClientListIsCurrent ==
    \A o \in Servers :
        LET h == net.node[o].mHost
        IN (h # Nil /\ h \notin net.unclear /\ o \notin net.assigned) =>
             /\ ToSet(net.node[o].peers) =
                  {<<h, i>> : i \in {j \in Slots : net.peer[h][j].state = "live"}}
             /\ IsInjective(net.node[o].peers)
=============================================================================
