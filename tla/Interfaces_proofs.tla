-------------------------- MODULE Interfaces_proofs --------------------------
(***************************************************************************)
(* The parts of the library that stand between a program and something     *)
(* outside it: Networking, Function and ArgParser.  Each has an inductive  *)
(* invariant of its own, like the parts in Library_proofs:                 *)
(*                                                                         *)
(*   NetInv       Networking                                               *)
(*   FnInv        Function                                                 *)
(*   ArgsInv      ArgParser                                                *)
(*                                                                         *)
(* The comment before each part says what its invariant rests on.          *)
(***************************************************************************)
EXTENDS Library, CommonLemmas, FiniteSetTheorems

-----------------------------------------------------------------------------
(* Networking: every host and packet has one object that gives it back,    *)
(* and the list of a server is the connections of its host.                *)
(*                                                                         *)
(* NetInv rests on three things.  A host or a packet is in use when one    *)
(* object refers to it, and no object has a packet or a list without a     *)
(* host.  A host that does not exist has no connection.  And an object     *)
(* refers to peers of its own host, of a host that is gone, or of an       *)
(* unclear one: a move assignment moves the list of a server but not its   *)
(* host, so what a list says is only promised for a server that was not    *)
(* assigned to, with a host that no assignment and no second connection    *)
(* from one address has made unclear.                                      *)
PeerType == [state : {"free", "live", "leaving"}, address : Addresses \cup {Net!NoPeer.address}]

NodeType == [mHost : Hosts \cup {Net!Nil}, mLastEvent : Packets \cup {Net!Nil, Net!Clean},
             peers : Seq(Hosts \X Net!Slots)]

NetType == [node : [Net!Nodes -> NodeType], hosts : SUBSET Hosts,
            peer : [Hosts -> [Net!Slots -> PeerType]], packets : SUBSET Packets,
            lost : [hosts : SUBSET Hosts, packets : SUBSET Packets],
            assigned : SUBSET Net!Nodes, unclear : SUBSET Hosts]

\* Hosts and packets have one object each, but for those lost.
HostsOwned(s) ==
    /\ \A o \in Net!Nodes : s.node[o].mHost \in s.hosts \cup {Net!Nil}
    /\ \A o, p \in Net!Nodes :
         o # p /\ s.node[o].mHost = s.node[p].mHost => s.node[o].mHost = Net!Nil
    /\ s.lost.hosts \subseteq s.hosts
    /\ \A h \in s.hosts : h \in s.lost.hosts <=> \A o \in Net!Nodes : s.node[o].mHost # h

PacketsOwned(s) ==
    /\ \A o \in Net!Nodes : s.node[o].mLastEvent \in s.packets \cup {Net!Nil, Net!Clean}
    /\ \A o \in Net!Nodes : s.node[o].mHost = Net!Nil => s.node[o].mLastEvent = Net!Nil
    /\ \A o, p \in Net!Nodes :
         o # p /\ s.node[o].mLastEvent = s.node[p].mLastEvent => s.node[o].mLastEvent \notin s.packets
    /\ s.lost.packets \subseteq s.packets
    /\ \A k \in s.packets : k \in s.lost.packets <=> \A o \in Net!Nodes : s.node[o].mLastEvent # k

\* The peers an object refers to are its host's.
PeersOwned(s) ==
    \A o \in Net!Nodes \ s.assigned : \A i \in DOMAIN s.node[o].peers :
        s.node[o].peers[i][1] = s.node[o].mHost

Owned(s) ==
    s \in NetType /\ s.assigned \subseteq Servers /\ HostsOwned(s) /\ PacketsOwned(s) /\ PeersOwned(s)

LEMMA NetNames ==
    /\ Net!Nil \notin Hosts /\ Net!Nil \notin Packets /\ Net!Clean \notin Packets
    /\ Net!Slots = {1, 2} /\ Net!Nil # Net!Clean
BY NodesAreApart DEF Net!Nil, Net!Clean, Net!Slots

LEMMA NoPeerIsAPeer == Net!NoPeer \in PeerType
BY DEF Net!NoPeer, PeerType

LEMMA PeersLeaveKeeps ==
    ASSUME NEW s \in NetType, NEW P
    PROVE  LET t == Net!PeersLeave(s, P)
           IN  /\ t \in NetType /\ t.node = s.node /\ t.hosts = s.hosts /\ t.packets = s.packets
               /\ t.lost = s.lost /\ t.assigned = s.assigned /\ t.unclear = s.unclear
               /\ \A h \in Hosts, i \in Net!Slots :
                    /\ t.peer[h][i].address = s.peer[h][i].address
                    /\ t.peer[h][i].state = IF <<h, i>> \in P /\ s.peer[h][i].state = "live"
                                            THEN "leaving" ELSE s.peer[h][i].state
<1> DEFINE F(h, i) == IF <<h, i>> \in P /\ s.peer[h][i].state = "live"
                      THEN [s.peer[h][i] EXCEPT !.state = "leaving"] ELSE s.peer[h][i]
           q == [h \in Hosts |-> [i \in Net!Slots |-> F(h, i)]]
           t == Net!PeersLeave(s, P)
<1>1. \A h \in Hosts, i \in Net!Slots :
        /\ F(h, i) \in PeerType /\ F(h, i).address = s.peer[h][i].address
        /\ F(h, i).state = IF <<h, i>> \in P /\ s.peer[h][i].state = "live"
                           THEN "leaving" ELSE s.peer[h][i].state
  <2> SUFFICES ASSUME NEW h \in Hosts, NEW i \in Net!Slots
               PROVE  /\ F(h, i) \in PeerType /\ F(h, i).address = s.peer[h][i].address
                      /\ F(h, i).state = IF <<h, i>> \in P /\ s.peer[h][i].state = "live"
                                         THEN "leaving" ELSE s.peer[h][i].state
    OBVIOUS
  <2> DEFINE z == s.peer[h][i]
  <2>1. z \in PeerType
    BY DEF NetType
  <2> HIDE DEF z
  <2>2. [z EXCEPT !.state = "leaving"] \in PeerType
        /\ [z EXCEPT !.state = "leaving"].address = z.address
        /\ [z EXCEPT !.state = "leaving"].state = "leaving"
    BY <2>1 DEF PeerType
  <2> QED BY <2>1, <2>2 DEF z
<1>2. t = [s EXCEPT !.peer = q]
  BY DEF Net!PeersLeave
<1> HIDE DEF F
<1>3. q \in [Hosts -> [Net!Slots -> PeerType]]
  BY <1>1
<1>4. \A h \in Hosts, i \in Net!Slots : q[h][i] = F(h, i)
  OBVIOUS
<1> HIDE DEF q, t
<1>5. t \in NetType /\ t.peer = q /\ t.node = s.node /\ t.hosts = s.hosts /\ t.packets = s.packets
      /\ t.lost = s.lost /\ t.assigned = s.assigned /\ t.unclear = s.unclear
  BY <1>2, <1>3 DEF NetType
<1> QED BY <1>1, <1>4, <1>5 DEF t

LEMMA NodeSet ==
    ASSUME NEW s \in NetType, NEW o \in Net!Nodes, NEW n \in NodeType
    PROVE  LET t == [s EXCEPT !.node[o] = n]
           IN  /\ t \in NetType /\ t.node = [s.node EXCEPT ![o] = n] /\ t.hosts = s.hosts
               /\ t.peer = s.peer /\ t.packets = s.packets /\ t.lost = s.lost
               /\ t.assigned = s.assigned /\ t.unclear = s.unclear
BY DEF NetType

LEMMA NodeIsARecord ==
    ASSUME NEW s \in NetType, NEW o \in Net!Nodes
    PROVE  /\ s.node[o] \in NodeType
           /\ s.node[o].mHost \in Hosts \cup {Net!Nil}
           /\ s.node[o].mLastEvent \in Packets \cup {Net!Nil, Net!Clean}
           /\ s.node[o].peers \in Seq(Hosts \X Net!Slots)
BY DEF NetType, NodeType

LEMMA PacketCleaned ==
    ASSUME NEW s \in NetType, NEW o \in Net!Nodes
    PROVE  LET t == Net!clean_last_event_packet(s, o)
           IN  /\ t \in NetType
               /\ t.node = [s.node EXCEPT ![o].mLastEvent = Net!Clean] /\ t.hosts = s.hosts
               /\ t.peer = s.peer /\ t.packets = s.packets \ {s.node[o].mLastEvent}
               /\ t.lost = s.lost /\ t.assigned = s.assigned /\ t.unclear = s.unclear
<1> DEFINE n == [s.node[o] EXCEPT !.mLastEvent = Net!Clean]
           P == s.packets \ {s.node[o].mLastEvent}
           N == [s.node EXCEPT ![o] = n]
<1>1. n \in NodeType
  BY NodeIsARecord DEF NodeType
<1>2. P \in SUBSET Packets /\ N \in [Net!Nodes -> NodeType]
  BY <1>1 DEF NetType
<1>3. Net!clean_last_event_packet(s, o) = [s EXCEPT !.packets = P, !.node = N]
  BY DEF Net!clean_last_event_packet, NetType
<1>4. N = [s.node EXCEPT ![o].mLastEvent = Net!Clean]
  OBVIOUS
<1> HIDE DEF P, N
<1> QED BY <1>2, <1>3, <1>4 DEF NetType, P

LEMMA HostGone ==
    ASSUME NEW s \in NetType, NEW h \in Hosts
    PROVE  LET t == Net!HostDestroyed(s, h)
           IN  /\ t \in NetType /\ t.node = s.node /\ t.hosts = s.hosts \ {h}
               /\ t.packets = s.packets /\ t.lost = s.lost /\ t.assigned = s.assigned
               /\ t.unclear = s.unclear \ {h}
               /\ t.peer = [s.peer EXCEPT ![h] = [i \in Net!Slots |-> Net!NoPeer]]
<1> DEFINE q == [s.peer EXCEPT ![h] = [i \in Net!Slots |-> Net!NoPeer]]
           H == s.hosts \ {h}
           U == s.unclear \ {h}
<1>1. q \in [Hosts -> [Net!Slots -> PeerType]] /\ H \in SUBSET Hosts /\ U \in SUBSET Hosts
  BY NoPeerIsAPeer DEF NetType
<1>2. Net!HostDestroyed(s, h) = [s EXCEPT !.hosts = H, !.unclear = U, !.peer = q]
  BY DEF Net!HostDestroyed, NetType
<1> HIDE DEF q, H, U
<1> QED BY <1>1, <1>2 DEF NetType, q, H, U

\* What disconnect makes of s when o has a host
IsClosed(s, o, t) ==
    /\ t \in NetType
    /\ t.node = [s.node EXCEPT ![o] = Net!Fresh]
    /\ t.hosts = s.hosts \ {s.node[o].mHost}
    /\ t.packets = s.packets \ {s.node[o].mLastEvent}
    /\ t.lost = s.lost /\ t.assigned = s.assigned
    /\ t.unclear = s.unclear \ {s.node[o].mHost}
    /\ \A h \in Hosts \ {s.node[o].mHost}, i \in Net!Slots :
         /\ t.peer[h][i].address = s.peer[h][i].address
         /\ t.peer[h][i].state =
              IF <<h, i>> \in Net!ToSet(s.node[o].peers) /\ s.peer[h][i].state = "live"
              THEN "leaving" ELSE s.peer[h][i].state
    /\ t.peer[s.node[o].mHost] = [i \in Net!Slots |-> Net!NoPeer]

LEMMA DisconnectedIsClosed ==
    ASSUME NEW s \in NetType, NEW o \in Net!Nodes, s.node[o].mHost # Net!Nil
    PROVE  IsClosed(s, o, Net!Disconnected(s, o))
<1> DEFINE h == s.node[o].mHost
           P == Net!ToSet(s.node[o].peers)
           u == Net!PeersLeave(s, P)
           n == [u.node[o] EXCEPT !.peers = <<>>]
           v == [u EXCEPT !.node[o] = n]
           c == Net!clean_last_event_packet(v, o)
           d == Net!HostDestroyed(c, h)
           m == [[d.node[o] EXCEPT !.mHost = Net!Nil] EXCEPT !.mLastEvent = Net!Nil]
           t == [d EXCEPT !.node[o] = m]
<1>1. h \in Hosts
  BY NodeIsARecord
<1> HIDE DEF P
<1>2. /\ u \in NetType /\ u.node = s.node /\ u.hosts = s.hosts /\ u.packets = s.packets
      /\ u.lost = s.lost /\ u.assigned = s.assigned /\ u.unclear = s.unclear
      /\ \A g \in Hosts, i \in Net!Slots :
           /\ u.peer[g][i].address = s.peer[g][i].address
           /\ u.peer[g][i].state = IF <<g, i>> \in P /\ s.peer[g][i].state = "live"
                                   THEN "leaving" ELSE s.peer[g][i].state
  BY PeersLeaveKeeps
<1> HIDE DEF u
<1>3. n \in NodeType /\ n.mHost = h /\ n.mLastEvent = s.node[o].mLastEvent /\ n.peers = <<>>
  <2> DEFINE w == s.node[o]
  <2>1. w \in NodeType /\ n = [w EXCEPT !.peers = <<>>]
    BY <1>2, NodeIsARecord
  <2> HIDE DEF n
  <2>2. h = w.mHost
    OBVIOUS
  <2> HIDE DEF w, h
  <2>3. <<>> \in Seq(Hosts \X Net!Slots)
    OBVIOUS
  <2> QED BY <2>1, <2>2, <2>3 DEF NodeType, w
<1> HIDE DEF n
<1>4. /\ v \in NetType /\ v.node = [s.node EXCEPT ![o] = n] /\ v.hosts = s.hosts
      /\ v.peer = u.peer /\ v.packets = s.packets /\ v.lost = s.lost
      /\ v.assigned = s.assigned /\ v.unclear = s.unclear
  BY <1>2, <1>3, NodeSet
<1> HIDE DEF v
<1>5. v.node[o] = n
  BY <1>4 DEF NetType
<1>6. /\ c \in NetType /\ c.node = [v.node EXCEPT ![o].mLastEvent = Net!Clean]
      /\ c.hosts = v.hosts /\ c.peer = v.peer /\ c.packets = v.packets \ {v.node[o].mLastEvent}
      /\ c.lost = v.lost /\ c.assigned = v.assigned /\ c.unclear = v.unclear
  BY <1>4, PacketCleaned
<1> HIDE DEF c
<1>7. c.node[o].mHost = h /\ c.node[o].peers = <<>>
  <2> DEFINE w == v.node[o]
  <2>1. w \in NodeType /\ w.mHost = h /\ w.peers = <<>>
    BY <1>3, <1>5
  <2>2. c.node[o] = [w EXCEPT !.mLastEvent = Net!Clean]
    BY <1>4, <1>6 DEF NetType
  <2> HIDE DEF w
  <2> QED BY <2>1, <2>2 DEF NodeType
<1>0. /\ d \in NetType /\ d.node = c.node /\ d.hosts = c.hosts \ {h}
      /\ d.packets = c.packets /\ d.lost = c.lost
      /\ d.assigned = c.assigned /\ d.unclear = c.unclear \ {h}
      /\ d.peer = [c.peer EXCEPT ![h] = [i \in Net!Slots |-> Net!NoPeer]]
  <2>1. c \in NetType /\ h \in Hosts /\ d = Net!HostDestroyed(c, h)
    BY <1>1, <1>6
  <2> HIDE DEF d, h
  <2> QED BY <2>1, HostGone
<1> HIDE DEF d
<1>8. /\ d \in NetType /\ d.node = c.node /\ d.hosts = s.hosts \ {h}
      /\ d.packets = s.packets \ {s.node[o].mLastEvent} /\ d.lost = s.lost
      /\ d.assigned = s.assigned /\ d.unclear = s.unclear \ {h}
      /\ d.peer = [u.peer EXCEPT ![h] = [i \in Net!Slots |-> Net!NoPeer]]
  BY <1>0, <1>3, <1>4, <1>5, <1>6
<1>9. m = Net!Fresh /\ m \in NodeType
  <2> DEFINE z == d.node[o]
  <2>1. z \in NodeType /\ z.peers = <<>>
    BY <1>7, <1>8, NodeIsARecord
  <2> HIDE DEF z
  <2> DEFINE y == [z EXCEPT !.mHost = Net!Nil]
  <2>0. y \in NodeType /\ y.mHost = Net!Nil /\ y.peers = <<>>
    BY <2>1 DEF NodeType
  <2> HIDE DEF y
  <2>2. [y EXCEPT !.mLastEvent = Net!Nil]
          = [mHost |-> Net!Nil, mLastEvent |-> Net!Nil, peers |-> <<>>]
    BY <2>0 DEF NodeType
  <2>3. [mHost |-> Net!Nil, mLastEvent |-> Net!Nil, peers |-> <<>>] \in NodeType
    BY DEF NodeType
  <2> QED BY <2>2, <2>3 DEF y, z, Net!Fresh
<1>10. /\ t \in NetType /\ t.node = [d.node EXCEPT ![o] = Net!Fresh] /\ t.hosts = d.hosts
       /\ t.peer = d.peer /\ t.packets = d.packets /\ t.lost = d.lost
       /\ t.assigned = d.assigned /\ t.unclear = d.unclear
  BY <1>8, <1>9, NodeSet
<1>11. t = Net!Disconnected(s, o)
  <2>1. Net!Disconnected(s, o) = Net!NodeDisconnected(v, o)
    BY DEF Net!Disconnected, v, u, P, n
  <2>2. Net!NodeDisconnected(v, o) = [d EXCEPT !.node[o].mHost = Net!Nil,
                                               !.node[o].mLastEvent = Net!Nil]
    BY <1>7 DEF Net!NodeDisconnected, d, c
  <2>3. [d EXCEPT !.node[o].mHost = Net!Nil, !.node[o].mLastEvent = Net!Nil] = t
    <3>1. d \in NetType
      BY <1>8
    <3> HIDE DEF d
    <3> QED BY <3>1 DEF NetType, NodeType
  <2> QED BY <2>1, <2>2, <2>3
<1> HIDE DEF t, m
<1>12. t.node = [s.node EXCEPT ![o] = Net!Fresh]
  BY <1>4, <1>6, <1>8, <1>10 DEF NetType
<1>13. /\ t.peer[h] = [i \in Net!Slots |-> Net!NoPeer]
       /\ \A g \in Hosts \ {h} : t.peer[g] = u.peer[g]
  BY <1>1, <1>2, <1>8, <1>10 DEF NetType
<1>14. \A g \in Hosts \ {h}, i \in Net!Slots :
         /\ t.peer[g][i].address = s.peer[g][i].address
         /\ t.peer[g][i].state = IF <<g, i>> \in P /\ s.peer[g][i].state = "live"
                                 THEN "leaving" ELSE s.peer[g][i].state
  <2> SUFFICES ASSUME NEW g \in Hosts \ {h}, NEW i \in Net!Slots
               PROVE  /\ t.peer[g][i].address = s.peer[g][i].address
                      /\ t.peer[g][i].state =
                           IF <<g, i>> \in P /\ s.peer[g][i].state = "live"
                           THEN "leaving" ELSE s.peer[g][i].state
    OBVIOUS
  <2>1. t.peer[g][i] = u.peer[g][i]
    BY <1>13
  <2> HIDE DEF h
  <2> QED BY <1>2, <2>1
<1>15. /\ t \in NetType /\ t.hosts = s.hosts \ {h}
       /\ t.packets = s.packets \ {s.node[o].mLastEvent} /\ t.lost = s.lost
       /\ t.assigned = s.assigned /\ t.unclear = s.unclear \ {h}
  BY <1>8, <1>10
<1>16. IsClosed(s, o, t)
  BY <1>12, <1>13, <1>14, <1>15 DEF IsClosed, P
<1> QED BY <1>11, <1>16

LEMMA HostMade ==
    ASSUME NEW s \in NetType, NEW h \in Hosts
    PROVE  LET t == Net!HostCreated(s, h)
           IN  /\ t \in NetType /\ t.node = s.node /\ t.hosts = s.hosts \cup {h}
               /\ t.peer = s.peer /\ t.packets = s.packets /\ t.lost = s.lost
               /\ t.assigned = s.assigned /\ t.unclear = s.unclear
BY DEF Net!HostCreated, NetType

LEMMA HostTaken ==
    ASSUME NEW s \in NetType, NEW o \in Net!Nodes, NEW h \in Hosts
    PROVE  LET t == Net!WithHost(s, o, h)
           IN  /\ t \in NetType /\ t.node = [s.node EXCEPT ![o].mHost = h]
               /\ t.hosts = s.hosts \cup {h}
               /\ t.peer = s.peer /\ t.packets = s.packets /\ t.lost = s.lost
               /\ t.assigned = s.assigned /\ t.unclear = s.unclear
<1> DEFINE u == Net!HostCreated(s, h)
           n == [u.node[o] EXCEPT !.mHost = h]
           t == [u EXCEPT !.node[o] = n]
<1>1. /\ u \in NetType /\ u.node = s.node /\ u.hosts = s.hosts \cup {h}
      /\ u.peer = s.peer /\ u.packets = s.packets /\ u.lost = s.lost
      /\ u.assigned = s.assigned /\ u.unclear = s.unclear
  BY HostMade
<1>2. Net!WithHost(s, o, h) = [u EXCEPT !.node[o].mHost = h]
  BY DEF Net!WithHost
<1> HIDE DEF u
<1>3. n \in NodeType
  BY <1>1, NodeIsARecord DEF NodeType
<1>4. [u EXCEPT !.node[o].mHost = h] = t
  OBVIOUS
<1> HIDE DEF n
<1>5. /\ t \in NetType /\ t.node = [u.node EXCEPT ![o] = n] /\ t.hosts = u.hosts
      /\ t.peer = u.peer /\ t.packets = u.packets /\ t.lost = u.lost
      /\ t.assigned = u.assigned /\ t.unclear = u.unclear
  BY <1>1, <1>3, NodeSet
<1> HIDE DEF t
<1>6. [u.node EXCEPT ![o] = n] = [s.node EXCEPT ![o].mHost = h]
  BY <1>1 DEF n
<1> QED BY <1>1, <1>2, <1>4, <1>5, <1>6

\* One element taken out of a list
LEMMA OneRemoved ==
    ASSUME NEW T, NEW list \in Seq(T), NEW i \in 1 .. Len(list)
    PROVE  LET r == SubSeq(list, 1, i - 1) \o SubSeq(list, i + 1, Len(list))
           IN  /\ r \in Seq(T) /\ Len(r) = Len(list) - 1
               /\ \A j \in 1 .. Len(list) - 1 : r[j] = IF j < i THEN list[j] ELSE list[j + 1]
<1> DEFINE m == Len(list)
           a == SubSeq(list, 1, i - 1)
           b == SubSeq(list, i + 1, m)
           r == a \o b
<1>1. m \in Nat /\ i \in Nat /\ 1 <= i /\ i <= m /\ \A j \in 1 .. m : list[j] \in T
  OBVIOUS
<1>2. a \in Seq(T) /\ Len(a) = i - 1 /\ \A j \in 1 .. i - 1 : a[j] = list[j]
  BY <1>1
<1>3. b \in Seq(T) /\ Len(b) = m - i /\ \A j \in 1 .. m - i : b[j] = list[i + j]
  BY <1>1
<1> HIDE DEF a, b, m
<1>4. /\ r \in Seq(T) /\ Len(r) = Len(a) + Len(b)
      /\ \A j \in 1 .. Len(a) : r[j] = a[j]
      /\ \A j \in Len(a) + 1 .. Len(a) + Len(b) : r[j] = b[j - Len(a)]
  <2>1. a \in Seq(T) /\ b \in Seq(T)
    BY <1>2, <1>3
  <2> QED BY <2>1, Joined
<1> HIDE DEF r
<1>5. ASSUME NEW j \in 1 .. m - 1
      PROVE  r[j] = IF j < i THEN list[j] ELSE list[j + 1]
  <2>1. CASE j < i
    <3>1. j \in 1 .. i - 1
      BY <1>1, <2>1
    <3>2. r[j] = a[j]
      BY <1>2, <1>4, <3>1
    <3> QED BY <1>2, <2>1, <3>1, <3>2
  <2>2. CASE ~(j < i)
    <3> DEFINE x == j - (i - 1)
    <3>1. x \in 1 .. m - i /\ i + x = j + 1 /\ j \in i .. m - 1
      BY <1>1, <2>2
    <3>2. i - 1 + 1 = i /\ i - 1 + (m - i) = m - 1
      BY <1>1
    <3>3. r[j] = b[x]
      BY <1>2, <1>3, <1>4, <3>1, <3>2
    <3> HIDE DEF x
    <3>4. b[x] = list[j + 1]
      BY <1>3, <3>1
    <3> QED BY <2>2, <3>3, <3>4
  <2> QED BY <2>1, <2>2
<1>6. Len(r) = m - 1
  BY <1>1, <1>2, <1>3, <1>4
<1> QED BY <1>4, <1>5, <1>6 DEF r, a, b, m

(* A call that changes one object, and with it what the object gives back. *)
LEMMA OneNodeReplaced ==
    ASSUME NEW s, Owned(s), NEW o \in Net!Nodes, NEW n \in NodeType, NEW t \in NetType,
           t.node = [s.node EXCEPT ![o] = n], t.lost = s.lost,
           t.assigned \subseteq Servers, s.assigned \ {o} \subseteq t.assigned,
           n.mHost = s.node[o].mHost \/ n.mHost \notin s.hosts,
           t.hosts = (s.hosts \ {s.node[o].mHost}) \cup ({n.mHost} \ {Net!Nil}),
           n.mLastEvent = s.node[o].mLastEvent \/ n.mLastEvent \notin s.packets,
           t.packets = (s.packets \ {s.node[o].mLastEvent})
                           \cup ({n.mLastEvent} \ {Net!Nil, Net!Clean}),
           n.mHost = Net!Nil => n.mLastEvent = Net!Nil,
           o \in t.assigned \/ \A i \in DOMAIN n.peers : n.peers[i][1] = n.mHost
    PROVE  Owned(t)
<1> DEFINE m == s.node[o]
<1>1. /\ t.node[o] = n /\ \A p \in Net!Nodes \ {o} : t.node[p] = s.node[p]
      /\ n.mHost \in Hosts \cup {Net!Nil}
      /\ n.mLastEvent \in Packets \cup {Net!Nil, Net!Clean}
  BY DEF Owned, NetType, NodeType
<1>2. /\ m.mHost \in s.hosts \cup {Net!Nil}
      /\ \A p \in Net!Nodes \ {o} : s.node[p].mHost = m.mHost => m.mHost = Net!Nil
      /\ m.mHost \notin s.lost.hosts
  BY DEF Owned, HostsOwned, NetType
<1>3. HostsOwned(t)
  <2>0. HostsOwned(s) /\ s.hosts \subseteq Hosts /\ Net!Nil \notin Hosts
    BY NetNames DEF Owned, NetType
  <2> HIDE DEF m
  <2>1. \A p \in Net!Nodes : t.node[p].mHost \in t.hosts \cup {Net!Nil}
    BY <1>1, <1>2, <2>0 DEF HostsOwned, m
  <2>2. \A p \in Net!Nodes \ {o} :
          t.node[p].mHost = t.node[o].mHost => t.node[p].mHost = Net!Nil
    BY <1>1, <1>2, <2>0 DEF HostsOwned, m
  <2>3. \A p, q \in Net!Nodes :
          p # q /\ t.node[p].mHost = t.node[q].mHost => t.node[p].mHost = Net!Nil
    <3> SUFFICES ASSUME NEW p \in Net!Nodes, NEW q \in Net!Nodes, p # q,
                        t.node[p].mHost = t.node[q].mHost
                 PROVE  t.node[p].mHost = Net!Nil
      OBVIOUS
    <3>1. CASE p = o \/ q = o
      BY <2>2, <3>1
    <3>2. CASE p # o /\ q # o
      BY <1>1, <2>0, <3>2 DEF HostsOwned
    <3> QED BY <3>1, <3>2
  <2>4. t.lost.hosts \subseteq t.hosts
    BY <1>1, <1>2, <2>0 DEF HostsOwned, m
  <2>5. ASSUME NEW h \in t.hosts
        PROVE  h \in t.lost.hosts <=> \A p \in Net!Nodes : t.node[p].mHost # h
    <3>1. CASE h = n.mHost
      <4>1. h \notin s.lost.hosts
        BY <1>2, <2>0, <3>1 DEF HostsOwned, m
      <4> QED BY <1>1, <3>1, <4>1
    <3>2. CASE h # n.mHost
      <4>1. h \in s.hosts /\ h # m.mHost
        BY <3>2 DEF m
      <4>2. h \in s.lost.hosts <=> \A p \in Net!Nodes : s.node[p].mHost # h
        BY <2>0, <4>1 DEF HostsOwned
      <4> QED BY <1>1, <3>2, <4>1, <4>2 DEF m
    <3> QED BY <3>1, <3>2
  <2> QED BY <2>1, <2>3, <2>4, <2>5 DEF HostsOwned
<1>4. PacketsOwned(t)
  <2>0. /\ PacketsOwned(s) /\ s.packets \subseteq Packets
        /\ Net!Nil \notin Packets /\ Net!Clean \notin Packets
    BY NetNames DEF Owned, NetType
  <2>7. /\ m.mLastEvent \in s.packets \cup {Net!Nil, Net!Clean}
        /\ m.mLastEvent \notin s.lost.packets
        /\ \A p \in Net!Nodes \ {o} : s.node[p].mLastEvent = m.mLastEvent
                                      => m.mLastEvent \notin s.packets
    BY <2>0 DEF PacketsOwned
  <2> HIDE DEF m
  <2>1. \A p \in Net!Nodes : t.node[p].mLastEvent \in t.packets \cup {Net!Nil, Net!Clean}
    <3> SUFFICES ASSUME NEW p \in Net!Nodes
                 PROVE  t.node[p].mLastEvent \in t.packets \cup {Net!Nil, Net!Clean}
      OBVIOUS
    <3>1. CASE p = o
      BY <1>1, <3>1
    <3>2. CASE p # o
      <4>1. t.node[p] = s.node[p] /\ s.node[p].mLastEvent \in s.packets \cup {Net!Nil, Net!Clean}
        BY <1>1, <2>0, <3>2 DEF PacketsOwned
      <4> QED BY <2>7, <3>2, <4>1 DEF m
    <3> QED BY <3>1, <3>2
  <2>6. \A p \in Net!Nodes : t.node[p].mHost = Net!Nil => t.node[p].mLastEvent = Net!Nil
    BY <1>1, <2>0 DEF PacketsOwned
  <2>2. \A p \in Net!Nodes \ {o} :
          t.node[p].mLastEvent = t.node[o].mLastEvent => t.node[p].mLastEvent \notin t.packets
    <3> SUFFICES ASSUME NEW p \in Net!Nodes \ {o}, s.node[p].mLastEvent = n.mLastEvent
                 PROVE  n.mLastEvent \notin t.packets
      BY <1>1
    <3>1. n.mLastEvent \notin s.packets
      BY <2>7 DEF m
    <3>2. n.mLastEvent \in {Net!Nil, Net!Clean}
      BY <2>0, <3>1 DEF PacketsOwned
    <3>3. t.packets \subseteq Packets
      BY DEF NetType
    <3> QED BY <2>0, <3>2, <3>3
  <2>3. \A p, q \in Net!Nodes :
          p # q /\ t.node[p].mLastEvent = t.node[q].mLastEvent
          => t.node[p].mLastEvent \notin t.packets
    <3> SUFFICES ASSUME NEW p \in Net!Nodes, NEW q \in Net!Nodes, p # q,
                        t.node[p].mLastEvent = t.node[q].mLastEvent
                 PROVE  t.node[p].mLastEvent \notin t.packets
      OBVIOUS
    <3>1. CASE p = o \/ q = o
      BY <2>2, <3>1
    <3>2. CASE p # o /\ q # o
      <4>1. s.node[p].mLastEvent = s.node[q].mLastEvent /\ t.node[p] = s.node[p]
        BY <1>1, <3>2
      <4>2. s.node[p].mLastEvent \notin s.packets
        BY <2>0, <4>1 DEF PacketsOwned
      <4>3. s.node[p].mLastEvent \in {Net!Nil, Net!Clean}
        BY <2>0, <4>2 DEF PacketsOwned
      <4>4. t.packets \subseteq Packets
        BY DEF NetType
      <4> QED BY <2>0, <4>1, <4>3, <4>4
    <3> QED BY <3>1, <3>2
  <2>4. t.lost.packets \subseteq t.packets
    BY <2>0, <2>7 DEF PacketsOwned, m
  <2>5. ASSUME NEW k \in t.packets
        PROVE  k \in t.lost.packets <=> \A p \in Net!Nodes : t.node[p].mLastEvent # k
    <3>1. CASE k = n.mLastEvent
      <4>1. k \notin s.lost.packets
        BY <2>7, <2>0, <3>1 DEF PacketsOwned, m
      <4> QED BY <1>1, <3>1, <4>1
    <3>2. CASE k # n.mLastEvent
      <4>1. k \in s.packets /\ k # m.mLastEvent
        BY <3>2 DEF m
      <4>2. k \in s.lost.packets <=> \A p \in Net!Nodes : s.node[p].mLastEvent # k
        BY <2>0, <4>1 DEF PacketsOwned
      <4> QED BY <1>1, <3>2, <4>1, <4>2 DEF m
    <3> QED BY <3>1, <3>2
  <2> QED BY <2>1, <2>3, <2>4, <2>5, <2>6 DEF PacketsOwned
<1>5. PeersOwned(t)
  <2> SUFFICES ASSUME NEW p \in Net!Nodes \ t.assigned, NEW i \in DOMAIN t.node[p].peers
               PROVE  t.node[p].peers[i][1] = t.node[p].mHost
    BY DEF PeersOwned
  <2>1. CASE p = o
    BY <1>1, <2>1
  <2>2. CASE p # o
    <3>1. p \in Net!Nodes \ s.assigned /\ t.node[p] = s.node[p]
      BY <1>1, <2>2
    <3> QED BY <3>1 DEF Owned, PeersOwned
  <2> QED BY <2>1, <2>2
<1> QED BY <1>3, <1>4, <1>5 DEF Owned

LEMMA FreshIsANode ==
    /\ Net!Fresh \in NodeType /\ Net!Fresh.mHost = Net!Nil /\ Net!Fresh.mLastEvent = Net!Nil
    /\ Net!Fresh.peers = <<>>
BY DEF Net!Fresh, NodeType

LEMMA DisconnectedIsOwned ==
    ASSUME NEW s, Owned(s), NEW o \in Net!Nodes
    PROVE  /\ Owned(Net!Disconnected(s, o))
           /\ Net!Disconnected(s, o).node[o].mHost = Net!Nil
           /\ Net!Disconnected(s, o).assigned = s.assigned
<1> DEFINE t == Net!Disconnected(s, o)
<1>0. s \in NetType
  BY DEF Owned
<1>1. CASE s.node[o].mHost = Net!Nil
  BY <1>1 DEF Net!Disconnected
<1>2. CASE s.node[o].mHost # Net!Nil
  <2>1. IsClosed(s, o, t)
    BY <1>0, <1>2, DisconnectedIsClosed
  <2> HIDE DEF t
  <2>2. t \in NetType /\ t.node = [s.node EXCEPT ![o] = Net!Fresh]
        /\ t.hosts = s.hosts \ {s.node[o].mHost} /\ t.packets = s.packets \ {s.node[o].mLastEvent}
        /\ t.lost = s.lost /\ t.assigned = s.assigned
    BY <2>1 DEF IsClosed
  <2>3. Net!Nil \notin s.hosts /\ Net!Nil \notin s.packets /\ s.assigned \subseteq Servers
    BY <1>0, NetNames DEF NetType, Owned
  <2>4. Owned(t)
    BY <2>2, <2>3, FreshIsANode, OneNodeReplaced
  <2>5. t.node[o] = Net!Fresh
    BY <1>0, <2>2 DEF NetType
  <2> QED BY <2>2, <2>4, <2>5, FreshIsANode DEF t
<1> QED BY <1>1, <1>2

LEMMA StillOwned ==
    ASSUME NEW s, Owned(s), NEW t \in NetType, t.node = s.node, t.hosts = s.hosts,
           t.packets = s.packets, t.lost = s.lost, t.assigned = s.assigned
    PROVE  Owned(t)
BY DEF Owned, HostsOwned, PacketsOwned, PeersOwned

LEMMA ListReplaced ==
    ASSUME NEW s, Owned(s), NEW o \in Net!Nodes, NEW n \in NodeType, NEW t \in NetType,
           t.node = [s.node EXCEPT ![o] = n], t.lost = s.lost,
           t.assigned = s.assigned, t.hosts = s.hosts, t.packets = s.packets,
           n.mHost = s.node[o].mHost, n.mLastEvent = s.node[o].mLastEvent,
           o \in t.assigned \/ \A i \in DOMAIN n.peers : n.peers[i][1] = n.mHost
    PROVE  Owned(t)
<1>1. /\ n.mHost \in s.hosts \cup {Net!Nil}
      /\ n.mLastEvent \in s.packets \cup {Net!Nil, Net!Clean}
      /\ n.mHost = Net!Nil => n.mLastEvent = Net!Nil
      /\ t.assigned \subseteq Servers
  BY DEF Owned, HostsOwned, PacketsOwned
<1>2. Net!Nil \notin s.hosts /\ Net!Nil \notin s.packets /\ Net!Clean \notin s.packets
  BY NetNames DEF Owned, NetType
<1>3. t.hosts = (s.hosts \ {s.node[o].mHost}) \cup ({n.mHost} \ {Net!Nil})
  BY <1>1, <1>2
<1>4. t.packets = (s.packets \ {s.node[o].mLastEvent})
                      \cup ({n.mLastEvent} \ {Net!Nil, Net!Clean})
  BY <1>1, <1>2
<1> QED BY <1>1, <1>3, <1>4, OneNodeReplaced

LEMMA ServersAreNodes == Servers \subseteq Net!Nodes /\ Clients \subseteq Net!Nodes
BY DEF Net!Nodes

(* NetServer: its list of clients.                                         *)

\* list has the peers of h that are connected, and no address is used twice.
ListCurrent(s, h, list) ==
    /\ \A j, k \in DOMAIN list : list[j] = list[k] => j = k
    /\ \A j \in DOMAIN list : list[j][1] = h /\ s.peer[h][list[j][2]].state = "live"
    /\ \A i \in Net!Slots : s.peer[h][i].state = "live" => \E j \in DOMAIN list : list[j] = <<h, i>>
    /\ \A i, j \in Net!Slots :
         i # j /\ s.peer[h][i].state # "free" /\ s.peer[h][j].state # "free"
         => s.peer[h][i].address # s.peer[h][j].address

\* A host that does not exist has no connection.
NoStrayPeers(s) == \A h \in Hosts \ s.hosts, i \in Net!Slots : s.peer[h][i].state = "free"

\* An object refers to peers of its own host, of a host that is gone, or of one
\* whose server was assigned from.
PeersTraced(s) ==
    \A o \in Net!Nodes : \A j \in DOMAIN s.node[o].peers :
        s.node[o].peers[j][1] \in {s.node[o].mHost} \cup s.unclear \cup (Hosts \ s.hosts)

ListsCurrent(s) ==
    \A o \in Servers \ s.assigned :
        s.node[o].mHost \in Hosts \ s.unclear
        => ListCurrent(s, s.node[o].mHost, s.node[o].peers)

NetInv(s) == Owned(s) /\ NoStrayPeers(s) /\ PeersTraced(s) /\ ListsCurrent(s)

SamePeers(s, t, h) ==
    \A i \in Net!Slots : /\ t.peer[h][i].state = s.peer[h][i].state
                         /\ t.peer[h][i].address = s.peer[h][i].address

LEMMA ListStaysCurrent ==
    ASSUME NEW s, NEW t, NEW h \in Hosts, NEW list \in Seq(Hosts \X Net!Slots),
           SamePeers(s, t, h), ListCurrent(s, h, list)
    PROVE  ListCurrent(t, h, list)
<1>1. \A j \in DOMAIN list : list[j][2] \in Net!Slots
  OBVIOUS
<1>2. \A i \in Net!Slots : /\ t.peer[h][i].state = s.peer[h][i].state
                           /\ t.peer[h][i].address = s.peer[h][i].address
  BY DEF SamePeers
<1>3. \A j \in DOMAIN list : list[j][1] = h /\ t.peer[h][list[j][2]].state = "live"
  BY <1>1, <1>2 DEF ListCurrent
<1>4. \A i \in Net!Slots : t.peer[h][i].state = "live" => \E j \in DOMAIN list : list[j] = <<h, i>>
  BY <1>2 DEF ListCurrent
<1>5. ASSUME NEW i \in Net!Slots, NEW j \in Net!Slots, i # j,
             t.peer[h][i].state # "free", t.peer[h][j].state # "free"
      PROVE  t.peer[h][i].address # t.peer[h][j].address
  BY <1>2, <1>5 DEF ListCurrent
<1>6. \A j, k \in DOMAIN list : list[j] = list[k] => j = k
  BY DEF ListCurrent
<1> QED BY <1>3, <1>4, <1>5, <1>6 DEF ListCurrent

LEMMA ListedIsLive ==
    ASSUME NEW s, NEW h, NEW list \in Seq(Hosts \X Net!Slots), NEW j \in 1 .. Len(list),
           ListCurrent(s, h, list)
    PROVE  /\ list[j][2] \in Net!Slots /\ list[j] = <<h, list[j][2]>>
           /\ s.peer[h][list[j][2]].state = "live"
<1>1. list[j] \in Hosts \X Net!Slots /\ j \in DOMAIN list
  OBVIOUS
<1>2. list[j][1] = h /\ s.peer[h][list[j][2]].state = "live"
  BY <1>1 DEF ListCurrent
<1> QED BY <1>1, <1>2

LEMMA NothingListed ==
    ASSUME NEW s, NEW h \in Hosts, \A i \in Net!Slots : s.peer[h][i].state = "free"
    PROVE  ListCurrent(s, h, <<>>)
BY DEF ListCurrent

(* Others' lists stay as they are when only one object changes and the     *)
(* peers of the hosts that others rely on do not.                          *)
LEMMA OthersStayCurrent ==
    ASSUME NEW s, NetInv(s), NEW t, Owned(t), NEW o \in Net!Nodes, NEW n \in NodeType,
           t.node = [s.node EXCEPT ![o] = n],
           s.assigned \ {o} \subseteq t.assigned,
           s.unclear \subseteq t.unclear \cup (Hosts \ t.hosts),
           \A h \in Hosts \ ({s.node[o].mHost, n.mHost} \cup s.unclear) :
               h \in s.hosts => SamePeers(s, t, h),
           \A p \in Net!Nodes \ {o} : \A j \in DOMAIN s.node[p].peers :
               s.node[p].peers[j][1] \in t.hosts => s.node[p].peers[j][1] \in s.hosts,
           NoStrayPeers(t),
           \A j \in DOMAIN n.peers :
               n.peers[j][1] \in {n.mHost} \cup t.unclear \cup (Hosts \ t.hosts),
           o \in Servers \ t.assigned /\ n.mHost \in Hosts \ t.unclear
               => ListCurrent(t, n.mHost, n.peers)
    PROVE  NetInv(t)
<1>0. s \in NetType /\ t \in NetType
  BY DEF NetInv, Owned
<1>1. t.node[o] = n /\ \A p \in Net!Nodes \ {o} : t.node[p] = s.node[p]
  BY <1>0 DEF NetType
<1>2. PeersTraced(t)
  <2> SUFFICES ASSUME NEW p \in Net!Nodes, NEW j \in DOMAIN t.node[p].peers
               PROVE  t.node[p].peers[j][1]
                          \in {t.node[p].mHost} \cup t.unclear \cup (Hosts \ t.hosts)
    BY DEF PeersTraced
  <2>1. CASE p = o
    BY <1>1, <2>1
  <2>2. CASE p # o
    <3> DEFINE e == s.node[p].peers[j][1]
    <3>1. t.node[p] = s.node[p] /\ p \in Net!Nodes \ {o}
      BY <1>1, <2>2
    <3>2. e \in {s.node[p].mHost} \cup s.unclear \cup (Hosts \ s.hosts)
      BY <3>1 DEF NetInv, PeersTraced
    <3>3. e \in t.hosts => e \in s.hosts
      BY <3>1
    <3> HIDE DEF e
    <3>4. e \in {s.node[p].mHost} \cup t.unclear \cup (Hosts \ t.hosts)
      BY <3>2, <3>3
    <3> QED BY <3>1, <3>4 DEF e
  <2> QED BY <2>1, <2>2
<1>3. ListsCurrent(t)
  <2> SUFFICES ASSUME NEW p \in Servers \ t.assigned, t.node[p].mHost \in Hosts \ t.unclear
               PROVE  ListCurrent(t, t.node[p].mHost, t.node[p].peers)
    BY DEF ListsCurrent
  <2>0. p \in Net!Nodes
    BY ServersAreNodes
  <2>1. CASE p = o
    BY <1>1, <2>1
  <2>2. CASE p # o
    <3> DEFINE h == s.node[p].mHost
               list == s.node[p].peers
    <3>1. t.node[p] = s.node[p] /\ p \notin s.assigned /\ h \in Hosts \ t.unclear
      BY <1>1, <2>0, <2>2
    <3>2. h # Net!Nil
      BY <3>1, NetNames
    <3>3. h \in s.hosts /\ h \in t.hosts
      BY <2>0, <3>1, <3>2 DEF NetInv, Owned, HostsOwned
    <3>4. h # s.node[o].mHost
      BY <2>0, <2>2, <3>2 DEF NetInv, Owned, HostsOwned
    <3>5. h # n.mHost
      BY <1>1, <2>0, <2>2, <3>1, <3>2 DEF Owned, HostsOwned
    <3>6. h \notin s.unclear
      BY <3>1, <3>3
    <3>7. list \in Seq(Hosts \X Net!Slots)
      BY <1>0, <2>0, NodeIsARecord
    <3>8. ListCurrent(s, h, list)
      BY <3>1, <3>6 DEF NetInv, ListsCurrent
    <3> HIDE DEF h, list
    <3>9. SamePeers(s, t, h)
      BY <3>1, <3>3, <3>4, <3>5, <3>6
    <3>10. ListCurrent(t, h, list)
      BY <3>1, <3>7, <3>8, <3>9, ListStaysCurrent
    <3> QED BY <3>1, <3>10 DEF h, list
  <2> QED BY <2>1, <2>2
<1> QED BY <1>2, <1>3 DEF NetInv

(* The peers an object may make leave belong to no one else's clear host.  *)
LEMMA OthersPeersStay ==
    ASSUME NEW s, NetInv(s), NEW o \in Net!Nodes, NEW j \in DOMAIN s.node[o].peers,
           NEW h \in s.hosts \ ({s.node[o].mHost} \cup s.unclear)
    PROVE  s.node[o].peers[j][1] # h
BY DEF NetInv, PeersTraced

LEMMA DisconnectedIsCurrent ==
    ASSUME NEW s, NetInv(s), NEW o \in Net!Nodes
    PROVE  NetInv(Net!Disconnected(s, o))
<1> DEFINE t == Net!Disconnected(s, o)
           h == s.node[o].mHost
           P == Net!ToSet(s.node[o].peers)
<1>0. s \in NetType /\ Owned(s) /\ NoStrayPeers(s)
  BY DEF NetInv, Owned
<1>1. CASE h = Net!Nil
  BY <1>1 DEF Net!Disconnected
<1>2. CASE h # Net!Nil
  <2>1. IsClosed(s, o, t)
    BY <1>0, <1>2, DisconnectedIsClosed
  <2>2. Owned(t)
    BY <1>0, DisconnectedIsOwned
  <2>3. h \in Hosts /\ s.node[o].peers \in Seq(Hosts \X Net!Slots)
    BY <1>0, <1>2, NodeIsARecord
  <2> HIDE DEF t
  <2>4. /\ t \in NetType /\ t.node = [s.node EXCEPT ![o] = Net!Fresh]
        /\ t.hosts = s.hosts \ {h} /\ t.assigned = s.assigned /\ t.unclear = s.unclear \ {h}
        /\ \A g \in Hosts \ {h}, i \in Net!Slots :
             /\ t.peer[g][i].address = s.peer[g][i].address
             /\ t.peer[g][i].state = IF <<g, i>> \in P /\ s.peer[g][i].state = "live"
                                     THEN "leaving" ELSE s.peer[g][i].state
        /\ t.peer[h] = [i \in Net!Slots |-> Net!NoPeer]
    BY <2>1 DEF IsClosed
  <2>5. ASSUME NEW g \in Hosts \ ({h} \cup s.unclear), g \in s.hosts
        PROVE  SamePeers(s, t, g)
    <3>1. \A i \in Net!Slots : <<g, i>> \notin P
      <4> SUFFICES ASSUME NEW i \in Net!Slots, <<g, i>> \in P
                   PROVE  FALSE
        OBVIOUS
      <4>1. PICK j \in DOMAIN s.node[o].peers : s.node[o].peers[j] = <<g, i>>
        BY <2>3 DEF Net!ToSet
      <4>2. s.node[o].peers[j][1] = g
        BY <4>1
      <4>3. g \in s.hosts \ ({s.node[o].mHost} \cup s.unclear)
        BY <2>5
      <4>4. s.node[o].peers[j][1] # g
        BY <4>3, OthersPeersStay
      <4> QED BY <4>2, <4>4
    <3> HIDE DEF h, P
    <3>2. SUFFICES ASSUME NEW i \in Net!Slots
                   PROVE  /\ t.peer[g][i].state = s.peer[g][i].state
                          /\ t.peer[g][i].address = s.peer[g][i].address
      BY DEF SamePeers
    <3>3. g \in Hosts \ {h} /\ <<g, i>> \notin P
      BY <3>1
    <3> QED BY <2>4, <3>3
  <2>6. NoStrayPeers(t)
    <3> SUFFICES ASSUME NEW g \in Hosts \ t.hosts, NEW i \in Net!Slots
                 PROVE  t.peer[g][i].state = "free"
      BY DEF NoStrayPeers
    <3>1. CASE g = h
      BY <2>4, <3>1 DEF Net!NoPeer
    <3>2. CASE g # h
      <4>1. s.peer[g][i].state = "free"
        BY <1>0, <2>4, <3>2 DEF NoStrayPeers
      <4>2. g \in Hosts \ {h}
        BY <3>2
      <4> HIDE DEF h, P
      <4> QED BY <2>4, <4>1, <4>2
    <3> QED BY <3>1, <3>2
  <2>7. DOMAIN Net!Fresh.peers = {} /\ Net!Fresh.mHost = Net!Nil /\ Net!Nil \notin Hosts
    BY FreshIsANode, NetNames
  <2>8. /\ s.unclear \subseteq t.unclear \cup (Hosts \ t.hosts)
        /\ s.assigned \ {o} \subseteq t.assigned
        /\ t.hosts \subseteq s.hosts
    BY <2>3, <2>4
  <2>9. \A g \in Hosts \ ({s.node[o].mHost, Net!Fresh.mHost} \cup s.unclear) :
               g \in s.hosts => SamePeers(s, t, g)
    BY <2>5
  <2>10. NetInv(t)
    <3> DEFINE n == Net!Fresh
    <3>1. /\ n \in NodeType /\ t.node = [s.node EXCEPT ![o] = n]
          /\ \A j \in DOMAIN n.peers :
               n.peers[j][1] \in {n.mHost} \cup t.unclear \cup (Hosts \ t.hosts)
          /\ n.mHost \notin Hosts
          /\ \A g \in Hosts \ ({s.node[o].mHost, n.mHost} \cup s.unclear) :
               g \in s.hosts => SamePeers(s, t, g)
      BY <2>4, <2>7, <2>9, FreshIsANode
    <3>2. \A p \in Net!Nodes \ {o} : \A j \in DOMAIN s.node[p].peers :
               s.node[p].peers[j][1] \in t.hosts => s.node[p].peers[j][1] \in s.hosts
      BY <2>8
    <3> HIDE DEF n, h, P
    <3> QED BY <2>2, <2>6, <2>8, <3>1, <3>2, OthersStayCurrent
  <2> QED BY <2>10 DEF t
<1> QED BY <1>1, <1>2

(* Only what o has, and the peers of its own host, change.                 *)
LEMMA OneHostChanges ==
    ASSUME NEW s, NetInv(s), NEW t, Owned(t), NEW o \in Net!Nodes, NEW n \in NodeType,
           t.node = [s.node EXCEPT ![o] = n], t.assigned = s.assigned, t.hosts = s.hosts,
           s.unclear \subseteq t.unclear, n.mHost = s.node[o].mHost,
           \A h \in s.hosts \ ({n.mHost} \cup s.unclear) : SamePeers(s, t, h),
           NoStrayPeers(t),
           \A j \in DOMAIN n.peers : \/ n.peers[j][1] = n.mHost
                                     \/ \E k \in DOMAIN s.node[o].peers :
                                            n.peers[j] = s.node[o].peers[k],
           o \in Servers \ s.assigned /\ n.mHost \in Hosts \ t.unclear
               => ListCurrent(t, n.mHost, n.peers)
    PROVE  NetInv(t)
<1>1. /\ s.assigned \ {o} \subseteq t.assigned
      /\ s.unclear \subseteq t.unclear \cup (Hosts \ t.hosts)
      /\ \A p \in Net!Nodes \ {o} : \A j \in DOMAIN s.node[p].peers :
            s.node[p].peers[j][1] \in t.hosts => s.node[p].peers[j][1] \in s.hosts
  OBVIOUS
<1>2. \A j \in DOMAIN n.peers :
         n.peers[j][1] \in {n.mHost} \cup t.unclear \cup (Hosts \ t.hosts)
  <2>1. \A k \in DOMAIN s.node[o].peers :
           s.node[o].peers[k][1] \in {s.node[o].mHost} \cup s.unclear \cup (Hosts \ s.hosts)
    BY DEF NetInv, PeersTraced
  <2> QED BY <2>1
<1>3. \A h \in Hosts \ ({s.node[o].mHost, n.mHost} \cup s.unclear) :
         h \in s.hosts => SamePeers(s, t, h)
  OBVIOUS
<1>4. o \in Servers \ t.assigned /\ n.mHost \in Hosts \ t.unclear
         => ListCurrent(t, n.mHost, n.peers)
  OBVIOUS
<1> QED BY <1>1, <1>2, <1>3, <1>4, OthersStayCurrent

\* What the list of an object without a change of its own promises stays true.
LEMMA StillCurrent ==
    ASSUME NEW s, NetInv(s), NEW o \in Net!Nodes, o \in Servers \ s.assigned,
           s.node[o].mHost \in Hosts \ s.unclear
    PROVE  ListCurrent(s, s.node[o].mHost, s.node[o].peers)
BY DEF NetInv, ListsCurrent

LEMMA PolledKeeps ==
    ASSUME NetInv(net), NEW o \in Net!Nodes, Net!Polls(o)
    PROVE  LET s == Net!Polled(o)
           IN  /\ NetInv(s) /\ Owned(s) /\ s.node[o].mHost = net.node[o].mHost
               /\ s.node[o].mHost \in Hosts \cap s.hosts
               /\ s.node[o].mLastEvent = Net!Clean /\ s.node[o].peers = net.node[o].peers
               /\ \A p \in Net!Nodes \ {o} : s.node[p] = net.node[p]
               /\ s.hosts = net.hosts /\ s.peer = net.peer /\ s.assigned = net.assigned
               /\ s.unclear = net.unclear
<1> DEFINE s == Net!Polled(o)
           n == [net.node[o] EXCEPT !.mLastEvent = Net!Clean]
           w == net.node[o]
<1>0. net \in NetType /\ w.mHost # Net!Nil /\ Owned(net)
  BY DEF NetInv, Owned, Net!Polls
<1>1. /\ s \in NetType /\ s.node = [net.node EXCEPT ![o] = n] /\ s.hosts = net.hosts
      /\ s.peer = net.peer /\ s.packets = net.packets \ {w.mLastEvent}
      /\ s.lost = net.lost /\ s.assigned = net.assigned /\ s.unclear = net.unclear
  BY <1>0, PacketCleaned DEF Net!Polled
<1> HIDE DEF s
<1>2. w \in NodeType
  BY <1>0, NodeIsARecord
<1>3. /\ n = [w EXCEPT !.mLastEvent = Net!Clean] /\ w.mHost \in net.hosts
  BY <1>0 DEF Owned, HostsOwned
<1> HIDE DEF n
<1>4. s.node[o] = n /\ \A p \in Net!Nodes \ {o} : s.node[p] = net.node[p]
  BY <1>0, <1>1 DEF NetType
<1>5. o \in net.assigned \/ \A i \in DOMAIN w.peers : w.peers[i][1] = w.mHost
  BY <1>0 DEF Owned, PeersOwned
<1>6. net.assigned \subseteq Servers
  BY <1>0 DEF Owned
<1>61. s.packets = (net.packets \ {w.mLastEvent})
           \cup ({Net!Clean} \ {Net!Nil, Net!Clean}) /\ Net!Clean \notin net.packets
  BY <1>0, <1>1, NetNames DEF NetType
<1>7. s.hosts = (net.hosts \ {w.mHost}) \cup ({w.mHost} \ {Net!Nil})
  BY <1>0, <1>1, <1>3
<1> HIDE DEF w
<1>8. n \in NodeType /\ n.mHost = w.mHost /\ n.mLastEvent = Net!Clean /\ n.peers = w.peers
  BY <1>2, <1>3 DEF NodeType
<1>9. Owned(s)
  <2>1. n.mHost = net.node[o].mHost /\ n.mHost # Net!Nil
    BY <1>0, <1>8 DEF w
  <2>2. o \in s.assigned \/ \A i \in DOMAIN n.peers : n.peers[i][1] = n.mHost
    BY <1>1, <1>5, <1>8
  <2>3. s.assigned \subseteq Servers /\ net.assigned \ {o} \subseteq s.assigned
    BY <1>1, <1>6
  <2> QED BY <1>0, <1>1, <1>61, <1>7, <1>8, <2>1, <2>2, <2>3, OneNodeReplaced DEF w
<1>10. w.mHost \in Hosts \cap s.hosts
  BY <1>0, <1>1, <1>3 DEF NetType
<1>11. NetInv(s)
  <2>1. \A h \in Hosts : SamePeers(net, s, h)
    BY <1>1 DEF SamePeers
  <2>2. NoStrayPeers(s)
    BY <1>1 DEF NetInv, NoStrayPeers
  <2>3. \A j \in DOMAIN n.peers : n.peers[j] = net.node[o].peers[j] /\ j \in DOMAIN net.node[o].peers
    BY <1>8 DEF w
  <2>4. ASSUME o \in Servers \ net.assigned, n.mHost \in Hosts \ s.unclear
        PROVE  ListCurrent(s, n.mHost, n.peers)
    <3>1. ListCurrent(net, w.mHost, w.peers) /\ w.peers \in Seq(Hosts \X Net!Slots)
      BY <1>0, <1>1, <1>8, <2>4, StillCurrent, NodeIsARecord DEF w
    <3> QED BY <1>8, <2>1, <2>4, <3>1, ListStaysCurrent
  <2>5. n.mHost = net.node[o].mHost
    BY <1>8 DEF w
  <2>6. s.unclear = net.unclear /\ s.hosts = net.hosts /\ s.assigned = net.assigned
        /\ s.node = [net.node EXCEPT ![o] = n] /\ net.hosts \subseteq Hosts
    BY <1>0, <1>1 DEF NetType
  <2> QED BY <1>8, <1>9, <2>1, <2>2, <2>3, <2>4, <2>5, <2>6, OneHostChanges
<1> QED BY <1>1, <1>4, <1>8, <1>9, <1>10, <1>11 DEF s, w

\* A list without its element at place i
Cut(list, i) == SubSeq(list, 1, i - 1) \o SubSeq(list, i + 1, Len(list))

LEMMA FirstOfPlaces ==
    ASSUME NEW s \in NetType, NEW o \in Net!Nodes, NEW a, Net!Places(s, o, a) # {}
    PROVE  /\ Net!FirstPlace(s, o, a) \in 1 .. Len(s.node[o].peers)
           /\ Net!AddressOf(s, s.node[o].peers[Net!FirstPlace(s, o, a)]) = a
<1> DEFINE P == Net!Places(s, o, a)
           F == Net!FirstPlace(s, o, a)
<1>1. P \subseteq 1 .. Len(s.node[o].peers)
  BY NodeIsARecord DEF Net!Places
<1>2. P \subseteq Nat
  BY <1>1
<1>3. F \in P
  <2> HIDE DEF P
  <2>1. \E m \in P : \A n \in P : m <= n
    BY <1>2, LeastNumber DEF P
  <2> QED BY <2>1 DEF Net!FirstPlace, P
<1>4. Net!AddressOf(s, s.node[o].peers[F]) = a
  BY <1>3 DEF Net!Places
<1> QED BY <1>1, <1>3, <1>4

LEMMA AddressRemoved ==
    ASSUME NEW s \in NetType, NEW o \in Net!Nodes, NEW a, Net!Places(s, o, a) # {}
    PROVE  LET t == Net!WithoutAddress(s, o, a)
               i == Net!FirstPlace(s, o, a)
               n == t.node[o]
           IN  /\ t \in NetType /\ n \in NodeType /\ t.node = [s.node EXCEPT ![o] = n]
               /\ n.mHost = s.node[o].mHost /\ n.mLastEvent = s.node[o].mLastEvent
               /\ n.peers = Cut(s.node[o].peers, i)
               /\ t.hosts = s.hosts /\ t.peer = s.peer /\ t.packets = s.packets
               /\ t.lost = s.lost /\ t.assigned = s.assigned /\ t.unclear = s.unclear
<1> DEFINE t == Net!WithoutAddress(s, o, a)
           i == Net!FirstPlace(s, o, a)
           w == s.node[o]
           r == Cut(w.peers, i)
           n == [w EXCEPT !.peers = r]
<1>1. w \in NodeType /\ w.peers \in Seq(Hosts \X Net!Slots) /\ i \in 1 .. Len(w.peers)
  BY NodeIsARecord, FirstOfPlaces
<1>2. r \in Seq(Hosts \X Net!Slots)
  <2> HIDE DEF i, w
  <2> QED BY <1>1, OneRemoved DEF Cut
<1>3. t = [s EXCEPT !.node[o] = n]
  BY DEF Net!WithoutAddress, Cut
<1> HIDE DEF t, r, i
<1>4. n = [w EXCEPT !.peers = r]
  OBVIOUS
<1> HIDE DEF w
<1>5. n \in NodeType /\ n.mHost = w.mHost /\ n.mLastEvent = w.mLastEvent /\ n.peers = r
  BY <1>1, <1>2 DEF NodeType
<1> HIDE DEF n
<1>6. /\ t \in NetType /\ t.node = [s.node EXCEPT ![o] = n] /\ t.hosts = s.hosts
      /\ t.peer = s.peer /\ t.packets = s.packets /\ t.lost = s.lost
      /\ t.assigned = s.assigned /\ t.unclear = s.unclear
  BY <1>3, <1>5, NodeSet
<1>7. t.node[o] = n
  BY <1>6 DEF NetType
<1> QED BY <1>5, <1>6, <1>7 DEF t, r, i, w

LEMMA WithoutAddressIsOwned ==
    ASSUME NEW s, Owned(s), NEW o \in Net!Nodes, NEW a
    PROVE  Owned(Net!WithoutAddress(s, o, a))
<1> DEFINE t == Net!WithoutAddress(s, o, a)
           i == Net!FirstPlace(s, o, a)
           n == t.node[o]
           w == s.node[o]
<1>0. s \in NetType
  BY DEF Owned
<1>1. CASE Net!Places(s, o, a) = {}
  BY <1>1 DEF Net!WithoutAddress
<1>2. CASE Net!Places(s, o, a) # {}
  <2>1. /\ t \in NetType /\ n \in NodeType /\ t.node = [s.node EXCEPT ![o] = n]
        /\ n.mHost = w.mHost /\ n.mLastEvent = w.mLastEvent
        /\ n.peers = Cut(w.peers, i)
        /\ t.hosts = s.hosts /\ t.packets = s.packets
        /\ t.lost = s.lost /\ t.assigned = s.assigned
    BY <1>0, <1>2, AddressRemoved
  <2>2. i \in 1 .. Len(w.peers) /\ w.peers \in Seq(Hosts \X Net!Slots)
    BY <1>0, <1>2, FirstOfPlaces, NodeIsARecord
  <2>3. o \in s.assigned \/ \A j \in 1 .. Len(w.peers) : w.peers[j][1] = w.mHost
    BY <2>2 DEF Owned, PeersOwned
  <2> HIDE DEF n, i, t, w
  <2>4. /\ n.peers \in Seq(Hosts \X Net!Slots) /\ Len(n.peers) = Len(w.peers) - 1
        /\ \A j \in 1 .. Len(w.peers) - 1 :
             n.peers[j] = IF j < i THEN w.peers[j] ELSE w.peers[j + 1]
    <3> DEFINE list == w.peers
    <3>1. list \in Seq(Hosts \X Net!Slots) /\ i \in 1 .. Len(list) /\ n.peers = Cut(list, i)
      BY <2>1, <2>2
    <3> HIDE DEF list
    <3>2. /\ Cut(list, i) \in Seq(Hosts \X Net!Slots) /\ Len(Cut(list, i)) = Len(list) - 1
          /\ \A j \in 1 .. Len(list) - 1 :
               Cut(list, i)[j] = IF j < i THEN list[j] ELSE list[j + 1]
      BY <3>1, OneRemoved DEF Cut
    <3> QED BY <3>1, <3>2 DEF list
  <2>5. o \in s.assigned \/ \A j \in DOMAIN n.peers : n.peers[j][1] = n.mHost
    <3> SUFFICES ASSUME o \notin s.assigned, NEW j \in 1 .. Len(n.peers)
                 PROVE  n.peers[j][1] = w.mHost
      BY <2>1, <2>4
    <3>1. j \in 1 .. Len(w.peers) - 1 /\ j \in 1 .. Len(w.peers) /\ j + 1 \in 1 .. Len(w.peers)
      BY <2>2, <2>4
    <3> QED BY <2>3, <2>4, <3>1
  <2> QED BY <2>1, <2>5, ListReplaced DEF t, w
<1> QED BY <1>1, <1>2

LEMMA CutHasOnlyThose ==
    ASSUME NEW T, NEW list \in Seq(T), NEW i \in 1 .. Len(list)
    PROVE  \A j \in DOMAIN Cut(list, i) : \E k \in DOMAIN list : Cut(list, i)[j] = list[k]
<1> DEFINE r == Cut(list, i)
<1>1. /\ r \in Seq(T) /\ Len(r) = Len(list) - 1
      /\ \A j \in 1 .. Len(list) - 1 : r[j] = IF j < i THEN list[j] ELSE list[j + 1]
  BY OneRemoved DEF Cut
<1> HIDE DEF r
<1> SUFFICES ASSUME NEW j \in DOMAIN r
             PROVE  \E k \in DOMAIN list : r[j] = list[k]
  BY DEF r
<1>2. j \in 1 .. Len(list) - 1 /\ j \in 1 .. Len(list) /\ j + 1 \in 1 .. Len(list)
      /\ DOMAIN list = 1 .. Len(list)
  BY <1>1
<1> QED BY <1>1, <1>2

LEMMA ListWithoutAddress ==
    ASSUME NEW s, Owned(s), NEW o \in Net!Nodes, NEW a
    PROVE  LET t == Net!WithoutAddress(s, o, a)
               n == t.node[o]
               list == s.node[o].peers
           IN  /\ Owned(t) /\ n \in NodeType /\ t.node = [s.node EXCEPT ![o] = n]
               /\ n.mHost = s.node[o].mHost /\ t.hosts = s.hosts /\ t.peer = s.peer
               /\ t.assigned = s.assigned /\ t.unclear = s.unclear
               /\ \A j \in DOMAIN n.peers : \E k \in DOMAIN list : n.peers[j] = list[k]
               /\ n.peers = IF Net!Places(s, o, a) = {} THEN list
                            ELSE Cut(list, Net!FirstPlace(s, o, a))
<1> DEFINE t == Net!WithoutAddress(s, o, a)
           n == t.node[o]
           list == s.node[o].peers
           i == Net!FirstPlace(s, o, a)
<1>0. s \in NetType /\ Owned(t) /\ list \in Seq(Hosts \X Net!Slots)
  BY WithoutAddressIsOwned, NodeIsARecord DEF Owned
<1>1. CASE Net!Places(s, o, a) = {}
  <2>1. t = s
    BY <1>1 DEF Net!WithoutAddress
  <2>2. s.node[o] \in NodeType /\ s.node = [s.node EXCEPT ![o] = s.node[o]]
    BY <1>0, NodeIsARecord DEF NetType
  <2> QED BY <1>0, <1>1, <2>1, <2>2
<1>2. CASE Net!Places(s, o, a) # {}
  <2>1. /\ n \in NodeType /\ t.node = [s.node EXCEPT ![o] = n]
        /\ n.mHost = s.node[o].mHost
        /\ n.peers = Cut(list, i)
        /\ t.hosts = s.hosts /\ t.peer = s.peer
        /\ t.assigned = s.assigned /\ t.unclear = s.unclear
    BY <1>0, <1>2, AddressRemoved
  <2>2. i \in 1 .. Len(list)
    BY <1>0, <1>2, FirstOfPlaces
  <2> HIDE DEF n, t, i, list
  <2>3. \A j \in DOMAIN n.peers : \E k \in DOMAIN list : n.peers[j] = list[k]
    BY <1>0, <2>1, <2>2, CutHasOnlyThose
  <2> QED BY <1>0, <1>2, <2>1, <2>3 DEF n, t, i, list
<1> QED BY <1>1, <1>2

(* A peer that is no longer connected leaves a list that has it.           *)
LEMMA CutIsCurrent ==
    ASSUME NEW s, NEW t, NEW h \in Hosts, NEW list \in Seq(Hosts \X Net!Slots),
           ListCurrent(s, h, list), NEW i \in 1 .. Len(list),
           \A k \in Net!Slots \ {list[i][2]} :
               /\ t.peer[h][k].state = s.peer[h][k].state
               /\ t.peer[h][k].address = s.peer[h][k].address,
           t.peer[h][list[i][2]].state # "live",
           \/ t.peer[h][list[i][2]].state = "free"
           \/ t.peer[h][list[i][2]].address = s.peer[h][list[i][2]].address
    PROVE  ListCurrent(t, h, Cut(list, i))
<1> DEFINE r == Cut(list, i)
           x == list[i][2]
<1>1. /\ r \in Seq(Hosts \X Net!Slots) /\ Len(r) = Len(list) - 1
      /\ \A j \in 1 .. Len(list) - 1 : r[j] = IF j < i THEN list[j] ELSE list[j + 1]
  BY OneRemoved DEF Cut
<1>2. /\ DOMAIN list = 1 .. Len(list) /\ Len(list) \in Nat /\ i \in 1 .. Len(list)
      /\ \A j \in 1 .. Len(list) : list[j] \in Hosts \X Net!Slots
  OBVIOUS
<1>3. /\ \A j, k \in 1 .. Len(list) : list[j] = list[k] => j = k
      /\ \A j \in 1 .. Len(list) : list[j][1] = h /\ s.peer[h][list[j][2]].state = "live"
  BY <1>2 DEF ListCurrent
<1>4. x \in Net!Slots /\ list[i] = <<h, x>> /\ s.peer[h][x].state = "live"
  BY <1>2, <1>3
<1> HIDE DEF r
<1> DEFINE At(j) == IF j < i THEN j ELSE j + 1
<1>5. ASSUME NEW j \in DOMAIN r
      PROVE  At(j) \in 1 .. Len(list) \ {i} /\ r[j] = list[At(j)]
  <2>1. j \in 1 .. Len(list) - 1
    BY <1>1, <1>5
  <2> QED BY <1>1, <1>2, <2>1
<1>6. ASSUME NEW j \in DOMAIN r, NEW k \in DOMAIN r, r[j] = r[k] PROVE j = k
  <2>1. At(j) = At(k)
    BY <1>3, <1>5, <1>6
  <2>2. j \in 1 .. Len(list) - 1 /\ k \in 1 .. Len(list) - 1
    BY <1>1
  <2> QED BY <1>2, <2>1, <2>2
<1>7. ASSUME NEW j \in DOMAIN r
      PROVE  r[j][1] = h /\ t.peer[h][r[j][2]].state = "live"
  <2> DEFINE y == At(j)
  <2>1. y \in 1 .. Len(list) /\ y # i /\ r[j] = list[y]
    BY <1>5
  <2> HIDE DEF y
  <2>2. list[y][1] = h /\ s.peer[h][list[y][2]].state = "live" /\ list[y] = <<h, list[y][2]>>
        /\ list[y][2] \in Net!Slots
    BY <1>2, <1>3, <2>1
  <2>3. list[y][2] # x
    BY <1>2, <1>3, <1>4, <2>1, <2>2
  <2> QED BY <2>1, <2>2, <2>3
<1>8. ASSUME NEW k \in Net!Slots, t.peer[h][k].state = "live"
      PROVE  \E j \in DOMAIN r : r[j] = <<h, k>>
  <2>1. k # x /\ s.peer[h][k].state = "live"
    BY <1>8
  <2>2. PICK y \in 1 .. Len(list) : list[y] = <<h, k>>
    BY <1>2, <2>1 DEF ListCurrent
  <2>3. y # i
    BY <1>4, <2>1, <2>2
  <2> DEFINE j == IF y < i THEN y ELSE y - 1
  <2>4. j \in 1 .. Len(list) - 1 /\ At(j) = y
    BY <1>2, <2>3
  <2> HIDE DEF j
  <2>5. j \in DOMAIN r /\ r[j] = list[y]
    BY <1>1, <1>5, <2>4
  <2> QED BY <2>2, <2>5
<1>9. ASSUME NEW j \in Net!Slots, NEW k \in Net!Slots, j # k,
             t.peer[h][j].state # "free", t.peer[h][k].state # "free"
      PROVE  t.peer[h][j].address # t.peer[h][k].address
  <2>1. \A m \in Net!Slots : t.peer[h][m].state # "free" =>
           s.peer[h][m].state # "free" /\ t.peer[h][m].address = s.peer[h][m].address
    BY <1>4
  <2> QED BY <1>9, <2>1 DEF ListCurrent
<1> QED BY <1>6, <1>7, <1>8, <1>9 DEF ListCurrent, r

LEMMA PeerChanged ==
    ASSUME NEW s \in NetType, NEW h \in Hosts, NEW i \in Net!Slots, NEW z \in PeerType
    PROVE  LET t == [s EXCEPT !.peer[h][i] = z]
           IN  /\ t \in NetType /\ t.node = s.node /\ t.hosts = s.hosts
               /\ t.packets = s.packets /\ t.lost = s.lost
               /\ t.assigned = s.assigned /\ t.unclear = s.unclear
               /\ t.peer[h][i] = z
               /\ \A g \in Hosts, j \in Net!Slots : <<g, j>> # <<h, i>> => t.peer[g][j] = s.peer[g][j]
<1> DEFINE q == [s.peer EXCEPT ![h][i] = z]
<1>1. /\ q \in [Hosts -> [Net!Slots -> PeerType]] /\ q[h][i] = z
      /\ \A g \in Hosts, j \in Net!Slots : <<g, j>> # <<h, i>> => q[g][j] = s.peer[g][j]
  <2> DEFINE p == s.peer
  <2>1. p \in [Hosts -> [Net!Slots -> PeerType]]
    BY DEF NetType
  <2> HIDE DEF p
  <2>2. [p EXCEPT ![h][i] = z] \in [Hosts -> [Net!Slots -> PeerType]]
    BY <2>1
  <2>3. [p EXCEPT ![h][i] = z][h][i] = z
    BY <2>1
  <2>4. \A g \in Hosts, j \in Net!Slots :
          <<g, j>> # <<h, i>> => [p EXCEPT ![h][i] = z][g][j] = p[g][j]
    BY <2>1
  <2> QED BY <2>2, <2>3, <2>4 DEF p
<1>2. [s EXCEPT !.peer[h][i] = z] = [s EXCEPT !.peer = q]
  BY DEF NetType
<1> HIDE DEF q
<1> QED BY <1>1, <1>2 DEF NetType

LEMMA PeerFreed ==
    ASSUME NEW s \in NetType, NEW h \in Hosts, NEW i \in Net!Slots
    PROVE  LET t == [s EXCEPT !.peer[h][i].state = "free"]
           IN  /\ t \in NetType /\ t.node = s.node /\ t.hosts = s.hosts
               /\ t.packets = s.packets /\ t.lost = s.lost
               /\ t.assigned = s.assigned /\ t.unclear = s.unclear
               /\ t.peer[h][i].state = "free" /\ t.peer[h][i].address = s.peer[h][i].address
               /\ \A g \in Hosts, j \in Net!Slots : <<g, j>> # <<h, i>> => t.peer[g][j] = s.peer[g][j]
<1> DEFINE y == s.peer[h][i]
           z == [y EXCEPT !.state = "free"]
           t == [s EXCEPT !.peer[h][i] = z]
<1>1. y \in PeerType
  BY DEF NetType
<1>2. [s EXCEPT !.peer[h][i].state = "free"] = t
  BY DEF NetType
<1> HIDE DEF y
<1>3. z \in PeerType /\ z.state = "free" /\ z.address = y.address
  BY <1>1 DEF PeerType
<1> HIDE DEF z
<1>4. /\ t \in NetType /\ t.node = s.node /\ t.hosts = s.hosts
      /\ t.packets = s.packets /\ t.lost = s.lost
      /\ t.assigned = s.assigned /\ t.unclear = s.unclear
      /\ t.peer[h][i] = z
      /\ \A g \in Hosts, j \in Net!Slots : <<g, j>> # <<h, i>> => t.peer[g][j] = s.peer[g][j]
  BY <1>3, PeerChanged
<1> HIDE DEF t
<1> QED BY <1>2, <1>3, <1>4 DEF y

LEMMA ForgottenKeeps ==
    ASSUME NEW s \in NetType, NEW h \in Hosts, NEW i \in Net!Slots
    PROVE  LET t == Net!Forgotten(s, <<h, i>>)
           IN  /\ t \in NetType /\ t.node = s.node /\ t.hosts = s.hosts
               /\ t.packets = s.packets /\ t.lost = s.lost
               /\ t.assigned = s.assigned /\ t.unclear = s.unclear
               /\ t.peer[h][i] \in {s.peer[h][i], Net!NoPeer}
               /\ \A g \in Hosts, j \in Net!Slots : <<g, j>> # <<h, i>> => t.peer[g][j] = s.peer[g][j]
<1> DEFINE t == [s EXCEPT !.peer[h][i] = Net!NoPeer]
<1>1. /\ t \in NetType /\ t.node = s.node /\ t.hosts = s.hosts
      /\ t.packets = s.packets /\ t.lost = s.lost
      /\ t.assigned = s.assigned /\ t.unclear = s.unclear
      /\ t.peer[h][i] = Net!NoPeer
      /\ \A g \in Hosts, j \in Net!Slots : <<g, j>> # <<h, i>> => t.peer[g][j] = s.peer[g][j]
  BY NoPeerIsAPeer, PeerChanged
<1>2. Net!Forgotten(s, <<h, i>>) = s \/ Net!Forgotten(s, <<h, i>>) = t
  BY DEF Net!Forgotten
<1> HIDE DEF t
<1> QED BY <1>1, <1>2

(* The host of an object becomes h, and its last event one without packet. *)
LEMMA HostTakenIsOwned ==
    ASSUME NEW s, Owned(s), NEW o \in Net!Nodes, s.node[o].mHost = Net!Nil,
           NEW h \in Hosts \ s.hosts, NEW t \in NetType, NEW n \in NodeType,
           t.node = [s.node EXCEPT ![o] = n], t.hosts = s.hosts \cup {h}, t.packets = s.packets,
           t.lost = s.lost, t.assigned = s.assigned,
           n.mHost = h, n.mLastEvent \in {Net!Nil, Net!Clean},
           o \in s.assigned \/ \A i \in DOMAIN n.peers : n.peers[i][1] = h
    PROVE  Owned(t)
<1>1. /\ h # Net!Nil /\ Net!Nil \notin s.hosts
      /\ Net!Nil \notin s.packets /\ Net!Clean \notin s.packets
  BY NetNames DEF Owned, NetType
<1>2. s.node[o].mLastEvent = Net!Nil /\ s.assigned \subseteq Servers
  BY DEF Owned, PacketsOwned
<1>3. t.hosts = (s.hosts \ {s.node[o].mHost}) \cup ({n.mHost} \ {Net!Nil})
  BY <1>1
<1>4. t.packets = (s.packets \ {s.node[o].mLastEvent})
                      \cup ({n.mLastEvent} \ {Net!Nil, Net!Clean})
  BY <1>1, <1>2
<1> QED BY <1>1, <1>2, <1>3, <1>4, OneNodeReplaced

\* With no host, what the list of an object has is not promised to exist.
LEMMA NoHostNoPeers ==
    ASSUME NEW s, Owned(s), NEW o \in Net!Nodes, s.node[o].mHost = Net!Nil
    PROVE  o \in s.assigned \/ s.node[o].peers = <<>>
<1> SUFFICES ASSUME o \notin s.assigned, s.node[o].peers # <<>>
             PROVE  FALSE
  OBVIOUS
<1>1. s.node[o].peers \in Seq(Hosts \X Net!Slots)
  BY NodeIsARecord DEF Owned
<1>2. 1 \in DOMAIN s.node[o].peers /\ s.node[o].peers[1] \in Hosts \X Net!Slots
  BY <1>1
<1>3. s.node[o].peers[1][1] = Net!Nil
  BY <1>2 DEF Owned, PeersOwned
<1> QED BY <1>2, <1>3, NetNames

LEMMA UnusedIsUnlisted ==
    ASSUME NEW s \in NetType, NEW h \in Net!Unused(s), NEW p \in Net!Nodes,
           NEW j \in DOMAIN s.node[p].peers
    PROVE  s.node[p].peers[j][1] # h
<1> DEFINE list == s.node[p].peers
<1>1. list \in Seq(Hosts \X Net!Slots)
  BY NodeIsARecord
<1>2. list[j] \in Hosts \X Net!Slots /\ j \in 1 .. Len(list)
  BY <1>1
<1>3. \A i \in Net!Slots : list[j] # <<h, i>>
  BY <1>2 DEF Net!Unused, Net!Contains
<1> HIDE DEF list
<1> QED BY <1>2, <1>3 DEF list

LEMMA HostTakenKeeps ==
    ASSUME NEW s, NetInv(s), NEW o \in Net!Nodes, s.node[o].mHost = Net!Nil,
           NEW h \in Net!Unused(s), NEW t \in NetType, NEW n \in NodeType,
           t.node = [s.node EXCEPT ![o] = n], t.hosts = s.hosts \cup {h}, t.packets = s.packets,
           t.lost = s.lost, t.assigned = s.assigned, t.unclear = s.unclear,
           n.mHost = h, n.mLastEvent \in {Net!Nil, Net!Clean},
           \/ n.peers = s.node[o].peers /\ SamePeers(s, t, h)
           \/ o \notin Servers /\ \A i \in DOMAIN n.peers : n.peers[i][1] = h,
           \A g \in Hosts \ {h} : SamePeers(s, t, g)
    PROVE  NetInv(t)
<1>0. Owned(s) /\ s \in NetType /\ h \in Hosts \ s.hosts
  BY DEF NetInv, Owned, Net!Unused
<1>1. o \in s.assigned \/ s.node[o].peers = <<>>
  BY <1>0, NoHostNoPeers
<1>2. o \in s.assigned \/ \A i \in DOMAIN n.peers : n.peers[i][1] = h
  BY <1>1
<1>3. Owned(t)
  BY <1>0, <1>2, HostTakenIsOwned
<1>4. NoStrayPeers(t)
  BY DEF NetInv, NoStrayPeers, SamePeers
<1>5. \A p \in Net!Nodes : \A j \in DOMAIN s.node[p].peers : s.node[p].peers[j][1] # h
  BY <1>0, UnusedIsUnlisted
<1>6. \A j \in DOMAIN n.peers :
         n.peers[j][1] \in {n.mHost} \cup t.unclear \cup (Hosts \ t.hosts)
  <2> SUFFICES ASSUME NEW j \in DOMAIN n.peers, n.peers[j][1] # h
               PROVE  n.peers[j][1] \in t.unclear \cup (Hosts \ t.hosts)
    OBVIOUS
  <2>1. n.peers = s.node[o].peers /\ s.node[o].peers \in Seq(Hosts \X Net!Slots)
    BY <1>0, NodeIsARecord
  <2>2. n.peers[j][1] \in {Net!Nil} \cup s.unclear \cup (Hosts \ s.hosts)
    BY <2>1 DEF NetInv, PeersTraced
  <2>3. n.peers[j] \in Hosts \X Net!Slots
    BY <2>1
  <2>4. n.peers[j][1] # Net!Nil
    BY <2>3, NetNames
  <2> QED BY <2>2, <2>4
<1>7. ASSUME o \in Servers \ t.assigned, n.mHost \in Hosts \ t.unclear
      PROVE  ListCurrent(t, n.mHost, n.peers)
  <2>1. n.peers = <<>> /\ SamePeers(s, t, h)
    BY <1>1, <1>7
  <2>2. \A i \in Net!Slots : t.peer[h][i].state = "free"
    BY <1>0, <2>1 DEF NetInv, NoStrayPeers, SamePeers
  <2> QED BY <1>0, <2>1, <2>2, NothingListed
<1>8. /\ s.assigned \ {o} \subseteq t.assigned
      /\ s.unclear \subseteq t.unclear \cup (Hosts \ t.hosts)
      /\ \A p \in Net!Nodes \ {o} : \A j \in DOMAIN s.node[p].peers :
            s.node[p].peers[j][1] \in t.hosts => s.node[p].peers[j][1] \in s.hosts
      /\ \A g \in Hosts \ ({s.node[o].mHost, n.mHost} \cup s.unclear) :
            g \in s.hosts => SamePeers(s, t, g)
  BY <1>5
<1> QED BY <1>3, <1>4, <1>6, <1>7, <1>8, OthersStayCurrent

LEMMA ServerConnectKeeps ==
    ASSUME NetInv(net), NEW o \in Net!Nodes, Net!ServerConnect(o)
    PROVE  NetInv(net')
<1> DEFINE s == Net!Disconnected(net, o)
<1>1. NetInv(s) /\ Owned(s) /\ s.node[o].mHost = Net!Nil
  BY DisconnectedIsOwned, DisconnectedIsCurrent DEF NetInv
<1>2. CASE net' = s
  BY <1>1, <1>2
<1>3. ASSUME NEW h \in Net!Unused(s)
      PROVE  LET t == Net!WithHost(s, o, h)
                 u == [t EXCEPT !.node[o].mLastEvent = Net!Clean]
             IN  NetInv(t) /\ NetInv(u)
  <2> DEFINE t == Net!WithHost(s, o, h)
             u == [t EXCEPT !.node[o].mLastEvent = Net!Clean]
             m == [s.node[o] EXCEPT !.mHost = h]
             n == [t.node[o] EXCEPT !.mLastEvent = Net!Clean]
  <2>1. h \in Hosts \ s.hosts /\ s \in NetType
    BY <1>1, <1>3 DEF Net!Unused, Owned
  <2>3. s.node[o].mLastEvent = Net!Nil
    BY <1>1 DEF Owned, PacketsOwned
  <2> HIDE DEF s
  <2>4. /\ t \in NetType /\ t.node = [s.node EXCEPT ![o] = m]
        /\ t.hosts = s.hosts \cup {h}
        /\ t.peer = s.peer /\ t.packets = s.packets /\ t.lost = s.lost
        /\ t.assigned = s.assigned /\ t.unclear = s.unclear
    BY <2>1, HostTaken
  <2> HIDE DEF t
  <2>5. m \in NodeType /\ m.mHost = h /\ m.mLastEvent = Net!Nil /\ m.peers = s.node[o].peers
    <3> DEFINE w == s.node[o]
    <3>1. w \in NodeType /\ w.mLastEvent = Net!Nil /\ m = [w EXCEPT !.mHost = h]
      BY <2>1, <2>3, NodeIsARecord
    <3> HIDE DEF w, m
    <3> QED BY <3>1, <2>1 DEF NodeType, w
  <2> HIDE DEF m
  <2>6. t.node[o] = m
    BY <2>1, <2>4 DEF NetType
  <2>7. n = [m EXCEPT !.mLastEvent = Net!Clean]
    BY <2>6
  <2> HIDE DEF n
  <2>8. n \in NodeType /\ n.mHost = h /\ n.mLastEvent = Net!Clean /\ n.peers = s.node[o].peers
    BY <2>5, <2>7 DEF NodeType
  <2>9. u = [t EXCEPT !.node[o] = n]
    BY DEF n
  <2> HIDE DEF u
  <2>10. /\ u \in NetType /\ u.node = [t.node EXCEPT ![o] = n] /\ u.hosts = t.hosts
         /\ u.peer = t.peer /\ u.unclear = t.unclear /\ u.packets = t.packets /\ u.lost = t.lost
         /\ u.assigned = t.assigned
    BY <2>4, <2>8, <2>9, NodeSet
  <2>11. u.node = [s.node EXCEPT ![o] = n]
    BY <2>4, <2>10 DEF NetType
  <2>12. \A g \in Hosts : SamePeers(s, t, g) /\ SamePeers(s, u, g)
    BY <2>4, <2>10 DEF SamePeers
  <2>13. NetInv(t)
    BY <1>1, <1>3, <2>1, <2>4, <2>5, <2>12, HostTakenKeeps
  <2>14. u.hosts = s.hosts \cup {h} /\ u.packets = s.packets /\ u.lost = s.lost
         /\ u.assigned = s.assigned /\ u.unclear = s.unclear
    BY <2>4, <2>10
  <2>15. NetInv(u)
    BY <1>1, <1>3, <2>1, <2>8, <2>10, <2>11, <2>12, <2>14, HostTakenKeeps
  <2> QED BY <2>13, <2>15 DEF t, u
<1>4. ASSUME NEW h \in Net!Unused(s),
             \/ net' = Net!Disconnected(Net!WithHost(s, o, h), o)
             \/ net' = [Net!WithHost(s, o, h) EXCEPT !.node[o].mLastEvent = Net!Clean]
      PROVE  NetInv(net')
  <2> DEFINE t == Net!WithHost(s, o, h)
             u == [t EXCEPT !.node[o].mLastEvent = Net!Clean]
  <2>1. NetInv(t) /\ NetInv(u)
    BY <1>3
  <2>2. net' = Net!Disconnected(t, o) \/ net' = u
    BY <1>4
  <2> HIDE DEF t, u
  <2> QED BY <2>1, <2>2, DisconnectedIsCurrent
<1> QED BY <1>2, <1>4 DEF Net!ServerConnect

LEMMA LeavingIsOwned ==
    ASSUME NEW s, Owned(s), NEW P
    PROVE  Owned(Net!PeersLeave(s, P))
<1> DEFINE t == Net!PeersLeave(s, P)
<1>1. /\ t \in NetType /\ t.node = s.node /\ t.hosts = s.hosts /\ t.packets = s.packets
      /\ t.lost = s.lost /\ t.assigned = s.assigned
  BY PeersLeaveKeeps DEF Owned
<1> HIDE DEF t
<1>2. Owned(t)
  BY <1>1, StillOwned
<1> QED BY <1>2 DEF t

LEMMA LeavingLeavesOthers ==
    ASSUME NEW s, NetInv(s), NEW o \in Net!Nodes, NEW P,
           \A x \in P : \E j \in DOMAIN s.node[o].peers : x = s.node[o].peers[j]
    PROVE  LET t == Net!PeersLeave(s, P)
           IN  /\ NoStrayPeers(t)
               /\ \A g \in s.hosts \ ({s.node[o].mHost} \cup s.unclear) : SamePeers(s, t, g)
<1> DEFINE t == Net!PeersLeave(s, P)
<1>0. s \in NetType
  BY DEF NetInv, Owned
<1>1. /\ t.hosts = s.hosts
      /\ \A h \in Hosts, i \in Net!Slots :
           /\ t.peer[h][i].address = s.peer[h][i].address
           /\ t.peer[h][i].state = IF <<h, i>> \in P /\ s.peer[h][i].state = "live"
                                   THEN "leaving" ELSE s.peer[h][i].state
  BY <1>0, PeersLeaveKeeps
<1> HIDE DEF t
<1>2. NoStrayPeers(t)
  <2> SUFFICES ASSUME NEW g \in Hosts \ s.hosts, NEW i \in Net!Slots
               PROVE  t.peer[g][i].state = "free"
    BY <1>1 DEF NoStrayPeers
  <2>1. s.peer[g][i].state = "free"
    BY DEF NetInv, NoStrayPeers
  <2> QED BY <1>1, <2>1
<1>3. ASSUME NEW g \in s.hosts \ ({s.node[o].mHost} \cup s.unclear)
      PROVE  SamePeers(s, t, g)
  <2>1. \A j \in DOMAIN s.node[o].peers : s.node[o].peers[j][1] # g
    BY OthersPeersStay
  <2>2. \A i \in Net!Slots : <<g, i>> \notin P
    BY <2>1
  <2>3. g \in Hosts
    BY <1>0 DEF NetType
  <2> QED BY <1>1, <2>2, <2>3 DEF SamePeers
<1> QED BY <1>2, <1>3 DEF t

LEMMA DisconnectAddressKeeps ==
    ASSUME NetInv(net), NEW o \in Net!Nodes, NEW a, Net!DisconnectAddress(o, a)
    PROVE  NetInv(net')
<1> DEFINE list == net.node[o].peers
           h == net.node[o].mHost
           i == Net!FirstPlace(net, o, a)
           P == {list[i]}
           s == Net!PeersLeave(net, P)
           t == Net!WithoutAddress(s, o, a)
           n == t.node[o]
<1>0. net' = t /\ Net!Places(net, o, a) # {} /\ h # Net!Nil
  BY DEF Net!DisconnectAddress
<1>1. net \in NetType /\ Owned(net) /\ list \in Seq(Hosts \X Net!Slots) /\ i \in 1 .. Len(list)
  BY <1>0, NodeIsARecord, FirstOfPlaces DEF NetInv, Owned
<1>2. h \in Hosts
  BY <1>0, <1>1, NodeIsARecord
<1>3. /\ s \in NetType /\ s.node = net.node /\ s.hosts = net.hosts
      /\ s.assigned = net.assigned /\ s.unclear = net.unclear
      /\ \A g \in Hosts, k \in Net!Slots :
           /\ s.peer[g][k].address = net.peer[g][k].address
           /\ s.peer[g][k].state = IF <<g, k>> \in P /\ net.peer[g][k].state = "live"
                                   THEN "leaving" ELSE net.peer[g][k].state
  BY <1>1, PeersLeaveKeeps
<1>4. Owned(s)
  BY <1>1, LeavingIsOwned
<1>5. /\ NoStrayPeers(s)
      /\ \A g \in net.hosts \ ({h} \cup net.unclear) : SamePeers(net, s, g)
  <2>1. \A x \in P : \E j \in DOMAIN list : x = list[j]
    BY <1>1
  <2> HIDE DEF P
  <2> QED BY <2>1, LeavingLeavesOthers
<1>6. Net!Places(s, o, a) = Net!Places(net, o, a)
  <2>1. \A k \in DOMAIN list : Net!AddressOf(s, list[k]) = Net!AddressOf(net, list[k])
    <3> SUFFICES ASSUME NEW k \in DOMAIN list
                 PROVE  Net!AddressOf(s, list[k]) = Net!AddressOf(net, list[k])
      OBVIOUS
    <3>1. list[k] \in Hosts \X Net!Slots
      BY <1>1
    <3>2. list[k][1] \in Hosts /\ list[k][2] \in Net!Slots
      BY <3>1
    <3> HIDE DEF s, list
    <3> QED BY <1>3, <3>2 DEF Net!AddressOf
  <2> HIDE DEF s
  <2> QED BY <1>3, <2>1 DEF Net!Places
<1>7. Net!FirstPlace(s, o, a) = i
  BY <1>6 DEF Net!FirstPlace
<1> HIDE DEF s
<1>8. /\ Owned(t) /\ n \in NodeType /\ t.node = [s.node EXCEPT ![o] = n]
      /\ n.mHost = s.node[o].mHost /\ t.hosts = s.hosts /\ t.peer = s.peer
      /\ t.assigned = s.assigned /\ t.unclear = s.unclear
      /\ \A j \in DOMAIN n.peers : \E k \in DOMAIN s.node[o].peers : n.peers[j] = s.node[o].peers[k]
      /\ n.peers = Cut(list, i)
  BY <1>0, <1>3, <1>4, <1>6, <1>7, ListWithoutAddress
<1> HIDE DEF t, n, i
<1>9. ASSUME o \in Servers \ net.assigned, h \notin net.unclear
      PROVE  ListCurrent(t, h, Cut(list, i))
  <2>1. ListCurrent(net, h, list)
    BY <1>2, <1>9, StillCurrent
  <2> HIDE DEF h, list
  <2>2. /\ list[i][2] \in Net!Slots /\ list[i] = <<h, list[i][2]>>
        /\ net.peer[h][list[i][2]].state = "live"
    BY <1>1, <2>1, ListedIsLive
  <2> DEFINE x == list[i][2]
  <2>3. x \in Net!Slots /\ list[i] = <<h, x>>
    BY <2>2
  <2> HIDE DEF x, h, list
  <2>4. P = {<<h, x>>}
    BY <2>3
  <2> HIDE DEF P
  <2>5. /\ t.peer[h][x].state = "leaving" /\ t.peer[h][x].address = net.peer[h][x].address
        /\ \A k \in Net!Slots \ {x} : /\ t.peer[h][k].state = net.peer[h][k].state
                                      /\ t.peer[h][k].address = net.peer[h][k].address
    <3>1. net.peer[h][x].state = "live"
      BY <2>2 DEF x
    <3>2. <<h, x>> \in P /\ \A k \in Net!Slots \ {x} : <<h, k>> \notin P
      BY <2>4
    <3>3. h \in Hosts /\ t.peer = s.peer
      BY <1>2, <1>8
    <3> HIDE DEF t, s
    <3>4. t.peer[h][x].state = "leaving" /\ t.peer[h][x].address = net.peer[h][x].address
      BY <1>3, <2>3, <3>1, <3>2, <3>3
    <3>5. ASSUME NEW k \in Net!Slots \ {x}
          PROVE  /\ t.peer[h][k].state = net.peer[h][k].state
                 /\ t.peer[h][k].address = net.peer[h][k].address
      BY <1>3, <3>2, <3>3
    <3> QED BY <3>4, <3>5
  <2> QED BY <1>1, <1>2, <2>1, <2>5, CutIsCurrent DEF x
<1>10. /\ NoStrayPeers(t)
       /\ \A g \in net.hosts \ ({h} \cup net.unclear) : SamePeers(net, t, g)
  BY <1>3, <1>5, <1>8 DEF NoStrayPeers, SamePeers
<1>11. /\ t.node = [net.node EXCEPT ![o] = n] /\ t.assigned = net.assigned
       /\ t.hosts = net.hosts /\ t.unclear = net.unclear /\ n.mHost = h
       /\ \A j \in DOMAIN n.peers : \E k \in DOMAIN list : n.peers[j] = list[k]
  BY <1>3, <1>8
<1>12. o \in Servers \ net.assigned /\ n.mHost \in Hosts \ t.unclear
          => ListCurrent(t, n.mHost, n.peers)
  BY <1>8, <1>9, <1>11
<1> QED BY <1>0, <1>8, <1>10, <1>11, <1>12, OneHostChanges

LEMMA ServerPollsConnectKeeps ==
    ASSUME NetInv(net), NEW o \in Net!Nodes, NEW i \in Net!Slots, NEW a \in Addresses,
           Net!ServerPollsConnect(o, i, a)
    PROVE  NetInv(net')
<1> DEFINE s == Net!Polled(o)
           h == s.node[o].mHost
           z == [state |-> "live", address |-> a]
           u == [s EXCEPT !.peer[h][i] = z]
           n == [u.node[o] EXCEPT !.peers = Append(@, <<h, i>>)]
           v == [u EXCEPT !.node[o] = n]
           U == IF \E j \in Net!Slots : s.peer[h][j].state # "free" /\ s.peer[h][j].address = a
                THEN s.unclear \cup {h} ELSE s.unclear
           t == [v EXCEPT !.unclear = U]
<1>0. Net!Polls(o) /\ s.peer[h][i].state = "free"
  BY DEF Net!ServerPollsConnect
<1>1. NetInv(s) /\ Owned(s) /\ h \in Hosts \cap s.hosts
  BY <1>0, PolledKeeps
<1>2. z \in PeerType /\ s \in NetType
  BY <1>1 DEF PeerType, Owned
<1>3. net' = [s EXCEPT !.peer[h][i] = z, !.node[o].peers = Append(@, <<h, i>>),
                       !.unclear = IF \E j \in Net!Slots :
                                        s.peer[h][j].state # "free" /\ s.peer[h][j].address = a
                                   THEN @ \cup {h} ELSE @]
  BY DEF Net!ServerPollsConnect
<1>4. net' = t
  BY <1>2, <1>3 DEF NetType
<1> HIDE DEF s, z
<1>5. /\ u \in NetType /\ u.node = s.node /\ u.hosts = s.hosts /\ u.packets = s.packets
      /\ u.lost = s.lost /\ u.assigned = s.assigned /\ u.unclear = s.unclear
      /\ u.peer[h][i] = z
      /\ \A g \in Hosts, j \in Net!Slots : <<g, j>> # <<h, i>> => u.peer[g][j] = s.peer[g][j]
  BY <1>1, <1>2, PeerChanged
<1>6. U \in SUBSET Hosts
  BY <1>1, <1>2 DEF NetType
<1>60. /\ s.unclear \subseteq U
       /\ h \notin U => \A j \in Net!Slots :
                           s.peer[h][j].state # "free" => s.peer[h][j].address # a
  OBVIOUS
<1> HIDE DEF u, U
<1>7. n \in NodeType /\ n.mHost = h /\ n.mLastEvent = s.node[o].mLastEvent
      /\ n.peers = Append(s.node[o].peers, <<h, i>>)
  <2> DEFINE w == s.node[o]
             r == Append(w.peers, <<h, i>>)
  <2>1. w \in NodeType /\ w.peers \in Seq(Hosts \X Net!Slots) /\ h = w.mHost
    BY <1>2, NodeIsARecord
  <2>2. r \in Seq(Hosts \X Net!Slots)
    BY <1>1, <2>1
  <2>3. n = [w EXCEPT !.peers = r]
    BY <1>5
  <2> HIDE DEF w, r, n
  <2> QED BY <2>1, <2>2, <2>3 DEF NodeType, w, r
<1> HIDE DEF n
<1>8. /\ v \in NetType /\ v.node = [u.node EXCEPT ![o] = n] /\ v.hosts = u.hosts
      /\ v.peer = u.peer
      /\ v.packets = u.packets /\ v.lost = u.lost /\ v.assigned = u.assigned
  BY <1>5, <1>7, NodeSet
<1> HIDE DEF v
<1>9. /\ t \in NetType /\ t.node = v.node /\ t.hosts = v.hosts
      /\ t.peer = v.peer /\ t.unclear = U
      /\ t.packets = v.packets /\ t.lost = v.lost /\ t.assigned = v.assigned
  BY <1>6, <1>8 DEF NetType
<1> HIDE DEF t
<1>10. o \in s.assigned \/ \A j \in DOMAIN n.peers : n.peers[j][1] = h
  <2> DEFINE list == s.node[o].peers
  <2>1. list \in Seq(Hosts \X Net!Slots)
    BY <1>2, NodeIsARecord
  <2>2. o \in s.assigned \/ \A j \in DOMAIN list : list[j][1] = h
    BY <1>1 DEF Owned, PeersOwned
  <2> HIDE DEF list, h
  <2> QED BY <1>7, <2>1, <2>2 DEF list
<1>11. t.node = [s.node EXCEPT ![o] = n] /\ t.lost = s.lost /\ t.assigned = s.assigned
       /\ t.hosts = s.hosts /\ t.packets = s.packets
  BY <1>5, <1>8, <1>9
<1>12. Owned(t)
  BY <1>1, <1>7, <1>9, <1>10, <1>11, ListReplaced
<1> DEFINE list == s.node[o].peers
<1>13. list \in Seq(Hosts \X Net!Slots) /\ n.peers = Append(list, <<h, i>>)
  BY <1>2, <1>7, NodeIsARecord
<1>14. /\ t.peer[h][i].state = "live" /\ t.peer[h][i].address = a
       /\ \A g \in Hosts, j \in Net!Slots : <<g, j>> # <<h, i>> => t.peer[g][j] = s.peer[g][j]
  BY <1>5, <1>8, <1>9 DEF z
<1>15. NoStrayPeers(t)
  <2> SUFFICES ASSUME NEW g \in Hosts \ t.hosts, NEW j \in Net!Slots
               PROVE  t.peer[g][j].state = "free"
    BY DEF NoStrayPeers
  <2>1. g # h /\ s.peer[g][j].state = "free"
    BY <1>1, <1>11 DEF NetInv, NoStrayPeers
  <2> QED BY <1>14, <2>1
<1>16. \A g \in s.hosts \ ({n.mHost} \cup s.unclear) : SamePeers(s, t, g)
  <2> SUFFICES ASSUME NEW g \in s.hosts, g # h
               PROVE  SamePeers(s, t, g)
    BY <1>7
  <2>1. g \in Hosts
    BY <1>2 DEF NetType
  <2> QED BY <1>14, <2>1 DEF SamePeers
<1>17. \A j \in DOMAIN n.peers : n.peers[j][1] = n.mHost \/ \E k \in DOMAIN list : n.peers[j] = list[k]
  BY <1>7, <1>13
<1>18. ASSUME o \in Servers \ s.assigned, h \in Hosts \ U
       PROVE  ListCurrent(t, h, n.peers)
  <2>1. ListCurrent(s, h, list)
    BY <1>1, <1>18, <1>60, StillCurrent DEF h
  <2> HIDE DEF list, h
  <2>2. /\ Len(list) \in Nat /\ DOMAIN list = 1 .. Len(list)
        /\ DOMAIN n.peers = 1 .. Len(list) + 1
        /\ n.peers[Len(list) + 1] = <<h, i>>
        /\ \A j \in 1 .. Len(list) : n.peers[j] = list[j]
    BY <1>1, <1>13
  <2>3. \A j \in 1 .. Len(list) : /\ list[j][2] \in Net!Slots \ {i} /\ list[j] = <<h, list[j][2]>>
                                  /\ s.peer[h][list[j][2]].state = "live"
    BY <1>0, <1>13, <2>1, ListedIsLive
  <2>4. ASSUME NEW j \in DOMAIN n.peers
        PROVE  n.peers[j][1] = h /\ t.peer[h][n.peers[j][2]].state = "live"
    <3>1. CASE j \in 1 .. Len(list)
      <4> DEFINE x == list[j][2]
      <4>1. x \in Net!Slots /\ x # i /\ list[j] = <<h, x>> /\ s.peer[h][x].state = "live"
        BY <2>3, <3>1
      <4> HIDE DEF x
      <4> QED BY <1>1, <1>14, <2>2, <3>1, <4>1
    <3>2. CASE j = Len(list) + 1
      BY <1>14, <2>2, <3>2
    <3> QED BY <2>2, <2>4, <3>1, <3>2
  <2>5. ASSUME NEW j \in DOMAIN n.peers, NEW k \in DOMAIN n.peers, n.peers[j] = n.peers[k]
        PROVE  j = k
    <3>1. \A x \in 1 .. Len(list) : list[x] # <<h, i>>
      BY <2>3
    <3>2. \A x, y \in 1 .. Len(list) : list[x] = list[y] => x = y
      BY <2>1, <2>2 DEF ListCurrent
    <3>3. (j \in 1 .. Len(list) \/ j = Len(list) + 1) /\ (k \in 1 .. Len(list) \/ k = Len(list) + 1)
      BY <2>2
    <3> QED BY <2>2, <2>5, <3>1, <3>2, <3>3
  <2>6. ASSUME NEW x \in Net!Slots, t.peer[h][x].state = "live"
        PROVE  \E j \in DOMAIN n.peers : n.peers[j] = <<h, x>>
    <3>1. CASE x = i
      BY <2>2, <3>1
    <3>2. CASE x # i
      <4>1. s.peer[h][x].state = "live"
        BY <1>1, <1>14, <2>6, <3>2
      <4>2. PICK j \in 1 .. Len(list) : list[j] = <<h, x>>
        BY <2>1, <2>2, <4>1 DEF ListCurrent
      <4> QED BY <2>2, <4>2
    <3> QED BY <3>1, <3>2
  <2>7. ASSUME NEW x \in Net!Slots, NEW y \in Net!Slots, x # y,
               t.peer[h][x].state # "free", t.peer[h][y].state # "free"
        PROVE  t.peer[h][x].address # t.peer[h][y].address
    <3>1. \A j \in Net!Slots \ {i} : t.peer[h][j] = s.peer[h][j]
      BY <1>1, <1>14
    <3>2. \A j \in Net!Slots \ {i} : t.peer[h][j].state # "free" => t.peer[h][j].address # a
      BY <1>18, <1>60, <3>1
    <3>3. CASE x = i \/ y = i
      BY <1>14, <2>7, <3>2, <3>3
    <3>4. CASE x # i /\ y # i
      BY <2>1, <2>7, <3>1, <3>4 DEF ListCurrent
    <3> QED BY <3>3, <3>4
  <2> QED BY <2>4, <2>5, <2>6, <2>7 DEF ListCurrent
<1>19. /\ n.mHost = s.node[o].mHost /\ t.unclear = U
       /\ o \in Servers \ s.assigned /\ n.mHost \in Hosts \ t.unclear
             => ListCurrent(t, n.mHost, n.peers)
  BY <1>7, <1>9, <1>18 DEF h
<1> HIDE DEF h
<1>20. /\ NetInv(s) /\ Owned(t) /\ n \in NodeType
       /\ t.node = [s.node EXCEPT ![o] = n] /\ t.assigned = s.assigned /\ t.hosts = s.hosts
       /\ s.unclear \subseteq t.unclear /\ n.mHost = s.node[o].mHost
       /\ \A g \in s.hosts \ ({n.mHost} \cup s.unclear) : SamePeers(s, t, g)
       /\ NoStrayPeers(t)
       /\ \A j \in DOMAIN n.peers : \/ n.peers[j][1] = n.mHost
                                   \/ \E k \in DOMAIN s.node[o].peers :
                                          n.peers[j] = s.node[o].peers[k]
  BY <1>1, <1>4, <1>7, <1>11, <1>12, <1>15, <1>16, <1>17, <1>19, <1>60
<1>21. NetInv(t)
  BY <1>19, <1>20, OneHostChanges
<1> QED BY <1>4, <1>21

LEMMA ServerPollsDisconnectKeeps ==
    ASSUME NetInv(net), NEW o \in Net!Nodes, NEW i \in Net!Slots, Net!ServerPollsDisconnect(o, i)
    PROVE  NetInv(net')
<1> DEFINE s == Net!Polled(o)
           h == s.node[o].mHost
           a == s.peer[h][i].address
           u == [s EXCEPT !.peer[h][i].state = "free"]
           v == Net!WithoutAddress(u, o, a)
           t == Net!Forgotten(v, <<h, i>>)
           list == s.node[o].peers
           n == v.node[o]
<1>0. Net!Polls(o) /\ net' = t /\ s.peer[h][i].state # "free"
  BY DEF Net!ServerPollsDisconnect
<1>1. NetInv(s) /\ Owned(s) /\ s \in NetType /\ h \in Hosts \cap s.hosts
      /\ list \in Seq(Hosts \X Net!Slots)
  <2>1. NetInv(s) /\ Owned(s) /\ s \in NetType /\ h \in Hosts \cap s.hosts
    BY <1>0, PolledKeeps DEF Owned
  <2> QED BY <2>1, NodeIsARecord
<1>2. h = s.node[o].mHost /\ list = s.node[o].peers
  OBVIOUS
<1> HIDE DEF s, h
<1>3. /\ u \in NetType /\ u.node = s.node /\ u.hosts = s.hosts /\ u.packets = s.packets
      /\ u.lost = s.lost /\ u.assigned = s.assigned /\ u.unclear = s.unclear
      /\ u.peer[h][i].state = "free" /\ u.peer[h][i].address = a
      /\ \A g \in Hosts, j \in Net!Slots : <<g, j>> # <<h, i>> => u.peer[g][j] = s.peer[g][j]
  <2>1. s \in NetType /\ h \in Hosts /\ a = s.peer[h][i].address
    BY <1>1
  <2> HIDE DEF a
  <2> QED BY <2>1, PeerFreed
<1> HIDE DEF u, a
<1>4. Owned(u)
  BY <1>1, <1>3, StillOwned
<1>5. /\ Owned(v) /\ n \in NodeType /\ v.node = [u.node EXCEPT ![o] = n]
      /\ n.mHost = u.node[o].mHost /\ v.hosts = u.hosts /\ v.peer = u.peer
      /\ v.assigned = u.assigned /\ v.unclear = u.unclear
      /\ \A j \in DOMAIN n.peers : \E k \in DOMAIN u.node[o].peers : n.peers[j] = u.node[o].peers[k]
      /\ n.peers = IF Net!Places(u, o, a) = {} THEN u.node[o].peers
                   ELSE Cut(u.node[o].peers, Net!FirstPlace(u, o, a))
  BY <1>4, ListWithoutAddress
<1> HIDE DEF v, n
<1>6. /\ t \in NetType /\ t.node = v.node /\ t.hosts = v.hosts
      /\ t.packets = v.packets /\ t.lost = v.lost
      /\ t.assigned = v.assigned /\ t.unclear = v.unclear
      /\ t.peer[h][i] \in {v.peer[h][i], Net!NoPeer}
      /\ \A g \in Hosts, j \in Net!Slots : <<g, j>> # <<h, i>> => t.peer[g][j] = v.peer[g][j]
  <2>1. v \in NetType /\ h \in Hosts
    BY <1>1, <1>5 DEF Owned
  <2> QED BY <2>1, ForgottenKeeps
<1> HIDE DEF t
<1>7. Owned(t)
  BY <1>5, <1>6, StillOwned
<1>8. /\ t.node = [s.node EXCEPT ![o] = n] /\ t.hosts = s.hosts /\ t.assigned = s.assigned
      /\ t.unclear = s.unclear /\ n.mHost = h
      /\ \A j \in DOMAIN n.peers : \E k \in DOMAIN list : n.peers[j] = list[k]
  BY <1>2, <1>3, <1>5, <1>6
<1>9. /\ t.peer[h][i].state = "free"
      /\ \A g \in Hosts, j \in Net!Slots : <<g, j>> # <<h, i>> => t.peer[g][j] = s.peer[g][j]
  <2>1. Net!NoPeer.state = "free"
    BY DEF Net!NoPeer
  <2> QED BY <1>3, <1>5, <1>6, <2>1
<1>10. NoStrayPeers(t)
  <2> SUFFICES ASSUME NEW g \in Hosts \ t.hosts, NEW j \in Net!Slots
               PROVE  t.peer[g][j].state = "free"
    BY DEF NoStrayPeers
  <2>1. g # h /\ s.peer[g][j].state = "free"
    BY <1>1, <1>8 DEF NetInv, NoStrayPeers
  <2> QED BY <1>9, <2>1
<1>11. \A g \in s.hosts \ ({h} \cup s.unclear) : SamePeers(s, t, g)
  <2> SUFFICES ASSUME NEW g \in s.hosts, g # h
               PROVE  SamePeers(s, t, g)
    OBVIOUS
  <2>1. g \in Hosts
    BY <1>1 DEF NetType
  <2> QED BY <1>9, <2>1 DEF SamePeers
<1>12. ASSUME o \in Servers \ s.assigned, h \notin s.unclear
       PROVE  ListCurrent(t, h, n.peers)
  <2>1. ListCurrent(s, h, list)
    BY <1>1, <1>2, <1>12, StillCurrent
  <2> HIDE DEF list
  <2>2. \A j \in 1 .. Len(list) : /\ list[j][2] \in Net!Slots /\ list[j] = <<h, list[j][2]>>
                                  /\ s.peer[h][list[j][2]].state = "live"
    BY <1>1, <2>1, ListedIsLive
  <2>3. \A j \in 1 .. Len(list) : Net!AddressOf(u, list[j]) = s.peer[h][list[j][2]].address
    <3> SUFFICES ASSUME NEW j \in 1 .. Len(list)
                 PROVE  Net!AddressOf(u, list[j]) = s.peer[h][list[j][2]].address
      OBVIOUS
    <3> DEFINE x == list[j][2]
    <3>1. x \in Net!Slots /\ list[j] = <<h, x>>
      BY <2>2
    <3> HIDE DEF x
    <3>2. Net!AddressOf(u, list[j]) = u.peer[h][x].address
      BY <3>1 DEF Net!AddressOf
    <3>3. u.peer[h][x].address = s.peer[h][x].address
      BY <1>1, <1>3, <3>1 DEF a
    <3> QED BY <3>2, <3>3 DEF x
  <2>4. \A j \in 1 .. Len(list) : Net!AddressOf(u, list[j]) = a <=> list[j][2] = i
    <3> SUFFICES ASSUME NEW j \in 1 .. Len(list), list[j][2] # i
                 PROVE  s.peer[h][list[j][2]].address # a
      BY <2>3 DEF a
    <3>1. list[j][2] \in Net!Slots /\ s.peer[h][list[j][2]].state # "free"
      BY <2>2
    <3> QED BY <1>0, <2>1, <3>1 DEF ListCurrent, a
  <2>5. CASE Net!Places(u, o, a) = {}
    <3>1. n.peers = list
      BY <1>2, <1>3, <1>5, <2>5
    <3>2. \A j \in 1 .. Len(list) : list[j][2] # i
      <4>1. \A j \in DOMAIN list : Net!AddressOf(u, list[j]) # a
        BY <1>2, <1>3, <2>5 DEF Net!Places
      <4> QED BY <1>1, <2>4, <4>1
    <3>3. \A j \in DOMAIN list : list[j][1] = h /\ t.peer[h][list[j][2]].state = "live"
      <4> SUFFICES ASSUME NEW j \in 1 .. Len(list)
                   PROVE  list[j][1] = h /\ t.peer[h][list[j][2]].state = "live"
        BY <1>1
      <4> DEFINE x == list[j][2]
      <4>1. x \in Net!Slots /\ x # i /\ list[j] = <<h, x>> /\ s.peer[h][x].state = "live"
        BY <2>2, <3>2
      <4> HIDE DEF x
      <4> QED BY <1>1, <1>9, <4>1
    <3>4. \A x \in Net!Slots : t.peer[h][x].state # "free" => t.peer[h][x] = s.peer[h][x]
      BY <1>1, <1>9
    <3> QED BY <2>1, <3>1, <3>3, <3>4 DEF ListCurrent
  <2>6. CASE Net!Places(u, o, a) # {}
    <3> DEFINE k == Net!FirstPlace(u, o, a)
    <3>1. n.peers = Cut(list, k)
      BY <1>2, <1>3, <1>5, <2>6
    <3>2. k \in 1 .. Len(list) /\ Net!AddressOf(u, list[k]) = a
      BY <1>2, <1>3, <2>6, FirstOfPlaces
    <3> HIDE DEF k
    <3>3. list[k][2] = i
      BY <2>4, <3>2
    <3>4. \A x \in Net!Slots \ {i} : /\ t.peer[h][x].state = s.peer[h][x].state
                                     /\ t.peer[h][x].address = s.peer[h][x].address
      BY <1>1, <1>9
    <3>5. t.peer[h][i].state # "live"
      BY <1>9
    <3>6. /\ \A x \in Net!Slots \ {list[k][2]} :
               /\ t.peer[h][x].state = s.peer[h][x].state
               /\ t.peer[h][x].address = s.peer[h][x].address
          /\ t.peer[h][list[k][2]].state = "free" /\ t.peer[h][list[k][2]].state # "live"
          /\ h \in Hosts /\ list \in Seq(Hosts \X Net!Slots)
          /\ k \in 1 .. Len(list) /\ ListCurrent(s, h, list)
      BY <1>1, <1>9, <2>1, <3>2, <3>3, <3>4
    <3>7. ListCurrent(t, h, Cut(list, k))
      BY <3>6, CutIsCurrent
    <3> QED BY <3>1, <3>7
  <2> QED BY <2>5, <2>6
<1>13. o \in Servers \ s.assigned /\ n.mHost \in Hosts \ t.unclear
          => ListCurrent(t, n.mHost, n.peers)
  BY <1>8, <1>12
<1>14. \A g \in s.hosts \ ({n.mHost} \cup s.unclear) : SamePeers(s, t, g)
  BY <1>8, <1>11
<1>15. /\ n.mHost = s.node[o].mHost
       /\ \A j \in DOMAIN n.peers : \/ n.peers[j][1] = n.mHost
                                     \/ \E k \in DOMAIN s.node[o].peers :
                                            n.peers[j] = s.node[o].peers[k]
  BY <1>2, <1>8
<1> HIDE DEF list
<1>16. /\ NetInv(s) /\ n \in NodeType /\ t.node = [s.node EXCEPT ![o] = n]
       /\ t.hosts = s.hosts /\ t.assigned = s.assigned /\ s.unclear \subseteq t.unclear
  BY <1>1, <1>5, <1>8
<1>17. NetInv(t)
  BY <1>7, <1>10, <1>13, <1>14, <1>15, <1>16, OneHostChanges
<1> QED BY <1>0, <1>17

LEMMA SamePeersSameList ==
    ASSUME NEW s, NetInv(s), NEW t, Owned(t), NEW o \in Net!Nodes, NEW n \in NodeType,
           t.node = [s.node EXCEPT ![o] = n], t.assigned = s.assigned, t.hosts = s.hosts,
           s.unclear = t.unclear, n.mHost = s.node[o].mHost, t.peer = s.peer,
           n.peers = s.node[o].peers
    PROVE  NetInv(t)
<1>1. \A h \in Hosts : SamePeers(s, t, h)
  BY DEF SamePeers
<1>2. NoStrayPeers(t)
  BY DEF NetInv, NoStrayPeers
<1>3. \A j \in DOMAIN n.peers : \E k \in DOMAIN s.node[o].peers : n.peers[j] = s.node[o].peers[k]
  OBVIOUS
<1>4. ASSUME o \in Servers \ s.assigned, n.mHost \in Hosts \ t.unclear
      PROVE  ListCurrent(t, n.mHost, n.peers)
  <2>1. ListCurrent(s, n.mHost, n.peers)
    BY <1>4, StillCurrent
  <2>2. n.peers \in Seq(Hosts \X Net!Slots)
    BY NodeIsARecord DEF NetInv, Owned
  <2> QED BY <1>1, <1>4, <2>1, <2>2, ListStaysCurrent
<1>5. s.hosts \subseteq Hosts
  BY DEF NetInv, Owned, NetType
<1> QED BY <1>1, <1>2, <1>3, <1>4, <1>5, OneHostChanges

LEMMA PollsReceiveKeeps ==
    ASSUME NetInv(net), NEW o \in Net!Nodes, NEW i \in Net!Slots, Net!PollsReceive(o, i)
    PROVE  NetInv(net')
<1> DEFINE s == Net!Polled(o)
<1>0. Net!Polls(o)
  BY DEF Net!PollsReceive
<1>1. NetInv(s) /\ Owned(s) /\ s \in NetType /\ s.node[o].mHost \in Hosts \cap s.hosts
      /\ s.node[o].mLastEvent = Net!Clean
  BY <1>0, PolledKeeps DEF Owned
<1>2. PICK k \in Packets \ s.packets :
        net' = [s EXCEPT !.packets = @ \cup {k}, !.node[o].mLastEvent = k]
  BY DEF Net!PollsReceive
<1> HIDE DEF s
<1> DEFINE w == s.node[o]
           n == [w EXCEPT !.mLastEvent = k]
           P == s.packets \cup {k}
           N == [s.node EXCEPT ![o] = n]
<1>3. w \in NodeType
  BY <1>1, NodeIsARecord
<1>4. net' = [s EXCEPT !.packets = P, !.node = N]
  BY <1>1, <1>2 DEF NetType
<1> HIDE DEF w
<1>5. n \in NodeType /\ n.mHost = w.mHost /\ n.mLastEvent = k /\ n.peers = w.peers
  BY <1>2, <1>3 DEF NodeType
<1> HIDE DEF n
<1>6. N \in [Net!Nodes -> NodeType] /\ P \in SUBSET Packets
  BY <1>1, <1>2, <1>5 DEF NetType
<1> HIDE DEF N, P
<1>7. /\ net' \in NetType /\ net'.node = N /\ net'.packets = P /\ net'.hosts = s.hosts
      /\ net'.lost = s.lost /\ net'.assigned = s.assigned
      /\ net'.peer = s.peer /\ net'.unclear = s.unclear
  BY <1>1, <1>4, <1>6 DEF NetType
<1>8. Net!Clean \notin s.packets /\ k \notin {Net!Nil, Net!Clean} /\ w.mHost # Net!Nil
  BY <1>1, <1>2, NetNames DEF NetType, w
<1>9. P = (s.packets \ {w.mLastEvent}) \cup ({n.mLastEvent} \ {Net!Nil, Net!Clean})
  BY <1>1, <1>5, <1>8 DEF P, w
<1>10. s.hosts = (s.hosts \ {w.mHost}) \cup ({n.mHost} \ {Net!Nil})
  BY <1>1, <1>5, <1>8 DEF w
<1>11. o \in s.assigned \/ \A j \in DOMAIN n.peers : n.peers[j][1] = n.mHost
  BY <1>1, <1>5 DEF Owned, PeersOwned, w
<1>12. s.assigned \subseteq Servers
  BY <1>1 DEF Owned
<1>13. n.mHost = s.node[o].mHost /\ n.mLastEvent \notin s.packets /\ n.mHost # Net!Nil
  BY <1>2, <1>5, <1>8 DEF w
<1>14. /\ net'.node = [s.node EXCEPT ![o] = n]
       /\ net'.hosts = (s.hosts \ {s.node[o].mHost}) \cup ({n.mHost} \ {Net!Nil})
       /\ net'.packets = (s.packets \ {s.node[o].mLastEvent})
                             \cup ({n.mLastEvent} \ {Net!Nil, Net!Clean})
  BY <1>7, <1>9, <1>10 DEF w, N
<1>15. n.peers = s.node[o].peers
  BY <1>5 DEF w
<1> HIDE DEF w
<1>16. Owned(net')
  BY <1>1, <1>5, <1>7, <1>11, <1>12, <1>13, <1>14, OneNodeReplaced
<1>17. /\ NetInv(s) /\ n \in NodeType /\ net'.node = [s.node EXCEPT ![o] = n]
       /\ net'.assigned = s.assigned /\ net'.hosts = s.hosts /\ net'.peer = s.peer
       /\ s.unclear = net'.unclear /\ n.mHost = s.node[o].mHost
  BY <1>1, <1>5, <1>7, <1>13, <1>14
<1> QED BY <1>15, <1>16, <1>17, SamePeersSameList

LEMMA PollsNothingKeeps ==
    ASSUME NetInv(net), NEW o \in Net!Nodes, Net!PollsNothing(o)
    PROVE  NetInv(net')
BY PolledKeeps DEF Net!PollsNothing

LEMMA ClientPollsDisconnectKeeps ==
    ASSUME NetInv(net), NEW o \in Clients, Net!ClientPollsDisconnect(o)
    PROVE  NetInv(net')
<1> DEFINE s == Net!Polled(o)
           h == s.node[o].mHost
           t == [s EXCEPT !.peer[h][1].state = "free"]
           n == s.node[o]
<1>0. Net!Polls(o) /\ net' = t /\ o \in Net!Nodes /\ o \notin Servers
  BY ServersAreNodes, NodesAreApart DEF Net!ClientPollsDisconnect
<1>1. NetInv(s) /\ Owned(s) /\ s \in NetType /\ h \in Hosts \cap s.hosts /\ 1 \in Net!Slots
  BY <1>0, PolledKeeps, NetNames DEF Owned
<1>2. n \in NodeType /\ n.mHost = h /\ s.node = [s.node EXCEPT ![o] = n]
  BY <1>0, <1>1, NodeIsARecord DEF NetType
<1> HIDE DEF s, h
<1>3. /\ t \in NetType /\ t.node = s.node /\ t.hosts = s.hosts /\ t.packets = s.packets
      /\ t.lost = s.lost /\ t.assigned = s.assigned /\ t.unclear = s.unclear
      /\ \A g \in Hosts, j \in Net!Slots : <<g, j>> # <<h, 1>> => t.peer[g][j] = s.peer[g][j]
  BY <1>1, PeerFreed
<1> HIDE DEF t
<1>4. Owned(t)
  BY <1>1, <1>3, StillOwned
<1>5. NoStrayPeers(t)
  <2> SUFFICES ASSUME NEW g \in Hosts \ t.hosts, NEW j \in Net!Slots
               PROVE  t.peer[g][j].state = "free"
    BY DEF NoStrayPeers
  <2>1. g # h /\ s.peer[g][j].state = "free"
    BY <1>1, <1>3 DEF NetInv, NoStrayPeers
  <2> QED BY <1>3, <2>1
<1>6. \A g \in s.hosts \ ({n.mHost} \cup s.unclear) : SamePeers(s, t, g)
  <2> SUFFICES ASSUME NEW g \in s.hosts, g # h
               PROVE  SamePeers(s, t, g)
    BY <1>2
  <2>1. g \in Hosts
    BY <1>1 DEF NetType
  <2> QED BY <1>3, <2>1 DEF SamePeers
<1>7. /\ t.node = [s.node EXCEPT ![o] = n] /\ n.mHost = s.node[o].mHost
      /\ s.unclear \subseteq t.unclear
      /\ \A j \in DOMAIN n.peers : \E k \in DOMAIN s.node[o].peers : n.peers[j] = s.node[o].peers[k]
  BY <1>2, <1>3
<1> HIDE DEF n
<1>8. /\ NetInv(s) /\ n \in NodeType /\ t.assigned = s.assigned /\ t.hosts = s.hosts
      /\ o \in Net!Nodes /\ o \notin Servers
  BY <1>0, <1>1, <1>2, <1>3
<1>9. NetInv(t)
  BY <1>4, <1>5, <1>6, <1>7, <1>8, OneHostChanges
<1> QED BY <1>0, <1>9

LEMMA ConnectionDisconnectKeeps ==
    ASSUME NetInv(net), NEW o \in Clients, Net!ConnectionDisconnect(o)
    PROVE  NetInv(net')
<1> DEFINE P == {Head(net.node[o].peers)}
           s == Net!PeersLeave(net, P)
           w == s.node[o]
           n == [w EXCEPT !.peers = <<>>]
           t == [s EXCEPT !.node[o] = n]
<1>0. /\ net' = [s EXCEPT !.node[o].peers = <<>>] /\ net.node[o].peers # <<>>
      /\ o \in Net!Nodes /\ o \notin Servers /\ net \in NetType /\ Owned(net)
  BY ServersAreNodes, NodesAreApart DEF Net!ConnectionDisconnect, NetInv, Owned
<1>1. \A x \in P : \E j \in DOMAIN net.node[o].peers : x = net.node[o].peers[j]
  <2>1. net.node[o].peers \in Seq(Hosts \X Net!Slots)
    BY <1>0, NodeIsARecord
  <2> QED BY <1>0, <2>1
<1> HIDE DEF P
<1>2. /\ NoStrayPeers(s)
      /\ \A g \in net.hosts \ ({net.node[o].mHost} \cup net.unclear) : SamePeers(net, s, g)
  BY <1>0, <1>1, LeavingLeavesOthers
<1>3. /\ Owned(s) /\ s \in NetType /\ s.node = net.node /\ s.hosts = net.hosts
      /\ s.assigned = net.assigned /\ s.unclear = net.unclear
  BY <1>0, LeavingIsOwned, PeersLeaveKeeps
<1> HIDE DEF s
<1>4. net' = t
  BY <1>0
<1>5. w \in NodeType /\ <<>> \in Seq(Hosts \X Net!Slots)
  BY <1>0, <1>3, NodeIsARecord
<1> HIDE DEF w
<1>6. n \in NodeType /\ n.mHost = w.mHost /\ n.mLastEvent = w.mLastEvent /\ n.peers = <<>>
  BY <1>5 DEF NodeType
<1> HIDE DEF n
<1>7. /\ t \in NetType /\ t.node = [s.node EXCEPT ![o] = n] /\ t.hosts = s.hosts
      /\ t.peer = s.peer /\ t.unclear = s.unclear
      /\ t.packets = s.packets /\ t.lost = s.lost /\ t.assigned = s.assigned
  BY <1>0, <1>3, <1>6, NodeSet
<1> HIDE DEF t
<1>8. DOMAIN n.peers = {}
  BY <1>6
<1>9. Owned(t)
  BY <1>0, <1>3, <1>6, <1>7, <1>8, ListReplaced DEF w
<1>10. /\ t.node = [net.node EXCEPT ![o] = n] /\ t.assigned = net.assigned
       /\ t.hosts = net.hosts /\ net.unclear \subseteq t.unclear /\ n.mHost = net.node[o].mHost
  BY <1>3, <1>6, <1>7 DEF w
<1>11. /\ NoStrayPeers(t)
       /\ \A g \in net.hosts \ ({n.mHost} \cup net.unclear) : SamePeers(net, t, g)
  BY <1>2, <1>7, <1>10 DEF NoStrayPeers, SamePeers
<1> QED BY <1>0, <1>4, <1>6, <1>8, <1>9, <1>10, <1>11, OneHostChanges

(* An object takes what another has, and what it had itself is lost.       *)
LEMMA MovedIsOwned ==
    ASSUME NEW s, Owned(s), NEW o \in Net!Nodes, NEW p \in Net!Nodes \ {o}, NEW t \in NetType,
           t.node = [s.node EXCEPT ![o] = s.node[p], ![p] = Net!Fresh],
           t.hosts = s.hosts, t.packets = s.packets,
           t.lost.hosts = s.lost.hosts \cup ({s.node[o].mHost} \ {Net!Nil}),
           t.lost.packets = s.lost.packets \cup ({s.node[o].mLastEvent} \ {Net!Nil, Net!Clean}),
           s.assigned \subseteq t.assigned, t.assigned \subseteq Servers,
           p \in s.assigned => o \in t.assigned
    PROVE  Owned(t)
<1>0. s \in NetType /\ HostsOwned(s) /\ PacketsOwned(s) /\ PeersOwned(s)
  BY DEF Owned
<1>1. /\ t.node[o] = s.node[p] /\ t.node[p] = Net!Fresh
      /\ \A q \in Net!Nodes \ {o, p} : t.node[q] = s.node[q]
  BY <1>0 DEF NetType
<1>2. /\ Net!Nil \notin s.hosts /\ Net!Nil \notin s.packets /\ Net!Clean \notin s.packets
  BY <1>0, NetNames DEF NetType
<1>3. HostsOwned(t)
  <2>1. \A q \in Net!Nodes : t.node[q].mHost \in t.hosts \cup {Net!Nil}
    BY <1>0, <1>1, FreshIsANode DEF HostsOwned
  <2>2. ASSUME NEW q \in Net!Nodes, NEW r \in Net!Nodes, q # r,
               t.node[q].mHost = t.node[r].mHost
        PROVE  t.node[q].mHost = Net!Nil
    <3>1. CASE q = p \/ r = p
      BY <1>1, <2>2, <3>1, FreshIsANode
    <3>2. CASE q # p /\ r # p
      <4> DEFINE x == IF q = o THEN p ELSE q
                 y == IF r = o THEN p ELSE r
      <4>1. x \in Net!Nodes /\ y \in Net!Nodes /\ x # y
            /\ t.node[q] = s.node[x] /\ t.node[r] = s.node[y]
        BY <1>1, <2>2, <3>2
      <4> QED BY <1>0, <2>2, <4>1 DEF HostsOwned
    <3> QED BY <3>1, <3>2
  <2>3. t.lost.hosts \subseteq t.hosts
    BY <1>0 DEF HostsOwned
  <2>4. ASSUME NEW h \in t.hosts
        PROVE  h \in t.lost.hosts <=> \A q \in Net!Nodes : t.node[q].mHost # h
    <3>1. h \in s.hosts /\ h # Net!Nil
          /\ (h \in s.lost.hosts <=> \A q \in Net!Nodes : s.node[q].mHost # h)
      BY <1>0, <1>2 DEF HostsOwned
    <3>2. CASE h = s.node[o].mHost
      <4>1. h \in t.lost.hosts
        BY <3>1, <3>2
      <4>2. \A q \in Net!Nodes \ {o} : s.node[q].mHost # h
        BY <1>0, <3>1, <3>2 DEF HostsOwned
      <4> QED BY <1>1, <3>1, <4>1, <4>2, FreshIsANode
    <3>3. CASE h # s.node[o].mHost
      <4>1. h \in t.lost.hosts <=> h \in s.lost.hosts
        BY <3>3
      <4>2. (\A q \in Net!Nodes : s.node[q].mHost # h)
              <=> (\A q \in Net!Nodes : t.node[q].mHost # h)
        BY <1>1, <3>1, <3>3, FreshIsANode
      <4> QED BY <3>1, <4>1, <4>2
    <3> QED BY <3>2, <3>3
  <2> QED BY <2>1, <2>2, <2>3, <2>4 DEF HostsOwned
<1>4. PacketsOwned(t)
  <2>1. \A q \in Net!Nodes : t.node[q].mLastEvent \in t.packets \cup {Net!Nil, Net!Clean}
    BY <1>0, <1>1, FreshIsANode DEF PacketsOwned
  <2>2. \A q \in Net!Nodes : t.node[q].mHost = Net!Nil => t.node[q].mLastEvent = Net!Nil
    BY <1>0, <1>1, FreshIsANode DEF PacketsOwned
  <2>3. ASSUME NEW q \in Net!Nodes, NEW r \in Net!Nodes, q # r,
               t.node[q].mLastEvent = t.node[r].mLastEvent
        PROVE  t.node[q].mLastEvent \notin t.packets
    <3>1. CASE q = p \/ r = p
      BY <1>1, <1>2, <2>3, <3>1, FreshIsANode
    <3>2. CASE q # p /\ r # p
      <4> DEFINE x == IF q = o THEN p ELSE q
                 y == IF r = o THEN p ELSE r
      <4>1. x \in Net!Nodes /\ y \in Net!Nodes /\ x # y
            /\ t.node[q] = s.node[x] /\ t.node[r] = s.node[y]
        BY <1>1, <2>3, <3>2
      <4> QED BY <1>0, <2>3, <4>1 DEF PacketsOwned
    <3> QED BY <3>1, <3>2
  <2>4. t.lost.packets \subseteq t.packets
    BY <1>0 DEF PacketsOwned
  <2>5. ASSUME NEW k \in t.packets
        PROVE  k \in t.lost.packets <=> \A q \in Net!Nodes : t.node[q].mLastEvent # k
    <3>1. k \in s.packets /\ k # Net!Nil /\ k # Net!Clean
          /\ (k \in s.lost.packets <=> \A q \in Net!Nodes : s.node[q].mLastEvent # k)
      BY <1>0, <1>2 DEF PacketsOwned
    <3>2. CASE k = s.node[o].mLastEvent
      <4>1. k \in t.lost.packets
        BY <3>1, <3>2
      <4>2. \A q \in Net!Nodes \ {o} : s.node[q].mLastEvent # k
        BY <1>0, <3>1, <3>2 DEF PacketsOwned
      <4> QED BY <1>1, <3>1, <4>1, <4>2, FreshIsANode
    <3>3. CASE k # s.node[o].mLastEvent
      <4>1. k \in t.lost.packets <=> k \in s.lost.packets
        BY <3>3
      <4>2. (\A q \in Net!Nodes : s.node[q].mLastEvent # k)
              <=> (\A q \in Net!Nodes : t.node[q].mLastEvent # k)
        BY <1>1, <3>1, <3>3, FreshIsANode
      <4> QED BY <3>1, <4>1, <4>2
    <3> QED BY <3>2, <3>3
  <2> QED BY <2>1, <2>2, <2>3, <2>4, <2>5 DEF PacketsOwned
<1>5. PeersOwned(t)
  <2> SUFFICES ASSUME NEW q \in Net!Nodes \ t.assigned, NEW i \in DOMAIN t.node[q].peers
               PROVE  t.node[q].peers[i][1] = t.node[q].mHost
    BY DEF PeersOwned
  <2>1. CASE q = p
    BY <1>1, <2>1, FreshIsANode
  <2>2. CASE q = o
    <3>1. p \in Net!Nodes \ s.assigned /\ t.node[q] = s.node[p]
      BY <1>1, <2>2
    <3> QED BY <1>0, <3>1 DEF PeersOwned
  <2>3. CASE q # o /\ q # p
    <3>1. q \in Net!Nodes \ s.assigned /\ t.node[q] = s.node[q]
      BY <1>1, <2>3
    <3> QED BY <1>0, <3>1 DEF PeersOwned
  <2> QED BY <2>1, <2>2, <2>3
<1> QED BY <1>3, <1>4, <1>5 DEF Owned

LEMMA MovedIsCurrent ==
    ASSUME NEW s, NetInv(s), NEW t, Owned(t), NEW o \in Net!Nodes, NEW p \in Net!Nodes \ {o},
           t.node = [s.node EXCEPT ![o] = s.node[p], ![p] = Net!Fresh],
           t.hosts = s.hosts, t.peer = s.peer, t.unclear = s.unclear,
           s.assigned \subseteq t.assigned, p \in s.assigned => o \in t.assigned,
           o \in Servers => p \in Servers
    PROVE  NetInv(t)
<1>0. s \in NetType /\ PeersTraced(s) /\ ListsCurrent(s)
  BY DEF NetInv, Owned
<1>1. /\ t.node[o] = s.node[p] /\ t.node[p] = Net!Fresh
      /\ \A q \in Net!Nodes \ {o, p} : t.node[q] = s.node[q]
  BY <1>0 DEF NetType
<1>2. NoStrayPeers(t)
  BY DEF NetInv, NoStrayPeers
<1>3. PeersTraced(t)
  <2> SUFFICES ASSUME NEW q \in Net!Nodes, NEW j \in DOMAIN t.node[q].peers
               PROVE  t.node[q].peers[j][1]
                          \in {t.node[q].mHost} \cup s.unclear \cup (Hosts \ s.hosts)
    BY DEF PeersTraced
  <2>1. CASE q = p
    BY <1>1, <2>1, FreshIsANode
  <2>2. CASE q # p
    <3> DEFINE x == IF q = o THEN p ELSE q
    <3>1. x \in Net!Nodes /\ t.node[q] = s.node[x]
      BY <1>1, <2>2
    <3> QED BY <1>0, <3>1 DEF PeersTraced
  <2> QED BY <2>1, <2>2
<1>4. ListsCurrent(t)
  <2> SUFFICES ASSUME NEW q \in Servers \ t.assigned, t.node[q].mHost \in Hosts \ t.unclear
               PROVE  ListCurrent(t, t.node[q].mHost, t.node[q].peers)
    BY DEF ListsCurrent
  <2>1. q # p
    BY <1>1, FreshIsANode, NetNames
  <2> DEFINE x == IF q = o THEN p ELSE q
  <2>2. x \in Servers \ s.assigned /\ x \in Net!Nodes /\ t.node[q] = s.node[x]
    BY <1>1, <2>1, ServersAreNodes
  <2> HIDE DEF x
  <2>3. ListCurrent(s, s.node[x].mHost, s.node[x].peers)
    BY <1>0, <2>2 DEF ListsCurrent
  <2>4. s.node[x].peers \in Seq(Hosts \X Net!Slots)
    BY <1>0, <2>2, NodeIsARecord
  <2>5. SamePeers(s, t, s.node[x].mHost)
    BY DEF SamePeers
  <2> QED BY <2>2, <2>3, <2>4, <2>5, ListStaysCurrent
<1> QED BY <1>2, <1>3, <1>4 DEF NetInv

LEMMA TwoNodes ==
    ASSUME NEW s \in NetType, NEW o \in Net!Nodes, NEW p \in Net!Nodes \ {o}
    PROVE  [s.node EXCEPT ![o] = s.node[p], ![p] = Net!Fresh] \in [Net!Nodes -> NodeType]
<1> DEFINE f == s.node
           y == s.node[p]
<1>1. f \in [Net!Nodes -> NodeType] /\ y \in NodeType
  BY DEF NetType
<1> HIDE DEF f, y
<1>2. [f EXCEPT ![o] = y, ![p] = Net!Fresh] \in [Net!Nodes -> NodeType]
  BY <1>1, FreshIsANode
<1> QED BY <1>2 DEF f, y

LEMMA ServerMoveConstructKeeps ==
    ASSUME NetInv(net), NEW o \in Servers, NEW p \in Servers \ {o}, Net!ServerMoveConstruct(o, p)
    PROVE  NetInv(net')
<1> DEFINE s == net
           N == [s.node EXCEPT ![o] = s.node[p], ![p] = Net!Fresh]
           A == IF p \in s.assigned THEN s.assigned \cup {o} ELSE s.assigned
<1>0. s \in NetType /\ s.assigned \subseteq Servers /\ Owned(s)
  BY DEF NetInv, Owned
<1>1. s.node[o] = Net!Fresh /\ net' = [s EXCEPT !.node = N, !.assigned = A]
  <2>1. net' = [net EXCEPT !.node[o] = net.node[p], !.node[p] = Net!Fresh,
                           !.assigned = IF p \in @ THEN @ \cup {o} ELSE @]
    BY DEF Net!ServerMoveConstruct
  <2>2. s.node[o] = Net!Fresh
    BY DEF Net!ServerMoveConstruct
  <2> QED BY <1>0, <2>1, <2>2 DEF NetType
<1>2. N \in [Net!Nodes -> NodeType] /\ A \subseteq Servers /\ A \in SUBSET Net!Nodes
  BY <1>0, ServersAreNodes, TwoNodes
<1>3. s.assigned \subseteq A /\ (p \in s.assigned => o \in A)
  OBVIOUS
<1> HIDE DEF N, A, s
<1>4. /\ net' \in NetType /\ net'.node = N /\ net'.assigned = A /\ net'.hosts = s.hosts
      /\ net'.packets = s.packets /\ net'.lost = s.lost
      /\ net'.peer = s.peer /\ net'.unclear = s.unclear
  BY <1>0, <1>1, <1>2 DEF NetType
<1>5. /\ {s.node[o].mHost} \ {Net!Nil} = {}
      /\ {s.node[o].mLastEvent} \ {Net!Nil, Net!Clean} = {}
  BY <1>1, FreshIsANode
<1>6. /\ net'.lost.hosts = s.lost.hosts \cup ({s.node[o].mHost} \ {Net!Nil})
      /\ net'.lost.packets
           = s.lost.packets \cup ({s.node[o].mLastEvent} \ {Net!Nil, Net!Clean})
  BY <1>4, <1>5
<1>7. /\ o \in Net!Nodes /\ p \in Net!Nodes \ {o} /\ Owned(s) /\ NetInv(s)
      /\ net'.node = [s.node EXCEPT ![o] = s.node[p], ![p] = Net!Fresh]
  BY <1>0, <1>4, ServersAreNodes DEF s, N
<1>8. Owned(net')
  BY <1>2, <1>3, <1>4, <1>6, <1>7, MovedIsOwned
<1> QED BY <1>3, <1>4, <1>7, <1>8, ServersAreNodes, MovedIsCurrent

LEMMA ClientMoveAssignKeeps ==
    ASSUME NetInv(net), NEW o \in Clients, NEW p \in Clients \ {o}, Net!ClientMoveAssign(o, p)
    PROVE  NetInv(net')
<1> DEFINE s == net
           N == [s.node EXCEPT ![o] = s.node[p], ![p] = Net!Fresh]
           H == s.lost.hosts \cup ({s.node[o].mHost} \ {Net!Nil})
           K == s.lost.packets \cup ({s.node[o].mLastEvent} \ {Net!Nil, Net!Clean})
           M == [s.lost EXCEPT !.hosts = H, !.packets = K]
<1>0. s \in NetType /\ s.assigned \subseteq Servers /\ o \in Net!Nodes /\ p \in Net!Nodes \ {o}
      /\ Owned(s) /\ o \notin Servers
  BY ServersAreNodes, NodesAreApart DEF NetInv, Owned
<1>1. net' = [s EXCEPT !.node = N, !.lost = M]
  <2>1. net' = [net EXCEPT
                 !.node[o] = net.node[p], !.node[p] = Net!Fresh,
                 !.lost.hosts = @ \cup ({net.node[o].mHost} \ {Net!Nil}),
                 !.lost.packets = @ \cup ({net.node[o].mLastEvent} \ {Net!Nil, Net!Clean})]
    BY DEF Net!ClientMoveAssign
  <2> QED BY <1>0, <2>1 DEF NetType
<1>2. N \in [Net!Nodes -> NodeType]
  BY <1>0, TwoNodes
<1>3. H \in SUBSET Hosts /\ K \in SUBSET Packets
      /\ s.lost \in [hosts : SUBSET Hosts, packets : SUBSET Packets]
  BY <1>0, NodeIsARecord DEF NetType
<1> HIDE DEF H, K
<1>4. M \in [hosts : SUBSET Hosts, packets : SUBSET Packets] /\ M.hosts = H /\ M.packets = K
  BY <1>3
<1>5. p \notin s.assigned
  BY <1>0, NodesAreApart
<1> HIDE DEF N, M, s
<1>6. /\ net' \in NetType /\ net'.node = N /\ net'.assigned = s.assigned
      /\ net'.hosts = s.hosts /\ net'.packets = s.packets /\ net'.lost = M
      /\ net'.peer = s.peer /\ net'.unclear = s.unclear
  BY <1>0, <1>1, <1>2, <1>4 DEF NetType
<1>7. /\ NetInv(s) /\ net'.node = [s.node EXCEPT ![o] = s.node[p], ![p] = Net!Fresh]
      /\ net'.lost.hosts = s.lost.hosts \cup ({s.node[o].mHost} \ {Net!Nil})
      /\ net'.lost.packets
           = s.lost.packets \cup ({s.node[o].mLastEvent} \ {Net!Nil, Net!Clean})
  BY <1>4, <1>6 DEF s, N, H, K
<1>8. Owned(net')
  BY <1>0, <1>5, <1>6, <1>7, MovedIsOwned
<1> QED BY <1>0, <1>5, <1>6, <1>7, <1>8, MovedIsCurrent

LEMMA ServerMoveAssignKeeps ==
    ASSUME NetInv(net), NEW o \in Servers, NEW p \in Servers \ {o}, Net!ServerMoveAssign(o, p)
    PROVE  NetInv(net')
<1> DEFINE s == net
           f == s.node
           x == [f[o] EXCEPT !.peers = f[p].peers]
           y == [f[p] EXCEPT !.peers = <<>>]
           N == [f EXCEPT ![o] = x, ![p] = y]
           A == s.assigned \cup {o}
           U == s.unclear \cup ({f[o].mHost, f[p].mHost} \ {Net!Nil})
<1>0. s \in NetType /\ s.assigned \subseteq Servers /\ o \in Net!Nodes /\ p \in Net!Nodes \ {o}
      /\ s.assigned = {}
  BY ServersAreNodes DEF NetInv, Owned, Net!ServerMoveAssign
<1>1. net' = [s EXCEPT !.node = N, !.assigned = A, !.unclear = U]
  <2>1. net' = [net EXCEPT !.node[o].peers = net.node[p].peers,
                         !.node[p].peers = <<>>,
                         !.assigned = @ \cup {o},
                         !.unclear = @ \cup ({net.node[o].mHost, net.node[p].mHost} \ {Net!Nil})]
    BY DEF Net!ServerMoveAssign
  <2> QED BY <1>0, <2>1 DEF NetType
<1>2. f \in [Net!Nodes -> NodeType] /\ f[o] \in NodeType /\ f[p] \in NodeType
      /\ f[p].peers \in Seq(Hosts \X Net!Slots)
  BY <1>0, NodeIsARecord DEF NetType
<1>3. U \in SUBSET Hosts /\ A \in SUBSET Net!Nodes /\ A \subseteq Servers
  BY <1>0, NodeIsARecord DEF NetType
<1>4. x \in NodeType /\ x.mHost = f[o].mHost /\ x.mLastEvent = f[o].mLastEvent
      /\ x.peers = f[p].peers
  <2> DEFINE w == f[o]
             r == f[p].peers
  <2>1. w \in NodeType /\ r \in Seq(Hosts \X Net!Slots) /\ x = [w EXCEPT !.peers = r]
    BY <1>2
  <2> HIDE DEF w, r, x
  <2> QED BY <2>1 DEF NodeType, w, r
<1>5. y \in NodeType /\ y.mHost = f[p].mHost /\ y.mLastEvent = f[p].mLastEvent /\ y.peers = <<>>
  <2> DEFINE w == f[p]
  <2>1. w \in NodeType /\ <<>> \in Seq(Hosts \X Net!Slots) /\ y = [w EXCEPT !.peers = <<>>]
    BY <1>2
  <2> HIDE DEF w, y
  <2> QED BY <2>1 DEF NodeType, w
<1> HIDE DEF x, y, f, U, A
<1>6. /\ N \in [Net!Nodes -> NodeType] /\ N[o] = x /\ N[p] = y
      /\ \A q \in Net!Nodes \ {o, p} : N[q] = f[q]
  BY <1>0, <1>2, <1>4, <1>5
<1> HIDE DEF N, s
<1>7. /\ net' \in NetType /\ net'.node = N /\ net'.assigned = A
      /\ net'.hosts = s.hosts /\ net'.packets = s.packets /\ net'.lost = s.lost
      /\ net'.peer = s.peer /\ net'.unclear = U
  BY <1>0, <1>1, <1>3, <1>6 DEF NetType
<1>8. \A q \in Net!Nodes : N[q].mHost = f[q].mHost /\ N[q].mLastEvent = f[q].mLastEvent
  BY <1>4, <1>5, <1>6
<1>9. f = s.node /\ HostsOwned(s) /\ PacketsOwned(s) /\ PeersOwned(s)
  BY DEF f, s, NetInv, Owned
<1>10. HostsOwned(net')
  BY <1>7, <1>8, <1>9 DEF HostsOwned
<1>11. PacketsOwned(net')
  BY <1>7, <1>8, <1>9 DEF PacketsOwned
<1>12. PeersOwned(net')
  <2> SUFFICES ASSUME NEW q \in Net!Nodes \ A, NEW i \in DOMAIN N[q].peers
               PROVE  N[q].peers[i][1] = N[q].mHost
    BY <1>7 DEF PeersOwned
  <2>1. CASE q = p
    BY <1>5, <1>6, <2>1
  <2>2. CASE q # p
    <3>1. q \notin s.assigned /\ q # o
      BY DEF A
    <3>2. N[q] = s.node[q]
      BY <1>6, <1>9, <2>2, <3>1
    <3> QED BY <1>9, <3>1, <3>2 DEF PeersOwned
  <2> QED BY <2>1, <2>2
<1>13. Owned(net')
  BY <1>3, <1>7, <1>10, <1>11, <1>12 DEF Owned
<1>14. /\ s.unclear \subseteq U /\ (f[o].mHost # Net!Nil => f[o].mHost \in U)
       /\ (f[p].mHost # Net!Nil => f[p].mHost \in U)
       /\ NoStrayPeers(s) /\ PeersTraced(s) /\ ListsCurrent(s)
  BY DEF U, NetInv, s
<1>15. NoStrayPeers(net')
  BY <1>7, <1>14 DEF NoStrayPeers
<1>16. PeersTraced(net')
  <2> SUFFICES ASSUME NEW q \in Net!Nodes, NEW j \in DOMAIN N[q].peers
               PROVE  N[q].peers[j][1] \in {N[q].mHost} \cup U \cup (Hosts \ s.hosts)
    BY <1>7 DEF PeersTraced
  <2>1. CASE q = p
    BY <1>5, <1>6, <2>1
  <2>2. CASE q = o
    <3> DEFINE list == f[p].peers
    <3>1. N[q].peers = list
      BY <1>4, <1>6, <2>2
    <3>2. list[j] \in Hosts \X Net!Slots /\ j \in DOMAIN list
      BY <1>2, <3>1
    <3>3. list[j][1] \in {f[p].mHost} \cup s.unclear \cup (Hosts \ s.hosts)
      BY <1>0, <1>9, <1>14, <3>2 DEF PeersTraced
    <3> HIDE DEF list
    <3>4. list[j][1] # Net!Nil
      BY <3>2, NetNames
    <3> QED BY <1>14, <3>1, <3>3, <3>4
  <2>3. CASE q # o /\ q # p
    <3>1. N[q] = s.node[q]
      BY <1>6, <1>9, <2>3
    <3> QED BY <1>14, <3>1 DEF PeersTraced
  <2> QED BY <2>1, <2>2, <2>3
<1>17. ListsCurrent(net')
  <2> SUFFICES ASSUME NEW q \in Servers \ A, N[q].mHost \in Hosts \ U
               PROVE  ListCurrent(net', N[q].mHost, N[q].peers)
    BY <1>7 DEF ListsCurrent
  <2>1. q # o /\ q # p
    BY <1>5, <1>6, <1>14, NetNames DEF A
  <2>2. N[q] = s.node[q] /\ q \in Net!Nodes /\ q \notin s.assigned
    BY <1>6, <1>9, <2>1, ServersAreNodes DEF A
  <2>3. ListCurrent(s, N[q].mHost, N[q].peers)
    BY <1>14, <2>2 DEF ListsCurrent
  <2>4. N[q].peers \in Seq(Hosts \X Net!Slots)
    BY <1>0, <2>2, NodeIsARecord
  <2>5. SamePeers(s, net', N[q].mHost)
    BY <1>7 DEF SamePeers
  <2> QED BY <2>3, <2>4, <2>5, ListStaysCurrent
<1> QED BY <1>13, <1>15, <1>16, <1>17 DEF NetInv

LEMMA PeerConnectedKeeps ==
    ASSUME NEW s \in NetType, NEW h \in Hosts
    PROVE  LET t == Net!PeerConnected(s, h)
           IN  /\ t \in NetType /\ t.node = s.node /\ t.hosts = s.hosts \cup {h}
               /\ t.packets = s.packets /\ t.lost = s.lost
               /\ t.assigned = s.assigned /\ t.unclear = s.unclear
               /\ \A g \in Hosts \ {h} : t.peer[g] = s.peer[g]
<1> DEFINE u == Net!HostCreated(s, h)
           z == [u.peer[h][1] EXCEPT !.state = "live"]
           t == [u EXCEPT !.peer[h][1] = z]
<1>0. 1 \in Net!Slots
  BY NetNames
<1>1. /\ u \in NetType /\ u.node = s.node /\ u.hosts = s.hosts \cup {h}
      /\ u.peer = s.peer /\ u.packets = s.packets /\ u.lost = s.lost
      /\ u.assigned = s.assigned /\ u.unclear = s.unclear
  BY HostMade
<1>2. Net!PeerConnected(s, h) = [u EXCEPT !.peer[h][1].state = "live"]
  BY DEF Net!PeerConnected
<1> HIDE DEF u
<1>3. [u EXCEPT !.peer[h][1].state = "live"] = t
  BY <1>1 DEF NetType
<1>4. z \in PeerType
  <2> DEFINE y == u.peer[h][1]
  <2>1. y \in PeerType
    BY <1>0, <1>1 DEF NetType
  <2> HIDE DEF y
  <2>2. [y EXCEPT !.state = "live"] \in PeerType
    BY <2>1 DEF PeerType
  <2> QED BY <2>2 DEF y
<1> HIDE DEF z
<1>5. /\ t \in NetType /\ t.node = u.node /\ t.hosts = u.hosts
      /\ t.packets = u.packets /\ t.lost = u.lost
      /\ t.assigned = u.assigned /\ t.unclear = u.unclear
  BY <1>0, <1>1, <1>4, PeerChanged
<1>6. \A g \in Hosts \ {h} : t.peer[g] = u.peer[g]
  BY <1>1 DEF NetType
<1> HIDE DEF t
<1> QED BY <1>1, <1>2, <1>3, <1>5, <1>6

LEMMA ClientConnectKeeps ==
    ASSUME NetInv(net), NEW o \in Clients, Net!ClientConnect(o)
    PROVE  NetInv(net')
<1> DEFINE s == Net!Disconnected(net, o)
<1>0. o \in Net!Nodes
  BY ServersAreNodes
<1>1. NetInv(s) /\ Owned(s) /\ s.node[o].mHost = Net!Nil /\ s \in NetType
  BY <1>0, DisconnectedIsOwned, DisconnectedIsCurrent DEF NetInv, Owned
<1>2. o \notin s.assigned /\ o \notin Servers
  BY <1>1, NodesAreApart DEF Owned
<1>3. CASE net' = s
  BY <1>1, <1>3
<1>4. PICK h : (net' # s) =>
        /\ h \in Net!Unused(s)
        /\ \/ net' = Net!HostDestroyed(Net!HostCreated(s, h), h)
           \/ net' = [Net!Disconnected(Net!PeerConnected(s, h), o)
                         EXCEPT !.lost.hosts = @ \cup {h}]
           \/ net' = [Net!WithHost(Net!PeerConnected(s, h), o, h) EXCEPT
                         !.node[o].mLastEvent = Net!Clean,
                         !.node[o].peers = <<<<h, 1>>>>]
  BY DEF Net!ClientConnect
<1>5. h \in Net!Unused(s) => h \in Hosts \ s.hosts
  BY DEF Net!Unused
<1> HIDE DEF s
<1> DEFINE m == s.node[o]
<1>50. m \in NodeType /\ m.mHost = Net!Nil /\ s.node = [s.node EXCEPT ![o] = m]
  BY <1>0, <1>1, NodeIsARecord DEF NetType
<1>51. \A j \in DOMAIN m.peers : m.peers[j][1] \in {m.mHost} \cup s.unclear \cup (Hosts \ s.hosts)
  BY <1>0, <1>1 DEF NetInv, PeersTraced
<1>52. h \in Net!Unused(s) =>
         \A p \in Net!Nodes : \A j \in DOMAIN s.node[p].peers : s.node[p].peers[j][1] # h
  BY <1>1, UnusedIsUnlisted
<1> HIDE DEF m
<1>6. ASSUME h \in Net!Unused(s), net' = Net!HostDestroyed(Net!HostCreated(s, h), h)
      PROVE  NetInv(net')
  <2> DEFINE u == Net!HostCreated(s, h)
             t == Net!HostDestroyed(u, h)
  <2>1. /\ u \in NetType /\ u.node = s.node /\ u.hosts = s.hosts \cup {h}
        /\ u.peer = s.peer /\ u.packets = s.packets /\ u.lost = s.lost
        /\ u.assigned = s.assigned /\ u.unclear = s.unclear
    BY <1>1, <1>5, <1>6, HostMade
  <2> HIDE DEF u
  <2>2. /\ t \in NetType /\ t.node = u.node /\ t.hosts = u.hosts \ {h}
        /\ t.packets = u.packets /\ t.lost = u.lost /\ t.assigned = u.assigned
        /\ t.unclear = u.unclear \ {h}
        /\ t.peer = [u.peer EXCEPT ![h] = [k \in Net!Slots |-> Net!NoPeer]]
    BY <1>5, <1>6, <2>1, HostGone
  <2> HIDE DEF t
  <2>3. net' = t
    BY <1>6 DEF t, u
  <2>4. t.hosts = s.hosts
    BY <1>5, <1>6, <2>1, <2>2
  <2>5. Owned(t)
    BY <1>1, <2>1, <2>2, <2>4, StillOwned
  <2>6. /\ \A k \in Net!Slots : t.peer[h][k].state = "free"
        /\ \A g \in Hosts \ {h} : t.peer[g] = s.peer[g]
    BY <1>1, <1>5, <1>6, <2>1, <2>2 DEF NetType, Net!NoPeer
  <2>7. NoStrayPeers(t)
    <3> SUFFICES ASSUME NEW g \in Hosts \ t.hosts, NEW k \in Net!Slots
                 PROVE  t.peer[g][k].state = "free"
      BY DEF NoStrayPeers
    <3>1. s.peer[g][k].state = "free"
      BY <1>1, <2>4 DEF NetInv, NoStrayPeers
    <3> QED BY <2>6, <3>1
  <2>8. \A g \in Hosts \ ({s.node[o].mHost, m.mHost} \cup s.unclear) :
           g \in s.hosts => SamePeers(s, t, g)
    BY <1>5, <1>6, <2>6 DEF SamePeers
  <2>9. /\ t.node = [s.node EXCEPT ![o] = m] /\ s.assigned \ {o} \subseteq t.assigned
        /\ s.unclear \subseteq t.unclear \cup (Hosts \ t.hosts)
        /\ \A p \in Net!Nodes \ {o} : \A j \in DOMAIN s.node[p].peers :
               s.node[p].peers[j][1] \in t.hosts => s.node[p].peers[j][1] \in s.hosts
        /\ \A j \in DOMAIN m.peers :
               m.peers[j][1] \in {m.mHost} \cup t.unclear \cup (Hosts \ t.hosts)
    BY <1>5, <1>6, <1>50, <1>51, <2>1, <2>2, <2>4
  <2>10. NetInv(t)
    BY <1>0, <1>1, <1>2, <1>50, <2>5, <2>7, <2>8, <2>9, OthersStayCurrent
  <2> QED BY <2>3, <2>10
<1>7. ASSUME h \in Net!Unused(s),
             net' = [Net!Disconnected(Net!PeerConnected(s, h), o)
                         EXCEPT !.lost.hosts = @ \cup {h}]
      PROVE  NetInv(net')
  <2> DEFINE u == Net!PeerConnected(s, h)
             H == s.lost.hosts \cup {h}
             M == [s.lost EXCEPT !.hosts = H]
  <2>1. /\ u \in NetType /\ u.node = s.node /\ u.hosts = s.hosts \cup {h}
        /\ u.packets = s.packets /\ u.lost = s.lost /\ u.assigned = s.assigned
        /\ u.unclear = s.unclear /\ \A g \in Hosts \ {h} : u.peer[g] = s.peer[g]
    BY <1>1, <1>5, <1>7, PeerConnectedKeeps
  <2>2. net' = [Net!Disconnected(u, o) EXCEPT !.lost.hosts = @ \cup {h}]
    BY <1>7
  <2> HIDE DEF u
  <2>3. Net!Disconnected(u, o) = u
    BY <1>1, <2>1 DEF Net!Disconnected
  <2>4. net' = [u EXCEPT !.lost.hosts = @ \cup {h}]
    BY <2>2, <2>3
  <2>5. net' = [u EXCEPT !.lost = M]
    BY <2>1, <2>4 DEF NetType
  <2>6. H \in SUBSET Hosts /\ s.lost \in [hosts : SUBSET Hosts, packets : SUBSET Packets]
    BY <1>1, <1>5, <1>7 DEF NetType
  <2> HIDE DEF H
  <2>7. M \in [hosts : SUBSET Hosts, packets : SUBSET Packets] /\ M.hosts = H
        /\ M.packets = s.lost.packets
    BY <2>6
  <2> HIDE DEF M
  <2>8. /\ net' \in NetType /\ net'.node = s.node /\ net'.hosts = s.hosts \cup {h}
        /\ net'.packets = s.packets /\ net'.lost = M /\ net'.assigned = s.assigned
        /\ net'.unclear = s.unclear /\ net'.peer = u.peer
    BY <2>1, <2>5, <2>7 DEF NetType
  <2>9. h # Net!Nil /\ \A p \in Net!Nodes : s.node[p].mHost # h
    BY <1>1, <1>5, <1>7, NetNames DEF Owned, HostsOwned
  <2>10. HostsOwned(net')
    BY <1>1, <2>7, <2>8, <2>9 DEF Owned, HostsOwned, H
  <2>11. PacketsOwned(net')
    BY <1>1, <2>7, <2>8 DEF Owned, PacketsOwned
  <2>12. PeersOwned(net') /\ net'.assigned \subseteq Servers
    BY <1>1, <2>8 DEF Owned, PeersOwned
  <2>13. Owned(net')
    BY <2>8, <2>10, <2>11, <2>12 DEF Owned
  <2>14. NoStrayPeers(net')
    BY <1>1, <2>1, <2>8 DEF NetInv, NoStrayPeers
  <2>15. \A g \in Hosts \ ({s.node[o].mHost, m.mHost} \cup s.unclear) :
           g \in s.hosts => SamePeers(s, net', g)
    BY <1>5, <1>7, <2>1, <2>8 DEF SamePeers
  <2>16. \A j \in DOMAIN m.peers :
           m.peers[j][1] \in {m.mHost} \cup net'.unclear \cup (Hosts \ net'.hosts)
    BY <1>0, <1>7, <1>51, <1>52, <2>8 DEF m
  <2>17. /\ net'.node = [s.node EXCEPT ![o] = m] /\ s.assigned \ {o} \subseteq net'.assigned
         /\ s.unclear \subseteq net'.unclear \cup (Hosts \ net'.hosts)
         /\ \A p \in Net!Nodes \ {o} : \A j \in DOMAIN s.node[p].peers :
               s.node[p].peers[j][1] \in net'.hosts => s.node[p].peers[j][1] \in s.hosts
    BY <1>7, <1>50, <1>52, <2>8
  <2> QED BY <1>0, <1>1, <1>2, <1>50, <2>13, <2>14, <2>15, <2>16, <2>17, OthersStayCurrent
<1>8. ASSUME h \in Net!Unused(s),
             net' = [Net!WithHost(Net!PeerConnected(s, h), o, h) EXCEPT
                         !.node[o].mLastEvent = Net!Clean,
                         !.node[o].peers = <<<<h, 1>>>>]
      PROVE  NetInv(net')
  <2> DEFINE u == Net!PeerConnected(s, h)
             v == Net!WithHost(u, o, h)
             x == [v.node[o] EXCEPT !.mLastEvent = Net!Clean]
             y == [x EXCEPT !.peers = <<<<h, 1>>>>]
             t == [v EXCEPT !.node[o] = y]
  <2>1. /\ u \in NetType /\ u.node = s.node /\ u.hosts = s.hosts \cup {h}
        /\ u.packets = s.packets /\ u.lost = s.lost /\ u.assigned = s.assigned
        /\ u.unclear = s.unclear /\ \A g \in Hosts \ {h} : u.peer[g] = s.peer[g]
    BY <1>1, <1>5, <1>8, PeerConnectedKeeps
  <2>2. net' = [v EXCEPT !.node[o].mLastEvent = Net!Clean, !.node[o].peers = <<<<h, 1>>>>]
    BY <1>8
  <2> HIDE DEF u
  <2>3. /\ v \in NetType /\ v.node = [s.node EXCEPT ![o].mHost = h]
        /\ v.hosts = s.hosts \cup {h}
        /\ v.packets = s.packets /\ v.lost = s.lost /\ v.assigned = s.assigned
        /\ v.unclear = s.unclear /\ v.peer = u.peer
    <3>1. /\ v \in NetType /\ v.node = [u.node EXCEPT ![o].mHost = h]
          /\ v.hosts = u.hosts \cup {h}
          /\ v.packets = u.packets /\ v.lost = u.lost /\ v.assigned = u.assigned
          /\ v.unclear = u.unclear /\ v.peer = u.peer
      BY <1>0, <1>5, <1>8, <2>1, HostTaken
    <3> HIDE DEF v
    <3> QED BY <2>1, <3>1
  <2> HIDE DEF v
  <2>4. net' = t
    BY <1>0, <2>2, <2>3 DEF NetType, NodeType
  <2>5. v.node[o] \in NodeType /\ v.node[o].mHost = h
    <3> DEFINE w == s.node[o]
    <3>1. w \in NodeType
      BY <1>0, <1>1, NodeIsARecord
    <3>2. v.node[o] = [w EXCEPT !.mHost = h]
      BY <1>0, <1>1, <2>3 DEF NetType
    <3> HIDE DEF w
    <3> QED BY <1>5, <1>8, <3>1, <3>2 DEF NodeType
  <2>6. x \in NodeType /\ x.mHost = h /\ x.mLastEvent = Net!Clean
    <3> DEFINE w == v.node[o]
    <3>1. w \in NodeType /\ w.mHost = h /\ x = [w EXCEPT !.mLastEvent = Net!Clean]
      BY <2>5
    <3> HIDE DEF w, x
    <3> QED BY <3>1 DEF NodeType
  <2> HIDE DEF x
  <2>7. <<<<h, 1>>>> \in Seq(Hosts \X Net!Slots)
    BY <1>5, <1>8, NetNames
  <2>8. y \in NodeType /\ y.mHost = h /\ y.mLastEvent = Net!Clean /\ y.peers = <<<<h, 1>>>>
    BY <2>6, <2>7 DEF NodeType
  <2> HIDE DEF y
  <2>9. /\ t \in NetType /\ t.node = [v.node EXCEPT ![o] = y] /\ t.hosts = v.hosts
        /\ t.packets = v.packets /\ t.lost = v.lost /\ t.assigned = v.assigned
        /\ t.unclear = v.unclear /\ t.peer = v.peer
    BY <1>0, <2>3, <2>8, NodeSet
  <2> HIDE DEF t
  <2>10. t.node = [s.node EXCEPT ![o] = y]
    BY <1>0, <1>1, <2>3, <2>9 DEF NetType
  <2>11. \A i \in DOMAIN y.peers : y.peers[i][1] = h
    BY <2>8
  <2>12. \A g \in Hosts \ {h} : SamePeers(s, t, g)
    BY <2>1, <2>3, <2>9 DEF SamePeers
  <2>13. /\ t.hosts = s.hosts \cup {h} /\ t.packets = s.packets /\ t.lost = s.lost
         /\ t.assigned = s.assigned /\ t.unclear = s.unclear
    BY <2>3, <2>9
  <2> QED BY <1>0, <1>1, <1>2, <1>8, <2>4, <2>8, <2>9, <2>10, <2>11, <2>12, <2>13, HostTakenKeeps
<1> QED BY <1>3, <1>4, <1>5, <1>6, <1>7, <1>8

LEMMA DestroyKeeps ==
    ASSUME NetInv(net), NEW o \in Net!Nodes, Net!Destroy(o)
    PROVE  NetInv(net')
<1> DEFINE s == Net!Disconnected(net, o)
           u == [s EXCEPT !.node[o] = Net!Fresh]
           A == s.assigned \ {o}
           t == [u EXCEPT !.assigned = A]
<1>1. NetInv(s) /\ Owned(s) /\ s.node[o].mHost = Net!Nil /\ s \in NetType
  BY DisconnectedIsOwned, DisconnectedIsCurrent DEF NetInv, Owned
<1>2. net' = [s EXCEPT !.node[o] = Net!Fresh, !.assigned = @ \ {o}]
  BY DEF Net!Destroy
<1> HIDE DEF s
<1>3. net' = t
  BY <1>1, <1>2 DEF NetType
<1>4. /\ u \in NetType /\ u.node = [s.node EXCEPT ![o] = Net!Fresh] /\ u.hosts = s.hosts
      /\ u.packets = s.packets /\ u.lost = s.lost /\ u.assigned = s.assigned
      /\ u.peer = s.peer /\ u.unclear = s.unclear
  BY <1>1, FreshIsANode, NodeSet
<1> HIDE DEF u
<1>5. A \in SUBSET Net!Nodes /\ A \subseteq Servers /\ s.assigned \ {o} \subseteq A
  BY <1>1 DEF NetType, Owned
<1> HIDE DEF A
<1>6. /\ t \in NetType /\ t.node = u.node /\ t.hosts = u.hosts
      /\ t.packets = u.packets /\ t.lost = u.lost /\ t.assigned = A
      /\ t.peer = s.peer /\ t.unclear = s.unclear
  BY <1>4, <1>5 DEF NetType
<1> HIDE DEF t
<1>7. /\ Net!Nil \notin s.hosts /\ Net!Nil \notin s.packets
      /\ s.node[o].mLastEvent = Net!Nil
  BY <1>1, NetNames DEF NetType, Owned, PacketsOwned
<1>8. /\ t.hosts = (s.hosts \ {s.node[o].mHost}) \cup ({Net!Fresh.mHost} \ {Net!Nil})
      /\ t.packets = (s.packets \ {s.node[o].mLastEvent})
                         \cup ({Net!Fresh.mLastEvent} \ {Net!Nil, Net!Clean})
      /\ Net!Fresh.mHost = s.node[o].mHost /\ Net!Fresh.mLastEvent = s.node[o].mLastEvent
      /\ DOMAIN Net!Fresh.peers = {} /\ t.node = [s.node EXCEPT ![o] = Net!Fresh]
      /\ t.lost = s.lost
  BY <1>1, <1>4, <1>6, <1>7, FreshIsANode
<1>9. Owned(t)
  BY <1>1, <1>5, <1>6, <1>8, FreshIsANode, OneNodeReplaced
<1>10. NoStrayPeers(t)
  BY <1>1, <1>4, <1>6 DEF NetInv, NoStrayPeers
<1> DEFINE n == Net!Fresh
<1>11. /\ n \in NodeType /\ n.mHost = Net!Nil /\ DOMAIN n.peers = {} /\ n.mHost \notin Hosts
       /\ t.node = [s.node EXCEPT ![o] = n] /\ s.assigned \ {o} \subseteq t.assigned
       /\ s.unclear \subseteq t.unclear \cup (Hosts \ t.hosts) /\ t.hosts = s.hosts
  BY <1>4, <1>5, <1>6, <1>8, FreshIsANode, NetNames
<1>12. \A h \in Hosts \ ({s.node[o].mHost, n.mHost} \cup s.unclear) :
          h \in s.hosts => SamePeers(s, t, h)
  BY <1>6 DEF SamePeers
<1> HIDE DEF n
<1>13. NetInv(t)
  BY <1>1, <1>9, <1>10, <1>11, <1>12, OthersStayCurrent
<1> QED BY <1>3, <1>13

LEMMA NetInvStep == NetInv(net) /\ [Net!Next]_net => NetInv(net')
<1> SUFFICES ASSUME NetInv(net), [Net!Next]_net
             PROVE  NetInv(net')
  OBVIOUS
<1>1. ASSUME NEW o \in Net!Nodes, Net!NodeNext(o) PROVE NetInv(net')
  BY <1>1, PollsNothingKeeps, DisconnectedIsCurrent, DestroyKeeps DEF Net!NodeNext, Net!Disconnect
<1>2. ASSUME NEW o \in Servers, Net!ServerNext(o) PROVE NetInv(net')
  <2>0. o \in Net!Nodes
    BY ServersAreNodes
  <2> QED BY <1>2, <2>0, ServerConnectKeeps, DisconnectAddressKeeps,
             ServerPollsConnectKeeps, ServerPollsDisconnectKeeps, PollsReceiveKeeps,
             ServerMoveConstructKeeps, ServerMoveAssignKeeps DEF Net!ServerNext
<1>3. ASSUME NEW o \in Clients, Net!ClientNext(o) PROVE NetInv(net')
  <2>0. o \in Net!Nodes /\ 1 \in Net!Slots
    BY ServersAreNodes, NetNames
  <2> QED BY <1>3, <2>0, ClientConnectKeeps, ClientPollsDisconnectKeeps,
             PollsReceiveKeeps, ConnectionDisconnectKeeps, ClientMoveAssignKeeps
          DEF Net!ClientNext
<1>4. CASE UNCHANGED net
  BY <1>4
<1> QED BY <1>1, <1>2, <1>3, <1>4, ServersAreNodes
        DEF Net!Next, Net!ServersNext, Net!ClientsNext

LEMMA NetInvInit == Net!Init => NetInv(net)
<1> SUFFICES ASSUME Net!Init PROVE NetInv(net)
  OBVIOUS
<1> DEFINE N == [o \in Net!Nodes |-> Net!Fresh]
           q == [h \in Hosts |-> [i \in Net!Slots |-> Net!NoPeer]]
<1>1. net = [node |-> N, hosts |-> {}, peer |-> q, packets |-> {},
             lost |-> [hosts |-> {}, packets |-> {}], assigned |-> {}, unclear |-> {}]
  BY DEF Net!Init
<1>2. N \in [Net!Nodes -> NodeType] /\ q \in [Hosts -> [Net!Slots -> PeerType]]
      /\ \A o \in Net!Nodes : N[o] = Net!Fresh
  BY FreshIsANode, NoPeerIsAPeer
<1> HIDE DEF N, q
<1>3. net \in NetType /\ net.node = N /\ net.hosts = {} /\ net.packets = {}
      /\ net.lost.hosts = {} /\ net.lost.packets = {} /\ net.assigned = {}
      /\ net.peer = q /\ net.unclear = {}
  BY <1>1, <1>2 DEF NetType
<1>4. HostsOwned(net)
  BY <1>2, <1>3, FreshIsANode DEF HostsOwned
<1>5. PacketsOwned(net)
  BY <1>2, <1>3, FreshIsANode DEF PacketsOwned
<1>6. PeersOwned(net)
  BY <1>2, <1>3, FreshIsANode DEF PeersOwned
<1>7. NoStrayPeers(net)
  BY <1>3 DEF NoStrayPeers, Net!NoPeer, q
<1>8. PeersTraced(net)
  BY <1>2, <1>3, FreshIsANode DEF PeersTraced
<1>9. ListsCurrent(net)
  BY <1>2, <1>3, FreshIsANode, NetNames, ServersAreNodes DEF ListsCurrent
<1> QED BY <1>3, <1>4, <1>5, <1>6, <1>7, <1>8, <1>9 DEF NetInv, Owned

LEMMA OwnedGivesOneOwner == Owned(net) => NetworkIsOwned
<1> SUFFICES ASSUME Owned(net) PROVE NetworkIsOwned
  OBVIOUS
<1>0. net \in NetType /\ HostsOwned(net) /\ PacketsOwned(net) /\ PeersOwned(net)
      /\ Net!Nil \notin net.hosts /\ Net!Nil \notin net.packets /\ Net!Clean \notin net.packets
  BY NetNames DEF Owned, NetType
<1>1. {net.node[o].mHost : o \in Net!Nodes} \ {Net!Nil} \subseteq net.hosts
  BY <1>0 DEF HostsOwned
<1>2. ASSUME NEW S, NEW b \in BOOLEAN, b <=> S = {}, \A x, y \in S : x = y
      PROVE  Cardinality(S) = IF b THEN 0 ELSE 1
  <2>1. CASE S = {}
    BY <1>2, <2>1, FS_EmptySet
  <2>2. CASE S # {}
    <3>1. PICK x : S = {x}
      BY <1>2, <2>2
    <3> QED BY <1>2, <3>1, FS_Singleton
  <2> QED BY <2>1, <2>2
<1>3. ASSUME NEW h \in net.hosts
      PROVE  Net!Cardinality(Net!Owners(h)) = IF h \in net.lost.hosts THEN 0 ELSE 1
  <2> DEFINE S == {o \in Net!Nodes : net.node[o].mHost = h}
             b == h \in net.lost.hosts
  <2>1. b <=> S = {}
    BY <1>0 DEF HostsOwned
  <2>2. \A x, y \in S : x = y
    BY <1>0 DEF HostsOwned
  <2> HIDE DEF S
  <2>3. Cardinality(S) = IF b THEN 0 ELSE 1
    BY <1>2, <2>1, <2>2
  <2> QED BY <2>3 DEF S, Net!Owners, Net!Cardinality, Cardinality
<1>4. ASSUME NEW k \in net.packets
      PROVE  Net!Cardinality({o \in Net!Nodes : net.node[o].mLastEvent = k})
                 = IF k \in net.lost.packets THEN 0 ELSE 1
  <2> DEFINE S == {o \in Net!Nodes : net.node[o].mLastEvent = k}
             b == k \in net.lost.packets
  <2>1. b <=> S = {}
    BY <1>0 DEF PacketsOwned
  <2>2. \A x, y \in S : x = y
    BY <1>0 DEF PacketsOwned
  <2> HIDE DEF S
  <2>3. Cardinality(S) = IF b THEN 0 ELSE 1
    BY <1>2, <2>1, <2>2
  <2> QED BY <2>3 DEF S, Net!Cardinality, Cardinality
<1>5. Net!EverythingHasOneOwner
  BY <1>1, <1>3, <1>4 DEF Net!EverythingHasOneOwner
<1>6. Net!PeersExist
  <2> SUFFICES ASSUME NEW o \in Net!Nodes \ net.assigned, NEW p \in Hosts \X Net!Slots,
                      Net!Contains(net.node[o].peers, p)
               PROVE  p[1] \in net.hosts
    BY DEF Net!PeersExist
  <2>1. net.node[o].peers \in Seq(Hosts \X Net!Slots)
    BY <1>0, NodeIsARecord
  <2>2. PICK i \in 1 .. Len(net.node[o].peers) : net.node[o].peers[i] = p
    BY <2>1 DEF Net!Contains
  <2>3. p[1] = net.node[o].mHost
    BY <1>0, <2>1, <2>2 DEF PeersOwned
  <2> QED BY <1>0, <2>3, NetNames DEF HostsOwned
<1> QED BY <1>5, <1>6 DEF NetworkIsOwned

LEMMA NetInvGivesLists == NetInv(net) => ClientListIsCurrent
<1> SUFFICES ASSUME NetInv(net) PROVE Net!ClientListIsCurrent
  BY DEF ClientListIsCurrent
<1> SUFFICES ASSUME NEW o \in Servers, net.node[o].mHost # Net!Nil,
                    net.node[o].mHost \notin net.unclear, o \notin net.assigned
             PROVE  /\ Net!ToSet(net.node[o].peers) =
                         {<<net.node[o].mHost, i>> :
                            i \in {j \in Net!Slots : net.peer[net.node[o].mHost][j].state = "live"}}
                    /\ Net!IsInjective(net.node[o].peers)
  BY DEF Net!ClientListIsCurrent
<1> DEFINE h == net.node[o].mHost
           list == net.node[o].peers
           L == {<<h, i>> : i \in {j \in Net!Slots : net.peer[h][j].state = "live"}}
<1>1. h \in Hosts /\ list \in Seq(Hosts \X Net!Slots) /\ o \in Net!Nodes
  BY NodeIsARecord, ServersAreNodes DEF NetInv, Owned
<1>2. ListCurrent(net, h, list)
  BY <1>1, StillCurrent
<1> HIDE DEF h, list
<1>3. \A j \in 1 .. Len(list) : list[j] \in L
  <2> SUFFICES ASSUME NEW j \in 1 .. Len(list) PROVE list[j] \in L
    OBVIOUS
  <2>1. /\ list[j][2] \in Net!Slots /\ list[j] = <<h, list[j][2]>>
        /\ net.peer[h][list[j][2]].state = "live"
    BY <1>1, <1>2, ListedIsLive
  <2> QED BY <2>1
<1>4. \A e \in L : \E j \in DOMAIN list : list[j] = e
  BY <1>2 DEF ListCurrent
<1> HIDE DEF L
<1>5. Net!ToSet(list) = L
  BY <1>1, <1>3, <1>4 DEF Net!ToSet
<1>6. Net!IsInjective(list)
  BY <1>1, <1>2 DEF ListCurrent, Net!IsInjective
<1> QED BY <1>5, <1>6 DEF h, list, L

LEMMA NetInvAlways == LibrarySpec => []NetInv(net)
<1>1. LibraryInit => NetInv(net)
  BY NetInvInit DEF LibraryInit
<1>2. NetInv(net) /\ [LibraryNext]_libraryVars => NetInv(net)'
  <2>1. ASSUME NetInv(net), [LibraryNext]_libraryVars
        PROVE  [Net!Next]_net
    BY <2>1 DEF LibraryNext, libraryVars, Others, Net!Next
  <2> QED BY <2>1, NetInvStep
<1> QED BY <1>1, <1>2, PTL DEF LibrarySpec

(* Every ENet host and every packet is given back by one object, whatever  *)
(* fails on the way, and no object refers to a peer of a host that is gone.*)
THEOREM EverythingIsOwned == LibrarySpec => []NetworkIsOwned
<1>1. NetInv(net) => NetworkIsOwned
  BY OwnedGivesOneOwner DEF NetInv
<1> QED BY <1>1, NetInvAlways, PTL

(* The list of a NetServer has the clients that are connected, once each.  *)
THEOREM ClientsAreListed == LibrarySpec => []ClientListIsCurrent
<1> QED BY NetInvGivesLists, NetInvAlways, PTL
-----------------------------------------------------------------------------
(* Function: a call ends at the callable that was meant.                   *)
(*                                                                         *)
(* A Function in use has a place of its own, its buffer or a block, and    *)
(* something in it (Stored); so a change of one leaves what the others     *)
(* hold.  Which callable a chain of references ends at only depends on     *)
(* what the Functions on it hold, and those of a Function that is not      *)
(* stale did not change.                                                   *)
FnType == [mFunction : [Functions -> Functions \cup Blocks \cup {None}],
           mBuffer : [Functions -> Callables!Stored \cup {None}],
           heap : [Blocks -> Callables!Stored \cup {None}],
           meant : [Functions -> Small \cup Large \cup {None}],
           stale : SUBSET Functions]

InPlace(s) ==
    /\ s \in FnType
    /\ \A f \in Functions : /\ s.mFunction[f] \in {None, f} \cup Blocks
                            /\ s.mFunction[f] = f => s.mBuffer[f] # None
    /\ \A f, g \in Functions : s.mFunction[f] \in Blocks /\ s.mFunction[f] = s.mFunction[g] => f = g
    /\ \A k \in Blocks : s.heap[k] # None <=> \E f \in Functions : s.mFunction[f] = k

CallsMeant(s) == \A f \in Functions \ s.stale : Callables!Target(s, f) = s.meant[f]

FnInv(s) == InPlace(s) /\ CallsMeant(s)

\* The Functions on the way of a call of f
Reach(s, f) == {h \in Functions : \A S \in SUBSET Functions : Callables!Leads(s, f, S) => h \in S}

LEMMA PassedIsHeld ==
    ASSUME NEW s, NEW f
    PROVE  Callables!Passed(s, f) = {Callables!Content(s, g) : g \in Reach(s, f)}
BY DEF Callables!Passed, Reach

LEMMA ReachLeads ==
    ASSUME NEW s, NEW f \in Functions
    PROVE  /\ f \in Reach(s, f) /\ Reach(s, f) \subseteq Functions
           /\ \A g \in Reach(s, f) : Callables!Content(s, g) \in Functions
                                     => Callables!Content(s, g) \in Reach(s, f)
<1>1. \A S \in SUBSET Functions : Callables!Leads(s, f, S)
                                  => f \in S /\ \A g \in S : Callables!Content(s, g) \in Functions
                                                            => Callables!Content(s, g) \in S
  BY DEF Callables!Leads
<1> QED BY <1>1 DEF Reach

LEMMA ReachIsLeast ==
    ASSUME NEW s, NEW f, NEW S \in SUBSET Functions, f \in S,
           \A g \in S : Callables!Content(s, g) \in Functions => Callables!Content(s, g) \in S
    PROVE  Reach(s, f) \subseteq S
BY DEF Reach, Callables!Leads

LEMMA ReachIsPassed ==
    ASSUME NEW s, NEW f \in Functions
    PROVE  Reach(s, f) \subseteq {f} \cup Callables!Passed(s, f)
<1> DEFINE P == Callables!Passed(s, f)
           S == {f} \cup (P \cap Functions)
<1>1. \A g \in Reach(s, f) : Callables!Content(s, g) \in P
  BY PassedIsHeld
<1>2. P \cap Functions \subseteq Reach(s, f)
  BY PassedIsHeld, ReachLeads
<1> HIDE DEF P
<1>3. S \in SUBSET Functions /\ f \in S
  OBVIOUS
<1>4. \A g \in S : Callables!Content(s, g) \in Functions => Callables!Content(s, g) \in S
  BY <1>1, <1>2, ReachLeads
<1>5. Reach(s, f) \subseteq S
  <2> HIDE DEF S
  <2> QED BY <1>3, <1>4, ReachIsLeast
<1> QED BY <1>5 DEF P

(* A call that goes through no Function with another content than before   *)
(* goes where it went.                                                     *)
LEMMA PassedStays ==
    ASSUME NEW s, NEW t, NEW C, NEW f \in Functions \ C,
           \A g \in Functions \ C : Callables!Content(t, g) = Callables!Content(s, g),
           Callables!Passed(t, f) \cap C = {}
    PROVE  Callables!Passed(t, f) = Callables!Passed(s, f)
<1>1. Reach(t, f) \cap C = {}
  BY ReachIsPassed
<1>2. Reach(t, f) \subseteq Functions /\ f \in Reach(t, f)
  BY ReachLeads
<1>3. \A g \in Reach(t, f) : Callables!Content(t, g) = Callables!Content(s, g)
  BY <1>1, <1>2
<1>4. Reach(s, f) \subseteq Reach(t, f)
  <2>1. \A g \in Reach(t, f) : Callables!Content(s, g) \in Functions
                               => Callables!Content(s, g) \in Reach(t, f)
    BY <1>3, ReachLeads
  <2> QED BY <1>2, <2>1, ReachIsLeast
<1>5. Reach(t, f) \subseteq Reach(s, f)
  <2>1. \A g \in Reach(s, f) : Callables!Content(t, g) \in Functions
                               => Callables!Content(t, g) \in Reach(s, f)
    BY <1>3, <1>4, ReachLeads
  <2>2. Reach(s, f) \in SUBSET Functions /\ f \in Reach(s, f)
    BY ReachLeads
  <2> QED BY <2>1, <2>2, ReachIsLeast
<1>6. Reach(t, f) = Reach(s, f)
  BY <1>4, <1>5
<1> DEFINE R == Reach(t, f)
<1>7. Callables!Passed(t, f) = {Callables!Content(t, g) : g \in R}
  BY PassedIsHeld
<1>8. Callables!Passed(s, f) = {Callables!Content(s, g) : g \in R}
  BY <1>6, PassedIsHeld
<1>9. \A g \in R : Callables!Content(t, g) = Callables!Content(s, g)
  BY <1>3
<1> HIDE DEF R
<1>10. {Callables!Content(t, g) : g \in R} \subseteq {Callables!Content(s, g) : g \in R}
  BY <1>9
<1>11. {Callables!Content(s, g) : g \in R} \subseteq {Callables!Content(t, g) : g \in R}
  BY <1>9
<1> QED BY <1>7, <1>8, <1>10, <1>11

LEMMA TargetOfPassed ==
    ASSUME NEW s, NEW t, NEW f, NEW g,
           Callables!Passed(t, f) \ Functions = Callables!Passed(s, g) \ Functions
    PROVE  Callables!Target(t, f) = Callables!Target(s, g)
<1> DEFINE E == Callables!Passed(t, f) \ Functions
<1>1. Callables!Target(t, f) = IF E = {} THEN None ELSE CHOOSE x \in E : TRUE
  BY DEF Callables!Target
<1>2. E = Callables!Passed(s, g) \ Functions
  OBVIOUS
<1> HIDE DEF E
<1>3. Callables!Target(s, g) = IF E = {} THEN None ELSE CHOOSE x \in E : TRUE
  BY <1>2 DEF Callables!Target
<1> QED BY <1>1, <1>3

LEMMA CallEnds ==
    ASSUME NEW s, NEW f \in Functions, Callables!Content(s, f) \notin Functions
    PROVE  Callables!Target(s, f) = Callables!Content(s, f)
<1> DEFINE x == Callables!Content(s, f)
<1>1. Reach(s, f) = {f}
  <2>1. Reach(s, f) \subseteq {f}
    <3>1. {f} \in SUBSET Functions /\ f \in {f}
      OBVIOUS
    <3> QED BY <3>1, ReachIsLeast
  <2> QED BY <2>1, ReachLeads
<1>2. Callables!Passed(s, f) = {x}
  BY <1>1, PassedIsHeld
<1> HIDE DEF x
<1>3. Callables!Passed(s, f) \ Functions = {x}
  BY <1>2 DEF x
<1> QED BY <1>3 DEF Callables!Target, x

LEMMA CallGoesOn ==
    ASSUME NEW s, NEW f \in Functions, NEW y \in Functions, Callables!Content(s, f) = y
    PROVE  /\ Callables!Passed(s, y) \subseteq Callables!Passed(s, f)
           /\ y \in Callables!Passed(s, f)
           /\ Callables!Target(s, f) = Callables!Target(s, y)
<1> DEFINE S == {f} \cup Reach(s, y)
<1>1. Reach(s, f) \subseteq S
  <2>1. S \in SUBSET Functions /\ f \in S
    BY ReachLeads
  <2>2. \A g \in S : Callables!Content(s, g) \in Functions => Callables!Content(s, g) \in S
    BY ReachLeads
  <2> HIDE DEF S
  <2> QED BY <2>1, <2>2, ReachIsLeast
<1>2. Reach(s, y) \subseteq Reach(s, f)
  <2>1. y \in Reach(s, f) /\ Reach(s, f) \in SUBSET Functions
    BY ReachLeads
  <2>2. \A g \in Reach(s, f) : Callables!Content(s, g) \in Functions
                               => Callables!Content(s, g) \in Reach(s, f)
    BY ReachLeads
  <2> QED BY <2>1, <2>2, ReachIsLeast
<1>3. Reach(s, f) = S
  BY <1>1, <1>2, ReachLeads
<1>4. Callables!Passed(s, f) = {y} \cup Callables!Passed(s, y)
  BY <1>3, PassedIsHeld
<1>5. Callables!Passed(s, f) \ Functions = Callables!Passed(s, y) \ Functions
  BY <1>4
<1> QED BY <1>4, <1>5, TargetOfPassed

(* What the parts of a call leave                                          *)
LEMMA FunctionNames ==
    /\ Functions \cap Blocks = {} /\ None \notin Functions /\ None \notin Blocks
    /\ None \notin Callables!Stored
BY CallablesAreApart DEF Callables!Stored

LEMMA ContentIsStored ==
    ASSUME NEW s, InPlace(s), NEW f \in Functions
    PROVE  /\ s.mFunction[f] = None => Callables!Content(s, f) = None
           /\ s.mFunction[f] # None => Callables!Content(s, f) \in Callables!Stored
<1>1. s.mFunction[f] \in {None, f} \cup Blocks
  BY DEF InPlace
<1>2. CASE s.mFunction[f] = None
  BY <1>2 DEF Callables!Content
<1>3. CASE s.mFunction[f] = f
  <2>1. Callables!Content(s, f) = s.mBuffer[f]
    BY <1>3, FunctionNames DEF Callables!Content
  <2>2. s.mBuffer[f] \in Callables!Stored
    BY <1>3 DEF InPlace, FnType
  <2> QED BY <1>3, <2>1, <2>2, FunctionNames
<1>4. CASE s.mFunction[f] \in Blocks
  <2>1. Callables!Content(s, f) = s.heap[s.mFunction[f]]
    BY <1>4, FunctionNames DEF Callables!Content
  <2>2. s.heap[s.mFunction[f]] \in Callables!Stored
    BY <1>4 DEF InPlace, FnType
  <2> QED BY <1>4, <2>1, <2>2, FunctionNames
<1> QED BY <1>1, <1>2, <1>3, <1>4

\* Two states of which the one has the other's contents but for f
LEMMA SameContent ==
    ASSUME NEW s, InPlace(s), NEW t, NEW g \in Functions, t.mFunction[g] = s.mFunction[g],
           s.mFunction[g] = g => t.mBuffer[g] = s.mBuffer[g],
           s.mFunction[g] \in Blocks => t.heap[s.mFunction[g]] = s.heap[s.mFunction[g]]
    PROVE  Callables!Content(t, g) = Callables!Content(s, g)
<1>1. s.mFunction[g] \in {None, g} \cup Blocks
  BY DEF InPlace
<1> QED BY <1>1, FunctionNames DEF Callables!Content

LEMMA EmptiedKeeps ==
    ASSUME NEW s, InPlace(s), NEW f \in Functions
    PROVE  LET t == Callables!Reset(s, f)
           IN  /\ InPlace(t) /\ t.mFunction[f] = None /\ t.meant = s.meant /\ t.stale = s.stale
               /\ \A g \in Functions \ {f} : /\ t.mFunction[g] = s.mFunction[g]
                                             /\ t.mBuffer[g] = s.mBuffer[g]
                                             /\ Callables!Content(t, g) = Callables!Content(s, g)
<1> DEFINE t == Callables!Reset(s, f)
           p == s.mFunction[f]
<1>1. s \in FnType /\ p \in {None, f} \cup Blocks
  BY DEF InPlace
<1>2. CASE p = None
  BY <1>2 DEF Callables!Reset
<1>3. CASE p = f
  <2>1. t = [s EXCEPT !.mBuffer[f] = None, !.mFunction[f] = None]
    BY <1>3, FunctionNames DEF Callables!Reset
  <2> HIDE DEF t
  <2>2. /\ t \in FnType /\ t.meant = s.meant /\ t.stale = s.stale /\ t.heap = s.heap
        /\ t.mFunction[f] = None
        /\ \A g \in Functions \ {f} : t.mFunction[g] = s.mFunction[g] /\ t.mBuffer[g] = s.mBuffer[g]
    BY <1>1, <2>1 DEF FnType
  <2>3. InPlace(t)
    BY <1>3, <2>2, FunctionNames DEF InPlace
  <2>4. \A g \in Functions \ {f} : Callables!Content(t, g) = Callables!Content(s, g)
    BY <2>2, SameContent
  <2> QED BY <2>2, <2>3, <2>4 DEF t
<1>4. CASE p \in Blocks
  <2>1. t = [s EXCEPT !.heap[p] = None, !.mFunction[f] = None]
    BY <1>4, FunctionNames DEF Callables!Reset
  <2> HIDE DEF t
  <2>2. /\ t \in FnType /\ t.meant = s.meant /\ t.stale = s.stale /\ t.mBuffer = s.mBuffer
        /\ t.mFunction[f] = None /\ t.heap[p] = None
        /\ \A k \in Blocks \ {p} : t.heap[k] = s.heap[k]
        /\ \A g \in Functions \ {f} : t.mFunction[g] = s.mFunction[g]
    BY <1>1, <1>4, <2>1 DEF FnType
  <2>3. \A g \in Functions \ {f} : s.mFunction[g] # p
    BY <1>4 DEF InPlace
  <2> HIDE DEF p
  <2>4. InPlace(t)
    <3>1. \A k \in Blocks : t.heap[k] # None <=> \E g \in Functions : t.mFunction[g] = k
      BY <1>4, <2>2, <2>3, FunctionNames DEF InPlace, p
    <3>2. \A g, h \in Functions :
            t.mFunction[g] \in Blocks /\ t.mFunction[g] = t.mFunction[h] => g = h
      BY <2>2, FunctionNames DEF InPlace
    <3>3. \A g \in Functions : /\ t.mFunction[g] \in {None, g} \cup Blocks
                               /\ t.mFunction[g] = g => t.mBuffer[g] # None
      BY <2>2, FunctionNames DEF InPlace
    <3> QED BY <2>2, <3>1, <3>2, <3>3 DEF InPlace
  <2>5. \A g \in Functions \ {f} : Callables!Content(t, g) = Callables!Content(s, g)
    BY <2>2, <2>3, SameContent
  <2> QED BY <2>2, <2>4, <2>5 DEF t
<1> QED BY <1>1, <1>2, <1>3, <1>4

LEMMA ClonedKeeps ==
    ASSUME NEW s, InPlace(s), NEW f \in Functions, s.mFunction[f] = None,
           NEW x \in Callables!Stored, NEW t \in Callables!Cloned(s, f, x)
    PROVE  /\ InPlace(t) /\ t.meant = s.meant /\ t.stale = s.stale
           /\ \A g \in Functions \ {f} : Callables!Content(t, g) = Callables!Content(s, g)
           /\ x \in Functions => Callables!Holds(t, f)
           /\ Callables!Content(t, f) = IF Callables!Holds(t, f) THEN x ELSE None
<1>1. s \in FnType /\ x # None
  BY FunctionNames DEF InPlace
<1>2. CASE Callables!Fits(x)
  <2>1. t = [s EXCEPT !.mBuffer[f] = x, !.mFunction[f] = f]
    BY <1>2 DEF Callables!Cloned
  <2>2. /\ t \in FnType /\ t.meant = s.meant /\ t.stale = s.stale /\ t.heap = s.heap
        /\ t.mFunction[f] = f /\ t.mBuffer[f] = x
        /\ \A g \in Functions \ {f} : t.mFunction[g] = s.mFunction[g] /\ t.mBuffer[g] = s.mBuffer[g]
    BY <1>1, <2>1 DEF FnType
  <2>3. InPlace(t)
    <3>1. \A k \in Blocks : (\E g \in Functions : t.mFunction[g] = k)
                            <=> \E g \in Functions : s.mFunction[g] = k
      BY <2>2, FunctionNames
    <3>2. \A g, h \in Functions :
            t.mFunction[g] \in Blocks /\ t.mFunction[g] = t.mFunction[h] => g = h
      BY <2>2, FunctionNames DEF InPlace
    <3>3. \A g \in Functions : /\ t.mFunction[g] \in {None, g} \cup Blocks
                               /\ t.mFunction[g] = g => t.mBuffer[g] # None
      BY <1>1, <2>2, FunctionNames DEF InPlace
    <3>4. \A k \in Blocks : t.heap[k] # None <=> \E g \in Functions : t.mFunction[g] = k
      BY <2>2, <3>1 DEF InPlace
    <3> QED BY <2>2, <3>2, <3>3, <3>4 DEF InPlace
  <2>4. \A g \in Functions \ {f} : Callables!Content(t, g) = Callables!Content(s, g)
    BY <2>2, SameContent
  <2>5. Callables!Content(t, f) = x /\ Callables!Holds(t, f)
    BY <2>2, FunctionNames DEF Callables!Content, Callables!Holds
  <2> QED BY <2>2, <2>3, <2>4, <2>5
<1>3. CASE ~Callables!Fits(x) /\ t = s
  <2>1. Callables!Content(t, f) = None /\ ~Callables!Holds(t, f)
    BY <1>3, ContentIsStored DEF Callables!Holds
  <2>2. x \notin Functions
    BY <1>3 DEF Callables!Fits
  <2> QED BY <1>3, <2>1, <2>2
<1>4. ASSUME ~Callables!Fits(x), NEW k \in Blocks, s.heap[k] = None,
             t = [s EXCEPT !.heap[k] = x, !.mFunction[f] = k]
      PROVE  /\ InPlace(t) /\ t.meant = s.meant /\ t.stale = s.stale
             /\ \A g \in Functions \ {f} : Callables!Content(t, g) = Callables!Content(s, g)
             /\ x \notin Functions /\ Callables!Holds(t, f) /\ Callables!Content(t, f) = x
  <2>1. \A g \in Functions : s.mFunction[g] # k
    BY <1>4 DEF InPlace
  <2>2. /\ t \in FnType /\ t.meant = s.meant /\ t.stale = s.stale /\ t.mBuffer = s.mBuffer
        /\ t.mFunction[f] = k /\ t.heap[k] = x
        /\ \A j \in Blocks \ {k} : t.heap[j] = s.heap[j]
        /\ \A g \in Functions \ {f} : t.mFunction[g] = s.mFunction[g]
    BY <1>1, <1>4 DEF FnType
  <2>3. InPlace(t)
    <3>1. \A j \in Blocks : t.heap[j] # None <=> \E g \in Functions : t.mFunction[g] = j
      <4> SUFFICES ASSUME NEW j \in Blocks, j # k
                   PROVE  t.heap[j] # None <=> \E g \in Functions : t.mFunction[g] = j
        BY <1>1, <2>2
      <4>1. (\E g \in Functions : t.mFunction[g] = j) <=> \E g \in Functions : s.mFunction[g] = j
        BY <2>2, FunctionNames
      <4> QED BY <2>2, <4>1 DEF InPlace
    <3>2. \A g, h \in Functions :
            t.mFunction[g] \in Blocks /\ t.mFunction[g] = t.mFunction[h] => g = h
      BY <2>1, <2>2, FunctionNames DEF InPlace
    <3>3. \A g \in Functions : /\ t.mFunction[g] \in {None, g} \cup Blocks
                               /\ t.mFunction[g] = g => t.mBuffer[g] # None
      BY <2>2, FunctionNames DEF InPlace
    <3> QED BY <2>2, <3>1, <3>2, <3>3 DEF InPlace
  <2>4. \A g \in Functions \ {f} : Callables!Content(t, g) = Callables!Content(s, g)
    BY <2>1, <2>2, SameContent
  <2>5. Callables!Content(t, f) = x /\ Callables!Holds(t, f)
    BY <2>2, FunctionNames DEF Callables!Content, Callables!Holds
  <2> QED BY <1>4, <2>2, <2>3, <2>4, <2>5 DEF Callables!Fits
<1>5. Callables!Fits(x) \/ ~Callables!Fits(x)
  OBVIOUS
<1>6. ~Callables!Fits(x) => \/ t = s
                           \/ \E k \in Blocks : /\ s.heap[k] = None
                                                /\ t = [s EXCEPT !.heap[k] = x, !.mFunction[f] = k]
  BY DEF Callables!Cloned
<1> QED BY <1>2, <1>3, <1>4, <1>6

LEMMA MovedKeeps ==
    ASSUME NEW s, InPlace(s), NEW f \in Functions, NEW from \in Functions \ {f}
    PROVE  LET t == Callables!Moved(s, f, from)
           IN  /\ InPlace(t) /\ t.meant = s.meant /\ t.stale = s.stale
               /\ \A g \in Functions \ {f, from} :
                    Callables!Content(t, g) = Callables!Content(s, g)
               /\ Callables!Content(t, f) = Callables!Content(s, from)
               /\ Callables!Content(t, from) = None
<1> DEFINE r == Callables!Reset(s, f)
           p == s.mFunction[from]
           q == IF p = from THEN f ELSE p
           b == s.mBuffer[from]
           t == [r EXCEPT !.mFunction[f] = q, !.mFunction[from] = None, !.mBuffer[f] = b]
<1>0. t = Callables!Moved(s, f, from)
  BY DEF Callables!Moved
<1>1. s \in FnType /\ p \in {None, from} \cup Blocks
  BY DEF InPlace
<1>2. /\ InPlace(r) /\ r.mFunction[f] = None /\ r.meant = s.meant /\ r.stale = s.stale
      /\ \A g \in Functions \ {f} : /\ r.mFunction[g] = s.mFunction[g]
                                    /\ r.mBuffer[g] = s.mBuffer[g]
                                    /\ Callables!Content(r, g) = Callables!Content(s, g)
  BY EmptiedKeeps
<1> HIDE DEF r
<1>3. r \in FnType /\ r.mFunction[from] = p /\ r.mBuffer[from] = b
      /\ q \in Functions \cup Blocks \cup {None} /\ b \in Callables!Stored \cup {None}
  BY <1>1, <1>2 DEF InPlace, FnType
<1> HIDE DEF q, b
<1>4. /\ t \in FnType /\ t.meant = s.meant /\ t.stale = s.stale /\ t.heap = r.heap
      /\ t.mFunction[f] = q /\ t.mFunction[from] = None /\ t.mBuffer[f] = b
      /\ \A g \in Functions \ {f, from} : t.mFunction[g] = r.mFunction[g]
      /\ \A g \in Functions \ {f} : t.mBuffer[g] = r.mBuffer[g]
  BY <1>2, <1>3 DEF FnType
<1> HIDE DEF t, p
<1>5. \/ p = None /\ q = None
      \/ p = from /\ q = f /\ b # None
      \/ p \in Blocks /\ q = p /\ \A g \in Functions \ {from} : r.mFunction[g] # p
  BY <1>1, <1>2, <1>3, FunctionNames DEF q, InPlace
<1>6. InPlace(t)
  <2>1. \A k \in Blocks : (\E g \in Functions : t.mFunction[g] = k)
                          <=> \E g \in Functions : r.mFunction[g] = k
    BY <1>2, <1>3, <1>4, <1>5, FunctionNames
  <2>2. \A g, h \in Functions :
          t.mFunction[g] \in Blocks /\ t.mFunction[g] = t.mFunction[h] => g = h
    BY <1>2, <1>4, <1>5, FunctionNames DEF InPlace
  <2>3. \A g \in Functions : /\ t.mFunction[g] \in {None, g} \cup Blocks
                             /\ t.mFunction[g] = g => t.mBuffer[g] # None
    BY <1>2, <1>4, <1>5, FunctionNames DEF InPlace
  <2>4. \A k \in Blocks : t.heap[k] # None <=> \E g \in Functions : t.mFunction[g] = k
    BY <1>2, <1>4, <2>1 DEF InPlace
  <2> QED BY <1>4, <2>2, <2>3, <2>4 DEF InPlace
<1>7. \A g \in Functions \ {f, from} : Callables!Content(t, g) = Callables!Content(s, g)
  BY <1>2, <1>4, SameContent
<1>8. Callables!Content(t, f) = Callables!Content(s, from)
  <2>1. Callables!Content(r, from) = Callables!Content(s, from)
    BY <1>2
  <2>2. Callables!Content(t, f) = Callables!Content(r, from)
    BY <1>3, <1>4, <1>5, FunctionNames DEF Callables!Content
  <2> QED BY <2>1, <2>2
<1>9. Callables!Content(t, from) = None
  BY <1>4 DEF Callables!Content
<1> QED BY <1>0, <1>4, <1>6, <1>7, <1>8, <1>9

(* What a call leaves: those in C may have other contents, and a call of   *)
(* one of them that is not stale ends where a call of such another did, or *)
(* at what it holds.                                                       *)
LEMMA ChangeKeepsCalls ==
    ASSUME NEW s, FnInv(s), NEW t, InPlace(t), NEW C \in SUBSET Functions,
           \A g \in Functions \ C : /\ Callables!Content(t, g) = Callables!Content(s, g)
                                    /\ t.meant[g] = s.meant[g]
                                    /\ g \in s.stale => g \in t.stale,
           \A f \in C \ t.stale :
               \/ /\ Callables!Content(t, f) \notin Functions
                  /\ t.meant[f] = Callables!Content(t, f)
               \/ /\ Callables!Content(t, f) \in Functions
                  /\ \E g \in Functions \ s.stale :
                        /\ t.meant[f] = s.meant[g]
                        /\ \/ g = Callables!Content(t, f)
                           \/ Callables!Content(s, g) = Callables!Content(t, f)
    PROVE  FnInv(Callables!Changed(t, C))
<1> DEFINE u == Callables!Changed(t, C)
           A == t.stale \cup {f \in Functions : Callables!Passed(t, f) \cap C # {}}
<1>1. t \in FnType /\ A \in SUBSET Functions
  BY DEF InPlace, FnType
<1>2. u = [t EXCEPT !.stale = A]
  BY DEF Callables!Changed
<1>3. A = t.stale \cup {f \in Functions : Callables!Passed(t, f) \cap C # {}}
  OBVIOUS
<1> HIDE DEF u, A
<1>4. /\ u \in FnType /\ u.mFunction = t.mFunction /\ u.mBuffer = t.mBuffer /\ u.heap = t.heap
      /\ u.meant = t.meant /\ u.stale = A
  BY <1>1, <1>2 DEF FnType
<1>5. InPlace(u)
  BY <1>4 DEF InPlace
<1>6. \A g \in Functions : Callables!Content(u, g) = Callables!Content(t, g)
  BY <1>4 DEF Callables!Content
<1>7. ASSUME NEW f \in Functions
      PROVE  Callables!Target(u, f) = Callables!Target(t, f)
  <2>1. Callables!Passed(u, f) = Callables!Passed(t, f)
    <3> DEFINE D == {}
    <3>1. /\ f \in Functions \ D /\ Callables!Passed(u, f) \cap D = {}
          /\ \A g \in Functions \ D : Callables!Content(u, g) = Callables!Content(t, g)
      BY <1>6
    <3> HIDE DEF D
    <3> QED BY <3>1, PassedStays
  <2> QED BY <2>1, TargetOfPassed
<1>8. ASSUME NEW g \in Functions \ C, Callables!Passed(t, g) \cap C = {}
      PROVE  Callables!Target(t, g) = Callables!Target(s, g)
  <2>1. Callables!Passed(t, g) = Callables!Passed(s, g)
    <3>1. \A h \in Functions \ C : Callables!Content(t, h) = Callables!Content(s, h)
      OBVIOUS
    <3> QED BY <1>8, <3>1, PassedStays
  <2> QED BY <2>1, TargetOfPassed
<1>9. ASSUME NEW f \in Functions \ A
      PROVE  Callables!Target(t, f) = t.meant[f]
  <2>1. f \notin t.stale /\ Callables!Passed(t, f) \cap C = {}
    BY <1>3
  <2>2. CASE f \notin C
    <3>1. Callables!Target(t, f) = Callables!Target(s, f)
      BY <1>8, <2>1, <2>2
    <3>2. f \notin s.stale /\ t.meant[f] = s.meant[f]
      <4>1. f \in Functions \ C
        BY <2>2
      <4> QED BY <2>1, <4>1
    <3> QED BY <3>1, <3>2 DEF FnInv, CallsMeant
  <2>3. CASE f \in C /\ Callables!Content(t, f) \notin Functions
    BY <2>1, <2>3, CallEnds
  <2>4. CASE f \in C /\ Callables!Content(t, f) \in Functions
    <3> DEFINE y == Callables!Content(t, f)
    <3>1. /\ y \in Functions \ C /\ Callables!Passed(t, y) \cap C = {}
          /\ Callables!Target(t, f) = Callables!Target(t, y)
      BY <2>1, <2>4, CallGoesOn
    <3>2. PICK g \in Functions \ s.stale : /\ t.meant[f] = s.meant[g]
                                           /\ g = y \/ Callables!Content(s, g) = y
      BY <2>1, <2>4
    <3> HIDE DEF y
    <3>3. Callables!Target(t, y) = Callables!Target(s, y)
      BY <1>8, <3>1
    <3>4. Callables!Target(s, g) = Callables!Target(s, y)
      BY <3>1, <3>2, CallGoesOn
    <3>5. Callables!Target(s, g) = s.meant[g]
      BY <3>2 DEF FnInv, CallsMeant
    <3> QED BY <3>1, <3>2, <3>3, <3>4, <3>5
  <2> QED BY <2>2, <2>3, <2>4
<1>10. CallsMeant(u)
  BY <1>4, <1>7, <1>9 DEF CallsMeant
<1> QED BY <1>5, <1>10 DEF FnInv, u

\* The history is written down.
WithHistory(s, m, A) == [s EXCEPT !.meant = m, !.stale = A]

LEMMA HistoryKeeps ==
    ASSUME NEW s, InPlace(s), NEW m \in [Functions -> Small \cup Large \cup {None}],
           NEW A \in SUBSET Functions
    PROVE  LET t == WithHistory(s, m, A)
           IN  /\ InPlace(t) /\ t.meant = m /\ t.stale = A
               /\ \A g \in Functions : Callables!Content(t, g) = Callables!Content(s, g)
<1> DEFINE t == WithHistory(s, m, A)
<1>1. s \in FnType
  BY DEF InPlace
<1>2. /\ t \in FnType /\ t.mFunction = s.mFunction /\ t.mBuffer = s.mBuffer /\ t.heap = s.heap
      /\ t.meant = m /\ t.stale = A
  BY <1>1 DEF FnType, WithHistory
<1> QED BY <1>2 DEF InPlace, Callables!Content

LEMMA AssignKeeps ==
    ASSUME FnInv(fn), NEW f \in Functions, NEW x \in Callables!Stored, Callables!Assign(f, x)
    PROVE  FnInv(fn')
<1>1. PICK s \in Callables!Initialised(fn, f, x) :
        fn' = Callables!Changed(
                [s EXCEPT !.meant[f] = IF Callables!Holds(s, f) THEN Callables!Meaning(fn, f, x)
                                                                ELSE None,
                          !.stale = IF x \in Functions THEN Callables!Staleness(fn, f, x)
                                                       ELSE @ \ {f}],
                {f})
  BY DEF Callables!Assign
<1> DEFINE r == Callables!Reset(fn, f)
           v == IF Callables!Holds(s, f) THEN Callables!Meaning(fn, f, x) ELSE None
           m == [fn.meant EXCEPT ![f] = v]
           A == IF x \in Functions THEN Callables!Staleness(fn, f, x) ELSE fn.stale \ {f}
           t == WithHistory(s, m, A)
<1>2. /\ InPlace(r) /\ r.mFunction[f] = None /\ r.meant = fn.meant /\ r.stale = fn.stale
      /\ \A g \in Functions \ {f} : Callables!Content(r, g) = Callables!Content(fn, g)
  BY EmptiedKeeps DEF FnInv
<1>3. /\ InPlace(s) /\ s.meant = fn.meant /\ s.stale = fn.stale
      /\ \A g \in Functions \ {f} : Callables!Content(s, g) = Callables!Content(fn, g)
      /\ x \in Functions => Callables!Holds(s, f)
      /\ Callables!Content(s, f) = IF Callables!Holds(s, f) THEN x ELSE None
  <2>1. s \in Callables!Cloned(r, f, x)
    BY <1>1 DEF Callables!Initialised
  <2> HIDE DEF r
  <2> QED BY <1>2, <2>1, ClonedKeeps
<1>4. fn \in FnType
  BY DEF FnInv, InPlace
<1>5. v \in Small \cup Large \cup {None}
  BY <1>4 DEF Callables!Meaning, Callables!Stored, FnType
<1>6. A \in SUBSET Functions
  BY <1>4 DEF Callables!Staleness, FnType
<1>7. \A g \in Functions \ {f} : g \in fn.stale => g \in A
  BY DEF Callables!Staleness
<1>8. (f \notin A /\ x \in Functions) => x \notin fn.stale
  BY DEF Callables!Staleness
<1>9. fn' = Callables!Changed(t, {f})
  BY <1>1, <1>3 DEF WithHistory
<1>10. v = IF Callables!Holds(s, f) THEN IF x \in Functions THEN fn.meant[x] ELSE x ELSE None
  BY DEF Callables!Meaning
<1> HIDE DEF v, A
<1>11. /\ m \in [Functions -> Small \cup Large \cup {None}] /\ m[f] = v
       /\ \A g \in Functions \ {f} : m[g] = fn.meant[g]
  BY <1>4, <1>5 DEF FnType
<1> HIDE DEF m
<1>12. /\ InPlace(t) /\ t.meant = m /\ t.stale = A
       /\ \A g \in Functions : Callables!Content(t, g) = Callables!Content(s, g)
  BY <1>3, <1>6, <1>11, HistoryKeeps
<1> HIDE DEF t
<1>13. ASSUME f \notin t.stale
       PROVE  \/ /\ Callables!Content(t, f) \notin Functions
                 /\ t.meant[f] = Callables!Content(t, f)
              \/ /\ Callables!Content(t, f) \in Functions
                 /\ \E g \in Functions \ fn.stale :
                       /\ t.meant[f] = fn.meant[g]
                       /\ \/ g = Callables!Content(t, f)
                          \/ Callables!Content(fn, g) = Callables!Content(t, f)
  BY <1>3, <1>8, <1>10, <1>11, <1>12, <1>13, FunctionNames
<1>14. \A g \in Functions \ {f} : /\ Callables!Content(t, g) = Callables!Content(fn, g)
                                  /\ t.meant[g] = fn.meant[g]
                                  /\ g \in fn.stale => g \in t.stale
  BY <1>3, <1>7, <1>11, <1>12
<1>15. {f} \in SUBSET Functions
  OBVIOUS
<1> QED BY <1>9, <1>12, <1>13, <1>14, <1>15, ChangeKeepsCalls

LEMMA CopyKeeps ==
    ASSUME FnInv(fn), NEW f \in Functions, NEW from \in Functions \ {f}, Callables!Copy(f, from)
    PROVE  FnInv(fn')
<1>1. PICK s \in Callables!CopiedFrom(fn, f, from) :
        fn' = Callables!Changed(
                [s EXCEPT !.meant[f] = IF Callables!Holds(s, f) THEN fn.meant[from] ELSE None,
                          !.stale = Callables!Staleness(fn, f, from)],
                {f})
  BY DEF Callables!Copy
<1> DEFINE r == Callables!Reset(fn, f)
           x == Callables!Content(fn, from)
           v == IF Callables!Holds(s, f) THEN fn.meant[from] ELSE None
           m == [fn.meant EXCEPT ![f] = v]
           A == Callables!Staleness(fn, f, from)
           t == WithHistory(s, m, A)
<1>2. /\ InPlace(r) /\ r.mFunction[f] = None /\ r.meant = fn.meant /\ r.stale = fn.stale
      /\ \A g \in Functions \ {f} : Callables!Content(r, g) = Callables!Content(fn, g)
  BY EmptiedKeeps DEF FnInv
<1>3. /\ InPlace(s) /\ s.meant = fn.meant /\ s.stale = fn.stale
      /\ \A g \in Functions \ {f} : Callables!Content(s, g) = Callables!Content(fn, g)
      /\ Callables!Content(s, f) = IF Callables!Holds(s, f) THEN x ELSE None
  <2>1. CASE fn.mFunction[from] = None
    <3>1. s = r
      BY <1>1, <2>1 DEF Callables!CopiedFrom
    <3> HIDE DEF r
    <3>2. Callables!Content(s, f) = None /\ ~Callables!Holds(s, f)
      BY <1>2, <3>1, ContentIsStored DEF Callables!Holds
    <3> QED BY <1>2, <3>1, <3>2
  <2>2. CASE fn.mFunction[from] # None
    <3>1. s \in Callables!Cloned(r, f, x)
      BY <1>1, <2>2 DEF Callables!CopiedFrom
    <3>2. x \in Callables!Stored
      BY <2>2, ContentIsStored DEF FnInv
    <3> HIDE DEF r, x
    <3> QED BY <1>2, <3>1, <3>2, ClonedKeeps
  <2> QED BY <2>1, <2>2
<1>4. fn \in FnType
  BY DEF FnInv, InPlace
<1>5. v \in Small \cup Large \cup {None}
  BY <1>4 DEF FnType
<1>6. A \in SUBSET Functions
  BY <1>4 DEF Callables!Staleness, FnType
<1>7. (\A g \in Functions \ {f} : g \in fn.stale => g \in A) /\ (f \notin A => from \notin fn.stale)
  BY DEF Callables!Staleness
<1>8. fn' = Callables!Changed(t, {f})
  BY <1>1, <1>3 DEF WithHistory
<1>9. Callables!Content(fn, from) = x
  OBVIOUS
<1>10. /\ m \in [Functions -> Small \cup Large \cup {None}]
       /\ m[f] = IF Callables!Holds(s, f) THEN fn.meant[from] ELSE None
       /\ \A g \in Functions \ {f} : m[g] = fn.meant[g]
  BY <1>4, <1>5 DEF FnType
<1> HIDE DEF m, A, v, x
<1>11. /\ InPlace(t) /\ t.meant = m /\ t.stale = A
       /\ \A g \in Functions : Callables!Content(t, g) = Callables!Content(s, g)
  <2>1. /\ InPlace(s) /\ m \in [Functions -> Small \cup Large \cup {None}]
        /\ A \in SUBSET Functions
    BY <1>3, <1>6, <1>10
  <2> QED BY <2>1, HistoryKeeps
<1> HIDE DEF t
<1>12. \A h \in {f} \ t.stale :
         \/ /\ Callables!Content(t, h) \notin Functions
            /\ t.meant[h] = Callables!Content(t, h)
         \/ /\ Callables!Content(t, h) \in Functions
            /\ \E g \in Functions \ fn.stale :
                  /\ t.meant[h] = fn.meant[g]
                  /\ \/ g = Callables!Content(t, h)
                     \/ Callables!Content(fn, g) = Callables!Content(t, h)
  <2> SUFFICES ASSUME f \notin t.stale
               PROVE  \/ /\ Callables!Content(t, f) \notin Functions
                         /\ t.meant[f] = Callables!Content(t, f)
                      \/ /\ Callables!Content(t, f) \in Functions
                         /\ \E g \in Functions \ fn.stale :
                               /\ t.meant[f] = fn.meant[g]
                               /\ \/ g = Callables!Content(t, f)
                                  \/ Callables!Content(fn, g) = Callables!Content(t, f)
    OBVIOUS
  <2>1. from \in Functions \ fn.stale
    BY <1>7, <1>11
  <2>2. CASE ~Callables!Holds(s, f)
    BY <1>3, <1>10, <1>11, <2>2, FunctionNames
  <2>3. CASE Callables!Holds(s, f) /\ x \in Functions
    BY <1>3, <1>9, <1>10, <1>11, <2>1, <2>3
  <2>4. CASE Callables!Holds(s, f) /\ x \notin Functions
    <3>1. Callables!Target(fn, from) = x
      BY <1>9, <2>4, CallEnds
    <3>2. Callables!Target(fn, from) = fn.meant[from]
      BY <2>1 DEF FnInv, CallsMeant
    <3> QED BY <1>3, <1>10, <1>11, <2>4, <3>1, <3>2
  <2> QED BY <2>2, <2>3, <2>4
<1>13. \A g \in Functions \ {f} : /\ Callables!Content(t, g) = Callables!Content(fn, g)
                                  /\ t.meant[g] = fn.meant[g]
                                  /\ g \in fn.stale => g \in t.stale
  BY <1>3, <1>7, <1>10, <1>11
<1> QED BY <1>8, <1>11, <1>12, <1>13, ChangeKeepsCalls

LEMMA MoveKeeps ==
    ASSUME FnInv(fn), NEW f \in Functions, NEW from \in Functions \ {f}, Callables!Move(f, from)
    PROVE  FnInv(fn')
<1> DEFINE s == Callables!Moved(fn, f, from)
           m == [[fn.meant EXCEPT ![f] = fn.meant[from]] EXCEPT ![from] = None]
           A == Callables!Staleness(fn, f, from) \ {from}
           x == Callables!Content(fn, from)
           t == WithHistory(s, m, A)
<1>1. /\ InPlace(s) /\ s.meant = fn.meant /\ s.stale = fn.stale
      /\ \A g \in Functions \ {f, from} : Callables!Content(s, g) = Callables!Content(fn, g)
      /\ Callables!Content(s, f) = x
      /\ Callables!Content(s, from) = None
  BY MovedKeeps DEF FnInv
<1>2. fn' = Callables!Changed([s EXCEPT !.meant[f] = fn.meant[from], !.meant[from] = None,
                                        !.stale = A], {f, from})
  BY DEF Callables!Move
<1> HIDE DEF s
<1>3. fn \in FnType /\ s \in FnType
  BY <1>1 DEF FnInv, InPlace
<1>4. A \in SUBSET Functions
  BY <1>3 DEF Callables!Staleness, FnType
<1>5. /\ \A g \in Functions \ {f, from} : g \in fn.stale => g \in A
      /\ f \notin A => from \notin fn.stale
  BY DEF Callables!Staleness
<1>6. Callables!Content(fn, from) = x
  OBVIOUS
<1> HIDE DEF A, x
<1>7. [s EXCEPT !.meant[f] = fn.meant[from], !.meant[from] = None, !.stale = A] = t
  BY <1>1, <1>3 DEF FnType, WithHistory
<1>8. /\ m \in [Functions -> Small \cup Large \cup {None}]
      /\ m[f] = fn.meant[from] /\ m[from] = None
      /\ \A g \in Functions \ {f, from} : m[g] = fn.meant[g]
  BY <1>3 DEF FnType
<1> HIDE DEF m
<1>9. /\ InPlace(t) /\ t.meant = m /\ t.stale = A
      /\ \A g \in Functions : Callables!Content(t, g) = Callables!Content(s, g)
  <2>1. /\ InPlace(s) /\ m \in [Functions -> Small \cup Large \cup {None}]
        /\ A \in SUBSET Functions
    BY <1>1, <1>4, <1>8
  <2> QED BY <2>1, HistoryKeeps
<1> HIDE DEF t
<1>10. ASSUME NEW h \in {f, from} \ t.stale
       PROVE  \/ /\ Callables!Content(t, h) \notin Functions
                 /\ t.meant[h] = Callables!Content(t, h)
              \/ /\ Callables!Content(t, h) \in Functions
                 /\ \E g \in Functions \ fn.stale :
                       /\ t.meant[h] = fn.meant[g]
                       /\ \/ g = Callables!Content(t, h)
                          \/ Callables!Content(fn, g) = Callables!Content(t, h)
  <2>1. CASE h = from
    BY <1>1, <1>8, <1>9, <2>1, FunctionNames
  <2>2. CASE h = f
    <3>1. from \in Functions \ fn.stale
      BY <1>5, <1>9, <1>10, <2>2
    <3>2. CASE x \in Functions
      BY <1>1, <1>6, <1>8, <1>9, <2>2, <3>1, <3>2
    <3>3. CASE x \notin Functions
      <4>1. Callables!Target(fn, from) = x
        BY <1>6, <3>3, CallEnds
      <4>2. Callables!Target(fn, from) = fn.meant[from]
        BY <3>1 DEF FnInv, CallsMeant
      <4> QED BY <1>1, <1>8, <1>9, <2>2, <3>3, <4>1, <4>2
    <3> QED BY <3>2, <3>3
  <2> QED BY <2>1, <2>2
<1>11. \A g \in Functions \ {f, from} : /\ Callables!Content(t, g) = Callables!Content(fn, g)
                                        /\ t.meant[g] = fn.meant[g]
                                        /\ g \in fn.stale => g \in t.stale
  BY <1>1, <1>5, <1>8, <1>9
<1>12. fn' = Callables!Changed(t, {f, from}) /\ {f, from} \in SUBSET Functions
  BY <1>2, <1>7
<1> QED BY <1>9, <1>10, <1>11, <1>12, ChangeKeepsCalls

LEMMA DestructionKeeps ==
    ASSUME FnInv(fn), NEW f \in Functions, Callables!Destroy(f)
    PROVE  FnInv(fn')
<1> DEFINE s == Callables!Reset(fn, f)
           m == [fn.meant EXCEPT ![f] = None]
           A == fn.stale \ {f}
           t == WithHistory(s, m, A)
<1>1. /\ InPlace(s) /\ s.mFunction[f] = None /\ s.meant = fn.meant /\ s.stale = fn.stale
      /\ \A g \in Functions \ {f} : Callables!Content(s, g) = Callables!Content(fn, g)
  BY EmptiedKeeps DEF FnInv
<1>2. fn' = Callables!Changed([s EXCEPT !.meant[f] = None, !.stale = @ \ {f}], {f})
  BY DEF Callables!Destroy
<1> HIDE DEF s
<1>3. fn \in FnType /\ s \in FnType
  BY <1>1 DEF FnInv, InPlace
<1>4. A \in SUBSET Functions /\ \A g \in Functions \ {f} : g \in fn.stale => g \in A
  BY <1>3 DEF FnType
<1>5. [s EXCEPT !.meant[f] = None, !.stale = @ \ {f}] = t
  BY <1>1, <1>3 DEF FnType, WithHistory
<1>6. /\ m \in [Functions -> Small \cup Large \cup {None}] /\ m[f] = None
      /\ \A g \in Functions \ {f} : m[g] = fn.meant[g]
  BY <1>3 DEF FnType
<1> HIDE DEF A, m
<1>7. /\ InPlace(t) /\ t.meant = m /\ t.stale = A
      /\ \A g \in Functions : Callables!Content(t, g) = Callables!Content(s, g)
  BY <1>1, <1>4, <1>6, HistoryKeeps
<1> HIDE DEF t
<1>8. Callables!Content(t, f) = None /\ t.meant[f] = None
  <2>1. Callables!Content(s, f) = None
    BY <1>1, ContentIsStored
  <2> QED BY <1>6, <1>7, <2>1
<1>9. \A g \in Functions \ {f} : /\ Callables!Content(t, g) = Callables!Content(fn, g)
                                 /\ t.meant[g] = fn.meant[g]
                                 /\ g \in fn.stale => g \in t.stale
  BY <1>1, <1>4, <1>6, <1>7
<1>10. \A h \in {f} \ t.stale : /\ Callables!Content(t, h) \notin Functions
                                /\ t.meant[h] = Callables!Content(t, h)
  BY <1>8, FunctionNames
<1>11. fn' = Callables!Changed(t, {f}) /\ {f} \in SUBSET Functions
  BY <1>2, <1>5
<1> QED BY <1>7, <1>9, <1>10, <1>11, ChangeKeepsCalls

LEMMA FnInvInit == Callables!Init => FnInv(fn)
<1> SUFFICES ASSUME Callables!Init PROVE FnInv(fn)
  OBVIOUS
<1>1. /\ fn \in FnType /\ fn.stale = {}
      /\ \A f \in Functions : fn.mFunction[f] = None /\ fn.meant[f] = None
      /\ \A k \in Blocks : fn.heap[k] = None
  BY DEF Callables!Init, FnType
<1>2. InPlace(fn)
  BY <1>1, FunctionNames DEF InPlace
<1>3. CallsMeant(fn)
  <2> SUFFICES ASSUME NEW f \in Functions PROVE Callables!Target(fn, f) = fn.meant[f]
    BY DEF CallsMeant
  <2>1. Callables!Content(fn, f) = None
    BY <1>1, <1>2, ContentIsStored
  <2> QED BY <1>1, <2>1, CallEnds, FunctionNames
<1> QED BY <1>2, <1>3 DEF FnInv

LEMMA FnInvGivesCalls == FnInv(fn) => CallsWhatItWasGiven
<1> SUFFICES ASSUME FnInv(fn) PROVE Callables!CallsWhatItWasGiven
  BY DEF CallsWhatItWasGiven
<1>1. \A f \in Functions \ fn.stale : Callables!Target(fn, f) = fn.meant[f]
  BY DEF FnInv, CallsMeant
<1>2. \A f \in Functions : fn.mFunction[f] \in {None, f} \cup Blocks
  BY DEF FnInv, InPlace
<1>3. ASSUME NEW k \in Blocks
      PROVE  Cardinality({f \in Functions : fn.mFunction[f] = k})
                 = IF fn.heap[k] = None THEN 0 ELSE 1
  <2> DEFINE H == {f \in Functions : fn.mFunction[f] = k}
  <2>1. CASE fn.heap[k] = None
    <3>1. H = {}
      BY <2>1 DEF FnInv, InPlace
    <3> QED BY <2>1, <3>1, FS_EmptySet
  <2>2. CASE fn.heap[k] # None
    <3>1. PICK f \in Functions : fn.mFunction[f] = k
      BY <2>2 DEF FnInv, InPlace
    <3>2. H = {f}
      BY <3>1 DEF FnInv, InPlace
    <3> QED BY <2>2, <3>2, FS_Singleton
  <2> QED BY <2>1, <2>2
<1>4. \A k \in Blocks :
        Callables!Cardinality({f \in Functions : fn.mFunction[f] = k})
            = IF fn.heap[k] = None THEN 0 ELSE 1
  BY <1>3 DEF Callables!Cardinality, Cardinality
<1> QED BY <1>1, <1>2, <1>4 DEF Callables!CallsWhatItWasGiven

(* A Function calls the callable it was given, for any Functions, callables*)
(* and memory, as long as none it refers to was changed.                   *)
THEOREM CallsTheGiven == LibrarySpec => []CallsWhatItWasGiven
<1>1. LibraryInit => FnInv(fn)
  BY FnInvInit DEF LibraryInit
<1>2. FnInv(fn) /\ [LibraryNext]_libraryVars => FnInv(fn)'
  <2>1. ASSUME FnInv(fn), [LibraryNext]_libraryVars
        PROVE  [Callables!Next]_fn
    BY <2>1 DEF LibraryNext, libraryVars, Others
  <2>2. ASSUME FnInv(fn), Callables!Next PROVE FnInv(fn')
    BY <2>2, AssignKeeps, CopyKeeps, MoveKeeps, DestructionKeeps DEF Callables!Next
  <2>3. FnInv(fn)' <=> FnInv(fn')
    BY DEF FnInv, InPlace, CallsMeant, FnType
  <2> QED BY <2>1, <2>2, <2>3
<1> QED BY <1>1, <1>2, FnInvGivesCalls, PTL DEF LibrarySpec

-----------------------------------------------------------------------------
(***************************************************************************)
(* The part "arguments".  The validations after each word are a run of     *)
(* WordChecked, the values read are one of WordRead, and the two agree at  *)
(* each word of a command line that is accepted.                           *)
(***************************************************************************)
Line == Seq(STRING)

ArgSet == [long : STRING, short : STRING, type : {"STRING", "CHAR", "INTEGRAL", "REAL"},
           required : BOOLEAN, num_required : Nat,
           default_value : Seq(Line), const_value : Seq(Line)]

(* The options have names, which lead to options.                          *)
ParserOK(p) ==
    /\ p.mArgs \in Seq(ArgSet)
    /\ \A x \in DOMAIN p.long : p.long[x] \in 1 .. Len(p.mArgs)
    /\ \A x \in DOMAIN p.short : p.short[x] \in 1 .. Len(p.mArgs)
    /\ \A i \in 1 .. Len(p.mArgs) :
           /\ p.mArgs[i].long # "" \/ p.mArgs[i].short # ""
           /\ p.mArgs[i].long # "" => p.mArgs[i].long \in DOMAIN p.long
           /\ p.mArgs[i].short # "" => p.mArgs[i].short \in DOMAIN p.short

Codes == {"SUCCESS", "HELP", "UNKNOWN_ARG", "INVALID_ARG_TYPE", "NO_VALUES_AVAILABLE",
          "INSUFFICIENT_NUM_VALUES", "TOO_MANY_VALUES"}

Checks(p) == [code : Codes, option : 0 .. Len(p.mArgs), count : Nat]

LEMMA ParserParts ==
    ASSUME NEW p, ParserOK(p)
    PROVE  /\ p.mArgs \in Seq(ArgSet) /\ Len(p.mArgs) \in Nat
           /\ \A x \in DOMAIN p.long : p.long[x] \in 1 .. Len(p.mArgs)
           /\ \A x \in DOMAIN p.short : p.short[x] \in 1 .. Len(p.mArgs)
<1>1. p.mArgs \in Seq(ArgSet)
  BY Zenon DEF ParserOK
<1>2. Len(p.mArgs) \in Nat
  BY <1>1
<1> QED BY <1>1, <1>2, Zenon DEF ParserOK

LEMMA CodesOf ==
    /\ "SUCCESS" \in Codes /\ "HELP" \in Codes /\ "UNKNOWN_ARG" \in Codes
    /\ "INVALID_ARG_TYPE" \in Codes
    /\ \A arg, n : Args!param_validator(arg, n) \in Codes
BY DEF Codes, Args!param_validator

LEMMA FlagTyped ==
    ASSUME NEW p, ParserOK(p), NEW v \in Checks(p), NEW flags \in Line, NEW j \in 1 .. Len(flags)
    PROVE  Args!FlagChecked(p, v, flags, j) \in Checks(p)
<1> DEFINE n == Len(p.mArgs)
           c == Args!param_validator(p.mArgs[p.short[flags[j]]], 0)
<1>1. c \in Codes
  BY CodesOf, Zenon
<1>2. flags[j] \in DOMAIN p.short => p.short[flags[j]] \in 0 .. n
  <2>1. flags[j] \in DOMAIN p.short => p.short[flags[j]] \in 1 .. n
    BY ParserParts, Zenon
  <2>2. 1 .. n \subseteq 0 .. n
    BY ParserParts
  <2> QED BY <2>1, <2>2, Zenon
<1>3. n \in Nat
  BY ParserParts
<1>4. v = [code |-> v.code, option |-> v.option, count |-> v.count] /\ v.option \in 0 .. n /\ v.count \in Nat
  BY DEF Checks
<1>5. Args!FlagChecked(p, v, flags, j) \in
          {v, [v EXCEPT !.code = "HELP"], [v EXCEPT !.code = "UNKNOWN_ARG"]} \cup
          (IF flags[j] \in DOMAIN p.short
           THEN {[code |-> c, option |-> p.short[flags[j]], count |-> 0],
                 [code |-> "SUCCESS", option |-> p.short[flags[j]], count |-> 0]}
           ELSE {})
  BY DEF Args!FlagChecked, Args!Fails
<1> HIDE DEF ParserOK, c
<1>6. \A x \in {v, [v EXCEPT !.code = "HELP"], [v EXCEPT !.code = "UNKNOWN_ARG"]} : x \in Checks(p)
  BY <1>4, CodesOf DEF Checks
<1>7. CASE flags[j] \notin DOMAIN p.short
  BY <1>5, <1>6, <1>7
<1>8. CASE flags[j] \in DOMAIN p.short
  <2>1. /\ [code |-> c, option |-> p.short[flags[j]], count |-> 0] \in Checks(p)
        /\ [code |-> "SUCCESS", option |-> p.short[flags[j]], count |-> 0] \in Checks(p)
    BY <1>1, <1>2, <1>8, CodesOf DEF Checks
  <2> QED BY <1>5, <1>6, <1>8, <2>1
<1> QED BY <1>7, <1>8

LEMMA FlagsRun ==
    ASSUME NEW p, ParserOK(p), NEW v \in Checks(p), NEW flags \in Line
    PROVE  /\ Args!FlagsChecked(p, v, flags) \in [0 .. Len(flags) -> Checks(p)]
           /\ Args!FlagsChecked(p, v, flags)[0] = v
           /\ \A j \in 1 .. Len(flags) :
                 Args!FlagsChecked(p, v, flags)[j] =
                 Args!FlagChecked(p, Args!FlagsChecked(p, v, flags)[j - 1], flags, j)
<1> DEFINE N == Len(flags)
           S == Checks(p)
           V == Args!FlagsChecked(p, v, flags)
           g == [j \in 1 .. N |-> [x \in S |-> Args!FlagChecked(p, x, flags, j)]]
<1>1. N \in Nat
  OBVIOUS
<1>2. \A x \in S, j \in 1 .. N : Args!FlagChecked(p, x, flags, j) \in S
  BY FlagTyped
<1>3. g \in [1 .. N -> [S -> S]]
  BY <1>2
<1>4. \A j \in 1 .. N : \A x \in S : g[j][x] = Args!FlagChecked(p, x, flags, j)
  OBVIOUS
<1> HIDE DEF g, S, N
<1>5. PICK u \in [0 .. N -> S] : IsRun(u, N, v, g)
  <2>1. v \in S
    BY DEF S
  <2> QED BY <1>1, <1>3, <2>1, Recurrence
<1>6. \A j \in 0 .. N : u[j] = IF j = 0 THEN v ELSE Args!FlagChecked(p, u[j - 1], flags, j)
  <2> SUFFICES ASSUME NEW j \in 0 .. N, j # 0 PROVE u[j] = Args!FlagChecked(p, u[j - 1], flags, j)
    BY <1>1, <1>5 DEF IsRun
  <2>1. j \in 1 .. N /\ j - 1 \in 0 .. N
    BY <1>1
  <2>2. u[j - 1] \in S /\ u[j] = g[j][u[j - 1]]
    BY <1>1, <1>5, <2>1 DEF IsRun
  <2> QED BY <1>4, <2>1, <2>2
<1>7. u = [j \in 0 .. N |-> IF j = 0 THEN v ELSE Args!FlagChecked(p, u[j - 1], flags, j)]
  BY <1>5, <1>6
<1>8. V = [j \in 0 .. N |-> IF j = 0 THEN v ELSE Args!FlagChecked(p, V[j - 1], flags, j)]
  BY <1>7 DEF Args!FlagsChecked, N
<1> HIDE DEF V
<1>9. V[0] = v /\ \A j \in 1 .. N : V[j] = Args!FlagChecked(p, V[j - 1], flags, j)
  <2>1. 0 \in 0 .. N /\ \A j \in 1 .. N : j \in 0 .. N /\ j # 0
    BY <1>1
  <2> QED BY <1>8, <2>1
<1>10. \A j \in 0 .. N : V[j] \in S
  <2>1. V[0] \in S
    BY <1>9 DEF S
  <2>2. \A j \in 1 .. N : V[j - 1] \in S => V[j] \in S
    BY <1>2, <1>9
  <2> QED BY <1>1, <2>1, <2>2, StaysIn
<1>11. V \in [0 .. N -> S]
  BY <1>8, <1>10
<1> QED BY <1>9, <1>11 DEF V, N, S

LEMMA FlagsAccepted ==
    ASSUME NEW p, ParserOK(p), NEW v \in Checks(p), NEW flags \in Line, Len(flags) > 0,
           Args!FlagsChecked(p, v, flags)[Len(flags)].code = "SUCCESS"
    PROVE  /\ \A j \in 1 .. Len(flags) : flags[j] \in DOMAIN p.short
           /\ \A j \in 1 .. Len(flags) - 1 :
                 Args!param_validator(p.mArgs[p.short[flags[j]]], 0) = "SUCCESS"
           /\ Args!FlagsChecked(p, v, flags)[Len(flags)] =
              [code |-> "SUCCESS", option |-> p.short[flags[Len(flags)]], count |-> 0]
<1> DEFINE N == Len(flags)
           X == Args!FlagsChecked(p, v, flags)
           P == {j \in 0 .. N : X[j].code = "SUCCESS"}
<1>1. N \in Nat /\ N > 0
  OBVIOUS
<1>2. \A j \in 1 .. N : X[j] = Args!FlagChecked(p, X[j - 1], flags, j)
  BY FlagsRun, Zenon
<1>3. X[N].code = "SUCCESS"
  OBVIOUS
<1>4. X \in [0 .. N -> Checks(p)]
  BY FlagsRun, Zenon
<1> HIDE DEF X, N
<1>5. N \in P
  BY <1>1, <1>3
<1>6. ASSUME NEW j \in 1 .. N, j \in P PROVE j - 1 \in P
  <2>1. j - 1 \in 0 .. N
    BY <1>1
  <2>2. X[j - 1].code # "SUCCESS" => X[j] = X[j - 1]
    BY <1>2, Zenon DEF Args!FlagChecked
  <2> QED BY <1>6, <2>1, <2>2
<1>7. \A j \in 0 .. N : X[j].code = "SUCCESS"
  <2> HIDE DEF P
  <2>1. 0 .. N \subseteq P
    BY <1>1, <1>5, <1>6, AllBefore
  <2> QED BY <2>1 DEF P
<1>8. ASSUME NEW j \in 1 .. N
      PROVE  /\ flags[j] \in DOMAIN p.short
             /\ X[j] = [code |-> IF j < N THEN Args!param_validator(p.mArgs[p.short[flags[j]]], 0)
                                 ELSE "SUCCESS",
                        option |-> p.short[flags[j]], count |-> 0]
  <2>1. j - 1 \in 0 .. N /\ j \in 0 .. N
    BY <1>1
  <2>2. X[j - 1].code = "SUCCESS" /\ X[j].code = "SUCCESS" /\ X[j - 1] \in Checks(p)
    BY <1>4, <1>7, <2>1
  <2>3. flags[j] # "h" /\ flags[j] \in DOMAIN p.short
    <3>1. \A y \in Checks(p) : [y EXCEPT !.code = "HELP"].code = "HELP"
                            /\ [y EXCEPT !.code = "UNKNOWN_ARG"].code = "UNKNOWN_ARG"
      BY DEF Checks
    <3>2. flags[j] = "h" => X[j].code = "HELP"
      BY <1>2, <2>2, <3>1, Zenon DEF Args!FlagChecked, Args!Fails
    <3>3. flags[j] # "h" /\ flags[j] \notin DOMAIN p.short => X[j].code = "UNKNOWN_ARG"
      BY <1>2, <2>2, <3>1, Zenon DEF Args!FlagChecked, Args!Fails
    <3> QED BY <2>2, <3>2, <3>3
  <2>4. X[j] = [code |-> IF j < N THEN Args!param_validator(p.mArgs[p.short[flags[j]]], 0)
                         ELSE "SUCCESS",
                option |-> p.short[flags[j]], count |-> 0]
    BY <1>2, <2>2, <2>3, Zenon DEF Args!FlagChecked, N
  <2> QED BY <2>3, <2>4
<1>9. \A j \in 1 .. N - 1 : Args!param_validator(p.mArgs[p.short[flags[j]]], 0) = "SUCCESS"
  <2> SUFFICES ASSUME NEW j \in 1 .. N - 1
               PROVE  Args!param_validator(p.mArgs[p.short[flags[j]]], 0) = "SUCCESS"
    OBVIOUS
  <2>1. j \in 1 .. N /\ j < N /\ j \in 0 .. N
    BY <1>1
  <2>2. X[j].code = "SUCCESS"
    BY <1>7, <2>1
  <2> DEFINE c == Args!param_validator(p.mArgs[p.short[flags[j]]], 0)
             o == p.short[flags[j]]
  <2>3. X[j] = [code |-> IF j < N THEN c ELSE "SUCCESS", option |-> o, count |-> 0]
    BY <1>8, <2>1, Zenon
  <2> HIDE DEF c, o
  <2>4. X[j].code = c
    BY <2>1, <2>3
  <2> QED BY <2>2, <2>4 DEF c
<1>10. N \in 1 .. N /\ ~(N < N)
  BY <1>1
<1>11. X[N] = [code |-> "SUCCESS", option |-> p.short[flags[N]], count |-> 0]
  BY <1>8, <1>10
<1> QED BY <1>8, <1>9, <1>11 DEF X, N

-----------------------------------------------------------------------------
LEMMA CheckParts ==
    ASSUME NEW p, ParserOK(p), NEW v \in Checks(p)
    PROVE  /\ v = [code |-> v.code, option |-> v.option, count |-> v.count]
           /\ v.code \in Codes /\ v.option \in 0 .. Len(p.mArgs) /\ v.count \in Nat
           /\ \A c : /\ [v EXCEPT !.code = c].code = c
                     /\ [v EXCEPT !.code = c].option = v.option
                     /\ [v EXCEPT !.code = c].count = v.count
           /\ \A c \in Codes : [v EXCEPT !.code = c] \in Checks(p)
BY DEF Checks

LEMMA EndedTyped ==
    ASSUME NEW p, ParserOK(p), NEW v \in Checks(p)
    PROVE  Args!Ended(p, v) \in Checks(p)
<1>1. Args!Ended(p, v) \in {v, [v EXCEPT !.code = Args!param_validator(p.mArgs[v.option], v.count)]}
  BY DEF Args!Ended, Args!Fails
<1> QED BY <1>1, CodesOf, CheckParts

LEMMA WordTyped ==
    ASSUME NEW p, ParserOK(p), NEW v \in Checks(p), NEW w \in Line
    PROVE  Args!WordChecked(p, v, w) \in Checks(p)
<1> DEFINE e == Args!Ended(p, v)
<1>1. e \in Checks(p)
  BY EndedTyped
<1>2. Args!ParameterChecked(p, v, w) \in Checks(p)
  <2>1. Args!ParameterChecked(p, v, w) \in
            {[v EXCEPT !.code = "UNKNOWN_ARG"], [v EXCEPT !.code = "INVALID_ARG_TYPE"],
             [v EXCEPT !.count = @ + 1]}
    BY DEF Args!ParameterChecked, Args!Fails
  <2>2. [v EXCEPT !.count = @ + 1] \in Checks(p)
    <3>1. [v EXCEPT !.count = @ + 1] = [code |-> v.code, option |-> v.option, count |-> v.count + 1]
      BY DEF Checks
    <3>2. v.count + 1 \in Nat
      BY CheckParts
    <3> QED BY <3>1, <3>2, CheckParts DEF Checks
  <2> QED BY <2>1, <2>2, CodesOf, CheckParts
<1>3. Args!LongChecked(p, e, Args!LongName(w)) \in Checks(p)
  <2> DEFINE l == Args!LongName(w)
  <2>1. CASE l \in DOMAIN p.long
    <3>1. p.long[l] \in 0 .. Len(p.mArgs)
      BY <2>1, ParserParts
    <3>2. [code |-> "SUCCESS", option |-> p.long[l], count |-> 0] \in Checks(p)
      BY <3>1, CodesOf DEF Checks
    <3>3. Args!LongChecked(p, e, l) \in
              {[e EXCEPT !.code = "HELP"], [code |-> "SUCCESS", option |-> p.long[l], count |-> 0]}
      BY <2>1 DEF Args!LongChecked, Args!Fails
    <3> QED BY <1>1, <3>2, <3>3, CodesOf, CheckParts
  <2>2. CASE l \notin DOMAIN p.long
    <3>1. Args!LongChecked(p, e, l) \in
              {[e EXCEPT !.code = "HELP"], [e EXCEPT !.code = "UNKNOWN_ARG"]}
      BY <2>2 DEF Args!LongChecked, Args!Fails
    <3> QED BY <1>1, <3>1, CodesOf, CheckParts
  <2> QED BY <2>1, <2>2
<1>4. Args!FlagsChecked(p, e, Args!Flags(w))[Len(Args!Flags(w))] \in Checks(p)
  <2>1. Args!Flags(w) \in Line
    BY DEF Args!Flags, Line
  <2>2. Len(Args!Flags(w)) \in 0 .. Len(Args!Flags(w))
    BY <2>1 DEF Line
  <2>3. Args!FlagsChecked(p, e, Args!Flags(w)) \in [0 .. Len(Args!Flags(w)) -> Checks(p)]
    BY <1>1, <2>1, FlagsRun
  <2> HIDE DEF e
  <2> QED BY <2>2, <2>3
<1>5. Args!WordChecked(p, v, w) \in
          {v, Args!ParameterChecked(p, v, w), e, Args!LongChecked(p, e, Args!LongName(w)),
           Args!FlagsChecked(p, e, Args!Flags(w))[Len(Args!Flags(w))]}
  BY DEF Args!WordChecked
<1> HIDE DEF e
<1> QED BY <1>1, <1>2, <1>3, <1>4, <1>5

Start == [code |-> "SUCCESS", option |-> 0, count |-> 0]

LEMMA StartTyped == \A p : ParserOK(p) => Start \in Checks(p)
<1> SUFFICES ASSUME NEW p, ParserOK(p) PROVE Start \in Checks(p)
  OBVIOUS
<1> QED BY ParserParts, CodesOf DEF Start, Checks

LEMMA WordsAreLines ==
    ASSUME NEW argv \in Seq(Words)
    PROVE  \A j \in 1 .. Len(argv) : argv[j] \in Line
<1>1. Words \subseteq Line
  BY OptionsAreDescribed DEF Line
<1>2. \A j \in 1 .. Len(argv) : argv[j] \in Words
  OBVIOUS
<1> QED BY <1>1, <1>2

LEMMA ValidationRuns ==
    ASSUME NEW p, ParserOK(p), NEW argv \in Seq(Words)
    PROVE  /\ Args!Validation(p, argv) \in [0 .. Len(argv) -> Checks(p)]
           /\ Args!Validation(p, argv)[0] = Start
           /\ \A j \in 1 .. Len(argv) :
                 Args!Validation(p, argv)[j] =
                 Args!WordChecked(p, Args!Validation(p, argv)[j - 1], argv[j])
<1> DEFINE N == Len(argv)
           S == Checks(p)
           V == Args!Validation(p, argv)
           g == [j \in 1 .. N |-> [x \in S |-> Args!WordChecked(p, x, argv[j])]]
<1>1. N \in Nat
  OBVIOUS
<1>2. \A x \in S, j \in 1 .. N : Args!WordChecked(p, x, argv[j]) \in S
  BY WordTyped, WordsAreLines
<1>3. g \in [1 .. N -> [S -> S]]
  BY <1>2
<1>4. \A j \in 1 .. N : \A x \in S : g[j][x] = Args!WordChecked(p, x, argv[j])
  OBVIOUS
<1> HIDE DEF g, S, N
<1>5. PICK u \in [0 .. N -> S] : IsRun(u, N, Start, g)
  <2>1. Start \in S
    BY StartTyped DEF S
  <2> QED BY <1>1, <1>3, <2>1, Recurrence
<1>6. \A j \in 0 .. N : u[j] = IF j = 0 THEN Start ELSE Args!WordChecked(p, u[j - 1], argv[j])
  <2> SUFFICES ASSUME NEW j \in 0 .. N, j # 0 PROVE u[j] = Args!WordChecked(p, u[j - 1], argv[j])
    BY <1>1, <1>5 DEF IsRun
  <2>1. j \in 1 .. N /\ j - 1 \in 0 .. N
    BY <1>1
  <2>2. u[j - 1] \in S /\ u[j] = g[j][u[j - 1]]
    BY <1>1, <1>5, <2>1 DEF IsRun
  <2> QED BY <1>4, <2>1, <2>2
<1>7. u = [j \in 0 .. N |-> IF j = 0 THEN Start ELSE Args!WordChecked(p, u[j - 1], argv[j])]
  BY <1>5, <1>6
<1>8. V = [j \in 0 .. N |-> IF j = 0 THEN Start ELSE Args!WordChecked(p, V[j - 1], argv[j])]
  BY <1>7 DEF Args!Validation, N, Start
<1> HIDE DEF V
<1>9. V[0] = Start /\ \A j \in 1 .. N : V[j] = Args!WordChecked(p, V[j - 1], argv[j])
  <2>1. 0 \in 0 .. N /\ \A j \in 1 .. N : j \in 0 .. N /\ j # 0
    BY <1>1
  <2> QED BY <1>8, <2>1
<1>10. \A j \in 0 .. N : V[j] \in S
  <2>1. V[0] \in S
    BY <1>9, StartTyped DEF S
  <2>2. \A j \in 1 .. N : V[j - 1] \in S => V[j] \in S
    BY <1>2, <1>9
  <2> QED BY <1>1, <2>1, <2>2, StaysIn
<1>11. V \in [0 .. N -> S]
  BY <1>8, <1>10
<1> QED BY <1>9, <1>11 DEF V, N, S

LEMMA ValidationAccepts ==
    ASSUME NEW p, ParserOK(p), NEW argv \in Seq(Words), Args!ValidationCode(p, argv) = "SUCCESS"
    PROVE  /\ \A k \in 0 .. Len(argv) : Args!Validation(p, argv)[k].code = "SUCCESS"
           /\ Args!Ended(p, Args!Validation(p, argv)[Len(argv)]).code = "SUCCESS"
<1> DEFINE N == Len(argv)
           V == Args!Validation(p, argv)
           P == {k \in 0 .. N : V[k].code = "SUCCESS"}
<1>1. N \in Nat
  OBVIOUS
<1>2. \A k \in 1 .. N : V[k] = Args!WordChecked(p, V[k - 1], argv[k])
  BY ValidationRuns, Zenon
<1>3. Args!Ended(p, V[N]).code = "SUCCESS"
  BY Zenon DEF Args!ValidationCode
<1> HIDE DEF V, N
<1>4. V[N].code # "SUCCESS" => Args!Ended(p, V[N]) = V[N]
  BY Zenon DEF Args!Ended
<1>5. N \in P
  BY <1>1, <1>3, <1>4
<1>6. ASSUME NEW k \in 1 .. N, k \in P PROVE k - 1 \in P
  <2>1. k - 1 \in 0 .. N
    BY <1>1
  <2>2. V[k - 1].code # "SUCCESS" => V[k] = V[k - 1]
    BY <1>2, Zenon DEF Args!WordChecked
  <2> QED BY <1>6, <2>1, <2>2
<1>7. 0 .. N \subseteq P
  <2> HIDE DEF P
  <2> QED BY <1>1, <1>5, <1>6, AllBefore
<1> QED BY <1>3, <1>7 DEF V, N

LEMMA EndedAccepted ==
    ASSUME NEW p, ParserOK(p), NEW v \in Checks(p), v.code = "SUCCESS",
           Args!Ended(p, v).code = "SUCCESS", v.option # 0
    PROVE  Args!param_validator(p.mArgs[v.option], v.count) = "SUCCESS"
<1>1. Args!Ended(p, v) = [v EXCEPT !.code = Args!param_validator(p.mArgs[v.option], v.count)]
  BY Zenon DEF Args!Ended, Args!Fails
<1>2. Args!Ended(p, v).code = Args!param_validator(p.mArgs[v.option], v.count)
  BY <1>1, CheckParts
<1> QED BY <1>2

LEMMA ParameterAccepted ==
    ASSUME NEW p, ParserOK(p), NEW v \in Checks(p), v.code = "SUCCESS", NEW w \in Line,
           Args!parse_arg_type(w) = "PARAMETER", Args!WordChecked(p, v, w).code = "SUCCESS"
    PROVE  /\ v.option # 0
           /\ Args!param_matches_type(w, p.mArgs[v.option].type)
           /\ Args!WordChecked(p, v, w) =
              [code |-> "SUCCESS", option |-> v.option, count |-> v.count + 1]
<1>1. Args!WordChecked(p, v, w) = Args!ParameterChecked(p, v, w)
  BY Zenon DEF Args!WordChecked
<1>2. v.option # 0
  <2>1. v.option = 0 => Args!ParameterChecked(p, v, w) = [v EXCEPT !.code = "UNKNOWN_ARG"]
    BY Zenon DEF Args!ParameterChecked, Args!Fails
  <2> QED BY <1>1, <2>1, CheckParts
<1>3. Args!param_matches_type(w, p.mArgs[v.option].type)
  <2>1. ~Args!param_matches_type(w, p.mArgs[v.option].type) =>
            Args!ParameterChecked(p, v, w) = [v EXCEPT !.code = "INVALID_ARG_TYPE"]
    BY <1>2, Zenon DEF Args!ParameterChecked, Args!Fails
  <2> QED BY <1>1, <2>1, CheckParts
<1>4. Args!WordChecked(p, v, w) = [v EXCEPT !.count = @ + 1]
  BY <1>1, <1>2, <1>3, Zenon DEF Args!ParameterChecked
<1>5. v = [code |-> "SUCCESS", option |-> v.option, count |-> v.count]
  BY CheckParts
<1>6. Args!WordChecked(p, v, w) =
          [code |-> "SUCCESS", option |-> v.option, count |-> v.count + 1]
  BY <1>4, <1>5
<1> QED BY <1>2, <1>3, <1>6

(* A word that is no parameter and is accepted: it names options, of which *)
(* all but the last may go without values, and the option before it has    *)
(* what it needs.                                                          *)
NamesOptions(p, w) ==
    /\ Args!Options(p, w) \in Seq(1 .. Len(p.mArgs))
    /\ Len(Args!Options(p, w)) > 0

LEMMA OptionsAccepted ==
    ASSUME NEW p, ParserOK(p), NEW v \in Checks(p), v.code = "SUCCESS", NEW w \in Line,
           Args!parse_arg_type(w) # "PARAMETER", Args!WordChecked(p, v, w).code = "SUCCESS"
    PROVE  LET os == Args!Options(p, w)
           IN /\ NamesOptions(p, w)
              /\ \A j \in 1 .. Len(os) - 1 : Args!param_validator(p.mArgs[os[j]], 0) = "SUCCESS"
              /\ Args!WordChecked(p, v, w) =
                 [code |-> "SUCCESS", option |-> os[Len(os)], count |-> 0]
              /\ v.option # 0 => Args!param_validator(p.mArgs[v.option], v.count) = "SUCCESS"
<1> DEFINE os == Args!Options(p, w)
           e == Args!Ended(p, v)
<1>1. e.code = "SUCCESS"
  <2>1. e.code # "SUCCESS" => Args!WordChecked(p, v, w) = e
    BY Zenon DEF Args!WordChecked
  <2> QED BY <2>1
<1>2. e \in Checks(p)
  BY EndedTyped
<1>3. v.option # 0 => Args!param_validator(p.mArgs[v.option], v.count) = "SUCCESS"
  BY <1>1, EndedAccepted
<1>4. CASE Args!parse_arg_type(w) = "LONG_ARG"
  <2> DEFINE l == Args!LongName(w)
  <2> HIDE DEF e
  <2>1. Args!WordChecked(p, v, w) = Args!LongChecked(p, e, l)
    BY <1>1, <1>4, Zenon DEF Args!WordChecked, e
  <2> HIDE DEF l
  <2>2. l # "help"
    <3>1. l = "help" => Args!LongChecked(p, e, l) = [e EXCEPT !.code = "HELP"]
      BY Zenon DEF Args!LongChecked, Args!Fails
    <3> QED BY <1>2, <2>1, <3>1, CheckParts
  <2>3. l \in DOMAIN p.long
    <3>1. l \notin DOMAIN p.long => Args!LongChecked(p, e, l) = [e EXCEPT !.code = "UNKNOWN_ARG"]
      BY <2>2, Zenon DEF Args!LongChecked, Args!Fails
    <3> QED BY <1>2, <2>1, <3>1, CheckParts
  <2>4. Args!WordChecked(p, v, w) = [code |-> "SUCCESS", option |-> p.long[l], count |-> 0]
    BY <2>1, <2>2, <2>3, Zenon DEF Args!LongChecked
  <2>5. os = <<p.long[l]>>
    BY <1>4, Zenon DEF Args!Options, l
  <2>6. p.long[l] \in 1 .. Len(p.mArgs)
    BY <2>3, ParserParts, Zenon
  <2> HIDE DEF os
  <2>7. os \in Seq(1 .. Len(p.mArgs)) /\ Len(os) = 1 /\ os[Len(os)] = p.long[l]
    BY <2>5, <2>6
  <2> QED BY <1>3, <2>4, <2>7 DEF os, NamesOptions
<1>5. CASE Args!parse_arg_type(w) # "LONG_ARG"
  <2> DEFINE f == Args!Flags(w)
  <2>1. Args!WordChecked(p, v, w) = Args!FlagsChecked(p, e, f)[Len(f)]
    BY <1>1, <1>5, Zenon DEF Args!WordChecked
  <2>2. Len(w) \in Nat /\ Len(w) >= 2
    <3>1. Len(w) \in Nat
      BY DEF Line
    <3>2. ~(Len(w) = 2 /\ w[1] = Args!Dash) /\ ~(Len(w) > 2 /\ w[1] = Args!Dash /\ w[2] # Args!Dash)
             /\ ~(Len(w) >= 3 /\ w[1] = Args!Dash /\ w[2] = Args!Dash)
          => Args!parse_arg_type(w) = "PARAMETER"
      BY DEF Args!parse_arg_type
    <3> QED BY <3>1, <3>2
  <2>3. f \in Line /\ Len(f) > 0
    BY <2>2 DEF Args!Flags, Line
  <2>4. os = [j \in 1 .. Len(f) |-> p.short[f[j]]]
    BY <1>5, Zenon DEF Args!Options
  <2> HIDE DEF f, e
  <2>5. /\ \A j \in 1 .. Len(f) : f[j] \in DOMAIN p.short
        /\ \A j \in 1 .. Len(f) - 1 :
                 Args!param_validator(p.mArgs[p.short[f[j]]], 0) = "SUCCESS"
        /\ Args!FlagsChecked(p, e, f)[Len(f)] =
              [code |-> "SUCCESS", option |-> p.short[f[Len(f)]], count |-> 0]
    BY <1>2, <2>1, <2>3, FlagsAccepted
  <2>6. Len(f) \in Nat
    BY <2>3 DEF Line
  <2>7. \A j \in 1 .. Len(f) : p.short[f[j]] \in 1 .. Len(p.mArgs)
    BY <2>5, ParserParts, Zenon
  <2> HIDE DEF os
  <2>8. os \in Seq(1 .. Len(p.mArgs)) /\ Len(os) = Len(f)
    BY <2>4, <2>6, <2>7
  <2>9. \A j \in 1 .. Len(f) : os[j] = p.short[f[j]]
    BY <2>4
  <2>10. Len(f) \in 1 .. Len(f) /\ \A j \in 1 .. Len(f) - 1 : j \in 1 .. Len(f)
    BY <2>3, <2>6
  <2>11. \A j \in 1 .. Len(os) - 1 : Args!param_validator(p.mArgs[os[j]], 0) = "SUCCESS"
    <3> SUFFICES ASSUME NEW j \in 1 .. Len(os) - 1
                 PROVE  Args!param_validator(p.mArgs[os[j]], 0) = "SUCCESS"
      OBVIOUS
    <3>1. j \in 1 .. Len(f) - 1 /\ j \in 1 .. Len(f)
      BY <2>8, <2>10
    <3>2. os[j] = p.short[f[j]]
      BY <2>9, <3>1
    <3> QED BY <2>5, <3>1, <3>2
  <2>12. Args!WordChecked(p, v, w) = [code |-> "SUCCESS", option |-> os[Len(os)], count |-> 0]
    BY <2>1, <2>5, <2>8, <2>9, <2>10
  <2> QED BY <1>3, <2>3, <2>8, <2>11, <2>12 DEF os, NamesOptions
<1> QED BY <1>4, <1>5

-----------------------------------------------------------------------------
(* The second pass: the parser that p, whose options it keeps, becomes.    *)
Parsers(p) ==
    [mArgs : {p.mArgs}, long : {p.long}, short : {p.short},
     mFoundOpts : [1 .. Len(p.mArgs) -> BOOLEAN],
     mValues : [1 .. Len(p.mArgs) -> Seq(Line)], code : {p.code}]

Reads(p) == [p : Parsers(p), last : 0 .. Len(p.mArgs)]

LEMMA OptionsSame ==
    ASSUME NEW p, NEW q \in Parsers(p), NEW w
    PROVE  Args!Options(q, w) = Args!Options(p, w)
<1>1. q.long = p.long /\ q.short = p.short
  BY DEF Parsers
<1> QED BY <1>1, Zenon DEF Args!Options

LEMMA ReadParameter ==
    ASSUME NEW p, ParserOK(p), NEW r \in Reads(p), NEW w \in Line,
           Args!parse_arg_type(w) = "PARAMETER"
    PROVE  LET s == Args!WordRead(r, w)
           IN /\ s \in Reads(p) /\ s.last = r.last
              /\ s.p.mFoundOpts = r.p.mFoundOpts
              /\ \A i \in 1 .. Len(p.mArgs) : s.p.mValues[i] =
                     IF i = r.last THEN Append(r.p.mValues[i], w) ELSE r.p.mValues[i]
<1> DEFINE q == r.p
           m == [q.mValues EXCEPT ![r.last] = Append(@, w)]
           s == Args!WordRead(r, w)
           n == Len(p.mArgs)
<1>1. q \in Parsers(p) /\ r.last \in 0 .. n /\ r = [p |-> q, last |-> r.last]
  BY DEF Reads
<1>2. n \in Nat
  BY ParserParts
<1>3. s = [r EXCEPT !.p.mValues[r.last] = Append(@, w)]
  BY Zenon DEF Args!WordRead
<1> HIDE DEF s, n
<1>4. s = [p |-> [q EXCEPT !.mValues = m], last |-> r.last]
  BY <1>1, <1>3
<1>5. q.mValues \in [1 .. n -> Seq(Line)]
  BY <1>1 DEF Parsers, n
<1>6. m \in [1 .. n -> Seq(Line)]
      /\ \A i \in 1 .. n : m[i] = IF i = r.last THEN Append(q.mValues[i], w) ELSE q.mValues[i]
  <2> DEFINE vs == q.mValues
  <2>1. m = [i \in 1 .. n |-> IF i = r.last THEN Append(vs[i], w) ELSE vs[i]]
    BY <1>5
  <2> HIDE DEF m, vs
  <2>2. \A i \in 1 .. n : vs[i] \in Seq(Line)
    BY <1>5 DEF vs
  <2>3. \A x \in Seq(Line) : Append(x, w) \in Seq(Line)
    OBVIOUS
  <2> QED BY <2>1, <2>2, <2>3 DEF vs
<1> HIDE DEF m, q
<1>7. [q EXCEPT !.mValues = m] \in Parsers(p) /\ [q EXCEPT !.mValues = m].mValues = m
      /\ [q EXCEPT !.mValues = m].mFoundOpts = q.mFoundOpts
  BY <1>1, <1>6 DEF Parsers, n
<1>8. s \in Reads(p) /\ s.last = r.last /\ s.p.mFoundOpts = q.mFoundOpts /\ s.p.mValues = m
  BY <1>1, <1>4, <1>7 DEF Reads, n
<1> QED BY <1>6, <1>8 DEF s, q, n

(* The options that a word names.                                          *)
Named(p, w) == {Args!Options(p, w)[j] : j \in 1 .. Len(Args!Options(p, w))}

LEMMA ReadOptions ==
    ASSUME NEW p, ParserOK(p), NEW r \in Reads(p), NEW w \in Line,
           Args!parse_arg_type(w) # "PARAMETER", NamesOptions(p, w)
    PROVE  /\ Args!WordRead(r, w) \in Reads(p)
           /\ Args!WordRead(r, w).last = Args!Options(p, w)[Len(Args!Options(p, w))]
           /\ Args!WordRead(r, w).last \in Named(p, w)
           /\ \A i \in 1 .. Len(p.mArgs) :
                 /\ Args!WordRead(r, w).p.mFoundOpts[i] <=>
                       r.p.mFoundOpts[i] \/ i \in Named(p, w)
                 /\ Args!WordRead(r, w).p.mValues[i] =
                       IF i \in Named(p, w) THEN <<>> ELSE r.p.mValues[i]
<1> DEFINE q == r.p
           n == Len(p.mArgs)
           os == Args!Options(p, w)
           named == Named(p, w)
           f == [i \in 1 .. n |-> q.mFoundOpts[i] \/ i \in named]
           m == [i \in 1 .. n |-> IF i \in named THEN <<>> ELSE q.mValues[i]]
           s == Args!WordRead(r, w)
<1>1. q \in Parsers(p) /\ r.last \in 0 .. n /\ r = [p |-> q, last |-> r.last]
  BY DEF Reads
<1>2. n \in Nat
  BY ParserParts
<1>3. Args!Options(q, w) = os
  BY <1>1, OptionsSame
<1>4. \A i : Args!Contains(os, i) <=> i \in named
  BY DEF Args!Contains, Named
<1>5. DOMAIN q.mFoundOpts = 1 .. n /\ DOMAIN q.mValues = 1 .. n
      /\ q.mFoundOpts \in [1 .. n -> BOOLEAN] /\ q.mValues \in [1 .. n -> Seq(Line)]
  BY <1>1 DEF Parsers
<1>6. s = [last |-> os[Len(os)],
           p |-> [q EXCEPT
                    !.mFoundOpts = [i \in DOMAIN @ |-> @[i] \/ Args!Contains(os, i)],
                    !.mValues = [i \in DOMAIN @ |-> IF Args!Contains(os, i) THEN <<>> ELSE @[i]]]]
  BY <1>3, Zenon DEF Args!WordRead
<1>7. os \in Seq(1 .. n) /\ Len(os) \in 1 .. Len(os) /\ os[Len(os)] \in 1 .. n
  BY DEF NamesOptions
<1>8. f \in [1 .. n -> BOOLEAN] /\ m \in [1 .. n -> Seq(Line)]
  BY <1>5
<1> HIDE DEF s, n, os, named, q
<1>9. [i \in DOMAIN q.mFoundOpts |-> q.mFoundOpts[i] \/ Args!Contains(os, i)] = f
  BY <1>4, <1>5
<1>10. [i \in DOMAIN q.mValues |-> IF Args!Contains(os, i) THEN <<>> ELSE q.mValues[i]] = m
  BY <1>4, <1>5
<1>11. s = [last |-> os[Len(os)], p |-> [q EXCEPT !.mFoundOpts = f, !.mValues = m]]
  BY <1>6, <1>9, <1>10
<1>12. /\ \A i \in 1 .. n : f[i] = (q.mFoundOpts[i] \/ i \in named)
       /\ \A i \in 1 .. n : m[i] = IF i \in named THEN <<>> ELSE q.mValues[i]
  OBVIOUS
<1> HIDE DEF f, m
<1>13. /\ [q EXCEPT !.mFoundOpts = f, !.mValues = m] \in Parsers(p)
       /\ [q EXCEPT !.mFoundOpts = f, !.mValues = m].mFoundOpts = f
       /\ [q EXCEPT !.mFoundOpts = f, !.mValues = m].mValues = m
  BY <1>1, <1>8 DEF Parsers, n
<1>14. s \in Reads(p) /\ s.last = os[Len(os)] /\ s.p.mFoundOpts = f /\ s.p.mValues = m
  <2> DEFINE x == [q EXCEPT !.mFoundOpts = f, !.mValues = m]
  <2> HIDE DEF x
  <2>1. s = [last |-> os[Len(os)], p |-> x]
    BY <1>11 DEF x
  <2>2. x \in Parsers(p) /\ x.mFoundOpts = f /\ x.mValues = m
    BY <1>13 DEF x
  <2>3. os[Len(os)] \in 0 .. n
    BY <1>2, <1>7
  <2> QED BY <2>1, <2>2, <2>3 DEF Reads, n
<1>15. os[Len(os)] \in named
  BY <1>7 DEF named, Named, os
<1> QED BY <1>12, <1>14, <1>15 DEF s, n, os, named, q

(* The values are as an option wants them.                                 *)
TypesFit(arg, values) ==
    \A j \in 1 .. Len(values) : Args!param_matches_type(values[j], arg.type)

(* The second pass, at r, agrees with the first, at v.                     *)
PassesAgree(p, v, r) ==
    /\ r \in Reads(p)
    /\ r.last = v.option
    /\ \A i \in 1 .. Len(p.mArgs) :
           /\ r.p.mFoundOpts[i] => TypesFit(p.mArgs[i], r.p.mValues[i])
           /\ i = v.option => r.p.mFoundOpts[i] /\ Len(r.p.mValues[i]) = v.count
           /\ i # v.option /\ r.p.mFoundOpts[i] =>
                  Args!param_validator(p.mArgs[i], Len(r.p.mValues[i])) = "SUCCESS"

LEMMA ParameterKeepsAgreement ==
    ASSUME NEW p, ParserOK(p), NEW v \in Checks(p), v.code = "SUCCESS", NEW w \in Line,
           NEW r, PassesAgree(p, v, r),
           Args!parse_arg_type(w) = "PARAMETER", Args!WordChecked(p, v, w).code = "SUCCESS"
    PROVE  PassesAgree(p, Args!WordChecked(p, v, w), Args!WordRead(r, w))
<1> DEFINE n == Len(p.mArgs)
           x == Args!WordChecked(p, v, w)
           s == Args!WordRead(r, w)
<1>1. /\ v.option # 0 /\ Args!param_matches_type(w, p.mArgs[v.option].type)
      /\ x.option = v.option /\ x.count = v.count + 1
  BY ParameterAccepted
<1>2. r \in Reads(p) /\ r.last = v.option
  BY DEF PassesAgree
<1>3. /\ s \in Reads(p) /\ s.last = r.last /\ s.p.mFoundOpts = r.p.mFoundOpts
      /\ \A i \in 1 .. n : s.p.mValues[i] =
             IF i = r.last THEN Append(r.p.mValues[i], w) ELSE r.p.mValues[i]
  BY <1>2, ReadParameter
<1>4. \A i \in 1 .. n : r.p.mValues[i] \in Seq(Line)
  BY <1>2 DEF Reads, Parsers
<1> HIDE DEF x, s
<1>5. ASSUME NEW i \in 1 .. n
      PROVE  /\ s.p.mFoundOpts[i] => TypesFit(p.mArgs[i], s.p.mValues[i])
             /\ i = x.option => s.p.mFoundOpts[i] /\ Len(s.p.mValues[i]) = x.count
             /\ i # x.option /\ s.p.mFoundOpts[i] =>
                    Args!param_validator(p.mArgs[i], Len(s.p.mValues[i])) = "SUCCESS"
  <2>1. /\ r.p.mFoundOpts[i] => TypesFit(p.mArgs[i], r.p.mValues[i])
        /\ i = v.option => r.p.mFoundOpts[i] /\ Len(r.p.mValues[i]) = v.count
        /\ i # v.option /\ r.p.mFoundOpts[i] =>
               Args!param_validator(p.mArgs[i], Len(r.p.mValues[i])) = "SUCCESS"
    BY Zenon DEF PassesAgree
  <2>2. CASE i = v.option
    <3> DEFINE old == r.p.mValues[i]
               new == s.p.mValues[i]
    <3>1. old \in Seq(Line) /\ new = Append(old, w)
      BY <1>2, <1>3, <1>4, <2>2
    <3>2. TypesFit(p.mArgs[i], old) /\ Len(old) = v.count
      BY <2>1, <2>2
    <3> HIDE DEF old, new
    <3>3. Len(new) = Len(old) + 1
          /\ \A j \in 1 .. Len(new) : (j \in 1 .. Len(old) /\ new[j] = old[j]) \/ new[j] = w
      BY <3>1
    <3>4. TypesFit(p.mArgs[i], new)
      BY <1>1, <2>2, <3>2, <3>3 DEF TypesFit
    <3>5. s.p.mFoundOpts[i] /\ Len(new) = x.count
      BY <1>1, <1>3, <2>1, <2>2, <3>2, <3>3
    <3> QED BY <1>1, <2>2, <3>4, <3>5 DEF new
  <2>3. CASE i # v.option
    <3>1. s.p.mValues[i] = r.p.mValues[i] /\ s.p.mFoundOpts[i] = r.p.mFoundOpts[i]
      BY <1>2, <1>3, <2>3
    <3> QED BY <1>1, <2>1, <2>3, <3>1
  <2> QED BY <2>2, <2>3
<1> QED BY <1>1, <1>2, <1>3, <1>5 DEF PassesAgree, x, s, n

LEMMA OptionsKeepAgreement ==
    ASSUME NEW p, ParserOK(p), NEW v \in Checks(p), v.code = "SUCCESS", NEW w \in Line,
           NEW r, PassesAgree(p, v, r),
           Args!parse_arg_type(w) # "PARAMETER", Args!WordChecked(p, v, w).code = "SUCCESS"
    PROVE  PassesAgree(p, Args!WordChecked(p, v, w), Args!WordRead(r, w))
<1> DEFINE n == Len(p.mArgs)
           x == Args!WordChecked(p, v, w)
           s == Args!WordRead(r, w)
           os == Args!Options(p, w)
           named == Named(p, w)
<1>1. /\ NamesOptions(p, w)
      /\ \A j \in 1 .. Len(os) - 1 : Args!param_validator(p.mArgs[os[j]], 0) = "SUCCESS"
      /\ x = [code |-> "SUCCESS", option |-> os[Len(os)], count |-> 0]
      /\ v.option # 0 => Args!param_validator(p.mArgs[v.option], v.count) = "SUCCESS"
  BY OptionsAccepted, Zenon
<1>2. r \in Reads(p) /\ r.last = v.option
  BY DEF PassesAgree
<1>3. /\ s \in Reads(p) /\ s.last = os[Len(os)] /\ s.last \in named
      /\ \A i \in 1 .. n :
             /\ s.p.mFoundOpts[i] <=> r.p.mFoundOpts[i] \/ i \in named
             /\ s.p.mValues[i] = IF i \in named THEN <<>> ELSE r.p.mValues[i]
  <2>1. /\ s \in Reads(p) /\ s.last = os[Len(os)] /\ s.last \in named
    BY <1>1, <1>2, ReadOptions
  <2>2. \A i \in 1 .. n : (s.p.mFoundOpts[i] <=> r.p.mFoundOpts[i] \/ i \in named)
    BY <1>1, <1>2, ReadOptions
  <2>3. \A i \in 1 .. n : s.p.mValues[i] = IF i \in named THEN <<>> ELSE r.p.mValues[i]
    BY <1>1, <1>2, ReadOptions
  <2> QED BY <2>1, <2>2, <2>3, Zenon
<1>4. Len(os) \in Nat /\ n \in Nat
  BY <1>1, ParserParts DEF NamesOptions
<1>5. ASSUME NEW i \in named, i # os[Len(os)]
      PROVE  Args!param_validator(p.mArgs[i], 0) = "SUCCESS"
  <2>1. PICK j \in 1 .. Len(os) : os[j] = i
    BY DEF Named
  <2>2. j \in 1 .. Len(os) - 1
    BY <1>4, <1>5, <2>1
  <2> QED BY <1>1, <2>1, <2>2
<1>6. x.option = os[Len(os)] /\ x.count = 0
  BY <1>1
<1> HIDE DEF x, s, os, named
<1>7. ASSUME NEW i \in 1 .. n
      PROVE  /\ s.p.mFoundOpts[i] => TypesFit(p.mArgs[i], s.p.mValues[i])
             /\ i = x.option => s.p.mFoundOpts[i] /\ Len(s.p.mValues[i]) = x.count
             /\ i # x.option /\ s.p.mFoundOpts[i] =>
                    Args!param_validator(p.mArgs[i], Len(s.p.mValues[i])) = "SUCCESS"
  <2>1. /\ r.p.mFoundOpts[i] => TypesFit(p.mArgs[i], r.p.mValues[i])
        /\ i = v.option => r.p.mFoundOpts[i] /\ Len(r.p.mValues[i]) = v.count
        /\ i # v.option /\ r.p.mFoundOpts[i] =>
               Args!param_validator(p.mArgs[i], Len(r.p.mValues[i])) = "SUCCESS"
    BY Zenon DEF PassesAgree
  <2>2. CASE i \in named
    <3>1. s.p.mFoundOpts[i] /\ s.p.mValues[i] = <<>>
      BY <1>3, <2>2
    <3>2. Len(s.p.mValues[i]) = 0
      BY <3>1
    <3>3. TypesFit(p.mArgs[i], s.p.mValues[i])
      BY <3>2 DEF TypesFit
    <3> QED BY <1>5, <1>6, <2>2, <3>1, <3>2, <3>3
  <2>3. CASE i \notin named
    <3>1. s.p.mValues[i] = r.p.mValues[i] /\ (s.p.mFoundOpts[i] <=> r.p.mFoundOpts[i])
      BY <1>3, <2>3
    <3>2. i # x.option
      BY <1>3, <1>6, <2>3
    <3>3. i = v.option => v.option # 0
      BY <1>4
    <3> QED BY <1>1, <2>1, <3>1, <3>2, <3>3
  <2> QED BY <2>2, <2>3
<1> QED BY <1>3, <1>6, <1>7, Zenon DEF PassesAgree, x, s, n

LEMMA ReadingRuns ==
    ASSUME NEW p, ParserOK(p), NEW argv \in Seq(Words), NEW first \in Reads(p),
           first = [p |-> p, last |-> 0],
           \A j \in 1 .. Len(argv) : \/ Args!parse_arg_type(argv[j]) = "PARAMETER"
                                     \/ NamesOptions(p, argv[j])
    PROVE  /\ Args!Reading(p, argv)[0] = first
           /\ \A j \in 1 .. Len(argv) : Args!Reading(p, argv)[j] =
                 Args!WordRead(Args!Reading(p, argv)[j - 1], argv[j])
<1> DEFINE N == Len(argv)
           S == Reads(p)
           V == Args!Reading(p, argv)
           g == [j \in 1 .. N |-> [x \in S |-> Args!WordRead(x, argv[j])]]
<1>1. N \in Nat
  OBVIOUS
<1>2. \A x \in S, j \in 1 .. N : Args!WordRead(x, argv[j]) \in S
  <2> SUFFICES ASSUME NEW x \in S, NEW j \in 1 .. N PROVE Args!WordRead(x, argv[j]) \in S
    OBVIOUS
  <2>1. argv[j] \in Line
    BY WordsAreLines
  <2>2. CASE Args!parse_arg_type(argv[j]) = "PARAMETER"
    BY <2>1, <2>2, ReadParameter
  <2>3. CASE Args!parse_arg_type(argv[j]) # "PARAMETER"
    BY <2>1, <2>3, ReadOptions
  <2> QED BY <2>2, <2>3
<1>3. g \in [1 .. N -> [S -> S]]
  BY <1>2
<1>4. \A j \in 1 .. N : \A x \in S : g[j][x] = Args!WordRead(x, argv[j])
  OBVIOUS
<1> HIDE DEF g, S, N
<1>5. PICK u \in [0 .. N -> S] : IsRun(u, N, first, g)
  <2>1. first \in S
    BY DEF S
  <2> QED BY <1>1, <1>3, <2>1, Recurrence
<1>6. \A j \in 0 .. N : u[j] = IF j = 0 THEN first ELSE Args!WordRead(u[j - 1], argv[j])
  <2> SUFFICES ASSUME NEW j \in 0 .. N, j # 0 PROVE u[j] = Args!WordRead(u[j - 1], argv[j])
    BY <1>1, <1>5 DEF IsRun
  <2>1. j \in 1 .. N /\ j - 1 \in 0 .. N
    BY <1>1
  <2>2. u[j - 1] \in S /\ u[j] = g[j][u[j - 1]]
    BY <1>1, <1>5, <2>1 DEF IsRun
  <2> QED BY <1>4, <2>1, <2>2
<1>7. u = [j \in 0 .. N |-> IF j = 0 THEN [p |-> p, last |-> 0]
                            ELSE Args!WordRead(u[j - 1], argv[j])]
  BY <1>5, <1>6
<1>8. V = [j \in 0 .. N |-> IF j = 0 THEN [p |-> p, last |-> 0]
                            ELSE Args!WordRead(V[j - 1], argv[j])]
  BY <1>7 DEF Args!Reading, N
<1> HIDE DEF V
<1>9. V[0] = first /\ \A j \in 1 .. N : V[j] = Args!WordRead(V[j - 1], argv[j])
  <2>1. 0 \in 0 .. N /\ \A j \in 1 .. N : j \in 0 .. N /\ j # 0
    BY <1>1
  <2> QED BY <1>8, <2>1
<1> QED BY <1>9 DEF V, N

(* What parse reads from a command line that the validation accepts.       *)
LEMMA ReadFits ==
    ASSUME NEW p, ParserOK(p), NEW argv \in Seq(Words), Args!ValidationCode(p, argv) = "SUCCESS",
           p \in Parsers(p), \A i \in 1 .. Len(p.mArgs) : p.mFoundOpts[i] = FALSE
    PROVE  /\ Args!Read(p, argv) \in Parsers(p)
           /\ \A i \in 1 .. Len(p.mArgs) : Args!Read(p, argv).mFoundOpts[i] =>
                 /\ TypesFit(p.mArgs[i], Args!Read(p, argv).mValues[i])
                 /\ Args!param_validator(p.mArgs[i], Len(Args!Read(p, argv).mValues[i])) = "SUCCESS"
<1> DEFINE N == Len(argv)
           n == Len(p.mArgs)
           V == Args!Validation(p, argv)
           R == Args!Reading(p, argv)
           first == [p |-> p, last |-> 0]
<1>1. N \in Nat /\ n \in Nat
  BY ParserParts
<1>2. /\ V \in [0 .. N -> Checks(p)] /\ V[0] = Start
      /\ \A j \in 1 .. N : V[j] = Args!WordChecked(p, V[j - 1], argv[j])
  BY ValidationRuns, Zenon
<1>3. /\ \A j \in 0 .. N : V[j].code = "SUCCESS"
      /\ Args!Ended(p, V[N]).code = "SUCCESS"
  BY ValidationAccepts, Zenon
<1>4. \A j \in 1 .. N : argv[j] \in Line
  BY WordsAreLines
<1> HIDE DEF V
<1>5. ASSUME NEW j \in 1 .. N
      PROVE  /\ V[j - 1] \in Checks(p) /\ V[j - 1].code = "SUCCESS"
             /\ Args!WordChecked(p, V[j - 1], argv[j]).code = "SUCCESS"
             /\ V[j] = Args!WordChecked(p, V[j - 1], argv[j])
  <2>1. j \in 0 .. N /\ j - 1 \in 0 .. N
    BY <1>1
  <2>2. V[j - 1] \in Checks(p)
    BY <1>2, <2>1
  <2> QED BY <1>2, <1>3, <2>1, <2>2
<1>6. ASSUME NEW j \in 1 .. N
      PROVE  Args!parse_arg_type(argv[j]) = "PARAMETER" \/ NamesOptions(p, argv[j])
  BY <1>4, <1>5, OptionsAccepted, Zenon
<1>7. first \in Reads(p)
  BY <1>1 DEF Reads
<1>8. /\ R[0] = first
      /\ \A j \in 1 .. N : R[j] = Args!WordRead(R[j - 1], argv[j])
  BY <1>6, <1>7, ReadingRuns, Zenon
<1> HIDE DEF R
<1>9. PassesAgree(p, V[0], R[0])
  <2>1. first.p = p /\ first.last = 0 /\ Start.option = 0
    BY DEF Start
  <2>2. \A i \in 1 .. n : i # 0 /\ first.p.mFoundOpts[i] = FALSE
    BY <1>1, <2>1
  <2> HIDE DEF first
  <2>3. PassesAgree(p, Start, first)
    BY <1>7, <2>1, <2>2 DEF PassesAgree
  <2> QED BY <1>2, <1>8, <2>3
<1> DEFINE P == {j \in 0 .. N : PassesAgree(p, V[j], R[j])}
<1>10. ASSUME NEW j \in 0 .. N - 1, j \in P PROVE j + 1 \in P
  <2>1. j + 1 \in 1 .. N /\ (j + 1) - 1 = j /\ j + 1 \in 0 .. N
    BY <1>1
  <2>2. PassesAgree(p, V[j], R[j])
    BY <1>10
  <2> DEFINE w == argv[j + 1]
  <2>3. /\ V[j] \in Checks(p) /\ V[j].code = "SUCCESS"
        /\ Args!WordChecked(p, V[j], w).code = "SUCCESS"
        /\ V[j + 1] = Args!WordChecked(p, V[j], w) /\ R[j + 1] = Args!WordRead(R[j], w)
        /\ w \in Line
    BY <1>4, <1>5, <1>8, <2>1
  <2> HIDE DEF w
  <2>4. PassesAgree(p, V[j + 1], R[j + 1])
    BY <2>2, <2>3, ParameterKeepsAgreement, OptionsKeepAgreement
  <2> QED BY <2>1, <2>4
<1>11. 0 .. N \subseteq P
  <2>1. 0 \in P
    BY <1>1, <1>9
  <2> HIDE DEF P
  <2> QED BY <1>1, <1>10, <2>1, UpTo
<1>12. PassesAgree(p, V[N], R[N]) /\ V[N] \in Checks(p) /\ V[N].code = "SUCCESS"
  <2>1. N \in 0 .. N
    BY <1>1
  <2> QED BY <1>2, <1>3, <1>11, <2>1
<1> DEFINE q == R[N].p
<1>13. q \in Parsers(p)
  BY <1>12 DEF PassesAgree, Reads
<1>14. ASSUME NEW i \in 1 .. n, q.mFoundOpts[i]
       PROVE  /\ TypesFit(p.mArgs[i], q.mValues[i])
              /\ Args!param_validator(p.mArgs[i], Len(q.mValues[i])) = "SUCCESS"
  <2>1. /\ q.mFoundOpts[i] => TypesFit(p.mArgs[i], q.mValues[i])
        /\ i = V[N].option => Len(q.mValues[i]) = V[N].count
        /\ i # V[N].option /\ q.mFoundOpts[i] =>
               Args!param_validator(p.mArgs[i], Len(q.mValues[i])) = "SUCCESS"
    BY <1>12, Zenon DEF PassesAgree
  <2>2. i = V[N].option =>
            Args!param_validator(p.mArgs[V[N].option], V[N].count) = "SUCCESS"
    <3>1. i # 0
      BY <1>1
    <3> QED BY <1>3, <1>12, <3>1, EndedAccepted
  <2> QED BY <1>14, <2>1, <2>2
<1>15. Args!Read(p, argv) = q
  BY Zenon DEF Args!Read, R, N
<1> QED BY <1>13, <1>14, <1>15

-----------------------------------------------------------------------------
(* The end of parse: options without values get theirs.                    *)
Ends(p) ==
    [mArgs : {p.mArgs}, long : {p.long}, short : {p.short},
     mFoundOpts : [1 .. Len(p.mArgs) -> BOOLEAN],
     mValues : [1 .. Len(p.mArgs) -> Seq(Line)],
     code : {"SUCCESS", "NO_DEFAULT_VALUE_AVAILABLE", "NO_CONST_VALUE_AVAILABLE"}]

LEMMA EndsChange ==
    ASSUME NEW p, NEW q \in Ends(p)
    PROVE  /\ q.mArgs = p.mArgs /\ q.long = p.long /\ q.short = p.short
           /\ q.mFoundOpts \in [1 .. Len(p.mArgs) -> BOOLEAN]
           /\ q.mValues \in [1 .. Len(p.mArgs) -> Seq(Line)]
           /\ \A c \in {"NO_DEFAULT_VALUE_AVAILABLE", "NO_CONST_VALUE_AVAILABLE"} :
                 [q EXCEPT !.code = c] \in Ends(p) /\ [q EXCEPT !.code = c].code # "SUCCESS"
BY DEF Ends

Given(q, i, values) == [q EXCEPT !.mValues[i] = values]

LEMMA GivenChanges ==
    ASSUME NEW p, NEW q \in Ends(p), NEW i \in 1 .. Len(p.mArgs), NEW values \in Seq(Line)
    PROVE  /\ Given(q, i, values) \in Ends(p)
           /\ Given(q, i, values).mFoundOpts = q.mFoundOpts
           /\ Given(q, i, values).mValues[i] = values
           /\ \A j \in 1 .. Len(p.mArgs) :
                 j # i => Given(q, i, values).mValues[j] = q.mValues[j]
<1> DEFINE m == [q.mValues EXCEPT ![i] = values]
           x == Given(q, i, values)
<1>1. q.mValues \in [1 .. Len(p.mArgs) -> Seq(Line)]
  BY EndsChange
<1>2. m \in [1 .. Len(p.mArgs) -> Seq(Line)]
  BY <1>1
<1>3. \A j \in 1 .. Len(p.mArgs) : m[j] = IF j = i THEN values ELSE q.mValues[j]
  BY <1>1
<1>4. x = [q EXCEPT !.mValues = m]
  BY DEF Ends, Given
<1> HIDE DEF m
<1>5. /\ [q EXCEPT !.mValues = m] \in Ends(p) /\ [q EXCEPT !.mValues = m].mValues = m
      /\ [q EXCEPT !.mValues = m].mFoundOpts = q.mFoundOpts
  BY <1>2 DEF Ends
<1> HIDE DEF x
<1>6. x \in Ends(p) /\ x.mValues = m /\ x.mFoundOpts = q.mFoundOpts
  BY <1>4, <1>5, Zenon
<1>7. /\ x.mValues[i] = values
      /\ \A j \in 1 .. Len(p.mArgs) : j # i => x.mValues[j] = q.mValues[j]
  BY <1>3, <1>6
<1> QED BY <1>6, <1>7 DEF x

LEMMA IndexIsAnOption ==
    ASSUME NEW p, ParserOK(p), NEW q \in Ends(p), NEW k \in 1 .. Len(p.mArgs)
    PROVE  Args!IndexOf(q, p.mArgs[k]) \in 1 .. Len(p.mArgs)
<1>1. q.long = p.long /\ q.short = p.short
  BY EndsChange, Zenon
<1>2. CASE p.mArgs[k].long # ""
  <2>1. Args!IndexOf(q, p.mArgs[k]) = p.long[p.mArgs[k].long]
    BY <1>1, <1>2, Zenon DEF Args!IndexOf, Args!NoName
  <2> QED BY <1>2, <2>1, Zenon DEF ParserOK
<1>3. CASE p.mArgs[k].long = ""
  <2>1. Args!IndexOf(q, p.mArgs[k]) = p.short[p.mArgs[k].short]
    BY <1>1, <1>3, Zenon DEF Args!IndexOf, Args!NoName
  <2> QED BY <1>3, <2>1, Zenon DEF ParserOK
<1> QED BY <1>2, <1>3

LEMMA OptionParts ==
    ASSUME NEW p, ParserOK(p), NEW k \in 1 .. Len(p.mArgs)
    PROVE  /\ p.mArgs[k] \in ArgSet
           /\ p.mArgs[k].default_value \in Seq(Line) /\ p.mArgs[k].const_value \in Seq(Line)
           /\ p.mArgs[k].required \in BOOLEAN /\ p.mArgs[k].num_required \in Nat
<1>1. p.mArgs[k] \in ArgSet
  <2> HIDE DEF ParserOK
  <2> QED BY ParserParts
<1> QED BY <1>1 DEF ArgSet

LEMMA CompletedTyped ==
    ASSUME NEW p, ParserOK(p), NEW q \in Ends(p), NEW k \in 1 .. Len(p.mArgs)
    PROVE  Args!Completed(q, p.mArgs[k]) \in Ends(p)
<1> DEFINE arg == p.mArgs[k]
           i == Args!IndexOf(q, arg)
<1>1. i \in 1 .. Len(p.mArgs)
  BY IndexIsAnOption
<1>2. arg.default_value \in Seq(Line) /\ arg.const_value \in Seq(Line)
  BY OptionParts
<1>3. Args!Completed(q, arg) \in
          {q, [q EXCEPT !.code = "NO_DEFAULT_VALUE_AVAILABLE"],
           [q EXCEPT !.code = "NO_CONST_VALUE_AVAILABLE"],
           Given(q, i, arg.default_value),
           Given(q, i, arg.const_value)}
  BY Zenon DEF Args!Completed, Args!Fails, Given
<1> HIDE DEF arg, i
<1>4. /\ [q EXCEPT !.code = "NO_DEFAULT_VALUE_AVAILABLE"] \in Ends(p)
      /\ [q EXCEPT !.code = "NO_CONST_VALUE_AVAILABLE"] \in Ends(p)
  BY EndsChange
<1>5. /\ Given(q, i, arg.default_value) \in Ends(p)
      /\ Given(q, i, arg.const_value) \in Ends(p)
  BY <1>1, <1>2, GivenChanges, Zenon
<1>6. Args!Completed(q, arg) \in Ends(p)
  BY <1>3, <1>4, <1>5, Zenon
<1> QED BY <1>6 DEF arg

LEMMA CompletionRuns ==
    ASSUME NEW p, ParserOK(p), NEW q \in Ends(p)
    PROVE  /\ Args!Completion(q) \in [0 .. Len(p.mArgs) -> Ends(p)]
           /\ Args!Completion(q)[0] = q
           /\ \A j \in 1 .. Len(p.mArgs) : Args!Completion(q)[j] =
                 Args!Completed(Args!Completion(q)[j - 1], p.mArgs[j])
<1> DEFINE N == Len(p.mArgs)
           S == Ends(p)
           V == Args!Completion(q)
           g == [j \in 1 .. N |-> [x \in S |-> Args!Completed(x, p.mArgs[j])]]
<1>1. N \in Nat /\ q.mArgs = p.mArgs
  BY ParserParts, EndsChange
<1>2. \A x \in S, j \in 1 .. N : Args!Completed(x, p.mArgs[j]) \in S
  BY CompletedTyped
<1>3. g \in [1 .. N -> [S -> S]]
  BY <1>2
<1>4. \A j \in 1 .. N : \A x \in S : g[j][x] = Args!Completed(x, p.mArgs[j])
  OBVIOUS
<1> HIDE DEF g, S, N
<1>5. PICK u \in [0 .. N -> S] : IsRun(u, N, q, g)
  <2>1. q \in S
    BY DEF S
  <2> QED BY <1>1, <1>3, <2>1, Recurrence
<1>6. \A j \in 0 .. N : u[j] = IF j = 0 THEN q ELSE Args!Completed(u[j - 1], p.mArgs[j])
  <2> SUFFICES ASSUME NEW j \in 0 .. N, j # 0 PROVE u[j] = Args!Completed(u[j - 1], p.mArgs[j])
    BY <1>1, <1>5 DEF IsRun
  <2>1. j \in 1 .. N /\ j - 1 \in 0 .. N
    BY <1>1
  <2>2. u[j - 1] \in S /\ u[j] = g[j][u[j - 1]]
    BY <1>1, <1>5, <2>1 DEF IsRun
  <2> QED BY <1>4, <2>1, <2>2
<1>7. u = [j \in 0 .. Len(q.mArgs) |-> IF j = 0 THEN q ELSE Args!Completed(u[j - 1], q.mArgs[j])]
  BY <1>1, <1>5, <1>6 DEF N
<1>8. V = [j \in 0 .. Len(q.mArgs) |-> IF j = 0 THEN q ELSE Args!Completed(V[j - 1], q.mArgs[j])]
  BY <1>7, Zenon DEF Args!Completion
<1> HIDE DEF V
<1>9. V[0] = q /\ \A j \in 1 .. N : V[j] = Args!Completed(V[j - 1], p.mArgs[j])
  <2>1. 0 \in 0 .. N /\ \A j \in 1 .. N : j \in 0 .. N /\ j # 0
    BY <1>1
  <2> QED BY <1>1, <1>8, <2>1 DEF N
<1>10. \A j \in 0 .. N : V[j] \in S
  <2>1. V[0] \in S
    BY <1>9 DEF S
  <2>2. \A j \in 1 .. N : V[j - 1] \in S => V[j] \in S
    BY <1>2, <1>9
  <2> QED BY <1>1, <2>1, <2>2, StaysIn
<1>11. V \in [0 .. N -> S]
  BY <1>1, <1>8, <1>10 DEF N
<1> QED BY <1>9, <1>11 DEF V, N, S

(* What the end of parse makes of one option: found tells whether it was   *)
(* given, old the values it was given and new those it has then.           *)
Finished(arg, found, old, new) ==
    /\ ~found => new = arg.default_value
                 /\ (arg.required /\ arg.num_required # 0 => arg.default_value # <<>>)
    /\ found => new = IF old # <<>> THEN old ELSE arg.const_value

LEMMA CompletedAlone ==
    ASSUME NEW p, ParserOK(p), Args!NamesAreUnique(p), NEW q \in Ends(p), q.code = "SUCCESS",
           NEW k \in 1 .. Len(p.mArgs), Args!Completed(q, p.mArgs[k]).code = "SUCCESS"
    PROVE  /\ Args!Completed(q, p.mArgs[k]).mFoundOpts = q.mFoundOpts
           /\ \A i \in 1 .. Len(p.mArgs) : i # k =>
                 Args!Completed(q, p.mArgs[k]).mValues[i] = q.mValues[i]
           /\ Finished(p.mArgs[k], q.mFoundOpts[k], q.mValues[k],
                       Args!Completed(q, p.mArgs[k]).mValues[k])
<1> DEFINE arg == p.mArgs[k]
           c == Args!Completed(q, arg)
           n == Len(p.mArgs)
<1>1. Args!IndexOf(q, arg) = k
  <2>1. q.long = p.long /\ q.short = p.short
    BY EndsChange, Zenon
  <2>2. p.mArgs \in Seq(ArgSet)
    BY ParserParts, Zenon
  <2>3. DOMAIN p.mArgs = 1 .. n
    BY <2>2
  <2>4. (arg.long # "" => p.long[arg.long] = k) /\ (arg.short # "" => p.short[arg.short] = k)
    BY <2>3, Zenon DEF Args!NamesAreUnique, Args!NoName
  <2>5. arg.long # "" \/ arg.short # ""
    BY Zenon DEF ParserOK
  <2> QED BY <2>1, <2>4, <2>5, Zenon DEF Args!IndexOf, Args!NoName
<1>2. /\ arg.default_value \in Seq(Line) /\ arg.const_value \in Seq(Line)
      /\ arg.required \in BOOLEAN
  BY OptionParts
<1>3. /\ [q EXCEPT !.code = "NO_DEFAULT_VALUE_AVAILABLE"].code # "SUCCESS"
      /\ [q EXCEPT !.code = "NO_CONST_VALUE_AVAILABLE"].code # "SUCCESS"
  BY EndsChange
<1>4. ASSUME NEW values \in Seq(Line)
      PROVE  /\ Given(q, k, values).mFoundOpts = q.mFoundOpts
             /\ Given(q, k, values).mValues[k] = values
             /\ \A j \in 1 .. n : j # k => Given(q, k, values).mValues[j] = q.mValues[j]
  BY GivenChanges
<1>5. CASE ~q.mFoundOpts[k]
  <2>1. ~(arg.required /\ arg.num_required # 0 /\ arg.default_value = <<>>)
    <3>1. arg.required /\ arg.num_required # 0 /\ arg.default_value = <<>> =>
              c = [q EXCEPT !.code = "NO_DEFAULT_VALUE_AVAILABLE"]
      BY <1>1, <1>5, Zenon DEF Args!Completed, Args!Fails
    <3> QED BY <1>3, <3>1, Zenon
  <2>2. c = Given(q, k, arg.default_value)
    BY <1>1, <1>5, <2>1, Zenon DEF Args!Completed, Given
  <2> HIDE DEF c, arg
  <2>3. /\ c.mFoundOpts = q.mFoundOpts
        /\ c.mValues[k] = arg.default_value
        /\ \A j \in 1 .. n : j # k => c.mValues[j] = q.mValues[j]
    BY <1>2, <1>4, <2>2, Zenon
  <2>4. Finished(arg, q.mFoundOpts[k], q.mValues[k], c.mValues[k])
    BY <1>2, <1>5, <2>1, <2>3 DEF Finished
  <2> QED BY <2>3, <2>4 DEF c, arg
<1>6. CASE q.mFoundOpts[k] /\ q.mValues[k] # <<>>
  <2>1. c = q
    BY <1>1, <1>6, Zenon DEF Args!Completed
  <2> HIDE DEF c, arg
  <2>2. Finished(arg, q.mFoundOpts[k], q.mValues[k], c.mValues[k])
    BY <1>6, <2>1 DEF Finished
  <2> QED BY <2>1, <2>2 DEF c, arg
<1>7. CASE q.mFoundOpts[k] /\ q.mValues[k] = <<>>
  <2>1. ~(arg.required /\ arg.const_value = <<>>)
    <3>1. arg.required /\ arg.const_value = <<>> =>
              c = [q EXCEPT !.code = "NO_CONST_VALUE_AVAILABLE"]
      BY <1>1, <1>7, Zenon DEF Args!Completed, Args!Fails
    <3> QED BY <1>3, <3>1, Zenon
  <2>2. c = Given(q, k, arg.const_value)
    BY <1>1, <1>7, <2>1, Zenon DEF Args!Completed, Given
  <2> HIDE DEF c, arg
  <2>3. /\ c.mFoundOpts = q.mFoundOpts
        /\ c.mValues[k] = arg.const_value
        /\ \A j \in 1 .. n : j # k => c.mValues[j] = q.mValues[j]
    BY <1>2, <1>4, <2>2, Zenon
  <2>4. Finished(arg, q.mFoundOpts[k], q.mValues[k], c.mValues[k])
    BY <1>2, <1>7, <2>3 DEF Finished
  <2> QED BY <2>3, <2>4 DEF c, arg
<1> QED BY <1>5, <1>6, <1>7

LEMMA CompletionFinishes ==
    ASSUME NEW p, ParserOK(p), Args!NamesAreUnique(p), NEW q \in Ends(p),
           Args!Completion(q)[Len(p.mArgs)].code = "SUCCESS"
    PROVE  /\ Args!Completion(q)[Len(p.mArgs)].mFoundOpts = q.mFoundOpts
           /\ \A i \in 1 .. Len(p.mArgs) :
                 Finished(p.mArgs[i], q.mFoundOpts[i], q.mValues[i],
                          Args!Completion(q)[Len(p.mArgs)].mValues[i])
<1> DEFINE N == Len(p.mArgs)
           V == Args!Completion(q)
           P == {k \in 0 .. N : V[k].code = "SUCCESS"}
           Done == {k \in 0 .. N :
                        /\ V[k].mFoundOpts = q.mFoundOpts
                        /\ \A i \in k + 1 .. N : V[k].mValues[i] = q.mValues[i]
                        /\ \A i \in 1 .. k : Finished(p.mArgs[i], q.mFoundOpts[i], q.mValues[i],
                                                      V[k].mValues[i])}
<1>1. N \in Nat
  BY ParserParts
<1>2. /\ V \in [0 .. N -> Ends(p)] /\ V[0] = q
      /\ \A j \in 1 .. N : V[j] = Args!Completed(V[j - 1], p.mArgs[j])
  BY CompletionRuns, Zenon
<1>3. V[N].code = "SUCCESS"
  OBVIOUS
<1> HIDE DEF V
<1>4. ASSUME NEW k \in 1 .. N, k \in P PROVE k - 1 \in P
  <2>1. k - 1 \in 0 .. N
    BY <1>1
  <2>2. V[k - 1].code # "SUCCESS" => V[k] = V[k - 1]
    BY <1>2, Zenon DEF Args!Completed
  <2> QED BY <1>4, <2>1, <2>2
<1>5. 0 .. N \subseteq P
  <2>1. N \in P
    BY <1>1, <1>3
  <2> HIDE DEF P, N
  <2> QED BY <1>1, <1>4, <2>1, AllBefore
<1>6. 0 \in Done
  BY <1>1, <1>2
<1>7. ASSUME NEW k \in 0 .. N - 1, k \in Done PROVE k + 1 \in Done
  <2>1. k + 1 \in 1 .. N /\ (k + 1) - 1 = k /\ k \in 0 .. N /\ k + 1 \in 0 .. N
    BY <1>1
  <2>2. /\ V[k].mFoundOpts = q.mFoundOpts
        /\ \A i \in k + 1 .. N : V[k].mValues[i] = q.mValues[i]
        /\ \A i \in 1 .. k : Finished(p.mArgs[i], q.mFoundOpts[i], q.mValues[i], V[k].mValues[i])
    BY <1>7
  <2>3. /\ V[k] \in Ends(p) /\ V[k].code = "SUCCESS"
        /\ V[k + 1] = Args!Completed(V[k], p.mArgs[k + 1]) /\ V[k + 1].code = "SUCCESS"
    BY <1>2, <1>5, <2>1
  <2>4. /\ V[k + 1].mFoundOpts = V[k].mFoundOpts
        /\ \A i \in 1 .. N : i # k + 1 => V[k + 1].mValues[i] = V[k].mValues[i]
        /\ Finished(p.mArgs[k + 1], V[k].mFoundOpts[k + 1], V[k].mValues[k + 1],
                    V[k + 1].mValues[k + 1])
    BY <2>1, <2>3, CompletedAlone
  <2>5. \A i \in (k + 1) + 1 .. N : i \in 1 .. N /\ i # k + 1 /\ i \in k + 1 .. N
    BY <2>1
  <2>6. \A i \in (k + 1) + 1 .. N : V[k + 1].mValues[i] = q.mValues[i]
    BY <2>2, <2>4, <2>5
  <2>7. ASSUME NEW i \in 1 .. k + 1
        PROVE  Finished(p.mArgs[i], q.mFoundOpts[i], q.mValues[i], V[k + 1].mValues[i])
    <3>1. CASE i = k + 1
      <4>1. k + 1 \in k + 1 .. N
        BY <2>1
      <4>2. V[k].mValues[i] = q.mValues[i] /\ V[k].mFoundOpts[i] = q.mFoundOpts[i]
        BY <2>2, <3>1, <4>1
      <4> QED BY <2>4, <3>1, <4>2
    <3>2. CASE i # k + 1
      <4>1. i \in 1 .. k /\ i \in 1 .. N
        BY <2>1, <3>2
      <4> QED BY <2>2, <2>4, <3>2, <4>1
    <3> QED BY <3>1, <3>2
  <2> QED BY <2>1, <2>2, <2>4, <2>6, <2>7
<1>8. 0 .. N \subseteq Done
  <2> HIDE DEF Done, N
  <2> QED BY <1>1, <1>6, <1>7, UpTo
<1>9. N \in Done /\ \A i \in 1 .. N : i \in 1 .. N
  BY <1>1, <1>8
<1> QED BY <1>9 DEF V

-----------------------------------------------------------------------------
(* What an option was described to have, of the values it ends with.       *)
OptionFits(arg, found, values) ==
    IF found THEN Args!HasNumber(arg, values) /\ TypesFit(arg, values)
    ELSE /\ values = arg.default_value
         /\ arg.required /\ arg.num_required # 0 => values # <<>>

LEMMA CountsAccepted ==
    ASSUME NEW arg \in ArgSet, Args!CountsCode(arg) = "SUCCESS"
    PROVE  /\ TypesFit(arg, arg.const_value)
           /\ arg.num_required = 0 => Len(arg.const_value) = 0
<1> DEFINE size == Len(arg.const_value)
<1>1. size \in Nat /\ arg.num_required \in Nat
  BY DEF ArgSet, Line
<1>2. size # 0 => size = arg.num_required \/ arg.num_required = 1000
  BY Zenon DEF Args!CountsCode, Args!LEAST_ONE
<1>3. CASE size = 0
  BY <1>1, <1>3 DEF TypesFit
<1>4. CASE size # 0
  <2>1. ~\E j \in 1 .. size : ~Args!param_matches_type(arg.const_value[j], arg.type)
    <3>1. (\E j \in 1 .. size : ~Args!param_matches_type(arg.const_value[j], arg.type)) =>
              Args!CountsCode(arg) \in {"INTERNAL_CONST_ARG_COUNT_MISMATCH",
                                        "INTERNAL_CONST_ARG_TYPE_MISMATCH"}
      BY <1>4, Zenon DEF Args!CountsCode
    <3> QED BY <3>1
  <2> QED BY <1>1, <1>2, <1>4, <2>1 DEF TypesFit
<1> QED BY <1>3, <1>4

LEMMA ValidatorAccepts ==
    ASSUME NEW arg \in ArgSet, NEW n \in Nat, Args!param_validator(arg, n) = "SUCCESS"
    PROVE  /\ arg.num_required = n \/ arg.num_required = 1000
           /\ n = 0 => arg.num_required = 0 \/ arg.const_value # <<>>
<1>1. arg.num_required \in Nat
  BY DEF ArgSet
<1>2. ~(arg.num_required > 0 /\ n = 0 /\ arg.const_value = <<>>)
  BY DEF Args!param_validator
<1>3. ~(arg.num_required # 1000 /\ arg.num_required > n) /\ ~(arg.num_required < n)
  BY <1>2 DEF Args!param_validator, Args!LEAST_ONE
<1> QED BY <1>1, <1>2, <1>3

LEMMA FinishedFits ==
    ASSUME NEW arg \in ArgSet, Args!CountsCode(arg) = "SUCCESS", NEW found \in BOOLEAN,
           NEW old \in Seq(Line), NEW new, Finished(arg, found, old, new),
           found => /\ TypesFit(arg, old)
                    /\ Args!param_validator(arg, Len(old)) = "SUCCESS"
    PROVE  OptionFits(arg, found, new)
<1> DEFINE n == Len(old)
<1>1. n \in Nat /\ (n = 0 <=> old = <<>>)
  OBVIOUS
<1>2. arg.const_value \in Seq(Line)
  BY DEF ArgSet
<1>3. TypesFit(arg, arg.const_value) /\ (arg.num_required = 0 => Len(arg.const_value) = 0)
  BY CountsAccepted
<1>4. CASE ~found
  BY <1>4 DEF Finished, OptionFits
<1>5. CASE found
  <2>1. /\ arg.num_required = n \/ arg.num_required = 1000
        /\ n = 0 => arg.num_required = 0 \/ arg.const_value # <<>>
    BY <1>1, <1>5, ValidatorAccepts
  <2>2. CASE old # <<>>
    <3>1. new = old
      BY <1>5, <2>2 DEF Finished
    <3> QED BY <1>5, <2>1, <2>2, <3>1 DEF OptionFits, Args!HasNumber, Args!LEAST_ONE
  <2>3. CASE old = <<>>
    <3>1. new = arg.const_value
      BY <1>5, <2>3 DEF Finished
    <3>2. arg.num_required = 0 \/ (arg.num_required = 1000 /\ arg.const_value # <<>>)
      BY <1>1, <2>1, <2>3
    <3> QED BY <1>3, <1>5, <3>1, <3>2 DEF OptionFits, Args!HasNumber, Args!LEAST_ONE
  <2> QED BY <2>2, <2>3
<1> QED BY <1>4, <1>5

-----------------------------------------------------------------------------
(* parse as a whole                                                        *)
IsParser(p) ==
    p = [mArgs |-> p.mArgs, long |-> p.long, short |-> p.short,
         mFoundOpts |-> p.mFoundOpts, mValues |-> p.mValues, code |-> p.code]

ArgsInv(p) ==
    /\ IsParser(p)
    /\ ParserOK(p)
    /\ p.code = "SUCCESS" /\ Args!NamesAreUnique(p) =>
           \A i \in 1 .. Len(p.mArgs) :
               /\ p.mValues[i] \in Seq(Line)
               /\ OptionFits(p.mArgs[i], p.mFoundOpts[i], p.mValues[i])

LEMMA SameOptions ==
    ASSUME NEW p, NEW q, q.mArgs = p.mArgs, q.long = p.long, q.short = p.short
    PROVE  /\ ParserOK(q) <=> ParserOK(p)
           /\ Args!NamesAreUnique(q) <=> Args!NamesAreUnique(p)
<1>1. ParserOK(q) <=> ParserOK(p)
  BY Zenon DEF ParserOK
<1>2. Args!NamesAreUnique(q) <=> Args!NamesAreUnique(p)
  BY Zenon DEF Args!NamesAreUnique
<1> QED BY <1>1, <1>2

Cleared(p) ==
    [mArgs |-> p.mArgs, long |-> p.long, short |-> p.short,
     mFoundOpts |-> [i \in DOMAIN p.mArgs |-> FALSE],
     mValues |-> [i \in DOMAIN p.mArgs |-> <<>>], code |-> "SUCCESS"]

LEMMA ClearedTyped ==
    ASSUME NEW p, ParserOK(p)
    PROVE  /\ ParserOK(Cleared(p)) /\ Cleared(p) \in Parsers(Cleared(p))
           /\ Cleared(p).mArgs = p.mArgs /\ Cleared(p).code = "SUCCESS"
           /\ \A i \in 1 .. Len(p.mArgs) : Cleared(p).mFoundOpts[i] = FALSE
           /\ Args!NamesAreUnique(Cleared(p)) <=> Args!NamesAreUnique(p)
<1> DEFINE n == Len(p.mArgs)
           c == Cleared(p)
<1>1. DOMAIN p.mArgs = 1 .. n /\ <<>> \in Seq(Line)
  <2> HIDE DEF ParserOK
  <2> QED BY ParserParts
<1>2. c = [mArgs |-> p.mArgs, long |-> p.long, short |-> p.short,
           mFoundOpts |-> [i \in 1 .. n |-> FALSE], mValues |-> [i \in 1 .. n |-> <<>>],
           code |-> "SUCCESS"]
  BY <1>1 DEF Cleared
<1> HIDE DEF c, ParserOK
<1>3. c.mArgs = p.mArgs /\ c.long = p.long /\ c.short = p.short /\ c.code = "SUCCESS"
  BY <1>2
<1>4. c.mFoundOpts = [i \in 1 .. n |-> FALSE]
  BY <1>2
<1>5. c \in Parsers(c)
  BY <1>1, <1>2, <1>3 DEF Parsers
<1>6. ParserOK(c) /\ (Args!NamesAreUnique(c) <=> Args!NamesAreUnique(p))
  BY <1>3, SameOptions
<1>7. \A i \in 1 .. n : c.mFoundOpts[i] = FALSE
  BY <1>4
<1> QED BY <1>3, <1>5, <1>6, <1>7 DEF c

Record(args, long, short, found, values, code) ==
    [mArgs |-> args, long |-> long, short |-> short,
     mFoundOpts |-> found, mValues |-> values, code |-> code]

LEMMA FieldsChange ==
    \A args, long, short, found, values, code, x :
        /\ [Record(args, long, short, found, values, code) EXCEPT !.code = x]
           = Record(args, long, short, found, values, x)
        /\ [Record(args, long, short, found, values, code) EXCEPT !.mFoundOpts = x]
           = Record(args, long, short, x, values, code)
        /\ [Record(args, long, short, found, values, code) EXCEPT !.mValues = x]
           = Record(args, long, short, found, x, code)
BY DEF Record

ClearedWith(p, found, values) ==
    [p EXCEPT !.code = "SUCCESS", !.mFoundOpts = found, !.mValues = values]

LEMMA RecordCleared ==
    ASSUME NEW args, NEW long, NEW short, NEW found, NEW values, NEW code, NEW f, NEW v,
           NEW p, p = Record(args, long, short, found, values, code),
           NEW c, c = Record(args, long, short, f, v, "SUCCESS")
    PROVE  ClearedWith(p, f, v) = c
<1> DEFINE a == Record(args, long, short, found, values, "SUCCESS")
           b == Record(args, long, short, f, values, "SUCCESS")
<1>1. ClearedWith(p, f, v)
      = [[[p EXCEPT !.code = "SUCCESS"] EXCEPT !.mFoundOpts = f] EXCEPT !.mValues = v]
  BY DEF ClearedWith
<1>2. [p EXCEPT !.code = "SUCCESS"] = a
  BY FieldsChange
<1>3. [a EXCEPT !.mFoundOpts = f] = b
  BY FieldsChange
<1>4. [b EXCEPT !.mValues = v] = c
  BY FieldsChange
<1> HIDE DEF a, b
<1> QED BY <1>1, <1>2, <1>3, <1>4, Zenon

LEMMA ParserCleared ==
    ASSUME NEW p, IsParser(p)
    PROVE  [p EXCEPT !.code = "SUCCESS",
              !.mFoundOpts = [i \in DOMAIN p.mArgs |-> FALSE],
              !.mValues = [i \in DOMAIN p.mArgs |-> <<>>]] = Cleared(p)
<1> DEFINE f == [i \in DOMAIN p.mArgs |-> FALSE]
           v == [i \in DOMAIN p.mArgs |-> <<>>]
           c == Cleared(p)
<1>1. p = Record(p.mArgs, p.long, p.short, p.mFoundOpts, p.mValues, p.code)
  BY Zenon DEF IsParser, Record
<1>2. c = Record(p.mArgs, p.long, p.short, f, v, "SUCCESS")
  BY Zenon DEF Cleared, Record
<1> HIDE DEF f, v, c
<1>3. PICK args, long, short, found, values, code :
          /\ p = Record(args, long, short, found, values, code)
          /\ c = Record(args, long, short, f, v, "SUCCESS")
  BY <1>1, <1>2, Zenon
<1>4. ClearedWith(p, f, v) = c
  BY <1>3, RecordCleared
<1> QED BY <1>4, Zenon DEF ClearedWith, c, f, v

(* A parse fails and says so, or the line is accepted and completed.       *)
LEMMA ParsedCases ==
    ASSUME NEW p, IsParser(p), ParserOK(p), NEW argv
    PROVE  \/ \E code : /\ code # "SUCCESS"
                        /\ Args!Parsed(p, argv) = [Cleared(p) EXCEPT !.code = code]
           \/ /\ \A i \in 1 .. Len(p.mArgs) : Args!CountsCode(p.mArgs[i]) = "SUCCESS"
              /\ Args!ValidationCode(Cleared(p), argv) = "SUCCESS"
              /\ Args!Parsed(p, argv) =
                 Args!Completion(Args!Read(Cleared(p), argv))[Len(p.mArgs)]
<1> DEFINE c == [p EXCEPT !.code = "SUCCESS",
                   !.mFoundOpts = [i \in DOMAIN p.mArgs |-> FALSE],
                   !.mValues = [i \in DOMAIN p.mArgs |-> <<>>]]
           I == {i \in 1 .. Len(p.mArgs) : Args!CountsCode(p.mArgs[i]) # "SUCCESS"}
           bad == IF I # {} THEN Args!Min(I) ELSE 0
           code == IF bad # 0 THEN Args!CountsCode(p.mArgs[bad]) ELSE Args!ValidationCode(c, argv)
<1>1. c = Cleared(p)
  BY ParserCleared, Zenon
<1>2. Args!Parsed(p, argv) =
          IF code # "SUCCESS" THEN [c EXCEPT !.code = code]
          ELSE Args!Completion(Args!Read(c, argv))[Len(p.mArgs)]
  BY Zenon DEF Args!Parsed, Args!SelectInSeq, Args!Fails
<1> HIDE DEF c
<1>3. CASE code # "SUCCESS"
  BY <1>1, <1>2, <1>3, Zenon
<1>4. CASE code = "SUCCESS"
  <2>1. I = {}
    <3> SUFFICES ASSUME I # {} PROVE FALSE
      OBVIOUS
    <3>1. I \in SUBSET Nat /\ 0 \notin I
      OBVIOUS
    <3>2. \E m \in I : \A k \in I : m <= k
      BY <3>1, LeastNumber
    <3>3. Args!Min(I) \in I
      BY <3>2, Zenon DEF Args!Min
    <3> QED BY <1>4, <3>1, <3>3
  <2>2. bad = 0 /\ \A i \in 1 .. Len(p.mArgs) : Args!CountsCode(p.mArgs[i]) = "SUCCESS"
    BY <2>1
  <2> QED BY <1>1, <1>2, <1>4, <2>2, Zenon
<1> QED BY <1>3, <1>4

LEMMA EndedIsParser ==
    ASSUME NEW p, NEW q \in Ends(p)
    PROVE  IsParser(q)
BY DEF Ends, IsParser

Keeps(q, p) ==
    IsParser(q) /\ q.mArgs = p.mArgs /\ q.long = p.long /\ q.short = p.short

LEMMA FailedIsParser ==
    ASSUME NEW p, NEW code, NEW q, q = [Cleared(p) EXCEPT !.code = code]
    PROVE  Keeps(q, p) /\ q.code = code
<1>1. PICK args, long, short, f, v :
          /\ args = p.mArgs /\ long = p.long /\ short = p.short
          /\ Cleared(p) = Record(args, long, short, f, v, "SUCCESS")
  BY Zenon DEF Cleared, Record
<1>2. [Record(args, long, short, f, v, "SUCCESS") EXCEPT !.code = code]
      = Record(args, long, short, f, v, code)
  BY FieldsChange
<1>3. q = Record(args, long, short, f, v, code)
  BY <1>1, <1>2, Zenon
<1>4. /\ IsParser(q) /\ q.mArgs = args /\ q.long = long /\ q.short = short /\ q.code = code
  <2>1. /\ q.mArgs = args /\ q.long = long /\ q.short = short
        /\ q.mFoundOpts = f /\ q.mValues = v /\ q.code = code
    BY <1>3 DEF Record
  <2> QED BY <1>3, <2>1, Zenon DEF Record, IsParser
<1> QED BY <1>1, <1>4, Zenon DEF Keeps

LEMMA EndsOfCleared ==
    ASSUME NEW p
    PROVE  Parsers(Cleared(p)) \subseteq Ends(Cleared(p))
<1>1. Cleared(p).code = "SUCCESS"
  BY DEF Cleared
<1> DEFINE c == Cleared(p)
<1> HIDE DEF c
<1>2. ASSUME c.code = "SUCCESS" PROVE Parsers(c) \subseteq Ends(c)
  BY <1>2 DEF Parsers, Ends
<1> QED BY <1>1, <1>2 DEF c

LEMMA ParsedFits ==
    ASSUME NEW p, IsParser(p), ParserOK(p), NEW argv \in Seq(Words)
    PROVE  ArgsInv(Args!Parsed(p, argv))
<1> DEFINE c == Cleared(p)
           n == Len(p.mArgs)
           r == Args!Read(c, argv)
           e == Args!Completion(r)[n]
           q == Args!Parsed(p, argv)
<1>1. /\ ParserOK(c) /\ c \in Parsers(c) /\ c.mArgs = p.mArgs /\ c.code = "SUCCESS"
      /\ \A i \in 1 .. n : c.mFoundOpts[i] = FALSE
      /\ Args!NamesAreUnique(c) <=> Args!NamesAreUnique(p)
  BY ClearedTyped
<1>2. n \in Nat
  BY ParserParts
<1>3. CASE \E code : /\ code # "SUCCESS" /\ q = [c EXCEPT !.code = code]
  <2>1. PICK code : code # "SUCCESS" /\ q = [c EXCEPT !.code = code]
    BY <1>3
  <2>2. /\ IsParser(q) /\ q.mArgs = p.mArgs /\ q.long = p.long /\ q.short = p.short
        /\ q.code # "SUCCESS"
    <3> HIDE DEF q
    <3>1. Keeps(q, p) /\ q.code = code
      BY <2>1, FailedIsParser
    <3> QED BY <2>1, <3>1, Zenon DEF Keeps
  <2> HIDE DEF q
  <2>3. ParserOK(q)
    BY <2>2, SameOptions, Zenon
  <2>4. ArgsInv(q)
    BY <2>2, <2>3, Zenon DEF ArgsInv
  <2> QED BY <2>4 DEF q
<1>4. CASE /\ \A i \in 1 .. n : Args!CountsCode(p.mArgs[i]) = "SUCCESS"
           /\ Args!ValidationCode(c, argv) = "SUCCESS"
           /\ q = e
  <2> HIDE DEF c
  <2>1. /\ r \in Parsers(c)
        /\ \A i \in 1 .. n : r.mFoundOpts[i] =>
              /\ TypesFit(p.mArgs[i], r.mValues[i])
              /\ Args!param_validator(p.mArgs[i], Len(r.mValues[i])) = "SUCCESS"
    BY <1>1, <1>4, ReadFits, Zenon
  <2>2. r \in Ends(c)
    BY <2>1, EndsOfCleared DEF c
  <2> HIDE DEF r
  <2>3. e \in Ends(c)
    <3>1. Args!Completion(r) \in [0 .. n -> Ends(c)]
      BY <1>1, <2>2, CompletionRuns, Zenon
    <3> QED BY <1>2, <3>1
  <2> HIDE DEF e
  <2>4. IsParser(e) /\ e.mArgs = c.mArgs /\ e.long = c.long /\ e.short = c.short
    BY <2>3, EndedIsParser, EndsChange, Zenon
  <2>5. ParserOK(e) /\ (Args!NamesAreUnique(e) <=> Args!NamesAreUnique(c))
    BY <1>1, <2>4, SameOptions, Zenon
  <2>6. ASSUME e.code = "SUCCESS", Args!NamesAreUnique(e), NEW i \in 1 .. n
        PROVE  OptionFits(p.mArgs[i], e.mFoundOpts[i], e.mValues[i])
    <3>1. /\ e.mFoundOpts = r.mFoundOpts
          /\ Finished(p.mArgs[i], r.mFoundOpts[i], r.mValues[i], e.mValues[i])
      BY <1>1, <2>2, <2>5, <2>6, CompletionFinishes, Zenon DEF e
    <3>2. r.mFoundOpts \in [1 .. n -> BOOLEAN] /\ r.mValues \in [1 .. n -> Seq(Line)]
      BY <1>1, <2>2, EndsChange, Zenon
    <3> DEFINE arg == p.mArgs[i]
               found == r.mFoundOpts[i]
               old == r.mValues[i]
               new == e.mValues[i]
    <3>3. arg \in ArgSet /\ found \in BOOLEAN /\ old \in Seq(Line)
      BY <3>2, OptionParts
    <3>4. /\ Args!CountsCode(arg) = "SUCCESS"
          /\ found => /\ TypesFit(arg, old)
                      /\ Args!param_validator(arg, Len(old)) = "SUCCESS"
          /\ Finished(arg, found, old, new)
      BY <1>4, <2>1, <3>1, Zenon
    <3> HIDE DEF arg, found, old, new
    <3>5. OptionFits(arg, found, new)
      BY <3>3, <3>4, FinishedFits, Zenon
    <3> QED BY <3>1, <3>5, Zenon DEF arg, found, new
  <2>7. \A i \in 1 .. n : e.mValues[i] \in Seq(Line)
    <3>1. e.mValues \in [1 .. n -> Seq(Line)]
      BY <1>1, <2>3, EndsChange, Zenon
    <3> QED BY <3>1
  <2>8. ArgsInv(e)
    BY <1>1, <2>4, <2>5, <2>6, <2>7, Zenon DEF ArgsInv
  <2> QED BY <1>4, <2>8, Zenon
<1> QED BY <1>3, <1>4, ParsedCases, Zenon

LEMMA ArgsInvInit ==
    ASSUME Args!Init
    PROVE  ArgsInv(parser)
<1>1. parser = Args!Fresh
  BY DEF Args!Init
<1>2. /\ IsParser(Args!Fresh) /\ Args!Fresh.code # "SUCCESS" /\ ParserOK(Args!Fresh)
  BY DEF Args!Fresh, IsParser, ParserOK
<1> QED BY <1>1, <1>2, Zenon DEF ArgsInv

-----------------------------------------------------------------------------
(* set_argument                                                            *)
LEMMA OptionsChange ==
    \A args, long, short, found, values, code, x :
        /\ [Record(args, long, short, found, values, code) EXCEPT !.mArgs = x]
           = Record(x, long, short, found, values, code)
        /\ [Record(args, long, short, found, values, code) EXCEPT !.long = x]
           = Record(args, x, short, found, values, code)
        /\ [Record(args, long, short, found, values, code) EXCEPT !.short = x]
           = Record(args, long, x, found, values, code)
BY DEF Record

NotParsed == ""

Redescribed(p, n, setting) ==
    [p EXCEPT !.mArgs[n] = Args!Described(@, setting), !.code = NotParsed]

LEMMA RedescribedRecord ==
    ASSUME NEW args, NEW long, NEW short, NEW found, NEW values, NEW code,
           NEW p, p = Record(args, long, short, found, values, code), NEW n, NEW setting
    PROVE  Redescribed(p, n, setting)
           = Record([args EXCEPT ![n] = Args!Described(args[n], setting)],
                    long, short, found, values, NotParsed)
<1> DEFINE d == Args!Described(args[n], setting)
           b == [args EXCEPT ![n] = d]
           q == Record(b, long, short, found, values, code)
<1>1. p.mArgs = args
  BY DEF Record
<1>2. Redescribed(p, n, setting) = [p EXCEPT !.mArgs[n] = d, !.code = NotParsed]
  BY <1>1 DEF Redescribed
<1> HIDE DEF d
<1>3. [p EXCEPT !.mArgs[n] = d, !.code = NotParsed]
      = [[p EXCEPT !.mArgs = [args EXCEPT ![n] = d]] EXCEPT !.code = NotParsed]
  BY <1>1
<1> HIDE DEF b
<1>4. [p EXCEPT !.mArgs = b] = q
  BY OptionsChange
<1>5. [q EXCEPT !.code = NotParsed] = Record(b, long, short, found, values, NotParsed)
  BY FieldsChange
<1> HIDE DEF q
<1>6. Redescribed(p, n, setting) = Record(b, long, short, found, values, NotParsed)
  BY <1>2, <1>3, <1>4, <1>5 DEF b
<1> QED BY <1>6 DEF b, d

AddedWith(p, args, long, short) ==
    [p EXCEPT !.mArgs = args, !.long = long, !.short = short]

LEMMA AddedRecord ==
    ASSUME NEW args, NEW long, NEW short, NEW found, NEW values, NEW code,
           NEW p, p = Record(args, long, short, found, values, code), NEW a, NEW l, NEW s
    PROVE  AddedWith(p, a, l, s) = Record(a, l, s, found, values, code)
<1> DEFINE b == Record(a, long, short, found, values, code)
           c == Record(a, l, short, found, values, code)
<1>1. AddedWith(p, a, l, s) = [[[p EXCEPT !.mArgs = a] EXCEPT !.long = l] EXCEPT !.short = s]
  BY DEF AddedWith
<1>2. [p EXCEPT !.mArgs = a] = b
  BY OptionsChange
<1>3. [b EXCEPT !.long = l] = c
  BY OptionsChange
<1>4. [c EXCEPT !.short = s] = Record(a, l, s, found, values, code)
  BY OptionsChange
<1> HIDE DEF b, c
<1> QED BY <1>1, <1>2, <1>3, <1>4, Zenon

LEMMA DescribedTyped ==
    ASSUME NEW arg, arg.long \in STRING, arg.short \in STRING, NEW setting \in Settings
    PROVE  /\ Args!Described(arg, setting) \in ArgSet
           /\ Args!Described(arg, setting).long = arg.long
           /\ Args!Described(arg, setting).short = arg.short
BY OptionsAreDescribed DEF Args!Described, ArgSet, Line

LEMMA Pairs ==
    ASSUME NEW A, NEW B, NEW x \in A \X B
    PROVE  x[1] \in A /\ x[2] \in B /\ x = <<x[1], x[2]>>
OBVIOUS

LEMMA PairParts ==
    ASSUME NEW name \in Names
    PROVE  /\ name[1] \in STRING /\ name[2] \in STRING
           /\ name[1] # "" \/ name[2] # ""
<1>1. name \in STRING \X STRING /\ name # <<"", "">>
  BY OptionsAreDescribed
<1>2. name[1] \in STRING /\ name[2] \in STRING /\ name = <<name[1], name[2]>>
  BY <1>1, Pairs
<1>3. name[1] # "" \/ name[2] # ""
  <2>1. SUFFICES ASSUME name[1] = "", name[2] = "" PROVE FALSE
    OBVIOUS
  <2>2. name = <<"", "">>
    BY <1>2, <2>1
  <2> QED BY <1>1, <2>2, Zenon
<1> QED BY <1>2, <1>3

LEMMA KnownIsAnOption ==
    ASSUME NEW p, ParserOK(p), NEW l, NEW s
    PROVE  Args!Known(p, l, s) \in 0 .. Len(p.mArgs)
<1>1. /\ Len(p.mArgs) \in Nat
      /\ \A x \in DOMAIN p.long : p.long[x] \in 1 .. Len(p.mArgs)
      /\ \A x \in DOMAIN p.short : p.short[x] \in 1 .. Len(p.mArgs)
  BY ParserParts
<1>2. Args!Known(p, l, s) \in {0} \cup {p.long[x] : x \in DOMAIN p.long}
                                  \cup {p.short[x] : x \in DOMAIN p.short}
  BY Zenon DEF Args!Known
<1> QED BY <1>1, <1>2

(* The options where one of them is described anew.                        *)
LEMMA KnownDescribed ==
    ASSUME NEW p, ParserOK(p), NEW n \in 1 .. Len(p.mArgs), NEW setting \in Settings,
           NEW q, q.mArgs = [p.mArgs EXCEPT ![n] = Args!Described(p.mArgs[n], setting)],
           q.long = p.long, q.short = p.short
    PROVE  ParserOK(q)
<1> DEFINE args == p.mArgs
           d == Args!Described(args[n], setting)
           N == Len(args)
<1>1. args \in Seq(ArgSet) /\ N \in Nat
  BY ParserParts
<1>2. args[n].long \in STRING /\ args[n].short \in STRING
  <2>1. args[n] \in ArgSet
    <3> HIDE DEF ParserOK
    <3> QED BY <1>1
  <2> QED BY <2>1 DEF ArgSet
<1>3. d \in ArgSet /\ d.long = args[n].long /\ d.short = args[n].short
  BY <1>2, DescribedTyped
<1>4. /\ \A x \in DOMAIN q.long : q.long[x] \in 1 .. N
      /\ \A x \in DOMAIN q.short : q.short[x] \in 1 .. N
      /\ \A i \in 1 .. N :
            /\ args[i].long # "" \/ args[i].short # ""
            /\ args[i].long # "" => args[i].long \in DOMAIN q.long
            /\ args[i].short # "" => args[i].short \in DOMAIN q.short
  BY Zenon DEF ParserOK
<1> HIDE DEF d, ParserOK
<1>5. q.mArgs = [args EXCEPT ![n] = d]
  BY DEF d
<1> HIDE DEF args
<1>6. /\ q.mArgs \in Seq(ArgSet) /\ Len(q.mArgs) = N
      /\ \A i \in 1 .. N : q.mArgs[i] = IF i = n THEN d ELSE args[i]
  BY <1>1, <1>3, <1>5 DEF args
<1>7. \A i \in 1 .. N : q.mArgs[i].long = args[i].long /\ q.mArgs[i].short = args[i].short
  BY <1>3, <1>6
<1> QED BY <1>4, <1>6, <1>7, Zenon DEF ParserOK

(* The options where a new one takes its names.                            *)
NewNames(f, name, i) == IF name # "" THEN Args!Put(f, name, i) ELSE f

Grown(f, g, N, name) ==
    /\ \A x \in DOMAIN g : g[x] \in 1 .. N + 1
    /\ DOMAIN f \subseteq DOMAIN g
    /\ name # "" => name \in DOMAIN g

LEMMA NamesAdded ==
    ASSUME NEW f, NEW N \in Nat, \A x \in DOMAIN f : f[x] \in 1 .. N, NEW name
    PROVE  Grown(f, NewNames(f, name, N + 1), N, name)
<1>1. ASSUME NEW g, DOMAIN g = DOMAIN f \cup {name},
             \A y \in DOMAIN f \cup {name} : g[y] = IF y = name THEN N + 1 ELSE f[y]
      PROVE  Grown(f, g, N, name)
  <2>1. ASSUME NEW x \in DOMAIN g PROVE g[x] \in 1 .. N + 1
    <3>1. CASE x = name
      BY <1>1, <3>1
    <3>2. CASE x # name
      <4>1. x \in DOMAIN f /\ g[x] = f[x]
        BY <1>1, <3>2
      <4> QED BY <4>1
    <3> QED BY <3>1, <3>2
  <2> QED BY <1>1, <2>1 DEF Grown
<1>2. CASE name # ""
  <2>1. NewNames(f, name, N + 1) = Args!Put(f, name, N + 1)
    BY <1>2, Zenon DEF NewNames
  <2>2. Grown(f, Args!Put(f, name, N + 1), N, name)
    <3>1. PICK g : g = Args!Put(f, name, N + 1)
      OBVIOUS
    <3>2. /\ DOMAIN g = DOMAIN f \cup {name}
          /\ \A y \in DOMAIN f \cup {name} : g[y] = IF y = name THEN N + 1 ELSE f[y]
      <4>1. g = [y \in DOMAIN f \cup {name} |-> IF y = name THEN N + 1 ELSE f[y]]
        BY <3>1, Zenon DEF Args!Put
      <4> QED BY <4>1
    <3>3. Grown(f, g, N, name)
      BY <1>1, <3>2, Zenon
    <3> QED BY <3>1, <3>3, Zenon
  <2> QED BY <2>1, <2>2, Zenon
<1>3. CASE name = ""
  <2>1. NewNames(f, name, N + 1) = f
    BY <1>3, Zenon DEF NewNames
  <2>2. Grown(f, f, N, name)
    <3>1. \A x \in DOMAIN f : f[x] \in 1 .. N + 1
      OBVIOUS
    <3>2. DOMAIN f \subseteq DOMAIN f /\ ~(name # "")
      BY <1>3
    <3> QED BY <3>1, <3>2, Zenon DEF Grown
  <2> QED BY <2>1, <2>2, Zenon
<1> QED BY <1>2, <1>3

LEMMA LastReplaced ==
    ASSUME NEW S, NEW args \in Seq(S), NEW name, NEW d \in S
    PROVE  /\ Append(args, name)[Len(args) + 1] = name
           /\ Len(Append(args, name)) = Len(args) + 1
           /\ [Append(args, name) EXCEPT ![Len(args) + 1] = d] = Append(args, d)
           /\ Append(args, d) \in Seq(S) /\ Len(Append(args, d)) = Len(args) + 1
           /\ Append(args, d)[Len(args) + 1] = d
           /\ \A i \in 1 .. Len(args) : Append(args, d)[i] = args[i]
<1> DEFINE T == S \cup {name}
<1>1. args \in Seq(T) /\ name \in T /\ d \in T
  OBVIOUS
<1> HIDE DEF T
<1>2. /\ Append(args, name) \in Seq(T) /\ Len(Append(args, name)) = Len(args) + 1
      /\ Append(args, name)[Len(args) + 1] = name
      /\ \A i \in 1 .. Len(args) : Append(args, name)[i] = args[i]
  BY <1>1
<1>3. /\ Append(args, d) \in Seq(T) /\ Len(Append(args, d)) = Len(args) + 1
      /\ Append(args, d)[Len(args) + 1] = d
      /\ \A i \in 1 .. Len(args) : Append(args, d)[i] = args[i]
  BY <1>1
<1>4. [Append(args, name) EXCEPT ![Len(args) + 1] = d] = Append(args, d)
  <2> DEFINE n == Len(args) + 1
             a == Append(args, name)
             b == Append(args, d)
  <2>1. n \in Nat \ {0} /\ Len(args) \in Nat
    OBVIOUS
  <2> HIDE DEF a, b
  <2>2. a \in [1 .. n -> T] /\ b \in [1 .. n -> T]
    <3>1. a \in Seq(T) /\ Len(a) = n /\ b \in Seq(T) /\ Len(b) = n
      BY <1>2, <1>3 DEF a, b
    <3> HIDE DEF n
    <3> QED BY <3>1
  <2>3. \A i \in 1 .. n : i # n => a[i] = args[i] /\ b[i] = args[i]
    BY <1>2, <1>3, <2>1 DEF a, b
  <2>4. b[n] = d
    BY <1>3 DEF b
  <2> HIDE DEF n
  <2>5. [a EXCEPT ![n] = d] = b
    BY <1>1, <2>2, <2>3, <2>4
  <2> QED BY <2>5 DEF a, b, n
<1>5. Append(args, d) \in Seq(S)
  OBVIOUS
<1> QED BY <1>2, <1>3, <1>4, <1>5

NewOption(p, l, s, setting, q) ==
    /\ q.mArgs = Append(p.mArgs, Args!Described([long |-> l, short |-> s], setting))
    /\ q.long = NewNames(p.long, l, Len(p.mArgs) + 1)
    /\ q.short = NewNames(p.short, s, Len(p.mArgs) + 1)

LEMMA NewDescribed ==
    ASSUME NEW p, ParserOK(p), NEW l \in STRING, NEW s \in STRING,
           l # Args!NoName \/ s # Args!NoName,
           NEW setting \in Settings, NEW q, NewOption(p, l, s, setting, q)
    PROVE  ParserOK(q)
<1>0. PICK args, name, d, N, L, T :
          /\ args = p.mArgs /\ N = Len(args)
          /\ name = [long |-> l, short |-> s] /\ d = Args!Described(name, setting)
          /\ L = q.long /\ T = q.short
  OBVIOUS
<1>1. /\ args \in Seq(ArgSet) /\ N \in Nat
      /\ \A x \in DOMAIN p.long : p.long[x] \in 1 .. N
      /\ \A x \in DOMAIN p.short : p.short[x] \in 1 .. N
  BY <1>0, ParserParts, Zenon
<1>2. d \in ArgSet /\ d.long = l /\ d.short = s
  <2>1. name.long = l /\ name.short = s
    BY <1>0
  <2>2. name.long \in STRING /\ name.short \in STRING
    BY <2>1
  <2>3. d \in ArgSet /\ d.long = name.long /\ d.short = name.short
    BY <1>0, <2>2, DescribedTyped, Zenon
  <2> QED BY <2>1, <2>3, Zenon
<1>3. \A i \in 1 .. N :
         /\ args[i].long # "" \/ args[i].short # ""
         /\ args[i].long # "" => args[i].long \in DOMAIN p.long
         /\ args[i].short # "" => args[i].short \in DOMAIN p.short
  BY <1>0, Zenon DEF ParserOK
<1>4. Grown(p.long, L, N, l) /\ Grown(p.short, T, N, s)
  BY <1>0, <1>1, NamesAdded, Zenon DEF NewOption
<1>5. /\ q.mArgs \in Seq(ArgSet) /\ Len(q.mArgs) = N + 1
      /\ q.mArgs[N + 1] = d
      /\ \A i \in 1 .. N : q.mArgs[i] = args[i]
  <2>1. q.mArgs = Append(args, d)
    BY <1>0, Zenon DEF NewOption
  <2>2. /\ Append(args, d) \in Seq(ArgSet) /\ Len(Append(args, d)) = N + 1
        /\ Append(args, d)[N + 1] = d
        /\ \A i \in 1 .. N : Append(args, d)[i] = args[i]
    <3>1. args \in Seq(ArgSet) /\ d \in ArgSet
      BY <1>1, <1>2, Zenon
    <3>2. N = Len(args)
      BY <1>0
    <3> QED BY <3>1, <3>2, LastReplaced
  <2> QED BY <2>1, <2>2, Zenon
<1>6. ASSUME NEW i \in 1 .. N + 1
      PROVE  /\ q.mArgs[i].long # "" \/ q.mArgs[i].short # ""
             /\ q.mArgs[i].long # "" => q.mArgs[i].long \in DOMAIN L
             /\ q.mArgs[i].short # "" => q.mArgs[i].short \in DOMAIN T
  <2>1. CASE i = N + 1
    <3>1. q.mArgs[i] = d
      BY <1>5, <2>1
    <3> QED BY <1>2, <1>4, <3>1, Zenon DEF Grown, Args!NoName
  <2>2. CASE i # N + 1
    <3>1. i \in 1 .. N
      <4>1. N \in Nat
        BY <1>1, Zenon
      <4> QED BY <2>2, <4>1
    <3>2. q.mArgs[i] = args[i]
      BY <1>5, <3>1, Zenon
    <3> QED BY <1>3, <1>4, <3>1, <3>2, Zenon DEF Grown
  <2> QED BY <2>1, <2>2
<1>7. /\ \A x \in DOMAIN L : L[x] \in 1 .. N + 1
      /\ \A x \in DOMAIN T : T[x] \in 1 .. N + 1
  BY <1>4, Zenon DEF Grown
<1> QED BY <1>0, <1>5, <1>6, <1>7, Zenon DEF ParserOK

Consists(q, args, long, short, code) ==
    IsParser(q) /\ q.mArgs = args /\ q.long = long /\ q.short = short /\ q.code = code

LEMMA RecordConsists ==
    ASSUME NEW args, NEW long, NEW short, NEW found, NEW values, NEW code,
           NEW q, q = Record(args, long, short, found, values, code)
    PROVE  Consists(q, args, long, short, code)
<1>1. /\ q.mArgs = args /\ q.long = long /\ q.short = short
      /\ q.mFoundOpts = found /\ q.mValues = values /\ q.code = code
  BY DEF Record
<1>2. IsParser(q)
  BY <1>1, Zenon DEF Record, IsParser
<1> QED BY <1>1, <1>2, Zenon DEF Consists

LEMMA AddedIs ==
    ASSUME NEW p, NEW l, NEW s, NEW i, i = Len(p.mArgs) + 1
    PROVE  Args!Added(p, l, s) =
           AddedWith(p, Append(p.mArgs, [long |-> l, short |-> s]),
                     NewNames(p.long, l, i), NewNames(p.short, s, i))
BY Zenon DEF Args!Added, AddedWith, NewNames, Args!NoName

(* An option, new or known, is described.                                  *)
LEMMA SetArgumentKeeps ==
    ASSUME ArgsInv(parser), NEW l \in STRING, NEW s \in STRING,
           l # Args!NoName \/ s # Args!NoName, NEW setting \in Settings,
           Args!SetArgument(l, s, setting)
    PROVE  ArgsInv(parser')
<1> DEFINE i == Args!Known(parser, l, s)
<1>1. IsParser(parser) /\ ParserOK(parser)
  BY Zenon DEF ArgsInv
<1>2. PICK args, long, short, found, values, code :
          /\ parser = Record(args, long, short, found, values, code)
          /\ parser.mArgs = args /\ parser.long = long /\ parser.short = short
  BY <1>1, Zenon DEF IsParser, Record
<1>3. args \in Seq(ArgSet) /\ Len(args) \in Nat
  BY <1>1, <1>2, ParserParts, Zenon
<1>4. PICK q, n :
          /\ i = 0 => q = Args!Added(parser, l, s) /\ n = Len(q.mArgs)
          /\ i # 0 => q = parser /\ n = i
          /\ parser' = Redescribed(q, n, setting)
  BY Zenon DEF Args!SetArgument, Redescribed, NotParsed
<1>5. ASSUME NEW r, NEW a, NEW b, NEW c, Consists(r, a, b, c, NotParsed), ParserOK(r)
      PROVE  ArgsInv(r)
  <2>1. IsParser(r) /\ r.code # "SUCCESS"
    BY <1>5, Zenon DEF Consists, NotParsed
  <2> QED BY <1>5, <2>1, Zenon DEF ArgsInv
<1>6. CASE i # 0
  <2>1. i \in 1 .. Len(args)
    <3>1. i \in 0 .. Len(args)
      BY <1>1, <1>2, KnownIsAnOption, Zenon
    <3> HIDE DEF i
    <3> QED BY <1>3, <1>6, <3>1
  <2>2. q = parser /\ n = i
    BY <1>4, <1>6, Zenon
  <2>3. PICK a : a = [args EXCEPT ![n] = Args!Described(args[n], setting)]
    OBVIOUS
  <2>4. parser' = Record(a, long, short, found, values, NotParsed)
    <3>1. Redescribed(q, n, setting) =
              Record([args EXCEPT ![n] = Args!Described(args[n], setting)],
                     long, short, found, values, NotParsed)
      BY <1>2, <2>2, RedescribedRecord
    <3> QED BY <1>4, <2>3, <3>1, Zenon
  <2>5. Consists(parser', a, long, short, NotParsed)
    BY <2>4, RecordConsists, Zenon
  <2>6. ParserOK(parser')
    <3>1. PICK r : r = parser'
      OBVIOUS
    <3>2. r.mArgs = a /\ r.long = parser.long /\ r.short = parser.short
      BY <1>2, <2>5, <3>1, Zenon DEF Consists
    <3>3. n \in 1 .. Len(parser.mArgs)
      BY <1>2, <2>1, <2>2, Zenon
    <3>4. r.mArgs = [parser.mArgs EXCEPT ![n] = Args!Described(parser.mArgs[n], setting)]
      BY <1>2, <2>3, <3>2, Zenon
    <3>5. ParserOK(r)
      BY <1>1, <3>2, <3>3, <3>4, KnownDescribed, Zenon
    <3> QED BY <3>1, <3>5, Zenon
  <2> QED BY <1>5, <2>5, <2>6, Zenon
<1>7. CASE i = 0
  <2> DEFINE N == Len(args)
  <2>1. PICK name, d, a, b, L, S :
          /\ name = [long |-> l, short |-> s] /\ d = Args!Described(name, setting)
          /\ a = Append(args, name) /\ b = Append(args, d)
          /\ L = NewNames(long, l, N + 1) /\ S = NewNames(short, s, N + 1)
    BY Zenon
  <2>2. q = Record(a, L, S, found, values, code)
    <3>1. Args!Added(parser, l, s) = AddedWith(parser, a, L, S)
      BY <1>2, <2>1, AddedIs, Zenon
    <3>2. AddedWith(parser, a, L, S) = Record(a, L, S, found, values, code)
      BY <1>2, AddedRecord
    <3> QED BY <1>4, <1>7, <3>1, <3>2, Zenon
  <2>3. /\ name.long \in STRING /\ name.short \in STRING
    BY <2>1
  <2>4. d \in ArgSet
    BY <2>1, <2>3, DescribedTyped, Zenon
  <2>5. /\ a[N + 1] = name /\ [a EXCEPT ![N + 1] = d] = b
        /\ Len(a) = N + 1
    <3>1. /\ Append(args, name)[N + 1] = name /\ Len(Append(args, name)) = N + 1
          /\ [Append(args, name) EXCEPT ![N + 1] = d] = Append(args, d)
      BY <1>3, <2>4, LastReplaced
    <3> QED BY <2>1, <3>1, Zenon
  <2>6. n = N + 1
    <3>1. q.mArgs = a
      BY <2>2 DEF Record
    <3> QED BY <1>4, <1>7, <2>5, <3>1, Zenon
  <2>7. parser' = Record(b, L, S, found, values, NotParsed)
    <3>1. Redescribed(q, n, setting) =
              Record([a EXCEPT ![n] = Args!Described(a[n], setting)], L, S, found, values, NotParsed)
      BY <2>2, RedescribedRecord
    <3> QED BY <1>4, <2>1, <2>5, <2>6, <3>1, Zenon
  <2>8. Consists(parser', b, L, S, NotParsed)
    BY <2>7, RecordConsists, Zenon
  <2>9. ParserOK(parser')
    <3>1. NewOption(parser, l, s, setting, parser')
      BY <1>2, <2>1, <2>8, Zenon DEF Consists, NewOption
    <3> QED BY <1>1, <3>1, NewDescribed, Zenon
  <2> QED BY <1>5, <2>8, <2>9, Zenon
<1> QED BY <1>6, <1>7

LEMMA LinesAreSequences ==
    ASSUME NEW argv \in Args!CommandLines
    PROVE  argv \in Seq(Words)
<1>1. PICK n \in 0 .. MaxWords : argv \in [1 .. n -> Words]
  BY DEF Args!CommandLines
<1>2. n \in Nat
  OBVIOUS
<1> QED BY <1>1, <1>2

LEMMA ParseKeeps ==
    ASSUME ArgsInv(parser), NEW argv \in Args!CommandLines, Args!Parse(argv)
    PROVE  ArgsInv(parser')
<1>1. IsParser(parser) /\ ParserOK(parser)
  BY Zenon DEF ArgsInv
<1>2. parser' = Args!Parsed(parser, argv)
  BY Zenon DEF Args!Parse
<1> QED BY <1>1, <1>2, LinesAreSequences, ParsedFits, Zenon

-----------------------------------------------------------------------------
LEMMA OneOfTwo ==
    ASSUME NEW x, NEW y, NEW z, NEW name \in {<<x, z>>, <<z, y>>} \ {<<z, z>>}
    PROVE  \/ name[1] # z /\ name[1] = x
           \/ name[1] = z /\ name[2] # z /\ name[2] = y
<1>1. CASE name = <<x, z>>
  <2>1. x # z
    BY <1>1, Zenon
  <2> QED BY <1>1, <2>1
<1>2. CASE name = <<z, y>>
  <2>1. y # z
    BY <1>2, Zenon
  <2> QED BY <1>2, <2>1
<1> QED BY <1>1, <1>2

(* An option whose names are its own is found by each of them.             *)
LEMMA LookUp ==
    ASSUME NEW p, ParserOK(p), Args!NamesAreUnique(p), NEW i \in 1 .. Len(p.mArgs),
           NEW l, NEW s,
           \/ l # Args!NoName /\ l = p.mArgs[i].long
           \/ l = Args!NoName /\ s # Args!NoName /\ s = p.mArgs[i].short
    PROVE  /\ Args!value(p, l, s) = p.mValues[i]
           /\ Args!value_exists(p, l, s) <=> p.mFoundOpts[i]
<1>1. i \in DOMAIN p.mArgs
  <2> HIDE DEF ParserOK
  <2>1. p.mArgs \in Seq(ArgSet)
    BY ParserParts, Zenon
  <2> QED BY <2>1
<1>2. /\ p.mArgs[i].long # Args!NoName => p.long[p.mArgs[i].long] = i
      /\ p.mArgs[i].short # Args!NoName => p.short[p.mArgs[i].short] = i
  BY <1>1, Zenon DEF Args!NamesAreUnique
<1>3. CASE l # Args!NoName
  <2>1. p.long[l] = i
    BY <1>2, <1>3, Zenon
  <2> QED BY <1>3, <2>1, Zenon DEF Args!value, Args!value_exists
<1>4. CASE l = Args!NoName
  <2>1. p.short[s] = i
    BY <1>2, <1>4, Zenon
  <2> QED BY <1>4, <2>1, Zenon DEF Args!value, Args!value_exists
<1> QED BY <1>3, <1>4

(* What an option was described to have, of the values a caller is given.  *)
Gives(arg, found, values) ==
    IF found
    THEN /\ Args!HasNumber(arg, values)
         /\ \A j \in DOMAIN values : Args!param_matches_type(values[j], arg.type)
    ELSE /\ values = arg.default_value
         /\ arg.required /\ arg.num_required # 0 => values # <<>>

LEMMA FitsGives ==
    ASSUME NEW arg, NEW found, NEW values \in Seq(Line), OptionFits(arg, found, values)
    PROVE  Gives(arg, found, values)
<1>1. DOMAIN values = 1 .. Len(values)
  OBVIOUS
<1> QED BY <1>1, Zenon DEF OptionFits, Gives, TypesFit

LEMMA ArgsInvFits == ArgsInv(parser) => AcceptedValuesFit
<1> SUFFICES ASSUME ArgsInv(parser), parser.code = "SUCCESS", Args!NamesAreUnique(parser),
                    NEW arg \in Args!ToSet(parser.mArgs),
                    NEW name \in {<<arg.long, Args!NoName>>, <<Args!NoName, arg.short>>}
                                 \ {<<Args!NoName, Args!NoName>>}
             PROVE  LET values == Args!value(parser, name[1], name[2])
                    IN IF Args!value_exists(parser, name[1], name[2])
                       THEN /\ Args!HasNumber(arg, values)
                            /\ \A j \in DOMAIN values :
                                   Args!param_matches_type(values[j], arg.type)
                       ELSE /\ values = arg.default_value
                            /\ arg.required /\ arg.num_required # 0 => values # <<>>
  BY Zenon DEF AcceptedValuesFit, Args!AcceptedValuesFit
<1>1. ParserOK(parser)
  BY Zenon DEF ArgsInv
<1>2. PICK i \in 1 .. Len(parser.mArgs) : arg = parser.mArgs[i]
  <2>1. parser.mArgs \in Seq(ArgSet)
    BY <1>1, ParserParts, Zenon
  <2>2. arg \in {parser.mArgs[k] : k \in DOMAIN parser.mArgs}
    BY Zenon DEF Args!ToSet
  <2> QED BY <2>1, <2>2
<1>3. \/ name[1] # Args!NoName /\ name[1] = arg.long
      \/ name[1] = Args!NoName /\ name[2] # Args!NoName /\ name[2] = arg.short
  BY OneOfTwo
<1>4. PICK l, s : l = name[1] /\ s = name[2]
  OBVIOUS
<1>5. /\ Args!value(parser, l, s) = parser.mValues[i]
      /\ Args!value_exists(parser, l, s) <=> parser.mFoundOpts[i]
  <2>1. \/ l # Args!NoName /\ l = parser.mArgs[i].long
        \/ l = Args!NoName /\ s # Args!NoName /\ s = parser.mArgs[i].short
    BY <1>2, <1>3, <1>4, Zenon
  <2> QED BY <1>1, <2>1, LookUp, Zenon
<1>6. Gives(arg, parser.mFoundOpts[i], parser.mValues[i])
  <2>1. /\ parser.mValues[i] \in Seq(Line)
        /\ OptionFits(arg, parser.mFoundOpts[i], parser.mValues[i])
    BY <1>2, Zenon DEF ArgsInv
  <2> QED BY <2>1, FitsGives, Zenon
<1>7. Gives(arg, Args!value_exists(parser, name[1], name[2]),
            Args!value(parser, name[1], name[2]))
  BY <1>4, <1>5, <1>6, Zenon DEF Gives
<1> QED BY <1>7, Zenon DEF Gives

(* A command line that parse accepts gives each option what it was         *)
(* described to have, for any options, words and lengths of lines.         *)
THEOREM AcceptedLinesFit == LibrarySpec => []AcceptedValuesFit
<1>1. LibraryInit => ArgsInv(parser)
  BY ArgsInvInit DEF LibraryInit
<1>2. ArgsInv(parser) /\ [LibraryNext]_libraryVars => ArgsInv(parser)'
  <2>1. ASSUME ArgsInv(parser), [LibraryNext]_libraryVars
        PROVE  [Args!Next]_parser
    BY <2>1 DEF LibraryNext, libraryVars, Others
  <2>2. ASSUME ArgsInv(parser), Args!Next PROVE ArgsInv(parser')
    <3>1. ASSUME NEW name \in Names, NEW setting \in Settings,
                 Args!SetArgument(name[1], name[2], setting)
          PROVE  ArgsInv(parser')
      <4>1. /\ name[1] \in STRING /\ name[2] \in STRING
            /\ name[1] # Args!NoName \/ name[2] # Args!NoName
        BY PairParts, Zenon DEF Args!NoName
      <4> QED BY <2>2, <3>1, <4>1, SetArgumentKeeps, Zenon
    <3> QED BY <2>2, <3>1, ParseKeeps, Zenon DEF Args!Next
  <2>3. ArgsInv(parser)' <=> ArgsInv(parser')
    BY Zenon DEF ArgsInv, IsParser, ParserOK, Args!NamesAreUnique
  <2> QED BY <2>1, <2>2, <2>3
<1> QED BY <1>1, <1>2, ArgsInvFits, PTL DEF LibrarySpec
=============================================================================
