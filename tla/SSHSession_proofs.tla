-------------------------- MODULE SSHSession_proofs --------------------------
(* Theorems about SSHSession: both ends stay in step, for every number of  *)
(* key exchanges, messages and services.                                   *)
EXTENDS SSHSession, SSHTransport_proofs

-----------------------------------------------------------------------------
(* The clients the theorems are about.                                     *)

\* A client with whom every part of the exchange is agreed on, that does not
\* guess, and that does not exchange keys again under delayed compression;
\* MaxPackets is out of its reach.
Conforming ==
  /\ ~WrongGuess
  /\ \A p \in Proposals : Matched(p) /\ p.ciphers
  /\ \/ MaxRekeys = 0
     \/ \A p \in Proposals : "zlib@openssh.com" \notin {p.out, p.in}
  /\ 4 * MaxRekeys + MaxExtra + 6 <= MaxPackets

-----------------------------------------------------------------------------
(* A direction of the connection.                                          *)

State(p) == [key |-> p.key, seq |-> p.seq, comp |-> p.comp]

\* The state of a direction behind a packet of type t, with strict key exchange
\* if s, and compression z.
After(d, t, s, z) ==
  [ key  |-> IF t = "NEWKEYS" THEN d.key + 1 ELSE d.key,
    seq  |-> IF t = "NEWKEYS" /\ s THEN 0 ELSE d.seq + 1,
    comp |-> IF \/ t = "NEWKEYS" /\ z = "zlib"
                \/ t \in {"LOGIN", "USERAUTH_SUCCESS"} /\ z = "zlib@openssh.com"
             THEN d.comp + 1 ELSE d.comp ]

\* The state of the i-th packet of q, or of the packet that comes behind q.
At(q, to, i) == IF i <= Len(q) THEN State(q[i]) ELSE to

\* Each packet of q is in the state the one before left, the first in state
\* from, and to is the state behind them.
Chain(q, from, to, s, z) ==
  /\ At(q, to, 1) = from
  /\ \A i \in 1..Len(q) : At(q, to, i + 1) = After(At(q, to, i), q[i].type, s, z)

\* Keys never go back, and numbers rise under the same keys.
Older(d, e) == d.key < e.key \/ (d.key = e.key /\ d.seq < e.seq)

Rising(q, to) ==
  \A i, j \in 1..(Len(q) + 1) : i < j => Older(At(q, to, i), At(q, to, j))

\* What the server has written, from its first packet on.
Stream(q, to, s, z) == Chain(q, Fresh, to, s, z) /\ Rising(q, to)

\* q2 goes on where q ends: its next packet is the one q had to come.
Extends(q, to, q2, to2) ==
  /\ Len(q) <= Len(q2)
  /\ \A i \in 1..Len(q) : q2[i] = q[i]
  /\ \A i \in 1..(Len(q) + 1) : At(q2, to2, i) = At(q, to, i)

-----------------------------------------------------------------------------
(* The server's part of the invariant.                                     *)

Last == out.wire[Len(out.wire)]

\* Nothing has been negotiated.
Unused ==
  /\ proposal = NoProposal /\ current = 0 /\ next = 0 /\ keyCount = 0
  /\ ~aliased /\ ~dhReady /\ ~sessionID /\ ~strictKex

Before == ~gotVersion /\ ~Busy /\ Unused /\ Len(out.wire) = 0

Waiting == /\ gotVersion /\ kexState = "requested" /\ Unused
           /\ Len(out.wire) = 1 /\ Last.type = "KEXINIT"

Negotiated == /\ gotVersion /\ proposal = offer
              /\ strictKex = offer.strict /\ extInfo = offer.ext

\* The client's KEXINIT is known, keys are not.
Exchanging == /\ Negotiated /\ Busy /\ next = 0 /\ keyCount = current /\ ~aliased
              /\ (sessionID <=> current # 0) /\ Len(out.wire) > 0

Agreed == Exchanging /\ ~dhReady /\ Last.type = "KEXINIT"

Group == Exchanging /\ dhReady /\ offer.kex = "gex" /\ Last.type = "GEX_GROUP"

\* The server has written NEWKEYS and the client's is to come.
KeysReady ==
  /\ Negotiated /\ Busy /\ next = current + 1 /\ keyCount = next
  /\ ~aliased /\ ~dhReady /\ sessionID /\ Len(out.wire) > 1
  /\ out.wire[Len(out.wire) - 1].type = "KEX_REPLY" /\ Last.type = "NEWKEYS"

InUse ==
  /\ Negotiated /\ ~Busy /\ current > 0 /\ next = current /\ keyCount = current
  /\ aliased /\ ~dhReady /\ sessionID /\ initialKexDone

\* Services run under keys only, and of what they send the exchange holds back
\* only data; EXT_INFO waits with it.
ServiceInv ==
  /\ current = 0 => service = "none"
  /\ ~Busy => out.blocked = << >>
  /\ \A k \in 1..Len(out.blocked) : out.blocked[k].type \in {"EXT_INFO", "SERVICE_DATA"}
  /\ \A i \in Written : out.wire[i].type \notin {"DISCONNECT", "UNIMPLEMENTED"}

\* The state of the next packet the server writes.
Coming ==
  IF Busy /\ next # 0
  THEN [ key |-> next, seq |-> out.seq,
         comp |-> IF proposal.out = "zlib" THEN outComp + 1 ELSE outComp ]
  ELSE [key |-> current, seq |-> out.seq, comp |-> outComp]

-----------------------------------------------------------------------------
(* Both ends.                                                              *)

\* The state of the next packet the client writes, where its direction begins
\* to be compressed with the answer to its login.
Following == IF progress = "tried" /\ offer.in = "zlib@openssh.com"
             THEN [cOut EXCEPT !.comp = @ + 1] ELSE cOut

InStep ==
  /\ Chain(c2s, Incoming, Following, offer.strict, offer.in)
  /\ Stream(out.wire, Coming, offer.strict, offer.out)
  /\ cIn = At(out.wire, Coming, read + 1)

\* The client's message of the method chosen, and the phase after it.
MethodSent(t) == \/ offer.kex = "gex" /\ phase = "sentGexRequest" /\ t = "GEX_REQUEST"
                 \/ offer.kex = "direct" /\ phase = "sentDh" /\ t = "KEXDH_INIT"

Outsiders == {"IGNORE", "REQUEST_USERAUTH", "LOGIN"}

Ahead(n) == read + n = Len(out.wire)      \* n packets of the server are unread

\* Where the two ends of an exchange can be.
Starting == /\ Before \/ Waiting
            /\ read = 0
            /\ \/ phase = "start" /\ Len(c2s) = 0
               \/ phase = "sentInit" /\ Len(c2s) = 1 /\ c2s[1].type = "KEXINIT"

Answering == /\ Agreed /\ phase = "sentInit" /\ Len(c2s) = 0
             /\ read < Len(out.wire)
             /\ \A i \in (read + 1)..(Len(out.wire) - 1) : out.wire[i].type \in Deferrable

Hurrying == /\ Waiting /\ Ahead(0)
            /\ Len(c2s) = 2 /\ c2s[1].type = "KEXINIT" /\ MethodSent(c2s[2].type)

Choosing == /\ Agreed /\ Ahead(0)
            /\ Len(c2s) = 1 /\ MethodSent(c2s[1].type)

Grouping == /\ Group
            /\ \/ phase = "sentGexRequest" /\ Ahead(1) /\ Len(c2s) = 0
               \/ phase = "sentDh" /\ Ahead(0) /\ Len(c2s) = 1 /\ c2s[1].type = "GEX_INIT"

Computing == KeysReady /\ phase = "sentDh" /\ Ahead(2) /\ Len(c2s) = 0

\* Where they can be otherwise: the client's NEWKEYS, if the server has not
\* read it, then what it sends outside an exchange, then perhaps a KEXINIT.
Talking ==
  LET front == IF Busy THEN 1 ELSE 0
      back  == IF phase = "sentInit" THEN 1 ELSE 0
      unread == IF phase = "sentNewKeys" THEN read + 1 ELSE read
  IN /\ KeysReady \/ InUse
     /\ phase \in {"sentNewKeys", "idle", "sentInit"}
     /\ Len(c2s) >= front + back
     /\ Busy => c2s[1].type = "NEWKEYS"
     /\ phase = "sentInit" => c2s[Len(c2s)].type = "KEXINIT"
     /\ \A i \in (front + 1)..(Len(c2s) - back) : c2s[i].type \in Outsiders
     /\ unread <= Len(out.wire)
     /\ phase = "sentNewKeys" => out.wire[unread].type = "NEWKEYS"
     /\ \A i \in (unread + 1)..Len(out.wire) : out.wire[i].type \in Deferrable

Joint == \/ Starting \/ Answering \/ Hurrying \/ Choosing \/ Grouping \/ Computing
         \/ Talking

\* The login: each of its messages is on the way once, and only while the
\* client waits for the answer.
Pending(t) == \E i \in 1..Len(c2s) : c2s[i].type = t
Unread(t)  == \E i \in (read + 1)..Len(out.wire) : out.wire[i].type = t

LoginInv ==
  /\ \A i, j \in 1..Len(c2s) :
       c2s[i].type = c2s[j].type /\ c2s[i].type \in {"REQUEST_USERAUTH", "LOGIN"} => i = j
  /\ \A i, j \in (read + 1)..Len(out.wire) :
       out.wire[i].type = "SERVICE_ACCEPT" /\ out.wire[j].type = "SERVICE_ACCEPT" => i = j
  /\ Pending("REQUEST_USERAUTH") => progress = "requested" /\ ~Unread("SERVICE_ACCEPT")
  /\ Unread("SERVICE_ACCEPT") => progress = "requested" /\ service = "userauth"
  /\ progress = "accepted" => service = "userauth"
  /\ Pending("LOGIN") => /\ progress = "tried" /\ service = "userauth"
                         /\ ~Unread("USERAUTH_SUCCESS")
  /\ Unread("USERAUTH_SUCCESS") => progress \in {"tried", "done"}
  /\ phase # "idle" => progress = IF rekeys = 0 THEN "start" ELSE "done"

\* EXT_INFO waits right behind the first NEWKEYS, or follows it.
FirstKeys ==
  /\ current = 0 /\ next = 0 => out.blocked = << >> /\ \A i \in Written : out.wire[i].type # "NEWKEYS"
  /\ current = 0 /\ next # 0 =>
       /\ \A i \in 1..(Len(out.wire) - 1) : out.wire[i].type # "NEWKEYS"
       /\ offer.ext => out.blocked # << >> /\ out.blocked[1].type = "EXT_INFO"
  /\ current > 0 /\ offer.ext => \E n \in 1..(Len(out.wire) - 1) : out.wire[n].type = "NEWKEYS"
  /\ ExtInfoFollowsNewKeys

\* The packets a client sends.
Count ==
  LET packets  == CASE phase = "start" -> 0 [] phase = "sentInit" -> 1
                      [] phase = "sentGexRequest" -> 2 [] phase = "sentDh" -> 3
                      [] OTHER -> 4
      steps == CASE progress = "start" -> 0 [] progress \in {"requested", "accepted"} -> 1
                 [] OTHER -> 2
  IN 4 * rekeys + packets + steps + extra
CountInv == received + Len(c2s) <= Count

ClientTypes ==
  /\ offer \in Proposals
  /\ c2s \in Seq(ClientPacket)
  /\ read \in 0..Len(out.wire)
  /\ phase \in Phases /\ progress \in Steps
  /\ cOut \in Direction /\ cIn \in Direction
  /\ rekeys \in 0..MaxRekeys /\ extra \in 0..MaxExtra

SessionTypes == TypeInv /\ ClientTypes

SessionInv ==
  /\ Conforming /\ SessionTypes
  /\ ServiceInv /\ InStep /\ Joint /\ LoginInv /\ FirstKeys /\ CountInv
-----------------------------------------------------------------------------
(* Streams.                                                                *)

\* A packet of either side is in a state of its direction, and so is what
\* comes behind it.
LEMMA StateType ==
  ASSUME NEW p \in Packet \cup ClientPacket PROVE State(p) \in Direction
BY DEF Packet, ClientPacket, State, Direction

LEMMA AfterType ==
  ASSUME NEW d \in Direction, NEW t, NEW s, NEW z
  PROVE  After(d, t, s, z) \in Direction /\ Older(d, After(d, t, s, z))
<1>1. d.key \in Nat /\ d.seq \in Nat /\ d.comp \in Nat
  BY DEF Direction
<1> QED
  BY <1>1 DEF After, Direction, Older

\* Appending the packet that comes next.
LEMMA AppendExtends ==
  ASSUME NEW R, NEW q \in Seq(R), NEW e \in R, NEW to2
  PROVE  LET q2 == Append(q, e)
         IN /\ q2 \in Seq(R) /\ Len(q2) = Len(q) + 1
            /\ q2[Len(q) + 1] = e
            /\ At(q2, to2, Len(q) + 2) = to2
            /\ Extends(q, State(e), q2, to2)
<1> DEFINE q2 == Append(q, e)
<1>1. /\ q2 \in Seq(R) /\ Len(q2) = Len(q) + 1
      /\ \A i \in 1..Len(q) : q2[i] = q[i]
      /\ q2[Len(q) + 1] = e
  BY AppendProperties
<1>2. Len(q) \in Nat
  OBVIOUS
<1> HIDE DEF q2
<1>3. At(q2, to2, Len(q) + 2) = to2
  BY <1>1, <1>2 DEF At
<1>4. \A i \in 1..(Len(q) + 1) : At(q2, to2, i) = At(q, State(e), i)
  <2> TAKE i \in 1..(Len(q) + 1)
  <2>1. CASE i <= Len(q)
    BY <1>1, <1>2, <2>1 DEF At
  <2>2. CASE i = Len(q) + 1
    BY <1>1, <1>2, <2>2 DEF At
  <2> QED
    BY <1>2, <2>1, <2>2
<1>5. Extends(q, State(e), q2, to2)
  BY <1>1, <1>2, <1>4 DEF Extends
<1> QED
  BY <1>1, <1>3, <1>5 DEF q2

\* The chain goes on behind a packet in the right state.
LEMMA ChainAppend ==
  ASSUME NEW R, NEW q \in Seq(R), NEW e \in R, NEW from, NEW s, NEW z,
         Chain(q, from, State(e), s, z)
  PROVE  Chain(Append(q, e), from, After(State(e), e.type, s, z), s, z)
<1> DEFINE q2  == Append(q, e)
           to2 == After(State(e), e.type, s, z)
<1>1. /\ q2 \in Seq(R) /\ Len(q2) = Len(q) + 1 /\ q2[Len(q) + 1] = e
      /\ At(q2, to2, Len(q) + 2) = to2
      /\ Extends(q, State(e), q2, to2)
  BY AppendExtends
<1>2. Len(q) \in Nat
  OBVIOUS
<1> HIDE DEF q2, to2
<1>3. At(q2, to2, 1) = from
  BY <1>1, <1>2 DEF Extends, Chain
<1>4. ASSUME NEW i \in 1..Len(q2)
      PROVE  At(q2, to2, i + 1) = After(At(q2, to2, i), q2[i].type, s, z)
  <2>1. CASE i <= Len(q)
    <3>1. i \in 1..Len(q) /\ i \in 1..(Len(q) + 1) /\ i + 1 \in 1..(Len(q) + 1)
      BY <1>2, <2>1
    <3>2. /\ q2[i] = q[i] /\ At(q2, to2, i) = At(q, State(e), i)
          /\ At(q2, to2, i + 1) = At(q, State(e), i + 1)
      BY <1>1, <3>1 DEF Extends
    <3> QED
      BY <3>1, <3>2 DEF Chain
  <2>2. CASE i = Len(q) + 1
    <3>1. At(q2, to2, i) = State(e)
      BY <1>1, <1>2, <2>2 DEF At
    <3>2. i + 1 = Len(q) + 2
      BY <1>2, <2>2
    <3> QED
      BY <1>1, <2>2, <3>1, <3>2 DEF to2
  <2> QED
    BY <1>1, <1>2, <2>1, <2>2
<1>5. Chain(q2, from, to2, s, z)
  BY <1>3, <1>4 DEF Chain
<1> QED
  BY <1>5 DEF q2, to2

\* And what is left of it behind its first packet.
LEMMA ChainTail ==
  ASSUME NEW R, NEW q \in Seq(R), q # << >>, NEW from, NEW to, NEW s, NEW z,
         Chain(q, from, to, s, z)
  PROVE  /\ State(q[1]) = from
         /\ Chain(Tail(q), After(from, q[1].type, s, z), to, s, z)
<1> DEFINE r == Tail(q)
<1>1. /\ r \in Seq(R) /\ Len(r) = Len(q) - 1
      /\ \A i \in 1..Len(r) : r[i] = q[i + 1]
  BY HeadTailProperties
<1>2. Len(q) \in Nat /\ Len(q) > 0
  BY EmptySeq
<1> HIDE DEF r
<1>3. \A i \in 1..(Len(r) + 1) : At(r, to, i) = At(q, to, i + 1)
  BY <1>1, <1>2 DEF At
<1>4. State(q[1]) = from
  BY <1>2 DEF Chain, At
<1>5. At(r, to, 1) = After(from, q[1].type, s, z)
  <2>1. 1 \in 1..Len(q) /\ 1 \in 1..(Len(r) + 1)
    BY <1>1, <1>2
  <2>2. At(r, to, 1) = At(q, to, 1 + 1)
    BY <1>3, <2>1
  <2> QED
    BY <2>1, <2>2 DEF Chain
<1>6. ASSUME NEW i \in 1..Len(r)
      PROVE  At(r, to, i + 1) = After(At(r, to, i), r[i].type, s, z)
  <2>1. /\ i \in 1..(Len(r) + 1) /\ i + 1 \in 1..(Len(r) + 1)
        /\ i + 1 \in 1..Len(q)
    BY <1>1, <1>2
  <2>2. /\ At(r, to, i) = At(q, to, i + 1)
        /\ At(r, to, i + 1) = At(q, to, (i + 1) + 1)
    BY <1>3, <2>1
  <2> QED
    BY <1>1, <2>1, <2>2 DEF Chain
<1>7. Chain(r, After(from, q[1].type, s, z), to, s, z)
  BY <1>5, <1>6 DEF Chain
<1> QED
  BY <1>4, <1>7 DEF r

\* The order of the numbers goes on with it.
LEMMA OlderTransitive ==
  ASSUME NEW d \in Direction, NEW e \in Direction, NEW f \in Direction,
         Older(d, e), Older(e, f)
  PROVE  Older(d, f)
<1>1. /\ d.key \in Nat /\ d.seq \in Nat /\ e.key \in Nat /\ e.seq \in Nat
      /\ f.key \in Nat /\ f.seq \in Nat
  BY DEF Direction
<1> QED
  BY <1>1 DEF Older

LEMMA AtType ==
  ASSUME NEW q \in Seq(Packet), NEW to \in Direction, NEW i \in 1..(Len(q) + 1)
  PROVE  At(q, to, i) \in Direction
<1>1. CASE i <= Len(q)
  <2>1. i \in 1..Len(q)
    BY <1>1
  <2>2. q[i] \in Packet
    BY <2>1
  <2> QED
    BY <1>1, <2>2, StateType DEF At
<1>2. CASE ~(i <= Len(q))
  BY <1>2 DEF At
<1> QED
  BY <1>1, <1>2

\* A stream to which packets are added in the states that come next stays one.
LEMMA RisingExtends ==
  ASSUME NEW q \in Seq(Packet), NEW to \in Direction,
         NEW q2 \in Seq(Packet), NEW to2 \in Direction,
         Rising(q, to), Extends(q, to, q2, to2),
         \A i, j \in (Len(q) + 1)..(Len(q2) + 1) :
           i < j => Older(At(q2, to2, i), At(q2, to2, j))
  PROVE  Rising(q2, to2)
<1>1. Len(q) \in Nat /\ Len(q2) \in Nat /\ Len(q) <= Len(q2)
  BY DEF Extends
<1> SUFFICES ASSUME NEW i \in 1..(Len(q2) + 1), NEW j \in 1..(Len(q2) + 1), i < j
             PROVE  Older(At(q2, to2, i), At(q2, to2, j))
  BY DEF Rising
<1> DEFINE k == Len(q) + 1
<1>2. CASE j <= k
  <2>1. i \in 1..(Len(q) + 1) /\ j \in 1..(Len(q) + 1)
    BY <1>1, <1>2
  <2>2. At(q2, to2, i) = At(q, to, i) /\ At(q2, to2, j) = At(q, to, j)
    BY <2>1 DEF Extends
  <2> QED
    BY <2>1, <2>2 DEF Rising
<1>3. CASE i >= k
  BY <1>1, <1>3
<1>4. CASE i < k /\ k < j
  <2>1. i \in 1..(Len(q) + 1) /\ k \in 1..(Len(q) + 1)
    BY <1>1, <1>4
  <2>2. At(q2, to2, i) = At(q, to, i) /\ At(q2, to2, k) = At(q, to, k)
    BY <2>1 DEF Extends
  <2>3. Older(At(q2, to2, i), At(q2, to2, k))
    BY <1>4, <2>1, <2>2 DEF Rising
  <2>4. k \in (Len(q) + 1)..(Len(q2) + 1) /\ j \in (Len(q) + 1)..(Len(q2) + 1)
    BY <1>1, <1>4
  <2>5. Older(At(q2, to2, k), At(q2, to2, j))
    BY <1>4, <2>4
  <2>6. k \in 1..(Len(q2) + 1)
    BY <1>1
  <2>7. /\ At(q2, to2, i) \in Direction /\ At(q2, to2, k) \in Direction
        /\ At(q2, to2, j) \in Direction
    BY <2>6, AtType
  <2> HIDE DEF k
  <2> QED
    BY <2>3, <2>5, <2>7, OlderTransitive
<1> QED
  BY <1>1, <1>2, <1>3, <1>4

\* sendPacket adds one packet, in the state that comes next.
LEMMA StreamAppend ==
  ASSUME NEW q \in Seq(Packet), NEW e \in Packet, NEW s, NEW z,
         Stream(q, State(e), s, z)
  PROVE  LET q2 == Append(q, e)
             to2 == After(State(e), e.type, s, z)
         IN Stream(q2, to2, s, z) /\ Extends(q, State(e), q2, to2)
<1> DEFINE q2  == Append(q, e)
           to  == State(e)
           to2 == After(to, e.type, s, z)
<1>1. to \in Direction
  BY StateType
<1>2. to2 \in Direction /\ Older(to, to2)
  BY <1>1, AfterType
<1>3. /\ q2 \in Seq(Packet) /\ Len(q2) = Len(q) + 1 /\ q2[Len(q) + 1] = e
      /\ At(q2, to2, Len(q) + 2) = to2
      /\ Extends(q, to, q2, to2)
  BY AppendExtends
<1>4. Chain(q2, Fresh, to2, s, z)
  BY ChainAppend DEF Stream
<1>5. Rising(q, to)
  BY DEF Stream
<1> HIDE DEF q2, to, to2
<1>6. Len(q) \in Nat
  OBVIOUS
<1>7. \A i, j \in (Len(q) + 1)..(Len(q2) + 1) :
        i < j => Older(At(q2, to2, i), At(q2, to2, j))
  <2> SUFFICES ASSUME NEW i \in (Len(q) + 1)..(Len(q2) + 1),
                      NEW j \in (Len(q) + 1)..(Len(q2) + 1), i < j
               PROVE  Older(At(q2, to2, i), At(q2, to2, j))
    OBVIOUS
  <2>1. i = Len(q) + 1 /\ j = Len(q) + 2
    BY <1>3, <1>6
  <2>2. At(q2, to2, i) = to
    BY <1>3, <1>6, <2>1 DEF At, to
  <2> QED
    BY <1>2, <1>3, <2>1, <2>2
<1>8. Rising(q2, to2)
  BY <1>1, <1>2, <1>3, <1>5, <1>7, RisingExtends
<1> QED
  BY <1>3, <1>4, <1>8 DEF Stream, q2, to, to2

\* Streams extend one another.
LEMMA ExtendsTransitive ==
  ASSUME NEW q \in Seq(Packet), NEW to, NEW q2 \in Seq(Packet), NEW to2,
         NEW q3 \in Seq(Packet), NEW to3,
         Extends(q, to, q2, to2), Extends(q2, to2, q3, to3)
  PROVE  Extends(q, to, q3, to3)
<1>1. Len(q) \in Nat /\ Len(q2) \in Nat /\ Len(q3) \in Nat
  OBVIOUS
<1>2. Len(q) <= Len(q2) /\ Len(q2) <= Len(q3)
  BY DEF Extends
<1>3. \A i \in 1..Len(q) : i \in 1..Len(q2)
  BY <1>1, <1>2
<1>4. \A i \in 1..(Len(q) + 1) : i \in 1..(Len(q2) + 1)
  BY <1>1, <1>2
<1> QED
  BY <1>1, <1>2, <1>3, <1>4 DEF Extends

\* The loop of _newKeys adds the messages that waited, none of them a NEWKEYS
\* or the answer to a login, under consecutive numbers.
LEMMA StreamFlush ==
  ASSUME NEW o \in OutState, NEW key \in Nat, NEW comp \in Nat, NEW s, NEW z,
         Stream(o.wire, [key |-> key, seq |-> o.seq, comp |-> comp], s, z),
         \A k \in 1..Len(o.blocked) :
           o.blocked[k].type \in {"EXT_INFO", "SERVICE_DATA"}
  PROVE  LET f   == Flush(o, key, comp)
             to  == [key |-> key, seq |-> o.seq, comp |-> comp]
             to2 == [key |-> key, seq |-> f.seq, comp |-> comp]
         IN Stream(f.wire, to2, s, z) /\ Extends(o.wire, to, f.wire, to2)
<1> DEFINE f   == Flush(o, key, comp)
           to  == [key |-> key, seq |-> o.seq, comp |-> comp]
           to2 == [key |-> key, seq |-> f.seq, comp |-> comp]
           n   == Len(o.wire)
           m   == Len(o.blocked)
           l   == Len(f.wire)
<1>1. /\ f \in OutState
      /\ f.seq = o.seq + Len(o.blocked)
      /\ f.submitted = o.submitted
      /\ f.blocked = << >>
      /\ Len(f.wire) = Len(o.wire) + Len(o.blocked)
      /\ \A i \in 1..Len(o.wire) : f.wire[i] = o.wire[i]
      /\ \A k \in 1..Len(o.blocked) :
           f.wire[Len(o.wire) + k] =
             [ type |-> o.blocked[k].type, id |-> o.blocked[k].id,
               key |-> key, seq |-> o.seq + k - 1, comp |-> comp ]
  BY FlushShape, Zenon
<1>2. /\ o.wire \in Seq(Packet) /\ o.blocked \in Seq(Held) /\ o.seq \in Nat
      /\ f.wire \in Seq(Packet) /\ f.seq \in Nat
  BY <1>1 DEF OutState
<1>3. n \in Nat /\ m \in Nat
  BY <1>2
<1>4. to \in Direction /\ to2 \in Direction
  BY <1>2 DEF Direction
<1>12. l = n + m
  BY <1>1
<1>13. /\ \A i \in 1..n : f.wire[i] = o.wire[i]
       /\ \A k \in 1..m :
            f.wire[n + k] = [ type |-> o.blocked[k].type, id |-> o.blocked[k].id,
                              key |-> key, seq |-> o.seq + k - 1, comp |-> comp ]
       /\ f.seq = o.seq + m
  BY <1>1, Zenon
<1>14. \A k \in 1..m : o.blocked[k].type \in {"EXT_INFO", "SERVICE_DATA"}
  OBVIOUS
<1> HIDE DEF f, n, m, l
<1>5. \A k \in 1..(m + 1) :
        At(f.wire, to2, n + k) = [key |-> key, seq |-> o.seq + k - 1, comp |-> comp]
  <2> TAKE k \in 1..(m + 1)
  <2>1. CASE k <= m
    <3>1. k \in 1..m
      BY <1>3, <2>1
    <3>2. f.wire[n + k] = [ type |-> o.blocked[k].type, id |-> o.blocked[k].id,
                            key |-> key, seq |-> o.seq + k - 1, comp |-> comp ]
      BY <1>13, <3>1, Zenon
    <3>3. n + k <= l
      BY <1>3, <1>12, <2>1
    <3> QED
      BY <3>2, <3>3 DEF At, State, l
  <2>2. CASE k = m + 1
    <3>1. ~(n + k <= l) /\ o.seq + m = o.seq + k - 1
      BY <1>2, <1>3, <1>12, <2>2
    <3> QED
      BY <1>13, <3>1 DEF At, l
  <2> QED
    BY <1>3, <2>1, <2>2
<1>6. Extends(o.wire, to, f.wire, to2)
  <2>1. ASSUME NEW i \in 1..(n + 1) PROVE At(f.wire, to2, i) = At(o.wire, to, i)
    <3>1. CASE i <= n
      <4>1. i \in 1..n /\ i <= l
        BY <1>3, <1>12, <3>1
      <4>2. f.wire[i] = o.wire[i]
        BY <1>13, <4>1, Zenon
      <4> QED
        BY <3>1, <4>1, <4>2 DEF At, n, l
    <3>2. CASE i = n + 1
      <4>1. 1 \in 1..(m + 1) /\ ~(i <= n) /\ o.seq + 1 - 1 = o.seq
        BY <1>2, <1>3, <3>2
      <4>2. At(f.wire, to2, n + 1) = [key |-> key, seq |-> o.seq + 1 - 1, comp |-> comp]
        BY <1>5, <4>1, Zenon
      <4> QED
        BY <3>2, <4>1, <4>2 DEF At, n
    <3> QED
      BY <1>3, <3>1, <3>2
  <2>2. n <= l
    BY <1>3, <1>12
  <2> QED
    BY <1>13, <2>1, <2>2, Zenon DEF Extends, n, l
<1>7. \A k \in 1..m : f.wire[n + k].type \in {"EXT_INFO", "SERVICE_DATA"}
  <2> TAKE k \in 1..m
  <2>1. f.wire[n + k] = [ type |-> o.blocked[k].type, id |-> o.blocked[k].id,
                          key |-> key, seq |-> o.seq + k - 1, comp |-> comp ]
    BY <1>13, Zenon
  <2> QED
    BY <1>14, <2>1
<1>8. Chain(f.wire, Fresh, to2, s, z)
  <2>1. At(f.wire, to2, 1) = Fresh
    <3>1. 1 \in 1..(n + 1)
      BY <1>3
    <3>2. At(f.wire, to2, 1) = At(o.wire, to, 1)
      BY <1>6, <3>1 DEF Extends, n
    <3> QED
      BY <3>2 DEF Stream, Chain
  <2>2. ASSUME NEW i \in 1..l
        PROVE  At(f.wire, to2, i + 1) = After(At(f.wire, to2, i), f.wire[i].type, s, z)
    <3>1. CASE i <= n
      <4>1. i \in 1..n /\ i \in 1..(n + 1) /\ i + 1 \in 1..(n + 1)
        BY <1>3, <3>1
      <4>2. /\ f.wire[i] = o.wire[i]
            /\ At(f.wire, to2, i) = At(o.wire, to, i)
            /\ At(f.wire, to2, i + 1) = At(o.wire, to, i + 1)
        BY <1>6, <4>1 DEF Extends, n
      <4> QED
        BY <4>1, <4>2 DEF Stream, Chain, n
    <3>2. CASE i > n
      <4> DEFINE k == i - n
      <4>1. /\ k \in 1..m /\ k \in 1..(m + 1) /\ k + 1 \in 1..(m + 1)
            /\ i = n + k /\ i + 1 = n + (k + 1)
        BY <1>3, <1>12, <3>2
      <4> HIDE DEF k
      <4>2. At(f.wire, to2, n + k) = [key |-> key, seq |-> o.seq + k - 1, comp |-> comp]
        BY <1>5, <4>1, Zenon
      <4>3. At(f.wire, to2, n + (k + 1)) =
              [key |-> key, seq |-> o.seq + (k + 1) - 1, comp |-> comp]
        BY <1>5, <4>1, Zenon
      <4>4. f.wire[i].type \in {"EXT_INFO", "SERVICE_DATA"}
        BY <1>7, <4>1
      <4>5. o.seq + (k + 1) - 1 = (o.seq + k - 1) + 1
        BY <1>2, <4>1
      <4> DEFINE d == [key |-> key, seq |-> o.seq + k - 1, comp |-> comp]
      <4>6. At(f.wire, to2, i) = d
        BY <4>1, <4>2
      <4>7. At(f.wire, to2, i + 1) = [key |-> key, seq |-> d.seq + 1, comp |-> comp]
        BY <4>1, <4>3, <4>5
      <4>8. After(d, f.wire[i].type, s, z) = [key |-> key, seq |-> d.seq + 1, comp |-> comp]
        BY <4>4 DEF After
      <4> QED
        BY <4>6, <4>7, <4>8
    <3> QED
      BY <1>3, <1>12, <3>1, <3>2
  <2> QED
    BY <2>1, <2>2 DEF Chain, l
<1>9. \A i, j \in (n + 1)..(l + 1) :
        i < j => Older(At(f.wire, to2, i), At(f.wire, to2, j))
  <2> SUFFICES ASSUME NEW i \in (n + 1)..(l + 1),
                      NEW j \in (n + 1)..(l + 1), i < j
               PROVE  Older(At(f.wire, to2, i), At(f.wire, to2, j))
    OBVIOUS
  <2>1. /\ i - n \in 1..(m + 1) /\ n + (i - n) = i
        /\ j - n \in 1..(m + 1) /\ n + (j - n) = j
    BY <1>3, <1>12
  <2>2. At(f.wire, to2, n + (i - n)) =
          [key |-> key, seq |-> o.seq + (i - n) - 1, comp |-> comp]
    BY <1>5, <2>1, Zenon
  <2>3. At(f.wire, to2, n + (j - n)) =
          [key |-> key, seq |-> o.seq + (j - n) - 1, comp |-> comp]
    BY <1>5, <2>1, Zenon
  <2>4. o.seq + (i - n) - 1 < o.seq + (j - n) - 1
    BY <1>2, <1>3, <2>1
  <2> QED
    BY <2>1, <2>2, <2>3, <2>4 DEF Older
<1>10. Rising(f.wire, to2)
  <2>1. Rising(o.wire, to)
    BY DEF Stream
  <2> HIDE DEF to, to2
  <2> QED
    BY <1>2, <1>4, <1>6, <1>9, <2>1, RisingExtends DEF n, l
<1>11. Stream(f.wire, to2, s, z)
  BY <1>8, <1>10 DEF Stream
<1> QED
  BY <1>6, <1>11 DEF f

-----------------------------------------------------------------------------
(* A session is a run of the transport, whatever the client.               *)

\* What the server makes of a packet is a message the transport knows.
LEMMA MeaningsType ==
  ASSUME NEW m \in ClientPacket PROVE Meanings(m) \subseteq MessageTypes
BY DEF Meanings, ClientPacket, MessageTypes

\* Every step of the session is a step of the transport or leaves it alone.
LEMMA SessionStep == ClientTypes /\ [SessionNext]_sessionVars => [Next]_vars
<1> SUFFICES ASSUME ClientTypes, [SessionNext]_sessionVars PROVE [Next]_vars
  OBVIOUS
<1>1. CASE ClientStep
  BY <1>1 DEF ClientStep, ClientKexInit, ClientLogin, ClientExtra, ClientRead
<1>2. CASE ServerReads
  <2>1. c2s # << >> /\ c2s \in Seq(ClientPacket) /\ offer \in Proposals
    BY <1>2 DEF ServerReads, ClientTypes
  <2>2. Head(c2s) \in ClientPacket
    BY <2>1, HeadTailProperties
  <2>3. PICK t \in Meanings(Head(c2s)) : Receive(t, offer)
    BY <1>2 DEF ServerReads
  <2>4. t \in MessageTypes
    BY <2>2, <2>3, MeaningsType
  <2>5. CASE t = "KEXINIT"
    BY <2>1, <2>3, <2>5 DEF Next, ReceivePacket
  <2>6. CASE t # "KEXINIT"
    <3>1. Receive(t, NoProposal)
      BY <2>3, <2>6, Zenon DEF Receive
    <3> QED
      BY <2>4, <2>6, <3>1 DEF Next, ReceivePacket
  <2> QED
    BY <2>5, <2>6
<1>3. CASE ServerActs
  BY <1>3 DEF ServerActs, Next
<1>4. CASE (Terminated /\ UNCHANGED client) \/ UNCHANGED sessionVars
  BY <1>4 DEF Terminated, sessionVars
<1> QED
  BY <1>1, <1>2, <1>3, <1>4 DEF SessionNext

\* What is written is never taken back.
LEMMA WireGrows ==
  ASSUME TypeOK, OutputStep PROVE Len(out.wire) <= Len(out'.wire)
<1> DEFINE Longer(o, f) == /\ f \in OutState
                           /\ Len(o.wire) \in Nat /\ Len(f.wire) \in Nat
                           /\ Len(o.wire) <= Len(f.wire)
<1>1. out \in OutState /\ current \in Nat
  BY DEF TypeOK
<1>2. ASSUME NEW o \in OutState, NEW key \in Nat, NEW t \in Deferrable \cup Immediate
      PROVE  Longer(o, SendPacket(o, key, t))
  <2> DEFINE f == SendPacket(o, key, t)
             w == [ type |-> t, id |-> IF t \in Deferrable THEN o.submitted + 1 ELSE 0,
                    key |-> key, seq |-> o.seq, comp |-> outComp ]
  <2>1. /\ f \in OutState
        /\ f.wire = o.wire \/ f.wire = Append(o.wire, w)
    BY SendPacketShape DEF SendPacket, HeldBack
  <2>2. o.wire \in Seq(Packet) /\ f.wire \in Seq(Packet)
    BY <2>1 DEF OutState
  <2> HIDE DEF w, f
  <2>3. Len(Append(o.wire, w)) = Len(o.wire) + 1
    BY <2>2
  <2>4. Longer(o, f)
    BY <2>1, <2>2, <2>3
  <2> QED
    BY <2>4 DEF f
<1> HIDE DEF Longer
<1>3. CASE Same
  BY <1>1, <1>3 DEF Same, OutState
<1>4. CASE Sent
  BY <1>1, <1>2, <1>4 DEF Sent, Answers, Immediate, Longer
<1>5. CASE Started
  BY <1>1, <1>2, <1>5 DEF Started, Immediate, Longer, OutState
<1>6. CASE Keyed
  <2>1. PICK inUse \in Nat : \/ out' = KeysSent(inUse)
                             \/ out' = SendPacket(KeysSent(inUse), inUse, "EXT_INFO")
    BY <1>6 DEF Keyed
  <2> DEFINE o1 == SendPacket(out, current, "KEX_REPLY")
             o2 == SendPacket(o1, inUse, "NEWKEYS")
             o3 == SendPacket(o2, inUse, "EXT_INFO")
  <2>2. Longer(out, o1)
    BY <1>1, <1>2 DEF Immediate
  <2>3. Longer(o1, o2)
    BY <1>2, <2>2 DEF Longer, Immediate
  <2>4. Longer(o2, o3)
    BY <1>2, <2>3 DEF Longer, Deferrable
  <2>5. out' = o2 \/ out' = o3
    BY <2>1 DEF KeysSent
  <2> HIDE DEF o1, o2, o3
  <2> QED
    BY <2>2, <2>3, <2>4, <2>5 DEF Longer
<1>7. CASE Ended
  <2>1. PICK key \in Nat : \E comp \in Nat : out' = Flush(out, key, comp)
    BY <1>7 DEF Ended
  <2>2. PICK comp \in Nat : out' = Flush(out, key, comp)
    BY <2>1
  <2>3. Len(out'.wire) = Len(out.wire) + Len(out.blocked) /\ out' \in OutState
    BY <1>1, <2>2, FlushShape, ZenonT(30)
  <2>4. Len(out.wire) \in Nat /\ Len(out.blocked) \in Nat
    BY <1>1 DEF OutState
  <2>5. \A n, m \in Nat : n <= n + m
    OBVIOUS
  <2> QED
    BY <2>3, <2>4, <2>5, Zenon
<1> QED
  BY <1>3, <1>4, <1>5, <1>6, <1>7 DEF OutputStep

\* What the client does keeps its variables within their types.
LEMMA SendTypes ==
  ASSUME ClientTypes, NEW t \in MessageTypes, ClientSend(t)
  PROVE  c2s' \in Seq(ClientPacket) /\ cOut' \in Direction
<1>1. /\ cOut.key \in Nat /\ cOut.seq \in Nat /\ cOut.comp \in Nat
      /\ c2s \in Seq(ClientPacket)
  BY DEF ClientTypes, Direction
<1>2. Encoded(t, cOut) \in ClientPacket
  BY <1>1 DEF Encoded, ClientPacket
<1>3. c2s' \in Seq(ClientPacket)
  BY <1>1, <1>2 DEF ClientSend
<1>4. Advance(cOut) \in Direction
  BY <1>1 DEF ClientTypes, Advance, Direction
<1>5. Rekeyed(cOut, offer.in) \in Direction
  BY <1>1 DEF Rekeyed, Direction
<1> QED
  BY <1>3, <1>4, <1>5 DEF ClientSend

LEMMA KeepsClientTypes ==
  ASSUME SessionTypes, [SessionNext]_sessionVars PROVE ClientTypes'
<1>0. TypeOK /\ VersionFirst /\ ClientTypes /\ out \in OutState
  BY DEF SessionTypes, TypeInv, TypeOK
<1>1. /\ c2s \in Seq(ClientPacket) /\ read \in 0..Len(out.wire)
      /\ cIn \in Direction /\ cOut \in Direction /\ phase \in Phases
      /\ progress \in Steps /\ rekeys \in 0..MaxRekeys /\ extra \in 0..MaxExtra
  BY <1>0 DEF ClientTypes
<1>2. /\ MaxRekeys \in Nat /\ MaxExtra \in Nat
      /\ out.wire \in Seq(Packet) /\ Len(out.wire) \in Nat
  BY <1>0, ClientAssumption DEF OutState
<1>3. ASSUME NEW d \in Direction
      PROVE  /\ Advance(d) \in Direction
             /\ \A z : Rekeyed(d, z) \in Direction
             /\ [d EXCEPT !.comp = @ + 1] \in Direction
  BY DEF Direction, Advance, Rekeyed
<1>4. CASE ClientKexInit
  <2>1. rekeys' \in 0..MaxRekeys
    BY <1>1, <1>2, <1>4 DEF ClientKexInit
  <2>2. c2s' \in Seq(ClientPacket) /\ cOut' \in Direction
    <3>1. CASE WrongGuess
      <4>1. Encoded("KEXINIT", cOut) \in ClientPacket
        BY <1>1 DEF Encoded, ClientPacket, Direction, MessageTypes
      <4>2. Advance(cOut) \in Direction
        BY <1>1, <1>3
      <4>3. Encoded("GUESS", Advance(cOut)) \in ClientPacket
        BY <4>2 DEF Encoded, ClientPacket, Direction
      <4>4. Advance(Advance(cOut)) \in Direction
        BY <1>3, <4>2
      <4>5. <<Encoded("KEXINIT", cOut), Encoded("GUESS", Advance(cOut))>>
              \in Seq(ClientPacket)
        BY <4>1, <4>3
      <4> QED
        BY <1>1, <1>4, <3>1, <4>4, <4>5, ConcatProperties DEF ClientKexInit
    <3>2. CASE ~WrongGuess
      BY <1>0, <1>4, <3>2, SendTypes DEF ClientKexInit, MessageTypes
    <3> QED
      BY <3>1, <3>2
  <2>3. phase' = "sentInit" /\ UNCHANGED <<vars, offer, read, progress, cIn, extra>>
    BY <1>4 DEF ClientKexInit
  <2> QED
    BY <1>0, <1>1, <2>1, <2>2, <2>3 DEF ClientTypes, Phases, vars
<1>5. CASE ClientLogin
  <2>1. c2s' \in Seq(ClientPacket) /\ cOut' \in Direction /\ progress' \in Steps
    BY <1>0, <1>5, SendTypes DEF ClientLogin, MessageTypes, Outside, Steps
  <2>2. UNCHANGED <<vars, offer, read, phase, cIn, rekeys, extra>>
    BY <1>5 DEF ClientLogin
  <2> QED
    BY <1>0, <2>1, <2>2 DEF ClientTypes, vars
<1>6. CASE ClientExtra
  <2>1. c2s' \in Seq(ClientPacket) /\ cOut' \in Direction
    BY <1>0, <1>6, SendTypes DEF ClientExtra, MessageTypes, Outside
  <2>2. extra' \in 0..MaxExtra
    BY <1>1, <1>2, <1>6 DEF ClientExtra
  <2>3. UNCHANGED <<vars, offer, read, phase, progress, cIn, rekeys>>
    BY <1>6 DEF ClientExtra
  <2> QED
    BY <1>0, <2>1, <2>2, <2>3 DEF ClientTypes, vars
<1>7. CASE ClientRead
  <2> DEFINE p == out.wire[read + 1]
  <2>1. /\ UNCHANGED <<vars, offer, rekeys, extra>> /\ read' = read + 1
        /\ read < Len(out.wire)
    BY <1>7 DEF ClientRead
  <2>2. read' \in 0..Len(out'.wire)
    BY <1>1, <1>2, <2>1 DEF vars
  <2>3. cIn' \in Direction
    <3>1. \/ cIn' = Rekeyed(cIn, offer.out)
          \/ cIn' = [Advance(cIn) EXCEPT !.comp = @ + 1]
          \/ cIn' = Advance(cIn)
      BY <1>7, Zenon DEF ClientRead
    <3> QED
      BY <1>1, <1>3, <3>1
  <2>4. phase' \in Phases /\ progress' \in Steps
    BY <1>1, <1>7 DEF ClientRead, Phases, Steps
  <2>5. c2s' \in Seq(ClientPacket) /\ cOut' \in Direction
    <3>1. \/ \E t \in MessageTypes : ClientSend(t)
          \/ UNCHANGED <<c2s, cOut>>
          \/ c2s' = c2s /\ cOut' = [cOut EXCEPT !.comp = @ + 1]
      BY <1>7 DEF ClientRead, MessageTypes
    <3> QED
      BY <1>0, <1>1, <1>3, <3>1, SendTypes
  <2> QED
    BY <1>0, <2>1, <2>2, <2>3, <2>4, <2>5 DEF ClientTypes, vars
<1>8. Len(out.wire) <= Len(out'.wire) /\ out' \in OutState
  BY <1>0, SessionStep, StepOutput, WireGrows, OutputType
<1>9. read \in 0..Len(out'.wire)
  <2>1. Len(out'.wire) \in Nat
    BY <1>8 DEF OutState
  <2> QED
    BY <1>1, <1>2, <1>8, <2>1
<1>10. CASE ServerReads
  <2>1. Tail(c2s) \in Seq(ClientPacket)
    BY <1>1, <1>10 DEF ServerReads
  <2> QED
    BY <1>0, <1>9, <1>10, <2>1 DEF ServerReads, ClientTypes
<1>11. CASE UNCHANGED client
  BY <1>0, <1>9, <1>11 DEF client, ClientTypes
<1> QED
  BY <1>4, <1>5, <1>6, <1>7, <1>10, <1>11
     DEF SessionNext, ClientStep, ServerActs, sessionVars

LEMMA InitTypes == SessionInit => SessionTypes
<1> SUFFICES ASSUME SessionInit PROVE SessionTypes
  OBVIOUS
<1>1. TypeInv /\ Len(out.wire) = 0
  BY InitType DEF SessionInit, Init
<1>2. ClientTypes
  BY <1>1, ClientAssumption DEF SessionInit, ClientTypes, Phases, Steps, Fresh, Direction
<1> QED
  BY <1>1, <1>2 DEF SessionTypes

LEMMA NextTypes == SessionTypes /\ [SessionNext]_sessionVars => SessionTypes'
BY SessionStep, NextType, KeepsClientTypes DEF SessionTypes

\* Both ends together are a transport that faces one of its clients: every
\* session, whatever its client offers, guesses or sends, is a run of
\* SSHTransport without its fairness, so that every safety theorem about
\* SSHTransport holds of sessions as well.
THEOREM SessionIsTransport == SessionSpec => Init /\ [][Next]_vars
<1>1. SessionSpec => []SessionTypes
  BY InitTypes, NextTypes, PTL DEF SessionSpec
<1>2. SessionTypes /\ [SessionNext]_sessionVars => [Next]_vars
  BY SessionStep DEF SessionTypes
<1>3. SessionInit => Init
  BY DEF SessionInit
<1> QED
  BY <1>1, <1>2, <1>3, PTL DEF SessionSpec

-----------------------------------------------------------------------------
(* What the server does with the next packet.                              *)

\* The parts of the invariant that say what kind of values there are.
LEMMA Kinds ==
  ASSUME SessionInv
  PROVE  /\ TypeOK /\ out \in OutState
         /\ out.wire \in Seq(Packet) /\ out.blocked \in Seq(Held) /\ out.seq \in Nat
         /\ current \in Nat /\ next \in Nat /\ keyCount \in Nat
         /\ outComp \in Nat /\ inComp \in Nat /\ inSeq \in Nat /\ received \in Nat
         /\ c2s \in Seq(ClientPacket) /\ read \in Nat /\ read <= Len(out.wire)
         /\ Len(c2s) \in Nat /\ Len(out.wire) \in Nat /\ Len(out.blocked) \in Nat
         /\ offer \in Proposals /\ offer \in Proposal /\ offer # NoProposal
         /\ Matched(offer) /\ offer.ciphers /\ offer.hostKey
         /\ offer.kex \in {"direct", "gex"}
<1>1. TypeOK /\ ClientTypes /\ Conforming
  BY DEF SessionInv, SessionTypes, TypeInv
<1>2. /\ out \in OutState /\ current \in Nat /\ next \in Nat /\ keyCount \in Nat
      /\ outComp \in Nat /\ inComp \in Nat /\ inSeq \in Nat /\ received \in Nat
  BY <1>1 DEF TypeOK
<1>3. /\ out.wire \in Seq(Packet) /\ out.blocked \in Seq(Held) /\ out.seq \in Nat
      /\ Len(out.wire) \in Nat /\ Len(out.blocked) \in Nat
  BY <1>2 DEF OutState
<1>4. /\ c2s \in Seq(ClientPacket) /\ Len(c2s) \in Nat
      /\ read \in Nat /\ read <= Len(out.wire)
  BY <1>1, <1>3 DEF ClientTypes
<1>5. /\ offer \in Proposals /\ offer \in Proposal
      /\ Matched(offer) /\ offer.ciphers
  BY <1>1, ProposalsAssumption DEF ClientTypes, Conforming
<1>6. offer.hostKey /\ offer.kex \in {"direct", "gex"} /\ offer # NoProposal
  BY <1>5 DEF Matched, Proposal, NoProposal
<1> QED
  BY <1>1, <1>2, <1>3, <1>4, <1>5, <1>6

\* Where both ends are when the server reads, and what it reads there.
Reading(t) ==
  \/ Waiting /\ Starting /\ Len(c2s) = 1 /\ phase = "sentInit" /\ t = "KEXINIT"
  \/ Hurrying /\ t = "KEXINIT"
  \/ Choosing /\ MethodSent(t)
  \/ Grouping /\ phase = "sentDh" /\ Ahead(0) /\ Len(c2s) = 1 /\ t = "GEX_INIT"
  \/ Talking /\ KeysReady /\ t = "NEWKEYS"
  \/ Talking /\ InUse /\ t \in Outsiders
  \/ Talking /\ InUse /\ Len(c2s) = 1 /\ phase = "sentInit" /\ t = "KEXINIT"

LEMMA ReadingCases ==
  ASSUME SessionInv, c2s # << >>, gotVersion
  PROVE  Reading(c2s[1].type)
<1> DEFINE t == c2s[1].type
           n == Len(c2s)
<1>1. n \in Nat /\ n > 0
  BY Kinds, EmptySeq
<1> HIDE DEF n
<1>2. Joint
  BY DEF SessionInv
<1>3. CASE Starting
  BY <1>1, <1>3 DEF Starting, Before, Reading, n
<1>4. CASE Answering \/ Computing
  BY <1>1, <1>4 DEF Answering, Computing, n
<1>5. CASE Hurrying \/ Choosing
  BY <1>5 DEF Hurrying, Choosing, Reading
<1>6. CASE Grouping
  BY <1>1, <1>6 DEF Grouping, Reading, n
<1>7. CASE Talking
  <2>1. CASE KeysReady
    BY <1>7, <2>1 DEF Talking, KeysReady, Reading
  <2>2. CASE InUse
    <3>1. /\ ~Busy
          /\ phase = "sentInit" => c2s[n].type = "KEXINIT"
          /\ \A i \in 1..(n - IF phase = "sentInit" THEN 1 ELSE 0) :
               c2s[i].type \in Outsiders
      BY <1>7, <2>2 DEF Talking, InUse, n
    <3>2. CASE phase # "sentInit"
      <4>1. 1 \in 1..(n - IF phase = "sentInit" THEN 1 ELSE 0)
        BY <1>1, <3>2
      <4> QED
        BY <1>7, <2>2, <3>1, <4>1 DEF Reading
    <3>3. CASE phase = "sentInit" /\ n > 1
      <4>1. 1 \in 1..(n - IF phase = "sentInit" THEN 1 ELSE 0)
        BY <1>1, <3>3
      <4> QED
        BY <1>7, <2>2, <3>1, <4>1 DEF Reading
    <3>4. CASE phase = "sentInit" /\ n = 1
      BY <1>7, <2>2, <3>1, <3>4 DEF Reading, n
    <3> QED
      BY <1>1, <3>2, <3>3, <3>4
  <2> QED
    BY <1>7, <2>1, <2>2 DEF Talking
<1> QED
  BY <1>2, <1>3, <1>4, <1>5, <1>6, <1>7 DEF Joint

\* The server decodes it: it takes the packet for what the client sent.
LEMMA Decodes ==
  ASSUME SessionInv, c2s # << >>
  PROVE  /\ c2s[1] = Head(c2s) /\ Head(c2s) \in ClientPacket
         /\ State(c2s[1]) = Incoming
         /\ Chain(Tail(c2s), After(Incoming, c2s[1].type, offer.strict, offer.in),
                  Following, offer.strict, offer.in)
         /\ c2s[1].type # "GUESS" => Meanings(Head(c2s)) = {c2s[1].type}
<1>1. c2s \in Seq(ClientPacket)
  BY Kinds
<1>2. c2s[1] = Head(c2s) /\ Head(c2s) \in ClientPacket
  BY <1>1, HeadTailProperties
<1>3. /\ State(c2s[1]) = Incoming
      /\ Chain(Tail(c2s), After(Incoming, c2s[1].type, offer.strict, offer.in),
               Following, offer.strict, offer.in)
  BY <1>1, ChainTail DEF SessionInv, InStep
<1>4. Agrees(c2s[1], Incoming)
  BY <1>3 DEF Agrees, State, Incoming
<1>5. c2s[1].comp = inComp
  BY <1>4 DEF Agrees, Incoming
<1> QED
  BY <1>2, <1>3, <1>4, <1>5 DEF Meanings

\* A packet sendPacket writes is the one that comes next, and the stream goes
\* on behind it.
LEMMA SendsOne ==
  ASSUME TypeOK, NEW o \in OutState, NEW key \in Nat,
         NEW t \in Deferrable \cup Immediate, ~(Busy /\ t \in Deferrable),
         NEW s, NEW z,
         Stream(o.wire, [key |-> key, seq |-> o.seq, comp |-> outComp], s, z)
  PROVE  LET f   == SendPacket(o, key, t)
             to  == [key |-> key, seq |-> o.seq, comp |-> outComp]
             to2 == After(to, t, s, z)
         IN /\ f \in OutState /\ f.blocked = o.blocked
            /\ f.seq = IF strictKex /\ t = "NEWKEYS" THEN 0 ELSE o.seq + 1
            /\ Len(f.wire) = Len(o.wire) + 1 /\ f.wire[Len(o.wire) + 1].type = t
            /\ Stream(f.wire, to2, s, z)
            /\ Extends(o.wire, to, f.wire, to2)
<1> DEFINE f   == SendPacket(o, key, t)
           to  == [key |-> key, seq |-> o.seq, comp |-> outComp]
           to2 == After(to, t, s, z)
           e   == [ type |-> t, id |-> IF t \in Deferrable THEN o.submitted + 1 ELSE 0,
                    key |-> key, seq |-> o.seq, comp |-> outComp ]
<1>1. /\ f \in OutState /\ f.blocked = o.blocked
      /\ f.seq = IF strictKex /\ t = "NEWKEYS" THEN 0 ELSE o.seq + 1
      /\ f.wire = Append(o.wire, e)
  BY SendPacketShape
<1>2. /\ o.wire \in Seq(Packet) /\ o.seq \in Nat /\ o.submitted \in Nat /\ outComp \in Nat
  BY DEF OutState, TypeOK
<1>3. e \in Packet
  BY <1>2 DEF Packet
<1>4. State(e) = to /\ e.type = t
  BY DEF State
<1> HIDE DEF f, e, to
<1>5. /\ Stream(Append(o.wire, e), to2, s, z)
      /\ Extends(o.wire, to, Append(o.wire, e), to2)
  <2>1. Stream(o.wire, State(e), s, z)
    BY <1>4 DEF to
  <2> QED
    BY <1>2, <1>3, <1>4, <2>1, StreamAppend
<1>6. Len(f.wire) = Len(o.wire) + 1 /\ f.wire[Len(o.wire) + 1] = e
  BY <1>1, <1>2, <1>3, AppendProperties
<1> QED
  BY <1>1, <1>4, <1>5, <1>6 DEF f, to

\* The fields of it, and the messages nothing holds back.
LEMMA SendsFields ==
  ASSUME TypeOK, NEW o \in OutState, NEW key \in Nat,
         NEW t \in Deferrable \cup Immediate, ~(Busy /\ t \in Deferrable)
  PROVE  /\ SendPacket(o, key, t) \in OutState
         /\ SendPacket(o, key, t).blocked = o.blocked
         /\ SendPacket(o, key, t).seq =
              IF strictKex /\ t = "NEWKEYS" THEN 0 ELSE o.seq + 1
         /\ t \notin Deferrable => SendPacket(o, key, t).submitted = o.submitted
BY SendPacketShape

LEMMA SendsHeld ==
  ASSUME TypeOK, NEW o \in OutState, NEW key \in Nat, NEW t \in Deferrable, Busy
  PROVE  /\ SendPacket(o, key, t) \in OutState
         /\ SendPacket(o, key, t).wire = o.wire
         /\ SendPacket(o, key, t).seq = o.seq
         /\ SendPacket(o, key, t).blocked =
              Append(o.blocked, [type |-> t, id |-> o.submitted + 1])
BY SendPacketShape

LEMMA Immediately ==
  \A t \in Immediate : /\ t \in Deferrable \cup Immediate
                       /\ ~(Busy /\ t \in Deferrable) /\ t \notin Deferrable
BY DEF Immediate, Deferrable

\* The server has written n packets and the stream goes on behind them.
Wrote(n) ==
  /\ Stream(out'.wire, Coming', offer.strict, offer.out)
  /\ Extends(out.wire, Coming, out'.wire, Coming')
  /\ Len(out'.wire) = Len(out.wire) + n

\* The packets it has written are of these types.
NewTypes(T) ==
  \A i \in (Len(out.wire) + 1)..Len(out'.wire) : out'.wire[i].type \in T

\* It has taken a packet of type t off its input.
Took(t) == /\ Incoming' = After(Incoming, t, offer.strict, offer.in)
           /\ received' = received + 1
           /\ gotVersion' = gotVersion

\* What it leaves alone.
SameLogin == service' = service
SameKeys  == current' = current /\ next' = next

LEMMA WroteNothing ==
  ASSUME SessionInv, out'.wire = out.wire, Coming' = Coming
  PROVE  Wrote(0) /\ NewTypes({})
<1>1. Len(out.wire) \in Nat
  BY Kinds
<1>2. Extends(out.wire, Coming, out'.wire, Coming')
  BY <1>1 DEF Extends
<1>3. Stream(out.wire, Coming, offer.strict, offer.out)
  BY DEF SessionInv, InStep
<1>4. \A n \in Nat : n + 0 = n /\ (n + 1)..n = {}
  OBVIOUS
<1> QED
  BY <1>1, <1>2, <1>3, <1>4 DEF Wrote, NewTypes

LEMMA WroteOne ==
  ASSUME SessionInv, NEW t \in Deferrable \cup Immediate, ~(Busy /\ t \in Deferrable),
         out'.wire = SendPacket(out, current, t).wire,
         Coming = [key |-> current, seq |-> out.seq, comp |-> outComp],
         Coming' = After(Coming, t, offer.strict, offer.out)
  PROVE  /\ Wrote(1) /\ NewTypes({t})
         /\ Len(out.wire) + 1 = Len(out'.wire) /\ out'.wire[Len(out'.wire)].type = t
<1> DEFINE f == SendPacket(out, current, t)
<1>1. /\ TypeOK /\ out \in OutState /\ current \in Nat /\ Len(out.wire) \in Nat
  BY Kinds
<1>2. Stream(out.wire, [key |-> current, seq |-> out.seq, comp |-> outComp],
             offer.strict, offer.out)
  BY DEF SessionInv, InStep
<1>3. /\ Len(f.wire) = Len(out.wire) + 1 /\ f.wire[Len(out.wire) + 1].type = t
      /\ Stream(f.wire, Coming', offer.strict, offer.out)
      /\ Extends(out.wire, Coming, f.wire, Coming')
  BY <1>1, <1>2, SendsOne
<1> HIDE DEF f
<1>4. f.wire = out'.wire
  BY DEF f
<1>5. \A n \in Nat : (n + 1)..(n + 1) = {n + 1}
  OBVIOUS
<1>6. NewTypes({t})
  BY <1>1, <1>3, <1>4, <1>5 DEF NewTypes
<1> QED
  BY <1>3, <1>4, <1>6 DEF Wrote

-----------------------------------------------------------------------------
(* The server's handlers, one transition each.                             *)

\* After a message that changes neither keys nor compression.
LEMMA TookPlain ==
  ASSUME NEW t, t \notin {"NEWKEYS", "LOGIN", "USERAUTH_SUCCESS"}, Decoded,
         current' = current, inComp' = inComp, gotVersion' = gotVersion
  PROVE  Took(t)
BY DEF Took, Decoded, GetPacket, Incoming, After

\* The KEXINIT the server waits for.
LEMMA HearsKexInit ==
  ASSUME SessionInv, Waiting, offer' = offer, Receive("KEXINIT", offer)
  PROVE  /\ Agreed' /\ transport' = transport /\ Took("KEXINIT")
         /\ Wrote(0) /\ NewTypes({}) /\ Len(out'.wire) = Len(out.wire)
         /\ SameLogin /\ SameKeys /\ out'.blocked = out.blocked
<1>1. /\ TypeOK /\ Matched(offer) /\ offer \in Proposal
  BY Kinds
<1>2. ReceiveKexInit(offer)
  BY DEF Receive, Outside, Waiting, RejectKexInit
<1>3. /\ proposal' = offer /\ next' = 0 /\ aliased' = FALSE /\ extInfo' = offer.ext
      /\ strictKex' = Strict(offer) /\ kexState' = "progressing" /\ out' = out
      /\ transport' = transport
      /\ UNCHANGED <<gotVersion, sessionID, dhReady, current, keyCount, comps, login>>
      /\ Decoded
  BY <1>1, <1>2 DEF ReceiveKexInit, Waiting
<1>4. strictKex' = offer.strict
  BY <1>1, <1>3 DEF Strict, Waiting, Unused, Proposal
<1>5. Agreed'
  BY <1>3, <1>4 DEF Agreed, Exchanging, Negotiated, Busy, Waiting, Unused, Last
<1>6. Took("KEXINIT")
  BY <1>3, TookPlain DEF comps
<1>7. Coming' = Coming
  BY <1>3 DEF Coming, Waiting, Unused, comps
<1>8. Wrote(0) /\ NewTypes({})
  BY <1>3, <1>7, WroteNothing
<1> QED
  BY <1>3, <1>5, <1>6, <1>8 DEF SameLogin, SameKeys, Waiting, Unused, login

\* A KEXINIT out of the blue: the server answers with its own.
LEMMA AnswersKexInit ==
  ASSUME SessionInv, InUse, offer' = offer, Receive("KEXINIT", offer)
  PROVE  /\ Agreed' /\ transport' = transport /\ Took("KEXINIT")
         /\ Wrote(1) /\ NewTypes({"KEXINIT"})
         /\ SameLogin /\ current' = current /\ out'.blocked = << >>
<1>1. /\ TypeOK /\ Matched(offer) /\ offer \in Proposal /\ out \in OutState
      /\ current \in Nat /\ Len(out.wire) \in Nat
  BY Kinds
<1>2. kexState = "none"
  BY DEF InUse, Busy
<1>3. ReceiveKexInit(offer)
  BY <1>2 DEF Receive, Outside, RejectKexInit
<1>4. /\ proposal' = offer /\ next' = 0 /\ aliased' = FALSE /\ extInfo' = offer.ext
      /\ strictKex' = Strict(offer) /\ SendKexInit
      /\ transport' = transport
      /\ UNCHANGED <<gotVersion, sessionID, dhReady, current, keyCount, comps, login>>
      /\ Decoded
  BY <1>1, <1>2, <1>3 DEF ReceiveKexInit
<1>5. /\ out' = [SendPacket(out, current, "KEXINIT") EXCEPT !.blocked = << >>]
      /\ kexState' = "requested"
  BY <1>4 DEF SendKexInit
<1>6. /\ SendPacket(out, current, "KEXINIT") \in OutState
      /\ SendPacket(out, current, "KEXINIT").seq = out.seq + 1
  <2>1. "KEXINIT" \in Immediate
    BY DEF Immediate
  <2> QED
    BY <1>1, <2>1, Immediately, SendsFields
<1>7. /\ out'.wire = SendPacket(out, current, "KEXINIT").wire
      /\ out'.blocked = << >> /\ out'.seq = out.seq + 1
  BY <1>5, <1>6 DEF OutState
<1>8. /\ Coming = [key |-> current, seq |-> out.seq, comp |-> outComp]
      /\ Coming' = After(Coming, "KEXINIT", offer.strict, offer.out)
  BY <1>2, <1>4, <1>7 DEF Coming, After, Busy, comps
<1>9. /\ Wrote(1) /\ NewTypes({"KEXINIT"})
      /\ Len(out.wire) + 1 = Len(out'.wire) /\ out'.wire[Len(out'.wire)].type = "KEXINIT"
  BY <1>7, <1>8, WroteOne DEF Immediate, Deferrable
<1>10. strictKex' = offer.strict
  BY <1>1, <1>4 DEF Strict, InUse, Negotiated, Proposal
<1>11. Len(out'.wire) > 0
  BY <1>1, <1>9
<1>12. Agreed'
  BY <1>4, <1>5, <1>9, <1>10, <1>11
     DEF Agreed, Exchanging, Negotiated, Busy, InUse, Last
<1>13. Took("KEXINIT")
  BY <1>4, TookPlain DEF comps
<1> QED
  BY <1>4, <1>7, <1>9, <1>12, <1>13 DEF SameLogin, login

\* A group request.
LEMMA AnswersGroup ==
  ASSUME SessionInv, Agreed, offer.kex = "gex", offer' = offer,
         Receive("GEX_REQUEST", offer)
  PROVE  /\ Group' /\ transport' = transport /\ Took("GEX_REQUEST")
         /\ Wrote(1) /\ NewTypes({"GEX_GROUP"}) /\ Len(out'.wire) = Len(out.wire) + 1
         /\ SameLogin /\ SameKeys /\ out'.blocked = out.blocked
<1>1. /\ TypeOK /\ out \in OutState /\ current \in Nat /\ Len(out.wire) \in Nat
  BY Kinds
<1>2. ReceiveGexRequest
  BY DEF Receive, Outside
<1>3. /\ Decoded /\ dhReady' = TRUE /\ out' = SendPacket(out, current, "GEX_GROUP")
      /\ UNCHANGED <<transport, gotVersion, negotiated, kexState, sessionID, keys,
                     comps, login>>
  BY <1>2 DEF ReceiveGexRequest, Reply
<1>4. out'.seq = out.seq + 1 /\ out'.blocked = out.blocked
  <2>1. "GEX_GROUP" \in Immediate
    BY DEF Immediate
  <2> QED
    BY <1>1, <1>3, <2>1, Immediately, SendsFields
<1>5. /\ Coming = [key |-> current, seq |-> out.seq, comp |-> outComp]
      /\ Coming' = After(Coming, "GEX_GROUP", offer.strict, offer.out)
  BY <1>3, <1>4 DEF Coming, After, Agreed, Exchanging, comps, keys
<1>6. /\ Wrote(1) /\ NewTypes({"GEX_GROUP"})
      /\ Len(out.wire) + 1 = Len(out'.wire) /\ out'.wire[Len(out'.wire)].type = "GEX_GROUP"
  BY <1>3, <1>5, WroteOne DEF Immediate, Deferrable
<1>7. Len(out'.wire) > 0
  BY <1>1, <1>6
<1>8. Group'
  BY <1>3, <1>6, <1>7 DEF Agreed, Group, Exchanging, Negotiated, Busy, Last, keys, negotiated
<1>9. Took("GEX_REQUEST")
  BY <1>3, TookPlain DEF comps, keys
<1> QED
  BY <1>3, <1>4, <1>6, <1>8, <1>9 DEF SameLogin, SameKeys, keys, login

\* What the first keys of a client that asked for EXT_INFO leave waiting.
Announced == IF AnnounceExtensions
             THEN Append(out.blocked, [type |-> "EXT_INFO", id |-> out.submitted + 1])
             ELSE out.blocked

\* The client's public value: reply, NEWKEYS, and EXT_INFO, which has to wait.
LEMMA ComputesKeys ==
  ASSUME SessionInv, Exchanging, offer' = offer, NEW t,
         t \notin {"NEWKEYS", "LOGIN", "USERAUTH_SUCCESS"}, Decoded,
         KeySetup("KEX_REPLY"), ~dhReady'
  PROVE  /\ KeysReady' /\ transport' = transport /\ Took(t)
         /\ Wrote(2) /\ NewTypes({"KEX_REPLY", "NEWKEYS"})
         /\ SameLogin /\ current' = current /\ next' # 0
         /\ out'.wire[Len(out.wire) + 2].type = "NEWKEYS"
         /\ out'.wire[Len(out.wire) + 1].type = "KEX_REPLY"
         /\ out'.blocked = Announced
<1> DEFINE o1 == SendPacket(out, current, "KEX_REPLY")
           o2 == SendPacket(o1, current, "NEWKEYS")
           to1 == After(Coming, "KEX_REPLY", offer.strict, offer.out)
           to2 == After(to1, "NEWKEYS", offer.strict, offer.out)
<1>1. /\ TypeOK /\ out \in OutState /\ current \in Nat /\ Len(out.wire) \in Nat
      /\ out.seq \in Nat /\ offer \in Proposal /\ outComp \in Nat /\ out.wire \in Seq(Packet)
  BY Kinds
<1>2. /\ ~aliased /\ keyCount = current /\ next = 0 /\ Busy /\ strictKex = offer.strict
      /\ proposal = offer
  BY DEF Exchanging, Negotiated
<1>3. /\ keyCount' = current + 1 /\ next' = current + 1 /\ current' = current
      /\ sessionID' = TRUE
      /\ out' = IF AnnounceExtensions THEN SendPacket(o2, current, "EXT_INFO") ELSE o2
      /\ UNCHANGED <<transport, gotVersion, negotiated, kexState, aliased, comps, login>>
  BY <1>2 DEF KeySetup
<1>4. Coming = [key |-> current, seq |-> out.seq, comp |-> outComp]
  BY <1>2 DEF Coming
<1>5. Stream(out.wire, [key |-> current, seq |-> out.seq, comp |-> outComp],
             offer.strict, offer.out)
  BY <1>4 DEF SessionInv, InStep
<1>6. /\ o1 \in OutState /\ o1.blocked = out.blocked /\ o1.seq = out.seq + 1
      /\ Len(o1.wire) = Len(out.wire) + 1 /\ o1.wire[Len(out.wire) + 1].type = "KEX_REPLY"
      /\ Stream(o1.wire, to1, offer.strict, offer.out)
      /\ Extends(out.wire, Coming, o1.wire, to1)
  <2>1. "KEX_REPLY" \in Immediate /\ ~("KEX_REPLY" = "NEWKEYS")
    BY DEF Immediate
  <2>2. /\ "KEX_REPLY" \in Deferrable \cup Immediate
        /\ ~(Busy /\ "KEX_REPLY" \in Deferrable)
    BY <2>1, Immediately
  <2> DEFINE to == [key |-> current, seq |-> out.seq, comp |-> outComp]
             to3 == After(to, "KEX_REPLY", offer.strict, offer.out)
  <2>3. /\ o1 \in OutState /\ o1.blocked = out.blocked
        /\ o1.seq = IF strictKex /\ "KEX_REPLY" = "NEWKEYS" THEN 0 ELSE out.seq + 1
        /\ Len(o1.wire) = Len(out.wire) + 1 /\ o1.wire[Len(out.wire) + 1].type = "KEX_REPLY"
        /\ Stream(o1.wire, to3, offer.strict, offer.out)
        /\ Extends(out.wire, to, o1.wire, to3)
    BY <1>1, <1>5, <2>2, SendsOne, Zenon
  <2>4. Coming = to
    BY <1>4
  <2> HIDE DEF o1, to
  <2> QED
    BY <2>1, <2>3, <2>4
<1>7. to1 = [key |-> current, seq |-> o1.seq, comp |-> outComp]
  BY <1>4, <1>6 DEF After
<1> HIDE DEF o1, to1
<1>8. /\ o2 \in OutState /\ o2.blocked = o1.blocked
      /\ o2.seq = IF strictKex THEN 0 ELSE o1.seq + 1
      /\ Len(o2.wire) = Len(o1.wire) + 1 /\ o2.wire[Len(o1.wire) + 1].type = "NEWKEYS"
      /\ Stream(o2.wire, to2, offer.strict, offer.out)
      /\ Extends(o1.wire, to1, o2.wire, to2)
  <2>1. "NEWKEYS" \in Immediate
    BY DEF Immediate
  <2>2. /\ "NEWKEYS" \in Deferrable \cup Immediate
        /\ ~(Busy /\ "NEWKEYS" \in Deferrable)
    BY <2>1, Immediately
  <2> DEFINE to == [key |-> current, seq |-> o1.seq, comp |-> outComp]
             to3 == After(to, "NEWKEYS", offer.strict, offer.out)
  <2>3. Stream(o1.wire, to, offer.strict, offer.out)
    BY <1>6, <1>7
  <2>4. /\ o2 \in OutState /\ o2.blocked = o1.blocked
        /\ o2.seq = IF strictKex /\ "NEWKEYS" = "NEWKEYS" THEN 0 ELSE o1.seq + 1
        /\ Len(o2.wire) = Len(o1.wire) + 1 /\ o2.wire[Len(o1.wire) + 1].type = "NEWKEYS"
        /\ Stream(o2.wire, to3, offer.strict, offer.out)
        /\ Extends(o1.wire, to, o2.wire, to3)
    BY <1>1, <1>6, <2>2, <2>3, SendsOne, Zenon
  <2>5. to1 = to
    BY <1>7
  <2> HIDE DEF o2, to
  <2> QED
    BY <2>4, <2>5
<1>9. o2.submitted = out.submitted
  <2>1. "KEX_REPLY" \in Immediate /\ "NEWKEYS" \in Immediate
    BY DEF Immediate
  <2>2. o1.submitted = out.submitted
    BY <1>1, <2>1, Immediately, SendsFields DEF o1
  <2> QED
    BY <1>1, <1>6, <2>1, <2>2, Immediately, SendsFields
<1> HIDE DEF o2
<1>10. /\ out' \in OutState /\ out'.wire = o2.wire /\ out'.seq = o2.seq
       /\ out'.blocked = Announced
  <2>1. CASE AnnounceExtensions
    <3>1. "EXT_INFO" \in Deferrable
      BY DEF Deferrable
    <3>2. out' = SendPacket(o2, current, "EXT_INFO")
      BY <1>3, <2>1
    <3>3. /\ out' \in OutState /\ out'.wire = o2.wire /\ out'.seq = o2.seq
          /\ out'.blocked = Append(o2.blocked, [type |-> "EXT_INFO", id |-> o2.submitted + 1])
      BY <1>1, <1>2, <1>8, <3>1, <3>2, SendsHeld
    <3> QED
      BY <1>6, <1>8, <1>9, <2>1, <3>3 DEF Announced
  <2>2. CASE ~AnnounceExtensions
    BY <1>3, <1>6, <1>8, <2>2 DEF Announced
  <2> QED
    BY <2>1, <2>2
<1>11. Coming' = to2
  <2>1. Coming' = [ key |-> current + 1, seq |-> out'.seq,
                    comp |-> IF offer.out = "zlib" THEN outComp + 1 ELSE outComp ]
    BY <1>1, <1>2, <1>3 DEF Coming, Busy, negotiated, comps
  <2> QED
    BY <1>2, <1>7, <1>8, <1>10, <2>1 DEF After
<1>12. Len(out'.wire) = Len(out.wire) + 2 /\ Len(o1.wire) + 1 = Len(out.wire) + 2
  BY <1>1, <1>6, <1>8, <1>10
<1>13. /\ out'.wire[Len(out.wire) + 2].type = "NEWKEYS"
       /\ out'.wire[Len(out.wire) + 1].type = "KEX_REPLY"
  <2>1. Len(out.wire) + 1 \in 1..Len(o1.wire)
    BY <1>1, <1>6
  <2>2. o2.wire[Len(out.wire) + 1] = o1.wire[Len(out.wire) + 1]
    BY <1>8, <2>1 DEF Extends
  <2> QED
    BY <1>6, <1>8, <1>10, <1>12, <2>2
<1>14. Extends(out.wire, Coming, out'.wire, Coming')
  <2>1. o1.wire \in Seq(Packet) /\ o2.wire \in Seq(Packet)
    BY <1>6, <1>8 DEF OutState
  <2> QED
    BY <1>1, <1>6, <1>8, <1>10, <1>11, <2>1, ExtendsTransitive
<1>15. Wrote(2)
  BY <1>8, <1>10, <1>11, <1>12, <1>14 DEF Wrote
<1>16. NewTypes({"KEX_REPLY", "NEWKEYS"})
  <2>1. \A n \in Nat : \A i \in (n + 1)..(n + 2) : i = n + 1 \/ i = n + 2
    OBVIOUS
  <2> QED
    BY <1>1, <1>12, <1>13, <2>1 DEF NewTypes
<1>17. Len(out'.wire) > 1 /\ Len(out'.wire) - 1 = Len(out.wire) + 1
  BY <1>1, <1>12
<1>18. KeysReady'
  <2>1. Negotiated' /\ Busy' /\ next' = current' + 1 /\ keyCount' = next'
        /\ ~aliased' /\ ~dhReady' /\ sessionID'
    BY <1>2, <1>3 DEF Exchanging, Negotiated, Busy, negotiated
  <2> QED
    BY <1>12, <1>13, <1>17, <2>1 DEF KeysReady, Last
<1>19. Took(t)
  BY <1>3, TookPlain DEF comps
<1> QED
  BY <1>1, <1>3, <1>10, <1>13, <1>15, <1>16, <1>18, <1>19 DEF SameLogin, login

\* The client's NEWKEYS: the keys are taken into use and what waited is written.
LEMMA SwitchesKeys ==
  ASSUME SessionInv, KeysReady, offer' = offer, Receive("NEWKEYS", offer)
  PROVE  /\ InUse' /\ transport' = transport /\ Took("NEWKEYS")
         /\ Wrote(Len(out.blocked)) /\ NewTypes({"EXT_INFO", "SERVICE_DATA"})
         /\ out.blocked # << >> =>
              out'.wire[Len(out.wire) + 1].type = out.blocked[1].type
         /\ SameLogin /\ current' = next /\ out'.blocked = << >>
<1> DEFINE comp == IF offer.out = "zlib" THEN outComp + 1 ELSE outComp
           to   == [key |-> next, seq |-> out.seq, comp |-> comp]
           f    == Flush(out, next, comp)
           to2  == [key |-> next, seq |-> f.seq, comp |-> comp]
           n    == Len(out.wire)
           m    == Len(out.blocked)
<1>1. /\ TypeOK /\ out \in OutState /\ current \in Nat /\ Len(out.wire) \in Nat
      /\ Len(out.blocked) \in Nat
      /\ out.seq \in Nat /\ offer \in Proposal /\ outComp \in Nat /\ next \in Nat
      /\ out.blocked \in Seq(Held)
  BY Kinds
<1>2. /\ Busy /\ next = current + 1 /\ keyCount = next /\ proposal = offer /\ ~dhReady
      /\ sessionID /\ strictKex = offer.strict /\ extInfo = offer.ext /\ gotVersion
  BY DEF KeysReady, Negotiated
<1>3. CanSwitchKeys
  BY <1>1, <1>2 DEF CanSwitchKeys
<1>4. ReceiveNewKeys(FALSE)
  BY DEF Receive, Outside
<1>5. /\ current' = next /\ aliased' = TRUE /\ outComp' = comp
      /\ inComp' = IF offer.in = "zlib" THEN inComp + 1 ELSE inComp
      /\ kexState' = "none" /\ initialKexDone' = TRUE
      /\ out' = Flush(out, next, outComp')
      /\ UNCHANGED <<transport, timer, gotVersion, negotiated, sessionID, dhReady,
                     next, keyCount, login>>
      /\ inSeq' = SeqAfterNewKeys /\ received' = received + 1
  BY <1>2, <1>3, <1>4 DEF ReceiveNewKeys, GetPacket
<1>6. out' = f
  BY <1>5
<1>7. Coming = to
  BY <1>1, <1>2 DEF Coming
<1>8. comp \in Nat
  BY <1>1
<1> HIDE DEF comp
<1>9. /\ f \in OutState
      /\ f.seq = out.seq + Len(out.blocked)
      /\ f.submitted = out.submitted
      /\ f.blocked = << >>
      /\ Len(f.wire) = Len(out.wire) + Len(out.blocked)
      /\ \A i \in 1..Len(out.wire) : f.wire[i] = out.wire[i]
      /\ \A k \in 1..Len(out.blocked) :
           f.wire[Len(out.wire) + k] =
             [ type |-> out.blocked[k].type, id |-> out.blocked[k].id,
               key |-> next, seq |-> out.seq + k - 1, comp |-> comp ]
  <2>1. out \in OutState /\ next \in Nat /\ comp \in Nat
    BY <1>1, <1>8
  <2> QED
    BY <2>1, FlushShape, Zenon
<1>10. \A k \in 1..m : f.wire[n + k].type = out.blocked[k].type
  <2> TAKE k \in 1..m
  <2>1. f.wire[n + k] = [ type |-> out.blocked[k].type, id |-> out.blocked[k].id,
                          key |-> next, seq |-> out.seq + k - 1, comp |-> comp ]
    BY <1>9, Zenon
  <2> QED
    BY <2>1
<1>11. \A k \in 1..m : out.blocked[k].type \in {"EXT_INFO", "SERVICE_DATA"}
  BY DEF SessionInv, ServiceInv
<1>12. Stream(f.wire, to2, offer.strict, offer.out) /\ Extends(out.wire, to, f.wire, to2)
  <2>1. Stream(out.wire, to, offer.strict, offer.out)
    BY <1>7 DEF SessionInv, InStep
  <2> QED
    BY <1>1, <1>8, <1>11, <2>1, StreamFlush, Zenon
<1>13. Coming' = to2
  BY <1>5, <1>6 DEF Coming, Busy
<1>14. Wrote(m)
  BY <1>6, <1>7, <1>9, <1>12, <1>13 DEF Wrote
<1>15. Len(out'.wire) = n + m
  BY <1>6, <1>9
<1> HIDE DEF n, m, f, to, to2
<1>16. NewTypes({"EXT_INFO", "SERVICE_DATA"})
  <2>1. SUFFICES ASSUME NEW i \in (n + 1)..(n + m)
                 PROVE  f.wire[i].type \in {"EXT_INFO", "SERVICE_DATA"}
    BY <1>6, <1>15, Zenon DEF NewTypes, n
  <2>2. n \in Nat /\ m \in Nat
    BY <1>1 DEF n, m
  <2>3. i - n \in 1..m /\ i = n + (i - n)
    BY <2>2
  <2> QED
    BY <1>10, <1>11, <2>3, Zenon
<1>17. out.blocked # << >> =>
         out'.wire[Len(out.wire) + 1].type = out.blocked[1].type
  <2> SUFFICES ASSUME out.blocked # << >> PROVE f.wire[n + 1].type = out.blocked[1].type
    BY <1>6, Zenon DEF n
  <2>1. 1 \in 1..m
    BY <1>1, EmptySeq DEF m
  <2> QED
    BY <1>10, <2>1
<1>18. InUse'
  <2>1. next > 0
    BY <1>1, <1>2
  <2> QED
    BY <1>2, <1>5, <2>1 DEF InUse, Negotiated, Busy, negotiated
<1>19. Took("NEWKEYS")
  <2>1. Incoming' = [ key |-> current + 1, seq |-> inSeq',
                      comp |-> IF offer.in = "zlib" THEN inComp + 1 ELSE inComp ]
    BY <1>2, <1>5 DEF Incoming
  <2>2. inSeq' = IF offer.strict THEN 0 ELSE inSeq + 1
    BY <1>2, <1>5 DEF SeqAfterNewKeys
  <2>3. After(Incoming, "NEWKEYS", offer.strict, offer.in) =
          [ key |-> current + 1, seq |-> IF offer.strict THEN 0 ELSE inSeq + 1,
            comp |-> IF offer.in = "zlib" THEN inComp + 1 ELSE inComp ]
    BY DEF After, Incoming
  <2> QED
    BY <1>5, <2>1, <2>2, <2>3 DEF Took
<1> QED
  BY <1>5, <1>6, <1>9, <1>14, <1>16, <1>17, <1>18, <1>19 DEF SameLogin, login, m

\* In use, the window of strict key exchange is shut.
LEMMA OpenWindow == InUse => ~StrictWindow
BY DEF InUse, StrictWindow

\* The keys in use, as the server leaves them outside an exchange.
LEMMA StaysInUse ==
  ASSUME InUse, offer' = offer,
         UNCHANGED <<gotVersion, negotiated, exchange, keys>>
  PROVE  InUse' /\ SameKeys
BY DEF InUse, Negotiated, Busy, negotiated, exchange, keys, SameKeys

\* A message without an answer.
LEMMA Ignores ==
  ASSUME SessionInv, InUse, offer' = offer, Receive("IGNORE", offer)
  PROVE  /\ InUse' /\ transport' = transport /\ Took("IGNORE")
         /\ Wrote(0) /\ NewTypes({})
         /\ SameLogin /\ SameKeys /\ out'.blocked = out.blocked
<1>1. ReceiveIgnore
  BY OpenWindow DEF Receive, Outside
<1>2. /\ Decoded /\ out' = out /\ transport' = transport
      /\ UNCHANGED <<gotVersion, negotiated, exchange, keys, comps, login>>
  BY <1>1 DEF ReceiveIgnore
<1>3. Coming' = Coming
  BY <1>2 DEF Coming, Busy, negotiated, exchange, keys, comps
<1>4. Wrote(0) /\ NewTypes({})
  BY <1>2, <1>3, WroteNothing
<1>5. Took("IGNORE")
  BY <1>2, TookPlain DEF comps, keys
<1>6. InUse' /\ SameKeys
  BY <1>2, StaysInUse
<1> QED
  BY <1>2, <1>4, <1>5, <1>6 DEF SameLogin, login

\* The request for the login service.
LEMMA AcceptsService ==
  ASSUME SessionInv, InUse, offer' = offer, Receive("REQUEST_USERAUTH", offer)
  PROVE  /\ InUse' /\ transport' = transport /\ Took("REQUEST_USERAUTH")
         /\ Wrote(1) /\ NewTypes({"SERVICE_ACCEPT"})
         /\ service' = "userauth" /\ SameKeys /\ out'.blocked = out.blocked
<1>1. /\ TypeOK /\ out \in OutState /\ current \in Nat
  BY Kinds
<1>2. ReceiveServiceRequest("userauth")
  BY OpenWindow DEF Receive, Outside
<1>3. /\ Decoded /\ out' = SendPacket(out, current, "SERVICE_ACCEPT")
      /\ transport' = transport /\ service' = "userauth"
      /\ UNCHANGED <<gotVersion, negotiated, exchange, keys, comps>>
  BY <1>2 DEF ReceiveServiceRequest, SetService, Reply
<1>4. ~Busy /\ next = current /\ next # 0
  BY DEF InUse
<1>5. "SERVICE_ACCEPT" \in Deferrable
  BY DEF Deferrable
<1>6. out'.seq = out.seq + 1 /\ out'.blocked = out.blocked
  <2>1. /\ SendPacket(out, current, "SERVICE_ACCEPT").blocked = out.blocked
        /\ SendPacket(out, current, "SERVICE_ACCEPT").seq =
             IF strictKex /\ "SERVICE_ACCEPT" = "NEWKEYS" THEN 0 ELSE out.seq + 1
    BY <1>1, <1>4, <1>5, SendsFields, Zenon
  <2> QED
    BY <1>3, <2>1
<1>7. /\ Coming = [key |-> current, seq |-> out.seq, comp |-> outComp]
      /\ Coming' = After(Coming, "SERVICE_ACCEPT", offer.strict, offer.out)
  BY <1>3, <1>4, <1>6 DEF Coming, After, Busy, comps, keys, exchange
<1>8. Wrote(1) /\ NewTypes({"SERVICE_ACCEPT"})
  BY <1>3, <1>4, <1>5, <1>7, WroteOne
<1>9. Took("REQUEST_USERAUTH")
  BY <1>3, TookPlain DEF comps, keys
<1>10. InUse' /\ SameKeys
  BY <1>3, StaysInUse
<1> QED
  BY <1>3, <1>6, <1>8, <1>9, <1>10

\* The login, with which delayed compression starts in both directions.
LEMMA AcceptsLogin ==
  ASSUME SessionInv, InUse, service = "userauth", offer' = offer,
         Receive("LOGIN", offer)
  PROVE  /\ InUse' /\ transport' = transport /\ Took("LOGIN")
         /\ Wrote(1) /\ NewTypes({"USERAUTH_SUCCESS"})
         /\ service' = "connection" /\ SameKeys /\ out'.blocked = out.blocked
<1>1. /\ TypeOK /\ out \in OutState /\ current \in Nat /\ offer # NoProposal
  BY Kinds
<1>2. ReceiveLogin
  BY OpenWindow DEF Receive, Outside
<1>3. proposal = offer
  BY DEF InUse, Negotiated
<1>4. /\ Decoded /\ out' = SendPacket(out, current, "USERAUTH_SUCCESS")
      /\ transport' = transport /\ service' = "connection" /\ DelayedCompression
      /\ UNCHANGED <<gotVersion, negotiated, exchange, keys>>
  BY <1>1, <1>2, <1>3 DEF ReceiveLogin, SetService, Reply
<1>5. ~Busy /\ next = current /\ next # 0
  BY DEF InUse
<1>6. "USERAUTH_SUCCESS" \in Deferrable
  BY DEF Deferrable
<1>7. out'.seq = out.seq + 1 /\ out'.blocked = out.blocked
  <2>1. /\ SendPacket(out, current, "USERAUTH_SUCCESS").blocked = out.blocked
        /\ SendPacket(out, current, "USERAUTH_SUCCESS").seq =
             IF strictKex /\ "USERAUTH_SUCCESS" = "NEWKEYS" THEN 0 ELSE out.seq + 1
    BY <1>1, <1>5, <1>6, SendsFields, Zenon
  <2> QED
    BY <1>4, <2>1
<1>8. /\ outComp' = IF offer.out = "zlib@openssh.com" THEN outComp + 1 ELSE outComp
      /\ inComp' = IF offer.in = "zlib@openssh.com" THEN inComp + 1 ELSE inComp
  BY <1>3, <1>4 DEF DelayedCompression, Renewed
<1>9. /\ Coming = [key |-> current, seq |-> out.seq, comp |-> outComp]
      /\ Coming' = After(Coming, "USERAUTH_SUCCESS", offer.strict, offer.out)
  BY <1>4, <1>5, <1>7, <1>8 DEF Coming, After, Busy, keys, exchange
<1>10. Wrote(1) /\ NewTypes({"USERAUTH_SUCCESS"})
  BY <1>4, <1>5, <1>6, <1>9, WroteOne
<1>11. Took("LOGIN")
  BY <1>4, <1>8 DEF Took, Decoded, GetPacket, Incoming, After, keys
<1>12. InUse' /\ SameKeys
  BY <1>4, StaysInUse
<1> QED
  BY <1>4, <1>7, <1>10, <1>11, <1>12

-----------------------------------------------------------------------------
(* What every step of the server keeps.                                    *)

\* The client's variables but its stream.
ClientWaits == UNCHANGED <<offer, read, phase, progress, cOut, cIn, rekeys, extra>>

\* The packets still on their way to the server.
LEMMA PendingKept ==
  ASSUME SessionInv, c2s # << >>, c2s' = Tail(c2s)
  PROVE  /\ Len(c2s') = Len(c2s) - 1 /\ Len(c2s) > 0
         /\ \A i \in 1..Len(c2s') : i + 1 \in 1..Len(c2s) /\ c2s'[i] = c2s[i + 1]
<1>1. c2s \in Seq(ClientPacket) /\ Len(c2s) \in Nat
  BY Kinds
<1>2. /\ Len(Tail(c2s)) = Len(c2s) - 1 /\ Len(c2s) > 0
      /\ \A i \in 1..Len(Tail(c2s)) : Tail(c2s)[i] = c2s[i + 1]
  BY <1>1, HeadTailProperties, EmptySeq
<1>3. \A n \in Nat : \A i \in 1..(n - 1) : i + 1 \in 1..n
  OBVIOUS
<1> QED
  BY <1>1, <1>2, <1>3

\* And those on their way to the client.
LEMMA UnreadKept ==
  ASSUME SessionInv, read' = read, NEW n \in Nat, Wrote(n), NEW T, NewTypes(T)
  PROVE  /\ Len(out'.wire) \in Nat /\ Len(out'.wire) = Len(out.wire) + n
         /\ \A i \in 1..Len(out.wire) : i \in 1..Len(out'.wire) /\ out'.wire[i] = out.wire[i]
         /\ \A i \in 1..Len(out'.wire) :
              \/ i \in 1..Len(out.wire) /\ out'.wire[i] = out.wire[i]
              \/ i \in (Len(out.wire) + 1)..Len(out'.wire) /\ out'.wire[i].type \in T
         /\ \A i \in (read' + 1)..Len(out'.wire) :
              \/ i \in (read + 1)..Len(out.wire) /\ out'.wire[i] = out.wire[i]
              \/ i \in (Len(out.wire) + 1)..Len(out'.wire) /\ out'.wire[i].type \in T
<1> DEFINE l == Len(out.wire)
           k == Len(out'.wire)
<1>1. l \in Nat /\ read \in Nat /\ read <= l
  BY Kinds
<1>2. /\ k = l + n
      /\ \A i \in 1..l : out'.wire[i] = out.wire[i]
      /\ \A i \in (l + 1)..k : out'.wire[i].type \in T
  BY DEF Wrote, Extends, NewTypes
<1> HIDE DEF l, k
<1>3. k \in Nat
  BY <1>1, <1>2
<1>4. \A i \in 1..l : i \in 1..k
  BY <1>1, <1>2
<1>5. \A i \in 1..k : i \in 1..l \/ i \in (l + 1)..k
  BY <1>1, <1>2
<1>6. \A i \in (read + 1)..k : i \in 1..k /\ (i \in (read + 1)..l \/ i \in (l + 1)..k)
  BY <1>1, <1>2
<1>7. \A i \in (read + 1)..l : i \in 1..l
  BY <1>1
<1> QED
  BY <1>2, <1>3, <1>4, <1>5, <1>6, <1>7 DEF l, k

\* Both streams stay chains when the server reads a packet.
LEMMA ReadKeepsStreams ==
  ASSUME SessionInv, c2s # << >>, c2s' = Tail(c2s), ClientWaits,
         Took(c2s[1].type), NEW n, Wrote(n)
  PROVE  InStep' /\ CountInv'
<1>1. Following' = Following /\ Count' = Count
  BY DEF ClientWaits, Following, Count
<1>2. Chain(c2s', Incoming', Following', offer'.strict, offer'.in)
  BY <1>1, Decodes DEF Took, ClientWaits
<1>3. Stream(out'.wire, Coming', offer'.strict, offer'.out)
  BY DEF Wrote, ClientWaits
<1>4. cIn' = At(out'.wire, Coming', read' + 1)
  <2>1. read + 1 \in 1..(Len(out.wire) + 1)
    <3> DEFINE l == Len(out.wire)
    <3>1. read \in Nat /\ l \in Nat /\ read <= l
      BY Kinds, Zenon
    <3> HIDE DEF l
    <3>2. read + 1 \in 1..(l + 1)
      BY <3>1
    <3> QED
      BY <3>2 DEF l
  <2>2. At(out'.wire, Coming', read + 1) = At(out.wire, Coming, read + 1)
    BY <2>1 DEF Wrote, Extends
  <2> QED
    BY <2>2 DEF ClientWaits, SessionInv, InStep
<1>5. CountInv'
  <2>1. received \in Nat /\ Len(c2s) \in Nat
    BY Kinds
  <2>2. Len(c2s') = Len(c2s) - 1
    BY PendingKept
  <2>3. received' + Len(c2s') = received + Len(c2s)
    BY <2>1, <2>2 DEF Took
  <2> QED
    BY <1>1, <2>3 DEF SessionInv, CountInv
<1> QED
  BY <1>2, <1>3, <1>4, <1>5 DEF InStep

\* The login goes on undisturbed by a packet and answers that are not its own.
LEMMA ReadKeepsLogin ==
  ASSUME SessionInv, c2s # << >>, c2s' = Tail(c2s), ClientWaits,
         NEW n \in Nat, Wrote(n), NEW T, NewTypes(T),
         "SERVICE_ACCEPT" \notin T, "USERAUTH_SUCCESS" \notin T, SameLogin
  PROVE  LoginInv'
<1>1. LoginInv
  BY DEF SessionInv
<1>2. \A i \in 1..Len(c2s') : i + 1 \in 1..Len(c2s) /\ c2s'[i] = c2s[i + 1]
  BY PendingKept
<1>3. ASSUME NEW t PROVE Pending(t)' => Pending(t)
  BY <1>2 DEF Pending
<1>4. \A i \in (read' + 1)..Len(out'.wire) :
        \/ i \in (read + 1)..Len(out.wire) /\ out'.wire[i] = out.wire[i]
        \/ i \in (Len(out.wire) + 1)..Len(out'.wire) /\ out'.wire[i].type \in T
  BY UnreadKept DEF ClientWaits
<1>5. ASSUME NEW t, t \notin T PROVE Unread(t)' => Unread(t)
  BY <1>4, <1>5 DEF Unread
<1>6. \A i, j \in 1..Len(c2s') :
        c2s'[i].type = c2s'[j].type
          /\ c2s'[i].type \in {"REQUEST_USERAUTH", "LOGIN"} => i = j
  <2> SUFFICES ASSUME NEW i \in 1..Len(c2s'), NEW j \in 1..Len(c2s'),
                      c2s'[i].type = c2s'[j].type,
                      c2s'[i].type \in {"REQUEST_USERAUTH", "LOGIN"}
               PROVE  i = j
    OBVIOUS
  <2>1. i + 1 = j + 1
    BY <1>1, <1>2 DEF LoginInv
  <2> QED
    BY <2>1
<1>7. \A i, j \in (read' + 1)..Len(out'.wire) :
        out'.wire[i].type = "SERVICE_ACCEPT" /\ out'.wire[j].type = "SERVICE_ACCEPT" => i = j
  BY <1>1, <1>4 DEF LoginInv
<1>8. UNCHANGED <<progress, service, phase, rekeys>>
  BY DEF ClientWaits, SameLogin
<1> QED
  BY <1>1, <1>3, <1>5, <1>6, <1>7, <1>8 DEF LoginInv

\* The request for the login service is answered once.
LEMMA AcceptKeepsLogin ==
  ASSUME SessionInv, c2s # << >>, c2s' = Tail(c2s), ClientWaits,
         c2s[1].type = "REQUEST_USERAUTH",
         Wrote(1), NewTypes({"SERVICE_ACCEPT"}), service' = "userauth"
  PROVE  LoginInv'
<1>1. LoginInv
  BY DEF SessionInv
<1>2. /\ Len(c2s) \in Nat /\ Len(c2s) > 0 /\ Len(c2s') = Len(c2s) - 1
      /\ \A i \in 1..Len(c2s') : i + 1 \in 1..Len(c2s) /\ c2s'[i] = c2s[i + 1]
  BY PendingKept, Kinds
<1>3. 1 \in 1..Len(c2s)
  BY <1>2
<1>4. progress = "requested" /\ ~Unread("SERVICE_ACCEPT")
  BY <1>1, <1>3 DEF LoginInv, Pending
<1>5. ASSUME NEW t PROVE Pending(t)' => Pending(t)
  BY <1>2 DEF Pending
<1>6. ~Pending("REQUEST_USERAUTH")'
  <2> SUFFICES ASSUME NEW i \in 1..Len(c2s'), c2s'[i].type = "REQUEST_USERAUTH"
               PROVE  FALSE
    BY DEF Pending
  <2>1. i + 1 = 1
    BY <1>1, <1>2, <1>3 DEF LoginInv
  <2> QED
    BY <2>1
<1>7. \A i \in (read' + 1)..Len(out'.wire) :
        \/ i \in (read + 1)..Len(out.wire) /\ out'.wire[i] = out.wire[i]
        \/ i \in (Len(out.wire) + 1)..Len(out'.wire) /\ out'.wire[i].type \in {"SERVICE_ACCEPT"}
  BY UnreadKept DEF ClientWaits
<1>8. Unread("USERAUTH_SUCCESS")' => Unread("USERAUTH_SUCCESS")
  BY <1>7 DEF Unread
<1>9. \A i, j \in 1..Len(c2s') :
        c2s'[i].type = c2s'[j].type
          /\ c2s'[i].type \in {"REQUEST_USERAUTH", "LOGIN"} => i = j
  <2> SUFFICES ASSUME NEW i \in 1..Len(c2s'), NEW j \in 1..Len(c2s'),
                      c2s'[i].type = c2s'[j].type,
                      c2s'[i].type \in {"REQUEST_USERAUTH", "LOGIN"}
               PROVE  i = j
    OBVIOUS
  <2>1. i + 1 = j + 1
    BY <1>1, <1>2 DEF LoginInv
  <2> QED
    BY <2>1
<1>10. \A i, j \in (read' + 1)..Len(out'.wire) :
         out'.wire[i].type = "SERVICE_ACCEPT" /\ out'.wire[j].type = "SERVICE_ACCEPT" => i = j
  <2>1. ASSUME NEW i \in (read' + 1)..Len(out'.wire), out'.wire[i].type = "SERVICE_ACCEPT"
        PROVE  i \in (Len(out.wire) + 1)..Len(out'.wire)
    BY <1>4, <1>7, <2>1 DEF Unread
  <2>2. Len(out'.wire) = Len(out.wire) + 1 /\ Len(out.wire) \in Nat
    BY Kinds DEF Wrote
  <2>3. \A m \in Nat : \A i, j \in (m + 1)..(m + 1) : i = j
    OBVIOUS
  <2> QED
    BY <2>1, <2>2, <2>3
<1>11. UNCHANGED <<progress, phase, rekeys>>
  BY DEF ClientWaits
<1> QED
  BY <1>1, <1>4, <1>5, <1>6, <1>8, <1>9, <1>10, <1>11 DEF LoginInv

\* And so is the login.
LEMMA SuccessKeepsLogin ==
  ASSUME SessionInv, c2s # << >>, c2s' = Tail(c2s), ClientWaits,
         c2s[1].type = "LOGIN",
         Wrote(1), NewTypes({"USERAUTH_SUCCESS"}), service' = "connection"
  PROVE  LoginInv'
<1>1. LoginInv
  BY DEF SessionInv
<1>2. /\ Len(c2s) \in Nat /\ Len(c2s) > 0 /\ Len(c2s') = Len(c2s) - 1
      /\ \A i \in 1..Len(c2s') : i + 1 \in 1..Len(c2s) /\ c2s'[i] = c2s[i + 1]
  BY PendingKept, Kinds
<1>3. 1 \in 1..Len(c2s)
  BY <1>2
<1>4. progress = "tried" /\ ~Unread("USERAUTH_SUCCESS")
  BY <1>1, <1>3 DEF LoginInv, Pending
<1>5. ASSUME NEW t PROVE Pending(t)' => Pending(t)
  BY <1>2 DEF Pending
<1>6. ~Pending("LOGIN")'
  <2> SUFFICES ASSUME NEW i \in 1..Len(c2s'), c2s'[i].type = "LOGIN"
               PROVE  FALSE
    BY DEF Pending
  <2>1. i + 1 = 1
    BY <1>1, <1>2, <1>3 DEF LoginInv
  <2> QED
    BY <2>1
<1>7. \A i \in (read' + 1)..Len(out'.wire) :
        \/ i \in (read + 1)..Len(out.wire) /\ out'.wire[i] = out.wire[i]
        \/ i \in (Len(out.wire) + 1)..Len(out'.wire)
           /\ out'.wire[i].type \in {"USERAUTH_SUCCESS"}
  BY UnreadKept DEF ClientWaits
<1>8. Unread("SERVICE_ACCEPT")' => Unread("SERVICE_ACCEPT")
  BY <1>7 DEF Unread
<1>9. \A i, j \in 1..Len(c2s') :
        c2s'[i].type = c2s'[j].type
          /\ c2s'[i].type \in {"REQUEST_USERAUTH", "LOGIN"} => i = j
  <2> SUFFICES ASSUME NEW i \in 1..Len(c2s'), NEW j \in 1..Len(c2s'),
                      c2s'[i].type = c2s'[j].type,
                      c2s'[i].type \in {"REQUEST_USERAUTH", "LOGIN"}
               PROVE  i = j
    OBVIOUS
  <2>1. i + 1 = j + 1
    BY <1>1, <1>2 DEF LoginInv
  <2> QED
    BY <2>1
<1>10. \A i, j \in (read' + 1)..Len(out'.wire) :
         out'.wire[i].type = "SERVICE_ACCEPT" /\ out'.wire[j].type = "SERVICE_ACCEPT" => i = j
  BY <1>1, <1>7 DEF LoginInv
<1>11. UNCHANGED <<progress, phase, rekeys>>
  BY DEF ClientWaits
<1> QED
  BY <1>1, <1>4, <1>5, <1>6, <1>8, <1>9, <1>10, <1>11 DEF LoginInv

\* Services run under keys, and nothing the server wrote drops the client.
LEMMA KeepsService ==
  ASSUME SessionInv, read' = read, NEW n \in Nat, Wrote(n), NEW T, NewTypes(T),
         "DISCONNECT" \notin T, "UNIMPLEMENTED" \notin T,
         current' = 0 => service' = "none",
         ~Busy' => out'.blocked = << >>,
         \A k \in 1..Len(out'.blocked) :
           out'.blocked[k].type \in {"EXT_INFO", "SERVICE_DATA"}
  PROVE  ServiceInv'
<1>1. \A i \in 1..Len(out'.wire) :
        \/ i \in 1..Len(out.wire) /\ out'.wire[i] = out.wire[i]
        \/ i \in (Len(out.wire) + 1)..Len(out'.wire) /\ out'.wire[i].type \in T
  BY UnreadKept
<1>2. \A i \in 1..Len(out.wire) : out.wire[i].type \notin {"DISCONNECT", "UNIMPLEMENTED"}
  BY DEF SessionInv, ServiceInv, Written
<1>3. \A i \in 1..Len(out'.wire) : out'.wire[i].type \notin {"DISCONNECT", "UNIMPLEMENTED"}
  BY <1>1, <1>2
<1> QED
  BY <1>3 DEF ServiceInv, Written

\* EXT_INFO has followed the first keys, or is not asked for.
LEMMA LaterKeys ==
  ASSUME SessionInv, offer' = offer, read' = read, current > 0,
         current' \in Nat, current' > 0, NEW n \in Nat, Wrote(n), NEW T, NewTypes(T)
  PROVE  FirstKeys'
<1> DEFINE l == Len(out.wire)
           k == Len(out'.wire)
           sent(i) == out'.wire[i].type = "NEWKEYS"
<1>1. /\ k \in Nat /\ k = l + n
      /\ \A i \in 1..l : out'.wire[i] = out.wire[i]
  BY UnreadKept
<1>2. l \in Nat
  BY Kinds
<1> HIDE DEF l, k
<1>3. SUFFICES ASSUME offer.ext
               PROVE  /\ \E m \in 1..(k - 1) : sent(m)
                      /\ \A i \in 1..k \ {1} :
                           sent(i - 1) /\ (\A m \in 1..(i - 2) : ~sent(m))
                             => out'.wire[i].type = "EXT_INFO"
  BY DEF FirstKeys, ExtInfoFollowsNewKeys, Written, k
<1>4. FirstKeys
  BY DEF SessionInv
<1>5. PICK m \in 1..(l - 1) : out.wire[m].type = "NEWKEYS"
  BY <1>3, <1>4 DEF FirstKeys, l
<1>6. m \in 1..l /\ m \in 1..(k - 1)
  BY <1>1, <1>2
<1>7. sent(m)
  BY <1>1, <1>5, <1>6
<1>8. ASSUME NEW i \in 1..k \ {1}, sent(i - 1), \A j \in 1..(i - 2) : ~sent(j)
      PROVE  out'.wire[i].type = "EXT_INFO"
  <2>1. CASE i <= l
    <3>1. i \in 1..l \ {1} /\ i - 1 \in 1..l
      BY <1>2, <2>1
    <3>2. \A j \in 1..(i - 2) : j \in 1..l
      BY <1>2, <2>1
    <3>3. out.wire[i - 1].type = "NEWKEYS" /\ \A j \in 1..(i - 2) : out.wire[j].type # "NEWKEYS"
      BY <1>1, <1>8, <3>1, <3>2
    <3>4. out.wire[i].type = "EXT_INFO"
      BY <1>3, <1>4, <3>1, <3>3 DEF FirstKeys, ExtInfoFollowsNewKeys, Written, l
    <3> QED
      BY <1>1, <3>1, <3>4
  <2>2. CASE i > l
    <3>1. m \in 1..(i - 2)
      BY <1>2, <2>2
    <3> QED
      BY <1>7, <1>8, <3>1
  <2> QED
    BY <1>1, <1>2, <2>1, <2>2
<1> QED
  BY <1>6, <1>7, <1>8

\* No keys have been computed.
LEMMA BeforeKeys ==
  ASSUME SessionInv, offer' = offer, read' = read, current = 0, next = 0,
         current' = 0, next' = 0, NEW n \in Nat, Wrote(n), NEW T, NewTypes(T),
         "NEWKEYS" \notin T, out'.blocked = << >>
  PROVE  FirstKeys'
<1>1. \A i \in 1..Len(out'.wire) :
        \/ i \in 1..Len(out.wire) /\ out'.wire[i] = out.wire[i]
        \/ i \in (Len(out.wire) + 1)..Len(out'.wire) /\ out'.wire[i].type \in T
  BY UnreadKept
<1>2. \A i \in 1..Len(out.wire) : out.wire[i].type # "NEWKEYS"
  BY DEF SessionInv, FirstKeys, Written
<1>3. \A i \in 1..Len(out'.wire) : out'.wire[i].type # "NEWKEYS"
  BY <1>1, <1>2
<1>4. Len(out'.wire) \in Nat
  BY UnreadKept
<1>5. \A i \in 1..Len(out'.wire) \ {1} : i - 1 \in 1..Len(out'.wire)
  BY <1>4
<1>6. ExtInfoFollowsNewKeys'
  BY <1>3, <1>5 DEF ExtInfoFollowsNewKeys, Written
<1> QED
  BY <1>3, <1>6 DEF FirstKeys, Written

\* The first keys are computed: NEWKEYS is the last packet and EXT_INFO waits.
LEMMA KeysComputed ==
  ASSUME SessionInv, offer' = offer, read' = read, Exchanging, current = 0, current' = 0, next' # 0,
         Wrote(2), out'.wire[Len(out.wire) + 1].type = "KEX_REPLY",
         out'.blocked = Announced
  PROVE  FirstKeys'
<1> DEFINE l == Len(out.wire)
           k == Len(out'.wire)
<1>1. l \in Nat /\ out.blocked \in Seq(Held) /\ out \in OutState
  BY Kinds
<1>2. /\ k = l + 2
      /\ \A i \in 1..l : out'.wire[i] = out.wire[i]
  BY DEF Wrote, Extends
<1>3. FirstKeys /\ next = 0 /\ (sessionID <=> current # 0) /\ extInfo = offer.ext
  BY DEF SessionInv, Exchanging, Negotiated
<1>4. out.blocked = << >> /\ \A i \in 1..l : out.wire[i].type # "NEWKEYS"
  BY <1>3 DEF FirstKeys, Written
<1> HIDE DEF l, k
<1>5. \A i \in 1..(l + 1) : out'.wire[i].type # "NEWKEYS"
  <2> SUFFICES ASSUME NEW i \in 1..(l + 1) PROVE out'.wire[i].type # "NEWKEYS"
    OBVIOUS
  <2>1. CASE i = l + 1
    BY <2>1 DEF l
  <2>2. CASE i \in 1..l
    BY <1>2, <1>4, <2>2
  <2> QED
    BY <1>1, <2>1, <2>2
<1>6. k - 1 = l + 1
  BY <1>1, <1>2
<1>7. \A i \in 1..(l + 2) \ {1} : i - 1 \in 1..(l + 1)
  BY <1>1
<1>8. ExtInfoFollowsNewKeys'
  BY <1>2, <1>5, <1>7 DEF ExtInfoFollowsNewKeys, Written, k
<1>9. offer.ext => out'.blocked # << >> /\ out'.blocked[1].type = "EXT_INFO"
  <2> SUFFICES ASSUME offer.ext
               PROVE  out'.blocked # << >> /\ out'.blocked[1].type = "EXT_INFO"
    OBVIOUS
  <2> DEFINE e == [type |-> "EXT_INFO", id |-> out.submitted + 1]
  <2>1. out'.blocked = Append(<< >>, e)
    BY <1>3, <1>4 DEF Announced, AnnounceExtensions
  <2>2. e.type = "EXT_INFO"
    OBVIOUS
  <2> HIDE DEF e
  <2>3. Append(<< >>, e) = <<e>>
    OBVIOUS
  <2> QED
    BY <2>1, <2>2, <2>3
<1>10. \A i \in 1..(k - 1) : out'.wire[i].type # "NEWKEYS"
  BY <1>5, <1>6
<1> QED
  BY <1>8, <1>9, <1>10 DEF FirstKeys, Written, k

\* They are taken into use: what waited, EXT_INFO first, follows NEWKEYS.
LEMMA KeysSwitched ==
  ASSUME SessionInv, offer' = offer, read' = read, KeysReady, current = 0,
         current' = next, Wrote(Len(out.blocked)),
         out.blocked # << >> => out'.wire[Len(out.wire) + 1].type = out.blocked[1].type
  PROVE  FirstKeys'
<1> DEFINE l == Len(out.wire)
           k == Len(out'.wire)
           b == Len(out.blocked)
           sent(i) == out'.wire[i].type = "NEWKEYS"
<1>1. l \in Nat /\ b \in Nat /\ out.blocked \in Seq(Held)
  BY Kinds
<1>2. /\ k = l + b
      /\ \A i \in 1..l : out'.wire[i] = out.wire[i]
  BY DEF Wrote, Extends
<1>3. FirstKeys /\ next = 1 /\ l > 1 /\ out.wire[l].type = "NEWKEYS"
  BY DEF SessionInv, KeysReady, Last
<1>4. /\ \A i \in 1..(l - 1) : out.wire[i].type # "NEWKEYS"
      /\ offer.ext => out.blocked # << >> /\ out.blocked[1].type = "EXT_INFO"
  BY <1>3 DEF FirstKeys
<1>5. out.blocked # << >> => b > 0
  BY <1>1, EmptySeq
<1>6. out.blocked # << >> => out'.wire[l + 1].type = out.blocked[1].type
  OBVIOUS
<1> HIDE DEF l, k, b
<1>7. SUFFICES ASSUME offer.ext
               PROVE  /\ \E m \in 1..(k - 1) : sent(m)
                      /\ \A i \in 1..k \ {1} :
                           sent(i - 1) /\ (\A m \in 1..(i - 2) : ~sent(m))
                             => out'.wire[i].type = "EXT_INFO"
  BY <1>3 DEF FirstKeys, ExtInfoFollowsNewKeys, Written, k
<1>8. l \in 1..l /\ l \in 1..(k - 1)
  BY <1>1, <1>2, <1>3, <1>4, <1>5, <1>7
<1>9. sent(l)
  BY <1>2, <1>3, <1>8
<1>10. ASSUME NEW i \in 1..k \ {1}, sent(i - 1), \A j \in 1..(i - 2) : ~sent(j)
       PROVE  out'.wire[i].type = "EXT_INFO"
  <2>1. k \in Nat
    BY <1>1, <1>2
  <2>2. CASE i <= l
    <3>1. i - 1 \in 1..(l - 1) /\ i - 1 \in 1..l
      BY <1>1, <2>1, <2>2
    <3> QED
      BY <1>2, <1>4, <1>10, <3>1
  <2>3. CASE i = l + 1
    BY <1>4, <1>6, <1>7, <2>3
  <2>4. CASE i > l + 1
    <3>1. l \in 1..(i - 2)
      BY <1>1, <1>3, <2>1, <2>4
    <3> QED
      BY <1>9, <1>10, <3>1
  <2> QED
    BY <1>1, <2>1, <2>2, <2>3, <2>4
<1> QED
  BY <1>8, <1>9, <1>10

-----------------------------------------------------------------------------
(* Where both ends are after the server has read a packet.                 *)

\* Outside an exchange the server works through what the client sent.
LEMMA TalkingGoesOn ==
  ASSUME SessionInv, Talking, c2s # << >>, c2s' = Tail(c2s), ClientWaits, InUse',
         KeysReady \/ (InUse /\ c2s[1].type # "KEXINIT"),
         NEW n \in Nat, Wrote(n), NEW T, NewTypes(T), T \subseteq Deferrable
  PROVE  Talking'
<1> DEFINE l == Len(out.wire)
           k == Len(out'.wire)
           m == Len(c2s)
           front == IF Busy THEN 1 ELSE 0
           back  == IF phase = "sentInit" THEN 1 ELSE 0
           unread == IF phase = "sentNewKeys" THEN read + 1 ELSE read
<1>1. l \in Nat /\ m \in Nat /\ read \in Nat
  BY Kinds
<1>2. /\ m >= front + back
      /\ phase = "sentInit" => c2s[m].type = "KEXINIT"
      /\ \A i \in (front + 1)..(m - back) : c2s[i].type \in Outsiders
      /\ unread <= l
      /\ phase = "sentNewKeys" => out.wire[unread].type = "NEWKEYS"
      /\ \A i \in (unread + 1)..l : out.wire[i].type \in Deferrable
      /\ phase \in {"sentNewKeys", "idle", "sentInit"}
  BY DEF Talking
<1>3. /\ Len(c2s') = m - 1 /\ m > 0
      /\ \A i \in 1..Len(c2s') : c2s'[i] = c2s[i + 1]
  BY PendingKept
<1>4. /\ k \in Nat /\ k = l + n
      /\ \A i \in 1..l : out'.wire[i] = out.wire[i]
      /\ \A i \in 1..k :
           \/ i \in 1..l /\ out'.wire[i] = out.wire[i]
           \/ i \in (l + 1)..k /\ out'.wire[i].type \in T
  BY UnreadKept DEF ClientWaits
<1>5. ~Busy'
  BY DEF InUse
<1>6. (KeysReady => Busy) /\ (InUse => ~Busy)
  BY DEF KeysReady, InUse
<1> HIDE DEF l, k, m
<1>7. m - 1 >= back
  <2>1. CASE KeysReady
    BY <1>1, <1>2, <1>6, <2>1
  <2>2. CASE InUse /\ c2s[1].type # "KEXINIT" /\ phase = "sentInit"
    <3>1. m # 1
      BY <1>2, <2>2
    <3> QED
      BY <1>1, <1>3, <3>1
  <2>3. CASE phase # "sentInit"
    BY <1>1, <1>3, <2>3
  <2> QED
    BY <2>1, <2>2, <2>3
<1>8. phase = "sentInit" => c2s'[m - 1].type = "KEXINIT"
  <2> SUFFICES ASSUME phase = "sentInit" PROVE c2s'[m - 1].type = "KEXINIT"
    OBVIOUS
  <2>1. m - 1 \in 1..(m - 1) /\ (m - 1) + 1 = m
    BY <1>1, <1>7
  <2>2. c2s'[m - 1] = c2s[m]
    BY <1>3, <2>1
  <2> QED
    BY <1>2, <2>2
<1>9. \A i \in 1..((m - 1) - back) : c2s'[i].type \in Outsiders
  <2> TAKE i \in 1..((m - 1) - back)
  <2>1. i \in 1..(m - 1) /\ i + 1 \in (front + 1)..(m - back)
    BY <1>1
  <2> QED
    BY <1>2, <1>3, <2>1
<1>10. unread <= k /\ (phase = "sentNewKeys" => out'.wire[unread].type = "NEWKEYS")
  <2>1. unread <= k
    BY <1>1, <1>2, <1>4
  <2>2. phase = "sentNewKeys" => unread \in 1..l
    BY <1>1, <1>2
  <2> QED
    BY <1>2, <1>4, <2>1, <2>2
<1>11. \A i \in (unread + 1)..k : out'.wire[i].type \in Deferrable
  <2> TAKE i \in (unread + 1)..k
  <2>1. i \in 1..k /\ (i \in 1..l => i \in (unread + 1)..l)
    BY <1>1, <1>4
  <2> QED
    BY <1>2, <1>4, <2>1
<1> DEFINE front2 == IF Busy' THEN 1 ELSE 0
           back2  == IF phase' = "sentInit" THEN 1 ELSE 0
           unread2 == IF phase' = "sentNewKeys" THEN read' + 1 ELSE read'
<1>12. front2 = 0 /\ back2 = back /\ unread2 = unread /\ Len(c2s') = m - 1 /\ phase' = phase
  BY <1>3, <1>5 DEF ClientWaits
<1> HIDE DEF front2, back2, unread2, back, unread, front
<1>13. /\ Len(c2s') >= front2 + back2
       /\ phase' = "sentInit" => c2s'[Len(c2s')].type = "KEXINIT"
       /\ \A i \in (front2 + 1)..(Len(c2s') - back2) : c2s'[i].type \in Outsiders
       /\ unread2 <= Len(out'.wire)
       /\ phase' = "sentNewKeys" => out'.wire[unread2].type = "NEWKEYS"
       /\ \A i \in (unread2 + 1)..Len(out'.wire) : out'.wire[i].type \in Deferrable
       /\ phase' \in {"sentNewKeys", "idle", "sentInit"}
  <2>1. 0 + 1 = 1 /\ 0 + back = back
    BY DEF back
  <2> QED
    BY <1>2, <1>7, <1>8, <1>9, <1>10, <1>11, <1>12, <2>1 DEF k
<1> QED
  BY <1>5, <1>13 DEF Talking, front2, back2, unread2

\* The other moves.
LEMMA HearsMoves ==
  ASSUME SessionInv, Waiting, Starting \/ Hurrying, c2s # << >>, c2s' = Tail(c2s),
         ClientWaits, Agreed', Len(out'.wire) = Len(out.wire),
         phase = "sentInit" \/ Hurrying
  PROVE  Answering' \/ Choosing'
<1>1. Len(out.wire) = 1 /\ Len(c2s) \in Nat
  BY Kinds DEF Waiting
<1>2. /\ Len(c2s') = Len(c2s) - 1
      /\ \A i \in 1..Len(c2s') : c2s'[i] = c2s[i + 1]
  BY PendingKept
<1>3. CASE Starting /\ phase = "sentInit"
  <2>1. Len(c2s) = 1 /\ read = 0
    BY <1>3 DEF Starting
  <2>2. Len(c2s') = 0 /\ read' = 0 /\ phase' = "sentInit" /\ Len(out'.wire) = 1
    BY <1>1, <1>2, <1>3, <2>1 DEF ClientWaits
  <2>3. 0 < 1 /\ (0 + 1)..(1 - 1) = {}
    OBVIOUS
  <2> QED
    BY <2>2, <2>3 DEF Answering
<1>4. CASE Hurrying
  <2>1. Len(c2s) = 2 /\ Ahead(0) /\ MethodSent(c2s[2].type)
    BY <1>4 DEF Hurrying
  <2>2. Len(c2s') = 1 /\ c2s'[1] = c2s[2]
    <3>1. Len(c2s') = 1
      BY <1>2, <2>1
    <3>2. 1 \in 1..1 /\ 1 + 1 = 2
      OBVIOUS
    <3> QED
      BY <1>2, <3>1, <3>2
  <2>3. MethodSent(c2s[1].type)'
    <3>1. c2s'[1].type = c2s[2].type /\ offer' = offer /\ phase' = phase
      BY <2>2 DEF ClientWaits
    <3> QED
      BY <2>1, <3>1 DEF MethodSent
  <2>4. Ahead(0)'
    BY <2>1 DEF Ahead, ClientWaits
  <2> QED
    BY <2>2, <2>3, <2>4 DEF Choosing
<1> QED
  BY <1>3, <1>4

LEMMA AnswerMoves ==
  ASSUME SessionInv, Talking, InUse, phase = "sentInit", c2s # << >>, Len(c2s) = 1,
         c2s' = Tail(c2s), ClientWaits, Agreed', Wrote(1)
  PROVE  Answering'
<1> DEFINE l == Len(out.wire)
           k == Len(out'.wire)
<1>1. l \in Nat /\ read \in Nat
  BY Kinds
<1>2. Len(c2s') = 0
  BY PendingKept
<1>3. read <= l /\ \A i \in (read + 1)..l : out.wire[i].type \in Deferrable
  BY DEF Talking
<1>4. k = l + 1 /\ \A i \in 1..l : out'.wire[i] = out.wire[i]
  BY DEF Wrote, Extends
<1> HIDE DEF l, k
<1>5. read < k /\ k - 1 = l /\ \A i \in (read + 1)..l : i \in 1..l
  BY <1>1, <1>3, <1>4
<1>6. \A i \in (read + 1)..(k - 1) : out'.wire[i].type \in Deferrable
  BY <1>3, <1>4, <1>5
<1>7. read' = read /\ phase' = "sentInit"
  BY DEF ClientWaits
<1> QED
  BY <1>2, <1>5, <1>6, <1>7 DEF Answering, k

\* What the server writes to a client that has read everything is unread.
LEMMA WroteAhead ==
  ASSUME SessionInv, Ahead(0), ClientWaits, NEW n \in Nat, Wrote(n)
  PROVE  Ahead(n)'
<1> DEFINE l == Len(out.wire)
           k == Len(out'.wire)
<1>1. read \in Nat /\ read + 0 = l /\ k = l + n /\ read' = read
  BY Kinds DEF Ahead, Wrote, ClientWaits
<1> HIDE DEF l, k
<1>2. read + n = k
  BY <1>1
<1> QED
  BY <1>1, <1>2 DEF Ahead, k

LEMMA GroupMoves ==
  ASSUME SessionInv, Choosing, phase = "sentGexRequest", c2s # << >>,
         c2s' = Tail(c2s), ClientWaits, Group', Wrote(1)
  PROVE  Grouping'
<1>1. Len(c2s) = 1 /\ Ahead(0)
  BY DEF Choosing
<1>2. Len(c2s') = 0
  BY <1>1, PendingKept
<1>3. Ahead(1)'
  BY <1>1, WroteAhead
<1> QED
  BY <1>2, <1>3 DEF Grouping, ClientWaits

LEMMA ComputeMoves ==
  ASSUME SessionInv, Ahead(0), phase = "sentDh", c2s # << >>, Len(c2s) = 1,
         c2s' = Tail(c2s), ClientWaits, KeysReady', Wrote(2)
  PROVE  Computing'
<1>1. Len(c2s') = 0
  BY PendingKept
<1>2. Ahead(2)'
  BY WroteAhead
<1> QED
  BY <1>1, <1>2 DEF Computing, ClientWaits

-----------------------------------------------------------------------------
(* The server reads: one lemma for each place of ReadingCases.             *)

\* The server takes a packet of type t that its client sent.
Takes(t) == /\ c2s # << >> /\ c2s' = Tail(c2s) /\ ClientWaits
            /\ c2s[1].type = t /\ Receive(t, offer)

\* It goes on with both ends in step.
GoesOn == /\ Took(c2s[1].type) /\ \E n \in Nat : Wrote(n)
          /\ ServiceInv' /\ Joint' /\ LoginInv' /\ FirstKeys'
          /\ transport' = transport

\* The KEXINIT the server waits for, the client's next message behind it or
\* still to come.
LEMMA TakesKexInit ==
  ASSUME SessionInv, Waiting, Takes("KEXINIT"), phase = "sentInit" \/ Hurrying,
         Starting \/ Hurrying
  PROVE  GoesOn
<1>1. /\ c2s # << >> /\ c2s' = Tail(c2s) /\ ClientWaits /\ c2s[1].type = "KEXINIT"
      /\ Receive("KEXINIT", offer) /\ offer' = offer /\ read' = read
  BY DEF Takes, ClientWaits
<1>2. /\ Agreed' /\ transport' = transport /\ Took("KEXINIT")
      /\ Wrote(0) /\ NewTypes({}) /\ Len(out'.wire) = Len(out.wire)
      /\ SameLogin /\ SameKeys /\ out'.blocked = out.blocked
  BY <1>1, HearsKexInit
<1>3. current = 0 /\ next = 0 /\ current' = 0 /\ next' = 0
  BY <1>2 DEF Waiting, Unused, SameKeys
<1>4. ServiceInv /\ FirstKeys
  BY DEF SessionInv
<1>5. out'.blocked = << >> /\ service' = "none"
  BY <1>2, <1>3, <1>4 DEF ServiceInv, FirstKeys, SameLogin
<1>6. ServiceInv'
  BY <1>1, <1>2, <1>4, <1>5, KeepsService DEF ServiceInv
<1>7. Joint'
  BY <1>1, <1>2, HearsMoves DEF Joint
<1>8. LoginInv'
  BY <1>1, <1>2, ReadKeepsLogin
<1>9. FirstKeys'
  BY <1>1, <1>2, <1>3, <1>5, BeforeKeys
<1> QED
  BY <1>1, <1>2, <1>6, <1>7, <1>8, <1>9 DEF GoesOn

\* A request for a group.
LEMMA TakesGroupRequest ==
  ASSUME SessionInv, Choosing, phase = "sentGexRequest", offer.kex = "gex",
         Takes("GEX_REQUEST")
  PROVE  GoesOn
<1>1. /\ c2s # << >> /\ c2s' = Tail(c2s) /\ ClientWaits /\ c2s[1].type = "GEX_REQUEST"
      /\ Receive("GEX_REQUEST", offer) /\ offer' = offer /\ read' = read
  BY DEF Takes, ClientWaits
<1>2. Agreed /\ next = 0
  BY DEF Choosing, Agreed, Exchanging
<1>3. /\ Group' /\ transport' = transport /\ Took("GEX_REQUEST")
      /\ Wrote(1) /\ NewTypes({"GEX_GROUP"})
      /\ SameLogin /\ SameKeys /\ out'.blocked = out.blocked
  BY <1>1, <1>2, AnswersGroup
<1>4. ServiceInv /\ FirstKeys /\ current \in Nat
  BY Kinds DEF SessionInv
<1>5. Busy'
  BY <1>3 DEF Group, Exchanging
<1>6. ServiceInv'
  BY <1>1, <1>3, <1>4, <1>5, KeepsService DEF ServiceInv, SameLogin, SameKeys
<1>7. Joint'
  BY <1>1, <1>3, GroupMoves DEF Joint
<1>8. LoginInv'
  BY <1>1, <1>3, ReadKeepsLogin
<1>9. FirstKeys'
  <2>1. CASE current = 0
    <3>1. out'.blocked = << >>
      BY <1>2, <1>3, <1>4, <2>1 DEF FirstKeys
    <3> QED
      BY <1>1, <1>2, <1>3, <2>1, <3>1, BeforeKeys DEF SameKeys
  <2>2. CASE current > 0
    BY <1>1, <1>3, <1>4, <2>2, LaterKeys DEF SameKeys
  <2> QED
    BY <1>4, <2>1, <2>2
<1> QED
  BY <1>1, <1>3, <1>6, <1>7, <1>8, <1>9 DEF GoesOn

\* A public value, with either method.
LEMMA TakesPublicValue ==
  ASSUME SessionInv, Exchanging, Ahead(0), phase = "sentDh", Len(c2s) = 1,
         NEW t \in {"KEXDH_INIT", "GEX_INIT"}, Takes(t),
         Decoded, KeySetup("KEX_REPLY"), ~dhReady'
  PROVE  GoesOn
<1>1. /\ c2s # << >> /\ c2s' = Tail(c2s) /\ ClientWaits /\ c2s[1].type = t
      /\ offer' = offer /\ read' = read
  BY DEF Takes, ClientWaits
<1>2. t \notin {"NEWKEYS", "LOGIN", "USERAUTH_SUCCESS"}
  OBVIOUS
<1>3. /\ KeysReady' /\ transport' = transport /\ Took(t)
      /\ Wrote(2) /\ NewTypes({"KEX_REPLY", "NEWKEYS"})
      /\ SameLogin /\ current' = current /\ next' # 0
      /\ out'.wire[Len(out.wire) + 1].type = "KEX_REPLY"
      /\ out'.blocked = Announced
  BY <1>1, <1>2, ComputesKeys
<1>4. ServiceInv /\ FirstKeys /\ current \in Nat /\ out.blocked \in Seq(Held)
  BY Kinds DEF SessionInv
<1>5. Busy'
  BY <1>3 DEF KeysReady
<1>6. \A k \in 1..Len(out'.blocked) :
        out'.blocked[k].type \in {"EXT_INFO", "SERVICE_DATA"}
  <2> DEFINE e == [type |-> "EXT_INFO", id |-> out.submitted + 1]
             T == {"EXT_INFO", "SERVICE_DATA"}
  <2>1. \A k \in 1..Len(out.blocked) : out.blocked[k].type \in T
    BY <1>4 DEF ServiceInv
  <2>2. out.submitted \in Nat
    BY Kinds DEF OutState
  <2>3. e \in Held /\ e.type \in T
    BY <2>2 DEF Held, Deferrable
  <2>4. out'.blocked = out.blocked \/ out'.blocked = Append(out.blocked, e)
    BY <1>3 DEF Announced
  <2> HIDE DEF e, T
  <2>5. \A k \in 1..Len(Append(out.blocked, e)) : Append(out.blocked, e)[k].type \in T
    BY <1>4, <2>1, <2>3
  <2> QED
    BY <2>1, <2>4, <2>5 DEF T
<1>7. ServiceInv'
  BY <1>1, <1>3, <1>4, <1>5, <1>6, KeepsService DEF ServiceInv, SameLogin
<1>8. Joint'
  BY <1>1, <1>3, ComputeMoves DEF Joint
<1>9. LoginInv'
  BY <1>1, <1>3, ReadKeepsLogin
<1>10. FirstKeys'
  <2>1. CASE current = 0
    BY <1>1, <1>3, <2>1, KeysComputed
  <2>2. CASE current > 0
    BY <1>1, <1>3, <1>4, <2>2, LaterKeys
  <2> QED
    BY <1>4, <2>1, <2>2
<1> QED
  BY <1>1, <1>3, <1>7, <1>8, <1>9, <1>10 DEF GoesOn

\* The client's NEWKEYS.
LEMMA TakesNewKeys ==
  ASSUME SessionInv, Talking, KeysReady, Takes("NEWKEYS")
  PROVE  GoesOn
<1>1. /\ c2s # << >> /\ c2s' = Tail(c2s) /\ ClientWaits /\ c2s[1].type = "NEWKEYS"
      /\ Receive("NEWKEYS", offer) /\ offer' = offer /\ read' = read
  BY DEF Takes, ClientWaits
<1>2. /\ InUse' /\ transport' = transport /\ Took("NEWKEYS")
      /\ Wrote(Len(out.blocked)) /\ NewTypes({"EXT_INFO", "SERVICE_DATA"})
      /\ out.blocked # << >> =>
           out'.wire[Len(out.wire) + 1].type = out.blocked[1].type
      /\ SameLogin /\ current' = next /\ out'.blocked = << >>
  BY <1>1, SwitchesKeys
<1>3. Len(out.blocked) \in Nat /\ current \in Nat /\ next \in Nat
  BY Kinds
<1>4. current' > 0 /\ current' \in Nat
  BY <1>2, <1>3 DEF InUse
<1>5. \A k \in 1..Len(out'.blocked) :
        out'.blocked[k].type \in {"EXT_INFO", "SERVICE_DATA"}
  BY <1>2
<1>6. current' # 0
  BY <1>4
<1>7. ServiceInv'
  BY <1>1, <1>2, <1>3, <1>5, <1>6, KeepsService
<1>8. Joint'
  <2>1. {"EXT_INFO", "SERVICE_DATA"} \subseteq Deferrable
    BY DEF Deferrable
  <2> QED
    BY <1>1, <1>2, <1>3, <2>1, TalkingGoesOn DEF Joint
<1>9. LoginInv'
  BY <1>1, <1>2, <1>3, ReadKeepsLogin
<1>10. FirstKeys'
  <2>1. CASE current = 0
    BY <1>1, <1>2, <2>1, KeysSwitched
  <2>2. CASE current > 0
    BY <1>1, <1>2, <1>3, <1>4, <2>2, LaterKeys
  <2> QED
    BY <1>3, <2>1, <2>2
<1> QED
  BY <1>1, <1>2, <1>3, <1>7, <1>8, <1>9, <1>10 DEF GoesOn

\* What every answer outside an exchange keeps.
LEMMA StaysTalking ==
  ASSUME SessionInv, Talking, InUse, NEW t, t # "KEXINIT", Takes(t), Took(t), InUse',
         NEW n \in Nat, Wrote(n), NEW T, NewTypes(T), T \subseteq Deferrable,
         SameKeys, out'.blocked = out.blocked
  PROVE  Joint' /\ FirstKeys' /\ ServiceInv'
<1>1. /\ c2s # << >> /\ c2s' = Tail(c2s) /\ ClientWaits /\ c2s[1].type = t
      /\ offer' = offer /\ read' = read
  BY DEF Takes, ClientWaits
<1>2. Joint'
  BY <1>1, TalkingGoesOn DEF Joint
<1>3. current \in Nat /\ current > 0 /\ current' = current
  BY Kinds DEF InUse, SameKeys
<1>4. FirstKeys'
  BY <1>1, <1>3, LaterKeys
<1>5. ServiceInv /\ ~Busy
  BY DEF SessionInv, InUse
<1>6. "DISCONNECT" \notin T /\ "UNIMPLEMENTED" \notin T
  BY DEF Deferrable
<1>7. current' # 0
  BY <1>3
<1>8. ServiceInv'
  BY <1>1, <1>5, <1>6, <1>7, KeepsService DEF ServiceInv
<1> QED
  BY <1>2, <1>4, <1>8

\* A message without an answer, the request for the login, the login.
LEMMA TakesOutsider ==
  ASSUME SessionInv, Talking, InUse, NEW t \in Outsiders, Takes(t)
  PROVE  GoesOn
<1>1. /\ c2s # << >> /\ c2s' = Tail(c2s) /\ ClientWaits /\ c2s[1].type = t
      /\ Receive(t, offer) /\ offer' = offer /\ read' = read /\ t # "KEXINIT"
  BY DEF Takes, ClientWaits, Outsiders
<1>2. CASE t = "IGNORE"
  <2>1. /\ InUse' /\ transport' = transport /\ Took(t)
        /\ Wrote(0) /\ NewTypes({})
        /\ SameLogin /\ SameKeys /\ out'.blocked = out.blocked
    BY <1>1, <1>2, Ignores
  <2>2. Joint' /\ FirstKeys' /\ ServiceInv'
    <3>1. 0 \in Nat /\ {} \subseteq Deferrable
      OBVIOUS
    <3> QED
      BY <1>1, <2>1, <3>1, StaysTalking
  <2>3. LoginInv'
    BY <1>1, <2>1, ReadKeepsLogin
  <2> QED
    BY <1>1, <2>1, <2>2, <2>3 DEF GoesOn
<1>3. CASE t = "REQUEST_USERAUTH"
  <2>1. /\ InUse' /\ transport' = transport /\ Took(t)
        /\ Wrote(1) /\ NewTypes({"SERVICE_ACCEPT"})
        /\ service' = "userauth" /\ SameKeys /\ out'.blocked = out.blocked
    BY <1>1, <1>3, AcceptsService
  <2>2. Joint' /\ FirstKeys' /\ ServiceInv'
    <3>1. 1 \in Nat /\ {"SERVICE_ACCEPT"} \subseteq Deferrable
      BY DEF Deferrable
    <3> QED
      BY <1>1, <2>1, <3>1, StaysTalking
  <2>3. LoginInv'
    BY <1>1, <1>3, <2>1, AcceptKeepsLogin
  <2> QED
    BY <1>1, <2>1, <2>2, <2>3 DEF GoesOn
<1>4. CASE t = "LOGIN"
  <2>1. service = "userauth"
    <3>1. 1 \in 1..Len(c2s)
      BY <1>1, Kinds, EmptySeq
    <3> QED
      BY <1>1, <1>4, <3>1 DEF SessionInv, LoginInv, Pending
  <2>2. /\ InUse' /\ transport' = transport /\ Took(t)
        /\ Wrote(1) /\ NewTypes({"USERAUTH_SUCCESS"})
        /\ service' = "connection" /\ SameKeys /\ out'.blocked = out.blocked
    BY <1>1, <1>4, <2>1, AcceptsLogin
  <2>3. Joint' /\ FirstKeys' /\ ServiceInv'
    <3>1. 1 \in Nat /\ {"USERAUTH_SUCCESS"} \subseteq Deferrable
      BY DEF Deferrable
    <3> QED
      BY <1>1, <2>2, <3>1, StaysTalking
  <2>4. LoginInv'
    BY <1>1, <1>4, <2>2, SuccessKeepsLogin
  <2> QED
    BY <1>1, <2>2, <2>3, <2>4 DEF GoesOn
<1> QED
  BY <1>2, <1>3, <1>4 DEF Outsiders

\* A KEXINIT outside an exchange.
LEMMA TakesRekey ==
  ASSUME SessionInv, Talking, InUse, Len(c2s) = 1, phase = "sentInit", Takes("KEXINIT")
  PROVE  GoesOn
<1>1. /\ c2s # << >> /\ c2s' = Tail(c2s) /\ ClientWaits /\ c2s[1].type = "KEXINIT"
      /\ Receive("KEXINIT", offer) /\ offer' = offer /\ read' = read
  BY DEF Takes, ClientWaits
<1>2. /\ Agreed' /\ transport' = transport /\ Took("KEXINIT")
      /\ Wrote(1) /\ NewTypes({"KEXINIT"})
      /\ SameLogin /\ current' = current /\ out'.blocked = << >>
  BY <1>1, AnswersKexInit
<1>3. current \in Nat /\ current > 0 /\ current' # 0
  BY <1>2, Kinds DEF InUse
<1>4. \A k \in 1..Len(out'.blocked) :
        out'.blocked[k].type \in {"EXT_INFO", "SERVICE_DATA"}
  BY <1>2
<1>5. ServiceInv'
  BY <1>1, <1>2, <1>3, <1>4, KeepsService
<1>6. Joint'
  BY <1>1, <1>2, AnswerMoves DEF Joint
<1>7. LoginInv'
  BY <1>1, <1>2, ReadKeepsLogin
<1>8. FirstKeys'
  BY <1>1, <1>2, <1>3, LaterKeys
<1> QED
  BY <1>1, <1>2, <1>5, <1>6, <1>7, <1>8 DEF GoesOn


\* Every packet the server reads.
LEMMA ReadGoesOn ==
  ASSUME SessionInv, ServerReads
  PROVE  GoesOn
<1> DEFINE t == c2s[1].type
<1>1. /\ c2s # << >> /\ c2s' = Tail(c2s) /\ ClientWaits /\ offer' = offer
  BY DEF ServerReads, ClientWaits
<1>2. PICK m \in Meanings(Head(c2s)) : Receive(m, offer)
  BY DEF ServerReads
<1>3. GetPacket /\ gotVersion
  BY <1>2, ReceiveGets DEF GetPacket
<1>4. Reading(t)
  BY <1>1, <1>3, ReadingCases
<1>5. t \in Outsiders \cup {"KEXINIT", "KEXDH_INIT", "GEX_REQUEST", "GEX_INIT", "NEWKEYS"}
  BY <1>4 DEF Reading, MethodSent
<1>6. t # "GUESS"
  BY <1>5 DEF Outsiders
<1>7. Receive(t, offer)
  <2>1. Meanings(Head(c2s)) = {t}
    BY <1>1, <1>6, Decodes
  <2> QED
    BY <1>2, <2>1
<1>8. Takes(t)
  BY <1>1, <1>7 DEF Takes
<1> HIDE DEF t
<1>9. CASE Waiting /\ Starting /\ Len(c2s) = 1 /\ phase = "sentInit" /\ t = "KEXINIT"
  BY <1>8, <1>9, TakesKexInit
<1>10. CASE Hurrying /\ t = "KEXINIT"
  BY <1>8, <1>10, TakesKexInit DEF Hurrying
<1>11. CASE Choosing /\ MethodSent(t)
  <2>1. /\ Exchanging /\ ~dhReady /\ Ahead(0) /\ Len(c2s) = 1
        /\ proposal = offer
    BY <1>11 DEF Choosing, Agreed, Exchanging, Negotiated
  <2>2. CASE offer.kex = "gex" /\ phase = "sentGexRequest" /\ t = "GEX_REQUEST"
    BY <1>8, <1>11, <2>2, TakesGroupRequest
  <2>3. CASE offer.kex = "direct" /\ phase = "sentDh" /\ t = "KEXDH_INIT"
    <3>1. CanSetKeys
      BY <2>1, Kinds DEF CanSetKeys
    <3>2. ReceiveKexDhInit
      BY <1>7, <2>3 DEF Receive, Outside, t
    <3>3. /\ Decoded /\ KeySetup("KEX_REPLY") /\ ~dhReady'
      <4>1. proposal.kex \notin {"gex", "unset", "unmatched"}
        BY <2>1, <2>3
      <4>2. Decoded /\ KeySetup("KEX_REPLY") /\ dhReady' \in {dhReady, FALSE}
        BY <3>1, <3>2, <4>1 DEF ReceiveKexDhInit
      <4>3. dhReady' = FALSE
        <5>1. dhReady = FALSE
          BY <2>1, Kinds DEF TypeOK
        <5> QED
          BY <4>2, <5>1
      <4> QED
        BY <4>2, <4>3
    <3> QED
      BY <1>8, <2>1, <2>3, <3>3, TakesPublicValue
  <2> QED
    BY <1>11, <2>2, <2>3 DEF MethodSent
<1>12. CASE Grouping /\ phase = "sentDh" /\ Ahead(0) /\ Len(c2s) = 1 /\ t = "GEX_INIT"
  <2>1. Exchanging /\ dhReady /\ proposal = offer
    BY <1>12 DEF Grouping, Group, Exchanging, Negotiated
  <2>2. CanSetKeys /\ proposal.kex \in {"direct", "gex"}
    BY <2>1, Kinds DEF CanSetKeys
  <2>3. ReceiveGexInit
    BY <1>7, <1>12 DEF Receive, Outside, t
  <2>4. Decoded /\ KeySetup("KEX_REPLY") /\ ~dhReady'
    BY <2>1, <2>2, <2>3 DEF ReceiveGexInit
  <2> QED
    BY <1>8, <1>12, <2>1, <2>4, TakesPublicValue
<1>13. CASE Talking /\ KeysReady /\ t = "NEWKEYS"
  BY <1>8, <1>13, TakesNewKeys
<1>14. CASE Talking /\ InUse /\ t \in Outsiders
  BY <1>8, <1>14, TakesOutsider
<1>15. CASE Talking /\ InUse /\ Len(c2s) = 1 /\ phase = "sentInit" /\ t = "KEXINIT"
  BY <1>8, <1>15, TakesRekey
<1> QED
  BY <1>4, <1>9, <1>10, <1>11, <1>12, <1>13, <1>14, <1>15 DEF Reading

\* So what the server reads keeps the invariant.
LEMMA ServerReadsKeeps ==
  ASSUME SessionInv, ServerReads
  PROVE  SessionInv'
<1>1. /\ c2s # << >> /\ c2s' = Tail(c2s) /\ ClientWaits
  BY DEF ServerReads, ClientWaits
<1>2. /\ Took(c2s[1].type) /\ \E n \in Nat : Wrote(n)
      /\ ServiceInv' /\ Joint' /\ LoginInv' /\ FirstKeys'
  BY ReadGoesOn DEF GoesOn
<1>3. InStep' /\ CountInv'
  BY <1>1, <1>2, ReadKeepsStreams
<1>4. SessionTypes'
  BY NextTypes DEF SessionInv, SessionNext
<1>5. Conforming'
  BY DEF SessionInv, Conforming, Matched
<1> QED
  BY <1>2, <1>3, <1>4, <1>5 DEF SessionInv


-----------------------------------------------------------------------------
(* The server acts: version line, services, reactor.                       *)

\* Both streams stay chains when the server writes of its own accord.
LEMMA ActKeepsStreams ==
  ASSUME SessionInv, UNCHANGED client, Incoming' = Incoming, received' = received,
         NEW n \in Nat, Wrote(n), NEW T, NewTypes(T),
         "SERVICE_ACCEPT" \notin T, "USERAUTH_SUCCESS" \notin T, SameLogin
  PROVE  InStep' /\ CountInv' /\ LoginInv'
<1>1. UNCHANGED <<offer, c2s, read, phase, progress, cOut, cIn, rekeys, extra>>
  BY DEF client
<1>2. Following' = Following /\ Count' = Count
  BY <1>1 DEF Following, Count
<1>3. Stream(out'.wire, Coming', offer'.strict, offer'.out)
  BY <1>1 DEF Wrote
<1>4. cIn' = At(out'.wire, Coming', read' + 1)
  <2>1. read + 1 \in 1..(Len(out.wire) + 1)
    BY Kinds, SMTT(30)
  <2>2. At(out'.wire, Coming', read + 1) = At(out.wire, Coming, read + 1)
    BY <2>1 DEF Wrote, Extends
  <2> QED
    BY <1>1, <2>2 DEF SessionInv, InStep
<1>5. InStep'
  BY <1>1, <1>2, <1>3, <1>4 DEF SessionInv, InStep
<1>6. CountInv'
  BY <1>1, <1>2 DEF SessionInv, CountInv
<1>7. LoginInv
  BY DEF SessionInv
<1>8. \A i \in (read' + 1)..Len(out'.wire) :
        \/ i \in (read + 1)..Len(out.wire) /\ out'.wire[i] = out.wire[i]
        \/ i \in (Len(out.wire) + 1)..Len(out'.wire) /\ out'.wire[i].type \in T
  BY <1>1, UnreadKept
<1>9. ASSUME NEW t, t \notin T PROVE Unread(t)' => Unread(t)
  BY <1>8, <1>9 DEF Unread
<1>10. \A i, j \in (read' + 1)..Len(out'.wire) :
         out'.wire[i].type = "SERVICE_ACCEPT" /\ out'.wire[j].type = "SERVICE_ACCEPT" => i = j
  BY <1>7, <1>8 DEF LoginInv
<1>11. ASSUME NEW t PROVE Pending(t)' <=> Pending(t)
  BY <1>1 DEF Pending
<1>12. UNCHANGED <<c2s, progress, service, phase, rekeys>>
  BY <1>1 DEF SameLogin
<1>13. LoginInv'
  BY <1>7, <1>9, <1>10, <1>11, <1>12 DEF LoginInv
<1> QED
  BY <1>5, <1>6, <1>13

\* Where the server is does not depend on what is held back.
LEMMA ServerWaits ==
  ASSUME UNCHANGED <<offer, gotVersion, negotiated, exchange, keys>>, out'.wire = out.wire
  PROVE  /\ Before => Before'
         /\ Waiting => Waiting'
         /\ Agreed => Agreed'
         /\ Group => Group'
         /\ KeysReady => KeysReady'
         /\ InUse => InUse'
         /\ Busy' = Busy
<1>1. UNCHANGED <<gotVersion, proposal, strictKex, extInfo, kexState, initialKexDone,
                  sessionID, dhReady, current, next, aliased, keyCount, offer>>
  BY DEF negotiated, exchange, keys
<1>2. /\ Before => Before'
      /\ Waiting => Waiting'
      /\ Busy' = Busy
  BY <1>1 DEF Before, Waiting, Unused, Busy, Last
<1>3. Exchanging => Exchanging'
  BY <1>1 DEF Exchanging, Negotiated, Busy
<1>4. /\ Agreed => Agreed'
      /\ Group => Group'
  BY <1>1, <1>3 DEF Agreed, Group, Last
<1>5. /\ KeysReady => KeysReady'
      /\ InUse => InUse'
  BY <1>1 DEF KeysReady, InUse, Negotiated, Busy, Last
<1> QED
  BY <1>2, <1>4, <1>5

LEMMA JointStays ==
  ASSUME Joint, UNCHANGED client, out'.wire = out.wire,
         UNCHANGED <<gotVersion, negotiated, exchange, keys>>
  PROVE  Joint'
<1>1. UNCHANGED <<offer, c2s, read, phase, progress>>
  BY DEF client
<1>2. /\ Before => Before'
      /\ Waiting => Waiting'
      /\ Agreed => Agreed'
      /\ Group => Group'
      /\ KeysReady => KeysReady'
      /\ InUse => InUse'
      /\ Busy' = Busy
  BY <1>1, ServerWaits
<1>3. \A n \in {0, 1, 2} : Ahead(n) => Ahead(n)'
  BY <1>1 DEF Ahead
<1>4. CASE Starting
  BY <1>1, <1>2, <1>4 DEF Starting, Joint
<1>5. CASE Answering
  BY <1>1, <1>2, <1>5 DEF Answering, Joint
<1>6. CASE Hurrying
  BY <1>1, <1>2, <1>3, <1>6 DEF Hurrying, Joint, MethodSent
<1>7. CASE Choosing
  BY <1>1, <1>2, <1>3, <1>7 DEF Choosing, Joint, MethodSent
<1>8. CASE Grouping
  BY <1>1, <1>2, <1>3, <1>8 DEF Grouping, Joint
<1>9. CASE Computing
  BY <1>1, <1>2, <1>3, <1>9 DEF Computing, Joint
<1>10. CASE Talking
  BY <1>1, <1>2, <1>10 DEF Talking, Joint
<1> QED
  BY <1>4, <1>5, <1>6, <1>7, <1>8, <1>9, <1>10 DEF Joint

\* Nothing is read or written: the messages of the services may be held back.
LEMMA StaysPut ==
  ASSUME SessionInv, UNCHANGED client, out'.wire = out.wire, out'.seq = out.seq,
         UNCHANGED <<gotVersion, negotiated, exchange, keys, comps, login, input>>
  PROVE  Wrote(0) /\ NewTypes({}) /\ InStep' /\ CountInv' /\ LoginInv' /\ Joint'
<1>1. Coming' = Coming /\ Incoming' = Incoming /\ received' = received /\ SameLogin
  BY DEF Coming, Busy, Incoming, SameLogin, negotiated, exchange, keys, comps, login, input
<1>2. Wrote(0) /\ NewTypes({})
  BY <1>1, WroteNothing
<1>3. InStep' /\ CountInv' /\ LoginInv'
  BY <1>1, <1>2, ActKeepsStreams
<1>4. Joint'
  BY JointStays DEF SessionInv
<1> QED
  BY <1>2, <1>3, <1>4

\* Nothing is held back either (Timeout, ConnectionLost).
LEMMA StaysSame ==
  ASSUME SessionInv, SessionTypes', UNCHANGED client, out' = out,
         UNCHANGED <<gotVersion, negotiated, exchange, keys, comps, login, input>>
  PROVE  SessionInv'
<1>1. InStep' /\ CountInv' /\ LoginInv' /\ Joint'
  BY StaysPut
<1>2. /\ UNCHANGED <<out, offer>>
      /\ UNCHANGED <<kexState, current, next, service>>
  BY DEF client, exchange, keys, login
<1>3. ServiceInv' /\ FirstKeys'
  BY <1>2 DEF SessionInv, ServiceInv, Busy, Written, FirstKeys, ExtInfoFollowsNewKeys
<1>4. Conforming'
  BY DEF SessionInv, Conforming, Matched
<1> QED
  BY <1>1, <1>3, <1>4 DEF SessionInv


\* Where both ends are before the server has the version line.
LEMMA VersionComes ==
  ASSUME SessionInv, ~gotVersion PROVE Before /\ Starting
BY DEF SessionInv, Joint, Starting, Answering, Hurrying, Choosing, Grouping,
   Computing, Talking, Agreed, Group, Exchanging, KeysReady, InUse, Negotiated, Waiting

\* The version line of the client: the server sends its KEXINIT.
LEMMA VersionKeeps ==
  ASSUME SessionInv, SessionTypes', ReceiveVersion("2.0"), UNCHANGED client
  PROVE  SessionInv'
<1>1. /\ TypeOK /\ out \in OutState /\ Len(out.wire) \in Nat /\ offer \in Proposal
  BY Kinds
<1>2. /\ ~gotVersion /\ gotVersion'
      /\ out' = [SendPacket(out, current, "KEXINIT") EXCEPT !.blocked = << >>]
      /\ kexState' = "requested" /\ transport' = transport
      /\ UNCHANGED <<timer, negotiated, initialKexDone, sessionID, dhReady, keys,
                     comps, login, input>>
  BY DEF ReceiveVersion, SendKexInit
<1>3. Before /\ Starting
  BY <1>2, VersionComes
<1>4. ~Busy /\ current = 0 /\ next = 0 /\ Len(out.wire) = 0
  BY <1>3 DEF Before, Unused
<1>5. "KEXINIT" \in Immediate
  BY DEF Immediate
<1>6. /\ SendPacket(out, current, "KEXINIT") \in OutState
      /\ SendPacket(out, current, "KEXINIT").seq = out.seq + 1
  BY <1>1, <1>4, <1>5, Immediately, SendsFields
<1>7. /\ out'.wire = SendPacket(out, current, "KEXINIT").wire
      /\ out'.blocked = << >> /\ out'.seq = out.seq + 1
  BY <1>2, <1>6 DEF OutState
<1>8. UNCHANGED <<current, next, outComp, inComp, proposal, service, inSeq, received,
                  offer, c2s, read, phase>>
  BY <1>2 DEF keys, comps, negotiated, login, input, client
<1>9. /\ Coming = [key |-> current, seq |-> out.seq, comp |-> outComp]
      /\ Coming' = After(Coming, "KEXINIT", offer.strict, offer.out)
  BY <1>4, <1>7, <1>8 DEF Coming, After
<1>10. Wrote(1) /\ NewTypes({"KEXINIT"}) /\ out'.wire[Len(out'.wire)].type = "KEXINIT"
  BY <1>4, <1>5, <1>7, <1>9, Immediately, WroteOne
<1>11. Incoming' = Incoming /\ SameLogin
  BY <1>8 DEF Incoming, SameLogin
<1>12. InStep' /\ CountInv' /\ LoginInv'
  BY <1>8, <1>10, <1>11, ActKeepsStreams
<1>13. ServiceInv
  BY DEF SessionInv
<1>14. ServiceInv'
  BY <1>4, <1>7, <1>8, <1>10, <1>13, KeepsService DEF ServiceInv
<1>15. FirstKeys'
  BY <1>4, <1>7, <1>8, <1>10, BeforeKeys
<1>16. Joint'
  <2>1. Len(out'.wire) = 1
    BY <1>4, <1>10 DEF Wrote
  <2>2. Unused'
    BY <1>2, <1>3 DEF Before, Unused, negotiated, keys
  <2>3. Waiting'
    BY <1>2, <1>10, <2>1, <2>2 DEF Waiting, Last
  <2> QED
    BY <1>3, <1>8, <2>3 DEF Starting, Joint
<1>17. Conforming'
  BY DEF SessionInv, Conforming, Matched
<1> QED
  BY <1>12, <1>14, <1>15, <1>16, <1>17 DEF SessionInv

\* Services run only where the exchange is over or another one waits for its
\* client.
LEMMA ServicesNeedKeys ==
  ASSUME SessionInv, service # "none"
  PROVE  current \in Nat /\ current > 0 /\ (Busy \/ (Talking /\ InUse))
<1>1. current \in Nat /\ current # 0
  BY Kinds DEF SessionInv, ServiceInv
<1>2. Busy \/ (Talking /\ InUse)
  BY <1>1 DEF SessionInv, Joint, Starting, Answering, Hurrying, Choosing, Grouping,
     Computing, Talking, Agreed, Group, Exchanging, KeysReady, Waiting, Before, Unused,
     Busy
<1> QED
  BY <1>1, <1>2

\* A service sends during an exchange: the message waits.
LEMMA HeldBackKeeps ==
  ASSUME SessionInv, SessionTypes', ServiceSends, Busy, UNCHANGED client
  PROVE  SessionInv'
<1>1. /\ TypeOK /\ out \in OutState /\ current \in Nat /\ out.blocked \in Seq(Held)
      /\ out.submitted \in Nat
  BY Kinds DEF OutState
<1>2. /\ service # "none" /\ out' = SendPacket(out, current, "SERVICE_DATA")
      /\ UNCHANGED <<link, negotiated, exchange, keys, comps, login, input>>
  BY DEF ServiceSends, Reply
<1>3. UNCHANGED <<gotVersion, kexState, current, next, service, offer, read>>
  BY <1>2 DEF link, exchange, keys, login, client
<1>4. "SERVICE_DATA" \in Deferrable
  BY DEF Deferrable
<1> DEFINE e == [type |-> "SERVICE_DATA", id |-> out.submitted + 1]
<1>5. out'.wire = out.wire /\ out'.seq = out.seq /\ out'.blocked = Append(out.blocked, e)
  BY <1>1, <1>2, <1>4, SendsHeld
<1>6. e \in Held /\ e.type = "SERVICE_DATA"
  BY <1>1, <1>4 DEF Held
<1> HIDE DEF e
<1>7. /\ Wrote(0) /\ NewTypes({})
      /\ InStep' /\ CountInv' /\ LoginInv' /\ Joint'
  BY <1>2, <1>3, <1>5, StaysPut
<1>8. current \in Nat /\ current > 0 /\ Busy'
  BY <1>2, <1>3, ServicesNeedKeys DEF Busy
<1>9. \A k \in 1..Len(out'.blocked) :
        out'.blocked[k].type \in {"EXT_INFO", "SERVICE_DATA"}
  <2>1. \A k \in 1..Len(out.blocked) :
          out.blocked[k].type \in {"EXT_INFO", "SERVICE_DATA"}
    BY DEF SessionInv, ServiceInv
  <2> QED
    BY <1>1, <1>5, <1>6, <2>1
<1>10. ServiceInv'
  <2>1. current' # 0
    BY <1>3, <1>8
  <2> QED
    BY <1>3, <1>7, <1>8, <1>9, <2>1, KeepsService
<1>11. FirstKeys'
  BY <1>3, <1>7, <1>8, LaterKeys
<1>12. Conforming'
  BY DEF SessionInv, Conforming, Matched
<1> QED
  BY <1>7, <1>10, <1>11, <1>12 DEF SessionInv

\* It sends outside an exchange: the message is written.
LEMMA ServiceKeeps ==
  ASSUME SessionInv, SessionTypes', ServiceSends, ~Busy, UNCHANGED client
  PROVE  SessionInv'
<1>1. /\ TypeOK /\ out \in OutState /\ current \in Nat
  BY Kinds
<1>2. /\ service # "none" /\ out' = SendPacket(out, current, "SERVICE_DATA")
      /\ UNCHANGED <<link, negotiated, exchange, keys, comps, login, input>>
  BY DEF ServiceSends, Reply
<1>3. UNCHANGED <<gotVersion, kexState, current, next, service, proposal, outComp,
                  inComp, inSeq, received, offer, c2s, read, phase>>
  BY <1>2 DEF link, exchange, keys, login, negotiated, comps, input, client
<1>4. Talking /\ InUse /\ current > 0
  BY <1>2, ServicesNeedKeys
<1>5. "SERVICE_DATA" \in Deferrable
  BY DEF Deferrable
<1>6. out'.seq = out.seq + 1 /\ out'.blocked = out.blocked
  <2>1. /\ SendPacket(out, current, "SERVICE_DATA").blocked = out.blocked
        /\ SendPacket(out, current, "SERVICE_DATA").seq =
             IF strictKex /\ "SERVICE_DATA" = "NEWKEYS" THEN 0 ELSE out.seq + 1
    BY <1>1, <1>5, SendsFields, Zenon
  <2> QED
    BY <1>2, <2>1
<1>7. /\ Coming = [key |-> current, seq |-> out.seq, comp |-> outComp]
      /\ Coming' = After(Coming, "SERVICE_DATA", offer.strict, offer.out)
  BY <1>3, <1>6 DEF Coming, After, Busy
<1>8. Wrote(1) /\ NewTypes({"SERVICE_DATA"})
  BY <1>2, <1>5, <1>7, WroteOne
<1>9. InUse'
  BY <1>2, <1>3, <1>4, StaysInUse
<1>10. InStep' /\ CountInv' /\ LoginInv'
  <2>1. Incoming' = Incoming /\ SameLogin
    BY <1>3 DEF Incoming, SameLogin
  <2> QED
    BY <1>3, <1>8, <2>1, ActKeepsStreams
<1>11. ServiceInv
  BY DEF SessionInv
<1>12. ServiceInv'
  BY <1>3, <1>6, <1>8, <1>11, KeepsService DEF ServiceInv, Busy
<1>13. FirstKeys'
  BY <1>1, <1>3, <1>4, <1>8, LaterKeys
<1>14. Talking'
  <2> DEFINE l == Len(out.wire)
             k == Len(out'.wire)
             unread == IF phase = "sentNewKeys" THEN read + 1 ELSE read
  <2>1. l \in Nat /\ read \in Nat
    BY Kinds
  <2>2. /\ k = l + 1 /\ \A i \in 1..l : out'.wire[i] = out.wire[i]
        /\ \A i \in (l + 1)..k : out'.wire[i].type = "SERVICE_DATA"
    BY <1>8 DEF Wrote, Extends, NewTypes
  <2>3. /\ unread <= l
        /\ phase = "sentNewKeys" => out.wire[unread].type = "NEWKEYS"
        /\ \A i \in (unread + 1)..l : out.wire[i].type \in Deferrable
    BY <1>4 DEF Talking
  <2> HIDE DEF l, k
  <2>4. unread <= k /\ (phase = "sentNewKeys" => unread \in 1..l)
    BY <2>1, <2>2, <2>3
  <2>5. \A i \in (unread + 1)..k : out'.wire[i].type \in Deferrable
    <3> TAKE i \in (unread + 1)..k
    <3>1. CASE i <= l
      <4>1. i \in (unread + 1)..l /\ i \in 1..l
        BY <2>1, <3>1
      <4> QED
        BY <2>2, <2>3, <4>1
    <3>2. CASE i > l
      <4>1. i \in (l + 1)..k
        BY <2>1, <2>2, <3>2
      <4> QED
        BY <1>5, <2>2, <4>1
    <3> QED
      BY <2>1, <3>1, <3>2
  <2>6. phase = "sentNewKeys" => out'.wire[unread].type = "NEWKEYS"
    BY <2>2, <2>3, <2>4
  <2>7. Busy' = Busy
    BY <1>3 DEF Busy
  <2> QED
    BY <1>3, <1>4, <1>9, <2>4, <2>5, <2>6, <2>7 DEF Talking, k
<1>15. Conforming'
  BY DEF SessionInv, Conforming, Matched
<1> QED
  BY <1>10, <1>12, <1>13, <1>14, <1>15 DEF SessionInv, Joint

\* So what the server does of its own accord keeps the invariant.
LEMMA ServerActsKeeps ==
  ASSUME SessionInv, ServerActs
  PROVE  SessionInv'
<1>1. UNCHANGED client
  BY DEF ServerActs
<1>2. SessionTypes'
  BY NextTypes DEF SessionInv, SessionNext
<1>3. CASE ReceiveVersion("2.0")
  BY <1>1, <1>2, <1>3, VersionKeeps
<1>4. CASE ServiceSends
  BY <1>1, <1>2, <1>4, HeldBackKeeps, ServiceKeeps
<1>5. CASE Timeout \/ ConnectionLost
  BY <1>1, <1>2, <1>5, StaysSame DEF Timeout, ConnectionLost
<1> QED
  BY <1>3, <1>4, <1>5 DEF ServerActs


-----------------------------------------------------------------------------
(* The client.                                                             *)

\* Compression starts with keys or with the login, never with both: a client
\* that logged in before does not exchange keys under delayed compression.
LEMMA NoDelayedRekey ==
  ASSUME SessionInv, phase # "idle", NEW z \in {offer.in, offer.out}
  PROVE  /\ progress # "tried" /\ progress \in {"start", "done"}
         /\ ~(z = "zlib@openssh.com" /\ progress = "done")
<1>1. /\ progress = IF rekeys = 0 THEN "start" ELSE "done"
      /\ rekeys \in 0..MaxRekeys /\ offer \in Proposals
  BY DEF SessionInv, LoginInv, SessionTypes, ClientTypes
<1>2. CASE rekeys = 0
  BY <1>1, <1>2
<1>3. CASE rekeys # 0
  <2>1. MaxRekeys # 0
    BY <1>1, <1>3
  <2>2. "zlib@openssh.com" \notin {offer.out, offer.in}
    BY <1>1, <2>1 DEF SessionInv, Conforming
  <2> QED
    BY <1>1, <1>3, <2>2
<1> QED
  BY <1>2, <1>3

\* The client's next packet extends its stream.
LEMMA Sends ==
  ASSUME SessionInv, UNCHANGED vars, offer' = offer, progress # "tried",
         NEW t \in MessageTypes, ClientSend(t),
         Following' = After(cOut, t, offer.strict, offer.in)
  PROVE  /\ Chain(c2s', Incoming', Following', offer'.strict, offer'.in)
         /\ Len(c2s') = Len(c2s) + 1 /\ c2s'[Len(c2s) + 1].type = t
         /\ \A i \in 1..Len(c2s) : c2s'[i] = c2s[i]
<1> DEFINE e == Encoded(t, cOut)
<1>1. cOut \in Direction /\ c2s \in Seq(ClientPacket) /\ Len(c2s) \in Nat
  BY Kinds DEF SessionInv, SessionTypes, ClientTypes
<1>2. e \in ClientPacket /\ e.type = t /\ State(e) = cOut
  BY <1>1 DEF Encoded, ClientPacket, Direction, State
<1>3. c2s' = Append(c2s, e) /\ Incoming' = Incoming
  BY DEF ClientSend, Incoming, vars, keys, comps, input
<1> HIDE DEF e
<1>4. Following = cOut
  BY DEF Following
<1>5. Chain(c2s, Incoming, State(e), offer.strict, offer.in)
  BY <1>2, <1>4 DEF SessionInv, InStep
<1>6. Chain(Append(c2s, e), Incoming, After(State(e), e.type, offer.strict, offer.in),
            offer.strict, offer.in)
  BY <1>1, <1>2, <1>5, ChainAppend
<1>7. Chain(c2s', Incoming', Following', offer'.strict, offer'.in)
  BY <1>2, <1>3, <1>6
<1>8. /\ Len(Append(c2s, e)) = Len(c2s) + 1 /\ Append(c2s, e)[Len(c2s) + 1] = e
      /\ \A i \in 1..Len(c2s) : Append(c2s, e)[i] = c2s[i]
  BY <1>1, <1>2, AppendProperties
<1> QED
  BY <1>2, <1>3, <1>7, <1>8

\* A message that does not change its direction.
LEMMA SendsPlain ==
  ASSUME SessionInv, UNCHANGED vars, offer' = offer, progress # "tried", progress' # "tried",
         NEW t \in MessageTypes \ {"NEWKEYS", "LOGIN", "USERAUTH_SUCCESS"}, ClientSend(t)
  PROVE  /\ Chain(c2s', Incoming', Following', offer'.strict, offer'.in)
         /\ Len(c2s') = Len(c2s) + 1 /\ c2s'[Len(c2s) + 1].type = t
         /\ \A i \in 1..Len(c2s) : c2s'[i] = c2s[i]
<1>1. cOut \in Direction
  BY DEF SessionInv, SessionTypes, ClientTypes
<1>2. cOut' = [cOut EXCEPT !.seq = @ + 1]
  BY DEF ClientSend, Advance
<1>3. Following' = cOut'
  BY DEF Following
<1>4. After(cOut, t, offer.strict, offer.in) = [cOut EXCEPT !.seq = @ + 1]
  BY <1>1 DEF After, Direction
<1> QED
  BY <1>2, <1>3, <1>4, Sends

\* Nothing of the server has changed.
LEMMA ClientKeeps ==
  ASSUME SessionInv, SessionTypes', UNCHANGED vars, offer' = offer,
         Chain(c2s', Incoming', Following', offer'.strict, offer'.in),
         cIn' = At(out.wire, Coming, read' + 1),
         Joint', LoginInv', CountInv'
  PROVE  SessionInv'
<1>1. /\ UNCHANGED <<out, kexState, current, next, service, proposal, outComp, offer>>
  BY DEF vars, exchange, keys, login, comps, negotiated
<1>2. Coming' = Coming
  BY <1>1 DEF Coming, Busy
<1>3. InStep'
  BY <1>1, <1>2 DEF SessionInv, InStep
<1>4. ServiceInv' /\ FirstKeys'
  BY <1>1 DEF SessionInv, ServiceInv, Busy, Written, FirstKeys, ExtInfoFollowsNewKeys
<1>5. Conforming'
  BY DEF SessionInv, Conforming, Matched
<1> QED
  BY <1>3, <1>4, <1>5 DEF SessionInv

\* Where a client is idle, and where it has not begun.
LEMMA IdleTalks ==
  ASSUME SessionInv
  PROVE  /\ phase = "idle" => Talking
         /\ phase = "start" => Starting
BY DEF SessionInv, Joint, Starting, Answering, Hurrying, Choosing, Grouping,
   Computing, Talking, MethodSent


\* What the client writes outside an exchange follows what it wrote before.
LEMMA TalkingSends ==
  ASSUME SessionInv, Talking, phase = "idle", UNCHANGED vars,
         offer' = offer, read' = read, NEW t,
         Len(c2s') = Len(c2s) + 1, c2s'[Len(c2s) + 1].type = t,
         \A i \in 1..Len(c2s) : c2s'[i] = c2s[i],
         \/ phase' = "idle" /\ t \in Outsiders
         \/ phase' = "sentInit" /\ t = "KEXINIT"
  PROVE  Talking'
<1> DEFINE m == Len(c2s)
           k == Len(c2s')
           front == IF Busy THEN 1 ELSE 0
           back2 == IF phase' = "sentInit" THEN 1 ELSE 0
<1>1. m \in Nat
  BY Kinds
<1>2. /\ KeysReady => KeysReady'
      /\ InUse => InUse'
      /\ Busy' = Busy
  BY ServerWaits DEF vars, link
<1>3. out' = out
  BY DEF vars
<1>4. /\ KeysReady \/ InUse
      /\ m >= front
      /\ Busy => c2s[1].type = "NEWKEYS"
      /\ \A i \in (front + 1)..m : c2s[i].type \in Outsiders
      /\ read <= Len(out.wire)
      /\ \A i \in (read + 1)..Len(out.wire) : out.wire[i].type \in Deferrable
  <2>1. m >= front + 0 /\ \A i \in (front + 1)..(m - 0) : c2s[i].type \in Outsiders
    BY DEF Talking
  <2>2. front + 0 = front /\ m - 0 = m
    BY <1>1
  <2> QED
    BY <2>1, <2>2 DEF Talking
<1>5. k = m + 1 /\ c2s'[m + 1].type = t /\ \A i \in 1..m : c2s'[i] = c2s[i]
  OBVIOUS
<1> HIDE DEF m, k
<1>6. k >= front + back2
  BY <1>1, <1>4, <1>5
<1>7. Busy => c2s'[1].type = "NEWKEYS"
  <2> SUFFICES ASSUME Busy PROVE c2s'[1].type = "NEWKEYS"
    OBVIOUS
  <2>1. 1 \in 1..m
    BY <1>1, <1>4
  <2> QED
    BY <1>4, <1>5, <2>1
<1>8. phase' = "sentInit" => c2s'[k].type = "KEXINIT"
  BY <1>5
<1>9. \A i \in (front + 1)..(k - back2) : c2s'[i].type \in Outsiders
  <2> TAKE i \in (front + 1)..(k - back2)
  <2>1. CASE i <= m
    <3>1. i \in (front + 1)..m /\ i \in 1..m
      BY <1>1, <2>1
    <3> QED
      BY <1>4, <1>5, <3>1
  <2>2. CASE i = m + 1
    <3>1. phase' # "sentInit"
      BY <1>1, <1>5, <2>2
    <3> QED
      BY <1>5, <2>2, <3>1
  <2> QED
    BY <1>1, <1>5, <2>1, <2>2
<1>10. phase' \in {"idle", "sentInit"}
  OBVIOUS
<1> HIDE DEF front, back2
<1> QED
  BY <1>2, <1>3, <1>4, <1>6, <1>7, <1>8, <1>9, <1>10 DEF Talking, front, back2, k

\* KEXINIT, first or again.
LEMMA ClientKexInitKeeps ==
  ASSUME SessionInv, SessionTypes', ClientKexInit
  PROVE  SessionInv'
<1>1. /\ ClientSend("KEXINIT") /\ phase' = "sentInit"
      /\ UNCHANGED <<vars, offer, read, progress, cIn, extra>>
      /\ \/ phase = "start" /\ rekeys' = rekeys
         \/ phase = "idle" /\ progress = "done" /\ rekeys' = rekeys + 1
  BY DEF ClientKexInit, SessionInv, Conforming
<1>2. progress # "tried" /\ progress' # "tried"
  BY <1>1, NoDelayedRekey
<1>3. /\ Chain(c2s', Incoming', Following', offer'.strict, offer'.in)
      /\ Len(c2s') = Len(c2s) + 1 /\ c2s'[Len(c2s) + 1].type = "KEXINIT"
      /\ \A i \in 1..Len(c2s) : c2s'[i] = c2s[i]
  BY <1>1, <1>2, SendsPlain DEF MessageTypes
<1>4. Len(c2s) \in Nat /\ rekeys \in Nat /\ received \in Nat /\ extra \in Nat
  BY Kinds, ClientAssumption DEF SessionInv, SessionTypes, ClientTypes
<1>5. out' = out /\ service' = service /\ received' = received
  BY <1>1 DEF vars, login, input
<1>6. Joint'
  <2>1. CASE phase = "start"
    <3>1. /\ Before => Before'
          /\ Waiting => Waiting'
      BY <1>1, ServerWaits DEF vars, link
    <3>2. Starting
      BY <2>1, IdleTalks
    <3>3. Len(c2s') = 1 /\ c2s'[1].type = "KEXINIT"
      BY <1>3, <2>1, <3>2 DEF Starting
    <3> QED
      BY <1>1, <3>1, <3>2, <3>3 DEF Starting, Joint
  <2>2. CASE phase = "idle"
    BY <1>1, <1>3, <2>2, IdleTalks, TalkingSends DEF Joint
  <2> QED
    BY <1>1, <2>1, <2>2
<1>7. CountInv'
  <2> DEFINE m == Len(c2s)
             k == Len(c2s')
             steps == CASE progress = "start" -> 0
                        [] progress \in {"requested", "accepted"} -> 1 [] OTHER -> 2
  <2>1. k = m + 1 /\ m \in Nat
    BY <1>3, <1>4
  <2>2. received + m <= 4 * rekeys + (IF phase = "start" THEN 0 ELSE 4) + steps + extra
    BY <1>1 DEF SessionInv, CountInv, Count
  <2>3. steps \in Nat
    OBVIOUS
  <2> HIDE DEF m, k, steps
  <2>4. received + k <= 4 * rekeys' + 1 + steps + extra
    BY <1>1, <1>4, <2>1, <2>2, <2>3
  <2> QED
    BY <1>1, <1>5, <2>4 DEF CountInv, Count, k, steps
<1>8. LoginInv'
  <2>1. LoginInv
    BY DEF SessionInv
  <2>2. \A i \in 1..Len(c2s') :
          (i \in 1..Len(c2s) /\ c2s'[i] = c2s[i]) \/ c2s'[i].type = "KEXINIT"
    BY <1>3, <1>4
  <2>3. ASSUME NEW t, t # "KEXINIT" PROVE Pending(t)' => Pending(t)
    BY <2>2, <2>3 DEF Pending
  <2>4. ASSUME NEW t PROVE Unread(t)' <=> Unread(t)
    BY <1>1, <1>5 DEF Unread
  <2>5. \A i, j \in 1..Len(c2s') :
          c2s'[i].type = c2s'[j].type
            /\ c2s'[i].type \in {"REQUEST_USERAUTH", "LOGIN"} => i = j
    BY <2>1, <2>2 DEF LoginInv
  <2>6. progress' = IF rekeys' = 0 THEN "start" ELSE "done"
    BY <1>1, <1>4, <2>1 DEF LoginInv
  <2> QED
    BY <1>1, <1>5, <2>1, <2>3, <2>4, <2>5, <2>6 DEF LoginInv
<1>9. cIn' = At(out.wire, Coming, read' + 1)
  BY <1>1 DEF SessionInv, InStep
<1> QED
  BY <1>1, <1>3, <1>6, <1>7, <1>8, <1>9, ClientKeeps

\* The request for the login service and the login.
LEMMA ClientLoginKeeps ==
  ASSUME SessionInv, SessionTypes', ClientLogin
  PROVE  SessionInv'
<1>1. PICK t \in {"REQUEST_USERAUTH", "LOGIN"} :
        /\ ClientSend(t) /\ phase = "idle"
        /\ \/ t = "REQUEST_USERAUTH" /\ progress = "start" /\ progress' = "requested"
           \/ t = "LOGIN" /\ progress = "accepted" /\ progress' = "tried"
        /\ UNCHANGED <<vars, offer, read, phase, cIn, rekeys, extra>>
  BY DEF ClientLogin
<1>2. /\ Chain(c2s', Incoming', Following', offer'.strict, offer'.in)
      /\ Len(c2s') = Len(c2s) + 1 /\ c2s'[Len(c2s) + 1].type = t
      /\ \A i \in 1..Len(c2s) : c2s'[i] = c2s[i]
  <2>1. CASE t = "REQUEST_USERAUTH"
    BY <1>1, <2>1, SendsPlain DEF MessageTypes, Outside
  <2>2. CASE t = "LOGIN"
    <3>1. cOut' = [cOut EXCEPT !.seq = @ + 1] /\ cOut \in Direction
      BY <1>1, <2>2 DEF ClientSend, Advance, SessionInv, SessionTypes, ClientTypes
    <3>2. Following' = After(cOut, "LOGIN", offer.strict, offer.in)
      BY <1>1, <2>2, <3>1 DEF Following, After, Direction
    <3> QED
      BY <1>1, <2>2, <3>2, Sends DEF MessageTypes, Outside
  <2> QED
    BY <2>1, <2>2
<1>3. Len(c2s) \in Nat /\ rekeys \in Nat /\ received \in Nat /\ extra \in Nat
  BY Kinds, ClientAssumption DEF SessionInv, SessionTypes, ClientTypes
<1>4. out' = out /\ service' = service /\ received' = received
  BY <1>1 DEF vars, login, input
<1>5. Joint'
  BY <1>1, <1>2, IdleTalks, TalkingSends DEF Joint, Outsiders
<1>6. CountInv'
  <2> DEFINE m == Len(c2s)
             k == Len(c2s')
  <2>1. k = m + 1 /\ m \in Nat
    BY <1>2, <1>3
  <2>2. received + m <= 4 * rekeys + 4 + (IF progress = "start" THEN 0 ELSE 1) + extra
    BY <1>1 DEF SessionInv, CountInv, Count
  <2> HIDE DEF m, k
  <2>3. received + k <= 4 * rekeys + 4 + (IF progress = "start" THEN 1 ELSE 2) + extra
    BY <1>3, <2>1, <2>2
  <2> QED
    BY <1>1, <1>4, <2>3 DEF CountInv, Count, k
<1>7. LoginInv'
  <2>1. LoginInv
    BY DEF SessionInv
  <2>2. \A i \in 1..Len(c2s') :
          \/ i \in 1..Len(c2s) /\ c2s'[i] = c2s[i]
          \/ i = Len(c2s) + 1 /\ c2s'[i].type = t
    BY <1>2, <1>3
  <2>3. ASSUME NEW u, u # t PROVE Pending(u)' => Pending(u)
    BY <2>2, <2>3 DEF Pending
  <2>4. ASSUME NEW u PROVE Unread(u)' <=> Unread(u)
    BY <1>1, <1>4 DEF Unread
  <2>5. ~Pending(t)
    BY <1>1, <2>1 DEF LoginInv
  <2>6. \A i, j \in 1..Len(c2s') :
          c2s'[i].type = c2s'[j].type
            /\ c2s'[i].type \in {"REQUEST_USERAUTH", "LOGIN"} => i = j
    BY <2>1, <2>2, <2>5 DEF LoginInv, Pending
  <2>7. /\ ~Unread("SERVICE_ACCEPT")
        /\ t = "LOGIN" => service = "userauth" /\ ~Unread("USERAUTH_SUCCESS")
        /\ Unread("USERAUTH_SUCCESS") => FALSE
        /\ ~Pending("REQUEST_USERAUTH") /\ ~Pending("LOGIN")
    BY <1>1, <2>1 DEF LoginInv
  <2> QED
    BY <1>1, <1>4, <2>1, <2>3, <2>4, <2>6, <2>7 DEF LoginInv
<1>8. cIn' = At(out.wire, Coming, read' + 1)
  BY <1>1 DEF SessionInv, InStep
<1> QED
  BY <1>1, <1>2, <1>5, <1>6, <1>7, <1>8, ClientKeeps

\* Anything else.
LEMMA ClientExtraKeeps ==
  ASSUME SessionInv, SessionTypes', ClientExtra
  PROVE  SessionInv'
<1>1. /\ ClientSend("IGNORE") /\ phase = "idle" /\ progress # "tried"
      /\ extra' = extra + 1
      /\ UNCHANGED <<vars, offer, read, phase, progress, cIn, rekeys>>
  BY DEF ClientExtra
<1>2. /\ Chain(c2s', Incoming', Following', offer'.strict, offer'.in)
      /\ Len(c2s') = Len(c2s) + 1 /\ c2s'[Len(c2s) + 1].type = "IGNORE"
      /\ \A i \in 1..Len(c2s) : c2s'[i] = c2s[i]
  BY <1>1, SendsPlain DEF MessageTypes, Outside
<1>3. Len(c2s) \in Nat /\ rekeys \in Nat /\ received \in Nat /\ extra \in Nat
  BY Kinds, ClientAssumption DEF SessionInv, SessionTypes, ClientTypes
<1>4. out' = out /\ service' = service /\ received' = received
  BY <1>1 DEF vars, login, input
<1>5. Joint'
  BY <1>1, <1>2, IdleTalks, TalkingSends DEF Joint, Outsiders
<1>6. CountInv'
  <2> DEFINE m == Len(c2s)
             k == Len(c2s')
             steps == CASE progress = "start" -> 0
                        [] progress \in {"requested", "accepted"} -> 1 [] OTHER -> 2
  <2>1. k = m + 1 /\ m \in Nat
    BY <1>2, <1>3
  <2>2. received + m <= 4 * rekeys + 4 + steps + extra /\ steps \in Nat
    BY <1>1 DEF SessionInv, CountInv, Count
  <2> HIDE DEF m, k, steps
  <2>3. received + k <= 4 * rekeys + 4 + steps + (extra + 1)
    BY <1>3, <2>1, <2>2
  <2> QED
    BY <1>1, <1>4, <2>3 DEF CountInv, Count, k, steps
<1>7. LoginInv'
  <2>1. LoginInv
    BY DEF SessionInv
  <2>2. \A i \in 1..Len(c2s') :
          (i \in 1..Len(c2s) /\ c2s'[i] = c2s[i]) \/ c2s'[i].type = "IGNORE"
    BY <1>2, <1>3
  <2>3. ASSUME NEW t, t # "IGNORE" PROVE Pending(t)' => Pending(t)
    BY <2>2, <2>3 DEF Pending
  <2>4. ASSUME NEW t PROVE Unread(t)' <=> Unread(t)
    BY <1>1, <1>4 DEF Unread
  <2>5. \A i, j \in 1..Len(c2s') :
          c2s'[i].type = c2s'[j].type
            /\ c2s'[i].type \in {"REQUEST_USERAUTH", "LOGIN"} => i = j
    BY <2>1, <2>2 DEF LoginInv
  <2> QED
    BY <1>1, <1>4, <2>1, <2>3, <2>4, <2>5 DEF LoginInv
<1>8. cIn' = At(out.wire, Coming, read' + 1)
  BY <1>1 DEF SessionInv, InStep
<1> QED
  BY <1>1, <1>2, <1>5, <1>6, <1>7, <1>8, ClientKeeps


\* The client decodes what it reads, and is ready for what comes next.
LEMMA ReadsNext ==
  ASSUME SessionInv, ClientRead
  PROVE  /\ UNCHANGED <<vars, offer, rekeys, extra>> /\ read' = read + 1
         /\ read + 1 \in 1..Len(out.wire)
         /\ cIn' = At(out.wire, Coming, read' + 1)
<1> DEFINE p == out.wire[read + 1]
           t == p.type
           l == Len(out.wire)
<1>1. /\ UNCHANGED <<vars, offer, rekeys, extra>> /\ read' = read + 1 /\ read < l
      /\ cIn' = CASE t = "NEWKEYS" -> Rekeyed(cIn, offer.out)
                  [] t = "USERAUTH_SUCCESS" /\ offer.out = "zlib@openssh.com"
                       -> [Advance(cIn) EXCEPT !.comp = @ + 1]
                  [] OTHER -> Advance(cIn)
      /\ t = "NEWKEYS" => phase = "sentNewKeys"
      /\ t # "LOGIN"
  BY DEF ClientRead
<1>2. read \in Nat /\ l \in Nat
  BY Kinds
<1> HIDE DEF l
<1>3. read + 1 \in 1..l /\ read' + 1 = (read + 1) + 1 /\ read + 1 <= l
  BY <1>1, <1>2
<1>4. /\ cIn = At(out.wire, Coming, read + 1)
      /\ At(out.wire, Coming, (read + 1) + 1) =
           After(At(out.wire, Coming, read + 1), t, offer.strict, offer.out)
  BY <1>3 DEF SessionInv, InStep, Stream, Chain, l
<1>5. cIn \in Direction
  BY DEF SessionInv, SessionTypes, ClientTypes
<1> HIDE DEF p, t
<1>6. cIn' = After(cIn, t, offer.strict, offer.out)
  <2>1. CASE t = "NEWKEYS"
    <3>1. ~(offer.out = "zlib@openssh.com" /\ progress = "done")
      BY <1>1, <2>1, NoDelayedRekey
    <3> QED
      BY <1>1, <2>1, <3>1 DEF Rekeyed, After
  <2>2. CASE t = "USERAUTH_SUCCESS" /\ offer.out = "zlib@openssh.com"
    BY <1>1, <1>5, <2>2 DEF Advance, After, Direction
  <2>3. CASE t # "NEWKEYS" /\ ~(t = "USERAUTH_SUCCESS" /\ offer.out = "zlib@openssh.com")
    BY <1>1, <1>5, <2>3 DEF Advance, After, Direction
  <2> QED
    BY <2>1, <2>2, <2>3
<1> QED
  BY <1>1, <1>3, <1>4, <1>6 DEF l

\* The packets that are left to read.
LEMMA UnreadShrinks ==
  ASSUME SessionInv, UNCHANGED vars, read' = read + 1, NEW t
  PROVE  /\ \A i \in (read' + 1)..Len(out'.wire) :
              i \in (read + 1)..Len(out.wire) /\ i # read + 1 /\ out'.wire[i] = out.wire[i]
         /\ Unread(t)' => Unread(t)
<1>1. read \in Nat /\ Len(out.wire) \in Nat /\ out' = out
  BY Kinds DEF vars
<1>2. \A n, m \in Nat : \A i \in (n + 1 + 1)..m : i \in (n + 1)..m /\ i # n + 1
  OBVIOUS
<1>3. \A i \in (read' + 1)..Len(out'.wire) :
        i \in (read + 1)..Len(out.wire) /\ i # read + 1 /\ out'.wire[i] = out.wire[i]
  BY <1>1, <1>2
<1> QED
  BY <1>3 DEF Unread

\* The login, while an exchange goes on.
LEMMA ExchangeKeepsLogin ==
  ASSUME SessionInv, UNCHANGED vars, read' = read + 1, phase # "idle", rekeys' = rekeys,
         progress' = progress, NEW T,
         \A i \in 1..Len(c2s') : (i \in 1..Len(c2s) /\ c2s'[i] = c2s[i]) \/ c2s'[i].type \in T,
         "REQUEST_USERAUTH" \notin T, "LOGIN" \notin T
  PROVE  LoginInv'
<1>1. LoginInv
  BY DEF SessionInv
<1>2. ASSUME NEW t, t \notin T PROVE Pending(t)' => Pending(t)
  BY <1>2 DEF Pending
<1>3. /\ \A t : Unread(t)' => Unread(t)
      /\ \A i \in (read' + 1)..Len(out'.wire) :
           i \in (read + 1)..Len(out.wire) /\ out'.wire[i] = out.wire[i]
  BY UnreadShrinks
<1>4. \A i, j \in 1..Len(c2s') :
        c2s'[i].type = c2s'[j].type
          /\ c2s'[i].type \in {"REQUEST_USERAUTH", "LOGIN"} => i = j
  BY <1>1 DEF LoginInv
<1>5. \A i, j \in (read' + 1)..Len(out'.wire) :
        out'.wire[i].type = "SERVICE_ACCEPT" /\ out'.wire[j].type = "SERVICE_ACCEPT" => i = j
  <2> TAKE i, j \in (read' + 1)..Len(out'.wire)
  <2>1. /\ i \in (read + 1)..Len(out.wire) /\ out'.wire[i] = out.wire[i]
        /\ j \in (read + 1)..Len(out.wire) /\ out'.wire[j] = out.wire[j]
    BY <1>3
  <2> QED
    BY <1>1, <2>1 DEF LoginInv
<1>6. service' = service
  BY DEF vars, login
<1> QED
  BY <1>1, <1>2, <1>3, <1>4, <1>5, <1>6 DEF LoginInv

\* The answers to the login.
LEMMA AnswerKeepsLogin ==
  ASSUME SessionInv, UNCHANGED <<vars, c2s, phase, rekeys>>, read' = read + 1,
         read + 1 \in 1..Len(out.wire), NEW t, t = out.wire[read + 1].type,
         \/ t \in {"EXT_INFO", "SERVICE_DATA"} /\ progress' = progress
         \/ t = "SERVICE_ACCEPT" /\ progress = "requested" /\ progress' = "accepted"
         \/ t = "USERAUTH_SUCCESS" /\ progress = "tried" /\ progress' = "done"
  PROVE  LoginInv'
<1>1. LoginInv
  BY DEF SessionInv
<1>2. ASSUME NEW u PROVE Pending(u)' <=> Pending(u)
  BY DEF Pending
<1>3. /\ \A u : Unread(u)' => Unread(u)
      /\ \A i \in (read' + 1)..Len(out'.wire) :
           i \in (read + 1)..Len(out.wire) /\ i # read + 1 /\ out'.wire[i] = out.wire[i]
  BY UnreadShrinks
<1>4. read + 1 \in (read + 1)..Len(out.wire)
  BY Kinds
<1>5. Unread(t)
  BY <1>4 DEF Unread
<1>6. \A i, j \in (read' + 1)..Len(out'.wire) :
        out'.wire[i].type = "SERVICE_ACCEPT" /\ out'.wire[j].type = "SERVICE_ACCEPT" => i = j
  BY <1>1, <1>3 DEF LoginInv
<1>7. UNCHANGED <<service, phase, rekeys, c2s>>
  BY DEF vars, login
<1>8. CASE t \in {"EXT_INFO", "SERVICE_DATA"} /\ progress' = progress
  BY <1>1, <1>2, <1>3, <1>6, <1>7, <1>8 DEF LoginInv
<1>9. CASE t = "SERVICE_ACCEPT" /\ progress = "requested" /\ progress' = "accepted"
  <2>1. ~Unread("SERVICE_ACCEPT")'
    <3> SUFFICES ASSUME NEW i \in (read' + 1)..Len(out'.wire),
                        out'.wire[i].type = "SERVICE_ACCEPT"
                 PROVE  FALSE
      BY DEF Unread
    <3> QED
      BY <1>1, <1>3, <1>4, <1>9 DEF LoginInv
  <2>2. /\ service = "userauth" /\ phase = "idle"
        /\ ~Pending("REQUEST_USERAUTH") /\ ~Pending("LOGIN") /\ ~Unread("USERAUTH_SUCCESS")
    <3>1. phase # "idle" => progress \in {"start", "done"}
      BY <1>1 DEF LoginInv
    <3> QED
      BY <1>1, <1>5, <1>9, <3>1 DEF LoginInv
  <2> QED
    BY <1>1, <1>2, <1>3, <1>6, <1>7, <1>9, <2>1, <2>2 DEF LoginInv
<1>10. CASE t = "USERAUTH_SUCCESS" /\ progress = "tried" /\ progress' = "done"
  <2>1. /\ phase = "idle" /\ ~Unread("SERVICE_ACCEPT")
        /\ ~Pending("REQUEST_USERAUTH") /\ ~Pending("LOGIN")
    <3>1. phase # "idle" => progress \in {"start", "done"}
      BY <1>1 DEF LoginInv
    <3> QED
      BY <1>1, <1>5, <1>10, <3>1 DEF LoginInv
  <2> QED
    BY <1>1, <1>2, <1>3, <1>6, <1>7, <1>10, <2>1 DEF LoginInv
<1> QED
  BY <1>8, <1>9, <1>10


\* The client has read a packet and goes on.
ClientGoesOn == /\ Chain(c2s', Incoming', Following', offer'.strict, offer'.in)
                /\ Joint' /\ LoginInv' /\ CountInv'

\* The number of its packets in an exchange, at each of its phases.
Packets(p) == CASE p = "start" -> 0 [] p = "sentInit" -> 1
                [] p = "sentGexRequest" -> 2 [] p = "sentDh" -> 3 [] OTHER -> 4

\* It goes on with the exchange: the packet it sends is counted.
LEMMA ExchangeCounts ==
  ASSUME SessionInv, UNCHANGED <<vars, progress, rekeys, extra>>,
         Len(c2s') = Len(c2s) + 1, Packets(phase') > Packets(phase)
  PROVE  CountInv'
<1> DEFINE m == Len(c2s)
           k == Len(c2s')
           steps == CASE progress = "start" -> 0
                      [] progress \in {"requested", "accepted"} -> 1 [] OTHER -> 2
           rest == 4 * rekeys
           a == Packets(phase)
           b == Packets(phase')
<1>1. /\ m \in Nat /\ k = m + 1 /\ received \in Nat /\ steps \in Nat /\ extra \in Nat
      /\ a \in Nat /\ b \in Nat /\ a < b /\ rest \in Nat
  <2>1. m \in Nat /\ received \in Nat
    BY Kinds, Zenon
  <2>2. rekeys \in Nat /\ extra \in Nat
    BY ClientAssumption DEF SessionInv, SessionTypes, ClientTypes
  <2>3. rest \in Nat
    BY <2>2
  <2>4. \A p : Packets(p) \in Nat
    BY DEF Packets
  <2>5. steps \in Nat
    OBVIOUS
  <2>6. k = m + 1 /\ a < b /\ a \in Nat /\ b \in Nat
    BY <2>4
  <2> HIDE DEF steps, rest, m, k, a, b
  <2> QED
    BY <2>1, <2>2, <2>3, <2>5, <2>6
<1>2. received + m <= rest + a + steps + extra
  BY DEF SessionInv, CountInv, Count, Packets
<1>3. received' = received /\ progress' = progress /\ rekeys' = rekeys /\ extra' = extra
  BY DEF vars, input
<1>4. Count' = rest + b + steps + extra
  BY <1>3 DEF Count, Packets
<1> HIDE DEF m, k, steps, a, b, rest
<1>5. received + k <= rest + b + steps + extra
  BY <1>1, <1>2
<1> QED
  BY <1>3, <1>4, <1>5 DEF CountInv, k

\* A message of the exchange is sent.
LEMMA ExchangeSends ==
  ASSUME SessionInv, UNCHANGED <<vars, offer, progress, rekeys, extra>>, read' = read + 1,
         phase # "idle", Packets(phase') > Packets(phase),
         NEW t \in {"GEX_REQUEST", "KEXDH_INIT", "GEX_INIT", "NEWKEYS"}, ClientSend(t)
  PROVE  /\ Chain(c2s', Incoming', Following', offer'.strict, offer'.in)
         /\ LoginInv' /\ CountInv'
         /\ Len(c2s') = Len(c2s) + 1 /\ c2s'[Len(c2s) + 1].type = t
         /\ \A i \in 1..Len(c2s) : c2s'[i] = c2s[i]
<1>1. /\ progress # "tried" /\ progress' # "tried" /\ offer' = offer
      /\ ~(offer.in = "zlib@openssh.com" /\ progress = "done")
  BY NoDelayedRekey
<1>2. /\ Chain(c2s', Incoming', Following', offer'.strict, offer'.in)
      /\ Len(c2s') = Len(c2s) + 1 /\ c2s'[Len(c2s) + 1].type = t
      /\ \A i \in 1..Len(c2s) : c2s'[i] = c2s[i]
  <2>1. CASE t = "NEWKEYS"
    <3>1. Following' = cOut' /\ cOut' = Rekeyed(cOut, offer.in)
      BY <1>1, <2>1 DEF Following, ClientSend
    <3>2. Rekeyed(cOut, offer.in) = After(cOut, "NEWKEYS", offer.strict, offer.in)
      BY <1>1 DEF Rekeyed, After
    <3>3. "NEWKEYS" \in MessageTypes
      BY DEF MessageTypes
    <3> QED
      BY <1>1, <2>1, <3>1, <3>2, <3>3, Sends
  <2>2. CASE t # "NEWKEYS"
    <3>1. t \in MessageTypes \ {"NEWKEYS", "LOGIN", "USERAUTH_SUCCESS"}
      BY <2>2 DEF MessageTypes
    <3> QED
      BY <1>1, <3>1, SendsPlain
  <2> QED
    BY <2>1, <2>2
<1>3. CountInv'
  BY <1>2, ExchangeCounts
<1>4. \A i \in 1..Len(c2s') : (i \in 1..Len(c2s) /\ c2s'[i] = c2s[i]) \/ c2s'[i].type \in {t}
  <2>1. Len(c2s) \in Nat
    BY Kinds
  <2> QED
    BY <1>2, <2>1
<1>5. LoginInv'
  <2>1. "REQUEST_USERAUTH" \notin {t} /\ "LOGIN" \notin {t}
    OBVIOUS
  <2> QED
    BY <1>4, <2>1, ExchangeKeepsLogin
<1> QED
  BY <1>2, <1>3, <1>5

\* A client that has to answer KEXINIT with a message of the method chosen.
LEMMA ReadsKexInit ==
  ASSUME SessionInv, ClientRead, out.wire[read + 1].type = "KEXINIT"
  PROVE  \E t \in {"GEX_REQUEST", "KEXDH_INIT"} :
           /\ phase = "sentInit" /\ progress' = progress
           /\ ClientSend(t) /\ Packets(phase') > Packets(phase)
           /\ c2s'[1].type = t => MethodSent(c2s[1].type)'
           /\ c2s'[2].type = t => MethodSent(c2s[2].type)'
<1>1. /\ phase = "sentInit" /\ progress' = progress /\ offer' = offer
      /\ IF offer.kex = "gex"
         THEN phase' = "sentGexRequest" /\ ClientSend("GEX_REQUEST")
         ELSE phase' = "sentDh" /\ ClientSend("KEXDH_INIT")
  BY DEF ClientRead
<1>2. offer.kex \in {"gex", "direct"}
  BY Kinds
<1>3. CASE offer.kex = "gex"
  BY <1>1, <1>3 DEF MethodSent, Packets
<1>4. CASE offer.kex = "direct"
  BY <1>1, <1>4 DEF MethodSent, Packets
<1> QED
  BY <1>2, <1>3, <1>4

\* Before it has read the server's first KEXINIT.
LEMMA ReadsStarting ==
  ASSUME SessionInv, ClientRead, Starting
  PROVE  ClientGoesOn
<1>1. /\ UNCHANGED <<vars, offer, rekeys, extra>> /\ read' = read + 1
      /\ read + 1 \in 1..Len(out.wire)
  BY ReadsNext
<1>2. /\ Waiting /\ read = 0 /\ phase = "sentInit" /\ Len(c2s) = 1
      /\ c2s[1].type = "KEXINIT" /\ Len(out.wire) = 1
  <2>1. Len(out.wire) # 0 /\ phase # "start"
    BY <1>1 DEF ClientRead
  <2> QED
    BY <2>1 DEF Starting, Before, Waiting
<1>3. out.wire[read + 1].type = "KEXINIT"
  <2>1. read + 1 = 1
    BY <1>2
  <2> QED
    BY <1>2, <2>1 DEF Waiting, Last
<1>4. PICK t \in {"GEX_REQUEST", "KEXDH_INIT"} :
        /\ progress' = progress /\ ClientSend(t) /\ Packets(phase') > Packets(phase)
        /\ c2s'[2].type = t => MethodSent(c2s[2].type)'
  BY <1>3, ReadsKexInit
<1>5. /\ Chain(c2s', Incoming', Following', offer'.strict, offer'.in)
      /\ LoginInv' /\ CountInv'
      /\ Len(c2s') = Len(c2s) + 1 /\ c2s'[Len(c2s) + 1].type = t
      /\ \A i \in 1..Len(c2s) : c2s'[i] = c2s[i]
  BY <1>1, <1>2, <1>4, ExchangeSends
<1>6. Waiting' /\ out' = out
  BY <1>1, <1>2, ServerWaits DEF vars, link
<1>7. Ahead(0)'
  BY <1>1, <1>2, <1>6 DEF Ahead
<1>8. Len(c2s') = 2 /\ c2s'[2].type = t /\ c2s'[1] = c2s[1]
  <2>1. 1 + 1 = 2 /\ 1 \in 1..1
    OBVIOUS
  <2> QED
    BY <1>2, <1>5, <2>1
<1>9. Hurrying'
  BY <1>2, <1>4, <1>6, <1>7, <1>8 DEF Hurrying
<1> QED
  BY <1>5, <1>9 DEF ClientGoesOn, Joint

\* The server has answered a KEXINIT: what it wrote before comes first.
LEMMA ReadsAnswering ==
  ASSUME SessionInv, ClientRead, Answering
  PROVE  ClientGoesOn
<1> DEFINE l == Len(out.wire)
           p == out.wire[read + 1]
<1>1. /\ UNCHANGED <<vars, offer, rekeys, extra>> /\ read' = read + 1
      /\ read + 1 \in 1..l /\ read \in Nat /\ l \in Nat
  BY ReadsNext, Kinds
<1>2. /\ Agreed /\ phase = "sentInit" /\ Len(c2s) = 0 /\ read < l
      /\ \A i \in (read + 1)..(l - 1) : out.wire[i].type \in Deferrable
      /\ out.wire[l].type = "KEXINIT"
  BY DEF Answering, Agreed, Last
<1>3. Agreed' /\ out' = out
  BY <1>1, <1>2, ServerWaits DEF vars, link
<1>4. CASE read + 1 = l
  <2>1. p.type = "KEXINIT"
    BY <1>2, <1>4
  <2>2. PICK t \in {"GEX_REQUEST", "KEXDH_INIT"} :
          /\ progress' = progress /\ ClientSend(t) /\ Packets(phase') > Packets(phase)
          /\ c2s'[1].type = t => MethodSent(c2s[1].type)'
    BY <2>1, ReadsKexInit
  <2>3. /\ Chain(c2s', Incoming', Following', offer'.strict, offer'.in)
        /\ LoginInv' /\ CountInv'
        /\ Len(c2s') = Len(c2s) + 1 /\ c2s'[Len(c2s) + 1].type = t
    BY <1>1, <1>2, <2>2, ExchangeSends
  <2>4. Ahead(0)'
    BY <1>1, <1>3, <1>4 DEF Ahead
  <2>5. Len(c2s') = 1 /\ c2s'[1].type = t
    <3>1. 0 + 1 = 1
      OBVIOUS
    <3> QED
      BY <1>2, <2>3, <3>1
  <2>6. Choosing'
    BY <1>3, <2>2, <2>4, <2>5 DEF Choosing
  <2> QED
    BY <2>3, <2>6 DEF ClientGoesOn, Joint
<1>5. CASE read + 1 # l
  <2>1. read + 1 \in (read + 1)..(l - 1)
    BY <1>1, <1>2, <1>5
  <2>2. p.type \in Deferrable
    BY <1>2, <2>1
  <2>3. progress \in {"start", "done"}
    BY <1>2, NoDelayedRekey
  <2>4. /\ p.type \in {"EXT_INFO", "SERVICE_DATA"}
        /\ UNCHANGED <<phase, progress, c2s, cOut>>
    BY <1>2, <2>2, <2>3 DEF ClientRead, Deferrable
  <2>5. Answering'
    <3>1. read' < l /\ \A i \in (read' + 1)..(l - 1) : i \in (read + 1)..(l - 1)
      BY <1>1, <1>2, <1>5
    <3> QED
      BY <1>2, <1>3, <2>4, <3>1 DEF Answering
  <2>6. LoginInv'
    BY <1>1, <2>4, AnswerKeepsLogin
  <2>7. Incoming' = Incoming /\ received' = received
    BY <1>1 DEF Incoming, vars, keys, comps, input
  <2>8. CountInv'
    BY <1>1, <2>4, <2>7 DEF SessionInv, CountInv, Count
  <2>9. Chain(c2s', Incoming', Following', offer'.strict, offer'.in)
    BY <1>1, <2>4, <2>7 DEF SessionInv, InStep, Following
  <2> QED
    BY <2>5, <2>6, <2>8, <2>9 DEF ClientGoesOn, Joint
<1> QED
  BY <1>4, <1>5

\* A group.
LEMMA ReadsGroup ==
  ASSUME SessionInv, ClientRead, Grouping
  PROVE  ClientGoesOn
<1> DEFINE l == Len(out.wire)
<1>1. /\ UNCHANGED <<vars, offer, rekeys, extra>> /\ read' = read + 1
      /\ read + 1 \in 1..l /\ read \in Nat /\ l \in Nat
  BY ReadsNext, Kinds
<1>2. /\ Group /\ phase = "sentGexRequest" /\ read + 1 = l /\ Len(c2s) = 0
  <2>1. read + 0 # l
    BY <1>1
  <2> QED
    BY <2>1 DEF Grouping, Ahead
<1>3. out.wire[read + 1].type = "GEX_GROUP"
  BY <1>2 DEF Group, Last
<1>4. phase' = "sentDh" /\ progress' = progress /\ ClientSend("GEX_INIT")
  BY <1>3 DEF ClientRead
<1>5. /\ Chain(c2s', Incoming', Following', offer'.strict, offer'.in)
      /\ LoginInv' /\ CountInv'
      /\ Len(c2s') = Len(c2s) + 1 /\ c2s'[Len(c2s) + 1].type = "GEX_INIT"
  <2>1. Packets(phase') > Packets(phase)
    BY <1>2, <1>4 DEF Packets
  <2> QED
    BY <1>1, <1>2, <1>4, <2>1, ExchangeSends
<1>6. Group' /\ out' = out
  BY <1>1, <1>2, ServerWaits DEF vars, link
<1>7. Ahead(0)'
  BY <1>1, <1>2, <1>6 DEF Ahead
<1>8. Len(c2s') = 1 /\ c2s'[1].type = "GEX_INIT"
  <2>1. 0 + 1 = 1
    OBVIOUS
  <2> QED
    BY <1>2, <1>5, <2>1
<1>9. Grouping'
  BY <1>4, <1>6, <1>7, <1>8 DEF Grouping
<1> QED
  BY <1>5, <1>9 DEF ClientGoesOn, Joint

\* The reply: the client's NEWKEYS follows, the server's is to be read.
LEMMA ReadsReply ==
  ASSUME SessionInv, ClientRead, Computing
  PROVE  ClientGoesOn
<1> DEFINE l == Len(out.wire)
<1>1. /\ UNCHANGED <<vars, offer, rekeys, extra>> /\ read' = read + 1
      /\ read + 1 \in 1..l /\ read \in Nat /\ l \in Nat
  BY ReadsNext, Kinds
<1>2. /\ KeysReady /\ phase = "sentDh" /\ read + 2 = l /\ Len(c2s) = 0
  BY DEF Computing, Ahead
<1>3. out.wire[read + 1].type = "KEX_REPLY" /\ out.wire[l].type = "NEWKEYS"
  <2>1. read + 1 = l - 1
    BY <1>1, <1>2
  <2> QED
    BY <1>2, <2>1 DEF KeysReady, Last
<1>4. phase' = "sentNewKeys" /\ progress' = progress /\ ClientSend("NEWKEYS")
  BY <1>3 DEF ClientRead
<1>5. /\ Chain(c2s', Incoming', Following', offer'.strict, offer'.in)
      /\ LoginInv' /\ CountInv'
      /\ Len(c2s') = Len(c2s) + 1 /\ c2s'[Len(c2s) + 1].type = "NEWKEYS"
  <2>1. Packets(phase') > Packets(phase)
    BY <1>2, <1>4 DEF Packets
  <2> QED
    BY <1>1, <1>2, <1>4, <2>1, ExchangeSends
<1>6. KeysReady' /\ out' = out /\ Busy'
  BY <1>1, <1>2, ServerWaits DEF vars, link, KeysReady
<1>7. Len(c2s') = 1 /\ c2s'[1].type = "NEWKEYS"
  <2>1. 0 + 1 = 1
    OBVIOUS
  <2> QED
    BY <1>2, <1>5, <2>1
<1>8. Talking'
  <2>1. read' + 1 = l /\ l + 1 \notin 1..l /\ (l + 1)..l = {}
    BY <1>1, <1>2
  <2>2. 1 >= 1 + 0 /\ (1 + 1)..(1 - 0) = {}
    OBVIOUS
  <2> QED
    BY <1>1, <1>3, <1>4, <1>6, <1>7, <2>1, <2>2 DEF Talking
<1> QED
  BY <1>5, <1>8 DEF ClientGoesOn, Joint

\* NEWKEYS, and what the server sends outside an exchange.
LEMMA ReadsTalking ==
  ASSUME SessionInv, ClientRead, Talking
  PROVE  ClientGoesOn
<1> DEFINE l == Len(out.wire)
           p == out.wire[read + 1]
<1>1. /\ UNCHANGED <<vars, offer, rekeys, extra>> /\ read' = read + 1
      /\ read + 1 \in 1..l /\ read \in Nat /\ l \in Nat
  BY ReadsNext, Kinds
<1>2. /\ KeysReady => KeysReady'
      /\ InUse => InUse'
      /\ Busy' = Busy
      /\ out' = out /\ Incoming' = Incoming /\ received' = received
  BY <1>1, ServerWaits DEF vars, link, Incoming, keys, comps, input
<1>3. CASE phase = "sentNewKeys"
  <2>1. /\ p.type = "NEWKEYS"
        /\ \A i \in ((read + 1) + 1)..l : out.wire[i].type \in Deferrable
    BY <1>3 DEF Talking
  <2>2. phase' = "idle" /\ UNCHANGED <<progress, c2s, cOut>>
    BY <2>1 DEF ClientRead
  <2>3. Talking'
    <3>1. read' <= l
      BY <1>1
    <3> QED
      BY <1>1, <1>2, <1>3, <2>1, <2>2, <3>1 DEF Talking
  <2>4. LoginInv'
    <3>1. \A i \in 1..Len(c2s') : (i \in 1..Len(c2s) /\ c2s'[i] = c2s[i]) \/ c2s'[i].type \in {}
      BY <2>2
    <3>2. "REQUEST_USERAUTH" \notin {} /\ "LOGIN" \notin {} /\ phase # "idle"
      BY <1>3
    <3>3. UNCHANGED vars /\ progress' = progress /\ rekeys' = rekeys
      BY <1>1, <2>2
    <3> QED
      BY <1>1, <3>1, <3>2, <3>3, ExchangeKeepsLogin
  <2>5. CountInv'
    BY <1>1, <1>2, <1>3, <2>2 DEF SessionInv, CountInv, Count
  <2>6. Chain(c2s', Incoming', Following', offer'.strict, offer'.in)
    BY <1>1, <1>2, <2>2 DEF SessionInv, InStep, Following
  <2> QED
    BY <2>3, <2>4, <2>5, <2>6 DEF ClientGoesOn, Joint
<1>4. CASE phase # "sentNewKeys"
  <2>1. /\ phase \in {"idle", "sentInit"}
        /\ \A i \in (read + 1)..l : out.wire[i].type \in Deferrable
    BY <1>4 DEF Talking
  <2>2. p.type \in Deferrable
    <3>1. read + 1 \in (read + 1)..l
      BY <1>1
    <3> QED
      BY <2>1, <3>1
  <2>3. /\ UNCHANGED <<phase, c2s>>
        /\ \/ p.type \in {"EXT_INFO", "SERVICE_DATA"} /\ progress' = progress
              /\ cOut' = cOut
           \/ p.type = "SERVICE_ACCEPT" /\ progress = "requested" /\ progress' = "accepted"
              /\ cOut' = cOut
           \/ p.type = "USERAUTH_SUCCESS" /\ progress = "tried" /\ progress' = "done"
              /\ cOut' = IF offer.in = "zlib@openssh.com"
                         THEN [cOut EXCEPT !.comp = @ + 1] ELSE cOut
    BY <2>2 DEF ClientRead, Deferrable
  <2>4. Talking'
    <3>1. read' <= l /\ \A i \in (read' + 1)..l : i \in (read + 1)..l
      BY <1>1
    <3> QED
      BY <1>1, <1>2, <1>4, <2>1, <2>3, <3>1 DEF Talking
  <2>5. LoginInv'
    <3>1. \/ p.type \in {"EXT_INFO", "SERVICE_DATA"} /\ progress' = progress
          \/ p.type = "SERVICE_ACCEPT" /\ progress = "requested" /\ progress' = "accepted"
          \/ p.type = "USERAUTH_SUCCESS" /\ progress = "tried" /\ progress' = "done"
      BY <2>3
    <3> QED
      BY <1>1, <2>3, <3>1, AnswerKeepsLogin
  <2>6. CountInv'
    <3>1. UNCHANGED <<rekeys, phase, extra>>
      BY <1>1, <2>3
    <3>2. Count' = Count
      BY <2>3, <3>1 DEF Count
    <3> QED
      BY <1>2, <2>3, <3>2 DEF SessionInv, CountInv
  <2>7. Following' = Following
    BY <1>1, <2>3 DEF Following
  <2>8. Chain(c2s', Incoming', Following', offer'.strict, offer'.in)
    BY <1>1, <1>2, <2>3, <2>7 DEF SessionInv, InStep
  <2> QED
    BY <2>4, <2>5, <2>6, <2>8 DEF ClientGoesOn, Joint
<1> QED
  BY <1>3, <1>4

\* Where the client has read everything there is nothing to read.
LEMMA ClientReadKeeps ==
  ASSUME SessionInv, SessionTypes', ClientRead
  PROVE  SessionInv'
<1>1. /\ UNCHANGED <<vars, offer, rekeys, extra>>
      /\ cIn' = At(out.wire, Coming, read' + 1)
  BY ReadsNext
<1>2. ~Ahead(0)
  <2>1. read \in Nat /\ read < Len(out.wire)
    BY Kinds DEF ClientRead
  <2>2. read + 0 = read
    BY <2>1
  <2>3. read # Len(out.wire)
    BY <2>1, Kinds
  <2> QED
    BY <2>2, <2>3 DEF Ahead
<1>3. ~Hurrying /\ ~Choosing
  BY <1>2 DEF Hurrying, Choosing
<1>4. ClientGoesOn
  BY <1>3, ReadsStarting, ReadsAnswering, ReadsGroup, ReadsReply, ReadsTalking
     DEF SessionInv, Joint
<1> QED
  BY <1>1, <1>4, ClientKeeps DEF ClientGoesOn


-----------------------------------------------------------------------------
(* Theorems.                                                               *)

LEMMA SessionStarts == Conforming /\ SessionInit => SessionInv
<1> SUFFICES ASSUME Conforming, SessionInit PROVE SessionInv
  OBVIOUS
<1>1. SessionTypes
  BY InitTypes
<1>2. /\ Init /\ c2s = << >> /\ read = 0 /\ phase = "start" /\ progress = "start"
      /\ cOut = Fresh /\ cIn = Fresh /\ rekeys = 0 /\ extra = 0
  BY DEF SessionInit
<1>3. /\ out = [wire |-> << >>, seq |-> 0, blocked |-> << >>, submitted |-> 0]
      /\ current = 0 /\ next = 0 /\ inSeq = 0 /\ inComp = 0 /\ outComp = 0
      /\ received = 0 /\ kexState = "none" /\ service = "none"
  BY <1>2 DEF Init
<1>4. /\ out.wire = << >> /\ out.blocked = << >> /\ out.seq = 0
      /\ Len(out.wire) = 0 /\ Len(out.blocked) = 0 /\ Len(c2s) = 0
  BY <1>2, <1>3
<1>5. \A n : n \notin 1..0 /\ n \notin (0 + 1)..0
  OBVIOUS
<1>6. ServiceInv /\ FirstKeys
  BY <1>3, <1>4, <1>5 DEF ServiceInv, FirstKeys, Written, ExtInfoFollowsNewKeys
<1>7. Joint
  BY <1>2, <1>4 DEF Init, Joint, Starting, Before, Unused, Busy
<1>8. InStep
  <2>1. Following = Fresh /\ Incoming = Fresh /\ Coming = Fresh
    BY <1>2, <1>3, <1>4 DEF Following, Incoming, Coming, Busy, Fresh
  <2>2. /\ \A i : At(out.wire, Fresh, i) = IF i <= 0 THEN State(out.wire[i]) ELSE Fresh
        /\ \A i : At(c2s, Fresh, i) = IF i <= 0 THEN State(c2s[i]) ELSE Fresh
    BY <1>4 DEF At
  <2>3. ~(1 <= 0) /\ ~(0 + 1 <= 0) /\ 1..(0 + 1) = {1} /\ ~(1 < 1)
    OBVIOUS
  <2>4. At(out.wire, Fresh, 1) = Fresh /\ At(c2s, Fresh, 1) = Fresh
        /\ At(out.wire, Fresh, 0 + 1) = Fresh
    BY <2>2, <2>3
  <2>5. Rising(out.wire, Fresh)
    BY <1>4, <2>3 DEF Rising
  <2> QED
    BY <1>2, <1>4, <1>5, <2>1, <2>4, <2>5 DEF InStep, Stream, Chain
<1>9. LoginInv
  BY <1>2, <1>4, <1>5 DEF LoginInv, Pending, Unread
<1>10. CountInv
  BY <1>2, <1>3, <1>4 DEF CountInv, Count
<1> QED
  BY <1>1, <1>6, <1>7, <1>8, <1>9, <1>10 DEF SessionInv

LEMMA SessionContinues == SessionInv /\ [SessionNext]_sessionVars => SessionInv'
<1> SUFFICES ASSUME SessionInv, [SessionNext]_sessionVars PROVE SessionInv'
  OBVIOUS
<1>1. SessionTypes'
  BY NextTypes DEF SessionInv
<1>2. CASE ClientStep
  BY <1>1, <1>2, ClientKexInitKeeps, ClientLoginKeeps, ClientExtraKeeps, ClientReadKeeps
     DEF ClientStep
<1>3. CASE ServerReads
  BY <1>3, ServerReadsKeeps
<1>4. CASE ServerActs
  BY <1>4, ServerActsKeeps
<1>5. CASE (Terminated /\ UNCHANGED client) \/ UNCHANGED sessionVars
  <2>1. UNCHANGED <<vars, client>>
    BY <1>5 DEF Terminated, sessionVars
  <2> QED
    BY <1>1, <2>1, StaysSame DEF vars, link
<1> QED
  BY <1>2, <1>3, <1>4, <1>5 DEF SessionNext

\* What the theorems below follow from: with a conforming client both ends are
\* always where SessionInv says.
THEOREM InStepAlways == Conforming /\ SessionSpec => []SessionInv
BY SessionStarts, SessionContinues, PTL DEF SessionSpec

\* Every variable of both ends has a value of its kind, and MaxPackets is never
\* what stops this client (SessionTypeOK).
THEOREM SessionTypesCorrect == Conforming /\ SessionSpec => []SessionTypeOK
<1>1. SessionInv => SessionTypeOK
  <2> SUFFICES ASSUME SessionInv PROVE SessionTypeOK
    OBVIOUS
  <2>1. TypeOK /\ ClientTypes /\ CountInv /\ Conforming
    BY DEF SessionInv, SessionTypes, TypeInv
  <2>2. received + Len(c2s) <= MaxPackets
    <3> DEFINE m == Len(c2s)
               p == CASE phase = "start" -> 0 [] phase = "sentInit" -> 1
                      [] phase = "sentGexRequest" -> 2 [] phase = "sentDh" -> 3
                      [] OTHER -> 4
               steps == CASE progress = "start" -> 0
                          [] progress \in {"requested", "accepted"} -> 1 [] OTHER -> 2
    <3>1. received + m <= 4 * rekeys + p + steps + extra
      BY <2>1 DEF CountInv, Count
    <3>2. p \in 0..4 /\ steps \in 0..2
      OBVIOUS
    <3>3. /\ received \in Nat /\ m \in Nat /\ MaxPackets \in Nat
          /\ MaxRekeys \in Nat /\ MaxExtra \in Nat
          /\ rekeys \in 0..MaxRekeys /\ extra \in 0..MaxExtra
          /\ 4 * MaxRekeys + MaxExtra + 6 <= MaxPackets
      BY <2>1, Kinds, ClientAssumption, BoundsAssumption DEF ClientTypes, Conforming
    <3> HIDE DEF m, p, steps
    <3>4. received + m <= MaxPackets
      BY <3>1, <3>2, <3>3
    <3> QED
      BY <3>4 DEF m
  <2> QED
    BY <2>1, <2>2 DEF SessionTypeOK, ClientTypes
<1> QED
  BY <1>1, InStepAlways, PTL

\* The server authenticates and decompresses every packet the client sends
\* (getPacket), across key exchanges, strict sequence resets and the start of
\* compression.
THEOREM ServerAlwaysDecodes == Conforming /\ SessionSpec => []ServerDecodes
<1>1. SessionInv => ServerDecodes
  <2> SUFFICES ASSUME SessionInv, c2s # << >> PROVE Meanings(Head(c2s)) # {"CORRUPT"}
    BY DEF ServerDecodes
  <2>1. c2s[1] = Head(c2s) /\ State(c2s[1]) = Incoming /\ Head(c2s) \in ClientPacket
    BY Decodes
  <2>2. Agrees(Head(c2s), Incoming) /\ Head(c2s).comp = inComp
    BY <2>1 DEF Agrees, State, Incoming
  <2>3. c2s[1].type # "CORRUPT"
    <3>1. CASE gotVersion
      BY <3>1, ReadingCases DEF Reading, MethodSent, Outsiders
    <3>2. CASE ~gotVersion
      <4>1. Starting
        BY <3>2, VersionComes
      <4> QED
        BY <2>1, <4>1, Kinds, EmptySeq DEF Starting
    <3> QED
      BY <3>1, <3>2
  <2> QED
    BY <2>1, <2>2, <2>3 DEF Meanings
<1> QED
  BY <1>1, InStepAlways, PTL

\* And the client every packet the server writes (sendPacket, _newKeys).
THEOREM ClientAlwaysDecodes == Conforming /\ SessionSpec => []ClientDecodes
<1>1. SessionInv => ClientDecodes
  <2> SUFFICES ASSUME SessionInv, read < Len(out.wire)
               PROVE  Agrees(out.wire[read + 1], cIn)
    BY DEF ClientDecodes
  <2>1. read + 1 <= Len(out.wire)
    BY Kinds
  <2>2. cIn = State(out.wire[read + 1])
    BY <2>1 DEF SessionInv, InStep, At
  <2> QED
    BY <2>2 DEF Agrees, State
<1> QED
  BY <1>1, InStepAlways, PTL

\* No two packets of the server are encrypted with the same keys and the same
\* sequence number, although strict connections start the numbers over.
THEOREM NoncesAlwaysUnique == Conforming /\ SessionSpec => []NoncesUnique
<1>1. SessionInv => NoncesUnique
  <2> SUFFICES ASSUME SessionInv, NEW i \in Written, NEW j \in Written,
                      out.wire[i].key = out.wire[j].key,
                      out.wire[i].seq = out.wire[j].seq
               PROVE  i = j
    BY DEF NoncesUnique
  <2> DEFINE l == Len(out.wire)
  <2>1. l \in Nat /\ i \in 1..l /\ j \in 1..l /\ out.wire \in Seq(Packet)
    BY Kinds DEF Written
  <2>2. Rising(out.wire, Coming)
    BY DEF SessionInv, InStep, Stream
  <2>3. ASSUME NEW a \in 1..l, NEW b \in 1..l, a < b
        PROVE  Older(State(out.wire[a]), State(out.wire[b]))
    <3>1. a \in 1..(l + 1) /\ b \in 1..(l + 1) /\ a <= l /\ b <= l
      BY <2>1
    <3>2. Older(At(out.wire, Coming, a), At(out.wire, Coming, b))
      BY <2>2, <2>3, <3>1 DEF Rising
    <3> QED
      BY <3>1, <3>2 DEF At
  <2>4. /\ out.wire[i].key \in Nat /\ out.wire[i].seq \in Nat
        /\ out.wire[j].key \in Nat /\ out.wire[j].seq \in Nat
    <3>1. out.wire[i] \in Packet /\ out.wire[j] \in Packet
      BY <2>1
    <3> QED
      BY <3>1 DEF Packet
  <2>5. ~Older(State(out.wire[i]), State(out.wire[j]))
        /\ ~Older(State(out.wire[j]), State(out.wire[i]))
    BY <2>4 DEF Older, State
  <2>6. ~(i < j) /\ ~(j < i)
    BY <2>1, <2>3, <2>5
  <2> QED
    BY <2>1, <2>6
<1> QED
  BY <1>1, InStepAlways, PTL

\* To a client that asks for it, EXT_INFO is what follows the first NEWKEYS.
THEOREM ExtInfoAlwaysFollows == Conforming /\ SessionSpec => []ExtInfoFollowsNewKeys
<1>1. SessionInv => ExtInfoFollowsNewKeys
  BY DEF SessionInv, FirstKeys
<1> QED
  BY <1>1, InStepAlways, PTL

\* No packet of the client makes the server raise, disconnect or answer
\* UNIMPLEMENTED: each arrives where its handler expects it.
THEOREM ClientKept == Conforming /\ SessionSpec => ClientNeverDropped
<1>1. SessionInv /\ [SessionNext]_sessionVars =>
        [Len(c2s') < Len(c2s) => /\ transport' = transport
                                 /\ \A i \in Written' : out'.wire[i].type
                                      \notin {"DISCONNECT", "UNIMPLEMENTED"}]_sessionVars
  <2> SUFFICES ASSUME SessionInv, SessionNext, Len(c2s') < Len(c2s)
               PROVE  /\ transport' = transport
                      /\ \A i \in Written' : out'.wire[i].type
                           \notin {"DISCONNECT", "UNIMPLEMENTED"}
    OBVIOUS
  <2>1. Len(c2s) \in Nat /\ ~(Len(c2s) < Len(c2s)) /\ ~(Len(c2s) + 1 < Len(c2s))
    BY Kinds
  <2>2. SessionInv'
    BY SessionContinues
  <2>3. \A i \in Written' : out'.wire[i].type \notin {"DISCONNECT", "UNIMPLEMENTED"}
    BY <2>2 DEF SessionInv, ServiceInv
  <2>4. CASE ServerReads
    BY <2>3, <2>4, ReadGoesOn DEF GoesOn
  <2>5. CASE ServerActs \/ (Terminated /\ UNCHANGED client)
    BY <2>1, <2>5 DEF ServerActs, client
  <2>6. CASE ClientStep
    BY <2>3, <2>6 DEF ClientStep, ClientKexInit, ClientLogin, ClientExtra, ClientRead,
       vars, link
  <2> QED
    BY <2>4, <2>5, <2>6 DEF SessionNext
<1> QED
  BY <1>1, InStepAlways, PTL DEF ClientNeverDropped, SessionSpec

=============================================================================
