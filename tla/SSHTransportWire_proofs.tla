----------------------- MODULE SSHTransportWire_proofs ----------------------
(* Theorems about what SSHTransport writes: keys, numbers and silence.     *)
EXTENDS SSHTransport_proofs

-----------------------------------------------------------------------------
(* The keys.                                                               *)

\* A KEXINIT was sent for which no keys have been computed.
Unanswered == Busy /\ next = 0

\* Keys come from the exchanges computed so far, and NEWKEYS makes the two
\* cipher objects one until the next KEXINIT.
KeyInv ==
  /\ next \in {0, keyCount} /\ current <= keyCount
  /\ aliased => current = keyCount /\ next = keyCount
  /\ ~gotVersion => next = 0

\* Before the first exchange no packet is read, so no service runs.
PlainInv ==
  /\ ~gotVersion => ~looping
  /\ current = 0 /\ ~Busy =>
       /\ service = "none"
       /\ gotVersion => transport # "open" /\ ~looping

-----------------------------------------------------------------------------
(* The kinds of steps, with what they do to the keys and to the session.   *)

WireSame == out' = out /\ current' = current

WireSent ==
  /\ current' = current
  /\ strictKex' = strictKex
  /\ \E t \in Answers \ {"EXT_INFO"} :
       /\ out' = SendPacket(out, current, t)
       /\ t \in Deferrable /\ ~Busy => current > 0

WireStarted ==
  /\ current' = current
  /\ sessionID' = sessionID
  /\ Unanswered'
  /\ out' = [SendPacket(out, current, "KEXINIT") EXCEPT !.blocked = << >>]

WireKeyed ==
  /\ current' \in Nat /\ current <= current'
  /\ ~Busy => current' > 0
  /\ strictKex' = strictKex
  /\ sessionID'
  /\ \/ out' = KeysSent(current')
     \/ ~sessionID /\ out' = SendPacket(KeysSent(current'), current', "EXT_INFO")

WireEnded ==
  /\ current' \in Nat /\ current <= current' /\ current' > 0
  /\ strictKex' = strictKex
  /\ ~Unanswered
  /\ \E comp \in Nat : out' = Flush(out, current', comp)

\* What all but two kinds of steps leave as it is.
WireStep ==
  /\ strictKex' = strictKex \/ ~sessionID
  /\ \/ WireStarted \/ WireKeyed
     \/ /\ sessionID' = sessionID
        /\ Unanswered => Unanswered'
        /\ WireSame \/ WireSent
     \/ sessionID' = sessionID /\ WireEnded

\* One handler, when it may run: not before the first exchange begins.
LEMMA ReceiveWire ==
  ASSUME TypeOK, KeyInv, Busy \/ current > 0,
         NEW t, NEW p \in Proposal \cup {NoProposal}, Receive(t, p)
  PROVE  WireStep /\ (current' > 0 \/ Busy')
<1> USE DEF Decoded, GetPacket
<1>1. /\ current \in Nat /\ next \in Nat /\ keyCount \in Nat /\ outComp \in Nat
      /\ sessionID \in BOOLEAN /\ strictKex \in BOOLEAN /\ aliased \in BOOLEAN
  BY DEF TypeOK
<1> DEFINE Goal == WireStep /\ (current' > 0 \/ Busy')
           Kept == /\ current' = current /\ strictKex' = strictKex
                   /\ sessionID' = sessionID /\ Busy' = Busy
                   /\ Unanswered => Unanswered'
<1>2. ASSUME Kept, out' = out PROVE Goal
  BY <1>2 DEF WireStep, WireSame
<1>3. ASSUME Kept, NEW a \in Answers \ {"EXT_INFO"}, Reply(a) PROVE Goal
  BY <1>3 DEF WireStep, WireSent, Reply
<1>4. ASSUME Kept, Disconnect PROVE Goal
  BY <1>3, <1>4 DEF Disconnect, Answers, Deferrable
<1>5. ASSUME UNCHANGED <<negotiated, exchange, keys>> PROVE Kept
  BY <1>5 DEF negotiated, exchange, keys, Busy, Unanswered
<1>6. ASSUME Fault PROVE Goal
  <2>1. Kept /\ out' = out
    BY <1>5, <1>6 DEF Fault
  <2> QED
    BY <1>2, <2>1
<1>7. ASSUME NEW r, r = "KEX_REPLY", KeySetup(r) PROVE Goal
  <2> DEFINE key == keyCount + 1
             inUse == IF aliased THEN key ELSE current
  <2>1. key \in Nat /\ key > 0 /\ inUse \in Nat /\ current <= inUse
    BY <1>1 DEF KeyInv
  <2>2. /\ current' = inUse /\ sessionID' = TRUE /\ strictKex' = strictKex
        /\ Busy' = Busy
        /\ out' = IF AnnounceExtensions
                  THEN SendPacket(KeysSent(inUse), inUse, "EXT_INFO")
                  ELSE KeysSent(inUse)
    BY <1>7 DEF KeySetup, KeysSent, negotiated, Busy
  <2>3. current' \in Nat /\ current <= current' /\ (~Busy => current' > 0)
    BY <1>1, <2>1, <2>2
  <2>4. \/ out' = KeysSent(current')
        \/ ~sessionID /\ out' = SendPacket(KeysSent(current'), current', "EXT_INFO")
    BY <2>2 DEF AnnounceExtensions
  <2>5. WireKeyed
    BY <2>2, <2>3, <2>4 DEF WireKeyed
  <2>6. current' > 0 \/ Busy'
    BY <1>1, <2>1, <2>2
  <2> QED
    BY <2>2, <2>5, <2>6 DEF WireStep
<1>8. CASE ReceiveKexInit(p)
  <2>1. current' = current /\ next' = 0 /\ sessionID' = sessionID
    BY <1>8 DEF ReceiveKexInit
  <2>2. strictKex' = strictKex \/ ~sessionID
    BY <1>1, <1>8 DEF ReceiveKexInit, Strict
  <2>3. CASE ~Matched(p)
    BY <1>4, <1>8, <2>1, <2>3 DEF ReceiveKexInit, Busy, Unanswered
  <2>4. CASE Matched(p) /\ kexState = "requested"
    <3>1. Busy' /\ out' = out
      BY <1>8, <2>4 DEF ReceiveKexInit, Busy
    <3> QED
      BY <2>1, <2>2, <3>1 DEF WireStep, WireSame, Unanswered
  <2>5. CASE Matched(p) /\ kexState # "requested"
    <3>1. SendKexInit
      BY <1>8, <2>5 DEF ReceiveKexInit
    <3>2. Busy'
      BY <3>1 DEF SendKexInit, Busy
    <3> QED
      BY <2>1, <2>2, <3>1, <3>2 DEF SendKexInit, WireStep, WireStarted, Unanswered
  <2> QED
    BY <2>3, <2>4, <2>5
<1>9. CASE RejectKexInit(p) \/ ReceiveMalformed
  BY <1>6, <1>9 DEF RejectKexInit, ReceiveMalformed
<1>10. CASE ReceiveKexDhInit
  <2>1. \/ Fault
        \/ KeySetup("KEX_REPLY")
        \/ /\ Reply("GEX_GROUP")
           /\ UNCHANGED <<negotiated, kexState, sessionID, keys>>
    BY <1>10, Zenon DEF ReceiveKexDhInit
  <2>2. ASSUME UNCHANGED <<negotiated, kexState, sessionID, keys>> PROVE Kept
    BY <2>2 DEF negotiated, keys, Busy, Unanswered
  <2> QED
    BY <1>3, <1>6, <1>7, <2>1, <2>2 DEF Answers, Deferrable
<1>11. CASE ReceiveGexRequest
  <2>1. Kept
    BY <1>11 DEF ReceiveGexRequest, negotiated, keys, Busy, Unanswered
  <2> QED
    BY <1>3, <1>11, <2>1 DEF ReceiveGexRequest, Answers, Deferrable
<1>12. CASE ReceiveGexInit
  BY <1>6, <1>7, <1>12 DEF ReceiveGexInit
<1>13. ASSUME NEW data \in BOOLEAN, ReceiveNewKeys(data) PROVE Goal
  <2>1. CASE data
    <3>1. Disconnect /\ UNCHANGED <<negotiated, exchange, keys>>
      BY <1>13, <2>1 DEF ReceiveNewKeys
    <3> QED
      BY <1>4, <1>5, <3>1
  <2>2. CASE ~data /\ CanSwitchKeys
    <3>1. outComp' = outComp + 1 \/ outComp' = outComp
      BY <1>13, <2>2, Zenon DEF ReceiveNewKeys
    <3>2. /\ current' = next /\ sessionID' = sessionID /\ strictKex' = strictKex
          /\ out' = Flush(out, next, outComp')
      BY <1>13, <2>2 DEF ReceiveNewKeys, negotiated
    <3>3. next \in Nat /\ next > 0 /\ current <= next /\ ~Unanswered
      BY <1>1, <2>2 DEF CanSwitchKeys, KeyInv, Unanswered
    <3>4. outComp' \in Nat
      BY <1>1, <3>1
    <3>5. WireEnded
      BY <3>2, <3>3, <3>4 DEF WireEnded
    <3> QED
      BY <3>2, <3>3, <3>5 DEF WireStep
  <2>3. CASE ~data /\ ~CanSwitchKeys
    BY <1>6, <1>13, <2>3 DEF ReceiveNewKeys
  <2> QED
    BY <2>1, <2>2, <2>3
<1>14. CASE ReceiveUnknown
  <2>1. Kept
    BY <1>5, <1>14 DEF ReceiveUnknown
  <2> QED
    BY <1>3, <1>14, <2>1 DEF ReceiveUnknown, Answers, Deferrable
<1>15. CASE StrictViolation
  BY <1>4, <1>5, <1>15 DEF StrictViolation
<1>16. ASSUME NEW length \in BOOLEAN, BadPacket(length) PROVE Goal
  <2>1. Kept
    BY <1>5, <1>16 DEF BadPacket
  <2>2. out' = out \/ Disconnect
    BY <1>16 DEF BadPacket
  <2> QED
    BY <1>2, <1>4, <2>1, <2>2
<1>17. CASE EmptyPacket \/ ReceiveIgnore \/ ReceiveDisconnect
  <2>1. UNCHANGED <<negotiated, exchange, keys>> /\ out' = out
    BY <1>17 DEF EmptyPacket, ReceiveIgnore, ReceiveDisconnect
  <2> QED
    BY <1>2, <1>5, <2>1
<1>18. ASSUME NEW s \in {"userauth", "connection"}, ReceiveServiceRequest(s)
       PROVE  Goal
  <2>1. \/ Fault
        \/ Disconnect /\ UNCHANGED <<negotiated, exchange, keys>>
        \/ Reply("SERVICE_ACCEPT") /\ UNCHANGED <<negotiated, exchange, keys>>
    BY <1>18, Zenon DEF ReceiveServiceRequest
  <2> QED
    BY <1>3, <1>4, <1>5, <1>6, <2>1 DEF Answers, Deferrable
<1>19. CASE ReceiveLogin
  <2>1. Reply("USERAUTH_SUCCESS") /\ UNCHANGED <<negotiated, exchange, keys>>
    BY <1>19 DEF ReceiveLogin
  <2> QED
    BY <1>3, <1>5, <2>1 DEF Answers, Deferrable
<1> QED
  BY <1>8, <1>9, <1>10, <1>11, <1>12, <1>13, <1>14, <1>15, <1>16, <1>17, <1>18,
     <1>19 DEF Receive

-----------------------------------------------------------------------------
(* The two invariants about keys.                                          *)

\* A handler computes keys in place, installs computed ones or forgets them.
LEMMA ReceiveKeys ==
  ASSUME TypeOK, KeyInv, NEW t, NEW p \in Proposal \cup {NoProposal}, Receive(t, p)
  PROVE  KeyInv'
<1> USE DEF Decoded, GetPacket
<1>1. /\ current \in Nat /\ next \in Nat /\ keyCount \in Nat /\ aliased \in BOOLEAN
      /\ gotVersion \in BOOLEAN
  BY DEF TypeOK
<1>2. ASSUME UNCHANGED <<gotVersion, keys>> PROVE KeyInv'
  BY <1>2 DEF keys, KeyInv
<1>3. ASSUME Fault PROVE KeyInv'
  BY <1>2, <1>3 DEF Fault
<1>4. ASSUME NEW r, KeySetup(r), gotVersion PROVE KeyInv'
  <2>1. /\ keyCount' = keyCount + 1 /\ next' = keyCount + 1
        /\ current' = IF aliased THEN keyCount + 1 ELSE current
        /\ UNCHANGED <<gotVersion, aliased>>
    BY <1>4 DEF KeySetup
  <2> QED
    BY <1>1, <1>4, <2>1 DEF KeyInv
<1>5. CASE ReceiveKexInit(p)
  <2>1. next' = 0 /\ aliased' = FALSE /\ UNCHANGED <<gotVersion, current, keyCount>>
    BY <1>5 DEF ReceiveKexInit
  <2> QED
    BY <1>1, <2>1 DEF KeyInv
<1>6. CASE RejectKexInit(p) \/ ReceiveMalformed
  BY <1>3, <1>6 DEF RejectKexInit, ReceiveMalformed
<1>7. CASE ReceiveKexDhInit \/ ReceiveGexInit
  <2>1. gotVersion /\ (Fault \/ KeySetup("KEX_REPLY") \/ UNCHANGED <<gotVersion, keys>>)
    BY <1>7, Zenon DEF ReceiveKexDhInit, ReceiveGexInit
  <2> QED
    BY <1>2, <1>3, <1>4, <2>1
<1>8. CASE ReceiveGexRequest
  BY <1>2, <1>8 DEF ReceiveGexRequest
<1>9. ASSUME NEW data \in BOOLEAN, ReceiveNewKeys(data) PROVE KeyInv'
  <2>1. CASE Fault \/ data
    BY <1>2, <1>3, <1>9, <2>1 DEF ReceiveNewKeys
  <2>2. CASE ~Fault /\ ~data
    <3>1. /\ current' = next /\ aliased' = TRUE /\ CanSwitchKeys
          /\ UNCHANGED <<gotVersion, next, keyCount>> /\ gotVersion
      BY <1>9, <2>2, Zenon DEF ReceiveNewKeys
    <3> QED
      BY <1>1, <3>1 DEF KeyInv, CanSwitchKeys
  <2> QED
    BY <2>1, <2>2
<1>10. CASE \/ ReceiveUnknown \/ StrictViolation \/ EmptyPacket \/ ReceiveIgnore
            \/ ReceiveDisconnect
  BY <1>2, <1>10 DEF ReceiveUnknown, StrictViolation, EmptyPacket, ReceiveIgnore,
                     ReceiveDisconnect
<1>11. ASSUME NEW length \in BOOLEAN, BadPacket(length) PROVE KeyInv'
  BY <1>2, <1>11 DEF BadPacket
<1>12. ASSUME NEW s \in {"userauth", "connection"}, ReceiveServiceRequest(s)
       PROVE  KeyInv'
  <2>1. Fault \/ UNCHANGED <<gotVersion, keys>>
    BY <1>12, Zenon DEF ReceiveServiceRequest
  <2> QED
    BY <1>2, <1>3, <2>1
<1>13. CASE ReceiveLogin
  BY <1>2, <1>13 DEF ReceiveLogin
<1> QED
  BY <1>5, <1>6, <1>7, <1>8, <1>9, <1>10, <1>11, <1>12, <1>13 DEF Receive

WireTypeInv == TypeInv /\ KeyInv /\ PlainInv

\* No packet is read, and nothing of a service sent, before the first exchange.
LEMMA PlainReceive == TypeOK /\ PlainInv /\ GetPacket => Busy \/ current > 0
<1> SUFFICES ASSUME TypeOK, PlainInv, GetPacket, ~Busy, ~(current > 0) PROVE FALSE
  OBVIOUS
<1>1. current = 0
  BY DEF TypeOK
<1> QED
  BY <1>1 DEF PlainInv, GetPacket

\* Every step of the transport is of one of the kinds, and keeps the invariants.
LEMMA NextWire == WireTypeInv /\ [Next]_vars => WireStep /\ KeyInv' /\ PlainInv'
<1> SUFFICES ASSUME WireTypeInv, [Next]_vars PROVE WireStep /\ KeyInv' /\ PlainInv'
  OBVIOUS
<1>1. /\ TypeOK /\ VersionFirst /\ KeyInv /\ PlainInv
      /\ current \in Nat /\ gotVersion \in BOOLEAN /\ sessionID \in BOOLEAN
  BY DEF WireTypeInv, TypeInv, TypeOK
<1>2. CASE ReceivePacket
  <2>1. PICK t \in MessageTypes, p \in Proposal \cup {NoProposal} : Receive(t, p)
    BY <1>2, ProposalsAssumption DEF ReceivePacket, MessageTypes
  <2>2. Busy \/ current > 0
    BY <1>1, <2>1, ReceiveGets, PlainReceive
  <2>3. WireStep /\ (current' > 0 \/ Busy')
    BY <1>1, <2>1, <2>2, ReceiveWire
  <2>4. KeyInv'
    BY <1>1, <2>1, ReceiveKeys
  <2>5. gotVersion'
    <3>1. out' \in OutState
      BY <1>1, StepOutput, OutputType
    <3> QED
      BY <1>1, <2>1, <3>1, ReceiveType
  <2>6. PlainInv'
    BY <2>3, <2>5 DEF PlainInv, Busy
  <2> QED
    BY <2>3, <2>4, <2>6
<1>3. ASSUME NEW line \in {"2.0", "bad", "unsupported"}, ReceiveVersion(line)
      PROVE  WireStep /\ KeyInv' /\ PlainInv'
  <2>1. /\ ~gotVersion /\ ~Busy /\ next = 0
        /\ UNCHANGED <<negotiated, sessionID, keys, login>>
    BY <1>1, <1>3 DEF ReceiveVersion, VersionFirst, KeyInv
  <2>2. KeyInv'
    BY <1>1, <2>1 DEF KeyInv, keys
  <2>3. CASE line = "2.0"
    <3>1. SendKexInit
      BY <1>3, <2>3 DEF ReceiveVersion
    <3>2. Busy'
      BY <3>1 DEF SendKexInit, Busy
    <3>3. PlainInv'
      BY <1>3, <2>3, <3>2 DEF ReceiveVersion, PlainInv, Busy
    <3>4. WireStarted /\ strictKex' = strictKex
      BY <2>1, <3>1, <3>2 DEF WireStarted, SendKexInit, Unanswered, negotiated, keys
    <3> QED
      BY <2>2, <3>3, <3>4 DEF WireStep
  <2>4. CASE line # "2.0"
    <3>1. transport' = "closing" /\ UNCHANGED <<looping, kexState, out>>
      BY <1>3, <2>4 DEF ReceiveVersion
    <3>2. WireStep
      BY <2>1, <3>1 DEF WireStep, WireSame, Unanswered, negotiated, keys, Busy
    <3>3. ~looping /\ (current = 0 => service = "none")
      BY <1>1, <2>1 DEF PlainInv
    <3>4. PlainInv'
      BY <2>1, <3>1, <3>3 DEF PlainInv, keys, login, Busy
    <3> QED
      BY <2>2, <3>2, <3>4
  <2> QED
    BY <2>3, <2>4
<1>4. CASE ServiceSends
  <2>1. UNCHANGED <<link, negotiated, exchange, keys, login>>
    BY <1>4 DEF ServiceSends
  <2>2. ~Busy => current > 0
    BY <1>1, <1>4 DEF ServiceSends, PlainInv
  <2>3. out' = SendPacket(out, current, "SERVICE_DATA")
    BY <1>4 DEF ServiceSends, Reply
  <2>4. WireSent
    BY <2>1, <2>2, <2>3 DEF WireSent, Answers, Deferrable, negotiated, keys
  <2> QED
    BY <1>1, <2>1, <2>4 DEF WireStep, KeyInv, PlainInv, link, negotiated, exchange,
       keys, login, Busy, Unanswered
<1>5. CASE Timeout \/ ConnectionLost
  <2>1. /\ transport' # "open"
        /\ UNCHANGED <<looping, gotVersion, negotiated, exchange, keys, comps,
                       login, out, input>>
    BY <1>5 DEF Timeout, ConnectionLost
  <2> QED
    BY <1>1, <2>1 DEF WireStep, WireSame, KeyInv, PlainInv, negotiated, exchange,
       keys, login, Busy, Unanswered
<1>6. CASE Terminated \/ UNCHANGED vars
  BY <1>1, <1>6 DEF Terminated, WireStep, WireSame, KeyInv, PlainInv, vars, link,
     negotiated, exchange, keys, login, Busy, Unanswered
<1> QED
  BY <1>2, <1>3, <1>4, <1>5, <1>6 DEF Next

-----------------------------------------------------------------------------
(* What the wire satisfies, and what one more packet makes of it.          *)

KeysRise(o, top) ==
  /\ \A i, j \in 1..Len(o.wire) : i < j => o.wire[i].key <= o.wire[j].key
  /\ \A i \in 1..Len(o.wire) : o.wire[i].key <= top

Encrypted(o) ==
  \A i \in 1..Len(o.wire) : o.wire[i].type \in Deferrable => o.wire[i].key > 0

Numbered(o, strict) ==
  /\ \A i \in 1..Len(o.wire) :
       o.wire[i].seq = IF i = 1 \/ (strict /\ o.wire[i - 1].type = "NEWKEYS")
                       THEN 0 ELSE o.wire[i - 1].seq + 1
  /\ o.seq = IF \/ Len(o.wire) = 0
                \/ strict /\ o.wire[Len(o.wire)].type = "NEWKEYS"
             THEN 0 ELSE o.wire[Len(o.wire)].seq + 1

Answered(o) ==
  \A i \in 1..Len(o.wire) :
    o.wire[i].type = "KEXINIT" => \E k \in i..Len(o.wire) : o.wire[k].type = "NEWKEYS"

Quiet(o) ==
  \A i, j \in 1..Len(o.wire) :
    i < j /\ o.wire[i].type = "KEXINIT" /\ o.wire[j].type \in Deferrable
      => \E k \in i..j : o.wire[k].type = "NEWKEYS"

NoNewKeys(o) == \A i \in 1..Len(o.wire) : o.wire[i].type # "NEWKEYS"

\* One packet at the end of the wire.
Extended(o, s, w) ==
  /\ Len(s.wire) = Len(o.wire) + 1
  /\ \A i \in 1..Len(o.wire) : s.wire[i] = o.wire[i]
  /\ s.wire[Len(o.wire) + 1] = w

\* sendPacket extends the wire by the message or leaves it.
LEMMA SendPacketExtends ==
  ASSUME TypeOK, NEW o \in OutState, NEW key \in Nat,
         NEW t \in Deferrable \cup Immediate
  PROVE  LET s == SendPacket(o, key, t)
         IN /\ s \in OutState
            /\ Busy /\ t \in Deferrable => s.wire = o.wire /\ s.seq = o.seq
            /\ ~(Busy /\ t \in Deferrable) =>
                 /\ s.seq = IF strictKex /\ t = "NEWKEYS" THEN 0 ELSE o.seq + 1
                 /\ \E w \in Packet : /\ Extended(o, s, w) /\ w.type = t
                                      /\ w.key = key /\ w.seq = o.seq
<1> DEFINE s  == SendPacket(o, key, t)
           id == IF t \in Deferrable THEN o.submitted + 1 ELSE 0
           w  == [type |-> t, id |-> id, key |-> key, seq |-> o.seq, comp |-> outComp]
<1>1. /\ s \in OutState
      /\ Busy /\ t \in Deferrable => s.wire = o.wire /\ s.seq = o.seq
      /\ ~(Busy /\ t \in Deferrable) =>
           /\ s.seq = IF strictKex /\ t = "NEWKEYS" THEN 0 ELSE o.seq + 1
           /\ s.wire = Append(o.wire, w)
  BY SendPacketShape
<1>2. o.wire \in Seq(Packet) /\ o.seq \in Nat /\ o.submitted \in Nat
  BY DEF OutState
<1>3. w \in Packet
  BY <1>2 DEF Packet, TypeOK
<1>4. w.type = t /\ w.key = key /\ w.seq = o.seq
  OBVIOUS
<1> HIDE DEF s, w
<1>5. ASSUME ~(Busy /\ t \in Deferrable) PROVE Extended(o, s, w)
  <2>1. /\ Len(Append(o.wire, w)) = Len(o.wire) + 1
        /\ \A i \in 1..Len(o.wire) : Append(o.wire, w)[i] = o.wire[i]
        /\ Append(o.wire, w)[Len(o.wire) + 1] = w
    BY <1>2, <1>3, AppendProperties
  <2> QED
    BY <1>1, <1>5, <2>1 DEF Extended
<1> QED
  BY <1>1, <1>3, <1>4, <1>5 DEF s

\* A longer wire with the packets of the shorter one, for one more packet.
LEMMA ExtendedIndices ==
  ASSUME NEW o \in OutState, NEW s \in OutState, NEW w \in Packet, Extended(o, s, w)
  PROVE  LET n == Len(o.wire)
         IN /\ n \in Nat /\ Len(s.wire) = n + 1
            /\ \A i \in 1..(n + 1) : s.wire[i] \in Packet
            /\ \A i \in 1..(n + 1) : (i \in 1..n /\ s.wire[i] = o.wire[i])
                                     \/ (i = n + 1 /\ s.wire[i] = w)
<1>1. o.wire \in Seq(Packet) /\ s.wire \in Seq(Packet)
  BY DEF OutState
<1> QED
  BY <1>1 DEF Extended

\* Keys that do not go back stay so under a key that does not.
LEMMA ExtendedKeys ==
  ASSUME NEW o \in OutState, NEW s \in OutState, NEW w \in Packet,
         Extended(o, s, w), NEW top \in Nat, KeysRise(o, top), top <= w.key
  PROVE  KeysRise(s, w.key)
<1> DEFINE n == Len(o.wire)
<1>1. /\ n \in Nat /\ Len(s.wire) = n + 1
      /\ \A i \in 1..(n + 1) : s.wire[i] \in Packet
      /\ \A i \in 1..(n + 1) : (i \in 1..n /\ s.wire[i] = o.wire[i])
                               \/ (i = n + 1 /\ s.wire[i] = w)
  BY ExtendedIndices
<1>2. \A i \in 1..(n + 1) : s.wire[i].key \in Nat /\ s.wire[i].key <= w.key
  <2> TAKE i \in 1..(n + 1)
  <2>1. s.wire[i].key \in Nat /\ w.key \in Nat
    BY <1>1 DEF Packet
  <2>2. CASE i \in 1..n /\ s.wire[i] = o.wire[i]
    <3>1. o.wire[i].key <= top
      BY <2>2 DEF KeysRise
    <3> HIDE DEF n
    <3> QED
      BY <2>1, <2>2, <3>1
  <2>3. CASE s.wire[i] = w
    <3> HIDE DEF n
    <3> QED
      BY <2>1, <2>3
  <2> QED
    BY <1>1, <2>2, <2>3, Zenon
<1>3. ASSUME NEW i \in 1..(n + 1), NEW j \in 1..(n + 1), i < j
      PROVE  s.wire[i].key <= s.wire[j].key
  <2>1. i \in 1..n /\ s.wire[i] = o.wire[i]
    BY <1>1, <1>3
  <2>2. CASE j \in 1..n
    BY <1>1, <1>3, <2>1, <2>2 DEF KeysRise
  <2>3. CASE j = n + 1
    BY <1>1, <1>2, <2>3
  <2> QED
    BY <1>1, <2>2, <2>3
<1> QED
  BY <1>1, <1>2, <1>3 DEF KeysRise

\* The next number is that of the rule.
LEMMA ExtendedNumbers ==
  ASSUME NEW o \in OutState, NEW s \in OutState, NEW w \in Packet,
         Extended(o, s, w), NEW strict \in BOOLEAN, Numbered(o, strict),
         w.seq = o.seq,
         s.seq = IF strict /\ w.type = "NEWKEYS" THEN 0 ELSE o.seq + 1
  PROVE  Numbered(s, strict)
<1> DEFINE n == Len(o.wire)
<1>1. /\ n \in Nat /\ Len(s.wire) = n + 1
      /\ \A i \in 1..(n + 1) : (i \in 1..n /\ s.wire[i] = o.wire[i])
                               \/ (i = n + 1 /\ s.wire[i] = w)
  BY ExtendedIndices
<1>2. ASSUME NEW i \in 1..(n + 1)
      PROVE  s.wire[i].seq = IF i = 1 \/ (strict /\ s.wire[i - 1].type = "NEWKEYS")
                             THEN 0 ELSE s.wire[i - 1].seq + 1
  <2>1. i # 1 => i - 1 \in 1..n /\ s.wire[i - 1] = o.wire[i - 1]
    BY <1>1
  <2>2. CASE i \in 1..n
    <3>1. o.wire[i].seq = IF i = 1 \/ (strict /\ o.wire[i - 1].type = "NEWKEYS")
                          THEN 0 ELSE o.wire[i - 1].seq + 1
      BY <2>2 DEF Numbered
    <3>2. s.wire[i] = o.wire[i]
      BY <1>1, <2>2
    <3>3. CASE i = 1
      BY <3>1, <3>2, <3>3
    <3>4. CASE i # 1
      BY <2>1, <3>1, <3>2, <3>4
    <3> QED
      BY <3>3, <3>4
  <2>3. CASE i = n + 1
    <3>1. s.wire[i].seq = o.seq
      BY <1>1, <2>3
    <3>2. i = 1 <=> n = 0
      BY <1>1, <2>3
    <3>3. i # 1 => s.wire[i - 1] = o.wire[n]
      BY <1>1, <2>1, <2>3
    <3> QED
      BY <3>1, <3>2, <3>3 DEF Numbered
  <2> QED
    BY <1>1, <2>2, <2>3
<1>3. s.wire[n + 1] = w /\ n + 1 # 0
  BY <1>1
<1> QED
  BY <1>1, <1>2, <1>3 DEF Numbered

\* A message that may wait follows only exchanges whose keys are computed.
LEMMA ExtendedQuiet ==
  ASSUME NEW o \in OutState, NEW s \in OutState, NEW w \in Packet,
         Extended(o, s, w)
  PROVE  /\ Quiet(o) /\ (w.type \in Deferrable => Answered(o)) => Quiet(s)
         /\ Answered(o) /\ w.type # "KEXINIT" => Answered(s)
         /\ w.type = "NEWKEYS" => Answered(s)
         /\ NoNewKeys(o) /\ w.type # "NEWKEYS" => NoNewKeys(s)
         /\ Encrypted(o) /\ (w.type \in Deferrable => w.key > 0) => Encrypted(s)
<1> DEFINE n == Len(o.wire)
<1>1. /\ n \in Nat /\ Len(s.wire) = n + 1
      /\ \A i \in 1..(n + 1) : (i \in 1..n /\ s.wire[i] = o.wire[i])
                               \/ (i = n + 1 /\ s.wire[i] = w)
  BY ExtendedIndices
<1>2. ASSUME Answered(o), w.type # "KEXINIT" PROVE Answered(s)
  <2> SUFFICES ASSUME NEW i \in 1..(n + 1), s.wire[i].type = "KEXINIT"
               PROVE  \E k \in i..(n + 1) : s.wire[k].type = "NEWKEYS"
    BY <1>1 DEF Answered
  <2>1. i \in 1..n /\ o.wire[i].type = "KEXINIT"
    BY <1>1, <1>2
  <2>2. PICK k \in i..n : o.wire[k].type = "NEWKEYS"
    BY <1>2, <2>1 DEF Answered
  <2>3. k \in i..(n + 1) /\ s.wire[k] = o.wire[k]
    BY <1>1, <2>1
  <2> QED
    BY <2>2, <2>3
<1>3. ASSUME w.type = "NEWKEYS" PROVE Answered(s)
  <2>1. \A i \in 1..(n + 1) : n + 1 \in i..(n + 1) /\ s.wire[n + 1].type = "NEWKEYS"
    BY <1>1, <1>3
  <2> QED
    BY <1>1, <2>1 DEF Answered
<1>4. ASSUME Quiet(o), w.type \in Deferrable => Answered(o) PROVE Quiet(s)
  <2> SUFFICES ASSUME NEW i \in 1..(n + 1), NEW j \in 1..(n + 1), i < j,
                      s.wire[i].type = "KEXINIT", s.wire[j].type \in Deferrable
               PROVE  \E k \in i..j : s.wire[k].type = "NEWKEYS"
    BY <1>1 DEF Quiet
  <2>1. i \in 1..n /\ o.wire[i].type = "KEXINIT"
    BY <1>1
  <2>2. CASE j \in 1..n
    <3>1. PICK k \in i..j : o.wire[k].type = "NEWKEYS"
      BY <1>1, <1>4, <2>1, <2>2, SMTT(30) DEF Quiet
    <3>2. k \in 1..n /\ s.wire[k] = o.wire[k]
      BY <1>1, <2>1, <2>2, SMTT(30)
    <3> QED
      BY <3>1, <3>2
  <2>3. CASE j = n + 1
    <3>1. PICK k \in i..n : o.wire[k].type = "NEWKEYS"
      BY <1>1, <1>4, <2>1, <2>3 DEF Answered
    <3>2. k \in i..j /\ s.wire[k] = o.wire[k]
      BY <1>1, <2>1, <2>3
    <3> QED
      BY <3>1, <3>2
  <2> QED
    BY <1>1, <2>2, <2>3
<1>5. ASSUME NoNewKeys(o), w.type # "NEWKEYS" PROVE NoNewKeys(s)
  BY <1>1, <1>5 DEF NoNewKeys
<1>6. ASSUME Encrypted(o), w.type \in Deferrable => w.key > 0 PROVE Encrypted(s)
  BY <1>1, <1>6 DEF Encrypted
<1> QED
  BY <1>2, <1>3, <1>4, <1>5, <1>6

\* All that holds of the wire, top being the last key used.
Wire(o, top) ==
  KeysRise(o, top) /\ Encrypted(o) /\ Numbered(o, strictKex) /\ Quiet(o)

\* sendPacket under a key that is not older than the last one.
LEMMA SendPacketWire ==
  ASSUME TypeOK, NEW o \in OutState, NEW key \in Nat, NEW top \in Nat,
         NEW t \in Deferrable \cup Immediate, Wire(o, top), top <= key,
         t \in Deferrable /\ ~Busy => key > 0 /\ Answered(o)
  PROVE  LET s == SendPacket(o, key, t)
         IN /\ s \in OutState /\ Wire(s, key)
            /\ t = "NEWKEYS" => Answered(s)
            /\ t # "KEXINIT" /\ Answered(o) => Answered(s)
            /\ t # "NEWKEYS" /\ NoNewKeys(o) => NoNewKeys(s)
<1> DEFINE s == SendPacket(o, key, t)
<1>1. /\ s \in OutState
      /\ Busy /\ t \in Deferrable => s.wire = o.wire /\ s.seq = o.seq
      /\ ~(Busy /\ t \in Deferrable) =>
           /\ s.seq = IF strictKex /\ t = "NEWKEYS" THEN 0 ELSE o.seq + 1
           /\ \E w \in Packet : /\ Extended(o, s, w) /\ w.type = t
                                /\ w.key = key /\ w.seq = o.seq
  BY SendPacketExtends
<1>2. KeysRise(o, key)
  <2>1. o.wire \in Seq(Packet)
    BY DEF OutState
  <2>2. ASSUME NEW i \in 1..Len(o.wire) PROVE o.wire[i].key \in Nat
    <3>1. o.wire[i] \in Packet
      BY <2>1
    <3> QED
      BY <3>1 DEF Packet
  <2>3. KeysRise(o, top)
    BY DEF Wire
  <2> QED
    BY <2>2, <2>3 DEF KeysRise
<1>3. strictKex \in BOOLEAN
  BY DEF TypeOK
<1> HIDE DEF s
<1>4. CASE Busy /\ t \in Deferrable
  <2>1. t # "NEWKEYS" /\ s.wire = o.wire /\ s.seq = o.seq
    BY <1>1, <1>4 DEF Deferrable
  <2>2. KeysRise(s, key)
    BY <1>2, <2>1 DEF KeysRise
  <2>3. Encrypted(s) /\ Quiet(s)
    BY <2>1 DEF Wire, Encrypted, Quiet
  <2>4. Numbered(s, strictKex)
    BY <2>1 DEF Wire, Numbered
  <2>5. (Answered(o) => Answered(s)) /\ (NoNewKeys(o) => NoNewKeys(s))
    BY <2>1 DEF Answered, NoNewKeys
  <2> QED
    BY <1>1, <2>1, <2>2, <2>3, <2>4, <2>5 DEF s, Wire
<1>5. CASE ~(Busy /\ t \in Deferrable)
  <2>1. PICK w \in Packet : /\ Extended(o, s, w) /\ w.type = t
                            /\ w.key = key /\ w.seq = o.seq
    BY <1>1, <1>5
  <2>2. KeysRise(s, key)
    BY <1>1, <2>1, ExtendedKeys DEF Wire
  <2>3. Numbered(s, strictKex)
    <3>1. s.seq = IF strictKex /\ w.type = "NEWKEYS" THEN 0 ELSE o.seq + 1
      BY <1>1, <1>5, <2>1
    <3> QED
      BY <1>1, <1>3, <2>1, <3>1, ExtendedNumbers DEF Wire
  <2>4. Quiet(s) /\ Encrypted(s)
    BY <1>1, <1>5, <2>1, ExtendedQuiet DEF Wire
  <2>5. /\ t = "NEWKEYS" => Answered(s)
        /\ t # "KEXINIT" /\ Answered(o) => Answered(s)
        /\ t # "NEWKEYS" /\ NoNewKeys(o) => NoNewKeys(s)
    BY <1>1, <2>1, ExtendedQuiet
  <2> QED
    BY <1>1, <2>2, <2>3, <2>4, <2>5 DEF s, Wire
<1> QED
  BY <1>4, <1>5

\* The messages that waited, written at the end of an exchange.
LEMMA FlushWire ==
  ASSUME TypeOK, NEW o \in OutState, NEW key \in Nat, NEW comp \in Nat,
         NEW top \in Nat, Wire(o, top), top <= key, key > 0, Answered(o)
  PROVE  LET f == Flush(o, key, comp)
         IN /\ Wire(f, key) /\ Answered(f)
            /\ NoNewKeys(o) => NoNewKeys(f)
<1> DEFINE f == Flush(o, key, comp)
<1>0. PICK n \in Nat, b \in Nat : n = Len(o.wire) /\ b = Len(o.blocked)
  <2>1. o.wire \in Seq(Packet) /\ o.blocked \in Seq(Held)
    BY DEF OutState
  <2> QED
    BY <2>1
<1>1. /\ f \in OutState /\ f.seq = o.seq + b /\ Len(f.wire) = n + b
      /\ \A i \in 1..n : f.wire[i] = o.wire[i]
      /\ \A k \in 1..b : f.wire[n + k] =
           [ type |-> o.blocked[k].type, id |-> o.blocked[k].id,
             key |-> key, seq |-> o.seq + k - 1, comp |-> comp ]
  <2>1. f \in OutState /\ f.seq = o.seq + Len(o.blocked)
    BY FlushShape, ZenonT(60)
  <2>4. Len(f.wire) = Len(o.wire) + Len(o.blocked)
    BY FlushShape, ZenonT(60)
  <2>2. \A i \in 1..Len(o.wire) : f.wire[i] = o.wire[i]
    BY FlushShape, ZenonT(60)
  <2>3. \A k \in 1..Len(o.blocked) : f.wire[Len(o.wire) + k] =
           [ type |-> o.blocked[k].type, id |-> o.blocked[k].id,
             key |-> key, seq |-> o.seq + k - 1, comp |-> comp ]
    BY FlushShape, ZenonT(60)
  <2> HIDE DEF f
  <2> QED
    BY <1>0, <2>1, <2>2, <2>3, <2>4
<1>2. /\ o.seq \in Nat
      /\ \A k \in 1..b : o.blocked[k].type \in Deferrable
      /\ \A i \in 1..n : o.wire[i] \in Packet
  <2>1. o.wire \in Seq(Packet) /\ o.blocked \in Seq(Held) /\ o.seq \in Nat
    BY DEF OutState
  <2>2. \A k \in 1..b : o.blocked[k] \in Held
    BY <1>0, <2>1
  <2> QED
    BY <1>0, <2>1, <2>2 DEF Held
<1> HIDE DEF f
<1>3. ASSUME NEW i \in 1..(n + b)
      PROVE  \/ i \in 1..n /\ f.wire[i] = o.wire[i]
             \/ /\ i - n \in 1..b /\ f.wire[i].type \in Deferrable
                /\ f.wire[i].key = key /\ f.wire[i].seq = o.seq + (i - n) - 1
  <2>1. CASE i \in 1..n
    BY <1>1, <2>1
  <2>2. CASE i \notin 1..n
    <3>1. i - n \in 1..b /\ n + (i - n) = i
      BY <1>2, <2>2
    <3>2. f.wire[n + (i - n)] =
            [ type |-> o.blocked[i - n].type, id |-> o.blocked[i - n].id,
              key |-> key, seq |-> o.seq + (i - n) - 1, comp |-> comp ]
      BY <1>1, <3>1
    <3>3. o.blocked[i - n].type \in Deferrable
      BY <1>2, <3>1
    <3> QED
      BY <3>1, <3>2, <3>3
  <2> QED
    BY <2>1, <2>2
<1>4. \A t \in Deferrable : t # "KEXINIT" /\ t # "NEWKEYS"
  BY DEF Deferrable
<1>5. KeysRise(f, key)
  <2>1. ASSUME NEW i \in 1..(n + b) PROVE f.wire[i].key \in Nat /\ f.wire[i].key <= key
    <3>1. CASE i \in 1..n /\ f.wire[i] = o.wire[i]
      <4>1. o.wire[i].key \in Nat
        BY <1>2, <3>1 DEF Packet
      <4>2. o.wire[i].key <= top
        BY <1>0, <3>1 DEF Wire, KeysRise
      <4> QED
        BY <3>1, <4>1, <4>2
    <3>2. CASE f.wire[i].key = key
      BY <3>2
    <3> QED
      BY <1>3, <3>1, <3>2
  <2>2. ASSUME NEW i \in 1..(n + b), NEW j \in 1..(n + b), i < j
        PROVE  f.wire[i].key <= f.wire[j].key
    <3>1. CASE j \in 1..n
      <4>1. i \in 1..n /\ f.wire[i] = o.wire[i] /\ f.wire[j] = o.wire[j]
        BY <1>1, <1>2, <2>2, <3>1
      <4> QED
        BY <1>0, <2>2, <3>1, <4>1 DEF Wire, KeysRise
    <3>2. CASE j \notin 1..n
      BY <1>3, <2>1, <3>2
    <3> QED
      BY <3>1, <3>2
  <2> QED
    BY <1>0, <1>1, <2>1, <2>2 DEF KeysRise
<1>6. Encrypted(f)
  <2>1. \A i \in 1..(n + b) : f.wire[i].type \in Deferrable => f.wire[i].key > 0
    BY <1>0, <1>2, <1>3 DEF Wire, Encrypted
  <2> QED
    BY <1>0, <1>1, <2>1 DEF Encrypted
<1>7. Answered(f)
  <2> SUFFICES ASSUME NEW i \in 1..(n + b), f.wire[i].type = "KEXINIT"
               PROVE  \E k \in i..(n + b) : f.wire[k].type = "NEWKEYS"
    BY <1>0, <1>1 DEF Answered
  <2>1. i \in 1..n /\ o.wire[i].type = "KEXINIT"
    BY <1>3, <1>4
  <2>2. PICK k \in i..n : o.wire[k].type = "NEWKEYS"
    BY <1>0, <2>1 DEF Answered
  <2>3. k \in i..(n + b) /\ f.wire[k] = o.wire[k]
    BY <1>1, <1>2, <2>1
  <2> QED
    BY <2>2, <2>3
<1>8. Quiet(f)
  <2> SUFFICES ASSUME NEW i \in 1..(n + b), NEW j \in 1..(n + b), i < j,
                      f.wire[i].type = "KEXINIT", f.wire[j].type \in Deferrable
               PROVE  \E k \in i..j : f.wire[k].type = "NEWKEYS"
    BY <1>0, <1>1 DEF Quiet
  <2>1. i \in 1..n /\ o.wire[i].type = "KEXINIT"
    BY <1>3, <1>4
  <2>2. CASE j \in 1..n
    <3>1. o.wire[j].type \in Deferrable
      BY <1>1, <2>2
    <3>2. PICK k \in i..j : o.wire[k].type = "NEWKEYS"
      BY <1>0, <2>1, <2>2, <3>1 DEF Wire, Quiet
    <3>3. k \in 1..n /\ f.wire[k] = o.wire[k]
      BY <1>1, <1>2, <2>1, <2>2
    <3> QED
      BY <3>2, <3>3
  <2>3. CASE j \notin 1..n
    <3>1. PICK k \in i..n : o.wire[k].type = "NEWKEYS"
      BY <1>0, <2>1 DEF Answered
    <3>2. k \in i..j /\ f.wire[k] = o.wire[k]
      BY <1>1, <1>2, <2>1, <2>3
    <3> QED
      BY <3>1, <3>2
  <2> QED
    BY <2>2, <2>3
<1>9. NoNewKeys(o) => NoNewKeys(f)
  BY <1>0, <1>1, <1>3, <1>4 DEF NoNewKeys
<1>10. Numbered(f, strictKex)
  <2> DEFINE starts(i) == strictKex /\ f.wire[i].type = "NEWKEYS"
  <2>1. ASSUME NEW i \in 1..(n + b)
        PROVE  f.wire[i].seq = IF i = 1 \/ starts(i - 1) THEN 0
                                                        ELSE f.wire[i - 1].seq + 1
    <3>1. CASE i \in 1..n
      <4>1. f.wire[i] = o.wire[i] /\ (i # 1 => f.wire[i - 1] = o.wire[i - 1])
        BY <1>1, <1>2, <3>1
      <4>2. o.wire[i].seq = IF i = 1 \/ (strictKex /\ o.wire[i - 1].type = "NEWKEYS")
                            THEN 0 ELSE o.wire[i - 1].seq + 1
        BY <1>0, <3>1 DEF Wire, Numbered
      <4>3. CASE i = 1
        BY <4>1, <4>2, <4>3
      <4>4. CASE i # 1
        BY <4>1, <4>2, <4>4
      <4> QED
        BY <4>3, <4>4
    <3>2. CASE i = n + 1
      <4>1. f.wire[i].seq = o.seq
        BY <1>2, <1>3, <3>2
      <4>2. CASE n = 0
        BY <1>0, <3>2, <4>1, <4>2 DEF Wire, Numbered
      <4>3. CASE n # 0
        <5>1. f.wire[i - 1] = o.wire[n] /\ i # 1
          BY <1>1, <1>2, <3>2, <4>3
        <5> QED
          BY <1>0, <4>1, <4>3, <5>1 DEF Wire, Numbered
      <4> QED
        BY <4>2, <4>3
    <3>3. CASE i \notin 1..n /\ i # n + 1
      <4>1. i - 1 \in 1..(n + b) /\ i - 1 \notin 1..n /\ i # 1
        BY <1>2, <3>3
      <4>2. /\ f.wire[i].seq = o.seq + (i - n) - 1
            /\ f.wire[i - 1].seq = o.seq + ((i - 1) - n) - 1
            /\ f.wire[i - 1].type \in Deferrable
        BY <1>3, <3>3, <4>1
      <4>3. f.wire[i].seq = f.wire[i - 1].seq + 1
        BY <1>2, <4>2
      <4> QED
        BY <1>4, <4>1, <4>2, <4>3
    <3> QED
      BY <3>1, <3>2, <3>3
  <2>2. f.seq = IF n + b = 0 \/ starts(n + b) THEN 0 ELSE f.wire[n + b].seq + 1
    <3>1. CASE b = 0
      <4>1. n + b = n /\ f.seq = o.seq /\ (n # 0 => f.wire[n] = o.wire[n])
        BY <1>1, <1>2, <3>1
      <4> QED
        BY <1>0, <4>1 DEF Wire, Numbered
    <3>2. CASE b # 0
      <4>1. n + b \in 1..(n + b) /\ n + b \notin 1..n /\ n + b # 0
        BY <1>2, <3>2
      <4>2. f.wire[n + b].type \in Deferrable
            /\ f.wire[n + b].seq = o.seq + ((n + b) - n) - 1
        BY <1>3, <4>1
      <4>3. f.seq = f.wire[n + b].seq + 1
        BY <1>1, <1>2, <4>2
      <4> QED
        BY <1>4, <4>1, <4>2, <4>3
    <3> QED
      BY <3>1, <3>2
  <2> QED
    BY <1>0, <1>1, <2>1, <2>2 DEF Numbered
<1> QED
  BY <1>5, <1>6, <1>7, <1>8, <1>9, <1>10 DEF f, Wire

-----------------------------------------------------------------------------
(* The invariant and the theorems.                                         *)

\* The wire is right, every KEXINIT is answered once keys are computed, and
\* the first NEWKEYS comes with the session identifier.
WireInv ==
  /\ WireTypeInv
  /\ Wire(out, current)
  /\ ~Unanswered => Answered(out)
  /\ ~sessionID => NoNewKeys(out)

\* Before a NEWKEYS the numbers are the same with strict key exchange or not.
LEMMA NumberedEither ==
  ASSUME NEW o \in OutState, NoNewKeys(o), NEW a \in BOOLEAN, NEW b \in BOOLEAN,
         Numbered(o, a)
  PROVE  Numbered(o, b)
<1>1. PICK n \in Nat : n = Len(o.wire)
  <2>1. o.wire \in Seq(Packet)
    BY DEF OutState
  <2> QED
    BY <2>1
<1>2. ASSUME NEW i \in 1..n
      PROVE  o.wire[i].seq = IF i = 1 \/ (b /\ o.wire[i - 1].type = "NEWKEYS")
                             THEN 0 ELSE o.wire[i - 1].seq + 1
  <2>1. o.wire[i].seq = IF i = 1 \/ (a /\ o.wire[i - 1].type = "NEWKEYS")
                        THEN 0 ELSE o.wire[i - 1].seq + 1
    BY <1>1 DEF Numbered
  <2>2. CASE i = 1
    BY <2>1, <2>2
  <2>3. CASE i # 1
    <3>1. i - 1 \in 1..n
      BY <2>3
    <3>2. o.wire[i - 1].type # "NEWKEYS"
      BY <1>1, <3>1 DEF NoNewKeys
    <3> QED
      BY <2>1, <2>3, <3>2
  <2> QED
    BY <2>2, <2>3
<1>3. o.seq = IF n = 0 \/ (b /\ o.wire[n].type = "NEWKEYS")
              THEN 0 ELSE o.wire[n].seq + 1
  <2>1. n # 0 => o.wire[n].type # "NEWKEYS"
    BY <1>1 DEF NoNewKeys
  <2>2. o.seq = IF n = 0 \/ (a /\ o.wire[n].type = "NEWKEYS")
                THEN 0 ELSE o.wire[n].seq + 1
    BY <1>1 DEF Numbered
  <2>3. CASE n = 0
    BY <2>2, <2>3
  <2>4. CASE n # 0
    BY <2>1, <2>2, <2>4
  <2> QED
    BY <2>3, <2>4
<1> QED
  BY <1>1, <1>2, <1>3 DEF Numbered

\* Every kind of step keeps the wire right.
LEMMA WireStepRight ==
  ASSUME WireInv, WireStep
  PROVE  /\ Wire(out', current')
         /\ ~Unanswered' => Answered(out')
         /\ ~sessionID' => NoNewKeys(out')
         /\ strictKex' = strictKex \/ ~sessionID'
<1> DEFINE Right(o, key) ==
             /\ Wire(o, key)
             /\ ~Unanswered' => Answered(o)
             /\ ~sessionID' => NoNewKeys(o)
<1>1. /\ TypeOK /\ out \in OutState /\ current \in Nat /\ Wire(out, current)
      /\ ~Unanswered => Answered(out)
      /\ ~sessionID => NoNewKeys(out)
  BY DEF WireInv, WireTypeInv, TypeInv, TypeOK
<1>2. CASE WireStarted
  <2> DEFINE o == SendPacket(out, current, "KEXINIT")
  <2>1. /\ "KEXINIT" \in Deferrable \cup Immediate
        /\ "KEXINIT" \notin Deferrable /\ current <= current
    BY <1>1 DEF Deferrable, Immediate
  <2>2. o \in OutState /\ Wire(o, current) /\ (NoNewKeys(out) => NoNewKeys(o))
    BY <1>1, <2>1, SendPacketWire
  <2> HIDE DEF o
  <2>3. out' = [o EXCEPT !.blocked = << >>]
    BY <1>2 DEF WireStarted, o
  <2>4. out'.wire = o.wire /\ out'.seq = o.seq
    BY <2>2, <2>3 DEF OutState
  <2>5. KeysRise(out', current) /\ Encrypted(out')
    BY <2>2, <2>4 DEF Wire, KeysRise, Encrypted
  <2>6. Numbered(out', strictKex)
    BY <2>2, <2>4 DEF Wire, Numbered
  <2>7. Quiet(out') /\ (NoNewKeys(out) => NoNewKeys(out'))
    BY <2>2, <2>4 DEF Wire, Quiet, NoNewKeys
  <2>8. Wire(out', current')
    BY <1>2, <2>5, <2>6, <2>7 DEF Wire, WireStarted
  <2>9. Unanswered' /\ sessionID' = sessionID
    BY <1>2 DEF WireStarted
  <2>10. strictKex' = strictKex \/ ~sessionID
    BY DEF WireStep
  <2> QED
    BY <1>1, <2>7, <2>8, <2>9, <2>10
<1>3. CASE WireKeyed
  <2> DEFINE r == SendPacket(out, current, "KEX_REPLY")
             k == SendPacket(r, current', "NEWKEYS")
             x == SendPacket(k, current', "EXT_INFO")
  <2>1. /\ "KEX_REPLY" \in Immediate /\ "KEX_REPLY" \notin Deferrable
        /\ "NEWKEYS" \in Immediate /\ "NEWKEYS" \notin Deferrable
        /\ "EXT_INFO" \in Deferrable
    BY DEF Immediate, Deferrable
  <2>2. /\ current' \in Nat /\ current <= current' /\ current <= current
        /\ current' <= current' /\ (~Busy => current' > 0)
        /\ strictKex' = strictKex /\ sessionID'
    BY <1>1, <1>3 DEF WireKeyed
  <2>3. r \in OutState /\ Wire(r, current)
    BY <1>1, <2>1, <2>2, SendPacketWire
  <2> HIDE DEF r
  <2>4. k \in OutState /\ Wire(k, current') /\ Answered(k)
    BY <1>1, <2>1, <2>2, <2>3, SendPacketWire
  <2> HIDE DEF k
  <2>5. x \in OutState /\ Wire(x, current') /\ Answered(x)
    BY <1>1, <2>1, <2>2, <2>4, SendPacketWire
  <2> HIDE DEF x
  <2>6. out' = k \/ out' = x
    BY <1>3 DEF WireKeyed, KeysSent, r, k, x
  <2> QED
    BY <2>2, <2>4, <2>5, <2>6
<1>4. CASE sessionID' = sessionID /\ (Unanswered => Unanswered') /\ WireSame
  <2>1. out' = out /\ current' = current
    BY <1>4 DEF WireSame
  <2>2. strictKex' = strictKex \/ ~sessionID
    BY DEF WireStep
  <2> QED
    BY <1>1, <1>4, <2>1, <2>2
<1>5. CASE sessionID' = sessionID /\ (Unanswered => Unanswered') /\ WireSent
  <2>1. PICK t \in Answers \ {"EXT_INFO"} :
          /\ out' = SendPacket(out, current, t)
          /\ t \in Deferrable /\ ~Busy => current > 0
    BY <1>5 DEF WireSent
  <2>2. /\ t \in Deferrable \cup Immediate /\ t # "KEXINIT" /\ t # "NEWKEYS"
        /\ current <= current
    BY <1>1 DEF Answers, Deferrable, Immediate
  <2>3. ~Busy => Answered(out)
    BY <1>1 DEF Unanswered
  <2>4. /\ Wire(SendPacket(out, current, t), current)
        /\ Answered(out) => Answered(SendPacket(out, current, t))
        /\ NoNewKeys(out) => NoNewKeys(SendPacket(out, current, t))
    BY <1>1, <2>1, <2>2, <2>3, SendPacketWire
  <2>5. current' = current /\ strictKex' = strictKex
    BY <1>5 DEF WireSent
  <2> QED
    BY <1>1, <1>5, <2>1, <2>4, <2>5
<1>6. CASE sessionID' = sessionID /\ WireEnded
  <2>1. PICK comp \in Nat : out' = Flush(out, current', comp)
    BY <1>6 DEF WireEnded
  <2>2. /\ current' \in Nat /\ current <= current' /\ current' > 0
        /\ strictKex' = strictKex /\ Answered(out)
    BY <1>1, <1>6 DEF WireEnded
  <2>3. /\ Wire(Flush(out, current', comp), current')
        /\ Answered(Flush(out, current', comp))
        /\ NoNewKeys(out) => NoNewKeys(Flush(out, current', comp))
    BY <1>1, <2>2, FlushWire
  <2> QED
    BY <1>1, <1>6, <2>1, <2>2, <2>3
<1> QED
  BY <1>2, <1>3, <1>4, <1>5, <1>6 DEF WireStep

LEMMA WireInvariant == Spec => []WireInv
<1>1. Init => WireInv
  <2> SUFFICES ASSUME Init PROVE WireInv
    OBVIOUS
  <2>1. WireTypeInv
    BY InitType DEF Init, WireTypeInv, KeyInv, PlainInv, Busy
  <2>2. out = [wire |-> << >>, seq |-> 0, blocked |-> << >>, submitted |-> 0]
    BY DEF Init
  <2>3. Len(out.wire) = 0 /\ out.seq = 0
    BY <2>2
  <2>4. KeysRise(out, current) /\ Encrypted(out) /\ Quiet(out)
    BY <2>3 DEF KeysRise, Encrypted, Quiet
  <2>5. Numbered(out, strictKex)
    BY <2>3 DEF Numbered
  <2>6. Answered(out) /\ NoNewKeys(out)
    BY <2>3 DEF Answered, NoNewKeys
  <2> QED
    BY <2>1, <2>4, <2>5, <2>6 DEF WireInv, Wire
<1>2. WireInv /\ [Next]_vars => WireInv'
  <2> SUFFICES ASSUME WireInv, [Next]_vars PROVE WireInv'
    OBVIOUS
  <2>1. WireTypeInv /\ TypeInv
    BY DEF WireInv, WireTypeInv
  <2>2. WireStep /\ WireTypeInv'
    BY <2>1, NextWire, NextType DEF WireTypeInv
  <2>3. /\ Wire(out', current')
        /\ ~Unanswered' => Answered(out')
        /\ ~sessionID' => NoNewKeys(out')
        /\ strictKex' = strictKex \/ ~sessionID'
    BY <2>2, WireStepRight
  <2>4. Numbered(out', strictKex')
    <3>1. /\ out' \in OutState /\ strictKex \in BOOLEAN /\ strictKex' \in BOOLEAN
      BY <2>1, <2>2 DEF WireTypeInv, TypeInv, TypeOK
    <3>2. Numbered(out', strictKex)
      BY <2>3 DEF Wire
    <3> QED
      BY <2>3, <3>1, <3>2, NumberedEither
  <2>5. Wire(out, current)'
    BY <2>3, <2>4 DEF Wire
  <2>6. (~Unanswered => Answered(out))' /\ (~sessionID => NoNewKeys(out))'
    BY <2>3
  <2> QED
    BY <2>2, <2>5, <2>6 DEF WireInv
<1> QED
  BY <1>1, <1>2, PTL DEF Spec

\* No service message, login result or EXT_INFO is written in plaintext, for
\* every client and any number of exchanges: dataReceived reads no packet
\* before the version exchange has sent a KEXINIT, and from then on sendPacket
\* holds such messages back until _newKeys has installed the first keys.
THEOREM ServicesAlwaysEncrypted == Spec => []ServicesEncrypted
<1>1. WireInv => ServicesEncrypted
  BY DEF WireInv, Wire, Encrypted, ServicesEncrypted, Written, Deferred
<1> QED
  BY <1>1, WireInvariant, PTL

\* No packet is written under keys older than those of a packet before it,
\* whatever stray NEWKEYS or second KEXDH_INIT the client sends: while
\* nextEncryptions and currentEncryptions are one object, _keySetup moves both
\* forward (_keySetup, _newKeys).
THEOREM KeysAdvance == Spec => []KeysNeverGoBack
<1>1. WireInv => KeysNeverGoBack
  BY DEF WireInv, Wire, KeysRise, KeysNeverGoBack, Written
<1> QED
  BY <1>1, WireInvariant, PTL

\* The numbers sendPacket gives follow the rule of the negotiated mode, from
\* the first packet on, also across the first KEXINIT that sets
\* _strictKeyExchange and with messages that waited (sendPacket, ssh_KEXINIT).
THEOREM NumbersFollowRule == Spec => []SequenceRule
<1>1. WireInv => SequenceRule
  BY DEF WireInv, Wire, Numbered, SequenceRule, Written
<1> QED
  BY <1>1, WireInvariant, PTL

\* Between a KEXINIT and its NEWKEYS nothing but key exchange messages is
\* written, and nothing waits when no exchange is under way: for any number of
\* exchanges and any order of the client's messages (sendPacket, _newKeys).
THEOREM ExchangesQuiet == Spec => []QuietDuringExchange
<1>1. WireInv /\ QueueInv => QuietDuringExchange
  <2>1. WireInv => Quiet(out)
    BY DEF WireInv, Wire
  <2>2. QueueInv => NoneWaiting(out)
    BY DEF QueueInv
  <2> QED
    BY <2>1, <2>2 DEF Quiet, NoneWaiting, QuietDuringExchange, Written, Deferred
<1> QED
  BY <1>1, WireInvariant, QueueInvariant, PTL
-----------------------------------------------------------------------------
(* The announcement of extensions: EXT_INFO, once and after NEWKEYS.       *)

SentExt(o)    == {i \in 1..Len(o.wire) : o.wire[i].type = "EXT_INFO"}
WaitingExt(o) == {k \in 1..Len(o.blocked) : o.blocked[k].type = "EXT_INFO"}

NoExt(o) == SentExt(o) = {} /\ WaitingExt(o) = {}

NewKeysBy(o, i) == \E n \in 1..i : o.wire[n].type = "NEWKEYS"

HasNewKeys(o) == NewKeysBy(o, Len(o.wire))

\* At most one was made, and a NEWKEYS is in front of it, also while it waits.
OneExt(o) ==
  /\ \A i, j \in SentExt(o) : i = j
  /\ \A k, l \in WaitingExt(o) : k = l
  /\ SentExt(o) = {} \/ WaitingExt(o) = {}
  /\ \A i \in SentExt(o) : NewKeysBy(o, i)
  /\ WaitingExt(o) # {} => HasNewKeys(o)

\* What appending a message to the wire or to the list does to the
\* announcements in it.
LEMMA AppendExt ==
  ASSUME NEW T, NEW s \in Seq(T), NEW m \in T
  PROVE  /\ Len(Append(s, m)) = Len(s) + 1
         /\ \A i \in 1..Len(s) : Append(s, m)[i] = s[i]
         /\ Append(s, m)[Len(s) + 1] = m
         /\ {i \in 1..Len(Append(s, m)) : Append(s, m)[i].type = "EXT_INFO"}
              = {i \in 1..Len(s) : s[i].type = "EXT_INFO"}
                  \cup {i \in {Len(s) + 1} : m.type = "EXT_INFO"}
<1>1. Len(s) \in Nat
  OBVIOUS
<1>2. /\ Len(Append(s, m)) = Len(s) + 1
      /\ \A i \in 1..Len(s) : Append(s, m)[i] = s[i]
      /\ Append(s, m)[Len(s) + 1] = m
  OBVIOUS
<1>3. 1..(Len(s) + 1) = 1..Len(s) \cup {Len(s) + 1}
  BY <1>1
<1> QED
  BY <1>2, <1>3

\* What a message does to the announcements: written or held back, any other
\* leaves them as they are.
LEMMA SendPacketExt ==
  ASSUME TypeOK, NEW o \in OutState, NEW key \in Nat,
         NEW t \in Deferrable \cup Immediate
  PROVE  LET s == SendPacket(o, key, t)
             held == Busy /\ t \in Deferrable
         IN /\ s \in OutState
            /\ Len(s.wire) >= Len(o.wire)
            /\ \A i \in 1..Len(o.wire) : s.wire[i] = o.wire[i]
            /\ ~held => /\ Len(s.wire) = Len(o.wire) + 1
                        /\ s.wire[Len(o.wire) + 1].type = t
            /\ SentExt(s) = SentExt(o) \cup {i \in {Len(o.wire) + 1} :
                                               t = "EXT_INFO" /\ ~held}
            /\ WaitingExt(s) = WaitingExt(o) \cup {k \in {Len(o.blocked) + 1} :
                                                     t = "EXT_INFO" /\ held}
<1> DEFINE s    == SendPacket(o, key, t)
           held == Busy /\ t \in Deferrable
           id   == IF t \in Deferrable THEN o.submitted + 1 ELSE 0
           b    == [type |-> t, id |-> id]
           w    == [type |-> t, id |-> id, key |-> key, seq |-> o.seq, comp |-> outComp]
<1>1. /\ o.wire \in Seq(Packet) /\ o.blocked \in Seq(Held)
      /\ o.submitted \in Nat /\ o.seq \in Nat
  BY DEF OutState
<1>2. id \in Nat /\ outComp \in Nat
  BY <1>1 DEF TypeOK
<1>3. /\ s \in OutState
      /\ held => s.wire = o.wire /\ s.blocked = Append(o.blocked, b)
      /\ ~held => s.blocked = o.blocked /\ s.wire = Append(o.wire, w)
  BY SendPacketShape, Zenon
<1>4. Len(o.wire) \in Nat
  BY <1>1
<1>5. CASE held
  <2>1. b \in Held /\ b.type = t
    BY <1>2, <1>5 DEF Held
  <2> HIDE DEF b, s
  <2>2. WaitingExt(s) = WaitingExt(o) \cup {k \in {Len(o.blocked) + 1} : t = "EXT_INFO"}
    BY <1>1, <1>3, <1>5, <2>1, AppendExt DEF WaitingExt
  <2>3. s.wire = o.wire /\ SentExt(s) = SentExt(o)
    BY <1>3, <1>5 DEF SentExt
  <2>4. Len(s.wire) >= Len(o.wire)
    BY <1>4, <2>3
  <2> QED
    BY <1>3, <1>5, <2>2, <2>3, <2>4 DEF s
<1>6. CASE ~held
  <2>1. w \in Packet /\ w.type = t
    BY <1>1, <1>2 DEF Packet
  <2> HIDE DEF w, s
  <2>2. /\ Len(s.wire) = Len(o.wire) + 1
        /\ \A i \in 1..Len(o.wire) : s.wire[i] = o.wire[i]
        /\ s.wire[Len(o.wire) + 1] = w
        /\ SentExt(s) = SentExt(o) \cup {i \in {Len(o.wire) + 1} : t = "EXT_INFO"}
    BY <1>1, <1>3, <1>6, <2>1, AppendExt DEF SentExt
  <2>3. WaitingExt(s) = WaitingExt(o)
    BY <1>3, <1>6 DEF WaitingExt
  <2>4. Len(s.wire) >= Len(o.wire)
    BY <1>4, <2>2
  <2> QED
    BY <1>3, <1>6, <2>1, <2>2, <2>3, <2>4 DEF s
<1> QED
  BY <1>5, <1>6

\* A NEWKEYS on the wire stays where it is.
LEMMA NewKeysStay ==
  ASSUME NEW o \in OutState, NEW s \in OutState,
         Len(s.wire) >= Len(o.wire),
         \A i \in 1..Len(o.wire) : s.wire[i] = o.wire[i]
  PROVE  /\ \A i \in 1..Len(o.wire) : NewKeysBy(o, i) => NewKeysBy(s, i)
         /\ HasNewKeys(o) => HasNewKeys(s)
<1>1. Len(o.wire) \in Nat /\ Len(s.wire) \in Nat
  BY DEF OutState
<1>2. ASSUME NEW i \in 0..Len(o.wire), NEW j \in Nat, i <= j, NewKeysBy(o, i)
      PROVE  NewKeysBy(s, j)
  <2>1. PICK n \in 1..i : o.wire[n].type = "NEWKEYS"
    BY <1>2 DEF NewKeysBy
  <2>2. n \in 1..Len(o.wire) /\ n \in 1..j
    BY <1>1, <1>2
  <2>3. s.wire[n].type = "NEWKEYS"
    BY <2>1, <2>2
  <2> QED
    BY <2>2, <2>3 DEF NewKeysBy
<1>3. \A i \in 1..Len(o.wire) : NewKeysBy(o, i) => NewKeysBy(s, i)
  <2> TAKE i \in 1..Len(o.wire)
  <2>1. i \in 0..Len(o.wire) /\ i \in Nat /\ i <= i
    BY <1>1
  <2> QED
    BY <1>2, <2>1
<1>4. HasNewKeys(o) => HasNewKeys(s)
  <2>1. Len(o.wire) \in 0..Len(o.wire)
    BY <1>1
  <2> QED
    BY <1>1, <1>2, <2>1 DEF HasNewKeys
<1> QED
  BY <1>3, <1>4

\* No message but EXT_INFO changes what was announced.
LEMMA OtherKeepsExt ==
  ASSUME TypeOK, NEW o \in OutState, NEW key \in Nat,
         NEW t \in Deferrable \cup Immediate, t # "EXT_INFO", OneExt(o)
  PROVE  LET s == SendPacket(o, key, t)
         IN /\ s \in OutState /\ OneExt(s)
            /\ NoExt(o) => NoExt(s)
            /\ t = "NEWKEYS" => HasNewKeys(s)
<1> DEFINE s == SendPacket(o, key, t)
<1>1. /\ s \in OutState
      /\ Len(s.wire) >= Len(o.wire)
      /\ \A i \in 1..Len(o.wire) : s.wire[i] = o.wire[i]
      /\ t \notin Deferrable => /\ Len(s.wire) = Len(o.wire) + 1
                                /\ s.wire[Len(o.wire) + 1].type = t
      /\ SentExt(s) = SentExt(o) /\ WaitingExt(s) = WaitingExt(o)
  <2>1. /\ s \in OutState
        /\ Len(s.wire) >= Len(o.wire)
        /\ \A i \in 1..Len(o.wire) : s.wire[i] = o.wire[i]
        /\ ~(Busy /\ t \in Deferrable) =>
             /\ Len(s.wire) = Len(o.wire) + 1
             /\ s.wire[Len(o.wire) + 1].type = t
        /\ SentExt(s) = SentExt(o) \cup {i \in {Len(o.wire) + 1} :
                           t = "EXT_INFO" /\ ~(Busy /\ t \in Deferrable)}
        /\ WaitingExt(s) = WaitingExt(o) \cup {k \in {Len(o.blocked) + 1} :
                              t = "EXT_INFO" /\ (Busy /\ t \in Deferrable)}
    BY SendPacketExt, ZenonT(30)
  <2> HIDE DEF s
  <2> QED
    BY <2>1
<1> HIDE DEF s
<1>2. OneExt(s)
  <2>1. \A i \in SentExt(o) : i \in 1..Len(o.wire)
    BY DEF SentExt
  <2>2. /\ \A i \in 1..Len(o.wire) : NewKeysBy(o, i) => NewKeysBy(s, i)
        /\ HasNewKeys(o) => HasNewKeys(s)
    BY <1>1, NewKeysStay
  <2> QED
    BY <1>1, <2>1, <2>2 DEF OneExt
<1>3. t = "NEWKEYS" => HasNewKeys(s)
  <2> SUFFICES ASSUME t = "NEWKEYS" PROVE HasNewKeys(s)
    OBVIOUS
  <2>1. t \notin Deferrable
    BY DEF Deferrable
  <2>2. Len(o.wire) \in Nat
    BY DEF OutState
  <2>3. Len(o.wire) + 1 \in 1..Len(s.wire)
    BY <1>1, <2>1, <2>2
  <2> QED
    BY <1>1, <2>1, <2>3 DEF HasNewKeys, NewKeysBy
<1> QED
  BY <1>1, <1>2, <1>3 DEF NoExt, s

\* The one announcement, made or held back behind NEWKEYS.
LEMMA AnnouncedOnce ==
  ASSUME TypeOK, NEW o \in OutState, NEW key \in Nat, NoExt(o), HasNewKeys(o)
  PROVE  OneExt(SendPacket(o, key, "EXT_INFO"))
<1> DEFINE s == SendPacket(o, key, "EXT_INFO")
<1>1. "EXT_INFO" \in Deferrable
  BY DEF Deferrable
<1>2. /\ s \in OutState
      /\ Len(s.wire) >= Len(o.wire)
      /\ \A i \in 1..Len(o.wire) : s.wire[i] = o.wire[i]
      /\ ~Busy => Len(s.wire) = Len(o.wire) + 1
      /\ SentExt(s) = SentExt(o) \cup {i \in {Len(o.wire) + 1} : ~Busy}
      /\ WaitingExt(s) = WaitingExt(o) \cup {k \in {Len(o.blocked) + 1} : Busy}
  BY <1>1, SendPacketExt
<1> HIDE DEF s
<1>3. HasNewKeys(s)
  BY <1>2, NewKeysStay
<1>4. CASE Busy
  <2>1. SentExt(s) = {} /\ WaitingExt(s) = {Len(o.blocked) + 1}
    BY <1>2, <1>4 DEF NoExt
  <2> QED
    BY <1>3, <2>1 DEF OneExt, s
<1>5. CASE ~Busy
  <2>1. SentExt(s) = {Len(s.wire)} /\ WaitingExt(s) = {}
    BY <1>2, <1>5 DEF NoExt
  <2> QED
    BY <1>3, <2>1 DEF OneExt, HasNewKeys, s
<1> QED
  BY <1>4, <1>5

\* The list that is written at the end of an exchange takes its announcement
\* to the wire.
LEMMA FlushExt ==
  ASSUME NEW o \in OutState, NEW key \in Nat, NEW comp \in Nat, OneExt(o)
  PROVE  LET f == Flush(o, key, comp)
         IN OneExt(f) /\ (NoExt(o) => NoExt(f))
<1> DEFINE f == Flush(o, key, comp)
<1>1. /\ f \in OutState /\ f.blocked = << >>
      /\ Len(f.wire) = Len(o.wire) + Len(o.blocked)
      /\ \A i \in 1..Len(o.wire) : f.wire[i] = o.wire[i]
      /\ \A k \in 1..Len(o.blocked) : f.wire[Len(o.wire) + k].type = o.blocked[k].type
  <2>1. /\ f \in OutState /\ f.blocked = << >>
        /\ Len(f.wire) = Len(o.wire) + Len(o.blocked)
        /\ \A i \in 1..Len(o.wire) : f.wire[i] = o.wire[i]
        /\ \A k \in 1..Len(o.blocked) :
             f.wire[Len(o.wire) + k] =
               [ type |-> o.blocked[k].type, id |-> o.blocked[k].id, key |-> key,
                 seq |-> o.seq + k - 1, comp |-> comp ]
    BY FlushShape, ZenonT(30)
  <2> HIDE DEF f
  <2>2. \A k \in 1..Len(o.blocked) : f.wire[Len(o.wire) + k].type = o.blocked[k].type
    <3> TAKE k \in 1..Len(o.blocked)
    <3>1. f.wire[Len(o.wire) + k] =
            [ type |-> o.blocked[k].type, id |-> o.blocked[k].id, key |-> key,
              seq |-> o.seq + k - 1, comp |-> comp ]
      BY <2>1, Zenon
    <3> QED
      BY <3>1
  <2> QED
    BY <2>1, <2>2, Zenon
<1> HIDE DEF f
<1>a. PICK n \in Nat : n = Len(o.wire)
  BY DEF OutState
<1>b. PICK b \in Nat : b = Len(o.blocked)
  BY DEF OutState
<1>c. n \in Nat /\ b \in Nat
  OBVIOUS
<1>2. n = Len(o.wire) /\ b = Len(o.blocked)
  BY <1>a, <1>b
<1>3. WaitingExt(f) = {}
  BY <1>1 DEF WaitingExt
<1>4. ASSUME NEW i \in SentExt(f)
      PROVE  i \in SentExt(o) \/ (i - n \in WaitingExt(o) /\ i > n /\ i \in Nat)
  <2>1. i \in 1..(n + b) /\ f.wire[i].type = "EXT_INFO"
    BY <1>1, <1>2 DEF SentExt
  <2>2. CASE i \in 1..n
    BY <1>1, <1>2, <2>1, <2>2 DEF SentExt
  <2>3. CASE i \notin 1..n
    <3>0. \A m \in 1..(n + b) : m \notin 1..n =>
            m - n \in 1..b /\ m = n + (m - n) /\ m > n /\ m \in Nat
      BY <1>c
    <3>1. i - n \in 1..b /\ i = n + (i - n) /\ i > n /\ i \in Nat
      BY <2>1, <2>3, <3>0, Zenon
    <3>2. o.blocked[i - n].type = "EXT_INFO"
      BY <1>1, <1>2, <2>1, <3>1
    <3> QED
      BY <1>2, <3>1, <3>2 DEF WaitingExt
  <2> QED
    BY <2>2, <2>3
<1>5. \A i, j \in SentExt(f) : i = j
  <2> TAKE i, j \in SentExt(f)
  <2>1. CASE WaitingExt(o) = {}
    BY <1>4, <2>1 DEF OneExt
  <2>2. CASE SentExt(o) = {}
    <3>1. /\ i - n \in WaitingExt(o) /\ i \in Nat
          /\ j - n \in WaitingExt(o) /\ j \in Nat
      BY <1>4, <2>2
    <3>2. i - n = j - n
      BY <3>1 DEF OneExt
    <3> QED
      BY <3>1, <3>2
  <2> QED
    BY <2>1, <2>2 DEF OneExt
<1>6. \A i \in SentExt(f) : NewKeysBy(f, i)
  <2> TAKE i \in SentExt(f)
  <2>0. Len(f.wire) >= Len(o.wire)
    <3>1. Len(f.wire) = n + b /\ Len(o.wire) = n
      BY <1>1, <1>2
    <3>2. n + b >= n
      BY <1>c
    <3> QED
      BY <3>1, <3>2, Zenon
  <2>1. CASE i \in SentExt(o)
    <3>1. i \in 1..Len(o.wire) /\ NewKeysBy(o, i)
      BY <2>1 DEF OneExt, SentExt
    <3> QED
      BY <1>1, <2>0, <3>1, NewKeysStay
  <2>2. CASE i - n \in WaitingExt(o) /\ i > n /\ i \in Nat
    <3>1. HasNewKeys(o)
      BY <2>2 DEF OneExt
    <3>2. PICK m \in 1..n : o.wire[m].type = "NEWKEYS"
      BY <1>2, <3>1 DEF HasNewKeys, NewKeysBy
    <3>3. m \in 1..i /\ f.wire[m].type = "NEWKEYS"
      BY <1>1, <1>2, <2>2, <3>2
    <3> QED
      BY <3>3 DEF NewKeysBy
  <2> QED
    BY <1>4, <2>1, <2>2
<1>7. NoExt(o) => NoExt(f)
  BY <1>3, <1>4 DEF NoExt
<1> QED
  BY <1>3, <1>5, <1>6, <1>7 DEF OneExt, f

-----------------------------------------------------------------------------
(* The invariant and the theorem.                                          *)

\* Nothing is announced before the first keys, which set the identifier that
\* _keySetup looks at.
ExtInv ==
  /\ WireInv
  /\ OneExt(out)
  /\ ~sessionID => NoExt(out)

\* Every kind of step keeps the announcements as they have to be.
LEMMA ExtStep ==
  ASSUME ExtInv, WireStep
  PROVE  OneExt(out') /\ (~sessionID' => NoExt(out'))
<1>1. /\ TypeOK /\ out \in OutState /\ current \in Nat
      /\ OneExt(out) /\ (~sessionID => NoExt(out))
  BY DEF ExtInv, WireInv, WireTypeInv, TypeInv, TypeOK
<1>2. /\ "KEXINIT" \in Immediate /\ "KEX_REPLY" \in Immediate /\ "NEWKEYS" \in Immediate
      /\ Answers \subseteq Deferrable \cup Immediate
  BY DEF Immediate, Answers
<1>3. CASE WireStarted
  <2> DEFINE o == SendPacket(out, current, "KEXINIT")
  <2>1. o \in OutState /\ OneExt(o) /\ (NoExt(out) => NoExt(o))
    BY <1>1, <1>2, OtherKeepsExt
  <2> HIDE DEF o
  <2>2. out' = [o EXCEPT !.blocked = << >>] /\ sessionID' = sessionID
    BY <1>3 DEF WireStarted, o
  <2>3. out'.wire = o.wire /\ out'.blocked = << >>
    BY <2>1, <2>2 DEF OutState
  <2>4. SentExt(out') = SentExt(o) /\ WaitingExt(out') = {}
    BY <2>3 DEF SentExt, WaitingExt
  <2>5. \A i \in SentExt(o) : NewKeysBy(o, i) => NewKeysBy(out', i)
    BY <2>3 DEF NewKeysBy
  <2> QED
    BY <1>1, <2>1, <2>2, <2>4, <2>5 DEF OneExt, NoExt
<1>4. CASE WireKeyed
  <2> DEFINE r == SendPacket(out, current, "KEX_REPLY")
             k == SendPacket(r, current', "NEWKEYS")
             x == SendPacket(k, current', "EXT_INFO")
  <2>1. current' \in Nat /\ sessionID'
    BY <1>4 DEF WireKeyed
  <2>2. r \in OutState /\ OneExt(r) /\ (NoExt(out) => NoExt(r))
    BY <1>1, <1>2, OtherKeepsExt
  <2> HIDE DEF r
  <2>3. k \in OutState /\ OneExt(k) /\ HasNewKeys(k) /\ (NoExt(r) => NoExt(k))
    BY <1>1, <1>2, <2>1, <2>2, OtherKeepsExt
  <2> HIDE DEF k
  <2>4. ~sessionID => OneExt(x)
    BY <1>1, <2>1, <2>2, <2>3, AnnouncedOnce
  <2> HIDE DEF x
  <2>5. out' = k \/ (~sessionID /\ out' = x)
    BY <1>4 DEF WireKeyed, KeysSent, r, k, x
  <2> QED
    BY <2>1, <2>3, <2>4, <2>5
<1>5. CASE sessionID' = sessionID /\ WireSame
  BY <1>1, <1>5 DEF WireSame
<1>6. CASE sessionID' = sessionID /\ WireSent
  BY <1>1, <1>2, <1>6, OtherKeepsExt DEF WireSent
<1>7. CASE sessionID' = sessionID /\ WireEnded
  <2>1. PICK comp \in Nat : out' = Flush(out, current', comp)
    BY <1>7 DEF WireEnded
  <2>2. current' \in Nat
    BY <1>7 DEF WireEnded
  <2> QED
    BY <1>1, <1>7, <2>1, <2>2, FlushExt
<1> QED
  BY <1>3, <1>4, <1>5, <1>6, <1>7 DEF WireStep

LEMMA ExtInvariant == Spec => []ExtInv
<1>1. Init /\ WireInv => ExtInv
  <2> SUFFICES ASSUME Init, WireInv PROVE ExtInv
    OBVIOUS
  <2>1. out = [wire |-> << >>, seq |-> 0, blocked |-> << >>, submitted |-> 0]
    BY DEF Init
  <2>2. Len(out.wire) = 0 /\ Len(out.blocked) = 0
    BY <2>1
  <2>3. SentExt(out) = {} /\ WaitingExt(out) = {}
    BY <2>2 DEF SentExt, WaitingExt
  <2> QED
    BY <2>3 DEF ExtInv, OneExt, NoExt
<1>2. ExtInv /\ [Next]_vars /\ WireInv' => ExtInv'
  <2> SUFFICES ASSUME ExtInv, [Next]_vars, WireInv' PROVE ExtInv'
    OBVIOUS
  <2>1. WireStep
    BY NextWire DEF ExtInv, WireInv
  <2>2. OneExt(out') /\ (~sessionID' => NoExt(out'))
    BY <2>1, ExtStep
  <2>3. OneExt(out)' /\ (~sessionID => NoExt(out))'
    BY <2>2
  <2> QED
    BY <2>3 DEF ExtInv
<1> QED
  BY <1>1, <1>2, WireInvariant, PTL DEF Spec

\* A client is told of the extensions at most once, and never before a
\* NEWKEYS, for every client and any number of exchanges: _keySetup announces
\* only with the keys that set sessionID, and writes NEWKEYS first (_keySetup,
\* sendPacket, _newKeys).
THEOREM ExtInfoSentOnce == Spec => []ExtInfoOnce
<1>1. ExtInv => ExtInfoOnce
  BY DEF ExtInv, OneExt, SentExt, WaitingExt, NewKeysBy, ExtInfoOnce, Written
<1> QED
  BY <1>1, ExtInvariant, PTL
=============================================================================
