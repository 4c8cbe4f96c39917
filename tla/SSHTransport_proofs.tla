------------------------ MODULE SSHTransport_proofs -------------------------
(* Theorems about SSHTransport, for every set of proposals and every bound. *)
EXTENDS SSHTransport, SequenceTheorems, TLAPS

-----------------------------------------------------------------------------
(* What SendPacket and Flush do to the output state.                       *)

\* Any message type sendPacket is called with keeps the output well formed,
\* and only NEWKEYS on a strict connection does not advance the numbering.
LEMMA SendPacketType ==
  ASSUME TypeOK, NEW o \in OutState, NEW key \in Nat,
         NEW t \in Deferrable \cup Immediate
  PROVE  SendPacket(o, key, t) \in OutState
<1> DEFINE id == IF t \in Deferrable THEN o.submitted + 1 ELSE 0
           w  == [type |-> t, id |-> id, key |-> key, seq |-> o.seq, comp |-> outComp]
<1>1. o.submitted \in Nat /\ o.seq \in Nat /\ o.wire \in Seq(Packet)
      /\ o.blocked \in Seq(Held)
  BY DEF OutState
<1>2. id \in Nat
  BY <1>1
<1>3. w \in Packet
  BY <1>1, <1>2 DEF Packet, TypeOK
<1>4. CASE Busy /\ t \in Deferrable
  <2>1. [type |-> t, id |-> id] \in Held
    BY <1>2, <1>4 DEF Held
  <2>2. Append(o.blocked, [type |-> t, id |-> id]) \in Seq(Held)
    BY <1>1, <2>1
  <2> QED
    BY <1>1, <1>2, <1>4, <2>2 DEF SendPacket, HeldBack, SeqAfter, OutState
<1>5. CASE ~(Busy /\ t \in Deferrable)
  <2>1. Append(o.wire, w) \in Seq(Packet)
    BY <1>1, <1>3
  <2> QED
    BY <1>1, <1>2, <1>5, <2>1 DEF SendPacket, HeldBack, SeqAfter, OutState
<1> QED
  BY <1>4, <1>5

\* Flush appends the blocked messages, in order, under the new key.
LEMMA FlushShape ==
  ASSUME NEW o \in OutState, NEW key \in Nat, NEW comp \in Nat
  PROVE  LET f == Flush(o, key, comp)
         IN /\ f \in OutState
            /\ f.seq = o.seq + Len(o.blocked)
            /\ f.submitted = o.submitted
            /\ f.blocked = << >>
            /\ Len(f.wire) = Len(o.wire) + Len(o.blocked)
            /\ \A i \in 1..Len(o.wire) : f.wire[i] = o.wire[i]
            /\ \A k \in 1..Len(o.blocked) :
                 f.wire[Len(o.wire) + k] =
                   [ type |-> o.blocked[k].type, id |-> o.blocked[k].id,
                     key |-> key, seq |-> o.seq + k - 1, comp |-> comp ]
<1> DEFINE t == [ i \in 1..Len(o.blocked) |->
                    [ type |-> o.blocked[i].type, id |-> o.blocked[i].id,
                      key |-> key, seq |-> o.seq + i - 1, comp |-> comp ] ]
<1>1. /\ o.submitted \in Nat /\ o.seq \in Nat /\ o.wire \in Seq(Packet)
      /\ o.blocked \in Seq(Held)
  BY DEF OutState
<1>2. Len(o.blocked) \in Nat /\ Len(o.wire) \in Nat
  BY <1>1
<1>3. \A k \in 1..Len(o.blocked) : t[k] \in Packet
  <2> TAKE k \in 1..Len(o.blocked)
  <2>1. o.blocked[k] \in Held
    BY <1>1
  <2>2. o.seq + k - 1 \in Nat
    BY <1>1, <1>2
  <2> QED
    BY <2>1, <2>2 DEF Packet, Held
<1>4. t \in Seq(Packet) /\ Len(t) = Len(o.blocked)
  <2>1. t \in [1..Len(o.blocked) -> Packet]
    BY <1>3
  <2>2. t \in Seq(Packet)
    BY <1>2, <2>1, SeqDef
  <2> HIDE DEF t
  <2>3. 1..Len(t) = 1..Len(o.blocked) /\ Len(t) \in Nat
    BY <2>1, <2>2, LenProperties
  <2> QED
    BY <1>2, <2>2, <2>3
<1>5. Flush(o, key, comp) = [ wire |-> o.wire \o t, seq |-> o.seq + Len(o.blocked),
                              submitted |-> o.submitted, blocked |-> << >> ]
  BY DEF Flush
<1>6. \A k \in 1..Len(o.blocked) : t[k] =
        [ type |-> o.blocked[k].type, id |-> o.blocked[k].id,
          key |-> key, seq |-> o.seq + k - 1, comp |-> comp ]
  OBVIOUS
<1> HIDE DEF t
<1>7. /\ o.wire \o t \in Seq(Packet)
      /\ Len(o.wire \o t) = Len(o.wire) + Len(o.blocked)
      /\ \A i \in 1..Len(o.wire) : (o.wire \o t)[i] = o.wire[i]
      /\ \A k \in 1..Len(o.blocked) : (o.wire \o t)[Len(o.wire) + k] = t[k]
  <2>1. /\ o.wire \o t \in Seq(Packet)
        /\ Len(o.wire \o t) = Len(o.wire) + Len(t)
        /\ \A i \in 1..(Len(o.wire) + Len(t)) :
             (o.wire \o t)[i] = IF i <= Len(o.wire) THEN o.wire[i]
                                                   ELSE t[i - Len(o.wire)]
    BY <1>1, <1>4, ConcatProperties, Zenon
  <2> QED
    BY <1>2, <1>4, <2>1
<1>8. Flush(o, key, comp) \in OutState
  BY <1>1, <1>2, <1>5, <1>7 DEF OutState
<1>9. /\ Flush(o, key, comp).wire = o.wire \o t
      /\ Flush(o, key, comp).seq = o.seq + Len(o.blocked)
      /\ Flush(o, key, comp).submitted = o.submitted
      /\ Flush(o, key, comp).blocked = << >>
  BY <1>5
<1> HIDE DEF Flush
<1> QED
  BY <1>6, <1>7, <1>8, <1>9

\* The fields of what SendPacket returns, for a message held back and for one
\* that is written.
LEMMA SendPacketShape ==
  ASSUME TypeOK, NEW o \in OutState, NEW key \in Nat,
         NEW t \in Deferrable \cup Immediate
  PROVE  LET s  == SendPacket(o, key, t)
             id == IF t \in Deferrable THEN o.submitted + 1 ELSE 0
         IN /\ s \in OutState
            /\ s.submitted = IF t \in Deferrable THEN id ELSE o.submitted
            /\ Busy /\ t \in Deferrable =>
                 /\ s.wire = o.wire /\ s.seq = o.seq
                 /\ s.blocked = Append(o.blocked, [type |-> t, id |-> id])
            /\ ~(Busy /\ t \in Deferrable) =>
                 /\ s.blocked = o.blocked
                 /\ s.seq = IF strictKex /\ t = "NEWKEYS" THEN 0 ELSE o.seq + 1
                 /\ s.wire = Append(o.wire, [type |-> t, id |-> id, key |-> key,
                                             seq |-> o.seq, comp |-> outComp])
<1>1. SendPacket(o, key, t) \in OutState
  BY SendPacketType
<1>2. CASE Busy /\ t \in Deferrable
  BY <1>1, <1>2 DEF SendPacket, HeldBack, SeqAfter
<1>3. CASE ~(Busy /\ t \in Deferrable)
  BY <1>1, <1>3 DEF SendPacket, HeldBack, SeqAfter
<1> QED
  BY <1>2, <1>3

-----------------------------------------------------------------------------
(* Type correctness.                                                       *)

\* The types of the messages handlers answer with at once.
Answers == Deferrable \cup {"GEX_GROUP", "UNIMPLEMENTED", "DISCONNECT"}

\* The ways a step can change the output and the key exchange state: it leaves
\* both alone, sends one message, starts an exchange, computes keys, or ends
\* the exchange.
Same == out' = out /\ Busy' = Busy

Sent == /\ Busy' = Busy
        /\ \E t \in Answers : out' = SendPacket(out, current, t)

Started == /\ ~Busy /\ Busy'
           /\ out' = [SendPacket(out, current, "KEXINIT") EXCEPT !.blocked = << >>]

KeysSent(inUse) == SendPacket(SendPacket(out, current, "KEX_REPLY"), inUse, "NEWKEYS")

Keyed == /\ Busy' = Busy
         /\ \E inUse \in Nat :
              \/ out' = KeysSent(inUse)
              \/ out' = SendPacket(KeysSent(inUse), inUse, "EXT_INFO")

Ended == /\ Busy /\ ~Busy'
         /\ \E key, comp \in Nat : out' = Flush(out, key, comp)

OutputStep == Same \/ Sent \/ Started \/ Keyed \/ Ended

\* A step of one handler is one of these (ReceivePacket).
LEMMA ReceiveOutput ==
  ASSUME TypeOK, NEW t, NEW p \in Proposal \cup {NoProposal}, Receive(t, p)
  PROVE  OutputStep
<1> USE DEF Decoded, GetPacket
<1>1. ASSUME Disconnect, Busy' = Busy PROVE OutputStep
  BY <1>1 DEF Disconnect, Reply, OutputStep, Sent, Answers
<1>2. ASSUME Fault PROVE OutputStep
  BY <1>2 DEF Fault, exchange, Busy, OutputStep, Same
<1>3. ASSUME NEW a \in Answers, Reply(a), Busy' = Busy PROVE OutputStep
  BY <1>3 DEF Reply, OutputStep, Sent
<1>4. ASSUME NEW r, r = "KEX_REPLY", KeySetup(r) PROVE OutputStep
  <2>1. keyCount + 1 \in Nat /\ current \in Nat
    BY DEF TypeOK
  <2> DEFINE inUse == IF aliased THEN keyCount + 1 ELSE current
  <2>2. inUse \in Nat
    BY <2>1
  <2>3. Busy' = Busy
    BY <1>4 DEF KeySetup, Busy
  <2>4. \/ out' = KeysSent(inUse)
        \/ out' = SendPacket(KeysSent(inUse), inUse, "EXT_INFO")
    BY <1>4 DEF KeySetup, KeysSent
  <2> QED
    BY <2>2, <2>3, <2>4 DEF OutputStep, Keyed
<1>5. CASE ReceiveKexInit(p)
  <2>1. CASE ~Matched(p)
    BY <1>1, <1>5, <2>1 DEF ReceiveKexInit, Busy
  <2>2. CASE Matched(p) /\ kexState = "requested"
    BY <1>5, <2>2 DEF ReceiveKexInit, Busy, OutputStep, Same
  <2>3. CASE Matched(p) /\ kexState # "requested"
    <3>1. kexState \in {"none", "requested", "progressing"}
      BY DEF TypeOK
    <3>2. kexState = "none" /\ SendKexInit
      BY <1>5, <2>3, <3>1 DEF ReceiveKexInit
    <3> QED
      BY <3>2 DEF SendKexInit, Busy, OutputStep, Started
  <2> QED
    BY <2>1, <2>2, <2>3
<1>6. CASE RejectKexInit(p) \/ ReceiveMalformed
  BY <1>2, <1>6 DEF RejectKexInit, ReceiveMalformed
<1>7. CASE ReceiveKexDhInit
  BY <1>2, <1>3, <1>4, <1>7 DEF ReceiveKexDhInit, Busy, Answers
<1>8. CASE ReceiveGexRequest
  BY <1>3, <1>8 DEF ReceiveGexRequest, Busy, Answers
<1>9. CASE ReceiveGexInit
  BY <1>2, <1>4, <1>9 DEF ReceiveGexInit
<1>10. ASSUME NEW data \in BOOLEAN, ReceiveNewKeys(data) PROVE OutputStep
  <2>1. CASE data
    BY <1>1, <1>10, <2>1 DEF ReceiveNewKeys, exchange, Busy
  <2>2. CASE ~data /\ CanSwitchKeys
    <3>0. next \in Nat /\ outComp \in Nat
      BY DEF TypeOK
    <3>1. outComp' = outComp + 1 \/ outComp' = outComp
      BY <1>10, <2>2, Zenon DEF ReceiveNewKeys
    <3>2. out' = Flush(out, next, outComp') /\ ~Busy'
      BY <1>10, <2>2 DEF ReceiveNewKeys, Busy
    <3> QED
      BY <2>2, <3>0, <3>1, <3>2 DEF OutputStep, Ended, CanSwitchKeys
  <2>3. CASE ~data /\ ~CanSwitchKeys
    BY <1>2, <1>10, <2>3 DEF ReceiveNewKeys
  <2> QED
    BY <2>1, <2>2, <2>3
<1>11. CASE ReceiveUnknown
  BY <1>3, <1>11 DEF ReceiveUnknown, exchange, Busy, Answers
<1>12. CASE StrictViolation
  BY <1>1, <1>12 DEF StrictViolation, exchange, Busy
<1>13. ASSUME NEW length \in BOOLEAN, BadPacket(length) PROVE OutputStep
  <2>1. Busy' = Busy
    BY <1>13 DEF BadPacket, exchange, Busy
  <2>2. CASE length
    BY <1>13, <2>1, <2>2 DEF BadPacket, OutputStep, Same
  <2>3. CASE ~length
    BY <1>1, <1>13, <2>1, <2>3 DEF BadPacket
  <2> QED
    BY <2>2, <2>3
<1>14. CASE EmptyPacket \/ ReceiveIgnore \/ ReceiveDisconnect
  BY <1>14 DEF EmptyPacket, ReceiveIgnore, ReceiveDisconnect, exchange, Busy,
               OutputStep, Same
<1>15. ASSUME NEW s \in {"userauth", "connection"}, ReceiveServiceRequest(s)
       PROVE  OutputStep
  BY <1>1, <1>2, <1>3, <1>15 DEF ReceiveServiceRequest, exchange, Busy, Answers,
                                 Deferrable
<1>16. CASE ReceiveLogin
  BY <1>3, <1>16 DEF ReceiveLogin, exchange, Busy, Answers, Deferrable
<1> QED
  BY <1>5, <1>6, <1>7, <1>8, <1>9, <1>10, <1>11, <1>12, <1>13, <1>14, <1>15,
     <1>16 DEF Receive

\* Every turn of the loop takes a packet off the input first.
LEMMA ReceiveGets == ASSUME NEW t, NEW p, Receive(t, p) PROVE GetPacket
BY DEF Receive, ReceiveKexInit, RejectKexInit, ReceiveKexDhInit, ReceiveGexRequest,
   ReceiveGexInit, ReceiveNewKeys, ReceiveUnknown, BadPacket, EmptyPacket,
   ReceiveMalformed, StrictViolation, ReceiveIgnore, ReceiveDisconnect,
   ReceiveServiceRequest, ReceiveLogin, Decoded

\* Before the version line nothing of a key exchange has happened.
VersionFirst == ~gotVersion => ~Busy

LEMMA StepOutput == TypeOK /\ VersionFirst /\ [Next]_vars => OutputStep
<1> SUFFICES ASSUME TypeOK, VersionFirst, [Next]_vars PROVE OutputStep
  OBVIOUS
<1>1. ASSUME NEW line \in {"2.0", "bad", "unsupported"}, ReceiveVersion(line)
      PROVE  OutputStep
  <2>1. ~Busy
    BY <1>1 DEF ReceiveVersion, VersionFirst
  <2>2. CASE line = "2.0"
    BY <1>1, <2>1, <2>2 DEF ReceiveVersion, SendKexInit, Busy, OutputStep, Started
  <2>3. CASE line # "2.0"
    BY <1>1, <2>3 DEF ReceiveVersion, Busy, OutputStep, Same
  <2> QED
    BY <2>2, <2>3
<1>2. CASE ReceivePacket
  BY <1>2, ReceiveOutput, ProposalsAssumption DEF ReceivePacket
<1>3. CASE ServiceSends
  BY <1>3 DEF ServiceSends, Reply, exchange, Busy, OutputStep, Sent, Answers,
              Deferrable
<1>4. CASE Timeout \/ ConnectionLost \/ Terminated \/ UNCHANGED vars
  BY <1>4 DEF Timeout, ConnectionLost, Terminated, vars, exchange, Busy,
              OutputStep, Same
<1> QED
  BY <1>1, <1>2, <1>3, <1>4 DEF Next

\* Every kind of step keeps the output well formed.
LEMMA OutputType == TypeOK /\ OutputStep => out' \in OutState
<1> SUFFICES ASSUME TypeOK, OutputStep PROVE out' \in OutState
  OBVIOUS
<1>1. out \in OutState /\ current \in Nat
  BY DEF TypeOK
<1>2. CASE Same
  BY <1>1, <1>2 DEF Same
<1>3. CASE Sent
  BY <1>1, <1>3, SendPacketType DEF Sent, Answers, Immediate
<1>4. CASE Started
  <2>1. SendPacket(out, current, "KEXINIT") \in OutState
    BY <1>1, SendPacketType DEF Immediate
  <2>2. << >> \in Seq(Held)
    OBVIOUS
  <2>3. \A o \in OutState : [o EXCEPT !.blocked = << >>] \in OutState
    BY <2>2 DEF OutState
  <2> QED
    BY <1>4, <2>1, <2>3 DEF Started
<1>5. CASE Keyed
  <2>1. PICK inUse \in Nat : \/ out' = KeysSent(inUse)
                             \/ out' = SendPacket(KeysSent(inUse), inUse, "EXT_INFO")
    BY <1>5 DEF Keyed
  <2>2. SendPacket(out, current, "KEX_REPLY") \in OutState
    BY <1>1, SendPacketType DEF Immediate
  <2>3. KeysSent(inUse) \in OutState
    BY <2>2, SendPacketType DEF Immediate, KeysSent
  <2>4. SendPacket(KeysSent(inUse), inUse, "EXT_INFO") \in OutState
    BY <2>3, SendPacketType DEF Deferrable
  <2> QED
    BY <2>1, <2>3, <2>4
<1>6. CASE Ended
  BY <1>1, <1>6, FlushShape DEF Ended
<1> QED
  BY <1>2, <1>3, <1>4, <1>5, <1>6 DEF OutputStep

\* The other variables stay within their types.
LEMMA ReceiveType ==
  ASSUME TypeOK, out' \in OutState,
         NEW t, NEW p \in Proposal \cup {NoProposal}, Receive(t, p)
  PROVE  TypeOK' /\ gotVersion'
<1> USE DEF TypeOK, negotiated, exchange, keys, comps, login
<1>1. /\ received + 1 \in Nat /\ inSeq + 1 \in Nat /\ keyCount + 1 \in Nat
      /\ outComp + 1 \in Nat /\ inComp + 1 \in Nat
  OBVIOUS
<1>2. ASSUME GetPacket PROVE gotVersion /\ received' \in Nat
  BY <1>1, <1>2 DEF GetPacket
<1>3. ASSUME MoreBuffered PROVE looping' \in BOOLEAN
  BY <1>3 DEF MoreBuffered
<1>4. ASSUME Decoded
      PROVE  gotVersion /\ received' \in Nat /\ looping' \in BOOLEAN /\ inSeq' \in Nat
  BY <1>1, <1>2, <1>3, <1>4 DEF Decoded
<1>5. ASSUME Fault, gotVersion, received' \in Nat, inSeq' \in Nat
      PROVE  TypeOK' /\ gotVersion'
  BY <1>5, ZenonT(60) DEF Fault
<1>6. ASSUME NEW r, KeySetup(r), Decoded, dhReady' \in BOOLEAN
      PROVE  TypeOK' /\ gotVersion'
  <2>1. keyCount' \in Nat /\ next' \in Nat /\ current' \in Nat
    BY <1>1, <1>6 DEF KeySetup
  <2> QED
    BY <1>4, <1>6, <2>1 DEF KeySetup
<1>7. CASE ReceiveKexInit(p)
  <2>1. kexState' \in {"none", "requested", "progressing"}
    BY <1>7 DEF ReceiveKexInit, SendKexInit
  <2>2. transport' \in {"open", "closing", "lost"}
    BY <1>7 DEF ReceiveKexInit, Disconnect
  <2>3. strictKex' \in BOOLEAN /\ extInfo' \in BOOLEAN
    <3>1. CASE ~Matched(p)
      BY <1>7, <3>1 DEF ReceiveKexInit
    <3>2. CASE Matched(p)
      <4>1. p.ext \in BOOLEAN
        <5>1. NoProposal.ext \in BOOLEAN
          BY DEF NoProposal
        <5>2. \A q \in Proposal : q.ext \in BOOLEAN
          BY DEF Proposal
        <5> QED
          BY <5>1, <5>2
      <4>2. extInfo' = p.ext /\ strictKex' = Strict(p)
        BY <1>7, <3>2 DEF ReceiveKexInit
      <4> QED
        BY <4>1, <4>2 DEF Strict
    <3> QED
      BY <3>1, <3>2
  <2>4. proposal' = p /\ next' = 0 /\ aliased' = FALSE
    BY <1>7 DEF ReceiveKexInit
  <2> QED
    BY <1>4, <1>7, <2>1, <2>2, <2>3, <2>4 DEF ReceiveKexInit
<1>8. CASE RejectKexInit(p) \/ ReceiveMalformed
  BY <1>4, <1>5, <1>8 DEF RejectKexInit, ReceiveMalformed
<1>9. CASE ReceiveKexDhInit
  <2>1. Decoded
    BY <1>9 DEF ReceiveKexDhInit
  <2>2. \/ Fault
        \/ dhReady' \in {dhReady, FALSE} /\ KeySetup("KEX_REPLY")
        \/ /\ dhReady' = TRUE
           /\ UNCHANGED <<transport, timer, gotVersion, negotiated, kexState,
                          initialKexDone, sessionID, keys, comps, login>>
    BY <1>9, Zenon DEF ReceiveKexDhInit
  <2>3. CASE Fault
    BY <1>4, <1>5, <2>1, <2>3
  <2>4. CASE dhReady' \in {dhReady, FALSE} /\ KeySetup("KEX_REPLY")
    BY <1>6, <2>1, <2>4
  <2>5. CASE /\ dhReady' = TRUE
             /\ UNCHANGED <<transport, timer, gotVersion, negotiated, kexState,
                            initialKexDone, sessionID, keys, comps, login>>
    BY <1>4, <2>1, <2>5
  <2> QED
    BY <2>2, <2>3, <2>4, <2>5
<1>10. CASE ReceiveGexRequest
  BY <1>4, <1>10 DEF ReceiveGexRequest
<1>11. CASE ReceiveGexInit
  BY <1>4, <1>5, <1>6, <1>11 DEF ReceiveGexInit
<1>12. ASSUME NEW data \in BOOLEAN, ReceiveNewKeys(data) PROVE TypeOK' /\ gotVersion'
  <2>1. gotVersion /\ received' \in Nat /\ looping' \in BOOLEAN
    BY <1>2, <1>3, <1>12 DEF ReceiveNewKeys
  <2>2. inSeq' \in Nat
    BY <1>1, <1>12 DEF ReceiveNewKeys, SeqAfterNewKeys
  <2>3. CASE Fault
    BY <1>5, <2>1, <2>2, <2>3
  <2>4. CASE data /\ ~Fault
    BY <1>12, <2>1, <2>2, <2>4 DEF ReceiveNewKeys, Disconnect
  <2>5. CASE ~data /\ ~Fault
    <3>1. outComp' \in {outComp, outComp + 1} /\ inComp' \in {inComp, inComp + 1}
      BY <1>12, <2>5, Zenon DEF ReceiveNewKeys
    <3>2. /\ current' = next /\ aliased' = TRUE
          /\ kexState' = "none" /\ initialKexDone' = TRUE
          /\ UNCHANGED <<transport, timer, gotVersion, negotiated, sessionID,
                         dhReady, next, keyCount, login>>
      BY <1>12, <2>5, Zenon DEF ReceiveNewKeys
    <3>3. outComp' \in Nat /\ inComp' \in Nat
      BY <1>1, <3>1
    <3> QED
      BY <2>1, <2>2, <3>2, <3>3
  <2> QED
    BY <2>3, <2>4, <2>5
<1>13. CASE ReceiveUnknown \/ ReceiveIgnore
  BY <1>4, <1>13 DEF ReceiveUnknown, ReceiveIgnore
<1>14. CASE StrictViolation \/ ReceiveDisconnect
  BY <1>4, <1>14 DEF StrictViolation, Disconnect, ReceiveDisconnect
<1>15. ASSUME NEW length \in BOOLEAN, BadPacket(length) PROVE TypeOK' /\ gotVersion'
  <2>1. transport' = "closing" /\ looping' \in BOOLEAN
    BY <1>15 DEF BadPacket, Disconnect
  <2>2. UNCHANGED <<timer, gotVersion, negotiated, exchange, keys, comps, login, inSeq>>
    BY <1>15 DEF BadPacket
  <2> QED
    BY <1>2, <1>15, <2>1, <2>2 DEF BadPacket
<1>16. CASE EmptyPacket
  <2>1. looping' \in BOOLEAN /\ inSeq' \in Nat /\ GetPacket
    BY <1>1, <1>16 DEF EmptyPacket
  <2>2. UNCHANGED <<transport, timer, gotVersion, negotiated, exchange, keys, comps,
                    login, out>>
    BY <1>16 DEF EmptyPacket
  <2> QED
    BY <1>2, <2>1, <2>2
<1>17. ASSUME NEW s \in {"userauth", "connection"}, SetService(s)
       PROVE  /\ service' \in {"userauth", "connection"}
              /\ timer' \in {"auth", "interactive", "off"}
              /\ outComp' \in Nat /\ inComp' \in Nat
  BY <1>1, <1>17 DEF SetService, Renewed, InteractiveTimeout,
                      DelayedCompression
<1>18. ASSUME NEW s \in {"userauth", "connection"}, ReceiveServiceRequest(s)
       PROVE  TypeOK' /\ gotVersion'
  <2>1. Decoded
    BY <1>18 DEF ReceiveServiceRequest
  <2>2. \/ Fault
        \/ /\ SetService(s)
           /\ UNCHANGED <<transport, gotVersion, negotiated, exchange, keys, avatar>>
        \/ /\ transport' = "closing"
           /\ UNCHANGED <<timer, gotVersion, negotiated, exchange, keys, comps, login>>
    BY <1>18, Zenon DEF ReceiveServiceRequest, Disconnect
  <2>3. CASE Fault
    BY <1>4, <1>5, <2>1, <2>3
  <2>4. CASE /\ SetService(s)
             /\ UNCHANGED <<transport, gotVersion, negotiated, exchange, keys, avatar>>
    BY <1>4, <1>17, <2>1, <2>4
  <2>5. CASE /\ transport' = "closing"
             /\ UNCHANGED <<timer, gotVersion, negotiated, exchange, keys, comps,
                            login>>
    BY <1>4, <2>1, <2>5
  <2> QED
    BY <2>2, <2>3, <2>4, <2>5
<1>19. CASE ReceiveLogin
  BY <1>4, <1>17, <1>19 DEF ReceiveLogin, InteractiveTimeout
<1> QED
  BY <1>7, <1>8, <1>9, <1>10, <1>11, <1>12, <1>13, <1>14, <1>15, <1>16, <1>18,
     <1>19 DEF Receive

TypeInv == TypeOK /\ VersionFirst

LEMMA InitType == Init => TypeInv
<1> SUFFICES ASSUME Init PROVE TypeInv
  OBVIOUS
<1>1. << >> \in Seq(Packet) /\ << >> \in Seq(Held)
  OBVIOUS
<1>2. out \in OutState
  BY <1>1 DEF Init, OutState
<1> QED
  BY <1>2 DEF Init, TypeInv, TypeOK, VersionFirst, Busy

LEMMA NextType == TypeInv /\ [Next]_vars => TypeInv'
<1> SUFFICES ASSUME TypeInv, [Next]_vars PROVE TypeInv'
  OBVIOUS
<1>1. TypeOK /\ VersionFirst
  BY DEF TypeInv
<1>2. out' \in OutState
  BY <1>1, StepOutput, OutputType
<1>3. CASE ReceivePacket
  <2>1. PICK t \in MessageTypes, p \in Proposal \cup {NoProposal} : Receive(t, p)
    BY <1>3, ProposalsAssumption DEF ReceivePacket, MessageTypes
  <2>2. TypeOK' /\ gotVersion'
    BY <1>1, <1>2, <2>1, ReceiveType
  <2> QED
    BY <2>2 DEF TypeInv, VersionFirst
<1>4. ASSUME NEW line \in {"2.0", "bad", "unsupported"}, ReceiveVersion(line)
      PROVE  TypeInv'
  <2> USE DEF TypeOK, negotiated, exchange, keys, comps, login, input
  <2>1. CASE line = "2.0"
    <3>1. looping' \in BOOLEAN /\ gotVersion' = TRUE /\ kexState' = "requested"
      BY <1>4, <2>1 DEF ReceiveVersion, MoreBuffered, SendKexInit
    <3>2. UNCHANGED <<transport, timer, negotiated, initialKexDone, sessionID,
                      dhReady, keys, comps, login, input>>
      BY <1>4, <2>1 DEF ReceiveVersion
    <3> QED
      BY <1>1, <1>2, <3>1, <3>2 DEF TypeInv, VersionFirst
  <2>2. CASE line # "2.0"
    <3>1. /\ transport' = "closing" /\ gotVersion' \in BOOLEAN
          /\ UNCHANGED <<looping, timer, negotiated, exchange, keys, comps,
                         login, input>>
      BY <1>4, <2>2 DEF ReceiveVersion
    <3>2. ~Busy'
      BY <1>1, <1>4, <3>1 DEF ReceiveVersion, VersionFirst, Busy
    <3> QED
      BY <1>1, <1>2, <3>1, <3>2 DEF TypeInv, VersionFirst
  <2> QED
    BY <2>1, <2>2
<1>5. CASE ServiceSends
  <2>1. UNCHANGED <<link, negotiated, exchange, keys, comps, login, input>>
    BY <1>5 DEF ServiceSends
  <2> QED
    BY <1>1, <1>2, <2>1 DEF TypeInv, TypeOK, VersionFirst, Busy, link, negotiated,
       exchange, keys, comps, login, input
<1>6. CASE Timeout \/ ConnectionLost
  <2>1. /\ transport' \in {"open", "closing", "lost"}
        /\ timer' \in {"auth", "interactive", "off"}
        /\ UNCHANGED <<looping, gotVersion, negotiated, exchange, keys, comps,
                       login, out, input>>
    BY <1>6 DEF Timeout, ConnectionLost
  <2> QED
    BY <1>1, <1>2, <2>1 DEF TypeInv, TypeOK, VersionFirst, Busy, negotiated,
       exchange, keys, comps, login, input
<1>7. CASE Terminated \/ UNCHANGED vars
  BY <1>1, <1>7 DEF Terminated, TypeInv, TypeOK, VersionFirst, Busy, vars, link,
     negotiated, exchange, keys, comps, login, input
<1> QED
  BY <1>3, <1>4, <1>5, <1>6, <1>7 DEF Next

\* Every reachable state is well typed, for every client and every bound:
\* whatever order packets arrive in, the fields sendPacket, ssh_KEXINIT,
\* ssh_NEWKEYS and setService assign stay within their types.
THEOREM TypeCorrect == Spec => []TypeOK
<1>1. Spec => []TypeInv
  BY InitType, NextType, PTL DEF Spec
<1>2. TypeInv => TypeOK
  BY DEF TypeInv
<1> QED
  BY <1>1, <1>2, PTL

-----------------------------------------------------------------------------
(* The messages held back keep their order.                                *)

\* Nothing waits once no exchange is under way.
NoneWaiting(o) == ~Busy => o.blocked = << >>

\* sendPacket keeps the order, whether it holds the message back or writes it.
LEMMA SendPacketInOrder ==
  ASSUME TypeOK, NEW o \in OutState, NEW key \in Nat,
         NEW t \in Deferrable \cup Immediate, InOrder(o), NoneWaiting(o)
  PROVE  LET s == SendPacket(o, key, t) IN InOrder(s) /\ NoneWaiting(s)
<1> DEFINE s  == SendPacket(o, key, t)
           id == IF t \in Deferrable THEN o.submitted + 1 ELSE 0
           w  == [type |-> t, id |-> id, key |-> key, seq |-> o.seq, comp |-> outComp]
           n  == Len(o.wire)
           b  == Len(o.blocked)
<1>1. /\ s \in OutState
      /\ s.submitted = IF t \in Deferrable THEN o.submitted + 1 ELSE o.submitted
      /\ Busy /\ t \in Deferrable =>
           /\ s.wire = o.wire
           /\ s.blocked = Append(o.blocked, [type |-> t, id |-> o.submitted + 1])
      /\ ~(Busy /\ t \in Deferrable) =>
           s.blocked = o.blocked /\ s.wire = Append(o.wire, w)
  BY SendPacketShape
<1>2. /\ o.wire \in Seq(Packet) /\ o.blocked \in Seq(Held) /\ o.submitted \in Nat
      /\ o.seq \in Nat /\ n \in Nat /\ b \in Nat
  BY DEF OutState
<1>3. w \in Packet
  BY <1>2 DEF Packet, TypeOK
<1> HIDE DEF s
<1>4. ASSUME Busy, t \in Deferrable PROVE InOrder(s) /\ NoneWaiting(s)
  <2> DEFINE h == [type |-> t, id |-> o.submitted + 1]
  <2>1. h \in Held
    BY <1>2, <1>4 DEF Held
  <2> HIDE DEF h
  <2>2. /\ Len(Append(o.blocked, h)) = b + 1
        /\ \A k \in 1..b : Append(o.blocked, h)[k] = o.blocked[k]
        /\ Append(o.blocked, h)[b + 1] = h
    BY <1>2, <2>1, AppendProperties
  <2>3. s.wire = o.wire /\ s.blocked = Append(o.blocked, h)
        /\ s.submitted = o.submitted + 1 /\ h.id = o.submitted + 1
    BY <1>1, <1>4 DEF h
  <2>4. /\ s.submitted - Len(s.blocked) = o.submitted - b
        /\ \A k \in 1..b : s.blocked[k] = o.blocked[k]
        /\ Len(s.blocked) = b + 1 /\ s.blocked[b + 1] = h
    BY <1>2, <2>2, <2>3, SMTT(30)
  <2>5. \A k \in 1..Len(s.blocked) :
          s.blocked[k].id = s.submitted - Len(s.blocked) + k
    <3> TAKE k \in 1..Len(s.blocked)
    <3>1. CASE k \in 1..b
      BY <1>2, <2>4, <3>1 DEF InOrder
    <3>2. CASE k = b + 1
      BY <1>2, <2>3, <2>4, <3>2
    <3> QED
      BY <1>2, <2>4, <3>1, <3>2
  <2>6. /\ s.wire = o.wire
        /\ s.submitted - Len(s.blocked) = o.submitted - Len(o.blocked)
    BY <2>3, <2>4
  <2>7. InOrder(s)
    BY <2>5, <2>6, Zenon DEF InOrder
  <2> QED
    BY <1>4, <2>7 DEF NoneWaiting
<1>5. ASSUME ~(Busy /\ t \in Deferrable) PROVE InOrder(s) /\ NoneWaiting(s)
  <2> HIDE DEF w
  <2>1. /\ Len(Append(o.wire, w)) = n + 1
        /\ \A i \in 1..n : Append(o.wire, w)[i] = o.wire[i]
        /\ Append(o.wire, w)[n + 1] = w
    BY <1>2, <1>3, AppendProperties
  <2>2. /\ Len(s.wire) = n + 1 /\ s.wire[n + 1] = w /\ s.blocked = o.blocked
        /\ \A i \in 1..n : s.wire[i] = o.wire[i]
    BY <1>1, <1>5, <2>1
  <2>3. w.type = t /\ w.id = id
    BY DEF w
  <2>4. s.submitted - Len(s.blocked) =
          (o.submitted - b) + (IF t \in Deferrable THEN 1 ELSE 0)
    BY <1>1, <1>2, <2>2, SMTT(30)
  <2>5. t \in Deferrable => /\ b = 0 /\ w.id = o.submitted + 1
                            /\ o.submitted - b = o.submitted
    BY <1>2, <1>5, <2>3 DEF NoneWaiting
  <2> DEFINE done == o.submitted - b
             e == IF t \in Deferrable THEN 1 ELSE 0
             deferred(i) == s.wire[i].type \in Deferrable
  <2>6. done >= 0 /\ done \in Int /\ e \in {0, 1}
    BY <1>2 DEF InOrder
  <2>7. ASSUME NEW i \in 1..Len(s.wire), deferred(i)
        PROVE  \/ i \in 1..n /\ s.wire[i] = o.wire[i] /\ s.wire[i].id \in 1..done
               \/ i = n + 1 /\ t \in Deferrable /\ s.wire[i].id = done + 1
    <3>1. CASE i \in 1..n
      BY <2>2, <2>7, <3>1 DEF InOrder
    <3>2. CASE i = n + 1
      BY <1>2, <2>2, <2>3, <2>5, <2>7, <3>2
    <3> QED
      BY <1>2, <2>2, <3>1, <3>2
  <2>8. \A i \in 1..Len(s.wire) : deferred(i) => s.wire[i].id \in 1..(done + e)
    BY <2>6, <2>7
  <2>9. \A i, j \in 1..Len(s.wire) :
          i < j /\ deferred(i) /\ deferred(j) => s.wire[i].id < s.wire[j].id
    <3> SUFFICES ASSUME NEW i \in 1..Len(s.wire), NEW j \in 1..Len(s.wire),
                        i < j, deferred(i), deferred(j)
                 PROVE  s.wire[i].id < s.wire[j].id
      OBVIOUS
    <3>1. i \in 1..n /\ s.wire[i] = o.wire[i] /\ s.wire[i].id \in 1..done
      BY <1>2, <2>2, <2>7
    <3>2. CASE j \in 1..n
      BY <2>2, <3>1, <3>2 DEF InOrder
    <3>3. CASE j = n + 1
      <4>1. t \in Deferrable /\ s.wire[j].id = done + 1
        BY <2>2, <2>3, <2>5, <3>3
      <4> QED
        BY <2>6, <3>1, <4>1
    <3> QED
      BY <1>2, <2>2, <3>2, <3>3
  <2>10. \A m \in 1..(done + e) :
           \E i \in 1..Len(s.wire) : deferred(i) /\ s.wire[i].id = m
    <3> TAKE m \in 1..(done + e)
    <3>1. CASE m \in 1..done
      <4>1. PICK i \in 1..n : o.wire[i].type \in Deferrable /\ o.wire[i].id = m
        BY <3>1 DEF InOrder
      <4>2. i \in 1..Len(s.wire) /\ deferred(i) /\ s.wire[i].id = m
        BY <1>2, <2>2, <4>1, SMTT(30)
      <4> QED
        BY <4>2, Zenon
    <3>2. CASE m = done + 1 /\ t \in Deferrable
      <4>1. deferred(n + 1) /\ s.wire[n + 1].id = m
        BY <2>2, <2>3, <2>5, <3>2
      <4>2. n + 1 \in 1..Len(s.wire)
        BY <1>2, <2>2
      <4> QED
        BY <4>1, <4>2, Zenon
    <3> QED
      BY <2>6, <3>1, <3>2
  <2>11. \A k \in 1..b : s.blocked[k].id = done + e + k
    <3>1. CASE t \in Deferrable
      BY <2>5, <3>1
    <3>2. CASE t \notin Deferrable
      BY <1>2, <2>2, <2>6, <3>2 DEF InOrder
    <3> QED
      BY <3>1, <3>2
  <2>12. s.submitted - Len(s.blocked) = done + e /\ Len(s.blocked) = b
    BY <2>2, <2>4
  <2>13. InOrder(s)
    <3> HIDE DEF done, e, n, b
    <3> QED
      BY <2>6, <2>8, <2>9, <2>10, <2>11, <2>12 DEF InOrder
  <2> QED
    BY <1>5, <2>2, <2>13 DEF NoneWaiting
<1> QED
  BY <1>4, <1>5 DEF s

\* The end of an exchange delivers the waiting messages after the others.
LEMMA FlushInOrder ==
  ASSUME NEW o \in OutState, NEW key \in Nat, NEW comp \in Nat, InOrder(o)
  PROVE  InOrder(Flush(o, key, comp))
<1> DEFINE f == Flush(o, key, comp)
           n == Len(o.wire)
           b == Len(o.blocked)
           done == o.submitted - b
           deferred(i) == f.wire[i].type \in Deferrable
<1>1. /\ f.submitted = o.submitted /\ Len(f.blocked) = 0
      /\ Len(f.wire) = n + b
      /\ \A i \in 1..n : f.wire[i] = o.wire[i]
      /\ \A k \in 1..b : /\ f.wire[n + k].type = o.blocked[k].type
                         /\ f.wire[n + k].id = o.blocked[k].id
  <2>1. /\ f.submitted = o.submitted /\ f.blocked = << >>
        /\ Len(f.wire) = n + b
        /\ \A i \in 1..n : f.wire[i] = o.wire[i]
        /\ \A k \in 1..b : f.wire[n + k] =
             [ type |-> o.blocked[k].type, id |-> o.blocked[k].id,
               key |-> key, seq |-> o.seq + k - 1, comp |-> comp ]
    <3>1. Flush(o, key, comp).submitted = o.submitted
          /\ Flush(o, key, comp).blocked = << >>
      BY FlushShape, ZenonT(60)
    <3>2. Len(Flush(o, key, comp).wire) = Len(o.wire) + Len(o.blocked)
      BY FlushShape
    <3>3. \A i \in 1..Len(o.wire) : Flush(o, key, comp).wire[i] = o.wire[i]
      BY FlushShape
    <3>4. \A k \in 1..Len(o.blocked) : Flush(o, key, comp).wire[Len(o.wire) + k] =
             [ type |-> o.blocked[k].type, id |-> o.blocked[k].id,
               key |-> key, seq |-> o.seq + k - 1, comp |-> comp ]
      BY FlushShape
    <3> QED
      BY <3>1, <3>2, <3>3, <3>4, Zenon
  <2> HIDE DEF f, n, b
  <2>2. Len(f.blocked) = 0
    BY <2>1
  <2>3. \A k \in 1..b : /\ f.wire[n + k].type = o.blocked[k].type
                        /\ f.wire[n + k].id = o.blocked[k].id
    <3> TAKE k \in 1..b
    <3>1. f.wire[n + k] = [ type |-> o.blocked[k].type, id |-> o.blocked[k].id,
                            key |-> key, seq |-> o.seq + k - 1, comp |-> comp ]
      BY <2>1, Zenon
    <3> QED
      BY <3>1
  <2> QED
    BY <2>1, <2>2, <2>3
<1>2. /\ n \in Nat /\ b \in Nat /\ o.submitted \in Nat
      /\ \A k \in 1..b : o.blocked[k] \in Held
  BY DEF OutState
<1>3. /\ done >= 0 /\ done \in Int /\ o.submitted = done + b
      /\ \A k \in 1..b : o.blocked[k].type \in Deferrable
                         /\ o.blocked[k].id = done + k
  BY <1>2 DEF InOrder, Held
<1>4. /\ \A i \in 1..n : o.wire[i].type \in Deferrable => o.wire[i].id \in 1..done
      /\ \A i, j \in 1..n : i < j /\ o.wire[i].type \in Deferrable
             /\ o.wire[j].type \in Deferrable => o.wire[i].id < o.wire[j].id
      /\ \A m \in 1..done : \E i \in 1..n : o.wire[i].type \in Deferrable
                                            /\ o.wire[i].id = m
  BY DEF InOrder
<1> HIDE DEF f, n, b, done
<1>5. ASSUME NEW i \in 1..(n + b), deferred(i)
      PROVE  \/ i \in 1..n /\ f.wire[i] = o.wire[i] /\ f.wire[i].id \in 1..done
             \/ i - n \in 1..b /\ f.wire[i].id = done + (i - n)
  <2>1. CASE i \in 1..n
    BY <1>1, <1>4, <1>5, <2>1
  <2>2. CASE i \notin 1..n
    <3>1. i - n \in 1..b /\ i = n + (i - n)
      BY <1>2, <2>2
    <3>2. f.wire[n + (i - n)].id = done + (i - n)
      BY <1>1, <1>3, <3>1
    <3> QED
      BY <3>1, <3>2
  <2> QED
    BY <2>1, <2>2
<1>6. \A i \in 1..(n + b) : deferred(i) => f.wire[i].id \in 1..(done + b)
  BY <1>2, <1>3, <1>5
<1>7. \A i, j \in 1..(n + b) :
        i < j /\ deferred(i) /\ deferred(j) => f.wire[i].id < f.wire[j].id
  <2> SUFFICES ASSUME NEW i \in 1..(n + b), NEW j \in 1..(n + b),
                      i < j, deferred(i), deferred(j)
               PROVE  f.wire[i].id < f.wire[j].id
    OBVIOUS
  <2>1. CASE j \in 1..n
    <3>1. i \in 1..n
      BY <1>2, <2>1
    <3> QED
      BY <1>1, <1>4, <2>1, <3>1
  <2>2. CASE j \notin 1..n
    <3>1. f.wire[j].id = done + (j - n) /\ j - n \in 1..b
      BY <1>5, <2>2
    <3> QED
      BY <1>2, <1>3, <1>5, <3>1
  <2> QED
    BY <2>1, <2>2
<1>8. \A m \in 1..(done + b) : \E i \in 1..(n + b) : deferred(i) /\ f.wire[i].id = m
  <2> TAKE m \in 1..(done + b)
  <2>1. CASE m \in 1..done
    <3>1. PICK i \in 1..n : o.wire[i].type \in Deferrable /\ o.wire[i].id = m
      BY <1>4, <2>1
    <3>2. i \in 1..(n + b) /\ deferred(i) /\ f.wire[i].id = m
      BY <1>1, <1>2, <3>1
    <3> QED
      BY <3>2, Zenon
  <2>2. CASE m \notin 1..done
    <3>1. m - done \in 1..b /\ n + (m - done) \in 1..(n + b)
      BY <1>2, <1>3, <2>2
    <3>2. deferred(n + (m - done)) /\ f.wire[n + (m - done)].id = m
      BY <1>1, <1>3, <3>1
    <3> QED
      BY <3>1, <3>2, Zenon
  <2> QED
    BY <2>1, <2>2
<1>9. f.submitted - Len(f.blocked) = done + b /\ done + b >= 0
  BY <1>1, <1>2, <1>3
<1>10. \A k \in 1..Len(f.blocked) : f.blocked[k].id = f.submitted - Len(f.blocked) + k
  BY <1>1
<1>11. Len(f.wire) = n + b
  BY <1>1
<1>12. InOrder(f)
  BY <1>6, <1>7, <1>8, <1>9, <1>10, <1>11, Zenon DEF InOrder
<1> QED
  BY <1>12 DEF f

QueueInv == TypeInv /\ NoneWaiting(out) /\ InOrder(out)

\* Every kind of step keeps the order.
LEMMA OutputStepInOrder ==
  QueueInv /\ OutputStep => InOrder(out') /\ NoneWaiting(out)'
<1> SUFFICES ASSUME QueueInv, OutputStep PROVE InOrder(out') /\ NoneWaiting(out)'
  OBVIOUS
<1>1. /\ TypeOK /\ out \in OutState /\ current \in Nat
      /\ InOrder(out) /\ NoneWaiting(out)
  BY DEF QueueInv, TypeInv, TypeOK
<1>2. ASSUME NEW o \in OutState, InOrder(o), NoneWaiting(o), out' = o, Busy' = Busy
      PROVE  InOrder(out') /\ NoneWaiting(out)'
  BY <1>2 DEF NoneWaiting
<1>3. CASE Same
  BY <1>1, <1>2, <1>3 DEF Same
<1>4. CASE Sent
  <2>1. PICK t \in Answers : out' = SendPacket(out, current, t)
    BY <1>4 DEF Sent
  <2>2. t \in Deferrable \cup Immediate
    BY DEF Answers, Immediate
  <2>3. SendPacket(out, current, t) \in OutState
    BY <1>1, <2>2, SendPacketType
  <2>4. InOrder(SendPacket(out, current, t)) /\ NoneWaiting(SendPacket(out, current, t))
    BY <1>1, <2>2, SendPacketInOrder
  <2> QED
    BY <1>2, <1>4, <2>1, <2>3, <2>4 DEF Sent
<1>5. CASE Started
  <2> DEFINE o == SendPacket(out, current, "KEXINIT")
  <2>1. o \in OutState
    BY <1>1, SendPacketType DEF Immediate
  <2>2. InOrder(o) /\ NoneWaiting(o)
    BY <1>1, SendPacketInOrder DEF Immediate
  <2> HIDE DEF o
  <2>3. o.blocked = << >>
    BY <1>5, <2>2 DEF Started, NoneWaiting
  <2>4. [o EXCEPT !.blocked = << >>] = o
    BY <2>1, <2>3 DEF OutState
  <2> QED
    BY <1>5, <2>2, <2>4 DEF Started, NoneWaiting, o
<1>6. CASE Keyed
  <2>1. PICK inUse \in Nat : \/ out' = KeysSent(inUse)
                             \/ out' = SendPacket(KeysSent(inUse), inUse, "EXT_INFO")
    BY <1>6 DEF Keyed
  <2> DEFINE r == SendPacket(out, current, "KEX_REPLY")
             k == SendPacket(r, inUse, "NEWKEYS")
             x == SendPacket(k, inUse, "EXT_INFO")
  <2>2. r \in OutState /\ InOrder(r) /\ NoneWaiting(r)
    BY <1>1, SendPacketType, SendPacketInOrder DEF Immediate
  <2> HIDE DEF r
  <2>3. k \in OutState /\ InOrder(k) /\ NoneWaiting(k)
    BY <1>1, <2>2, SendPacketType, SendPacketInOrder DEF Immediate
  <2> HIDE DEF k
  <2>4. x \in OutState /\ InOrder(x) /\ NoneWaiting(x)
    BY <1>1, <2>3, SendPacketType, SendPacketInOrder DEF Deferrable
  <2> HIDE DEF x
  <2>5. Busy' = Busy /\ (out' = k \/ out' = x)
    BY <1>6, <2>1 DEF Keyed, KeysSent, r, k, x
  <2> QED
    BY <1>2, <2>3, <2>4, <2>5
<1>7. CASE Ended
  <2>1. PICK key, comp \in Nat : out' = Flush(out, key, comp)
    BY <1>7 DEF Ended
  <2>2. InOrder(out')
    BY <1>1, <2>1, FlushInOrder
  <2>3. out'.blocked = << >>
    BY <1>1, <2>1, FlushShape
  <2> QED
    BY <2>2, <2>3 DEF NoneWaiting
<1> QED
  BY <1>3, <1>4, <1>5, <1>6, <1>7 DEF OutputStep

LEMMA QueueInvariant == Spec => []QueueInv
<1>1. Init => QueueInv
  <2> SUFFICES ASSUME Init PROVE QueueInv
    OBVIOUS
  <2>1. out = [wire |-> << >>, seq |-> 0, blocked |-> << >>, submitted |-> 0]
    BY DEF Init
  <2>2. Len(out.wire) = 0 /\ Len(out.blocked) = 0 /\ out.submitted = 0
        /\ out.blocked = << >>
    BY <2>1
  <2>3. InOrder(out)
    BY <2>2 DEF InOrder
  <2> QED
    BY <2>2, <2>3, InitType DEF QueueInv, NoneWaiting
<1>2. QueueInv /\ [Next]_vars => QueueInv'
  BY NextType, StepOutput, OutputStepInOrder DEF QueueInv, TypeInv
<1> QED
  BY <1>1, <1>2, PTL DEF Spec

\* Messages held back during a key exchange are written exactly once, in the
\* order they were submitted: for every client, every number of exchanges and
\* everything a service sends meanwhile (sendPacket, _newKeys).
THEOREM OutputOrdered == Spec => []OutputInOrder
<1>1. QueueInv => OutputInOrder
  BY DEF QueueInv, OutputInOrder
<1> QED
  BY <1>1, QueueInvariant, PTL

-----------------------------------------------------------------------------
(* The transport implements GatedOutput.                                   *)

\* Both sets of the gate are intervals when the output is in order.
LEMMA GateSets ==
  ASSUME NEW o \in OutState, InOrder(o)
  PROVE  LET done == o.submitted - Len(o.blocked)
         IN SentIds(o) = 1..done /\ HeldIds(o) = (done + 1)..o.submitted
<1> DEFINE b == Len(o.blocked)
           done == o.submitted - b
<1>1. /\ b \in Nat /\ o.submitted \in Nat /\ done \in Int /\ done >= 0
      /\ o.submitted = done + b
  BY DEF OutState, InOrder
<1>2. /\ \A i \in 1..Len(o.wire) : o.wire[i].type \in Deferrable => o.wire[i].id \in 1..done
      /\ \A m \in 1..done : \E i \in 1..Len(o.wire) : o.wire[i].type \in Deferrable
                                                      /\ o.wire[i].id = m
      /\ \A k \in 1..b : o.blocked[k].id = done + k
  BY DEF InOrder
<1>3. SentIds(o) = 1..done
  BY <1>2, Zenon DEF SentIds
<1>4. HeldIds(o) \subseteq (done + 1)..o.submitted
  BY <1>1, <1>2 DEF HeldIds
<1>5. (done + 1)..o.submitted \subseteq HeldIds(o)
  <2> SUFFICES ASSUME NEW m \in (done + 1)..o.submitted PROVE m \in HeldIds(o)
    OBVIOUS
  <2>1. m - done \in 1..b
    BY <1>1
  <2>2. o.blocked[m - done].id = done + (m - done)
    BY <1>2, <2>1, Zenon
  <2>3. done + (m - done) = m
    BY <1>1
  <2> QED
    BY <2>1, <2>2, <2>3, Zenon DEF HeldIds
<1> QED
  BY <1>3, <1>4, <1>5

\* sendPacket is a Submit for a message that can be held back and leaves the
\* gate alone for any other.
LEMMA SendPacketGate ==
  ASSUME TypeOK, NEW o \in OutState, NEW key \in Nat,
         NEW t \in Deferrable \cup Immediate, InOrder(o), NoneWaiting(o)
  PROVE  LET s == SendPacket(o, key, t)
         IN /\ t \notin Deferrable =>
                 /\ s.submitted = o.submitted
                 /\ SentIds(s) = SentIds(o) /\ HeldIds(s) = HeldIds(o)
            /\ t \in Deferrable =>
                 /\ s.submitted = o.submitted + 1
                 /\ ~Busy => /\ SentIds(s) = SentIds(o) \cup {o.submitted + 1}
                             /\ HeldIds(s) = HeldIds(o)
                 /\ Busy => /\ HeldIds(s) = HeldIds(o) \cup {o.submitted + 1}
                            /\ SentIds(s) = SentIds(o)
<1> DEFINE s == SendPacket(o, key, t)
           b == Len(o.blocked)
           done == o.submitted - b
<1>1. s \in OutState /\ InOrder(s) /\ NoneWaiting(s)
  BY SendPacketType, SendPacketInOrder
<1>2. /\ s.submitted = IF t \in Deferrable THEN o.submitted + 1 ELSE o.submitted
      /\ Busy /\ t \in Deferrable =>
           s.blocked = Append(o.blocked, [type |-> t, id |-> o.submitted + 1])
      /\ ~(Busy /\ t \in Deferrable) => s.blocked = o.blocked
  BY SendPacketShape
<1>3. /\ b \in Nat /\ o.submitted \in Nat /\ done \in Int /\ done >= 0
      /\ o.blocked \in Seq(Held)
  BY DEF OutState, InOrder
<1>4. Len(s.blocked) = IF Busy /\ t \in Deferrable THEN b + 1 ELSE b
  <2>1. CASE Busy /\ t \in Deferrable
    <3>1. [type |-> t, id |-> o.submitted + 1] \in Held
      BY <1>3, <2>1 DEF Held
    <3> QED
      BY <1>2, <1>3, <2>1, <3>1, AppendProperties
  <2> QED
    BY <1>2, <2>1
<1>5. SentIds(o) = 1..done /\ HeldIds(o) = (done + 1)..o.submitted
  BY GateSets
<1> HIDE DEF s
<1>6. /\ SentIds(s) = 1..(s.submitted - Len(s.blocked))
      /\ HeldIds(s) = (s.submitted - Len(s.blocked) + 1)..s.submitted
  BY <1>1, GateSets
<1>7. ~Busy => b = 0
  BY DEF NoneWaiting
<1>8. CASE t \notin Deferrable
  BY <1>2, <1>4, <1>5, <1>6, <1>8 DEF s
<1>9. CASE t \in Deferrable /\ ~Busy
  <2>1. s.submitted = o.submitted + 1 /\ Len(s.blocked) = 0 /\ done = o.submitted
    BY <1>2, <1>3, <1>4, <1>7, <1>9
  <2>2. SentIds(s) = 1..(o.submitted + 1) /\ HeldIds(s) = {} /\ HeldIds(o) = {}
    <3>1. s.submitted - Len(s.blocked) = o.submitted + 1
      BY <1>3, <2>1
    <3>2. HeldIds(s) = ((o.submitted + 1) + 1)..(o.submitted + 1)
      BY <1>6, <2>1, <3>1
    <3>3. HeldIds(o) = (o.submitted + 1)..o.submitted
      BY <1>5, <2>1
    <3>4. SentIds(s) = 1..(o.submitted + 1)
      BY <1>6, <3>1
    <3> QED
      BY <1>3, <3>2, <3>3, <3>4
  <2>3. SentIds(s) = SentIds(o) \cup {o.submitted + 1}
    BY <1>3, <1>5, <2>1, <2>2
  <2> QED
    BY <1>9, <2>1, <2>2, <2>3 DEF s
<1>10. CASE t \in Deferrable /\ Busy
  <2>1. s.submitted = o.submitted + 1 /\ Len(s.blocked) = b + 1
    BY <1>2, <1>4, <1>10
  <2>2. s.submitted - Len(s.blocked) = done
    BY <1>3, <2>1
  <2>3. SentIds(s) = SentIds(o) /\ HeldIds(s) = (done + 1)..(o.submitted + 1)
    BY <1>5, <1>6, <2>1, <2>2
  <2>4. HeldIds(s) = HeldIds(o) \cup {o.submitted + 1}
    BY <1>3, <1>5, <2>3
  <2> QED
    BY <1>10, <2>1, <2>3, <2>4 DEF s
<1> QED
  BY <1>8, <1>9, <1>10

LEMMA StepGate == QueueInv /\ OutputStep => [Gate!GateNext]_(Gate!gateVars)
<1> SUFFICES ASSUME QueueInv, OutputStep PROVE [Gate!GateNext]_(Gate!gateVars)
  OBVIOUS
<1> USE DEF Gate!gateVars
<1>1. /\ TypeOK /\ out \in OutState /\ current \in Nat
      /\ InOrder(out) /\ NoneWaiting(out)
  BY DEF QueueInv, TypeInv, TypeOK
<1>2. ASSUME Busy' = Busy, out'.submitted = out.submitted,
             SentIds(out') = SentIds(out), HeldIds(out') = HeldIds(out)
      PROVE  UNCHANGED Gate!gateVars
  BY <1>2
<1>3. CASE Same
  BY <1>2, <1>3 DEF Same
<1>4. CASE Sent
  <2>1. PICK t \in Answers : out' = SendPacket(out, current, t)
    BY <1>4 DEF Sent
  <2>2. t \in Deferrable \cup Immediate
    BY DEF Answers, Immediate
  <2>3. /\ t \notin Deferrable =>
             /\ out'.submitted = out.submitted
             /\ SentIds(out') = SentIds(out) /\ HeldIds(out') = HeldIds(out)
        /\ t \in Deferrable =>
             /\ out'.submitted = out.submitted + 1
             /\ ~Busy => /\ SentIds(out') = SentIds(out) \cup {out.submitted + 1}
                         /\ HeldIds(out') = HeldIds(out)
             /\ Busy => /\ HeldIds(out') = HeldIds(out) \cup {out.submitted + 1}
                        /\ SentIds(out') = SentIds(out)
    BY <1>1, <2>1, <2>2, SendPacketGate
  <2>4. Busy' = Busy
    BY <1>4 DEF Sent
  <2>5. CASE t \notin Deferrable
    BY <1>2, <2>3, <2>4, <2>5
  <2>6. CASE t \in Deferrable
    <3>1. Gate!Submit
      BY <2>3, <2>4, <2>6 DEF Gate!Submit
    <3> QED
      BY <3>1 DEF Gate!GateNext
  <2> QED
    BY <2>5, <2>6
<1>5. CASE Started
  <2> DEFINE o == SendPacket(out, current, "KEXINIT")
  <2>1. "KEXINIT" \in Immediate /\ "KEXINIT" \notin Deferrable
    BY DEF Immediate, Deferrable
  <2>2. o \in OutState /\ NoneWaiting(o)
    BY <1>1, <2>1, SendPacketType, SendPacketInOrder
  <2>3. o.submitted = out.submitted /\ SentIds(o) = SentIds(out)
        /\ HeldIds(o) = HeldIds(out)
    BY <1>1, <2>1, SendPacketGate
  <2>4. out' = [o EXCEPT !.blocked = << >>] /\ ~Busy /\ Busy'
    BY <1>5 DEF Started
  <2> HIDE DEF o
  <2>5. o.blocked = << >>
    BY <2>2, <2>4 DEF NoneWaiting
  <2>6. out' = o
    BY <2>2, <2>4, <2>5 DEF OutState
  <2>7. Gate!Close
    BY <2>3, <2>4, <2>6 DEF Gate!Close
  <2> QED
    BY <2>7 DEF Gate!GateNext
<1>6. CASE Keyed
  <2>1. PICK inUse \in Nat : \/ out' = KeysSent(inUse)
                             \/ out' = SendPacket(KeysSent(inUse), inUse, "EXT_INFO")
    BY <1>6 DEF Keyed
  <2>2. {"KEX_REPLY", "NEWKEYS"} \subseteq Immediate \ Deferrable
        /\ "EXT_INFO" \in Deferrable
    BY DEF Immediate, Deferrable
  <2> DEFINE r == SendPacket(out, current, "KEX_REPLY")
             k == SendPacket(r, inUse, "NEWKEYS")
             x == SendPacket(k, inUse, "EXT_INFO")
  <2>3. /\ r \in OutState /\ InOrder(r) /\ NoneWaiting(r)
        /\ r.submitted = out.submitted
        /\ SentIds(r) = SentIds(out) /\ HeldIds(r) = HeldIds(out)
    BY <1>1, <2>2, SendPacketType, SendPacketInOrder, SendPacketGate
  <2> HIDE DEF r
  <2>4. /\ k \in OutState /\ InOrder(k) /\ NoneWaiting(k)
        /\ k.submitted = out.submitted
        /\ SentIds(k) = SentIds(out) /\ HeldIds(k) = HeldIds(out)
    BY <1>1, <2>2, <2>3, SendPacketType, SendPacketInOrder, SendPacketGate
  <2> HIDE DEF k
  <2>5. /\ x.submitted = k.submitted + 1
        /\ ~Busy => /\ SentIds(x) = SentIds(k) \cup {k.submitted + 1}
                    /\ HeldIds(x) = HeldIds(k)
        /\ Busy => /\ HeldIds(x) = HeldIds(k) \cup {k.submitted + 1}
                   /\ SentIds(x) = SentIds(k)
    BY <1>1, <2>2, <2>4, SendPacketGate
  <2> HIDE DEF x
  <2>6. Busy' = Busy /\ (out' = k \/ out' = x)
    BY <1>6, <2>1 DEF Keyed, KeysSent, r, k, x
  <2>7. CASE out' = k
    BY <1>2, <2>4, <2>6, <2>7
  <2>8. CASE out' = x
    <3>1. Gate!Submit
      BY <2>4, <2>5, <2>6, <2>8 DEF Gate!Submit
    <3> QED
      BY <3>1 DEF Gate!GateNext
  <2> QED
    BY <2>6, <2>7, <2>8
<1>7. CASE Ended
  <2>1. PICK key, comp \in Nat : out' = Flush(out, key, comp)
    BY <1>7 DEF Ended
  <2>2. out' \in OutState /\ InOrder(out')
    BY <1>1, <2>1, FlushShape, FlushInOrder
  <2>3. out'.submitted = out.submitted /\ out'.blocked = << >>
    BY <1>1, <2>1, FlushShape, ZenonT(60)
  <2>4. /\ SentIds(out') = 1..(out'.submitted - Len(out'.blocked))
        /\ HeldIds(out') = (out'.submitted - Len(out'.blocked) + 1)..out'.submitted
        /\ SentIds(out) = 1..(out.submitted - Len(out.blocked))
        /\ HeldIds(out) = (out.submitted - Len(out.blocked) + 1)..out.submitted
    BY <1>1, <2>2, GateSets
  <2>5. out.submitted \in Nat /\ Len(out.blocked) \in Nat
        /\ out.submitted - Len(out.blocked) >= 0 /\ Len(out'.blocked) = 0
    BY <1>1, <2>3 DEF OutState, InOrder
  <2>6. SentIds(out') = SentIds(out) \cup HeldIds(out) /\ HeldIds(out') = {}
    BY <2>3, <2>4, <2>5
  <2>7. Gate!Open
    BY <1>7, <2>3, <2>6 DEF Gate!Open, Ended
  <2> QED
    BY <2>7 DEF Gate!GateNext
<1> QED
  BY <1>3, <1>4, <1>5, <1>6, <1>7 DEF OutputStep

\* The transport refines the gate: a message handed to sendPacket during an
\* exchange is delivered by the step that ends it and by no other.
THEOREM TransportImplementsGate == Spec => ImplementsGate
<1>1. Init => Gate!GateInit
  <2> SUFFICES ASSUME Init PROVE Gate!GateInit
    OBVIOUS
  <2>1. out = [wire |-> << >>, seq |-> 0, blocked |-> << >>, submitted |-> 0]
        /\ ~Busy
    BY DEF Init, Busy
  <2>2. Len(out.wire) = 0 /\ Len(out.blocked) = 0 /\ out.submitted = 0
    BY <2>1
  <2>3. HeldIds(out) = {} /\ SentIds(out) = {}
    BY <2>2 DEF HeldIds, SentIds
  <2> QED
    BY <2>1, <2>2, <2>3 DEF Gate!GateInit
<1>2. QueueInv /\ [Next]_vars => [Gate!GateNext]_(Gate!gateVars)
  BY StepOutput, StepGate DEF QueueInv, TypeInv
<1> QED
  BY <1>1, <1>2, QueueInvariant, PTL DEF Spec, ImplementsGate, Gate!GateSpec
=============================================================================
