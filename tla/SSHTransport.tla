---------------------------- MODULE SSHTransport ----------------------------
(***************************************************************************)
(* HoneyPotSSHTransport of the Raspberry Pi 4 profile                      *)
(* (config/raspberrypi4/overrides/ssh/transport.py): one SSH connection as *)
(* the honeypot sees it, facing a client that may send anything.           *)
(*                                                                         *)
(* The class overrides the version exchange, KEXINIT, the packet layer,    *)
(* strict-KEX dispatch, NEWKEYS, EXT_INFO, timers and delayed compression  *)
(* of Twisted's SSHServerTransport and inherits the rest.  Inherited       *)
(* handlers the overrides call are modelled from how they are used.        *)
(*                                                                         *)
(* Abstractions.  A packet is its message type.  A cipher object is the    *)
(* number of the key exchange that keyed it, 0 standing for the plaintext  *)
(* ciphers and for an object without keys.  A compression context is a     *)
(* generation number, 0 standing for none.  A KEXINIT is what negotiating  *)
(* it against the server's lists yields.                                   *)
(***************************************************************************)
EXTENDS Integers, Sequences

CONSTANTS
  Proposals,      \* outcomes of negotiating the KEXINITs a client can send
  MaxPackets,     \* bound: packets received on the connection
  MaxSubmitted    \* bound: messages the services hand over by themselves

Compressions == {"none", "zlib", "zlib@openssh.com"}

Proposal == [ kex : {"direct", "gex", "unmatched"},   \* first common method
              hostKey : BOOLEAN,       \* a host key algorithm in common
              ciphers : BOOLEAN,       \* ciphers and MACs in common
              out : Compressions \cup {"unmatched"},
              in  : Compressions \cup {"unmatched"},
              strict : BOOLEAN,        \* offers kex-strict-c-v00@openssh.com
              ext : BOOLEAN ]          \* offers ext-info-c

ASSUME ProposalsAssumption == Proposals \subseteq Proposal
ASSUME BoundsAssumption == MaxPackets \in Nat /\ MaxSubmitted \in Nat

\* Before the first KEXINIT.
NoProposal == [ kex |-> "unset", hostKey |-> FALSE, ciphers |-> FALSE,
                out |-> "unmatched", in |-> "unmatched",
                strict |-> FALSE, ext |-> FALSE ]

VARIABLES
  transport,       \* "open", "closing" after loseConnection, or "lost"
  looping,         \* dataReceived is in its loop: a further packet is buffered
  timer,           \* the pending timeout: "auth", "interactive" or "off"
  gotVersion,
  proposal,        \* kexAlg, keyAlg, ciphers and compression types last chosen
  strictKex,       \* _strict_kex_enabled
  extInfo,         \* _peerSupportsExtensions
  kexState,        \* _keyExchangeState
  initialKexDone,  \* _initial_kex_complete
  sessionID,       \* whether sessionID is set
  dhReady,         \* whether dhSecretKey exists (group exchange under way)
  current,         \* key of currentEncryptions
  next,            \* key of nextEncryptions
  aliased,         \* currentEncryptions and nextEncryptions are one object
  keyCount,        \* key exchanges computed so far
  outComp, inComp, \* generations of the two compression contexts
  service,         \* "none", "userauth" or "connection"
  avatar,          \* a login has succeeded
  out,             \* what sendPacket keeps: see OutState
  inSeq,           \* incomingPacketSequence
  received         \* packets received (bound only)

link       == <<transport, looping, timer, gotVersion>>
negotiated == <<proposal, strictKex, extInfo>>
exchange   == <<kexState, initialKexDone, sessionID, dhReady>>
keys       == <<current, next, aliased, keyCount>>
comps      == <<outComp, inComp>>
login      == <<service, avatar>>
input      == <<inSeq, received>>
vars == <<link, negotiated, exchange, keys, comps, login, out, input>>

-----------------------------------------------------------------------------
(* The outgoing half of the packet layer.                                  *)

\* Messages Twisted's _allowedKeyExchangeMessageType holds back during a key
\* exchange.  (KEXINIT is held back too, but sendKexInit raises before it
\* could be sent during an exchange.)
Deferrable == {"EXT_INFO", "SERVICE_ACCEPT", "USERAUTH_SUCCESS", "SERVICE_DATA"}

Immediate == {"KEXINIT", "KEX_REPLY", "GEX_GROUP", "NEWKEYS", "UNIMPLEMENTED",
              "DISCONNECT"}

\* A packet as written: the key it is encrypted with, the sequence number
\* authenticated with it and the compression context.  id numbers deferrable
\* messages in the order sendPacket was called (history only).
Packet == [ type : Deferrable \cup Immediate, id : Nat, key : Nat, seq : Nat,
            comp : Nat ]

\* A message of _blockedByKeyExchange.
Held == [type : Deferrable, id : Nat]

OutState == [ wire : Seq(Packet),    \* everything given to transport.write
              seq : Nat,             \* outgoingPacketSequence
              blocked : Seq(Held),   \* _blockedByKeyExchange
              submitted : Nat ]      \* deferrable messages handed over

Busy == kexState # "none"

\* (Definitions whose name starts with Faulty are what a mistake in the code
\* would make of the definition that follows.  Nothing uses them; they serve to
\* see that the properties notice the mistake.)

\* Fault: no message passes, those of the exchange included.
FaultyHeldBackAll(t) == Busy

\* Fault: messages are held back only from the client's KEXINIT on.
FaultyHeldBackLate(t) == kexState = "progressing" /\ t \in Deferrable

\* The first test of sendPacket.
HeldBack(t) == Busy /\ t \in Deferrable

\* Fault: a strict connection does not start its numbers over.
FaultySeqAfter(o, t) == o.seq + 1

\* outgoingPacketSequence after message t.
SeqAfter(o, t) == IF strictKex /\ t = "NEWKEYS" THEN 0 ELSE o.seq + 1

\* sendPacket, called in the current state on output state o, key being the
\* key of currentEncryptions at the time of the call.
SendPacket(o, key, t) ==
  LET id == IF t \in Deferrable THEN o.submitted + 1 ELSE 0
  IN IF HeldBack(t)
     THEN [ wire |-> o.wire, seq |-> o.seq, submitted |-> id,
            blocked |-> Append(o.blocked, [type |-> t, id |-> id]) ]
     ELSE [ wire |-> Append(o.wire, [ type |-> t, id |-> id, key |-> key,
                                      seq |-> o.seq, comp |-> outComp ]),
            seq |-> SeqAfter(o, t),
            submitted |-> IF t \in Deferrable THEN id ELSE o.submitted,
            blocked |-> o.blocked ]

\* Fault: the list is emptied before the loop.
FaultyFlushLost(o, key, comp) == [o EXCEPT !.blocked = << >>]

\* Fault: the list is forgotten until the next exchange.
FaultyFlushNothing(o, key, comp) == o

\* Fault: the list is taken from its end.
FaultyFlushReversed(o, key, comp) ==
  LET n == Len(o.blocked)
  IN [ wire |-> o.wire \o [ i \in 1..n |->
                              [ type |-> o.blocked[n + 1 - i].type,
                                id |-> o.blocked[n + 1 - i].id, key |-> key,
                                seq |-> o.seq + i - 1, comp |-> comp ] ],
       seq |-> o.seq + n, submitted |-> o.submitted, blocked |-> << >> ]

\* Fault: the sequence number is read once, before the loop.
FaultyFlushOneNonce(o, key, comp) ==
  [ wire |-> o.wire \o [ i \in 1..Len(o.blocked) |->
                           [ type |-> o.blocked[i].type, id |-> o.blocked[i].id,
                             key |-> key, seq |-> o.seq, comp |-> comp ] ],
    seq |-> o.seq + Len(o.blocked), submitted |-> o.submitted,
    blocked |-> << >> ]

\* The loop of _newKeys over the blocked messages, with the exchange over.
Flush(o, key, comp) ==
  [ wire |-> o.wire \o [ i \in 1..Len(o.blocked) |->
                           [ type |-> o.blocked[i].type, id |-> o.blocked[i].id,
                             key |-> key, seq |-> o.seq + i - 1,
                             comp |-> comp ] ],
    seq |-> o.seq + Len(o.blocked),
    submitted |-> o.submitted,
    blocked |-> << >> ]

\* Answer a packet with one message and go on.
Reply(t) == out' = SendPacket(out, current, t)

\* sendDisconnect, unless the reason is a bad packet length.
Disconnect ==
  /\ Reply("DISCONNECT")
  /\ transport' = "closing"

\* An exception leaves dataReceived: the reactor drops the connection, with
\* what the handler had written, and calls connectionLost.
Fault ==
  /\ transport' = "lost"
  /\ looping' = FALSE
  /\ timer' = "off"
  /\ UNCHANGED <<gotVersion, negotiated, exchange, keys, comps, login, out>>

-----------------------------------------------------------------------------
Init ==
  /\ transport = "open" /\ looping = FALSE /\ timer = "auth"
  /\ gotVersion = FALSE
  /\ proposal = NoProposal /\ strictKex = FALSE /\ extInfo = FALSE
  /\ kexState = "none" /\ initialKexDone = FALSE
  /\ sessionID = FALSE /\ dhReady = FALSE
  /\ current = 0 /\ next = 0 /\ aliased = FALSE /\ keyCount = 0
  /\ outComp = 0 /\ inComp = 0
  /\ service = "none" /\ avatar = FALSE
  /\ out = [wire |-> << >>, seq |-> 0, blocked |-> << >>, submitted |-> 0]
  /\ inSeq = 0 /\ received = 0

\* Whether a further complete packet is buffered is up to the network.
MoreBuffered == looping' \in IF received' < MaxPackets THEN BOOLEAN ELSE {FALSE}

\* Fault: the state is set before sendPacket, which then refuses the KEXINIT.
FaultySendKexInit ==
  /\ out' = [out EXCEPT !.blocked = << >>]
  /\ kexState' = "requested"

\* sendKexInit.
SendKexInit ==
  /\ out' = [SendPacket(out, current, "KEXINIT") EXCEPT !.blocked = << >>]
  /\ kexState' = "requested"

(* The version line.                                                       *)
ReceiveVersion(line) ==
  /\ transport = "open" /\ ~gotVersion
  /\ gotVersion' = (line # "bad")
  /\ UNCHANGED <<timer, negotiated, initialKexDone, sessionID, dhReady, keys,
                 comps, login, input>>
  /\ \/ /\ line = "2.0"
        /\ SendKexInit
        /\ MoreBuffered
        /\ UNCHANGED transport
     \/ /\ line \in {"bad", "unsupported"}
        /\ transport' = "closing"
        /\ UNCHANGED <<looping, kexState, out>>

\* getPacket yields a packet of the client.  After loseConnection nothing
\* more is read, but the loop goes on over what is buffered.
GetPacket ==
  /\ gotVersion
  /\ transport = "open" \/ (transport = "closing" /\ looping)
  /\ received < MaxPackets
  /\ received' = received + 1

Decoded == GetPacket /\ inSeq' = inSeq + 1 /\ MoreBuffered

StrictViolation ==
  /\ Decoded
  /\ Disconnect
  /\ UNCHANGED <<timer, gotVersion, negotiated, exchange, keys, comps, login>>

\* getPacket rejects the packet; it returns None, which ends the loop.
BadPacket(length) ==
  /\ GetPacket
  /\ looping' = FALSE
  /\ IF length THEN transport' = "closing" /\ UNCHANGED out ELSE Disconnect
  /\ UNCHANGED <<timer, gotVersion, negotiated, exchange, keys, comps, login,
                 inSeq>>

\* An empty payload is false in "while packet": the loop ends although more
\* packets may be buffered.
EmptyPacket ==
  /\ GetPacket
  /\ inSeq' = inSeq + 1
  /\ looping' = FALSE
  /\ UNCHANGED <<transport, timer, gotVersion, negotiated, exchange, keys, comps,
                 login, out>>

\* A payload shorter than its handler unpacks.
ReceiveMalformed == Decoded /\ Fault

-----------------------------------------------------------------------------
(* Key exchange.                                                           *)

\* The parts ssh_KEXINIT insists on; ciphers and MACs are not among them.
Matched(p) == /\ p.kex # "unmatched" /\ p.hostKey
              /\ p.out # "unmatched" /\ p.in # "unmatched"

\* Fault: any later KEXINIT may still decide it.
FaultyStrict(p) == strictKex \/ p.strict

\* Strict key exchange is decided before the first keys.
Strict(p) == strictKex \/ (~sessionID /\ p.strict)

ReceiveKexInit(p) ==
  /\ Decoded
  /\ UNCHANGED <<timer, gotVersion>>
  /\ \/ /\ ~Matched(p)
        /\ proposal' = p /\ next' = 0 /\ aliased' = FALSE
        /\ Disconnect
        /\ UNCHANGED <<strictKex, extInfo, kexState>>
     \/ /\ Matched(p) /\ kexState # "progressing"
        /\ proposal' = p /\ next' = 0 /\ aliased' = FALSE
        /\ extInfo' = p.ext
        /\ strictKex' = Strict(p)
        /\ IF kexState = "requested"
           THEN kexState' = "progressing" /\ UNCHANGED out
           ELSE SendKexInit
        /\ UNCHANGED transport
  /\ UNCHANGED <<initialKexDone, sessionID, dhReady, current, keyCount, comps,
                 login>>

\* sendKexInit raises when a KEXINIT arrives in the middle of an exchange.
RejectKexInit(p) ==
  /\ Decoded
  /\ Matched(p) /\ kexState = "progressing"
  /\ Fault

\* Fault: every key exchange announces.
FaultyAnnounceAgain == extInfo

\* Fault: sessionID is tested after the base class has set it.
FaultyAnnounceNever == ~sessionID' /\ extInfo

\* The first keys of the connection, for a client that offers ext-info-c.
AnnounceExtensions == ~sessionID /\ extInfo

\* _keySetup after the reply r: the keys go into nextEncryptions, which after
\* NEWKEYS is the object in use; EXT_INFO follows the first NEWKEYS.
KeySetup(r) ==
  LET key   == keyCount + 1
      inUse == IF aliased THEN key ELSE current
      o     == SendPacket(SendPacket(out, current, r), inUse, "NEWKEYS")
  IN /\ keyCount' = key /\ next' = key /\ current' = inUse
     /\ sessionID' = TRUE
     /\ out' = IF AnnounceExtensions THEN SendPacket(o, inUse, "EXT_INFO") ELSE o
     /\ UNCHANGED <<transport, timer, gotVersion, negotiated, kexState,
                    initialKexDone, aliased, comps, login>>

\* A host key and matched ciphers are what the reply and setKeys need.
CanSetKeys == proposal.hostKey /\ proposal.ciphers

\* Message 30: a public value, or an old-style group request, as kexAlg says.
ReceiveKexDhInit ==
  /\ Decoded
  /\ \/ /\ proposal.kex = "gex"
        /\ dhReady' = TRUE
        /\ Reply("GEX_GROUP")
        /\ UNCHANGED <<transport, timer, gotVersion, negotiated, kexState,
                       initialKexDone, sessionID, keys, comps, login>>
     \/ /\ proposal.kex = "direct" /\ CanSetKeys
        /\ dhReady' \in {dhReady, FALSE}    \* elliptic curve, or fixed group
        /\ KeySetup("KEX_REPLY")
     \/ /\ \/ proposal.kex \in {"unset", "unmatched"}
           \/ proposal.kex = "direct" /\ ~CanSetKeys
        /\ Fault

ReceiveGexRequest ==
  /\ Decoded
  /\ dhReady' = TRUE
  /\ Reply("GEX_GROUP")
  /\ UNCHANGED <<transport, timer, gotVersion, negotiated, kexState,
                 initialKexDone, sessionID, keys, comps, login>>

ReceiveGexInit ==
  /\ Decoded
  /\ IF dhReady /\ proposal.kex \in {"direct", "gex"} /\ CanSetKeys
     THEN dhReady' = FALSE /\ KeySetup("KEX_REPLY")
     ELSE Fault

\* Fault: a cipher object without keys works as the plaintext ciphers do.
FaultyCanSwitchKeys == Busy

\* Without an exchange there is no list to flush, and without keys the next
\* getPacket fails.
CanSwitchKeys == Busy /\ next # 0

\* Fault: only the outgoing number starts over.
FaultySeqAfterNewKeys == inSeq + 1

\* incomingPacketSequence after NEWKEYS.
SeqAfterNewKeys == IF strictKex THEN 0 ELSE inSeq + 1

\* ssh_NEWKEYS and _newKeys.
ReceiveNewKeys(data) ==
  /\ GetPacket /\ MoreBuffered
  /\ inSeq' = IF data THEN inSeq + 1 ELSE SeqAfterNewKeys
  /\ \/ /\ data
        /\ Disconnect
        /\ UNCHANGED <<timer, gotVersion, negotiated, exchange, keys, comps,
                       login>>
     \/ /\ ~data /\ CanSwitchKeys
        /\ current' = next /\ aliased' = TRUE
        /\ outComp' = IF proposal.out = "zlib" THEN outComp + 1 ELSE outComp
        /\ inComp' = IF proposal.in = "zlib" THEN inComp + 1 ELSE inComp
        /\ kexState' = "none" /\ initialKexDone' = TRUE
        /\ out' = Flush(out, next, outComp')
        /\ UNCHANGED <<transport, timer, gotVersion, negotiated, sessionID,
                       dhReady, next, keyCount, login>>
     \/ /\ ~data /\ ~CanSwitchKeys
        /\ Fault

-----------------------------------------------------------------------------
(* Messages outside the key exchange.                                      *)

\* IGNORE, DEBUG, UNIMPLEMENTED and what a service takes without an answer.
ReceiveIgnore ==
  /\ Decoded
  /\ UNCHANGED <<transport, timer, gotVersion, negotiated, exchange, keys, comps,
                 login, out>>

\* A message nobody handles: a number without handler, or one above 49 that no
\* running service knows.
ReceiveUnknown ==
  /\ Decoded
  /\ Reply("UNIMPLEMENTED")
  /\ UNCHANGED <<transport, timer, gotVersion, negotiated, exchange, keys, comps,
                 login>>

ReceiveDisconnect ==
  /\ Decoded
  /\ transport' = "closing"
  /\ UNCHANGED <<timer, gotVersion, negotiated, exchange, keys, comps, login, out>>

\* Fault: the delayed method is not known by its name.
FaultyRenewed(generation, type) == generation

\* The context setService makes for a compression type.
Renewed(generation, type) ==
  IF type = "zlib@openssh.com" THEN generation + 1 ELSE generation

\* Fault: the two directions are taken for one another.
FaultyDelayedCompression ==
  /\ outComp' = Renewed(outComp, proposal.in)
  /\ inComp' = Renewed(inComp, proposal.out)

\* The delayed compression setService starts for ssh-connection.
DelayedCompression ==
  /\ outComp' = Renewed(outComp, proposal.out)
  /\ inComp' = Renewed(inComp, proposal.in)

\* Fault: the timer of the login is stopped and no other started.
FaultyInteractiveTimeout == timer' = "off"

\* The timeout setService sets for ssh-connection, anew at every call: the
\* timer that was pending is cancelled, even another "interactive" one.
InteractiveTimeout == timer' = "interactive"

\* setService.
SetService(s) ==
  /\ service' = s
  /\ IF s = "connection"
     THEN InteractiveTimeout /\ DelayedCompression
     ELSE UNCHANGED <<timer, comps>>

\* ssh_SERVICE_REQUEST: before a login the factory only knows ssh-userauth.
\* setService needs the compression types a KEXINIT sets.
ReceiveServiceRequest(s) ==
  /\ Decoded
  /\ \/ /\ s = "userauth" \/ (avatar /\ proposal # NoProposal)
        /\ Reply("SERVICE_ACCEPT")
        /\ SetService(s)
        /\ UNCHANGED <<transport, gotVersion, negotiated, exchange, keys, avatar>>
     \/ /\ s = "connection" /\ ~avatar
        /\ Disconnect
        /\ UNCHANGED <<timer, gotVersion, negotiated, exchange, keys, comps, login>>
     \/ /\ s = "connection" /\ avatar /\ proposal = NoProposal
        /\ Fault

\* A USERAUTH_REQUEST whose credentials the honeypot accepts.  Before any
\* KEXINIT setService fails after the timer is set; the login callback
\* swallows the exception.
ReceiveLogin ==
  /\ Decoded
  /\ avatar' = TRUE
  /\ Reply("USERAUTH_SUCCESS")
  /\ IF proposal # NoProposal
     THEN SetService("connection")
     ELSE InteractiveTimeout /\ UNCHANGED <<comps, service>>
  /\ UNCHANGED <<transport, gotVersion, negotiated, exchange, keys>>

\* A service sends: an answer to a request, at once or from a callback (a
\* rejected login is answered a second later), or output of the shell.
ServiceSends ==
  /\ transport # "lost" /\ service # "none"
  /\ out.submitted < MaxSubmitted
  /\ Reply("SERVICE_DATA")
  /\ UNCHANGED <<link, negotiated, exchange, keys, comps, login, input>>

-----------------------------------------------------------------------------
(* The reactor, which runs a callback only between calls of dataReceived.  *)

\* The timer fires and timeoutConnection drops the connection.
Timeout ==
  /\ transport # "lost" /\ ~looping /\ timer # "off"
  /\ timer' = "off"
  /\ transport' = "closing"
  /\ UNCHANGED <<looping, gotVersion, negotiated, exchange, keys, comps, login,
                 out, input>>

\* The peer went away, or what was written before loseConnection is flushed.
ConnectionLost ==
  /\ transport # "lost" /\ ~looping
  /\ transport' = "lost" /\ timer' = "off"
  /\ UNCHANGED <<looping, gotVersion, negotiated, exchange, keys, comps, login,
                 out, input>>

Terminated == transport = "lost" /\ UNCHANGED vars

-----------------------------------------------------------------------------
(* What can arrive.  CORRUPT and BAD_LENGTH fail in getPacket, MALFORMED in  *)
(* its handler; UNKNOWN_KEX is a message 30..49 without handler.             *)

Outside == {"IGNORE", "UNKNOWN", "DISCONNECT", "REQUEST_USERAUTH",
            "REQUEST_CONNECTION", "LOGIN"}

MessageTypes == {"KEXINIT", "KEXDH_INIT", "GEX_REQUEST", "GEX_INIT", "NEWKEYS",
                 "NEWKEYS_DATA", "UNKNOWN_KEX", "CORRUPT", "BAD_LENGTH", "EMPTY",
                 "MALFORMED"} \cup Outside

\* Fault: _initial_kex_complete is not looked at.
FaultyStrictWindow == strictKex

\* While this holds dispatchMessage lets only key exchange messages through.
StrictWindow == strictKex /\ ~initialKexDone

\* One turn of the loop of dataReceived on a message of type t, a KEXINIT
\* being negotiated as p.
Receive(t, p) ==
  \/ t = "KEXINIT"     /\ (ReceiveKexInit(p) \/ RejectKexInit(p))
  \/ t = "KEXDH_INIT"  /\ ReceiveKexDhInit
  \/ t = "GEX_REQUEST" /\ ReceiveGexRequest
  \/ t = "GEX_INIT"    /\ ReceiveGexInit
  \/ t = "NEWKEYS"      /\ ReceiveNewKeys(FALSE)
  \/ t = "NEWKEYS_DATA" /\ ReceiveNewKeys(TRUE)
  \/ t = "UNKNOWN_KEX"  /\ ReceiveUnknown
  \/ t = "CORRUPT"    /\ BadPacket(FALSE)
  \/ t = "BAD_LENGTH" /\ BadPacket(TRUE)
  \/ t = "EMPTY"      /\ EmptyPacket
  \/ t = "MALFORMED"  /\ ReceiveMalformed
  \/ t \in Outside /\ StrictWindow /\ StrictViolation
  \/ /\ ~StrictWindow
     /\ \/ t = "IGNORE"     /\ ReceiveIgnore
        \/ t = "UNKNOWN"    /\ ReceiveUnknown
        \/ t = "DISCONNECT" /\ ReceiveDisconnect
        \/ t = "REQUEST_USERAUTH"   /\ ReceiveServiceRequest("userauth")
        \/ t = "REQUEST_CONNECTION" /\ ReceiveServiceRequest("connection")
        \/ t = "LOGIN" /\ service = "userauth" /\ ReceiveLogin
        \/ t = "LOGIN" /\ service # "userauth" /\ ReceiveUnknown

ReceivePacket ==
  \/ \E t \in MessageTypes \ {"KEXINIT"} : Receive(t, NoProposal)
  \/ \E p \in Proposals : Receive("KEXINIT", p)

Next ==
  \/ \E line \in {"2.0", "bad", "unsupported"} : ReceiveVersion(line)
  \/ ReceivePacket
  \/ ServiceSends
  \/ Timeout
  \/ ConnectionLost
  \/ Terminated

\* A step that sets the timer, InteractiveTimeout being reached.
SetsTimer ==
  /\ ~StrictWindow
  /\ \/ service = "userauth" /\ ReceiveLogin
     \/ avatar /\ proposal # NoProposal /\ ReceiveServiceRequest("connection")

\* A timer that is not set anew fires: the reactor gets to it between two
\* calls of dataReceived, however many there are (strong fairness).
TimerFires == []<><<SetsTimer>>_vars \/ SF_vars(Timeout)

\* A call of dataReceived comes to an end: what is buffered is finite.
LoopEnds == WF_vars(looping /\ ReceivePacket /\ ~looping')

Fairness == LoopEnds /\ TimerFires

Spec == Init /\ [][Next]_vars /\ Fairness

-----------------------------------------------------------------------------
(* Properties.                                                             *)

\* Every variable has a value the code can give it.
TypeOK ==
  /\ transport \in {"open", "closing", "lost"}
  /\ looping \in BOOLEAN
  /\ timer \in {"auth", "interactive", "off"}
  /\ gotVersion \in BOOLEAN
  /\ proposal \in Proposal \cup {NoProposal} /\ strictKex \in BOOLEAN /\ extInfo \in BOOLEAN
  /\ kexState \in {"none", "requested", "progressing"}
  /\ initialKexDone \in BOOLEAN /\ sessionID \in BOOLEAN /\ dhReady \in BOOLEAN
  /\ current \in Nat /\ next \in Nat /\ keyCount \in Nat /\ aliased \in BOOLEAN
  /\ outComp \in Nat /\ inComp \in Nat
  /\ service \in {"none", "userauth", "connection"} /\ avatar \in BOOLEAN
  /\ out \in OutState
  /\ inSeq \in Nat /\ received \in Nat

Written == 1..Len(out.wire)
Deferred(i) == out.wire[i].type \in Deferrable

InOrder(o) ==
  LET done == o.submitted - Len(o.blocked)
      deferred(i) == o.wire[i].type \in Deferrable
      sent == 1..Len(o.wire)
  IN /\ done >= 0
     /\ \A i \in sent : deferred(i) => o.wire[i].id \in 1..done
     /\ \A i, j \in sent :
          i < j /\ deferred(i) /\ deferred(j) => o.wire[i].id < o.wire[j].id
     /\ \A n \in 1..done : \E i \in sent : deferred(i) /\ o.wire[i].id = n
     /\ \A k \in 1..Len(o.blocked) : o.blocked[k].id = done + k

\* The messages held back during key exchanges reach the wire exactly once and
\* in the order they were submitted, whatever the client interleaves with its
\* exchanges: what is on the wire is a prefix of what was submitted, what
\* waits is the rest (sendPacket, _newKeys).
OutputInOrder == InOrder(out)

\* Between a KEXINIT the server writes and the NEWKEYS that answers it, the
\* server writes no message RFC 4253 (7.1) forbids there, and no message is
\* left waiting once no exchange is under way.
QuietDuringExchange ==
  /\ \A i, j \in Written :
       i < j /\ out.wire[i].type = "KEXINIT" /\ Deferred(j)
         => \E k \in i..j : out.wire[k].type = "NEWKEYS"
  /\ out.blocked # << >> => Busy

\* No service message, login result or EXT_INFO is ever written in plaintext,
\* although services may be requested before the first exchange.
ServicesEncrypted == \A i \in Written : Deferred(i) => out.wire[i].key > 0

\* Once a packet was written under some keys, no packet is written under
\* older ones: a stray NEWKEYS or KEXDH_INIT never brings back a former
\* cipher state (aliasing of nextEncryptions and currentEncryptions).
KeysNeverGoBack ==
  \A i, j \in Written : i < j => out.wire[i].key <= out.wire[j].key

HeldIds(o) == {o.blocked[k].id : k \in 1..Len(o.blocked)}
SentIds(o) ==
  {o.wire[i].id : i \in {n \in 1..Len(o.wire) : o.wire[n].type \in Deferrable}}

\* The transport is a GatedOutput: the gate is the key exchange state.
Gate == INSTANCE GatedOutput WITH
  open      <- ~Busy,
  submitted <- out.submitted,
  waiting   <- HeldIds(out),
  delivered <- SentIds(out)

\* Every step of the transport is a step of the gate or leaves it alone: no
\* message passes during an exchange, all that waited pass at its end.
ImplementsGate == Gate!GateSpec

\* Sequence numbers follow one another on the wire, starting over after
\* NEWKEYS on a strict-KEX connection and never on another: the decision is
\* taken before the first NEWKEYS and no later KEXINIT changes it.
SequenceRule ==
  \A i \in Written :
    out.wire[i].seq = IF \/ i = 1
                         \/ strictKex /\ out.wire[i - 1].type = "NEWKEYS"
                      THEN 0 ELSE out.wire[i - 1].seq + 1

\* EXT_INFO is announced at most once on a connection, and only after a
\* NEWKEYS, however many key exchanges the client runs (RFC 8308, 2.4).
ExtInfoOnce ==
  LET sent == {i \in Written : out.wire[i].type = "EXT_INFO"}
      waiting == {k \in 1..Len(out.blocked) : out.blocked[k].type = "EXT_INFO"}
  IN /\ \A i, j \in sent : i = j
     /\ \A k, l \in waiting : k = l
     /\ sent = {} \/ waiting = {}
     /\ \A i \in sent : \E n \in 1..i : out.wire[n].type = "NEWKEYS"

\* A KEXINIT with some part the two sides have no algorithm in common for is
\* answered with DISCONNECT, "couldn't match all kex parts" (ssh_KEXINIT).
\* The code looks at ciphers and MACs only when it logs the mismatch.
UnmatchedRejected ==
  proposal # NoProposal /\ ~(Matched(proposal) /\ proposal.ciphers)
    => transport # "open"

\* A connection is hung up unless the client sets the timer anew for ever: a
\* client that never logs in, or that no more requests ssh-connection and logs
\* in once it has, finds some timer pending until the transport is told to
\* close, whatever else it sends or withholds (connectionMade, setService,
\* timeoutConnection).  A client that repeats such a request for ever is never
\* hung up, for each call of setService sets the timer anew.
HangsUp == <>(transport # "open") \/ []<><<SetsTimer>>_vars
=============================================================================
