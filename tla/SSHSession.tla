----------------------------- MODULE SSHSession -----------------------------
(***************************************************************************)
(* HoneyPotSSHTransport serving a client that follows the protocol the way *)
(* the OpenSSH client does: both ends of one connection and the two byte   *)
(* streams between them.                                                   *)
(*                                                                         *)
(* The server is SSHTransport, unchanged.  The client is not in this       *)
(* repository; it is modelled from what the server's handlers expect and   *)
(* from the OpenSSH behaviour the transport says it reproduces: it sends   *)
(* its KEXINIT at once, switches its outgoing keys when it sends NEWKEYS   *)
(* and its incoming ones when it receives NEWKEYS, sends nothing but key   *)
(* exchange messages during an exchange, re-keys only after its login and  *)
(* starts compression afresh with every new set of keys.                   *)
(***************************************************************************)
EXTENDS SSHTransport

CONSTANTS
  WrongGuess,     \* the client sends a wrong first_kex_packet_follows guess
  MaxRekeys,      \* bound: key exchanges after the first one
  MaxExtra        \* bound: further messages of the client (IGNORE, requests)

ASSUME ClientAssumption ==
  WrongGuess \in BOOLEAN /\ MaxRekeys \in Nat /\ MaxExtra \in Nat

VARIABLES
  offer,          \* the client's configuration: what its KEXINIT negotiates to
  c2s,            \* packets of the client the server has not read
  read,           \* number of the server's packets the client has read
  phase,          \* where the client's key exchange is
  progress,       \* how far its login is
  cOut, cIn,      \* its two directions: key, sequence number, compression
  rekeys, extra   \* exchanges started after the first, further messages sent

client == <<offer, c2s, read, phase, progress, cOut, cIn, rekeys, extra>>
sessionVars == <<vars, client>>

Phases == {"start", "idle", "sentInit", "sentGexRequest", "sentDh", "sentNewKeys"}
Steps  == {"start", "requested", "accepted", "tried", "done"}

Fresh == [key |-> 0, seq |-> 0, comp |-> 0]

SessionInit ==
  /\ Init
  /\ offer \in Proposals
  /\ c2s = << >> /\ read = 0
  /\ phase = "start" /\ progress = "start"
  /\ cOut = Fresh /\ cIn = Fresh
  /\ rekeys = 0 /\ extra = 0

-----------------------------------------------------------------------------
(* The client.                                                             *)

Encoded(t, d) == [type |-> t, key |-> d.key, seq |-> d.seq, comp |-> d.comp]

\* The state of a direction after a packet, and after NEWKEYS.
Advance(d) == [d EXCEPT !.seq = @ + 1]

Rekeyed(d, type) ==
  [ key |-> d.key + 1,
    seq |-> IF offer.strict THEN 0 ELSE d.seq + 1,
    comp |-> IF \/ type = "zlib"
                \/ type = "zlib@openssh.com" /\ progress = "done"
             THEN d.comp + 1 ELSE d.comp ]

ClientSend(t) ==
  /\ c2s' = Append(c2s, Encoded(t, cOut))
  /\ cOut' = IF t = "NEWKEYS" THEN Rekeyed(cOut, offer.in) ELSE Advance(cOut)

\* Its KEXINIT, with the version line or to re-key, and the first message of
\* another method it guessed, which the receiver has to ignore.
ClientKexInit ==
  /\ \/ phase = "start" /\ UNCHANGED rekeys
     \/ phase = "idle" /\ progress = "done" /\ rekeys < MaxRekeys
        /\ rekeys' = rekeys + 1
  /\ phase' = "sentInit"
  /\ LET guess == Encoded("GUESS", Advance(cOut))
     IN IF WrongGuess
        THEN /\ c2s' = c2s \o <<Encoded("KEXINIT", cOut), guess>>
             /\ cOut' = Advance(Advance(cOut))
        ELSE ClientSend("KEXINIT")
  /\ UNCHANGED <<vars, offer, read, progress, cIn, extra>>

\* Ask for the login service, log in.
ClientLogin ==
  /\ phase = "idle"
  /\ \/ progress = "start" /\ progress' = "requested"
        /\ ClientSend("REQUEST_USERAUTH")
     \/ progress = "accepted" /\ progress' = "tried"
        /\ ClientSend("LOGIN")
  /\ UNCHANGED <<vars, offer, read, phase, cIn, rekeys, extra>>

\* Anything else outside an exchange: a request of the session, an IGNORE.
\* While it waits for the result of a login the client sends nothing.
ClientExtra ==
  /\ phase = "idle" /\ progress # "tried" /\ extra < MaxExtra
  /\ extra' = extra + 1
  /\ ClientSend("IGNORE")
  /\ UNCHANGED <<vars, offer, read, phase, progress, cIn, rekeys>>

Agrees(p, d) == p.key = d.key /\ p.seq = d.seq /\ p.comp = d.comp

\* The client reads the server's next packet.  A packet it cannot decode, or
\* did not expect, ends its conversation: it stays unread.
ClientRead ==
  /\ read < Len(out.wire) /\ phase # "start"
  /\ LET p == out.wire[read + 1]
     IN /\ Agrees(p, cIn)
        /\ \/ /\ p.type = "KEXINIT" /\ phase = "sentInit"
              /\ IF offer.kex = "gex"
                 THEN phase' = "sentGexRequest" /\ ClientSend("GEX_REQUEST")
                 ELSE phase' = "sentDh" /\ ClientSend("KEXDH_INIT")
              /\ UNCHANGED progress
           \/ /\ p.type = "GEX_GROUP" /\ phase = "sentGexRequest"
              /\ phase' = "sentDh" /\ ClientSend("GEX_INIT")
              /\ UNCHANGED progress
           \/ /\ p.type = "KEX_REPLY" /\ phase = "sentDh"
              /\ phase' = "sentNewKeys" /\ ClientSend("NEWKEYS")
              /\ UNCHANGED progress
           \/ /\ p.type = "NEWKEYS" /\ phase = "sentNewKeys"
              /\ phase' = "idle"
              /\ UNCHANGED <<progress, c2s, cOut>>
           \/ /\ p.type \in {"EXT_INFO", "SERVICE_DATA"}
              /\ UNCHANGED <<phase, progress, c2s, cOut>>
           \/ /\ p.type = "SERVICE_ACCEPT" /\ progress = "requested"
              /\ progress' = "accepted"
              /\ UNCHANGED <<phase, c2s, cOut>>
           \/ /\ p.type = "USERAUTH_SUCCESS" /\ progress = "tried"
              /\ progress' = "done"
              /\ cOut' = IF offer.in = "zlib@openssh.com"
                         THEN [cOut EXCEPT !.comp = @ + 1] ELSE cOut
              /\ UNCHANGED <<phase, c2s>>
        /\ cIn' = CASE p.type = "NEWKEYS" -> Rekeyed(cIn, offer.out)
                    [] p.type = "USERAUTH_SUCCESS"
                         /\ offer.out = "zlib@openssh.com"
                         -> [Advance(cIn) EXCEPT !.comp = @ + 1]
                    [] OTHER -> Advance(cIn)
  /\ read' = read + 1
  /\ UNCHANGED <<vars, offer, rekeys, extra>>

ClientStep == ClientKexInit \/ ClientLogin \/ ClientExtra \/ ClientRead

-----------------------------------------------------------------------------
(* The server.                                                             *)

\* The server's view of what it reads next.
Incoming == [key |-> current, seq |-> inSeq, comp |-> inComp]

\* How the server takes packet m: one it cannot authenticate or decompress is
\* corrupt (plaintext is not authenticated).  The message of another method is
\* not ignored: it fails to parse, or is taken for the method chosen.
Meanings(m) ==
  IF ~(IF m.key = 0 /\ current = 0 THEN m.comp = inComp ELSE Agrees(m, Incoming))
  THEN {"CORRUPT"}
  ELSE IF m.type = "GUESS" THEN {"MALFORMED", "KEXDH_INIT"} ELSE {m.type}

ServerReads ==
  /\ c2s # << >>
  /\ \E t \in Meanings(Head(c2s)) : Receive(t, offer)
  /\ looping' => Len(c2s) > 1
  /\ c2s' = Tail(c2s)
  /\ UNCHANGED <<offer, read, phase, progress, cOut, cIn, rekeys, extra>>

ServerActs ==
  /\ ReceiveVersion("2.0") \/ ServiceSends \/ Timeout \/ ConnectionLost
  /\ looping' => c2s # << >>
  /\ UNCHANGED client

SessionNext ==
  \/ ClientStep
  \/ ServerReads
  \/ ServerActs
  \/ (Terminated /\ UNCHANGED client)

\* The streams are reliable and both programs keep reading.
SessionFairness ==
  /\ WF_sessionVars(ReceiveVersion("2.0") /\ UNCHANGED client)
  /\ WF_sessionVars(ServerReads)
  /\ WF_sessionVars(ClientRead)
  /\ WF_sessionVars(ClientKexInit /\ phase = "start")

SessionSpec ==
  SessionInit /\ [][SessionNext]_sessionVars /\ SessionFairness

-----------------------------------------------------------------------------
(* Properties.                                                             *)

Direction == [key : Nat, seq : Nat, comp : Nat]

ClientPacket == [ type : MessageTypes \cup {"GUESS"}, key : Nat, seq : Nat,
                  comp : Nat ]

\* Every variable of the client has a value of its kind, and the bound on
\* received packets never stops this client.
SessionTypeOK ==
  /\ TypeOK
  /\ offer \in Proposals
  /\ c2s \in Seq(ClientPacket)
  /\ read \in 0..Len(out.wire)
  /\ phase \in Phases /\ progress \in Steps
  /\ cOut \in Direction /\ cIn \in Direction
  /\ rekeys \in 0..MaxRekeys /\ extra \in 0..MaxExtra
  /\ received + Len(c2s) <= MaxPackets

\* The server can authenticate and decompress every packet a conforming
\* client sends: across key exchanges, strict sequence resets and the start
\* of delayed compression both ends switch at the same packet (getPacket,
\* ssh_NEWKEYS, setService).
ServerDecodes ==
  c2s # << >> /\ transport = "open" => Meanings(Head(c2s)) # {"CORRUPT"}

\* And the client every packet the server writes (sendPacket, _newKeys).
ClientDecodes ==
  read < Len(out.wire) => Agrees(out.wire[read + 1], cIn)

\* No packet of a conforming client makes the server raise, disconnect, or
\* answer UNIMPLEMENTED (dispatchMessage, ssh_KEXINIT, ssh_NEWKEYS).
ClientNeverDropped ==
  [][Len(c2s') < Len(c2s) => /\ transport' = transport
                             /\ \A i \in Written' : out'.wire[i].type
                                  \notin {"DISCONNECT", "UNIMPLEMENTED"}]_sessionVars

\* No two packets of the server are encrypted with the same keys and the same
\* sequence number (the ChaCha20 nonce), although a strict connection starts
\* the numbers over at each NEWKEYS.
NoncesUnique ==
  \A i, j \in Written :
    out.wire[i].key > 0 /\ out.wire[i].key = out.wire[j].key
      /\ out.wire[i].seq = out.wire[j].seq => i = j

\* The server's first packet after its first NEWKEYS is EXT_INFO when the
\* client asked for it, as an OpenSSH server sends it (_keySetup).
ExtInfoFollowsNewKeys ==
  LET sent(n) == out.wire[n].type = "NEWKEYS"
  IN \A i \in Written \ {1} :
       offer.ext /\ sent(i - 1) /\ (\A n \in 1..(i - 2) : ~sent(n))
         => out.wire[i].type = "EXT_INFO"

\* A key exchange the client has started ends, or the connection does.
ExchangeCompletes ==
  phase = "sentInit" ~> (phase = "idle" \/ transport # "open")

\* Messages held back are written once the exchange is over.
HeldBackIsSent ==
  out.blocked # << >> ~> (out.blocked = << >> \/ transport # "open")
=============================================================================
