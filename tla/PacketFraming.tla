--------------------------- MODULE PacketFraming ---------------------------
(***************************************************************************)
(* The byte side of HoneyPotSSHTransport: what a client wrote as packets   *)
(* arrives in pieces cut anywhere, and getPacket recovers the packets.     *)
(* SSHTransport takes up where this module ends, with a packet that has    *)
(* been read.                                                              *)
(*                                                                         *)
(* Abstractions.  Bytes are counted, not looked at.  A packet is its       *)
(* header and whether its MAC and its compressed payload are good.  A      *)
(* cipher is its mode, the key exchange that keyed it, the position in its *)
(* keystream (for GCM the invocation counter) and the sequence number;     *)
(* decrypting with any other state than the sender's yields noise.  Key    *)
(* exchanges are reduced to the NEWKEYS that ends them.                    *)
(***************************************************************************)
EXTENDS Integers, Sequences

CONSTANTS
  Payloads,      \* payload lengths of packets framed by sendPacket's rule
  Crafted,       \* headers a client may write instead: pairs <<length, padding>>
  Chunks,        \* numbers of bytes a read of the network can return
  MaxPackets,    \* bound: packets of the client
  DigestSize,    \* bytes of a MAC
  Strict         \* strict key exchange was negotiated

Ciphers == {"classic", "etm", "gcm", "chacha"}
Modes   == Ciphers \cup {"plain"}      \* plain: before the first NEWKEYS
Bodies  == {"good", "forged", "garbage"}   \* forged: MAC; garbage: zlib
Aead    == {"etm", "gcm", "chacha"}    \* the length can be read on its own

MaxLength  == 1048576    \* the longest packet accepted
MaxPayload == 1000000    \* a bound below it for payloads with their padding

ASSUME FramingAssumption ==
  /\ Payloads \subseteq 1..MaxPayload /\ Crafted \subseteq Nat \X (0..255)
  /\ Chunks \subseteq Nat \ {0} /\ MaxPackets \in Nat
  /\ DigestSize \in Nat \ {0} /\ Strict \in BOOLEAN

VARIABLES
  stream,        \* the packets the client wrote
  sender,        \* where the client's next packet goes and how it is encrypted
  arrived,       \* bytes of the stream received
  consumed,      \* bytes cut off the front of self.buf since
  looping,       \* dataReceived is in its loop
  cipher,        \* the incoming cipher and incomingPacketSequence
  first,         \* self.first: header of the stored first block, or NoBlock
  packlen,       \* self._packlen
  handled,       \* payload lengths of the packets dispatched
  verdict        \* "open", or why the connection was given up

reader == <<consumed, looping, cipher, first, packlen, handled, verdict>>
vars   == <<stream, sender, arrived, reader>>

\* No first block is stored: a header that would be refused instead.
NoBlock == [length |-> MaxLength + 1, padding |-> 0]

-----------------------------------------------------------------------------
(* Formats.                                                                *)

Block(m)  == IF m \in {"plain", "chacha"} THEN 8 ELSE 16
Aad(m)    == IF m \in Aead THEN 4 ELSE 0
Tag(m)    == IF m \in {"gcm", "chacha"} THEN 16 ELSE 0
MacLen(m) == IF m \in {"classic", "etm"} THEN DigestSize ELSE 0

\* Bytes on the wire of a packet with a given length field.
WireSize(m, length) == 4 + length + Tag(m) + MacLen(m)

\* Fault: the length field counts although it is not encrypted with the rest.
FaultyLenPad(m, n) ==
  LET pad == Block(m) - ((5 + n) % Block(m))
  IN IF pad < 4 THEN pad + Block(m) ELSE pad

\* The padding sendPacket gives a payload of n bytes.
LenPad(m, n) ==
  LET pad == Block(m) - ((5 + n - Aad(m)) % Block(m))
  IN IF pad < 4 THEN pad + Block(m) ELSE pad

\* Fault: the length is computed, as if every header made sense.
FaultyPayloadLen(h) == h.length - h.padding - 1

\* The length of packet[5:-padding], where -0 is 0.
PayloadLen(h) == IF h.padding = 0 \/ h.length < h.padding + 1
                 THEN 0 ELSE h.length - h.padding - 1

\* The cipher after n bytes under a CTR keystream.
Advance(c, n) == IF c.mode \in {"classic", "etm"} THEN [c EXCEPT !.pos = @ + n]
                 ELSE c

\* The cipher NEWKEYS brings, its own number having been counted.
Rekeyed(c, m) == [ mode |-> m, key |-> c.key + 1, pos |-> 0,
                   seq |-> IF Strict THEN 0 ELSE c.seq ]

-----------------------------------------------------------------------------
(* The client.                                                             *)

\* The client's cipher after a packet of the given length.
Encrypted(c, length) ==
  LET used == IF c.mode = "classic" THEN 4 + length
              ELSE IF c.mode = "etm" THEN length
              ELSE IF c.mode = "gcm" THEN 1 ELSE 0
  IN [mode |-> c.mode, key |-> c.key, pos |-> c.pos + used, seq |-> c.seq + 1]

\* The fate of a packet, were it there in one piece.
Judge(p) ==
  LET m == p.enc.mode
      ragged == IF m \in Aead THEN p.length < 5 \/ p.length % Block(m) # 0
                ELSE (p.length + 4) % Block(m) # 0
  IN IF p.length > MaxLength /\ m \notin Aead THEN "bad_length"
     ELSE IF p.length > MaxLength \/ (ragged /\ m \in Aead) THEN "corrupt"
     ELSE IF ragged THEN "bad_mod"
     ELSE IF p.body = "forged" THEN IF m = "gcm" THEN "bad_decryption" ELSE "bad_MAC"
     ELSE IF p.body = "garbage" THEN "compression_error" ELSE "open"

Acceptable(i) == Judge(stream[i]) = "open"

Write(length, padding, body, next, proper) ==
  LET p == [ length |-> length, padding |-> padding, body |-> body,
             next |-> next, proper |-> proper, at |-> sender.at,
             enc |-> sender.enc ]
      c == Encrypted(sender.enc, length)
  IN /\ stream' = Append(stream, p)
     /\ sender' = [ at  |-> sender.at + WireSize(sender.enc.mode, length),
                    enc |-> IF next = "same" THEN c ELSE Rekeyed(c, next) ]

\* A packet framed as sendPacket frames it; NEWKEYS is one byte.  Nothing the
\* client sends behind a packet that is refused is ever read.
ClientSends ==
  /\ Len(stream) < MaxPackets
  /\ \A i \in 1..Len(stream) : Acceptable(i)
  /\ LET m == sender.enc.mode
         bodies == IF m = "plain" THEN {"good"} ELSE Bodies
         Proper(n, body, next) ==
           Write(n + LenPad(m, n) + 1, LenPad(m, n), body, next, TRUE)
     IN \/ \E n \in Payloads, b \in bodies : Proper(n, b, "same")
        \/ \E next \in Ciphers : Proper(1, "good", next)
        \/ \E h \in Crafted : Write(h[1], h[2], "good", "same", FALSE)
  /\ UNCHANGED <<arrived, reader>>

\* A piece of the stream, or all that is left of it.
DataReceived(n) ==
  /\ verdict = "open" /\ ~looping
  /\ arrived < sender.at
  /\ arrived' = IF arrived + n < sender.at THEN arrived + n ELSE sender.at
  /\ looping' = TRUE
  /\ UNCHANGED <<stream, sender, consumed, cipher, first, packlen, handled, verdict>>

-----------------------------------------------------------------------------
(* getPacket.                                                              *)

Buffered == arrived - consumed
Current  == stream[Len(handled) + 1]
Header   == [length |-> Current.length, padding |-> Current.padding]

\* c is the state the packet at the front of the buffer was encrypted with.
InStep(c) == /\ Len(handled) < Len(stream)
             /\ Current.at = consumed /\ Current.enc = c

\* What decrypting the front of the buffer yields: the header sent, or noise,
\* which is taken for a length no packet has.
Noise == [length |-> MaxLength + 1, padding |-> 0]
Decrypted == IF InStep(cipher) THEN Header ELSE Noise

\* Whether authentication fails.
Forged == ~InStep(cipher) \/ Current.body = "forged"

\* getPacket returns None: the packet is not complete.
Wait(f, c, l) ==
  /\ looping' = FALSE /\ first' = f /\ cipher' = c /\ packlen' = l
  /\ UNCHANGED <<consumed, handled, verdict>>

\* getPacket gives the connection up; nothing more is read from it.
Refuse(reason) ==
  /\ looping' = FALSE /\ verdict' = reason
  /\ UNCHANGED <<consumed, cipher, first, packlen, handled>>

\* Fault: the stored length is not reset.
FaultyLengthAfter(m) == packlen

\* self._packlen after a packet.
LengthAfter(m) == IF m \in Aead THEN 0 ELSE packlen

\* Fault: one packet is read for each piece that arrives.
FaultyGoesOn(n) == FALSE

\* "while packet": a false (empty) payload ends the loop.
GoesOn(n) == n > 0

\* A packet that passed all tests: it leaves the buffer, and if its payload
\* decompresses it is dispatched.
Deliver(h, c) ==
  IF Current.body = "garbage" THEN Refuse("compression_error")
  ELSE /\ consumed' = consumed + WireSize(c.mode, h.length)
       /\ first' = NoBlock /\ packlen' = LengthAfter(c.mode)
       /\ handled' = Append(handled, PayloadLen(h))
       /\ looping' = GoesOn(PayloadLen(h))
       /\ LET counted == [c EXCEPT !.seq = @ + 1]
          IN cipher' = IF Current.next = "same" THEN counted
                       ELSE Rekeyed(counted, Current.next)
       /\ UNCHANGED verdict

\* Fault: the first block of an incomplete packet is decrypted again.
FaultyStoredBlock(h) == NoBlock

\* What _getPacketClassic keeps of an incomplete packet.
StoredBlock(h) == h

\* The tests of a complete packet once its first block was decrypted.
TakeClassic(h, c) ==
  LET m == c.mode
      whole  == (h.length + 4) % Block(m) = 0
      forged == MacLen(m) > 0 /\ Current.body = "forged"
  IN \/ ~whole /\ Refuse("bad_mod")
     \/ whole /\ forged /\ Refuse("bad_MAC")
     \/ whole /\ ~forged /\ Deliver(h, Advance(c, 4 + h.length - Block(m)))

\* _getPacketClassic and _getPacketClassicCustom: the first block has to be
\* decrypted to learn the length, and is decrypted once.
GetPacketClassic ==
  LET m == cipher.mode
      h == IF first = NoBlock THEN Decrypted ELSE first
      c == IF first = NoBlock THEN Advance(cipher, Block(m)) ELSE cipher
  IN \/ /\ Buffered < Block(m)
        /\ Wait(first, cipher, packlen)
     \/ /\ Buffered >= Block(m)
        /\ \/ h.length > MaxLength /\ Refuse("bad_length")
           \/ /\ h.length <= MaxLength /\ Buffered < WireSize(m, h.length)
              /\ Wait(StoredBlock(h), c, packlen)
           \/ /\ h.length <= MaxLength /\ Buffered >= WireSize(m, h.length)
              /\ TakeClassic(h, c)

\* The tests of a complete packet of known length.  The library of GCM raises
\* another exception than the one taken for a bad MAC.
TakeAead(length) ==
  LET m == cipher.mode
      used == IF m = "gcm" THEN [cipher EXCEPT !.pos = @ + 1]
              ELSE Advance(cipher, length)
  IN \/ Forged /\ Refuse(IF m = "gcm" THEN "bad_decryption" ELSE "bad_MAC")
     \/ ~Forged /\ Deliver([length |-> length, padding |-> Current.padding], used)

\* The lengths getPacket accepts from peek_length.
InRange(length) == length \in 5..MaxLength

\* getPacket for ciphers with aad_len: the length is read without advancing
\* the cipher, and kept in _packlen until the packet is complete.
GetPacketAead ==
  LET m == cipher.mode
      length == IF packlen = 0 THEN Decrypted.length ELSE packlen
  IN \/ /\ packlen = 0 /\ Buffered < Aad(m)
        /\ Wait(first, cipher, packlen)
     \/ /\ packlen = 0 /\ Buffered >= Aad(m) /\ ~InRange(length)
        /\ Refuse("corrupt")
     \/ /\ packlen # 0 \/ (Buffered >= Aad(m) /\ InRange(length))
        /\ \/ length % Block(m) # 0 /\ Refuse("corrupt")
           \/ /\ length % Block(m) = 0 /\ Buffered < WireSize(m, length)
              /\ Wait(first, cipher, length)
           \/ /\ length % Block(m) = 0 /\ Buffered >= WireSize(m, length)
              /\ TakeAead(length)

GetPacket ==
  /\ looping
  /\ IF cipher.mode \in Aead THEN GetPacketAead ELSE GetPacketClassic
  /\ UNCHANGED <<stream, sender, arrived>>

-----------------------------------------------------------------------------
Plain == [mode |-> "plain", key |-> 0, pos |-> 0, seq |-> 0]

Init ==
  /\ stream = << >> /\ sender = [at |-> 0, enc |-> Plain]
  /\ arrived = 0 /\ consumed = 0 /\ looping = FALSE
  /\ cipher = Plain /\ first = NoBlock /\ packlen = 0
  /\ handled = << >> /\ verdict = "open"

\* The client is silent, or nothing more is read from it.
Idle == /\ ~looping /\ (arrived = sender.at \/ verdict # "open")
        /\ UNCHANGED vars

Next ==
  \/ ClientSends
  \/ \E n \in Chunks : DataReceived(n)
  \/ GetPacket
  \/ Idle

Spec == Init /\ [][Next]_vars

-----------------------------------------------------------------------------
(* Properties.                                                             *)

CipherState == [mode : Modes, key : Nat, pos : Nat, seq : Nat]
PacketType == [ length : Nat, padding : Nat, body : Bodies,
                next : Ciphers \cup {"same"}, proper : BOOLEAN,
                at : Nat, enc : CipherState ]

\* Every variable has a value the code can give it.
TypeOK ==
  /\ stream \in Seq(PacketType)
  /\ sender \in [at : Nat, enc : CipherState]
  /\ arrived \in Nat /\ consumed \in Nat /\ looping \in BOOLEAN
  /\ cipher \in CipherState
  /\ first \in [length : Nat, padding : Nat] /\ packlen \in Nat
  /\ handled \in Seq(Nat)
  /\ verdict \in {"open", "bad_length", "bad_mod", "bad_MAC", "corrupt",
                  "bad_decryption", "compression_error"}

\* Where the n-th packet of the stream starts and how it is encrypted.
Place(n) == IF n <= Len(stream)
            THEN [at |-> stream[n].at, enc |-> stream[n].enc] ELSE sender

\* What is stored between two calls of getPacket, f for first, l for packlen
\* and c for the cipher, fits the packet at hand.
Fits(f, c, l) ==
  LET here  == Place(Len(handled) + 1).enc
      begun == Len(handled) < Len(stream)
  IN /\ c = IF f = NoBlock THEN here ELSE Advance(here, Block(here.mode))
     /\ f # NoBlock => begun /\ f = Header /\ c.mode \notin Aead
     /\ l # 0 => begun /\ l = Current.length /\ InRange(l) /\ c.mode \in Aead

\* While the connection is up the reader is where the client was: the buffer
\* starts with a packet, the cipher is the one that packet was encrypted with,
\* ahead of it by the stored first block if there is one, and what is stored
\* (self.first, _packlen) belongs to that packet and to no other, whatever
\* pieces it came in and whatever keys came in between.
ReaderInStep ==
  verdict = "open" => /\ Len(handled) <= Len(stream)
                      /\ consumed = Place(Len(handled) + 1).at
                      /\ Fits(first, cipher, packlen)

\* No complete acceptable packet is left in the buffer when dataReceived returns, so no
\* answer waits for input that need not come.  The exception is the loop's:
\* a packet without payload ends it, whatever is behind.
NothingWaits ==
  LET pending == /\ verdict = "open" /\ ~looping
                 /\ Len(handled) < Len(stream) /\ Acceptable(Len(handled) + 1)
  IN pending => \/ Buffered < WireSize(Current.enc.mode, Current.length)
                \/ Len(handled) > 0 /\ handled[Len(handled)] = 0

\* A packet framed and padded by sendPacket's rule is never refused for its
\* length, in any mode: the block and the range getPacket insists on are the
\* ones sendPacket keeps, with the length encrypted or not.
OwnFramingAccepted ==
  verdict \in {"bad_length", "bad_mod", "corrupt"} => ~Current.proper

\* The transport reads packets as if each had arrived whole: what is handled,
\* and why the connection is given up, do not depend on where the stream was
\* cut, on how many packets were in a piece, or on the keys that changed
\* between two of them.
Whole == INSTANCE WholePackets WITH
  sent    <- stream,
  Payload <- PayloadLen

ImplementsWholePackets == Whole!WholeSpec
=============================================================================
