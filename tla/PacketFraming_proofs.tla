------------------------ MODULE PacketFraming_proofs ------------------------
(***************************************************************************)
(* Theorems about PacketFraming, for any sizes of payloads, headers and    *)
(* pieces: the padding rule, that the reader stays in step with the        *)
(* client, that the packets come out as if each had arrived whole, and     *)
(* that the transport reads what its own rule frames.                      *)
(***************************************************************************)
EXTENDS PacketFraming, TLAPS

-----------------------------------------------------------------------------
(* Padding.                                                                *)

\* sendPacket pads every payload with 4 to Block + 3 bytes, and what is
\* encrypted is a whole number of blocks.
THEOREM PaddingRule ==
  ASSUME NEW m \in Modes, NEW n \in Nat
  PROVE  /\ LenPad(m, n) \in 4..(Block(m) + 3)
         /\ (5 + n + LenPad(m, n) - Aad(m)) % Block(m) = 0
<1>1. CASE m = "plain"
  BY <1>1 DEF LenPad, Block, Aad, Aead
<1>2. CASE m = "classic"
  BY <1>2 DEF LenPad, Block, Aad, Aead
<1>3. CASE m \in {"etm", "gcm"}
  BY <1>3 DEF LenPad, Block, Aad, Aead
<1>4. CASE m = "chacha"
  BY <1>4 DEF LenPad, Block, Aad, Aead
<1> QED BY <1>1, <1>2, <1>3, <1>4 DEF Modes, Ciphers

-----------------------------------------------------------------------------
(* The inductive invariant.                                                *)

PlaceType == [at : Nat, enc : CipherState]

\* Where the packet behind p starts, and how it is encrypted.
After(p) ==
  LET c == Encrypted(p.enc, p.length)
  IN [ at  |-> p.at + WireSize(p.enc.mode, p.length),
       enc |-> IF p.next = "same" THEN c ELSE Rekeyed(c, p.next) ]

\* p is framed by sendPacket's rule.
ProperHeader(p) ==
  \E n \in 1..MaxPayload : p.length = n + LenPad(p.enc.mode, n) + 1

\* The stream is gapless, and the client's own.
StreamInv ==
  \A i \in 1..Len(stream) :
    /\ Place(i + 1) = After(stream[i])
    /\ stream[i].enc.mode = "plain" => stream[i].body = "good"
    /\ stream[i].proper => ProperHeader(stream[i])

CursorInv == /\ consumed <= arrived /\ arrived <= sender.at
             /\ looping => verdict = "open"

\* The connection is given up for what is wrong with the packet at hand.
RefusedInv == verdict # "open" => /\ Len(handled) < Len(stream)
                                  /\ verdict = Judge(Current)

FramingInv == /\ TypeOK /\ StreamInv /\ CursorInv /\ ReaderInStep /\ RefusedInv
              /\ NothingWaits

-----------------------------------------------------------------------------
(* Types of the helpers.                                                   *)

LEMMA Limits == MaxLength \in Nat /\ MaxPayload \in Nat \ {0} /\ MaxPayload + 64 < MaxLength
BY SMT DEF MaxLength, MaxPayload

LEMMA SizeType ==
  ASSUME NEW m \in Modes, NEW n \in Nat
  PROVE  /\ WireSize(m, n) \in Nat /\ WireSize(m, n) >= 4 + n
         /\ Block(m) \in {8, 16} /\ MacLen(m) \in Nat
BY FramingAssumption DEF WireSize, Block, MacLen, Tag

LEMMA CipherTypes ==
  ASSUME NEW c \in CipherState, NEW n \in Nat
  PROVE  /\ Advance(c, n) \in CipherState
         /\ Encrypted(c, n) \in CipherState
         /\ [c EXCEPT !.seq = @ + 1] \in CipherState
         /\ [c EXCEPT !.pos = @ + 1] \in CipherState
         /\ \A m \in Ciphers : Rekeyed(c, m) \in CipherState
         /\ Advance(c, n).mode = c.mode
<1>1. Advance(c, n) \in CipherState /\ Advance(c, n).mode = c.mode
  BY DEF Advance, CipherState, Modes, Ciphers
<1>2. Encrypted(c, n) \in CipherState
  <2>1. CASE c.mode = "classic"
    BY <2>1 DEF Encrypted, CipherState
  <2>2. CASE c.mode = "etm"
    BY <2>2 DEF Encrypted, CipherState
  <2>3. CASE c.mode = "gcm"
    BY <2>3 DEF Encrypted, CipherState
  <2>4. CASE c.mode \notin {"classic", "etm", "gcm"}
    BY <2>4 DEF Encrypted, CipherState
  <2> QED BY <2>1, <2>2, <2>3, <2>4
<1>3. /\ [c EXCEPT !.seq = @ + 1] \in CipherState
      /\ [c EXCEPT !.pos = @ + 1] \in CipherState
  BY DEF CipherState
<1>4. \A m \in Ciphers : Rekeyed(c, m) \in CipherState
  BY DEF Rekeyed, CipherState, Modes
<1> QED BY <1>1, <1>2, <1>3, <1>4

LEMMA PayloadType ==
  ASSUME NEW p, p.length \in Nat, p.padding \in Nat
  PROVE  PayloadLen(p) \in Nat
BY DEF PayloadLen

LEMMA AfterType ==
  ASSUME NEW p \in PacketType
  PROVE  After(p) \in PlaceType
<1>1. p.enc \in CipherState /\ p.enc.mode \in Modes /\ p.length \in Nat /\ p.at \in Nat
  BY DEF PacketType, CipherState
<1>2. Encrypted(p.enc, p.length) \in CipherState
  BY <1>1, CipherTypes
<1>3. p.next # "same" => Rekeyed(Encrypted(p.enc, p.length), p.next) \in CipherState
  BY <1>2, CipherTypes DEF PacketType
<1>4. WireSize(p.enc.mode, p.length) \in Nat
  BY <1>1, SizeType
<1> QED BY <1>1, <1>2, <1>3, <1>4 DEF After, PlaceType, PacketType

LEMMA StateTypes ==
  ASSUME FramingInv
  PROVE  /\ stream \in Seq(PacketType) /\ Len(stream) \in Nat
         /\ handled \in Seq(Nat) /\ Len(handled) \in Nat
         /\ sender.at \in Nat /\ sender.enc \in CipherState
         /\ arrived \in Nat /\ consumed \in Nat
<1>1. stream \in Seq(PacketType) /\ handled \in Seq(Nat)
  BY DEF FramingInv, TypeOK
<1>2. sender.at \in Nat /\ sender.enc \in CipherState
  BY DEF FramingInv, TypeOK
<1>3. arrived \in Nat /\ consumed \in Nat
  BY DEF FramingInv, TypeOK
<1> QED BY <1>1, <1>2, <1>3

-----------------------------------------------------------------------------
(* The reader against the front of the buffer.                             *)

LEMMA FrontPresent ==
  ASSUME FramingInv, verdict = "open", Len(handled) < Len(stream)
  PROVE  /\ Len(handled) + 1 \in 1..Len(stream)
         /\ Current = stream[Len(handled) + 1] /\ Current \in PacketType
         /\ consumed = Current.at
         /\ Place(Len(handled) + 1) = [at |-> Current.at, enc |-> Current.enc]
         /\ Current.enc.mode \in Modes
<1>1. Len(handled) + 1 \in 1..Len(stream)
  <2>1. Len(handled) \in Nat /\ Len(stream) \in Nat
    BY DEF FramingInv, TypeOK
  <2> QED BY <2>1
<1>2. Current \in PacketType
  <2>1. stream \in Seq(PacketType)
    BY DEF FramingInv, TypeOK
  <2> QED BY <1>1, <2>1 DEF Current
<1>3. Place(Len(handled) + 1) = [at |-> Current.at, enc |-> Current.enc]
  BY <1>1 DEF Place, Current
<1>4. consumed = Current.at
  BY <1>3 DEF FramingInv, ReaderInStep
<1> QED BY <1>1, <1>2, <1>3, <1>4 DEF Current, PacketType, CipherState

\* A non-empty buffer starts with a packet.
LEMMA NonEmpty ==
  ASSUME FramingInv, verdict = "open", Buffered > 0
  PROVE  Len(handled) < Len(stream)
<1>1. Len(handled) \in Nat /\ Len(stream) \in Nat /\ Len(handled) <= Len(stream)
  BY DEF FramingInv, TypeOK, ReaderInStep
<1>2. SUFFICES ASSUME Len(handled) = Len(stream) PROVE FALSE
  BY <1>1
<1>3. Place(Len(handled) + 1) = sender
  BY <1>1, <1>2 DEF Place
<1>4. consumed = sender.at
  BY <1>3 DEF FramingInv, ReaderInStep
<1>5. sender.at \in Nat /\ arrived \in Nat /\ arrived <= sender.at
  BY DEF FramingInv, TypeOK, CursorInv
<1> QED BY <1>4, <1>5 DEF Buffered

-----------------------------------------------------------------------------
(* What a call of getPacket can do.                                        *)

\* If the packet at hand is acceptable, part of it is still to come.
Incomplete ==
  Len(handled) < Len(stream) /\ Judge(Current) = "open"
    => Buffered < WireSize(Current.enc.mode, Current.length)

WaitStep == /\ looping' = FALSE /\ Fits(first', cipher', packlen') /\ Incomplete
            /\ UNCHANGED <<consumed, handled, verdict>>

RefuseStep == /\ Len(handled) < Len(stream) /\ Judge(Current) # "open"
              /\ Refuse(Judge(Current))

DeliverStep ==
  /\ Len(handled) < Len(stream) /\ Judge(Current) = "open"
  /\ handled' = Append(handled, PayloadLen(Current))
  /\ consumed' = After(Current).at /\ cipher' = After(Current).enc
  /\ first' = NoBlock /\ packlen' = 0 /\ looping' = (PayloadLen(Current) > 0)
  /\ consumed' <= arrived
  /\ UNCHANGED verdict

\* A packet that passed all tests, c being the cipher after it.
LEMMA DeliverWhole ==
  ASSUME FramingInv, verdict = "open", Len(handled) < Len(stream),
         NEW h, h.length = Current.length, h.padding = Current.padding,
         NEW c \in CipherState,
         Encrypted(Current.enc, Current.length) = [c EXCEPT !.seq = @ + 1],
         c.mode = Current.enc.mode,
         Current.body # "garbage", Judge(Current) = "open",
         Buffered >= WireSize(c.mode, h.length),
         packlen = 0 \/ c.mode \in Aead,
         Deliver(h, c)
  PROVE  DeliverStep
<1>1. PayloadLen(h) = PayloadLen(Current)
  BY DEF PayloadLen
<1>2. consumed' = After(Current).at
  BY FrontPresent DEF Deliver, After
<1>3. cipher' = After(Current).enc
  BY DEF Deliver, After
<1>4. consumed' <= arrived
  <2>1. /\ consumed \in Nat /\ arrived \in Nat
        /\ WireSize(c.mode, h.length) \in Nat
    BY FrontPresent, SizeType DEF FramingInv, TypeOK, PacketType
  <2>2. consumed' = consumed + WireSize(c.mode, h.length)
    BY DEF Deliver
  <2> QED BY <2>1, <2>2 DEF Buffered
<1>5. packlen' = 0
  BY DEF Deliver, LengthAfter
<1> QED BY <1>1, <1>2, <1>3, <1>4, <1>5 DEF Deliver, DeliverStep, GoesOn
\* Reading the first block of a packet leaves the cipher where the rest begins.
LEMMA ClassicFront ==
  ASSUME FramingInv, verdict = "open", cipher.mode \notin Aead,
         Len(handled) < Len(stream)
  PROVE  /\ (IF first = NoBlock THEN Decrypted ELSE first) = Header
         /\ (IF first = NoBlock THEN Advance(cipher, Block(cipher.mode)) ELSE cipher)
              = Advance(Current.enc, Block(cipher.mode))
         /\ cipher.mode = Current.enc.mode /\ packlen = 0
<1> DEFINE here == Place(Len(handled) + 1).enc
<1>1. here = Current.enc /\ consumed = Current.at /\ here \in CipherState
  BY FrontPresent DEF PacketType
<1>2. Fits(first, cipher, packlen)
  BY DEF FramingInv, ReaderInStep
<1>3. packlen = 0
  BY <1>2 DEF Fits
<1>4. Block(here.mode) \in Nat
  BY DEF Block
<1>5. CASE first = NoBlock
  <2>1. cipher = Current.enc
    BY <1>1, <1>2, <1>5 DEF Fits
  <2>2. InStep(cipher)
    BY <1>1, <2>1 DEF InStep
  <2> QED BY <1>3, <1>5, <2>1, <2>2 DEF Decrypted
<1>6. CASE first # NoBlock
  <2>1. cipher = Advance(here, Block(here.mode)) /\ first = Header
    BY <1>2, <1>6 DEF Fits
  <2>2. cipher.mode = here.mode
    BY <1>1, <1>4, <2>1, CipherTypes
  <2> QED BY <1>1, <1>3, <1>6, <2>1, <2>2
<1> QED BY <1>5, <1>6

\* The two classic variants of getPacket.
LEMMA ClassicStep ==
  ASSUME FramingInv, verdict = "open", cipher.mode \notin Aead,
         GetPacketClassic
  PROVE  WaitStep \/ RefuseStep \/ DeliverStep
<1> DEFINE m == cipher.mode
           h == IF first = NoBlock THEN Decrypted ELSE first
           c == IF first = NoBlock THEN Advance(cipher, Block(m)) ELSE cipher
<1> DEFINE Tests ==
      \/ h.length > MaxLength /\ Refuse("bad_length")
      \/ /\ h.length <= MaxLength /\ Buffered < WireSize(m, h.length)
         /\ Wait(StoredBlock(h), c, packlen)
      \/ /\ h.length <= MaxLength /\ Buffered >= WireSize(m, h.length)
         /\ TakeClassic(h, c)
<1>0. \/ Buffered < Block(m) /\ Wait(first, cipher, packlen)
      \/ Buffered >= Block(m) /\ Tests
  BY GetPacketClassic DEF GetPacketClassic
<1>1. CASE Buffered < Block(m) /\ Wait(first, cipher, packlen)
  <2>1. ASSUME Len(handled) < Len(stream), Judge(Current) = "open"
        PROVE  Buffered < WireSize(Current.enc.mode, Current.length)
    <3>1. m = Current.enc.mode /\ Current.length \in Nat /\ m \in Modes
      BY <2>1, ClassicFront, FrontPresent DEF PacketType
    <3>2. (Current.length + 4) % Block(m) = 0
      BY <2>1, <3>1 DEF Judge
    <3>3. Block(m) \in {8, 16} /\ WireSize(m, Current.length) >= 4 + Current.length
      BY <3>1, SizeType
    <3>4. 4 + Current.length >= Block(m)
      BY <3>1, <3>2, <3>3
    <3>5. Buffered \in Int /\ WireSize(m, Current.length) \in Nat
      <4>1. arrived \in Nat /\ consumed \in Nat
        BY StateTypes
      <4>2. WireSize(m, Current.length) \in Nat
        BY <3>1, SizeType
      <4> QED BY <4>1, <4>2 DEF Buffered
    <3> QED BY <1>1, <3>1, <3>3, <3>4, <3>5
  <2> QED BY <1>1, <2>1 DEF Wait, WaitStep, Incomplete, FramingInv, ReaderInStep
<1>2. CASE Buffered >= Block(m) /\ Tests
  <2>0. m \in Modes /\ Buffered \in Int /\ Block(m) \in {8, 16}
    BY SizeType DEF FramingInv, TypeOK, CipherState, Buffered, Block
  <2>1. Len(handled) < Len(stream)
    <3> HIDE DEF Tests
    <3>1. Buffered > 0
      BY <1>2, <2>0
    <3> QED BY <3>1, NonEmpty
  <2>2. /\ h = Header /\ c = Advance(Current.enc, Block(m))
        /\ m = Current.enc.mode /\ packlen = 0
    BY <2>1, ClassicFront
  <2>3. /\ Current \in PacketType /\ Current.enc \in CipherState
        /\ Current.length \in Nat /\ Header.length = Current.length
        /\ Header.padding = Current.padding
    BY <2>1, FrontPresent DEF PacketType, Header
  <2>a. c \in CipherState /\ c.mode = m
    <3>1. /\ Advance(Current.enc, Block(m)) \in CipherState
          /\ Advance(Current.enc, Block(m)).mode = Current.enc.mode
      BY <2>0, <2>3 DEF Advance, CipherState
    <3> QED BY <2>2, <3>1
  <2>4. CASE h.length > MaxLength /\ Refuse("bad_length")
    <3>1. Judge(Current) = "bad_length"
      BY <2>2, <2>3, <2>4 DEF Judge
    <3> QED BY <2>1, <2>4, <3>1 DEF RefuseStep
  <2>5. CASE /\ h.length <= MaxLength /\ Buffered < WireSize(m, h.length)
             /\ Wait(StoredBlock(h), c, packlen)
    <3>1. h # NoBlock
      BY Limits, <2>2, <2>3, <2>5 DEF NoBlock
    <3>2. c.mode = m
      BY <2>a
    <3>3. Place(Len(handled) + 1).enc = Current.enc
      BY <2>1, FrontPresent
    <3>4. Fits(h, c, packlen)
      BY <2>1, <2>2, <3>1, <3>2, <3>3 DEF Fits
    <3>5. Buffered < WireSize(Current.enc.mode, Current.length)
      BY <2>2, <2>3, <2>5
    <3> HIDE DEF h, c
    <3> QED BY <2>5, <3>4, <3>5 DEF Wait, WaitStep, Incomplete, StoredBlock
  <2>6. CASE /\ h.length <= MaxLength /\ Buffered >= WireSize(m, h.length)
             /\ TakeClassic(h, c)
    <3>1. c \in CipherState /\ c.mode = m
      BY <2>a
    <3>2. Current.body = "forged" <=> MacLen(m) > 0 /\ Current.body = "forged"
      <4>1. m = "plain" => Current.body = "good"
        BY <2>1, <2>2, FrontPresent DEF FramingInv, StreamInv
      <4>2. m # "plain" => m = "classic"
        BY <2>0 DEF Modes, Ciphers, Aead
      <4> QED BY <4>1, <4>2, FramingAssumption DEF MacLen
    <3> DEFINE ragged == (Current.length + 4) % Block(m) # 0
    <3>3. /\ m \notin Aead /\ ~(Current.length > MaxLength)
      BY Limits, <2>2, <2>3, <2>6
    <3>4. CASE ragged /\ Refuse("bad_mod")
      <4>1. Judge(Current) = "bad_mod"
        BY <2>2, <3>3, <3>4 DEF Judge
      <4> QED BY <2>1, <3>4, <4>1 DEF RefuseStep
    <3>5. CASE ~ragged /\ Current.body = "forged" /\ Refuse("bad_MAC")
      <4>1. Judge(Current) = "bad_MAC"
        BY <2>2, <3>3, <3>5 DEF Judge, Aead
      <4> QED BY <2>1, <3>5, <4>1 DEF RefuseStep
    <3>6. CASE /\ ~ragged /\ Current.body # "forged"
               /\ Deliver(h, Advance(c, 4 + h.length - Block(m)))
      <4> DEFINE d == Advance(c, 4 + h.length - Block(m))
      <4>1. CASE Current.body = "garbage"
        <5>1. Judge(Current) = "compression_error"
          BY <2>2, <3>3, <3>6, <4>1 DEF Judge
        <5>2. Refuse("compression_error")
          BY <3>6, <4>1 DEF Deliver
        <5> QED BY <2>1, <5>1, <5>2 DEF RefuseStep
      <4>2. CASE Current.body # "garbage"
        <5>1. Judge(Current) = "open"
          BY <2>2, <3>3, <3>6, <4>2 DEF Judge
        <5>2. d = [Current.enc EXCEPT !.pos = IF m = "classic"
                     THEN @ + 4 + Current.length ELSE @]
          BY <2>0, <2>2, <2>3, <3>3 DEF Advance, CipherState, Modes, Ciphers, Aead
        <5>3. d \in CipherState /\ d.mode = Current.enc.mode
          BY <5>2, <2>2, <2>3 DEF CipherState
        <5>4. Encrypted(Current.enc, Current.length) = [d EXCEPT !.seq = @ + 1]
          BY <5>2, <2>2, <2>3, <3>3 DEF Encrypted, CipherState, Aead
        <5>5. h.length = Current.length /\ h.padding = Current.padding
          BY <2>2, <2>3
        <5>6. Buffered >= WireSize(d.mode, h.length) /\ Deliver(h, d) /\ packlen = 0
          BY <2>2, <2>6, <3>6, <5>3
        <5> HIDE DEF d, h
        <5> QED BY <2>1, <4>2, <5>1, <5>3, <5>4, <5>5, <5>6, DeliverWhole
      <4> QED BY <4>1, <4>2
    <3> HIDE DEF h, c
    <3>7. TakeClassic(h, c)
      BY <2>6
    <3> QED BY <2>2, <2>3, <3>1, <3>2, <3>4, <3>5, <3>6, <3>7 DEF TakeClassic
  <2> QED BY <1>2, <2>4, <2>5, <2>6
<1> HIDE DEF Tests
<1> QED BY <1>0, <1>1, <1>2
\* The length getPacket works with is the packet's, read now or before.
LEMMA AeadFront ==
  ASSUME FramingInv, verdict = "open", cipher.mode \in Aead,
         packlen # 0 \/ Len(handled) < Len(stream)
  PROVE  /\ Len(handled) < Len(stream) /\ InStep(cipher) /\ first = NoBlock
         /\ cipher = Current.enc
         /\ (IF packlen = 0 THEN Decrypted.length ELSE packlen) = Current.length
<1>1. Fits(first, cipher, packlen)
  BY DEF FramingInv, ReaderInStep
<1>2. Len(handled) < Len(stream) /\ first = NoBlock
  BY <1>1 DEF Fits
<1>3. cipher = Current.enc /\ consumed = Current.at
  BY <1>1, <1>2, FrontPresent DEF Fits
<1>4. InStep(cipher)
  BY <1>2, <1>3 DEF InStep
<1>5. (IF packlen = 0 THEN Decrypted.length ELSE packlen) = Current.length
  BY <1>1, <1>4 DEF Decrypted, Header, Fits
<1> QED BY <1>2, <1>3, <1>4, <1>5

\* getPacket for the modes whose length can be read on its own.
LEMMA AeadStep ==
  ASSUME FramingInv, verdict = "open", cipher.mode \in Aead, GetPacketAead
  PROVE  WaitStep \/ RefuseStep \/ DeliverStep
<1> DEFINE m == cipher.mode
           length == IF packlen = 0 THEN Decrypted.length ELSE packlen
<1> DEFINE Known == packlen # 0 \/ (Buffered >= Aad(m) /\ InRange(length))
           Tests == \/ length % Block(m) # 0 /\ Refuse("corrupt")
                    \/ /\ length % Block(m) = 0 /\ Buffered < WireSize(m, length)
                       /\ Wait(first, cipher, length)
                    \/ /\ length % Block(m) = 0 /\ Buffered >= WireSize(m, length)
                       /\ TakeAead(length)
<1>0. \/ packlen = 0 /\ Buffered < Aad(m) /\ Wait(first, cipher, packlen)
      \/ packlen = 0 /\ Buffered >= Aad(m) /\ ~InRange(length) /\ Refuse("corrupt")
      \/ Known /\ Tests
  BY GetPacketAead DEF GetPacketAead
<1>1. CASE packlen = 0 /\ Buffered < Aad(m) /\ Wait(first, cipher, packlen)
  <2>1. ASSUME Len(handled) < Len(stream)
        PROVE  Buffered < WireSize(Current.enc.mode, Current.length)
    <3>1. Current.enc.mode \in Modes /\ Current.length \in Nat
      BY <2>1, FrontPresent DEF PacketType
    <3>2. /\ WireSize(Current.enc.mode, Current.length) >= 4 + Current.length
          /\ WireSize(Current.enc.mode, Current.length) \in Nat
      BY <3>1, SizeType
    <3>3. Aad(m) = 4 /\ Buffered \in Int
      BY StateTypes DEF Aad, Buffered
    <3> QED BY <1>1, <3>1, <3>2, <3>3
  <2> QED BY <1>1, <2>1 DEF Wait, WaitStep, Incomplete, FramingInv, ReaderInStep
<1>2. Buffered >= Aad(m) => Len(handled) < Len(stream)
  <2>1. Aad(m) = 4 /\ Buffered \in Int
    BY DEF Aad, FramingInv, TypeOK, Buffered
  <2> QED BY <2>1, NonEmpty
<1>3. CASE /\ packlen = 0 /\ Buffered >= Aad(m) /\ ~InRange(length)
           /\ Refuse("corrupt")
  <2>1. /\ Len(handled) < Len(stream) /\ length = Current.length
        /\ m = Current.enc.mode
    BY <1>2, <1>3, AeadFront
  <2>2. Current.length \in Nat
    BY <2>1, FrontPresent DEF PacketType
  <2>3. Current.length > MaxLength \/ Current.length < 5
    BY Limits, <1>3, <2>1, <2>2 DEF InRange
  <2>4. Judge(Current) = "corrupt"
    BY <2>1, <2>3 DEF Judge
  <2> QED BY <1>3, <2>1, <2>4 DEF RefuseStep
<1>4. CASE Known /\ Tests
  <2>0. packlen # 0 \/ Len(handled) < Len(stream)
    <3> HIDE DEF Tests
    <3> QED BY <1>2, <1>4
  <2>1. /\ Len(handled) < Len(stream) /\ length = Current.length
        /\ cipher = Current.enc /\ InStep(cipher) /\ first = NoBlock
    BY <2>0, AeadFront
  <2>2. /\ Current \in PacketType /\ Current.enc \in CipherState
        /\ Current.length \in Nat
    BY <2>1, FrontPresent DEF PacketType
  <2>3. InRange(Current.length)
    <3>1. packlen # 0 => InRange(length)
      BY DEF FramingInv, ReaderInStep, Fits
    <3> HIDE DEF Tests
    <3> QED BY <1>4, <2>1, <3>1
  <2>4. Current.length <= MaxLength /\ Current.length >= 5 /\ Current.length # 0
    BY Limits, <2>2, <2>3 DEF InRange
  <2>5. CASE length % Block(m) # 0 /\ Refuse("corrupt")
    <3>1. Judge(Current) = "corrupt"
      BY <2>1, <2>2, <2>4, <2>5 DEF Judge
    <3> QED BY <2>1, <2>5, <3>1 DEF RefuseStep
  <2>6. CASE /\ length % Block(m) = 0 /\ Buffered < WireSize(m, length)
             /\ Wait(first, cipher, length)
    <3>1. Place(Len(handled) + 1).enc = Current.enc
      BY <2>1, FrontPresent
    <3>2. Fits(first, cipher, length)
      BY <2>1, <2>3, <3>1 DEF Fits
    <3>3. Buffered < WireSize(Current.enc.mode, Current.length)
      BY <2>1, <2>6
    <3> HIDE DEF length
    <3> QED BY <2>6, <3>2, <3>3 DEF Wait, WaitStep, Incomplete
  <2>7. CASE /\ length % Block(m) = 0 /\ Buffered >= WireSize(m, length)
             /\ TakeAead(length)
    <3> DEFINE used == IF m = "gcm" THEN [cipher EXCEPT !.pos = @ + 1]
                       ELSE Advance(cipher, length)
               h == [length |-> length, padding |-> Current.padding]
               reason == IF m = "gcm" THEN "bad_decryption" ELSE "bad_MAC"
    <3>1. \/ Current.body = "forged" /\ Refuse(reason)
          \/ Current.body # "forged" /\ Deliver(h, used)
      BY <2>1, <2>7 DEF TakeAead, Forged
    <3>2. /\ m = Current.enc.mode /\ Current.length % Block(m) = 0
          /\ ~(Current.length > MaxLength) /\ ~(Current.length < 5)
      BY Limits, <2>1, <2>2, <2>4, <2>7
    <3>3. CASE Current.body = "forged" /\ Refuse(reason)
      <4>1. Judge(Current) = reason
        BY <3>2, <3>3 DEF Judge
      <4>2. reason # "open"
        OBVIOUS
      <4> QED BY <2>1, <3>3, <4>1, <4>2 DEF RefuseStep
    <3>4. CASE Current.body # "forged" /\ Deliver(h, used)
      <4>1. CASE Current.body = "garbage"
        <5>1. Judge(Current) = "compression_error"
          BY <3>2, <4>1 DEF Judge
        <5>2. Refuse("compression_error")
          BY <3>4, <4>1 DEF Deliver
        <5> QED BY <2>1, <5>1, <5>2 DEF RefuseStep
      <4>2. CASE Current.body # "garbage"
        <5>1. Judge(Current) = "open"
          BY <3>2, <3>4, <4>2 DEF Judge
        <5>2. used = [Current.enc EXCEPT !.pos =
                        IF m = "gcm" THEN @ + 1
                        ELSE IF m = "etm" THEN @ + Current.length ELSE @]
          BY <2>1, <2>2 DEF Advance, CipherState, Aead
        <5>3. used \in CipherState /\ used.mode = Current.enc.mode
          BY <5>2, <2>1, <2>2 DEF CipherState
        <5>4. Encrypted(Current.enc, Current.length) = [used EXCEPT !.seq = @ + 1]
          BY <5>2, <2>1, <2>2, SMTT(30) DEF Encrypted, CipherState, Aead
        <5>5. h.length = Current.length /\ h.padding = Current.padding
          BY <2>1
        <5>6. Buffered >= WireSize(used.mode, h.length) /\ used.mode \in Aead
          BY <2>1, <2>7, <5>3
        <5>7. Deliver(h, used)
          BY <3>4
        <5> HIDE DEF used, h
        <5> QED BY <2>1, <4>2, <5>1, <5>3, <5>4, <5>5, <5>6, <5>7, DeliverWhole
      <4> QED BY <4>1, <4>2
    <3> HIDE DEF used, h, reason
    <3> QED BY <3>1, <3>3, <3>4
  <2> QED BY <1>4, <2>5, <2>6, <2>7
<1> HIDE DEF Known, Tests
<1> QED BY <1>0, <1>1, <1>3, <1>4

LEMMA GetPacketStep ==
  ASSUME FramingInv, GetPacket
  PROVE  (WaitStep \/ RefuseStep \/ DeliverStep) /\ verdict = "open"
<1>1. verdict = "open"
  BY DEF GetPacket, FramingInv, CursorInv
<1> QED BY <1>1, AeadStep, ClassicStep DEF GetPacket
-----------------------------------------------------------------------------
(* The client writes.                                                      *)

Written(p) ==
  /\ stream' = Append(stream, p) /\ sender' = After(p)
  /\ p.at = sender.at /\ p.enc = sender.enc
  /\ p.enc.mode = "plain" => p.body = "good"
  /\ p.proper => ProperHeader(p)

LEMMA WriteShape ==
  ASSUME FramingInv,
         NEW l \in Nat, NEW d \in Nat, NEW b \in Bodies,
         NEW x \in Ciphers \cup {"same"}, NEW f \in BOOLEAN,
         sender.enc.mode = "plain" => b = "good",
         f => \E n \in 1..MaxPayload : l = n + LenPad(sender.enc.mode, n) + 1,
         Write(l, d, b, x, f)
  PROVE  \E p \in PacketType : Written(p)
<1> DEFINE p == [ length |-> l, padding |-> d, body |-> b, next |-> x,
                  proper |-> f, at |-> sender.at, enc |-> sender.enc ]
<1>1. sender.at \in Nat /\ sender.enc \in CipherState
  BY DEF FramingInv, TypeOK
<1>2. p \in PacketType
  BY <1>1 DEF PacketType
<1>3. stream' = Append(stream, p) /\ sender' = After(p)
  BY DEF Write, After
<1>4. p.proper => ProperHeader(p)
  BY DEF ProperHeader
<1> QED BY <1>2, <1>3, <1>4 DEF Written

LEMMA ClientWrites ==
  ASSUME FramingInv, ClientSends
  PROVE  \E p \in PacketType : Written(p)
<1> DEFINE m == sender.enc.mode
<1>1. m \in Modes
  BY DEF FramingInv, TypeOK, CipherState
<1>2. \A n \in 1..MaxPayload : LenPad(m, n) \in Nat /\ n + LenPad(m, n) + 1 \in Nat
  BY <1>1, Limits, SizeType, PaddingRule, SMTT(30)
<1>3. ASSUME NEW n \in Payloads,
             NEW b \in (IF m = "plain" THEN {"good"} ELSE Bodies),
             Write(n + LenPad(m, n) + 1, LenPad(m, n), b, "same", TRUE)
      PROVE  \E p \in PacketType : Written(p)
  <2>1. n \in 1..MaxPayload
    BY FramingAssumption
  <2>2. b \in Bodies /\ (m = "plain" => b = "good")
    BY DEF Bodies
  <2> HIDE DEF m
  <2>3. \E k \in 1..MaxPayload : n + LenPad(m, n) + 1 = k + LenPad(m, k) + 1
    BY <2>1
  <2> QED BY <1>2, <1>3, <2>1, <2>2, <2>3, WriteShape DEF m
<1>4. ASSUME NEW x \in Ciphers,
             Write(1 + LenPad(m, 1) + 1, LenPad(m, 1), "good", x, TRUE)
      PROVE  \E p \in PacketType : Written(p)
  <2>1. 1 \in 1..MaxPayload
    BY Limits
  <2>2. \E k \in 1..MaxPayload : 1 + LenPad(m, 1) + 1 = k + LenPad(m, k) + 1
    BY <2>1
  <2> QED BY <1>2, <1>4, <2>1, <2>2, WriteShape DEF Bodies
<1>5. ASSUME NEW h \in Crafted, Write(h[1], h[2], "good", "same", FALSE)
      PROVE  \E p \in PacketType : Written(p)
  <2>1. h[1] \in Nat /\ h[2] \in Nat
    BY FramingAssumption
  <2> QED BY <1>5, <2>1, WriteShape DEF Bodies
<1> QED BY <1>3, <1>4, <1>5 DEF ClientSends

LEMMA PlacesKept ==
  ASSUME FramingInv, NEW p \in PacketType, Written(p)
  PROVE  /\ Len(stream') = Len(stream) + 1 /\ stream' \in Seq(PacketType)
         /\ \A i \in 1..Len(stream) : stream'[i] = stream[i]
         /\ stream'[Len(stream) + 1] = p
         /\ \A i \in 1..(Len(stream) + 1) : Place(i)' = Place(i)
         /\ \A i \in Nat : i = Len(stream) + 2 => Place(i)' = After(p)
<1>1. stream \in Seq(PacketType) /\ Len(stream) \in Nat
  BY StateTypes
<1>2. /\ Len(stream') = Len(stream) + 1 /\ stream' \in Seq(PacketType)
      /\ \A i \in 1..Len(stream) : stream'[i] = stream[i]
      /\ stream'[Len(stream) + 1] = p
  BY <1>1 DEF Written
<1>3. sender = [at |-> p.at, enc |-> p.enc]
  <2>1. sender \in [at : Nat, enc : CipherState]
    BY DEF FramingInv, TypeOK
  <2>2. sender = [at |-> sender.at, enc |-> sender.enc]
    BY <2>1
  <2> QED BY <2>2 DEF Written
<1>4. ASSUME NEW i \in 1..(Len(stream) + 1) PROVE Place(i)' = Place(i)
  <2>1. CASE i = Len(stream) + 1
    BY <1>1, <1>2, <1>3, <2>1 DEF Place
  <2>2. CASE i \in 1..Len(stream)
    BY <1>1, <1>2, <2>2 DEF Place
  <2> QED BY <1>1, <2>1, <2>2
<1>5. \A i \in Nat : i = Len(stream) + 2 => Place(i)' = After(p)
  BY <1>1, <1>2 DEF Place, Written
<1> QED BY <1>2, <1>4, <1>5
\* What the client writes is behind everything the reader looks at.
LEMMA WrittenKeeps ==
  ASSUME FramingInv, NEW p \in PacketType, Written(p),
         UNCHANGED <<arrived, reader>>
  PROVE  FramingInv'
<1> USE DEF reader
<1>1. Len(stream) \in Nat /\ Len(handled) \in Nat /\ arrived \in Nat
  BY StateTypes
<1>2. TypeOK'
  <2>1. sender' \in PlaceType
    BY AfterType DEF Written
  <2> QED BY <2>1, PlacesKept DEF FramingInv, TypeOK, PlaceType
<1>3. StreamInv'
  <2>1. SUFFICES ASSUME NEW i \in 1..(Len(stream) + 1)
        PROVE  /\ Place(i + 1)' = After(stream'[i])
               /\ stream'[i].enc.mode = "plain" => stream'[i].body = "good"
               /\ stream'[i].proper => ProperHeader(stream'[i])
    BY PlacesKept DEF StreamInv
  <2>2. CASE i \in 1..Len(stream)
    <3>1. stream'[i] = stream[i] /\ Place(i + 1)' = Place(i + 1)
      BY <1>1, <2>2, PlacesKept
    <3> QED BY <2>2, <3>1 DEF FramingInv, StreamInv
  <2>3. CASE i = Len(stream) + 1
    <3>1. stream'[i] = p /\ Place(i + 1)' = After(p)
      <4>1. i + 1 = Len(stream) + 2
        BY <1>1, <2>3
      <4>2. i + 1 \in Nat
        BY <1>1
      <4> QED BY <2>3, <4>1, <4>2, PlacesKept
    <3> QED BY <3>1 DEF Written
  <2> QED BY <1>1, <2>2, <2>3
<1>4. CursorInv'
  <2>1. sender'.at = p.at + WireSize(p.enc.mode, p.length) /\ p.at = sender.at
    BY DEF Written, After
  <2>2. WireSize(p.enc.mode, p.length) \in Nat /\ sender.at \in Nat
    BY SizeType DEF PacketType, CipherState, FramingInv, TypeOK
  <2> QED BY <1>1, <2>1, <2>2 DEF FramingInv, CursorInv
<1>5. Len(handled) < Len(stream) => Current' = Current /\ Header' = Header
  BY <1>1, PlacesKept DEF Current, Header
<1>6. ReaderInStep'
  <2>1. SUFFICES ASSUME verdict = "open"
        PROVE  /\ Len(handled) <= Len(stream')
               /\ consumed = Place(Len(handled) + 1)'.at
               /\ Fits(first, cipher, packlen)'
    BY DEF ReaderInStep
  <2>2. /\ Len(handled) <= Len(stream)
        /\ consumed = Place(Len(handled) + 1).at
        /\ Fits(first, cipher, packlen)
    BY <2>1 DEF FramingInv, ReaderInStep
  <2>3. Place(Len(handled) + 1)' = Place(Len(handled) + 1)
    BY <1>1, <2>2, PlacesKept
  <2>4. Fits(first, cipher, packlen)'
    BY <1>1, <1>5, <2>2, <2>3, PlacesKept DEF Fits
  <2> QED BY <1>1, <2>2, <2>3, <2>4, PlacesKept
<1>7. RefusedInv'
  BY <1>1, <1>5, PlacesKept DEF FramingInv, RefusedInv
<1>8. NothingWaits'
  <2>1. CASE Len(handled) < Len(stream)
    <3>1. stream'[Len(handled) + 1] = stream[Len(handled) + 1]
      BY <1>1, <2>1, PlacesKept
    <3> QED BY <1>5, <2>1, <3>1
          DEF FramingInv, NothingWaits, Acceptable, Buffered
  <2>2. CASE verdict = "open" /\ ~(Len(handled) < Len(stream))
    <3>1. Len(handled) = Len(stream)
      BY <1>1, <2>2 DEF FramingInv, ReaderInStep
    <3>2. Current' = p
      BY <1>1, <3>1, PlacesKept DEF Current
    <3>3. arrived = consumed
      <4>1. Place(Len(handled) + 1) = sender
        BY <1>1, <3>1 DEF Place
      <4> QED BY <1>1, <2>2, <4>1, StateTypes
            DEF FramingInv, ReaderInStep, CursorInv
    <3>4. WireSize(p.enc.mode, p.length) >= 4 /\ WireSize(p.enc.mode, p.length) \in Nat
      BY SizeType DEF PacketType, CipherState
    <3>5. Buffered' = 0
      BY <1>1, <3>3 DEF Buffered
    <3> QED BY <3>2, <3>4, <3>5 DEF NothingWaits
  <2>3. CASE verdict # "open"
    BY <2>3 DEF NothingWaits
  <2> QED BY <2>1, <2>2, <2>3
<1> QED BY <1>2, <1>3, <1>4, <1>6, <1>7, <1>8 DEF FramingInv

-----------------------------------------------------------------------------
(* The server reads.                                                       *)

LEMMA FitsTypes ==
  ASSUME FramingInv, verdict = "open", NEW f, NEW c, NEW l, Fits(f, c, l)
  PROVE  f \in [length : Nat, padding : Nat] /\ c \in CipherState /\ l \in Nat
<1>1. Place(Len(handled) + 1).enc \in CipherState
  <2>1. CASE Len(handled) < Len(stream)
    BY <2>1, FrontPresent DEF PacketType
  <2>2. CASE ~(Len(handled) < Len(stream))
    <3>1. Place(Len(handled) + 1) = sender
      BY <2>2, StateTypes DEF Place
    <3> QED BY <3>1, StateTypes
  <2> QED BY <2>1, <2>2
<1>2. Len(handled) < Len(stream) =>
        Header \in [length : Nat, padding : Nat] /\ Current.length \in Nat
  BY FrontPresent DEF Header, PacketType
<1>3. c \in CipherState
  <2>1. Block(Place(Len(handled) + 1).enc.mode) \in Nat
    BY DEF Block
  <2> QED BY <1>1, <2>1, CipherTypes DEF Fits
<1>4. NoBlock \in [length : Nat, padding : Nat]
  BY Limits DEF NoBlock
<1>5. f \in [length : Nat, padding : Nat] /\ l \in Nat
  BY <1>2, <1>4 DEF Fits
<1> QED BY <1>3, <1>5

\* A call of getPacket keeps the reader in step, or gives the connection up.
LEMMA ReadKeeps ==
  ASSUME FramingInv, GetPacket
  PROVE  FramingInv'
<1>0. UNCHANGED <<stream, sender, arrived>> /\ verdict = "open"
  BY GetPacketStep DEF GetPacket
<1>1. StreamInv' /\ \A i \in Nat : Place(i)' = Place(i)
  <2>1. \A i \in Nat : Place(i)' = Place(i)
    BY <1>0 DEF Place
  <2>2. Len(stream) \in Nat
    BY StateTypes
  <2> QED BY <1>0, <2>1, <2>2 DEF FramingInv, StreamInv
<1>2. Len(handled) \in Nat /\ Len(stream) \in Nat /\ handled \in Seq(Nat)
  BY StateTypes
<1>3. CASE WaitStep
  <2>1. TypeOK'
    <3>1. /\ first' \in [length : Nat, padding : Nat]
          /\ cipher' \in CipherState /\ packlen' \in Nat
      BY <1>0, <1>3, FitsTypes DEF WaitStep
    <3> QED BY <1>0, <1>3, <3>1 DEF FramingInv, TypeOK, WaitStep
  <2>2. ReaderInStep'
    <3>1. Place(Len(handled) + 1)' = Place(Len(handled) + 1)
      BY <1>1, <1>2, <1>3 DEF WaitStep
    <3>2. Len(handled) <= Len(stream) /\ consumed = Place(Len(handled) + 1).at
      BY <1>0 DEF FramingInv, ReaderInStep
    <3>3. Fits(first, cipher, packlen)'
      BY <1>0, <1>3, <3>1 DEF WaitStep, Fits, Current, Header
    <3> QED BY <1>0, <1>3, <3>1, <3>2, <3>3 DEF WaitStep, ReaderInStep
  <2>3. CursorInv' /\ RefusedInv'
    BY <1>0, <1>3 DEF WaitStep, FramingInv, CursorInv, RefusedInv
  <2>4. NothingWaits'
    BY <1>0, <1>3 DEF WaitStep, Incomplete, NothingWaits, Acceptable, Buffered, Current
  <2> QED BY <1>1, <2>1, <2>2, <2>3, <2>4 DEF FramingInv
<1>4. CASE RefuseStep
  <2>1. TypeOK'
    BY <1>0, <1>4 DEF FramingInv, TypeOK, RefuseStep, Refuse, Judge
  <2>2. ReaderInStep'
    BY <1>0, <1>4 DEF RefuseStep, Refuse, ReaderInStep
  <2>3. CursorInv' /\ RefusedInv'
    BY <1>0, <1>4 DEF RefuseStep, Refuse, FramingInv, CursorInv, RefusedInv, Current
  <2>4. NothingWaits'
    BY <1>4 DEF RefuseStep, Refuse, NothingWaits
  <2> QED BY <1>1, <2>1, <2>2, <2>3, <2>4 DEF FramingInv
<1>5. CASE DeliverStep
  <2> DEFINE n == Len(handled) + 1
  <2>1. /\ Len(handled') = n /\ n \in 1..Len(stream) /\ n + 1 \in Nat
        /\ Current = stream[n] /\ Current \in PacketType
    BY <1>0, <1>2, <1>5, FrontPresent DEF DeliverStep
  <2>2. Place(n + 1) = After(Current)
    BY <2>1 DEF FramingInv, StreamInv
  <2>3. After(Current) \in PlaceType
    BY <2>1, AfterType
  <2>4. TypeOK'
    <3>1. PayloadLen(Current) \in Nat
      BY <2>1, PayloadType DEF PacketType
    <3>2. handled' \in Seq(Nat)
      BY <1>2, <1>5, <3>1 DEF DeliverStep
    <3>3. NoBlock \in [length : Nat, padding : Nat]
      BY Limits DEF NoBlock
    <3>4. consumed' \in Nat /\ cipher' \in CipherState
      BY <1>5, <2>3 DEF DeliverStep, PlaceType
    <3>5. first' \in [length : Nat, padding : Nat] /\ packlen' = 0
      BY <1>5, <3>3 DEF DeliverStep
    <3>6. looping' \in BOOLEAN /\ verdict' = verdict
      BY <1>5 DEF DeliverStep
    <3> QED BY <1>0, <3>2, <3>4, <3>5, <3>6 DEF FramingInv, TypeOK
  <2>5. ReaderInStep'
    <3>1. Place(Len(handled) + 1)' = After(Current)
      <4>1. \A i \in Nat : i = n + 1 => Place(i)' = After(Current)
        BY <1>1, <2>2
      <4> QED BY <2>1, <4>1 DEF Place
    <3>2. Fits(first, cipher, packlen)'
      BY <1>5, <3>1 DEF DeliverStep, Fits
    <3>3. Len(handled') <= Len(stream')
      BY <1>0, <2>1
    <3> QED BY <1>5, <3>1, <3>2, <3>3 DEF DeliverStep, ReaderInStep
  <2>6. CursorInv' /\ RefusedInv'
    BY <1>0, <1>5 DEF DeliverStep, FramingInv, CursorInv, RefusedInv
  <2>7. NothingWaits'
    <3>1. PayloadLen(Current) \in Nat
      BY <2>1, PayloadType DEF PacketType
    <3>2. looping' = (PayloadLen(Current) > 0)
      BY <1>5 DEF DeliverStep
    <3>3. handled'[Len(handled')] = PayloadLen(Current) /\ Len(handled') > 0
      BY <1>2, <1>5, <3>1 DEF DeliverStep
    <3>4. CASE PayloadLen(Current) > 0
      BY <3>2, <3>4, Zenon DEF NothingWaits
    <3>5. CASE PayloadLen(Current) = 0
      BY <3>3, <3>5 DEF NothingWaits
    <3> QED BY <3>1, <3>4, <3>5
  <2> QED BY <1>1, <2>4, <2>5, <2>6, <2>7 DEF FramingInv
<1> QED BY <1>3, <1>4, <1>5, GetPacketStep

LEMMA ArrivalKeeps ==
  ASSUME FramingInv, NEW n \in Chunks, DataReceived(n)
  PROVE  FramingInv'
<1>1. n \in Nat /\ n > 0 /\ arrived \in Nat /\ sender.at \in Nat /\ consumed \in Nat
  BY FramingAssumption, StateTypes
<1>2. /\ arrived' \in Nat /\ arrived <= arrived' /\ arrived' <= sender.at
      /\ looping' = TRUE
  BY <1>1 DEF DataReceived
<1>3. /\ UNCHANGED <<stream, sender, consumed, cipher, first, packlen, handled,
                     verdict>>
      /\ verdict = "open"
  BY DEF DataReceived
<1>4. TypeOK'
  BY <1>2, <1>3 DEF FramingInv, TypeOK
<1>5. StreamInv'
  BY <1>3 DEF FramingInv, StreamInv, Place
<1>6. CursorInv'
  BY <1>1, <1>2, <1>3 DEF FramingInv, CursorInv
<1>7. ReaderInStep' /\ RefusedInv'
  BY <1>3 DEF FramingInv, ReaderInStep, RefusedInv, Fits, Place, Current, Header
<1>8. NothingWaits'
  BY <1>2 DEF NothingWaits
<1> QED BY <1>4, <1>5, <1>6, <1>7, <1>8 DEF FramingInv

LEMMA NothingKeeps ==
  ASSUME FramingInv, UNCHANGED vars
  PROVE  FramingInv'
<1> USE DEF vars, reader
<1>1. TypeOK' /\ CursorInv'
  BY DEF FramingInv, TypeOK, CursorInv
<1>2. StreamInv'
  BY DEF FramingInv, StreamInv, Place
<1>3. ReaderInStep' /\ RefusedInv'
  BY DEF FramingInv, ReaderInStep, RefusedInv, Fits, Place, Current, Header
<1>4. NothingWaits'
  BY DEF FramingInv, NothingWaits, Acceptable, Buffered, Current
<1> QED BY <1>1, <1>2, <1>3, <1>4 DEF FramingInv

LEMMA FramingStarts == Init => FramingInv
<1> SUFFICES ASSUME Init PROVE FramingInv
  OBVIOUS
<1>0. NoBlock \in [length : Nat, padding : Nat]
  BY Limits DEF NoBlock
<1>1. Plain \in CipherState
  BY DEF Plain, CipherState, Modes
<1>2. TypeOK
  <2>1. stream \in Seq(PacketType) /\ handled \in Seq(Nat)
    BY DEF Init
  <2>2. /\ sender \in [at : Nat, enc : CipherState] /\ cipher \in CipherState
        /\ first \in [length : Nat, padding : Nat]
    BY <1>0, <1>1 DEF Init
  <2> QED BY <2>1, <2>2 DEF Init, TypeOK
<1>3. StreamInv /\ CursorInv /\ RefusedInv
  BY DEF Init, StreamInv, CursorInv, RefusedInv
<1>4. Place(Len(handled) + 1) = sender /\ Len(handled) = 0 /\ Len(stream) = 0
  BY DEF Init, Place
<1>5. ReaderInStep
  BY <1>4 DEF Init, ReaderInStep, Fits
<1>6. NothingWaits
  BY <1>4 DEF NothingWaits
<1> QED BY <1>2, <1>3, <1>5, <1>6 DEF FramingInv

LEMMA FramingSteps == FramingInv /\ [Next]_vars => FramingInv'
<1> SUFFICES ASSUME FramingInv, [Next]_vars PROVE FramingInv'
  OBVIOUS
<1>1. CASE ClientSends
  BY <1>1, ClientWrites, WrittenKeeps DEF ClientSends
<1>2. CASE \E n \in Chunks : DataReceived(n)
  BY <1>2, ArrivalKeeps
<1>3. CASE GetPacket
  BY <1>3, ReadKeeps
<1>4. CASE Idle \/ UNCHANGED vars
  BY <1>4, NothingKeeps DEF Idle
<1> QED BY <1>1, <1>2, <1>3, <1>4 DEF Next

\* The inductive invariant holds of every behaviour.
THEOREM FramingInvariant == Spec => []FramingInv
BY FramingStarts, FramingSteps, PTL DEF Spec

-----------------------------------------------------------------------------
(* The properties.                                                         *)

\* Every variable keeps its type, whatever the client sends.
THEOREM TypeCorrect == Spec => []TypeOK
<1>1. FramingInv => TypeOK
  BY DEF FramingInv
<1> QED BY <1>1, FramingInvariant, PTL

\* dataReceived and getPacket never lose their place in the client's stream.
THEOREM StaysInStep == Spec => []ReaderInStep
<1>1. FramingInv => ReaderInStep
  BY DEF FramingInv
<1> QED BY <1>1, FramingInvariant, PTL

\* dataReceived leaves no complete acceptable packet behind, unless the one
\* before it was empty.
THEOREM NoPacketWaits == Spec => []NothingWaits
<1>1. FramingInv => NothingWaits
  BY DEF FramingInv
<1> QED BY <1>1, FramingInvariant, PTL

\* A packet framed by sendPacket's rule is not refused for its length.
LEMMA ProperAccepted ==
  ASSUME FramingInv
  PROVE  OwnFramingAccepted
<1> SUFFICES ASSUME verdict \in {"bad_length", "bad_mod", "corrupt"}, Current.proper
    PROVE  FALSE
  BY DEF OwnFramingAccepted
<1> DEFINE m == Current.enc.mode
<1>1. Len(handled) < Len(stream) /\ verdict = Judge(Current)
  BY DEF FramingInv, RefusedInv
<1>2. Len(handled) + 1 \in 1..Len(stream)
  BY <1>1, StateTypes
<1>3. ProperHeader(Current) /\ Current \in PacketType
  BY <1>2, StateTypes DEF FramingInv, StreamInv, Current
<1>4. m \in Modes /\ Current.length \in Nat
  BY <1>3 DEF PacketType, CipherState
<1>5. PICK n \in 1..MaxPayload : Current.length = n + LenPad(m, n) + 1
  BY <1>3 DEF ProperHeader
<1>6. /\ LenPad(m, n) \in 4..(Block(m) + 3) /\ n \in Nat /\ n >= 1
      /\ n <= MaxPayload /\ Block(m) \in {8, 16}
      /\ (5 + n + LenPad(m, n) - Aad(m)) % Block(m) = 0
  BY <1>4, <1>5, Limits, PaddingRule, SizeType
<1>7. ~(Current.length > MaxLength) /\ ~(Current.length < 5)
  BY <1>4, <1>5, <1>6, Limits
<1>8. CASE m \in Aead
  <2>1. Current.length = 5 + n + LenPad(m, n) - Aad(m)
    BY <1>5, <1>6, <1>8 DEF Aad
  <2>2. Current.length % Block(m) = 0
    BY <1>6, <2>1
  <2>3. Judge(Current) \notin {"bad_length", "bad_mod", "corrupt"}
    BY <1>7, <1>8, <2>2 DEF Judge
  <2> QED BY <1>1, <2>3
<1>9. CASE m \notin Aead
  <2>1. Current.length + 4 = 5 + n + LenPad(m, n) - Aad(m)
    BY <1>5, <1>6, <1>9 DEF Aad
  <2>2. (Current.length + 4) % Block(m) = 0
    BY <1>6, <2>1
  <2>3. Judge(Current) \notin {"bad_length", "bad_mod", "corrupt"}
    BY <1>7, <1>9, <2>2 DEF Judge
  <2> QED BY <1>1, <2>3
<1> QED BY <1>8, <1>9

\* The lengths sendPacket gives its packets are lengths getPacket takes.
THEOREM OwnFraming == Spec => []OwnFramingAccepted
BY ProperAccepted, FramingInvariant, PTL

\* Packets come out as if each had arrived whole, wherever the stream is cut.
THEOREM WholePacketsImplemented == Spec => ImplementsWholePackets
<1>1. Init => Whole!WholeInit
  BY DEF Init, Whole!WholeInit
<1>2. ASSUME FramingInv, [Next]_vars
      PROVE  [Whole!Send \/ Whole!Handle]_<<stream, handled, verdict>>
  <2>1. CASE ClientSends
    <3>1. PICK p \in PacketType : Written(p)
      BY <1>2, <2>1, ClientWrites
    <3>2. Whole!Send
      BY <1>2, <2>1, <3>1, PlacesKept DEF Whole!Send, ClientSends, reader
    <3> QED BY <3>2
  <2>2. CASE \E n \in Chunks : DataReceived(n)
    BY <2>2 DEF DataReceived
  <2>3. CASE GetPacket
    <3>1. UNCHANGED stream /\ verdict = "open"
      BY <1>2, <2>3, GetPacketStep DEF GetPacket
    <3>2. CASE WaitStep
      BY <3>1, <3>2 DEF WaitStep
    <3>3. CASE RefuseStep
      BY <3>1, <3>3 DEF RefuseStep, Refuse, Whole!Handle, Current
    <3>4. CASE DeliverStep
      BY <3>1, <3>4 DEF DeliverStep, Whole!Handle, Current
    <3> QED BY <1>2, <2>3, <3>2, <3>3, <3>4, GetPacketStep
  <2>4. CASE Idle \/ UNCHANGED vars
    BY <2>4 DEF Idle, vars, reader
  <2> QED BY <1>2, <2>1, <2>2, <2>3, <2>4 DEF Next
<1> QED BY <1>1, <1>2, FramingInvariant, PTL
      DEF Spec, ImplementsWholePackets, Whole!WholeSpec
=============================================================================
