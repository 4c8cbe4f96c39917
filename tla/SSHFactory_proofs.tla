-------------------------- MODULE SSHFactory_proofs --------------------------
(* Theorems about SSHFactory: what is offered, and what comes of it.       *)
EXTENDS SSHFactory, ListOps_proofs

-----------------------------------------------------------------------------
(* The choice, and the key exchanges that are supported.                   *)

\* The first name in common: none exactly if there is none, and the choice
\* does not depend on more than what is shared.
LEMMA FirstCommonIs ==
  ASSUME NEW c \in Seq(Names), NEW s
  PROVE  /\ FirstCommon(c, s) \in Names \cup {None}
         /\ FirstCommon(c, s) = None <=> ToSet(c) \cap ToSet(s) = {}
         /\ FirstCommon(c, s) # None => FirstCommon(c, s) \in ToSet(c) \cap ToSet(s)
<1> DEFINE I == {i \in 1..Len(c) : c[i] \in ToSet(s)}
           at == IF I # {} THEN Min(I) ELSE 0
<1>1. FirstCommon(c, s) = IF at = 0 THEN None ELSE c[at]
  BY DEF FirstCommon, SelectInSeq
<1>2. Len(c) \in Nat /\ DOMAIN c = 1..Len(c) /\ \A i \in 1..Len(c) : c[i] \in Names
  OBVIOUS
<1>3. None \notin Names
  BY FactoryAssumption
<1>4. CASE I = {}
  <2>1. ToSet(c) \cap ToSet(s) = {}
    BY <1>2, <1>4 DEF ToSet
  <2> QED
    BY <1>1, <1>4, <2>1
<1>5. CASE I # {}
  <2>1. \E i \in I : \A j \in I : i <= j
    <3>1. I \subseteq Nat
      OBVIOUS
    <3> HIDE DEF I
    <3> QED
      BY <1>5, <3>1, Least
  <2>2. Min(I) \in I
    <3> HIDE DEF I
    <3> QED
      BY <2>1 DEF Min
  <2>3. at = Min(I) /\ at # 0 /\ c[at] \in Names /\ c[at] \in ToSet(s) /\ c[at] \in ToSet(c)
    BY <1>2, <1>5, <2>2 DEF ToSet
  <2> HIDE DEF at, I
  <2> QED
    BY <1>1, <1>3, <2>3
<1> QED
  BY <1>4, <1>5

\* What is registered: the key exchanges of Twisted and the three groups.
LEMMA RegisteredIs ==
  /\ Registered \in Seq(Names \X Nat) /\ Len(Registered) \in Nat
  /\ DOMAIN Registered = 1..Len(Registered)
  /\ <<"g14-sha256", 8>> \in ToSet(Registered)
  /\ \A k \in ToSet(Registered) : k \in Names \X Nat /\ k[1] \notin Markers
<1> DEFINE n == Len(TwistedKex)
           K == (Names \ Markers) \X Nat
<1>1. TwistedKex \in Seq(K) /\ n \in Nat
  BY FactoryAssumption
<1>2. ExtraKex \in Seq(K) /\ Len(ExtraKex) = 3 /\ ExtraKex[1] = <<"g14-sha256", 8>>
  BY FactoryAssumption DEF ExtraKex
<1> HIDE DEF n, K
<1>3. /\ Registered \in Seq(K) /\ Len(Registered) = n + 3
      /\ Registered[n + 1] = <<"g14-sha256", 8>>
  <2>1. 1 \in 1..Len(ExtraKex) /\ Registered = TwistedKex \o ExtraKex
    BY <1>2 DEF Registered
  <2>2. \A s, t \in Seq(K) : /\ s \o t \in Seq(K) /\ Len(s \o t) = Len(s) + Len(t)
                            /\ \A i \in 1..Len(t) : (s \o t)[Len(s) + i] = t[i]
    <3> TAKE s, t \in Seq(K)
    <3> DEFINE a == Len(s)
               b == Len(t)
               u == s \o t
    <3>1. /\ a \in Nat /\ b \in Nat /\ u \in Seq(K) /\ Len(u) = a + b
          /\ \A i \in 1..(a + b) : u[i] = IF i <= a THEN s[i] ELSE t[i - a]
      BY ConcatProperties
    <3> HIDE DEF a, b, u
    <3>2. ASSUME NEW i \in 1..b PROVE u[a + i] = t[i]
      <4>1. a + i \in 1..(a + b) /\ ~(a + i <= a) /\ (a + i) - a = i
        BY <3>1
      <4> QED
        BY <3>1, <4>1
    <3> QED
      BY <3>1, <3>2 DEF a, b, u
  <2>3. /\ Registered \in Seq(K) /\ Len(Registered) = Len(TwistedKex) + Len(ExtraKex)
        /\ Registered[Len(TwistedKex) + 1] = ExtraKex[1]
    BY <1>1, <1>2, <2>1, <2>2
  <2> QED
    BY <1>2, <2>3 DEF n
<1>4. DOMAIN Registered = 1..Len(Registered) /\ \A i \in DOMAIN Registered : Registered[i] \in K
  BY <1>3
<1>5. n + 1 \in DOMAIN Registered
  BY <1>1, <1>3, <1>4
<1>6. Registered \in Seq(Names \X Nat)
  <2>1. \A i \in 1..Len(Registered) : Registered[i] \in Names \X Nat
    BY <1>4 DEF K
  <2> QED
    BY <1>3, <2>1
<1>7. Len(Registered) \in Nat /\ DOMAIN Registered = 1..Len(Registered)
  BY <1>6
<1>8. <<"g14-sha256", 8>> \in ToSet(Registered)
  BY <1>3, <1>5 DEF ToSet
<1>9. ASSUME NEW k \in ToSet(Registered) PROVE k \in Names \X Nat /\ k[1] \notin Markers
  <2>1. k \in K
    BY <1>4 DEF ToSet
  <2> QED
    BY <2>1 DEF K
<1> QED
  BY <1>6, <1>7, <1>8, <1>9

\* Sorting keeps every key exchange: the names supported are those registered.
LEMMA SupportedKexIs ==
  /\ SupportedKex \in Seq(Names)
  /\ "g14-sha256" \in ToSet(SupportedKex)
  /\ ToSet(SupportedKex) \cap Markers = {}
<1> DEFINE R == ToSet(Registered)
           key == [k \in R |-> k[2]]
           all == Sorted(Registered, key)
<1>1. Registered \in Seq(R)
  <2> DEFINE n == Len(Registered)
  <2>1. n \in Nat /\ DOMAIN Registered = 1..n /\ Registered \in Seq(Names \X Nat)
    BY RegisteredIs
  <2>2. \A i \in 1..n : Registered[i] \in R
    BY <2>1 DEF ToSet
  <2>3. [i \in 1..n |-> Registered[i]] \in Seq(R)
    <3> HIDE DEF R, n
    <3> QED
      BY <2>1, <2>2
  <2>4. Registered = [i \in 1..n |-> Registered[i]]
    BY <2>1
  <2> QED
    BY <2>3, <2>4, Zenon
<1>2. all \in Seq(R) /\ ToSet(all) = R
  <2>1. \A k \in R : key[k] \in Int
    <3>1. \A k \in R : k \in Names \X Nat
      BY RegisteredIs
    <3> HIDE DEF R
    <3> QED
      BY <3>1
  <2> HIDE DEF R, key
  <2>2. ToSet(all) = ToSet(Registered) /\ all \in Seq(R)
    BY <1>1, <2>1, SortedIs
  <2> QED
    BY <2>2 DEF R
<1>3. SupportedKex = [i \in 1..Len(all) |-> all[i][1]]
  BY DEF SupportedKex
<1> HIDE DEF all, key
<1>4. /\ Len(all) \in Nat /\ DOMAIN all = 1..Len(all)
      /\ \A i \in 1..Len(all) : all[i] \in R
  <2> HIDE DEF R
  <2> QED
    BY <1>2
<1>5. \A k \in R : k \in Names \X Nat /\ k[1] \notin Markers
  BY RegisteredIs
<1>6. SupportedKex \in Seq(Names) /\ ToSet(SupportedKex) \cap Markers = {}
  <2> HIDE DEF R
  <2> QED
    BY <1>3, <1>4, <1>5 DEF ToSet
<1>7. "g14-sha256" \in ToSet(SupportedKex)
  <2>1. <<"g14-sha256", 8>> \in ToSet(all)
    BY <1>2, RegisteredIs
  <2>2. PICK i \in 1..Len(all) : all[i] = <<"g14-sha256", 8>>
    BY <1>4, <2>1 DEF ToSet
  <2>3. SupportedKex[i] = "g14-sha256" /\ i \in DOMAIN SupportedKex
    BY <1>3, <2>2
  <2> QED
    BY <2>3 DEF ToSet
<1> QED
  BY <1>6, <1>7

-----------------------------------------------------------------------------
(* The inductive invariant.                                                *)

\* The KEXINITs the server may have sent: what it offers, with the marker of
\* strict key exchange if it is the first of its connection.
OfferOf(first) ==
  [ kex   |-> IF first THEN Append(Offered.kex, "kex-strict-s") ELSE Offered.kex,
    key   |-> Offered.key,
    encCS  |-> Offered.cipher, encSC  |-> Offered.cipher,
    macCS  |-> Offered.mac,    macSC  |-> Offered.mac,
    compCS |-> Offered.comp,   compSC |-> Offered.comp ]

Sendable ==
  {s \in [conn : Nat, first : BOOLEAN, offer : {OfferOf(TRUE), OfferOf(FALSE)}] :
     s.offer = OfferOf(s.first)}

\* Nothing happens before the factory is up, and then it has a host key.
StartInv ==
  /\ privateKeys \in Seq(Names)
  /\ factory = "up" => privateKeys # << >>
  /\ factory # "up" => sent = << >> /\ state = "lost" /\ peer = None

\* All that is sent is what the configuration says.
SentInv == sent \in Seq(Sendable)

\* A live connection has the lists the factory gave it, and what was picked from
\* them is picked from what was sent.
PickInv ==
  /\ state # "lost" => lists = Offered
  /\ state = "none" => peer = None
  /\ state \in {"requested", "progressing"} =>
       /\ sent # << >>
       /\ peer # None => chosen = Pick(peer) /\ Matched(chosen)

FactoryInv == TypeOK /\ StartInv /\ SentInv /\ PickInv

-----------------------------------------------------------------------------
(* What is offered.                                                        *)

\* A configured list holds names, or it is absent.
LEMMA ConfiguredIs ==
  ASSUME NEW option \in Options, config \in Configs
  PROVE  ConfiguredList(option) \in Seq(Names) \cup {Absent}
<1>1. config[option] \in Seq(Names) \cup {Absent}
  BY FactoryAssumption
<1>2. CASE config[option] = Absent
  BY <1>2 DEF ConfiguredList
<1>3. CASE config[option] # Absent
  <2>1. config[option] \in Seq(Names)
    BY <1>1, <1>3
  <2>2. Keep(config[option], Names \ {""}) \in Seq(Names)
    BY <2>1, KeepIs
  <2> QED
    BY <1>3, <2>2 DEF ConfiguredList
<1> QED
  BY <1>2, <1>3

\* Filtering by a configured list leaves names that are supported, and never none.
LEMMA FilterIs ==
  ASSUME NEW configured \in Seq(Names) \cup {Absent},
         NEW supported \in Seq(Names), ToSet(supported) # {}
  PROVE  LET left == FilterSupported(configured, supported)
         IN left \in Seq(Names) /\ ToSet(left) \subseteq ToSet(supported) /\ ToSet(left) # {}
<1> DEFINE kept == Keep(configured, ToSet(supported))
<1>1. CASE configured = Absent \/ kept = << >>
  BY <1>1 DEF FilterSupported
<1>2. CASE configured # Absent /\ kept # << >>
  <2>1. configured \in Seq(Names)
    BY <1>2
  <2>2. kept \in Seq(Names) /\ ToSet(kept) = ToSet(configured) \cap ToSet(supported)
    BY <2>1, KeepIs
  <2>3. FilterSupported(configured, supported) = kept
    BY <1>2 DEF FilterSupported
  <2> HIDE DEF kept
  <2>4. ToSet(kept) # {}
    <3>1. 1 \in DOMAIN kept
      BY <1>2, <2>2
    <3> QED
      BY <3>1 DEF ToSet
  <2> QED
    BY <2>2, <2>3, <2>4
<1> QED
  BY <1>1, <1>2

\* The supported lists name what the ciphers, the MACs and the compressions
\* of this server are.
LEMMA SupportedAre ==
  /\ ToSet(SupportedCiphers) = {"chacha20", "aes128-ctr", "aes192-ctr", "aes256-ctr",
                                "aes128-gcm", "aes256-gcm"}
  /\ ToSet(SupportedMACs) = {"umac-64-etm", "umac-128-etm", "sha2-256-etm",
                             "sha2-512-etm", "sha1-etm", "umac-64", "umac-128",
                             "sha2-256", "sha2-512", "sha1"}
  /\ ToSet(SupportedCompressions) = {"none", "zlib@openssh.com", "zlib"}
  /\ ToSet(OtherKeys) = {"ecdsa", "ed25519"}
<1>1. DOMAIN SupportedCiphers = {1, 2, 3, 4, 5, 6}
  BY DEF SupportedCiphers
<1>2. DOMAIN SupportedMACs = {1, 2, 3, 4, 5, 6, 7, 8, 9, 10}
  BY DEF SupportedMACs
<1>3. DOMAIN SupportedCompressions = {1, 2, 3} /\ DOMAIN OtherKeys = {1, 2}
  BY DEF SupportedCompressions, OtherKeys
<1>4. ToSet(SupportedCiphers) = {"chacha20", "aes128-ctr", "aes192-ctr", "aes256-ctr",
                                 "aes128-gcm", "aes256-gcm"}
  BY <1>1 DEF ToSet, SupportedCiphers
<1>5. ToSet(SupportedMACs) = {"umac-64-etm", "umac-128-etm", "sha2-256-etm",
                              "sha2-512-etm", "sha1-etm", "umac-64", "umac-128",
                              "sha2-256", "sha2-512", "sha1"}
  BY <1>2 DEF ToSet, SupportedMACs
<1>6. /\ ToSet(SupportedCompressions) = {"none", "zlib@openssh.com", "zlib"}
      /\ ToSet(OtherKeys) = {"ecdsa", "ed25519"}
  BY <1>3 DEF ToSet, SupportedCompressions, OtherKeys
<1> QED
  BY <1>4, <1>5, <1>6

\* Every cipher can be built with every MAC.
LEMMA DirectionsExist ==
  ASSUME NEW cipher \in ToSet(SupportedCiphers), NEW mac \in ToSet(SupportedMACs)
  PROVE  Direction(cipher, mac) # None
<1>1. None \notin Tags /\ None \notin Directions
  BY FactoryAssumption
<1>2. Mac(mac) \in Tags
  <2>1. mac \in {"umac-64-etm", "umac-128-etm", "sha2-256-etm",
                 "sha2-512-etm", "sha1-etm", "umac-64", "umac-128",
                 "sha2-256", "sha2-512", "sha1"}
    BY SupportedAre
  <2> QED
    BY <2>1 DEF Mac, Tags
<1>3. Mac(mac) # None /\ Mac(mac).size \in Nat
  BY <1>1, <1>2 DEF Tags
<1>4. Direction(cipher, mac) \in Directions
  <2>1. cipher \in {"chacha20", "aes128-ctr", "aes192-ctr", "aes256-ctr",
                    "aes128-gcm", "aes256-gcm"}
    BY SupportedAre
  <2> QED
    BY <1>3, <2>1 DEF Direction, Directions
<1> QED
  BY <1>1, <1>4

\* Without primes the group exchange goes, the registered groups stay.
LEMMA WithoutGexIs ==
  LET left == WithoutGex(SupportedKex)
  IN /\ left \in Seq(Names) /\ ToSet(left) # {}
     /\ ToSet(left) \subseteq ToSet(SupportedKex)
     /\ ToSet(left) \cap Gex # {} => primes = "good"
<1>1. SupportedKex \in Seq(Names) /\ "g14-sha256" \in ToSet(SupportedKex)
  BY SupportedKexIs
<1>2. CASE primes = "good"
  BY <1>1, <1>2 DEF WithoutGex
<1>3. CASE primes # "good"
  <2> DEFINE kept == Keep(SupportedKex, Names \ Gex)
  <2>1. kept \in Seq(Names) /\ ToSet(kept) = ToSet(SupportedKex) \cap (Names \ Gex)
    BY <1>1, KeepIs
  <2>2. "g14-sha256" \in Names \ Gex
    <3>1. ToSet(SupportedKex) \subseteq Names
      BY <1>1 DEF ToSet
    <3> QED
      BY <1>1, <3>1 DEF Gex
  <2>3. WithoutGex(SupportedKex) = kept
    BY <1>3 DEF WithoutGex
  <2> HIDE DEF kept
  <2> QED
    BY <1>1, <2>1, <2>2, <2>3
<1> QED
  BY <1>2, <1>3

\* What a new connection offers can be used.
LEMMA OfferedIs ==
  ASSUME config \in Configs
  PROVE  /\ /\ Offered.kex \in Seq(Names) /\ ToSet(Offered.kex) # {}
            /\ ToSet(Offered.kex) \subseteq ToSet(SupportedKex)
            /\ ToSet(Offered.kex) \cap Gex # {} => primes = "good"
         /\ Offered.key = privateKeys
         /\ /\ Offered.cipher \in Seq(Names) /\ ToSet(Offered.cipher) # {}
            /\ ToSet(Offered.cipher) \subseteq ToSet(SupportedCiphers)
         /\ /\ Offered.mac \in Seq(Names) /\ ToSet(Offered.mac) # {}
            /\ ToSet(Offered.mac) \subseteq ToSet(SupportedMACs)
         /\ /\ Offered.comp \in Seq(Names) /\ ToSet(Offered.comp) # {}
            /\ ToSet(Offered.comp) \subseteq ToSet(SupportedCompressions)
<1> DEFINE Offer(option, supported) == FilterSupported(ConfiguredList(option), supported)
           Good(option, supported) ==
             /\ Offer(option, supported) \in Seq(Names)
             /\ ToSet(Offer(option, supported)) \subseteq ToSet(supported)
             /\ ToSet(Offer(option, supported)) # {}
<1>1. \A option \in Options, supported \in Seq(Names) :
        ToSet(supported) # {} => Good(option, supported)
  BY ConfiguredIs, FilterIs
<1>2. {"kex", "ciphers", "macs", "compression"} \subseteq Options
  BY DEF Options
<1>3. /\ Offered.kex = Offer("kex", WithoutGex(SupportedKex))
      /\ Offered.key = privateKeys
      /\ Offered.cipher = Offer("ciphers", SupportedCiphers)
      /\ Offered.mac = Offer("macs", SupportedMACs)
      /\ Offered.comp = Offer("compression", SupportedCompressions)
  BY DEF Offered
<1>4. Good("kex", WithoutGex(SupportedKex))
  <2> HIDE DEF Good
  <2> QED
    BY <1>1, <1>2, WithoutGexIs
<1>5. /\ SupportedCiphers \in Seq(Names) /\ ToSet(SupportedCiphers) # {}
      /\ SupportedMACs \in Seq(Names) /\ ToSet(SupportedMACs) # {}
      /\ SupportedCompressions \in Seq(Names) /\ ToSet(SupportedCompressions) # {}
  BY FactoryAssumption, SupportedAre
<1>6. /\ Good("ciphers", SupportedCiphers) /\ Good("macs", SupportedMACs)
      /\ Good("compression", SupportedCompressions)
  <2> HIDE DEF Good
  <2> QED
    BY <1>1, <1>2, <1>5
<1> HIDE DEF Offer
<1> QED
  BY <1>3, <1>4, <1>6, WithoutGexIs

\* The host keys are of the kinds that can be generated, each there once.
LEMMA HostKeysAre ==
  ASSUME NEW requested \in Seq(Names)
  PROVE  /\ HostKeys(requested) \in Seq(Names) /\ IsInjective(HostKeys(requested))
         /\ ToSet(HostKeys(requested)) \subseteq RsaKeys \cup ToSet(OtherKeys)
<1> DEFINE rsa == Keep(requested, RsaKeys)
           others == Keep(OtherKeys, ToSet(requested))
<1>1. rsa \in Seq(Names) /\ ToSet(rsa) \subseteq RsaKeys
  BY KeepIs
<1>2. IsInjective(OtherKeys)
  BY DEF OtherKeys, IsInjective
<1>3. others \in Seq(Names) /\ ToSet(others) \subseteq ToSet(OtherKeys) /\ IsInjective(others)
  <2>1. OtherKeys \in Seq(Names)
    BY FactoryAssumption
  <2> QED
    BY <1>2, <2>1, KeepIs
<1> HIDE DEF rsa, others
<1> DEFINE once == Once(rsa)
<1>4. once \in Seq(Names) /\ IsInjective(once) /\ ToSet(once) = ToSet(rsa)
  BY <1>1, OnceIs
<1> HIDE DEF once
<1>5. ToSet(once) \cap ToSet(others) = {}
  BY <1>1, <1>3, <1>4, SupportedAre DEF RsaKeys
<1>6. /\ once \o others \in Seq(Names) /\ IsInjective(once \o others)
      /\ ToSet(once \o others) = ToSet(once) \cup ToSet(others)
  BY <1>3, <1>4, <1>5, ConcatItems
<1> QED
  BY <1>1, <1>3, <1>4, <1>6 DEF HostKeys, once, rsa, others

\* What is picked is a record of names.
LEMMA PickIs ==
  ASSUME NEW c \in Clients
  PROVE  Pick(c) \in Picked /\ Pick(c) # None /\ c # None
<1>1. c \in [Lists -> Seq(Names)] /\ None \notin Picked /\ None \notin Clients
  BY FactoryAssumption
<1>2. \A s : \A l \in Lists : FirstCommon(c[l], s) \in Names \cup {None}
  BY <1>1, FirstCommonIs
<1>3. Pick(c) \in Picked
  <2>1. {"kex", "key", "encCS", "encSC", "macCS", "macSC", "compCS", "compSC"} \subseteq Lists
    BY DEF Lists
  <2>2. \A s : /\ FirstCommon(c.kex, s) \in Names \cup {None}
               /\ FirstCommon(c.key, s) \in Names \cup {None}
               /\ FirstCommon(c.encCS, s) \in Names \cup {None}
               /\ FirstCommon(c.encSC, s) \in Names \cup {None}
               /\ FirstCommon(c.macCS, s) \in Names \cup {None}
               /\ FirstCommon(c.macSC, s) \in Names \cup {None}
               /\ FirstCommon(c.compCS, s) \in Names \cup {None}
               /\ FirstCommon(c.compSC, s) \in Names \cup {None}
    BY <1>2, <2>1
  <2> QED
    BY <2>2 DEF Pick, Picked
<1> QED
  BY <1>1, <1>3

-----------------------------------------------------------------------------
(* The invariant holds.                                                    *)

\* Once the factory is up, no step changes what is offered.
LEMMA OfferedStays ==
  ASSUME UNCHANGED startup
  PROVE  Offered' = Offered /\ Sendable' = Sendable
<1>1. Offered' = Offered
  BY DEF Offered, FilterSupported, ConfiguredList, WithoutGex, startup
<1>2. Sendable' = Sendable
  BY <1>1 DEF OfferOf, Sendable
<1> QED
  BY <1>1, <1>2

\* It holds of an initial state.
LEMMA FactoryInit == Init => FactoryInv
<1> SUFFICES ASSUME Init PROVE FactoryInv
  OBVIOUS
<1>1. TypeOK
  <2>1. ToSet(<< >>) = {} /\ IsInjective(<< >>)
    BY DEF ToSet, IsInjective
  <2>2. 0 \in 0..MaxConnections
    BY FactoryAssumption
  <2> QED
    BY <2>1, <2>2 DEF Init, TypeOK
<1>2. StartInv /\ SentInv /\ PickInv
  BY DEF Init, StartInv, SentInv, PickInv
<1> QED
  BY <1>1, <1>2 DEF FactoryInv

\* The KEXINIT that is sent is one the server may send.
LEMMA SentIs ==
  ASSUME FactoryInv, state # "lost", Sent
  PROVE  sent' \in Seq(Sendable) /\ sent' # << >> /\ lists' = lists
<1>1. lists = Offered /\ connections \in Nat /\ session \in BOOLEAN /\ sent \in Seq(Sendable)
  BY FactoryAssumption DEF FactoryInv, TypeOK, PickInv, SentInv
<1>2. KexInit = OfferOf(~session)
  BY <1>1 DEF KexInit, OfferOf
<1> DEFINE e == [conn |-> connections, first |-> ~session, offer |-> KexInit]
<1>3. e \in Sendable
  BY <1>1, <1>2 DEF Sendable
<1>4. sent' = Append(sent, e) /\ lists' = lists
  BY DEF Sent, OwnLists
<1> HIDE DEF e
<1>5. Append(sent, e) \in Seq(Sendable) /\ Append(sent, e) # << >>
  BY <1>1, <1>3, AppendProperties
<1> QED
  BY <1>4, <1>5

\* Starting the factory.
LEMMA StartFactoryStep ==
  ASSUME FactoryInv, StartFactory
  PROVE  FactoryInv'
<1> DEFINE configured == ConfiguredList("public_key_auth")
           requested == IF configured = Absent THEN DefaultPubkeys ELSE configured
<1>1. requested \in Seq(Names)
  <2>1. configured \in Seq(Names) \cup {Absent}
    BY ConfiguredIs DEF FactoryInv, TypeOK, Options
  <2>2. DefaultPubkeys \in Seq(Names)
    <3>1. OtherKeys \in Seq(Names) /\ RsaKeys \subseteq Names
      BY FactoryAssumption
    <3>2. "ecdsa" \in Names /\ "ed25519" \in Names
      BY <3>1 DEF OtherKeys
    <3> QED
      BY <3>1, <3>2 DEF DefaultPubkeys, RsaKeys
  <2> QED
    BY <2>1, <2>2
<1> DEFINE keys == HostKeys(requested)
<1>2. /\ keys \in Seq(Names) /\ IsInjective(keys)
      /\ ToSet(keys) \subseteq RsaKeys \cup ToSet(OtherKeys)
  BY <1>1, HostKeysAre
<1>3. /\ factory = "new" /\ privateKeys' = keys /\ primes' = ReadPrimes
      /\ factory' = IF keys = << >> THEN "failed" ELSE "up"
      /\ UNCHANGED <<config, moduli, connections, lists, session, state, peer,
                     chosen, sent>>
  BY DEF StartFactory
<1> HIDE DEF keys
<1>4. sent = << >> /\ state = "lost" /\ peer = None
  BY <1>3 DEF FactoryInv, StartInv
<1>5. TypeOK'
  <2>1. ReadPrimes \in {"none", "empty", "good"}
    BY FactoryAssumption DEF FactoryInv, TypeOK, ReadPrimes, Files
  <2> QED
    BY <1>2, <1>3, <2>1 DEF FactoryInv, TypeOK
<1>6. StartInv'
  BY <1>2, <1>3, <1>4 DEF StartInv
<1>7. SentInv' /\ PickInv'
  BY <1>3, <1>4 DEF SentInv, PickInv
<1> QED
  BY <1>5, <1>6, <1>7 DEF FactoryInv

\* A new connection.
LEMMA BuildProtocolStep ==
  ASSUME FactoryInv, BuildProtocol
  PROVE  FactoryInv'
<1>1. Offered' = Offered /\ Sendable' = Sendable
  BY OfferedStays DEF BuildProtocol
<1>2. TypeOK'
  <2>1. connections + 1 \in 0..MaxConnections
    BY FactoryAssumption DEF FactoryInv, TypeOK, BuildProtocol
  <2> QED
    BY <2>1 DEF FactoryInv, TypeOK, BuildProtocol, startup
<1>3. StartInv'
  BY DEF FactoryInv, StartInv, BuildProtocol, startup
<1>4. SentInv' /\ PickInv'
  BY <1>1 DEF FactoryInv, SentInv, PickInv, BuildProtocol
<1> QED
  BY <1>2, <1>3, <1>4 DEF FactoryInv

\* The server sends its KEXINIT.
LEMMA SendKexInitStep ==
  ASSUME FactoryInv, SendKexInit
  PROVE  FactoryInv'
<1>1. Offered' = Offered /\ Sendable' = Sendable
  BY OfferedStays DEF SendKexInit
<1>2. sent' \in Seq(Sendable) /\ sent' # << >> /\ lists' = lists
  BY SentIs DEF SendKexInit
<1>3. TypeOK'
  BY DEF FactoryInv, TypeOK, SendKexInit, startup
<1>4. StartInv'
  BY DEF FactoryInv, StartInv, SendKexInit, startup
<1>5. SentInv' /\ PickInv'
  BY <1>1, <1>2 DEF FactoryInv, SentInv, PickInv, SendKexInit
<1> QED
  BY <1>3, <1>4, <1>5 DEF FactoryInv

\* The client's KEXINIT is looked at.
LEMMA SshKexInitStep ==
  ASSUME FactoryInv, NEW c \in Clients, SshKexInit(c)
  PROVE  FactoryInv'
<1>1. Offered' = Offered /\ Sendable' = Sendable
  BY OfferedStays DEF SshKexInit
<1>2. Pick(c) \in Picked /\ Pick(c) # None /\ c # None
  BY PickIs
<1>3. /\ peer' = c /\ chosen' = Pick(c) /\ state \in {"none", "requested"}
      /\ UNCHANGED <<startup, connections, session>>
  BY DEF SshKexInit
<1>4. TypeOK'
  <2>1. state' \in {"lost", "none", "requested", "progressing"}
    BY DEF SshKexInit
  <2> QED
    BY <1>2, <1>3, <2>1 DEF FactoryInv, TypeOK, startup
<1>5. factory = "up"
  BY <1>3 DEF FactoryInv, StartInv
<1>6. StartInv'
  BY <1>3, <1>5 DEF FactoryInv, StartInv, startup
<1>7. /\ sent' \in Seq(Sendable) /\ lists' = lists
      /\ state = "none" \/ UNCHANGED sent \/ state' = "lost"
      /\ state' # "lost" => sent' # << >> /\ Matched(Pick(c))
      /\ state' \in {"lost", "requested", "progressing"}
  <2>1. CASE ~Matched(Pick(c)) /\ state' = "lost" /\ UNCHANGED <<lists, sent>>
    BY <2>1 DEF FactoryInv, SentInv
  <2>2. CASE /\ Matched(Pick(c)) /\ state = "requested"
             /\ state' = "progressing" /\ UNCHANGED <<lists, sent>>
    BY <2>2 DEF FactoryInv, SentInv, PickInv
  <2>3. CASE /\ Matched(Pick(c)) /\ state = "none" /\ Sent /\ state' = "requested"
    <3>1. sent' \in Seq(Sendable) /\ sent' # << >> /\ lists' = lists
      BY <2>3, SentIs
    <3> QED
      BY <2>3, <3>1
  <2> QED
    BY <2>1, <2>2, <2>3 DEF SshKexInit
<1>8. Pick(c)' = Pick(c)
  BY <1>7 DEF Pick
<1>9. SentInv' /\ PickInv'
  <2>1. state' # "lost" => lists' = Offered'
    BY <1>1, <1>3, <1>7 DEF FactoryInv, PickInv
  <2>2. chosen' = Pick(peer)'
    BY <1>3, <1>7 DEF Pick
  <2>3. state' # "lost" => Matched(chosen)'
    BY <1>3, <1>7 DEF Matched
  <2> QED
    BY <1>1, <1>7, <2>1, <2>2, <2>3 DEF SentInv, PickInv
<1> QED
  BY <1>4, <1>6, <1>9 DEF FactoryInv

\* The keys are taken into use, or setting them up raises.
LEMMA NewKeysStep ==
  ASSUME FactoryInv, NewKeys
  PROVE  FactoryInv'
<1>1. Offered' = Offered /\ Sendable' = Sendable
  BY OfferedStays DEF NewKeys
<1>2. /\ \/ state' = "none" /\ peer' = None /\ chosen' = None
         \/ state' = "lost" /\ UNCHANGED <<peer, chosen>>
      /\ state # "lost" /\ session' = TRUE
      /\ UNCHANGED <<startup, connections, lists, sent>>
  BY DEF NewKeys
<1>3. TypeOK'
  BY <1>2 DEF FactoryInv, TypeOK, startup
<1>4. StartInv'
  BY <1>2 DEF FactoryInv, StartInv, startup
<1>5. SentInv' /\ PickInv'
  BY <1>1, <1>2 DEF FactoryInv, SentInv, PickInv
<1> QED
  BY <1>3, <1>4, <1>5 DEF FactoryInv

\* The connection goes, or nothing happens.
LEMMA QuietStep ==
  ASSUME FactoryInv, ConnectionLost \/ UNCHANGED vars
  PROVE  FactoryInv'
<1>1. /\ state' = "lost" \/ UNCHANGED state
      /\ UNCHANGED <<startup, connections, lists, session, peer, chosen, sent>>
  BY DEF ConnectionLost, vars
<1>2. Offered' = Offered /\ Sendable' = Sendable
  BY <1>1, OfferedStays
<1>3. TypeOK' /\ StartInv'
  BY <1>1 DEF FactoryInv, TypeOK, StartInv, startup
<1>4. Pick(peer)' = Pick(peer) /\ Matched(chosen)' = Matched(chosen)
  BY <1>1 DEF Pick, Matched
<1>5. SentInv' /\ PickInv'
  BY <1>1, <1>2, <1>4 DEF FactoryInv, SentInv, PickInv
<1> QED
  BY <1>3, <1>5 DEF FactoryInv

\* Every behaviour keeps it.
LEMMA FactoryAlways == Spec => []FactoryInv
<1>1. FactoryInv /\ [Next]_vars => FactoryInv'
  BY StartFactoryStep, BuildProtocolStep, SendKexInitStep, SshKexInitStep,
     NewKeysStep, QuietStep DEF Next
<1> QED
  BY FactoryInit, <1>1, PTL DEF Spec

-----------------------------------------------------------------------------
(* The theorems.                                                           *)

\* Every variable of the factory and its connections has a value the code can
\* give it.
THEOREM FactoryTypes == Spec => []TypeOK
<1>1. FactoryInv => TypeOK
  BY DEF FactoryInv
<1> QED
  BY FactoryAlways, <1>1, PTL

\* What a KEXINIT says can be done, and nothing is left empty.
LEMMA OfferIs ==
  ASSUME FactoryInv, NEW i \in DOMAIN sent
  PROVE  /\ sent[i] \in Sendable /\ factory = "up" /\ config \in Configs
         /\ \/ sent[i].first = TRUE /\ sent[i].offer = OfferOf(TRUE)
            \/ sent[i].first = FALSE /\ sent[i].offer = OfferOf(FALSE)
<1>1. sent[i] \in Sendable
  BY DEF FactoryInv, SentInv
<1>2. sent # << >> /\ config \in Configs
  BY DEF FactoryInv, TypeOK
<1>3. factory = "up"
  BY <1>2 DEF FactoryInv, StartInv
<1>4. sent[i].first \in BOOLEAN /\ sent[i].offer = OfferOf(sent[i].first)
  BY <1>1 DEF Sendable
<1>5. CASE sent[i].first = TRUE
  BY <1>1, <1>2, <1>3, <1>4, <1>5
<1>6. CASE sent[i].first = FALSE
  BY <1>1, <1>2, <1>3, <1>4, <1>6
<1> QED
  BY <1>4, <1>5, <1>6

\* The marker is the only difference between two KEXINITs.
LEMMA MarkerIs ==
  ASSUME FactoryInv
  PROVE  /\ ToSet(OfferOf(FALSE).kex) = ToSet(Offered.kex)
         /\ ToSet(OfferOf(TRUE).kex) = ToSet(Offered.kex) \cup {"kex-strict-s"}
         /\ Keep(OfferOf(TRUE).kex, Names \ Markers) = Keep(OfferOf(FALSE).kex, Names \ Markers)
<1>1. Offered.kex \in Seq(Names)
  BY OfferedIs DEF FactoryInv, TypeOK
<1>2. "kex-strict-s" \in Names /\ "kex-strict-s" \notin Names \ Markers
  BY FactoryAssumption DEF Markers
<1>3. OfferOf(FALSE).kex = Offered.kex /\ OfferOf(TRUE).kex = Append(Offered.kex, "kex-strict-s")
  BY DEF OfferOf
<1>4. ToSet(Append(Offered.kex, "kex-strict-s")) = ToSet(Offered.kex) \cup {"kex-strict-s"}
  BY <1>1, <1>2, AppendItems
<1>5. Keep(Append(Offered.kex, "kex-strict-s"), Names \ Markers)
        = Keep(Offered.kex, Names \ Markers)
  BY <1>1, <1>2, KeepAppends
<1> QED
  BY <1>3, <1>4, <1>5

\* Whatever the configuration says, everything a KEXINIT names can be used: no
\* list is empty, every host key is loaded, every cipher can be built with every
\* MAC, and the group exchange is offered only with primes.
THEOREM OffersAlwaysUsable == Spec => []OffersUsable
<1>1. FactoryInv => OffersUsable
  <2> SUFFICES ASSUME FactoryInv PROVE OffersUsable
    OBVIOUS
  <2> SUFFICES ASSUME NEW i \in DOMAIN sent
               PROVE  LET o == sent[i].offer
                      IN /\ \A l \in Lists : ToSet(o[l]) # {}
                         /\ ToSet(o.kex) \ Markers # {}
                         /\ ToSet(o.kex) \ Markers \subseteq ToSet(SupportedKex)
                         /\ ToSet(o.kex) \cap Gex # {} => primes = "good"
                         /\ ToSet(o.key) \subseteq ToSet(privateKeys)
                         /\ \A c \in ToSet(o.encSC) \cup ToSet(o.encCS),
                               m \in ToSet(o.macSC) \cup ToSet(o.macCS) :
                                 Direction(c, m) # None
                         /\ ToSet(o.compCS) \cup ToSet(o.compSC)
                              \subseteq {"none", "zlib", "zlib@openssh.com"}
    BY DEF OffersUsable
  <2> DEFINE o == sent[i].offer
  <2>1. /\ \/ o = OfferOf(TRUE) \/ o = OfferOf(FALSE)
        /\ factory = "up" /\ config \in Configs
    BY OfferIs
  <2> HIDE DEF o
  <2>2. /\ o.key = Offered.key
        /\ o.encCS = Offered.cipher /\ o.encSC = Offered.cipher
        /\ o.macCS = Offered.mac /\ o.macSC = Offered.mac
        /\ o.compCS = Offered.comp /\ o.compSC = Offered.comp
    BY <2>1 DEF OfferOf
  <2>3. /\ ToSet(Offered.kex) \subseteq ToSet(o.kex)
        /\ ToSet(o.kex) \subseteq ToSet(Offered.kex) \cup {"kex-strict-s"}
    BY <2>1, MarkerIs
  <2>4. /\ ToSet(Offered.kex) # {} /\ ToSet(Offered.kex) \subseteq ToSet(SupportedKex)
        /\ ToSet(Offered.kex) \cap Gex # {} => primes = "good"
        /\ Offered.key = privateKeys
        /\ ToSet(Offered.cipher) # {} /\ ToSet(Offered.cipher) \subseteq ToSet(SupportedCiphers)
        /\ ToSet(Offered.mac) # {} /\ ToSet(Offered.mac) \subseteq ToSet(SupportedMACs)
        /\ ToSet(Offered.comp) # {} /\ ToSet(Offered.comp) \subseteq ToSet(SupportedCompressions)
    BY <2>1, OfferedIs
  <2>5. ToSet(privateKeys) # {}
    <3>1. privateKeys \in Seq(Names) /\ privateKeys # << >>
      BY <2>1 DEF FactoryInv, StartInv
    <3>2. 1 \in DOMAIN privateKeys
      BY <3>1
    <3> QED
      BY <3>2 DEF ToSet
  <2>6. ToSet(SupportedKex) \cap Markers = {}
    BY SupportedKexIs
  <2>7. \A l \in Lists : ToSet(o[l]) # {}
    <3>1. /\ ToSet(o["kex"]) # {} /\ ToSet(o["key"]) # {}
          /\ ToSet(o["encCS"]) # {} /\ ToSet(o["encSC"]) # {}
          /\ ToSet(o["macCS"]) # {} /\ ToSet(o["macSC"]) # {}
          /\ ToSet(o["compCS"]) # {} /\ ToSet(o["compSC"]) # {}
      BY <2>2, <2>3, <2>4, <2>5
    <3> QED
      BY <3>1 DEF Lists
  <2>8. /\ ToSet(o.kex) \ Markers # {}
        /\ ToSet(o.kex) \ Markers \subseteq ToSet(SupportedKex)
        /\ ToSet(o.kex) \cap Gex # {} => primes = "good"
    BY <2>3, <2>4, <2>6 DEF Markers, Gex
  <2>9. \A c \in ToSet(o.encSC) \cup ToSet(o.encCS),
           m \in ToSet(o.macSC) \cup ToSet(o.macCS) : Direction(c, m) # None
    BY <2>2, <2>4, DirectionsExist
  <2>10. ToSet(o.compCS) \cup ToSet(o.compSC) \subseteq {"none", "zlib", "zlib@openssh.com"}
    BY <2>2, <2>4, SupportedAre
  <2> QED
    BY <2>2, <2>4, <2>7, <2>8, <2>9, <2>10 DEF o
<1> QED
  BY FactoryAlways, <1>1, PTL

\* The server shows one fingerprint: its KEXINITs, of every exchange of every
\* connection, name the same algorithms in the same order, with the marker of
\* strict key exchange in the first of each connection only.
THEOREM AlwaysOneFingerprint == Spec => []OneFingerprint
<1>1. FactoryInv => OneFingerprint
  <2> SUFFICES ASSUME FactoryInv PROVE OneFingerprint
    OBVIOUS
  <2> DEFINE Bare(o) == [o EXCEPT !.kex = Keep(@, Names \ Markers)]
  <2>1. Bare(OfferOf(TRUE)) = Bare(OfferOf(FALSE))
    <3>1. Keep(OfferOf(TRUE).kex, Names \ Markers) = Keep(OfferOf(FALSE).kex, Names \ Markers)
      BY MarkerIs
    <3> DEFINE k == Keep(OfferOf(TRUE).kex, Names \ Markers)
    <3>2. /\ Bare(OfferOf(TRUE)) = [OfferOf(TRUE) EXCEPT !.kex = k]
          /\ Bare(OfferOf(FALSE)) = [OfferOf(FALSE) EXCEPT !.kex = k]
      BY <3>1
    <3> HIDE DEF k
    <3>3. [OfferOf(TRUE) EXCEPT !.kex = k] = [OfferOf(FALSE) EXCEPT !.kex = k]
      BY DEF OfferOf
    <3> QED
      BY <3>2, <3>3
  <2>2. "kex-strict-s" \notin ToSet(Offered.kex)
    BY OfferedIs, SupportedKexIs DEF FactoryInv, TypeOK, Markers
  <2>3. ASSUME NEW i \in DOMAIN sent
        PROVE  "kex-strict-s" \in ToSet(sent[i].offer.kex) <=> sent[i].first
    <3>1. \/ sent[i].first = TRUE /\ sent[i].offer = OfferOf(TRUE)
          \/ sent[i].first = FALSE /\ sent[i].offer = OfferOf(FALSE)
      BY OfferIs
    <3> QED
      BY <2>2, <3>1, MarkerIs
  <2>4. ASSUME NEW i \in DOMAIN sent, NEW j \in DOMAIN sent
        PROVE  Bare(sent[i].offer) = Bare(sent[j].offer)
    <3>1. /\ sent[i].offer = OfferOf(TRUE) \/ sent[i].offer = OfferOf(FALSE)
          /\ sent[j].offer = OfferOf(TRUE) \/ sent[j].offer = OfferOf(FALSE)
      BY OfferIs
    <3> HIDE DEF Bare
    <3> QED
      BY <2>1, <3>1
  <2> QED
    BY <2>3, <2>4 DEF OneFingerprint
<1> QED
  BY FactoryAlways, <1>1, PTL

\* The server picks a name exactly where one is shared, and never a marker: none
\* of its lists holds one.
LEMMA MatchedIs ==
  ASSUME FactoryInv, NEW c \in Clients, state # "lost"
  PROVE  Matched(Pick(c)) <=>
           /\ Shared(c.kex, lists.kex) /\ Shared(c.key, lists.key)
           /\ Shared(c.compCS, lists.comp) /\ Shared(c.compSC, lists.comp)
<1>1. /\ c.kex \in Seq(Names) /\ c.key \in Seq(Names)
      /\ c.compCS \in Seq(Names) /\ c.compSC \in Seq(Names)
  <2>1. c \in [Lists -> Seq(Names)]
    BY FactoryAssumption
  <2> QED
    BY <2>1 DEF Lists
<1>2. \A l \in Seq(Names) : \A s : FirstCommon(l, s) = None <=> ~Shared(l, s)
  BY FirstCommonIs DEF Shared
<1>3. FirstCommon(c.kex, lists.kex) \notin Markers
  <2>1. lists = Offered /\ config \in Configs
    BY DEF FactoryInv, TypeOK, PickInv
  <2>2. ToSet(lists.kex) \cap Markers = {}
    BY <2>1, OfferedIs, SupportedKexIs
  <2>3. None \notin Markers
    BY FactoryAssumption
  <2>4. \/ FirstCommon(c.kex, lists.kex) = None
        \/ FirstCommon(c.kex, lists.kex) \in ToSet(c.kex) \cap ToSet(lists.kex)
    BY <1>1, FirstCommonIs
  <2> QED
    BY <2>2, <2>3, <2>4
<1>4. Matched(Pick(c)) <=> /\ FirstCommon(c.kex, lists.kex) # None
                           /\ FirstCommon(c.key, lists.key) # None
                           /\ FirstCommon(c.compCS, lists.comp) # None
                           /\ FirstCommon(c.compSC, lists.comp) # None
  BY <1>3 DEF Pick, Matched
<1> QED
  BY <1>1, <1>2, <1>4

\* A client's KEXINIT, whoever began the exchange, is gone on with exactly if the
\* client shares a key exchange, a host key and a compression for each direction
\* with what the connection offers.
THEOREM SharedAlwaysAccepted == Spec => SharedMeansAccepted
<1>1. ASSUME FactoryInv, [Next]_vars, peer = None, peer' # None
      PROVE  state' \in {"requested", "progressing"} <=>
               /\ Shared(peer'.kex, lists.kex) /\ Shared(peer'.key, lists.key)
               /\ Shared(peer'.compCS, lists.comp) /\ Shared(peer'.compSC, lists.comp)
  <2>1. PICK c \in Clients : SshKexInit(c)
    <3>1. \/ \E c \in Clients : SshKexInit(c)
          \/ UNCHANGED peer \/ peer' = None
      BY <1>1 DEF Next, vars, StartFactory, BuildProtocol, SendKexInit, NewKeys,
                  ConnectionLost
    <3> QED
      BY <1>1, <3>1
  <2>2. peer' = c /\ state # "lost"
    BY <2>1 DEF SshKexInit
  <2>3. state' \in {"requested", "progressing"} <=> Matched(Pick(c))
    BY <2>1 DEF SshKexInit
  <2>4. Matched(Pick(c)) <=>
          /\ Shared(c.kex, lists.kex) /\ Shared(c.key, lists.key)
          /\ Shared(c.compCS, lists.comp) /\ Shared(c.compSC, lists.comp)
    BY <1>1, <2>2, MatchedIs
  <2> QED
    BY <2>2, <2>3, <2>4
<1>2. FactoryInv /\ [Next]_vars =>
        [ peer = None /\ peer' # None =>
            ( state' \in {"requested", "progressing"} <=>
                /\ Shared(peer'.kex, lists.kex) /\ Shared(peer'.key, lists.key)
                /\ Shared(peer'.compCS, lists.comp)
                /\ Shared(peer'.compSC, lists.comp) ) ]_vars
  BY <1>1
<1> QED
  BY FactoryAlways, <1>2, PTL DEF Spec, SharedMeansAccepted

\* The marker does not change what is picked: a client that does not name it
\* finds the same first name with it and without it.
LEMMA MarkerNotPicked ==
  ASSUME NEW c \in Seq(Names), NEW s, NEW t, NEW e,
         e \notin ToSet(c), ToSet(t) = ToSet(s) \cup {e}
  PROVE  FirstCommon(c, t) = FirstCommon(c, s)
<1>1. DOMAIN c = 1..Len(c)
  OBVIOUS
<1>2. \A i \in 1..Len(c) : c[i] \in ToSet(t) <=> c[i] \in ToSet(s)
  BY <1>1 DEF ToSet
<1>3. {i \in 1..Len(c) : c[i] \in ToSet(t)} = {i \in 1..Len(c) : c[i] \in ToSet(s)}
  BY <1>2
<1> QED
  BY <1>3, Zenon DEF FirstCommon, SelectInSeq

\* The client picks by the KEXINIT it got, the server by its own lists: where no
\* client names the server's marker itself, both arrive at the same algorithms,
\* each direction by itself.
THEOREM BothAlwaysAgree ==
  ASSUME \A c \in Clients : "kex-strict-s" \notin ToSet(c.kex)
  PROVE  Spec => []BothSidesAgree
<1>1. FactoryInv => BothSidesAgree
  <2> DEFINE w == sent[Len(sent)].offer
             Theirs(l) == FirstCommon(peer[l], w[l])
  <2> SUFFICES ASSUME FactoryInv, chosen # None, state \in {"requested", "progressing"}
               PROVE  chosen = [ kex |-> Theirs("kex"), key |-> Theirs("key"),
                                 outCipher |-> Theirs("encSC"), inCipher |-> Theirs("encCS"),
                                 outMac |-> Theirs("macSC"), inMac |-> Theirs("macCS"),
                                 outComp |-> Theirs("compSC"), inComp |-> Theirs("compCS") ]
    BY Zenon DEF BothSidesAgree
  <2>1. peer \in Clients /\ chosen = Pick(peer) /\ lists = Offered
    BY DEF FactoryInv, TypeOK, PickInv
  <2>2. w = OfferOf(TRUE) \/ w = OfferOf(FALSE)
    <3>1. sent # << >> /\ sent \in Seq(Sendable)
      BY DEF FactoryInv, PickInv, SentInv
    <3>2. Len(sent) \in DOMAIN sent
      BY <3>1
    <3> QED
      BY <3>2, OfferIs
  <2> HIDE DEF w
  <2>3. FirstCommon(peer.kex, w.kex) = FirstCommon(peer.kex, lists.kex)
    <3>1. peer.kex \in Seq(Names) /\ "kex-strict-s" \notin ToSet(peer.kex)
      BY <2>1, FactoryAssumption DEF Lists
    <3>2. FirstCommon(peer.kex, OfferOf(TRUE).kex) = FirstCommon(peer.kex, Offered.kex)
      BY <3>1, MarkerIs, MarkerNotPicked
    <3>3. OfferOf(FALSE).kex = Offered.kex
      BY DEF OfferOf
    <3> QED
      BY <2>1, <2>2, <3>2, <3>3
  <2>4. /\ w.key = lists.key
        /\ w.encCS = lists.cipher /\ w.encSC = lists.cipher
        /\ w.macCS = lists.mac /\ w.macSC = lists.mac
        /\ w.compCS = lists.comp /\ w.compSC = lists.comp
    BY <2>1, <2>2 DEF OfferOf
  <2> QED
    BY <2>1, <2>3, <2>4 DEF Pick
<1> QED
  BY FactoryAlways, <1>1, PTL
=============================================================================
