----------------------------- MODULE SSHFactory -----------------------------
(***************************************************************************)
(* What the server offers and what comes of it: CowrieSSHFactory reads the *)
(* configuration, loads host keys and moduli and hands every connection    *)
(* its algorithm lists; sendKexInit puts them on the wire, ssh_KEXINIT     *)
(* picks from them.                                                        *)
(*                                                                         *)
(* Abstractions.  An algorithm is its name, as short as the models need.   *)
(* An option of the configuration is a sequence of items or Absent; a      *)
(* blank item is "", and " g16" is an item with a space before the name.   *)
(* What is sent after KEXINIT is SSHTransport's: an exchange that was      *)
(* agreed on ends with NewKeys.                                            *)
(***************************************************************************)
EXTENDS Integers, SequencesExt, ListOps

CONSTANTS
  Names,        \* the names of algorithms, and what else an item can be
  Configs,      \* configurations: records of options, see Options
  Clients,      \* the clients' KEXINITs: records of lists, see Lists
  Moduli,       \* what the two moduli files can hold
  TwistedKex,   \* key exchanges of Twisted: a sequence of <<name, preference>>
  MaxConnections, MaxExchanges,   \* bounds
  Absent, None

Options == {"public_key_auth", "kex", "ciphers", "macs", "compression"}
Lists   == {"kex", "key", "encCS", "encSC", "macCS", "macSC", "compCS", "compSC"}

RsaKeys   == {"rsa-sha2-512", "rsa-sha2-256", "ssh-rsa"}
OtherKeys == <<"ecdsa", "ed25519">>
Gex       == {"gex-sha1", "gex-sha256"}
SupportedCiphers == <<"chacha20", "aes128-ctr", "aes192-ctr", "aes256-ctr",
                      "aes128-gcm", "aes256-gcm">>
SupportedMACs == <<"umac-64-etm", "umac-128-etm", "sha2-256-etm", "sha2-512-etm",
                   "sha1-etm", "umac-64", "umac-128", "sha2-256", "sha2-512", "sha1">>
SupportedCompressions == <<"none", "zlib@openssh.com", "zlib">>
Markers   == {"ext-info-c", "kex-strict-c", "kex-strict-s"}

\* The registered groups of _register_extra_kex_algorithms.
ExtraKex == << <<"g14-sha256", 8>>, <<"g16-sha512", 9>>, <<"g18-sha512", 10>> >>

\* What setKeys works with: a tag and a direction of the connection.
Tags       == [size : Nat, etm : BOOLEAN]
Directions == [mode : {"etm", "classic", "gcm", "chacha", "none"}, block : Nat, mac : Nat]

\* What an exchange chooses, None where nothing is shared.
Picked == [ {"kex", "key", "outCipher", "inCipher", "outMac", "inMac",
              "outComp", "inComp"} -> Names \cup {None} ]

Files == {"none", "empty", "good"}     \* a moduli file: not readable, without primes

\* Lists hold names, those of this module are among them, no key exchange of
\* Twisted is named like a marker, and None is no value of another kind.
ASSUME FactoryAssumption ==
  /\ RsaKeys \cup Markers \subseteq Names
  /\ {OtherKeys, SupportedCiphers, SupportedMACs, SupportedCompressions} \subseteq Seq(Names)
  /\ ExtraKex \in Seq((Names \ Markers) \X Nat)
  /\ Configs \subseteq [Options -> Seq(Names) \cup {Absent}]
  /\ Clients \subseteq [Lists -> Seq(Names)]
  /\ Moduli \subseteq Files \X Files
  /\ TwistedKex \in Seq((Names \ Markers) \X Nat)
  /\ MaxConnections \in Nat
  /\ None \notin Names /\ None \notin Clients
  /\ None \notin Picked /\ None \notin Tags /\ None \notin Directions

VARIABLES
  config,        \* the configuration file
  moduli,        \* the files /etc/ssh/moduli and /private/etc/moduli
  factory,       \* "new", "up", or "failed" in startFactory
  privateKeys,   \* the keys of the dictionary, in order
  primes,        \* self.primes: "none", "empty" or "good"
  connections,   \* connections built so far
  lists,         \* the connection's supported...: a record by part, or None
  session,       \* sessionID is set
  state,         \* _keyExchangeState, or "lost"
  peer,          \* the client's KEXINIT of this exchange, or None
  chosen,        \* what ssh_KEXINIT picked, or None
  sent           \* the KEXINITs sent, those of all connections

startup == <<config, moduli, factory, privateKeys, primes>>
vars == <<startup, connections, lists, session, state, peer, chosen, sent>>

-----------------------------------------------------------------------------
(* Lists.                                                                  *)

\* ffs: the first of the client's names that the server has.
FirstCommon(client, server) ==
  LET at == SelectInSeq(client, LAMBDA a : a \in ToSet(server))
  IN IF at = 0 THEN None ELSE client[at]

-----------------------------------------------------------------------------
(* Reading the configuration.                                              *)

\* Items are kept as they are written, blank ones are not kept.
ConfiguredList(option) ==
  IF config[option] = Absent THEN Absent
  ELSE Keep(config[option], Names \ {""})

\* Fault: nothing is offered when nothing configured is supported.
FaultyFilterSupported(configured, supported) ==
  IF configured = Absent THEN supported
  ELSE Keep(configured, ToSet(supported))

\* What is supported of a configured list; everything if nothing is.
FilterSupported(configured, supported) ==
  IF configured = Absent \/ Keep(configured, ToSet(supported)) = << >> THEN supported
  ELSE Keep(configured, ToSet(supported))

\* In the order of registration.
Registered == TwistedKex \o ExtraKex

\* getSupportedKeyExchanges: by preference.
SupportedKex ==
  LET all == Sorted(Registered, [k \in ToSet(Registered) |-> k[2]])
  IN [i \in 1..Len(all) |-> all[i][1]]

-----------------------------------------------------------------------------
(* The factory.                                                            *)

DefaultPubkeys == <<"rsa-sha2-512", "rsa-sha2-256", "ssh-rsa", "ecdsa", "ed25519">>

\* Fault: a name is added each time it is configured.
FaultyHostKeys(requested) ==
  Keep(requested, RsaKeys) \o Keep(OtherKeys, ToSet(requested))

\* The names of RSA in the order requested, then the others.
HostKeys(requested) ==
  Once(Keep(requested, RsaKeys)) \o Keep(OtherKeys, ToSet(requested))

\* The first moduli file that can be read.
ReadPrimes == IF moduli[1] # "none" THEN moduli[1] ELSE moduli[2]

\* Twisted refuses to start without a host key.
StartFactory ==
  LET requested == IF ConfiguredList("public_key_auth") = Absent THEN DefaultPubkeys
                   ELSE ConfiguredList("public_key_auth")
  IN /\ factory = "new"
     /\ privateKeys' = HostKeys(requested)
     /\ primes' = ReadPrimes
     /\ factory' = IF HostKeys(requested) = << >> THEN "failed" ELSE "up"
     /\ UNCHANGED <<config, moduli, connections, lists, session, state, peer,
                    chosen, sent>>

\* Fault: an empty moduli file counts as one.
FaultyWithoutGex(kex) ==
  IF primes # "none" THEN kex ELSE Keep(kex, Names \ Gex)

\* The group exchange needs primes.
WithoutGex(kex) ==
  IF primes = "good" THEN kex ELSE Keep(kex, Names \ Gex)

\* What a new connection offers.
Offered ==
  LET Offer(option, supported) == FilterSupported(ConfiguredList(option), supported)
  IN [ kex    |-> Offer("kex", WithoutGex(SupportedKex)),
       key    |-> privateKeys,
       cipher |-> Offer("ciphers", SupportedCiphers),
       mac    |-> Offer("macs", SupportedMACs),
       comp   |-> Offer("compression", SupportedCompressions) ]

BuildProtocol ==
  /\ factory = "up" /\ state = "lost" /\ connections < MaxConnections
  /\ connections' = connections + 1
  /\ lists' = Offered
  /\ session' = FALSE /\ state' = "none" /\ peer' = None /\ chosen' = None
  /\ UNCHANGED <<startup, sent>>

-----------------------------------------------------------------------------
(* Ciphers.                                                                *)

\* _build_mac: the bytes of a tag and whether the ciphertext is authenticated.
Mac(name) ==
  LET etm == name \in {"umac-64-etm", "umac-128-etm", "sha2-256-etm",
                       "sha2-512-etm", "sha1-etm"}
      Of(size) == [size |-> size, etm |-> etm]
  IN CASE name \in {"umac-64", "umac-64-etm"}   -> Of(8)
       [] name \in {"umac-128", "umac-128-etm"} -> Of(16)
       [] name \in {"sha1", "sha1-etm"}         -> Of(20)
       [] name \in {"sha2-256", "sha2-256-etm"} -> Of(32)
       [] name \in {"sha2-512", "sha2-512-etm"} -> Of(64)
       [] name = "none"                         -> Of(0)
       [] OTHER -> None

\* _build_direction, None where it raises; a MAC must have been found even
\* for the ciphers that bring their own.
Direction(cipher, mac) ==
  LET Of(mode, block, size) == [mode |-> mode, block |-> block, mac |-> size]
  IN CASE Mac(mac) = None -> None
       [] cipher \in {"aes128-ctr", "aes192-ctr", "aes256-ctr"} ->
            Of(IF Mac(mac).etm THEN "etm" ELSE "classic", 16, Mac(mac).size)
       [] cipher \in {"aes128-gcm", "aes256-gcm"} -> Of("gcm", 16, 0)
       [] cipher = "chacha20" -> Of("chacha", 8, 0)
       [] cipher = "none" -> Of("none", 8, Mac(mac).size)
       [] OTHER -> None

-----------------------------------------------------------------------------
(* The transport.                                                          *)

\* Fault: the marker goes to the connection's own list.
FaultyOwnLists == IF session THEN lists
                  ELSE [lists EXCEPT !.kex = Append(@, "kex-strict-s")]

\* The connection's lists once a KEXINIT was sent: the marker goes to a copy.
OwnLists == lists

\* The first KEXINIT of a connection carries the marker of strict key exchange.
KexInit ==
  [ kex   |-> IF session THEN lists.kex ELSE Append(lists.kex, "kex-strict-s"),
    key   |-> lists.key,
    encCS  |-> lists.cipher, encSC  |-> lists.cipher,
    macCS  |-> lists.mac,    macSC  |-> lists.mac,
    compCS |-> lists.comp,   compSC |-> lists.comp ]

Sent == /\ sent' = Append(sent, [conn |-> connections, first |-> ~session,
                                 offer |-> KexInit])
        /\ lists' = OwnLists

\* The client's version has arrived, or the server asks for new keys.
SendKexInit ==
  /\ state = "none" /\ Len(sent) < MaxExchanges
  /\ Sent /\ state' = "requested"
  /\ UNCHANGED <<startup, connections, session, peer, chosen>>

\* Fault: the directions are swapped.
FaultyPick(c) ==
  [ kex |-> FirstCommon(c.kex, lists.kex), key |-> FirstCommon(c.key, lists.key),
    outCipher |-> FirstCommon(c.encCS, lists.cipher),
    inCipher  |-> FirstCommon(c.encSC, lists.cipher),
    outMac |-> FirstCommon(c.macCS, lists.mac),
    inMac  |-> FirstCommon(c.macSC, lists.mac),
    outComp |-> FirstCommon(c.compCS, lists.comp),
    inComp  |-> FirstCommon(c.compSC, lists.comp) ]

\* The server's own lists decide, without the marker.
Pick(c) ==
  [ kex |-> FirstCommon(c.kex, lists.kex), key |-> FirstCommon(c.key, lists.key),
    outCipher |-> FirstCommon(c.encSC, lists.cipher),
    inCipher  |-> FirstCommon(c.encCS, lists.cipher),
    outMac |-> FirstCommon(c.macSC, lists.mac),
    inMac  |-> FirstCommon(c.macCS, lists.mac),
    outComp |-> FirstCommon(c.compSC, lists.comp),
    inComp  |-> FirstCommon(c.compCS, lists.comp) ]

\* Fault: the compression of one direction is not looked at.
FaultyMatched(p) == /\ None \notin {p.kex, p.key, p.outComp}
                    /\ p.kex \notin Markers

\* The parts without which the key exchange is given up.
Matched(p) == /\ None \notin {p.kex, p.key, p.outComp, p.inComp}
              /\ p.kex \notin Markers

\* The client's KEXINIT; it is answered with one if none was sent before.
SshKexInit(c) ==
  /\ state \in {"none", "requested"} /\ peer = None
  /\ state = "none" => session /\ Len(sent) < MaxExchanges
  /\ peer' = c /\ chosen' = Pick(c)
  /\ \/ /\ ~Matched(Pick(c))
        /\ state' = "lost" /\ UNCHANGED <<lists, sent>>
     \/ /\ Matched(Pick(c)) /\ state = "requested"
        /\ state' = "progressing" /\ UNCHANGED <<lists, sent>>
     \/ /\ Matched(Pick(c)) /\ state = "none"
        /\ Sent /\ state' = "requested"
  /\ UNCHANGED <<startup, connections, session>>

\* The keys are set up and taken into use; where a cipher or a MAC was not
\* found, setting them up raises and the connection is dropped.
NewKeys ==
  /\ state \in {"progressing", "requested"} /\ peer # None
  /\ \/ /\ None \notin {Direction(chosen.outCipher, chosen.outMac),
                        Direction(chosen.inCipher, chosen.inMac)}
        /\ state' = "none" /\ peer' = None /\ chosen' = None
     \/ /\ None \in {Direction(chosen.outCipher, chosen.outMac),
                     Direction(chosen.inCipher, chosen.inMac)}
        /\ state' = "lost" /\ UNCHANGED <<peer, chosen>>
  /\ session' = TRUE
  /\ UNCHANGED <<startup, connections, lists, sent>>

ConnectionLost ==
  /\ state # "lost" /\ state' = "lost"
  /\ UNCHANGED <<startup, connections, lists, session, peer, chosen, sent>>

-----------------------------------------------------------------------------
Init ==
  /\ config \in Configs /\ moduli \in Moduli
  /\ factory = "new" /\ privateKeys = << >> /\ primes = "none"
  /\ connections = 0 /\ lists = None /\ session = FALSE /\ state = "lost"
  /\ peer = None /\ chosen = None /\ sent = << >>

Next ==
  \/ StartFactory \/ BuildProtocol
  \/ SendKexInit \/ (\E c \in Clients : SshKexInit(c)) \/ NewKeys
  \/ ConnectionLost

Spec == Init /\ [][Next]_vars

-----------------------------------------------------------------------------
(* Properties.                                                             *)

\* Every variable has a value the code can give it.
TypeOK ==
  /\ config \in Configs /\ moduli \in Moduli
  /\ factory \in {"new", "up", "failed"} /\ primes \in {"none", "empty", "good"}
  /\ ToSet(privateKeys) \subseteq RsaKeys \cup ToSet(OtherKeys)
  /\ IsInjective(privateKeys)
  /\ connections \in 0..MaxConnections /\ session \in BOOLEAN
  /\ state \in {"lost", "none", "requested", "progressing"}
  /\ peer \in Clients \cup {None} /\ (chosen = None <=> peer = None)

\* Everything a KEXINIT names can be used: no list is empty, every key has
\* been loaded, every cipher can be built with every MAC, and the group exchange
\* is offered only when there are primes for it, whatever the configuration says.
OffersUsable ==
  \A i \in DOMAIN sent :
    LET o == sent[i].offer
    IN /\ \A l \in Lists : ToSet(o[l]) # {}
       /\ ToSet(o.kex) \ Markers # {}
       /\ ToSet(o.kex) \ Markers \subseteq ToSet(SupportedKex)
       /\ ToSet(o.kex) \cap Gex # {} => primes = "good"
       /\ ToSet(o.key) \subseteq ToSet(privateKeys)
       /\ \A c \in ToSet(o.encSC) \cup ToSet(o.encCS),
             m \in ToSet(o.macSC) \cup ToSet(o.macCS) : Direction(c, m) # None
       /\ ToSet(o.compCS) \cup ToSet(o.compSC)
            \subseteq {"none", "zlib", "zlib@openssh.com"}

\* The server shows one fingerprint: all its KEXINITs, of every exchange of
\* every connection, name the same algorithms in the same order, and the
\* marker of strict key exchange is in the first of each connection only.
OneFingerprint ==
  \A i, j \in DOMAIN sent :
    LET Plain(k) == [sent[k].offer EXCEPT
                      !.kex = Keep(@, Names \ Markers)]
    IN /\ Plain(i) = Plain(j)
       /\ "kex-strict-s" \in ToSet(sent[i].offer.kex) <=> sent[i].first

\* The client picks by the KEXINIT it got, the server by its own lists and the
\* client's: both arrive at the same algorithms, each direction by itself.
BothSidesAgree ==
  chosen # None /\ state \in {"requested", "progressing"} =>
    LET w == sent[Len(sent)].offer
        Theirs(l) == FirstCommon(peer[l], w[l])
    IN chosen = [ kex |-> Theirs("kex"), key |-> Theirs("key"),
                  outCipher |-> Theirs("encSC"), inCipher |-> Theirs("encCS"),
                  outMac |-> Theirs("macSC"), inMac |-> Theirs("macCS"),
                  outComp |-> Theirs("compSC"), inComp |-> Theirs("compCS") ]

\* A list of the client and one of the connection have a name in common.
Shared(c, s) == ToSet(c) \cap ToSet(s) # {}

\* A client's KEXINIT, whoever began the exchange, is gone on with exactly if
\* the client shares a key exchange, a host key and a compression for each
\* direction with what the connection offers: no client that shares them is
\* turned away, and none that lacks one of them gets any further (ssh_KEXINIT).
SharedMeansAccepted ==
  [][ peer = None /\ peer' # None =>
        ( state' \in {"requested", "progressing"} <=>
            /\ Shared(peer'.kex, lists.kex) /\ Shared(peer'.key, lists.key)
            /\ Shared(peer'.compCS, lists.comp)
            /\ Shared(peer'.compSC, lists.comp) ) ]_vars
=============================================================================
