# A TLA+ model of the Raspberry Pi 4 SSH honeypot

This directory specifies and verifies the code of this repository: the overrides that
make a Cowrie honeypot answer like the OpenSSH server of a Raspberry Pi 4, the UMAC
extension they need, the tool that compares the honeypot with the real device, and the
dashboards that read its log. Source paths below are relative to `src/`; `rpi4/` stands for
`config/raspberrypi4/`.

## 1. The system

| part | source | state it keeps | operations | interacts with |
|---|---|---|---|---|
| SSH transport | `rpi4/overrides/ssh/transport.py`, class `HoneyPotSSHTransport` | input buffer, version, key exchange state, negotiated algorithms, current and next ciphers, both sequence numbers, compression contexts, messages held back, timer | `connectionMade`, `dataReceived`, `getPacket`, `dispatchMessage`, `ssh_KEXINIT`, `_keySetup`, `ssh_NEWKEYS`, `sendPacket`, `setService`, `timeoutConnection`, `connectionLost` | Twisted's base class and reactor, the login and connection services, the client |
| ciphers and MACs | same file, `OpenSSHLikeCiphers`, `_CipherDirection`, `_MacContext` | CTR stream position, GCM counter, keys | `setKeys`, `encrypt_packet`, `peek_length`, `decrypt_packet`, `verify` | transport, `cryptography`, UMAC extension |
| SSH factory | `rpi4/overrides/ssh/factory.py` | host keys by algorithm, primes, version string | `startFactory`, `buildProtocol`, `_configured_list`, `_filter_supported` | configuration, one transport per connection |
| UMAC | `rpi4/overrides/ssh/umac_ext/umac.c`, `openssh_umac_module.c` | partial block of NH, state of POLY, last nonce and cached pad | `umac_update`, `umac_final`, `compute_tag` | MACs |
| shell overrides | `rpi4/overrides/commands/` | registry of commands, patched `lineReceived` | `id`, `groups`, `head`, `tr`, `cat`, ..., four canned probes | Cowrie's shell and account database |
| profile verifier | `rpi4/verify_profile.py` | interactive channel, buffer, deadline, failure count | `HoneypotShell.run`, normalisation, comparison | the real device over `ssh`, the honeypot over Paramiko |
| event log and dashboards | `log.msg` calls, `splunk_dashboards/` | events of a session | classification of a session by the stage it reached | Splunk |
| deployment and data | `docker-compose.yml`, profiles, `honeyfs/`, `assets/moduli` | none | none | |

What is hard in it:

* **Ordering.** Services call `sendPacket` whenever they like (the shell's output, a login
  answered a second later). During a key exchange their messages wait. Keys, sequence
  numbers and compression contexts change at different moments of an exchange, and both
  ends have to change them at the same packet.
* **Arbitrary clients.** A honeypot meets clients that do not follow the protocol: key
  exchange messages out of place, two KEXINITs in a row, NEWKEYS without keys, services
  before any exchange. The cipher objects `currentEncryptions` and `nextEncryptions` become
  one object at NEWKEYS and are separated by the next KEXINIT.
* **Failure.** An exception in a handler leaves `dataReceived`, and the reactor drops the
  connection with half of the handler done.
* **Liveness.** One timer is all that ends a silent connection. It is set anew at every login and
  request of the connection service, so a client that keeps asking keeps its connection.

The hazards, each at its line and with the properties that would notice it, are the list
`hazards` of `PROJECT.json`.

What makes each part correct:

* the transport: output of services waits for keys and leaves once and in order; keys and
  numbers never go back; both ends understand each other; a
  connection ends unless its client keeps setting the timer anew;
* packets: what is read does not depend on how the network cut the bytes, nor on the keys
  that change between two packets;
* the factory and negotiation: everything offered can be used, the server shows the same
  lists in every exchange, and both ends arrive at the same algorithms;
* the verifier: each command is compared with its own output, and "all matched" is true;
* the shell overrides: every line is answered once, groups are listed as Linux lists them,
  and the device gives the same facts about itself whichever way it is asked.

## 2. Modules

| module | models | state and actions |
|---|---|---|
| `SSHTransport` | one connection of `HoneyPotSSHTransport` facing a client that may send anything | a variable per attribute (the comment at each names it), an action per handler and callback; `Receive(t, p)` is one turn of the loop of `dataReceived` |
| `GatedOutput` | what the transport promises to the callers of `sendPacket` | a gate that is open or closed, messages that wait or were delivered |
| `SSHSession` | the transport and a client that follows the protocol as OpenSSH does, with the two byte streams between them | the client's own keys, numbers and compression contexts; `ServerReads` delivers the next packet to the unchanged `SSHTransport` |
| `PacketFraming` | `getPacket` with its two classic variants, the padding of `sendPacket`, the loop of `dataReceived`, over a byte stream cut anywhere, in every cipher mode and across NEWKEYS | `stream` and `sender` are the client; `arrived` and `consumed` are the two ends of `self.buf`; `cipher`, `first`, `packlen` the attributes kept between calls. `DataReceived(n)` adds bytes, `GetPacket` is one turn of the loop |
| `WholePackets` | what a reader of packets promises | packets sent, payloads handled, a verdict |
| `SSHFactory` | `CowrieSSHFactory` and the negotiation of `HoneyPotSSHTransport` | `StartFactory`, `BuildProtocol`, then `SendKexInit`, `SshKexInit`, `NewKeys` of one connection after another |
| `ProfileVerifier` | `verify_profile.py` | `Open`, `Run`, `Receive` (a `recv`), `Deadline`, `TimedOut`, `Finish`; `wire` is what the honeypot wrote and `buffer` what `run()` received |
| `ShellOverrides` | `rpi4_overrides.py` and `__all__` of `commands/__init__.py` | `Import` (a module is loaded), `Login`, `LineReceived` (`_patched_line_received`), `RunStage` (a command of a pipeline starts: it prints, and exits or waits), `EndOfInput` (Ctrl-D) |
| `MC...` | the instances for TLC | proposals, headers, configurations, clients, notes, outputs, accounts, lines |
| `SSHTransport_proofs` | theorems about `SSHTransport`: types, the order of what was held back, the refinement | |
| `SSHTransportWire_proofs` | theorems about `SSHTransport`: keys, numbers, silence and the announcement of extensions on the wire | |
| `SSHSession_proofs` | theorems about `SSHSession`: both ends in step, nonces, types | |
| `SSHFactory_proofs` | theorems about `SSHFactory`: lists, offers, the fingerprint, the choice | |
| `PacketFraming_proofs` | theorems about `PacketFraming`: padding, the reader in step, the refinement | |
| `ShellOverrides_proofs` | theorems about `ShellOverrides`: prompts, types, groups, the picture of the device | |
| `ProfileVerifier_proofs` | theorems about `ProfileVerifier`: the screen taken apart, results, success | |
| `ListOps` | what comprehensions, dictionaries and `sorted()` make of a list, used by `SSHFactory`, `ShellOverrides` and `ProfileVerifier` | |
| `ListOps_proofs` | lemmas about `ListOps`: induction, and what each of its functions returns | |

`SSHSession` extends `SSHTransport`: its server steps are the same actions, restricted to
what the client really put on the wire. `SSHTransport` instantiates `GatedOutput` with a
refinement mapping (`Gate`), `PacketFraming` instantiates `WholePackets` (`Whole`).

The modules meet at narrow interfaces. `PacketFraming` ends with a packet that was read or
refused, where `SSHTransport` begins: its `CORRUPT`, `BAD_LENGTH` and `EMPTY` are the
verdicts and the empty payloads of `PacketFraming`. `SSHFactory` ends with what was chosen,
where a `Proposal` of `SSHTransport` begins.

### Abstractions

A packet is its type with, on the way out, the number of the key exchange that made its
keys, its sequence number and the generation of its compression context. Two ends understand
a packet exactly when they agree on all three: what encryption, MAC and zlib do with
anything else is to fail. A KEXINIT is the *outcome* of negotiating it: which parts have an
algorithm in common, and what was chosen as far as the code distinguishes it. Every `Proposals
\subseteq Proposal` is allowed, so the outcome of a negotiation is arbitrary.

Twisted's part of the class (`_newKeys`, `_allowedKeyExchangeMessageType`, the Diffie-Hellman
handlers, `ssh_SERVICE_REQUEST`, the reactor) is not in the repository. It is modelled from
how the overrides use it and marked `external` in `PROJECT.json`, like the client.

`PacketFraming` counts bytes and does not look at them. A cipher is its mode, the exchange that
keyed it, its position (keystream bytes, or invocations of GCM) and the sequence number.
Decrypting in the sender's state yields the header that was sent; in any other state it yields
noise, which is taken for a length no packet has. The client may frame packets as `sendPacket`
does, forge the MAC, spoil the compressed payload, or write a header of its own choice. Nothing
is sent behind a packet that is refused, because nothing behind it is read.

`SSHFactory` keeps algorithm names, shortened. An option of the configuration is a sequence of
items, since the code splits at commas and keeps what is between them: a blank item is left
out and one with a space before its name is not recognised.

`ProfileVerifier` reads the screen as a sequence of words, ends of lines, prompts, typed lines
and markers; the network cuts between any two of them. Escape sequences are gone, and the
prompt is recognised by its form, as `PROMPT_RE` does. The comparison (`NormalizeForCommand`) follows the
code: volatile values are masked, and of the answer to the syntax probe two kinds of lines are kept and
rewritten, the complaint about a token and the command that bash quotes, in which `ssh` has an export
in front and the shell of the honeypot has none.

In `ShellOverrides` a line that a command prints is the question it answers (the groups of a
user, the number of processors, the model, ...) and its value. That is what makes the answers of
probes, commands and files comparable; the wording around the value is left out. Nothing writes to
`/etc/group`, so `Membership` is a function of the database and not of the moment.

A value is a list of words, and a word has characters (`Spelling`), which matter to `tr -d` alone.
`Expand` is `_expand_tr_bytes`: the three ways to write the byte 0, the escapes Python decodes (`Unescaped`, a
table of those that are used), and the characters of anything else, each of which is deleted wherever
it occurs. What is left of a word is the word, nothing, or the word `Garbled`. Spaces and ends of
lines between words are not deleted.

`Start` says what a command prints when it is started and whether it calls `exit`. A command that
defines `call` exits behind it, in Cowrie's `start`. `tr` and `cat` replace `start` and have to exit in
each of their branches; `TrStart` and `CatStart` follow them branch by branch, down to
Cowrie's own `cat`, which waits when it has neither a file nor input. `waiting` says that a command was started
and did not exit. Ctrl-D ends a `cat`; lines typed to it come back as they are and are no answers.

`dataReceived` is one call per chunk of the network and handles every complete packet in
it. The variable `looping` says that the loop still has a packet; while it has, no timer and
no loss of the connection can intervene, because the reactor runs nothing else meanwhile.

`ServiceSends` may happen between two packets of one chunk. In the code a service sends in
the middle of the loop only as the answer to the packet just handled; the model allows more
interleavings and loses none.

Definitions named `Faulty...` are not part of the system. Each is what a plausible mistake
would make of the definition that follows it; substituting it breaks the property it was
written for (list `mutants` of `PROJECT.json`).

## 3. Runs

| run | configuration | question | bounds |
|---|---|---|---|
| `transport_safety` | `SSHTransport_safety.cfg` | output order, silence during exchanges, no plaintext output of services, monotone keys, sequence numbers, EXT_INFO | two kinds of KEXINIT, 7 packets of the client in any order, 3 messages of services |
| `transport_outcomes` | `SSHTransport_outcomes.cfg` | the connection ends unless the client sets its timer anew for ever; the transport implements the gate | seven outcomes of a negotiation, 6 packets, 1 message |
| `session_rekey` | `SSHSession_rekey.cfg` | both ends stay in step; nonces; progress | three clients, 2 re-keyings, 2 further messages of the client, 7 messages of the server |
| `session_compression` | `SSHSession_compression.cfg` | the start of delayed compression | two clients, no re-keying |
| `packet_framing` | `PacketFraming.cfg` | the reader stays with the client; no complete packet waits; own framing is accepted; packets are read as if whole | 4 packets of the client, payloads of 1 and 12 bytes, seven crafted headers, reads of 5 and 60 bytes, all ciphers, strict key exchange |
| `negotiation` | `SSHFactory_negotiation.cfg` | offers are usable, one fingerprint, both sides agree | six configurations, four states of the moduli files, six clients, 2 connections, 3 exchanges |
| `verifier_outputs` | `ProfileVerifier_outputs.cfg` | a result is the output of its command, success is true, every run ends | three notes, at most two commands, five pairs of outputs, every cut of the screen |
| `shell_overrides` | `ShellOverrides.cfg` | one prompt for a line, the shell returns, groups as Linux lists them, one picture of the device | four account databases, three users, 28 lines, two of them typed |
| `verifier_stale` | `ProfileVerifier_stale.cfg` | a counterexample, section 5 | |
| `unmatched_ciphers` | `SSHTransport_unmatched.cfg` | a counterexample, section 5 | |
| `zlib_rekey` | `SSHSession_zlib_rekey.cfg` | a counterexample, section 5 | |
| `wrong_guess` | `SSHSession_wrong_guess.cfg` | a counterexample, section 5 | |

A key exchange takes three packets of the client (KEXINIT, KEXDH_INIT, NEWKEYS). Seven
packets are two complete exchanges and one packet more, enough for what needs a former
set of keys: an exchange under keys, a second KEXINIT in an exchange, strict mode or
EXT_INFO asked for late. Three messages of services are enough for two to wait while one was
sent before. In the outcome run six packets reach a login after an exchange. In the session
runs `MaxPackets` is no bound on the client: `SessionTypeOK` states that the client can
never exceed it.

`MaxPackets` bounds `received` and `MaxSubmitted` the messages services send by themselves;
`MaxRekeys` and `MaxExtra` bound the client. Nothing else is bounded there.

Four packets of `PacketFraming` are a packet, a NEWKEYS, a packet under the keys and one behind
it, or two changes of keys in a row. Reads of 5 bytes cut every length field, first block and
tag; a read of 60 brings the rest of a packet together with the beginning of the next. The headers are
too long, too short, ragged for every block size, and padded with nothing, with all or with
more than the packet. A payload of one byte needs a further block of padding with some ciphers.
Two connections and three exchanges of `SSHFactory` are a connection that exchanges keys again
and one that comes after it, what the lists of a factory could leak between. In `ProfileVerifier`
what is left over by one command can only reach the next, so that two commands are enough; the
outputs are empty, volatile, unterminated, blank at an end, complaints of bash, and one repeats the
command.
`OnePicture` and `GroupsAsLinux` compare two answers, so two lines show every pair. Five of the 28 lines
delete characters with `tr`: three the byte 0, each spelled differently, one a character beyond
Latin-1 (`\400`), which deletes nothing, and one `\u`, which Python cannot decode and which stands for its
own two characters. Two lines begin with a `cat` that waits. The
account databases are the profile's own and three with the corner cases of a group file: no
group at all, two names for a number, the user listed in the primary group. `MaxConnections`,
`MaxExchanges`, `MaxPackets` and `MaxLines` are the bounds of these modules.

Deadlock is checked in the runs of the transport and of its packets: their only states without
a further step are stated (`Terminated`, `Idle`). The factory after its last connection, the verifier
after its exit or exception, and the shell after its last line have nothing more to do.

### Fairness

`SSHTransport` assumes that a call of `dataReceived` comes to an end (`LoopEnds`: its buffer is
finite) and that a timer that is not set anew fires (`TimerFires`). The second is strong fairness of
`Timeout`, since calls of `dataReceived` come between and the reactor runs due calls between two of them,
and it is assumed only of a behaviour in which `setTimeout` is called finitely often: each call
cancels the timer that was pending, so a client that logs in or asks for `ssh-connection` again
and again, faster than `interactive_timeout`, keeps its connection. `MaxPackets` would hide that
client; both the assumption and `HangsUp` except it by name (`SetsTimer`) instead. Nothing is assumed of the client
or of services. `SSHSession` assumes in addition that bytes written are delivered, that
both programs read what arrives and that the client sends its first KEXINIT; it assumes
nothing about logins, re-keying or services.

`ProfileVerifier` assumes that time passes and that the loop of `run()` looks at its deadline:
`recv` runs with a timeout of its own, so no call of it lasts. Of the honeypot nothing is
assumed, and nothing of `ssh` to the real device, which runs without a timeout: `RunEnds` is
about `run()`. `ShellOverrides` assumes that the shell starts the command whose turn it is, which is
Cowrie's part of a pipeline. It does not assume that anybody types Ctrl-D, so `ShellReturns` excepts a line
that begins with a `cat` that has nothing to read.

`HangsUp` says what the timer is for: a client that never logs in, or logs in and then sends
whatever it likes but such a request, is hung up. It speaks of `loseConnection` being called. What becomes of a peer that never reads
what was written is the reactor's business and is not modelled.

## 4. Proofs

`SSHTransport_proofs` proves, for every set of proposals and all bounds:

* `TypeCorrect`: `Spec => []TypeOK`.
* `OutputOrdered`: `Spec => []OutputInOrder`. What was held back during exchanges leaves
  once and in order.
* `TransportImplementsGate`: `Spec => ImplementsGate`. The transport refines `GatedOutput`.

The argument. `SendPacketShape` and `FlushShape` say what the two operations on the output do.
`StepOutput` classifies every step of the transport by what it does to the output and to the
key exchange state (`OutputStep`): nothing, one message sent, an exchange started, keys
computed, an exchange ended. The two results about the output are proved over these five
kinds and do not look at the handlers again.

`OutputInOrder` is not inductive by itself. When an exchange starts, `sendKexInit` replaces the
list of held-back messages by an empty one; nothing is lost only because nothing waits when no
exchange is under way. That in turn needs that the exchange state is "none" before the version
line was read, or `sendKexInit` could be called in the middle of an exchange there. So the
invariant is `QueueInv`: types, `VersionFirst`, `NoneWaiting` (no message waits outside an
exchange) and the order. The refinement uses the same invariant: the order says that the
messages delivered are the interval `1..done` and those that wait the rest (`GateSets`), which
makes the two sets of the gate easy to compare before and after a step.

`SSHTransportWire_proofs` proves what holds of the packets written, the properties of the run
`transport_safety` that are about keys, numbers and silence:

* `ServicesAlwaysEncrypted`: `Spec => []ServicesEncrypted`.
* `KeysAdvance`: `Spec => []KeysNeverGoBack`.
* `NumbersFollowRule`: `Spec => []SequenceRule`.
* `ExchangesQuiet`: `Spec => []QuietDuringExchange`.

They share the invariant `WireInv`, because none of them is inductive:

* `KeyInv` says what `next`, `aliased` and `keyCount` are to each other. Without it a stray
  NEWKEYS could install key 0 again, or a repeated KEXDH_INIT older keys.
* `PlainInv` says that a connection without keys and without an exchange reads no packet, so
  no service runs that could write. It is why nothing deferrable is sent in plaintext outside
  an exchange; during one `sendPacket` holds it back.
* `Answered`: once keys are computed in an exchange, every KEXINIT on the wire has its NEWKEYS
  behind it. `_newKeys` may therefore write what waited, although it sends no NEWKEYS itself.
* `NoNewKeys`: without a session identifier no NEWKEYS was written. `ssh_KEXINIT` sets
  `_strictKeyExchange` only then, so the numbers given before are right under both rules.

`NextWire` classifies a step as before, now with what it does to the keys (`WireStep`);
`SendPacketWire` and `FlushWire` say that one message, and the messages that waited, keep the
wire right; `WireStepRight` puts the kinds of steps together.

It also proves `ExtInfoSentOnce`: `Spec => []ExtInfoOnce`. An announcement is
on the wire or waits in the list of held-back messages, and moves from one to the other at the end of an
exchange. `OneExt` is the property for both places together, with the NEWKEYS that is in front of
an announcement even while it waits. The invariant `ExtInv` adds that nothing was announced while
`sessionID` is unset. `_keySetup` announces only then and sets it, so it does so
once; `WireStep` says which steps can announce. A KEXINIT drops the list,
and dropping only removes.

`PacketFraming_proofs` proves, for all payload lengths, headers, cuts, numbers of packets, MAC
sizes, and with and without strict key exchange:

* `PaddingRule`: the padding `sendPacket` gives is at least 4 and at most 19 bytes and makes the
  encrypted part a multiple of the block size, in every mode.
* `TypeCorrect`, `StaysInStep` (`ReaderInStep`), `NoPacketWaits` (`NothingWaits`) and
  `OwnFraming` (`OwnFramingAccepted`).
* `WholePacketsImplemented`: `Spec => ImplementsWholePackets`.

`ReaderInStep` alone is not inductive. `FramingInv` adds `StreamInv` (each packet starts where
the one before ended, in the cipher state the one before left, and a packet marked proper
has a header by the rule), `CursorInv` (the reader is not ahead of what arrived), `RefusedInv`
(the connection was given up for what is wrong with the packet at hand) and `NothingWaits`. Every
call of `getPacket` waits, refuses or delivers; `WaitStep`, `RefuseStep` and `DeliverStep` say
what each does, `ClassicStep` and `AeadStep` show it for the two branches, and the theorems
follow from those three. The refinement maps a wait to a stutter and the other two to `Handle`.

`SSHSession_proofs` proves what a session is for: with a conforming client, for any number of
re-keyings, of further messages and of messages of services, however the two directions interleave,

* `ServerAlwaysDecodes` (`ServerDecodes`) and `ClientAlwaysDecodes` (`ClientDecodes`): each end
  finds every packet in the keys, the sequence number and the compression context it expects;
* `NoncesAlwaysUnique` (`NoncesUnique`), `ExtInfoAlwaysFollows` (`ExtInfoFollowsNewKeys`),
  `ClientKept` (`ClientNeverDropped`) and `SessionTypesCorrect` (`SessionTypeOK`).

`Conforming` is the hypothesis. It leaves out what section 5 reports, for there the properties are
false: a guess that is wrong, a KEXINIT without a common cipher, delayed compression across a
re-keying. It also asks that `MaxPackets` exceeds what the client can send, as the runs do.
`SessionIsTransport` needs no hypothesis: every session is a behaviour of `SSHTransport`, and the
theorems about the transport hold of it.

The invariant `SessionInv` says how the two ends are related. A direction is a queue of packets
written and not yet read, and `Chain` says that each packet is in the state (key, number,
context) its predecessor left: the reader's state is the state of the first of them and the
writer's the one behind the last. `After` is the rule of a single packet, strict sequence resets
and both kinds of compression among it. `Stream` adds that states rise, which is why no nonce
comes twice. `Joint` lists the seven places both ends can be in together: before the first
KEXINIT (`Starting`), the server's KEXINIT answered (`Answering`) or the client ahead of it
(`Hurrying`), the method to be sent (`Choosing`), a group received (`Grouping`), keys computed
(`Computing`), keys in use (`Talking`). At each one the packets on their way are known but for
data, so that the next packet is one its reader accepts. `LoginInv` and `ServiceInv` follow the
login (the context of delayed compression starts at it on both sides), `FirstKeys` follows the first
NEWKEYS and EXT_INFO, `CountInv` counts what the client may still send. `SessionContinues` is proved
packet type by packet type: what the server's handler does, what it writes, which place is next.

`SSHFactory_proofs` proves all five properties of `SSHFactory`, for every configuration, set of
clients, moduli and registered key exchanges:

* `FactoryTypes` (`TypeOK`), `OffersAlwaysUsable` (`OffersUsable`), `AlwaysOneFingerprint`
  (`OneFingerprint`);
* `SharedAlwaysAccepted` (`SharedMeansAccepted`, an action property): a KEXINIT is gone on with if each of
  four lists shares a name with the server's, and only then;
* `BothAlwaysAgree` (`BothSidesAgree`), of clients that do not name the server's marker
  `kex-strict-s` themselves. One that does could pick the marker, which the server, whose own
  list lacks it, never picks.

What is offered is computed by going through lists, so these proofs need induction.
`ListOps_proofs` has it: `Least` (a set of numbers has a least one) follows from the library's theorem
that `<` is well-founded, and `Induction` from `Least`, with the set of numbers for which the claim
holds in place of a predicate. With it `KeepSteps` and `SortSteps` show that the recursive
functions of `Keep` and `Sorted` exist, and `KeepIs`, `FirstsIs`, `OnceIs` and `SortedIs` say what
filtering, a dictionary's keys and sorting return; `FirstCommonIs` and `SupportedKexIs` say the same of
`ffs` and of the registered key exchanges. `FactoryInv` says that a live connection has the lists the
configuration gives (`PickInv`), that every KEXINIT sent is one of two, with the marker or without
(`SentInv`), and that nothing is sent before there is a host key (`StartInv`). None of the five
properties is inductive without it: each compares what was sent or chosen with the lists of now.

`ShellOverrides_proofs` proves all four invariants of `ShellOverrides`, for every set of lines,
account databases and modules:

* `OnePromptPerLine` (`OnePrompt`). `PromptInv` adds that nothing is typed before the first prompt.
* `TypesCorrect` (`TypeOK`): among the rest, that whatever is shown or handed on is an answer, and what
  is handed on no complaint.
* `GroupsAlwaysAsLinux` (`GroupsAsLinux`), for lines that satisfy `DeletesOnlyNul`.
* `OneAlwaysPicture` (`OnePicture`), for lines that satisfy `DeletesOnlyNul` and databases that
  satisfy `PiAsStatus`.

`DeletesOnlyNul` says that `tr -d` is used for what the probes use it for: its argument expands to
the byte 0 or to nothing. With another argument `tr` can cut characters out of an
answer and the properties are false, of the honeypot as of any other shell. `TypesCorrect` does not need
it. `PiAsStatus` says that the account `pi`, where there is one, is in the groups that the
constant `_PROC_SELF_STATUS` lists: that file and the account database of the profile have to be
changed together. The instance of the run satisfies it, and but for the line with `\u`, whose characters
no answer has, `DeletesOnlyNul` too.

The argument is about a set `T` of answers (`AnswersIn`): if it has the answers of `id`, `groups` and the
device's constants and is closed under what `tr` deletes (`Sound`), then what is handed on stays
in it and what is shown is in it or a complaint (`StageAnswers`, `AnswersStep`). It is shown for each command that
it keeps to `T` if its input did: `head` drops lines, `tr` deletes, the others ignore their input.
There are two such sets. `Possible` has every list of words about every subject, garbled words among
them, and is sound for all lines: `TypesCorrect` follows. `Truths` has the true answers, and each without
the byte 0 at its end, and is sound for lines that satisfy `DeletesOnlyNul` (`TruthsSound`). `Truths` have one
value for a question and a subject, and `MembershipIs`, which follows the code's sort and filter with the
lemmas of `ListOps_proofs`, says that groups are listed by number and once.

`ProfileVerifier_proofs` proves all three invariants of `ProfileVerifier`, for all notes, all outputs and
every way the network cuts the screen:

* `TypesRight` (`TypeOK`).
* `ResultsHold` (`ResultHoldsOutput`): each result is the whole output of its command and, in front of
  it, at most the shell's own lines.
* `SuccessIsRight` (`SuccessIsTrue`): exit status 0 means that the outputs are the same.

Half of the work is about a single screen. `SplitAppends` and `JoinedAppends` give the recursive functions
one step at a time, and induction over lists (`ListInduction`) gives `SplitJoined`: the text of lines
is split into these lines. `LinesOfScreen` puts the parts of a screen together: at most the end of the
run before and the typed command, the output, the line with the marker, and whatever came behind it.
`FoundIs` says what the four filters of `run()` leave of those lines, and `StripBehind` that lines above an
output never take anything of it away, blank lines included.

The other half is about what is on the way between two runs. `Inv` says that before a command is typed
the screen holds a `Leftover`: one of the tails of the banner, or of what is behind the typed marker of the
run before. While the command runs, what was received and what is on the way are a leftover and the
answer, cut in two, with no marker in the first part (`OnTheWay`). `Arrives` is the step from the one to the
other: with the marker, everything ahead of it has been received (`CutAtMarker`), and what has
not is a `Leftover` again. `ResultHoldsOutput` is not inductive without it: it compares a
result with the output, and says nothing of the screen. For success, `StrayTells` shows that a leftover
in front of an output always brings the typed command with its prompt, a line no real output has and no
mask removes, so that the comparison fails; if it does not fail, only the output was found. Of
the syntax probe only bash's lines are compared, and no line above an output is one (`AboveQuiet`).

The assumptions are those of the constants: `ProposalsAssumption`, `BoundsAssumption`,
`ClientAssumption` (the numbers of re-keyings and further messages are numbers), `FramingAssumption`,
`FactoryAssumption` (lists hold names, and no key exchange of Twisted is named like a marker) and
`TypedAssumption` (a line that reaches the shell has a command, and arguments are lists),
`BoundAssumption` (`MaxLines` is a number) and `AccountsAssumption` (a group file is a list, numbers are
numbers, and the byte 0 is no name), `NotesAssumption` (the notes are a list of lines) and
`OutputsAssumption` (outputs are lists of lines of words). The last is more than a type: words are not
prompts or markers, so it says that no command prints a line that looks like a prompt, which `run()` would
leave out, or guesses the random marker.

Model-checked only: liveness (`HangsUp`, `ExchangeCompletes`, `HeldBackIsSent`, `RunEnds`,
`ShellReturns`), because TLAPS does not handle fairness and ENABLED. Every invariant and every action
property of a passing run is a theorem.

## 5. Where the code and its claims differ

* **Unmatched ciphers go through** (`unmatched_ciphers`). `ssh_KEXINIT` rejects a KEXINIT
  when it "couldn't match all kex parts", but tests four of the eight parts. Without a common
  cipher or MAC the exchange goes on until `setKeys` raises.
* **Compression is not renewed** (`zlib_rekey`). Contexts of `zlib@openssh.com` are created by
  `setService` and never again. OpenSSH starts compression afresh with every set of keys, so a
  compressed session breaks at its first re-keying.
* **A wrong guess is not ignored** (`wrong_guess`). The override of `ssh_KEXINIT` returns
  `first_kex_packet_follows` to nobody, so the packet that has to be skipped is handled.

* **The verifier compares what another command left** (`verifier_stale`). `run()` stops at the
  echo of its marker. The marker's output and the prompt behind it, and a banner that came
  late, are received by the next `run()`, stand before the typed command, and are counted as a
  difference although both sides printed the same. Success is never reported wrongly for that
  reason (`SuccessIsTrue`): what is added makes outputs differ.

## 6. Not modelled

* Cryptography, the content of messages, logging and its wording, command-line parsing and
  printing of the verifier.
* UMAC. The code is OpenSSH's. `compute_tag` makes a context for each packet, hashes the
  packet in one update and frees the context, so neither hashing in pieces nor the cache of pads
  is exercised from this repository; what is left is arithmetic.
* The dashboards: queries that run in Splunk, over a log stored elsewhere, without state.
* The deployment and the data files, but for the account database of the profile, which is an
  instance of `ShellOverrides`.
* Lines typed to a `cat` that waits, `tr` deleting spaces or ends of lines, and an argument of `tr` that
  UTF-8 cannot encode.
* Sequence numbers at 2^32. The code never reduces them; a connection without strict key
  exchange that gets so far fails in `_uint32`. The models let them grow.
* What becomes of output a peer never reads, and the delayed answer of Twisted's login service
  after the connection is lost: both are outside the repository.
* A prompt the verifier does not know: the fallback takes the last word of an output that does not end
  its line for part of the prompt. `ResultHoldsOutput` excludes this case and says so.
* A packet without payload ends the loop of `dataReceived`: what is buffered behind it waits for
  further input. `NothingWaits` states it as the exception it is.

## 7. Plan

Done: the transport, its session with a client, packets, the factory and negotiation, the
verifier, the shell overrides, and the theorems of section 4. What would come next:

1. `PacketFraming` inside `SSHTransport`: the verdict of the one as the packet type of the other,
   so that re-keying in the middle of a chunk is checked with the handlers.
2. The stages a session logs, composed with `SSHTransport`, if the classification of the
   dashboards ever moves into the repository's code.
