---------------------------- MODULE MCSSHFactory ----------------------------
\* Instances of SSHFactory: configurations with unknown, blank and repeated
\* items, clients that differ by direction.
EXTENDS SSHFactory

Base == [ public_key_auth |-> Absent, kex |-> Absent, ciphers |-> Absent,
          macs |-> Absent, compression |-> Absent ]

SmallConfigs ==
  { Base,
    [Base EXCEPT !.kex = <<"gex-sha256">>, !.compression = <<"none">>],
    [Base EXCEPT !.kex = <<"gex-sha256", " g16-sha512", "g14-sha256">>],
    [Base EXCEPT !.kex = <<"">>, !.ciphers = <<"3des">>, !.macs = <<"", "umac-64">>],
    [Base EXCEPT !.public_key_auth = <<"ed25519", "ssh-rsa", "ssh-rsa", "dsa">>],
    [Base EXCEPT !.public_key_auth = <<"dsa">>] }

\* A client's KEXINIT: kex, key, then ciphers, MACs and compressions for its
\* own direction and for the server's.
Client(k, h, e, m, z) ==
  [ kex |-> k, key |-> h, encCS |-> e[1], encSC |-> e[2], macCS |-> m[1],
    macSC |-> m[2], compCS |-> z[1], compSC |-> z[2] ]

SmallClients ==
  LET both(l) == <<l, l>>
      aes == <<"aes128-ctr">>   sha == <<"sha2-256">>   plain == <<"none">>
      rsa == <<"ssh-rsa", "ecdsa">>
  IN { Client(<<"c25519", "gex-sha256", "ext-info-c", "kex-strict-c">>, rsa,
              <<aes, <<"chacha20", "aes128-ctr">>>>, <<sha, <<"umac-64", "sha2-256">>>>,
              <<plain, <<"zlib", "none">>>>),
       Client(<<"gex-sha256", "g14-sha1">>, <<"ed25519">>, both(aes), both(sha),
              both(plain)),
       Client(<<"g16-sha512", "c25519", "g14-sha256">>, rsa, both(<<"3des">>),
              both(sha), both(<<"zlib@openssh.com", "none">>)),
       Client(<<"ext-info-c">>, rsa, both(aes), both(sha), both(plain)),
       Client(<<"c25519", "gex-sha256">>, rsa, both(aes), both(sha),
              <<plain, <<"zlib">>>>),
       Client(<<"c25519", "gex-sha256">>, rsa, both(aes), both(sha),
              <<<<"zlib">>, plain>>) }

SmallModuli == {<<"good", "none">>, <<"none", "good">>, <<"empty", "good">>,
                <<"none", "none">>}
SmallKex == << <<"c25519", 1>>, <<"gex-sha256", 6>>, <<"gex-sha1", 7>>,
               <<"g14-sha1", 8>> >>

SmallNames ==
  RsaKeys \cup Markers
    \cup UNION {ToSet(l) : l \in {OtherKeys, SupportedCiphers, SupportedMACs,
                                  SupportedCompressions}}
    \cup {k[1] : k \in ToSet(SmallKex) \cup ToSet(ExtraKex)}
    \cup UNION {UNION {ToSet(c[l]) : l \in Lists} : c \in SmallClients}
    \cup {"", " g16-sha512", "3des", "dsa"}
=============================================================================
