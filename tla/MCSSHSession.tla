---------------------------- MODULE MCSSHSession ----------------------------
(* Instances of SSHSession for TLC: the configurations of a client.        *)
EXTENDS SSHSession

Plain == [ kex |-> "direct", hostKey |-> TRUE, ciphers |-> TRUE,
           out |-> "none", in |-> "none", strict |-> FALSE, ext |-> FALSE ]

OpenSSH == [Plain EXCEPT !.strict = TRUE, !.ext = TRUE]

\* OpenSSH, an older client with group exchange, one that compresses at once.
Clients == { OpenSSH,
             [Plain EXCEPT !.kex = "gex", !.ext = TRUE],
             [Plain EXCEPT !.strict = TRUE, !.out = "zlib", !.in = "zlib"] }

\* ssh -C.
Compressing == { [OpenSSH EXCEPT !.out = "zlib@openssh.com",
                                 !.in = "zlib@openssh.com"],
                 [Plain EXCEPT !.in = "zlib@openssh.com"] }

GuessingClient == {OpenSSH}
=============================================================================
