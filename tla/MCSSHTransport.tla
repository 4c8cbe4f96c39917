--------------------------- MODULE MCSSHTransport ---------------------------
(* Instances of SSHTransport for TLC.                                      *)
EXTENDS SSHTransport

\* A client that negotiates everything, elliptic-curve or fixed-group.
Direct == [ kex |-> "direct", hostKey |-> TRUE, ciphers |-> TRUE,
            out |-> "none", in |-> "none", strict |-> FALSE, ext |-> FALSE ]

\* The KEXINITs of OpenSSH (strict, extensions) and of an older client.
MixedProposals == { [Direct EXCEPT !.strict = TRUE, !.ext = TRUE],
                    [Direct EXCEPT !.ext = TRUE] }

\* One KEXINIT per way a negotiation can go.
AllOutcomes == { Direct,
                 [Direct EXCEPT !.strict = TRUE, !.ext = TRUE],
                 [Direct EXCEPT !.kex = "gex", !.out = "zlib@openssh.com",
                                !.in = "zlib@openssh.com"],
                 [Direct EXCEPT !.out = "zlib", !.in = "zlib"],
                 [Direct EXCEPT !.ciphers = FALSE],
                 [Direct EXCEPT !.in = "unmatched"],
                 [Direct EXCEPT !.kex = "unmatched"] }
=============================================================================
