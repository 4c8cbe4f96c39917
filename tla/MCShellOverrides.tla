-------------------------- MODULE MCShellOverrides --------------------------
\* Instances of ShellOverrides: the account database of the profile and small
\* ones with the corner cases of group files.
EXTENDS ShellOverrides

Group(name, gid, members) == [name |-> name, gid |-> gid, members |-> members]
Of(name, gid) == Group(name, gid, {"pi"})

\* honeyfs/etc/group: the groups with pi, in the order of the file.
ProfileGroups ==
  <<Group("root", 0, {}), Of("adm", 4), Of("dialout", 20), Of("cdrom", 24),
    Of("sudo", 27), Of("audio", 29), Of("video", 44), Of("plugdev", 46),
    Of("games", 60), Of("users", 100), Of("input", 105), Of("netdev", 109),
    Group("pi", 1000, {}), Of("spi", 999), Of("i2c", 998), Of("gpio", 997),
    Group("lpadmin", 117, {"root", "pi"}), Of("docker", 994)>>

\* The other databases are of another device: its user is not pi, whose groups
\* /proc/self/status shows.
OtherGroups ==
  { << >>,                                             \* no groups at all
    <<Group("b", 9, {"eve"}), Group("a", 5, {"eve"}), Group("c", 5, {"eve"})>>,
    <<Group("b", 7, {"eve", "root"}), Group("d", 3, {"eve"}), Group("e", 7, {"eve"})>> }

Databases ==
  { [passwd |-> [u \in {"root", "pi"} |-> IF u = "root" THEN 0 ELSE 1000],
     group  |-> ProfileGroups] }
  \cup { [passwd |-> [u \in {"root", "eve"} |-> IF u = "root" THEN 0 ELSE 7],
          group  |-> g] : g \in OtherGroups }

Cmd(name, args) == [name |-> name, args |-> args]
Line(stages) == [probe |-> "none", stages |-> stages]
Probe(probe, stages) == [probe |-> probe, stages |-> stages]

\* The words tr is given here, and its arguments, as TLC writes them.
Texts == {ToString(g.gid) : g \in ToSet(ProfileGroups)}
           \cup {ToString(w) : w \in ToSet(Model)}
           \cup {ToString(w) : w \in {"\\0", "\\000", "\\x00", "\\400", "\\u"}}

\* Their characters; strings are written in quotes.
CharactersOf ==
  [text \in Texts |-> {SubSeq(text, i, i) : i \in 1..Len(text)} \ {"\""}]

Characters(word) == CharactersOf[ToString(word)]

\* The escapes the lines use: a zero, and a character beyond Latin-1.
Escapes == [arg \in {"\\x00", "\\400"} |-> IF arg = "\\x00" THEN {Nul} ELSE {}]

Delete(arg) == Cmd("tr", <<"-d", arg>>)
Tree == Cmd("cat", <<"/proc/device-tree/model">>)
Self == Cmd("cat", <<"/proc/self/status">>)

Lines ==
  { Probe("syntax", <<Cmd("grep", << >>)>>),
    Probe("tree", <<Tree, Delete("\\000")>>),
    Probe("hostname", <<Cmd("head", <<"-1">>)>>),
    Probe("summary", <<Cmd("nproc", << >>), Cmd("free", <<"-h">>)>>),
    Line(<<Tree>>), Line(<<Tree, Delete(Nul), Cmd("cat", << >>)>>),
    Line(<<Tree, Delete("\\x00")>>), Line(<<Tree, Delete("\\400")>>),
    Line(<<Tree, Delete("\\u")>>), Line(<<Self, Delete("\\0")>>),
    Line(<<Cmd("cat", << >>)>>), Line(<<Cmd("cat", << >>), Cmd("head", <<"-1">>)>>),
    Line(<<Self>>), Line(<<Self, Cmd("head", <<"-n", 1>>), Cmd("tr", << >>)>>),
    Line(<<Cmd("id", << >>)>>), Line(<<Cmd("id", <<"pi">>), Cmd("head", <<"-1">>)>>),
    Line(<<Cmd("id", <<"nobody">>), Cmd("grep", << >>)>>),
    Line(<<Cmd("groups", << >>)>>), Line(<<Cmd("groups", <<"root">>)>>),
    Line(<<Cmd("free", <<"-h">>), Cmd("head", <<"-n", -1>>)>>),
    Line(<<Cmd("lsb_release", <<"-d">>)>>), Line(<<Cmd("lsb_release", << >>)>>),
    Line(<<Cmd("which", <<"apt">>)>>), Line(<<Cmd("which", <<"apt", "yum">>)>>),
    Line(<<Cmd("nproc", << >>), Cmd("head", <<"file">>)>>),
    Line(<<Cmd("nproc", << >>), Cmd("head", <<"-n", Nul>>)>>),
    Line(<<Cmd("nproc", << >>), Cmd("tr", << >>)>>),
    Line(<<Cmd("ifconfig", << >>)>>) }

\* Names that Cowrie's own modules define: some are overridden.
StockNames == [module \in ToSet(All) \ {"rpi4_overrides"} |->
  CASE module = "base"  -> {"id", "nproc"}
    [] module = "fs"    -> {"head", "cat", "grep"}
    [] OTHER            -> {module}]
=============================================================================
