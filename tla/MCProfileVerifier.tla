-------------------------- MODULE MCProfileVerifier --------------------------
\* Instances of ProfileVerifier: notes with and without commands, outputs that
\* are empty, volatile, unterminated, blank at an end or repeat the command.
EXTENDS ProfileVerifier

Line(k, t) == [kind |-> k, text |-> t]

SmallNotes ==
  { <<Line("bullet", "ls"), Line("heading", ""), Line("other", "")>>,
    <<Line("bullet", "ls"), Line("verification", ""), Line("bullet", "status"),
      Line("other", ""), Line("bullet", "ls"), Line("heading", ""),
      Line("bullet", "ls")>>,
    <<Line("verification", ""), Line("bullet", "probe"), Line("bullet", "cpuinfo"),
      Line("verification", ""), Line("bullet", "ls")>> }

SmallKind == [c \in {"status", "cpuinfo", "probe", "ls"} |->
               IF c = "ls" THEN "plain" ELSE c]

Out(lines, ended) == [lines |-> lines, ended |-> ended]
Pid(n) == <<Word("Pid"), Word(n)>>
File   == <<Word("file")>>

Error(quote) == << <<Word("bash"), Complaint>>, <<Word("bash"), quote>> >>

SmallOutputs ==
  { [real |-> Out(<<Pid("1"), File>>, TRUE), pot |-> Out(<<Pid("2"), File>>, FALSE)],
    [real |-> Out(<< >>, TRUE),              pot |-> Out(<<File>>, FALSE)],
    [real |-> Out(<< << >>, File >>, TRUE),  pot |-> Out(<<File, << >> >>, TRUE)],
    [real |-> Out(Error(Exported("if")), TRUE),
     pot  |-> Out(<<File>> \o Error(Quoted("if")), TRUE)],
    [real |-> Out(<<File>>, TRUE),  pot |-> Out(<< <<Word("ls")>>, File >>, TRUE)] }

\* Commands with the same output on both sides.
OneNote   == { <<Line("verification", ""), Line("bullet", "ls"), Line("bullet", "ls")>> }
SameFiles == { [real |-> Out(<<File>>, TRUE), pot |-> Out(<<File>>, TRUE)] }
=============================================================================
