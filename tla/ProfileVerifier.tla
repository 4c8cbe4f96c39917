--------------------------- MODULE ProfileVerifier ---------------------------
(***************************************************************************)
(* verify_profile.py: the commands listed in the notes are run on the real *)
(* device over ssh and typed into one interactive shell of the honeypot,   *)
(* whose screen is then taken apart to find each command's output.         *)
(*                                                                         *)
(* Abstractions.  The screen is a sequence of atoms: words, ends of lines, *)
(* prompts, typed lines, markers, and what bash says of a syntax error;    *)
(* escape sequences are gone.  A line of output is a key and the rest, or  *)
(* a single word.  The network cuts the screen between atoms.  The honeypot handles one typed line after the    *)
(* other; it is external, as is ssh.                                       *)
(***************************************************************************)
EXTENDS ListOps

CONSTANTS
  Notes,        \* notes.md files: sequences of lines [kind, text]
  Kind,         \* the kind of a command: "status", "cpuinfo", "probe", "plain"
  Outputs       \* what a command can print: records [real, pot] for the device
                \* and the honeypot, each [lines, ended], ended if the last
                \* line is terminated

VARIABLES
  commands,     \* the commands of the notes
  outputs,      \* for each command, its outputs on both sides
  phase,        \* "start", "ready", "waiting", "exit 0", "exit 1", "raised"
  anchored,     \* prompt_anchor was read off the screen
  wire,         \* what the honeypot has written and run() has not received
  buffer,       \* what this run() has received
  late,         \* the deadline of this run() has passed
  results       \* the lines found for each command, and the verdict

vars == <<commands, outputs, phase, anchored, wire, buffer, late, results>>

-----------------------------------------------------------------------------
(* The screen.                                                             *)

Word(w)   == [k |-> "word", v |-> w]
Prompt    == [k |-> "prompt", v |-> ""]
Nl        == [k |-> "nl", v |-> ""]
EchoOf(m) == [k |-> "echo", v |-> m]      \* "echo " and the marker
Marker(m) == [k |-> "marker", v |-> m]

\* bash complains of an unexpected token, and quotes the command behind which it
\* was: as it was typed, or as ssh was given it, with an export in front.
Complaint   == [k |-> "complaint", v |-> ""]
Quoted(c)   == [k |-> "quoted", v |-> c]
Exported(c) == [k |-> "exported", v |-> c]

Banner == <<Word("motd"), Nl, Prompt>>

\* The lines that can be printed, and what they consist of.
Printable == UNION {ToSet(o.real.lines) \cup ToSet(o.pot.lines) : o \in Outputs}
Printed   == UNION {ToSet(line) : line \in Printable}

\* An output is a list of lines and a line a list of words, those of bash's
\* complaint included: no command of the notes prints what looks like a prompt
\* or guesses a marker.
ASSUME OutputsAssumption ==
  /\ Printable \subseteq Seq(Printed)
  /\ \A a \in Printed : a.k \in {"word", "complaint", "quoted", "exported"}
  /\ \A o \in Outputs : /\ o.real.lines \in Seq(Printable)
                        /\ o.pot.lines \in Seq(Printable) /\ o.pot.ended \in BOOLEAN

\* The notes are a list of lines.
ASSUME NotesAssumption == \A notes \in Notes : notes \in Seq(ToSet(notes))

\* Lines with an end of line behind each.
Joined(lines) ==
  LET joined[i \in 0..Len(lines)] ==
        IF i = 0 THEN << >> ELSE joined[i - 1] \o lines[i] \o <<Nl>>
  IN joined[Len(lines)]

\* Lines as they stand on the screen.
Screen(out) ==
  IF out.ended \/ out.lines = << >> THEN Joined(out.lines) ELSE Front(Joined(out.lines))

\* What the honeypot writes when a command and its marker are typed.
Answer(command, out, m) ==
  <<Word(command), Nl>> \o Screen(out)
    \o <<Prompt, EchoOf(m), Nl, Marker(m), Nl, Prompt>>

\* A line for the text in front of each end of line, and one for what is behind.
Typing(lines, a) == IF a = Nl THEN Append(lines, << >>)
                    ELSE Append(Front(lines), Append(Last(lines), a))
Split(text) ==
  LET split[i \in 0..Len(text)] ==
        IF i = 0 THEN << << >> >> ELSE Typing(split[i - 1], text[i])
  IN split[Len(text)]

\* splitlines: the last one counts if there is anything in it.
SplitLines(text) == LET all == Split(text)
                    IN IF Last(all) = << >> THEN Front(all) ELSE all

\* PROMPT_RE: a prompt ends the line, with at most a word glued to its front.
LooksLikePrompt(line) == line # << >> /\ Last(line) = Prompt /\ Len(line) <= 2

-----------------------------------------------------------------------------
(* The commands.                                                           *)

\* The bullets from the verification heading to the next heading.
Extract(notes) ==
  LET Header(i)  == notes[i].kind = "verification"
      Heading(i) == notes[i].kind \in {"verification", "heading"}
      Listed(i)  == /\ notes[i].kind = "bullet"
                    /\ \E h \in 1..(i - 1) :
                         /\ Header(h) /\ \A j \in 1..(h - 1) : ~Header(j)
                         /\ \A j \in (h + 1)..i : ~Heading(j)
      index == Keep([i \in 1..Len(notes) |-> i], {i \in 1..Len(notes) : Listed(i)})
  IN [i \in DOMAIN index |-> notes[index[i]].text]

-----------------------------------------------------------------------------
(* Finding the output.                                                     *)

\* _strip_prompt_suffix: with the wrong anchor the word that the prompt is
\* glued to goes with it.
StripPromptSuffix(text) ==
  LET at == SelectLastInSeq(text, LAMBDA a : a = Prompt)
  IN IF at = 0 THEN text
     ELSE IF anchored \/ at = 1 THEN SubSeq(text, 1, at - 1)
     ELSE SubSeq(text, 1, at - 2)

\* Fault: blank lines stay.
FaultyStripLines(lines) == lines

\* strip("\n") of the joined lines.
StripLines(lines) ==
  LET first == SelectInSeq(lines, LAMBDA l : l # << >>)
      last  == SelectLastInSeq(lines, LAMBDA l : l # << >>)
  IN IF first = 0 THEN << >> ELSE SubSeq(lines, first, last)

\* The typed command, if it is at the top, is dropped.
WithoutEcho(command, all) ==
  LET begin == SelectInSeq(all, LAMBDA l : l # <<Word(command)>>)
  IN IF begin = 0 THEN << >> ELSE SubSeq(all, begin, Len(all))

\* The lines up to the typed marker, but for prompts, and what is in front of
\* the marker on its line.
UptoMarker(m, lines) ==
  LET stop == SelectInSeq(lines, LAMBDA l : EchoOf(m) \in ToSet(l))
      kept == Keep(SubSeq(lines, 1, IF stop = 0 THEN Len(lines) ELSE stop - 1),
                   {l \in ToSet(lines) : ~LooksLikePrompt(l)})
      Typed(l) == SubSeq(l, 1, SelectInSeq(l, LAMBDA a : a = EchoOf(m)) - 1)
      prefix == IF stop = 0 THEN << >> ELSE StripPromptSuffix(Typed(lines[stop]))
  IN IF prefix = << >> THEN kept ELSE Append(kept, prefix)

\* The part of run() behind its loop.
FindOutput(command, m, text) ==
  StripLines(UptoMarker(m, WithoutEcho(command, SplitLines(text))))

\* rstrip("\n") of an output that did not come through the shell.
NormalizeOutput(lines) ==
  SubSeq(lines, 1, SelectLastInSeq(lines, LAMBDA l : l # << >>))

\* Keys of lines whose values differ from run to run.
VolatileKeys(kind) == CASE kind = "status" -> {"Pid", "VmRSS"}
                        [] kind = "cpuinfo" -> {"BogoMIPS"}
                        [] OTHER -> {}

\* What is kept of the answer to the probe: the complaint about its syntax, and
\* the command that bash quotes at the end of a line, without the export.
Complains(l) == Complaint \in ToSet(l)
Quotes(l)    == l # << >> /\ Last(l).k \in {"quoted", "exported"}
Bare(l)      == IF Complains(l) THEN <<Complaint>> ELSE <<Quoted(Last(l).v)>>

\* normalize_for_command: volatile values are masked, and of the probe only
\* bash's complaint and the command it quotes are kept.
NormalizeForCommand(command, lines) ==
  LET kind == Kind[command]
      Masked(l) == IF /\ l # << >> /\ l[1].k = "word"
                       /\ l[1].v \in VolatileKeys(kind)
                   THEN <<l[1], Word("<volatile>")>> ELSE l
      text == NormalizeOutput(lines)
      kept == Keep(text, {l \in ToSet(text) : Complains(l) \/ Quotes(l)})
  IN IF kind = "probe" THEN [i \in DOMAIN kept |-> Bare(kept[i])]
     ELSE [i \in DOMAIN text |-> Masked(text[i])]

\* compare_results; the honeypot's return code is not known.
Matches(command, real, found) ==
  NormalizeForCommand(command, real) = NormalizeForCommand(command, found)

-----------------------------------------------------------------------------
(* The steps.                                                              *)

Index == Len(results) + 1

\* Fault: every run waits for the same marker.
FaultyMarkerOf(i) == 1

\* A marker of its own for each run.
MarkerOf(i) == i

\* The notes are read, the shell is opened, and what is on the screen after
\* half a second is looked at for a prompt.
Open ==
  /\ phase = "start"
  /\ \/ commands = << >> /\ phase' = "raised" /\ UNCHANGED <<anchored, wire>>
     \/ /\ commands # << >> /\ phase' = "ready"
        /\ \E n \in 0..Len(Banner) :
             /\ wire' = SubSeq(Banner, n + 1, Len(Banner))
             /\ anchored' = \E l \in ToSet(SplitLines(SubSeq(Banner, 1, n))) :
                               LooksLikePrompt(l)
  /\ UNCHANGED <<commands, outputs, buffer, late, results>>

\* ssh has returned the real output; the command and its marker are typed.
Run ==
  /\ phase = "ready" /\ Index <= Len(commands)
  /\ wire' = wire \o Answer(commands[Index], outputs[Index].pot, MarkerOf(Index))
  /\ late' = FALSE /\ phase' = "waiting"
  /\ UNCHANGED <<commands, outputs, anchored, buffer, results>>

\* The output is taken from what was received, and compared.
Compared(text) ==
  LET command == commands[Index]
      found   == FindOutput(command, MarkerOf(Index), text)
  IN /\ results' = Append(results,
           [ lines |-> found,
             ok    |-> Matches(command, outputs[Index].real.lines, found) ])
     /\ phase' = "ready" /\ buffer' = << >>

\* A recv: it ends the loop if the marker is there, typed or answered.
Receive ==
  /\ phase = "waiting" /\ ~late
  /\ \E n \in 1..Len(wire) :
       LET text == buffer \o SubSeq(wire, 1, n)
           m == MarkerOf(Index)
       IN /\ wire' = SubSeq(wire, n + 1, Len(wire))
          /\ IF {EchoOf(m), Marker(m)} \cap ToSet(text) # {} THEN Compared(text)
             ELSE buffer' = text /\ UNCHANGED <<results, phase>>
  /\ UNCHANGED <<commands, outputs, anchored, late>>

Deadline ==
  /\ phase = "waiting" /\ ~late /\ late' = TRUE
  /\ UNCHANGED <<commands, outputs, phase, anchored, wire, buffer, results>>

\* Fault: what came in time is taken for the output.
FaultyGiveUp == Compared(buffer)

\* The exception ends the program; the shell is closed on the way.
GiveUp == phase' = "raised" /\ UNCHANGED <<buffer, results>>

\* Fault: the deadline is not looked at.
FaultyOver == FALSE

Over == late

TimedOut ==
  /\ phase = "waiting" /\ Over /\ GiveUp
  /\ UNCHANGED <<commands, outputs, anchored, wire, late>>

Finish ==
  /\ phase = "ready" /\ Index > Len(commands)
  /\ phase' = IF \A i \in DOMAIN results : results[i].ok THEN "exit 0" ELSE "exit 1"
  /\ UNCHANGED <<commands, outputs, anchored, wire, buffer, late, results>>

-----------------------------------------------------------------------------
Init ==
  /\ \E notes \in Notes : commands = Extract(notes)
  /\ outputs \in [DOMAIN commands -> Outputs]
  /\ phase = "start" /\ anchored = FALSE /\ wire = << >> /\ buffer = << >>
  /\ late = FALSE /\ results = << >>

Next == Open \/ Run \/ Receive \/ Deadline \/ TimedOut \/ Finish

\* Time passes, and the loop of run() goes on; ssh and the honeypot may hang.
Spec == Init /\ [][Next]_vars /\ WF_vars(Deadline) /\ WF_vars(TimedOut)

-----------------------------------------------------------------------------
(* Properties.                                                             *)

\* Every variable has a value the code can give it; what was found has no
\* blank line at either end.
TypeOK ==
  /\ phase \in {"start", "ready", "waiting", "exit 0", "exit 1", "raised"}
  /\ anchored \in BOOLEAN /\ late \in BOOLEAN
  /\ Len(results) <= Len(commands) /\ DOMAIN outputs = DOMAIN commands
  /\ \A i \in DOMAIN results :
       LET l == results[i].lines
       IN /\ results[i].ok \in BOOLEAN
          /\ l # << >> => l[1] # << >> /\ Last(l) # << >>

\* No line of an output repeats the command: the screen can be taken apart.
Distinct(i) == <<Word(commands[i])>> \notin ToSet(outputs[i].pot.lines)

\* Each command is given the output it had, all of it, and nothing of another's:
\* the lines before it, if any, are what the shell wrote behind the marker of
\* the run before (or its banner), and the typed command.  An output that does
\* not end its last line is whole only if the prompt is known.
ResultHoldsOutput ==
  \A i \in DOMAIN results :
    LET found == results[i].lines
        out   == StripLines(outputs[i].pot.lines)
        stray == SubSeq(found, 1, Len(found) - Len(out))
        before == {Marker(i - 1), Prompt, Word(commands[i])}
                    \cup IF i = 1 THEN ToSet(Banner) ELSE {}
    IN (anchored \/ outputs[i].pot.ended) /\ Distinct(i) =>
         IsSuffix(out, found) /\ \A l \in ToSet(stray) : ToSet(l) \subseteq before

\* "All commands matched" is true: the program exits with 0 only if every
\* command of the notes was run on both sides and the outputs are the same but
\* for volatile values and blank lines at the ends.
SuccessIsTrue ==
  phase = "exit 0" => \A i \in DOMAIN commands :
    (anchored \/ outputs[i].pot.ended) /\ Distinct(i) =>
      Matches(commands[i], outputs[i].real.lines,
              StripLines(outputs[i].pot.lines))

\* A run ends, whatever the honeypot writes or does not write.
RunEnds == phase = "waiting" ~> phase # "waiting"

\* What the summary says of a command that failed: its outputs differ.
FailureIsDifference ==
  \A i \in DOMAIN results : ~results[i].ok =>
    ~Matches(commands[i], outputs[i].real.lines, outputs[i].pot.lines)
=============================================================================
