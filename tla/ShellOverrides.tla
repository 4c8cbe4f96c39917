--------------------------- MODULE ShellOverrides ---------------------------
(***************************************************************************)
(* The commands that rpi4_overrides.py puts in place of Cowrie's, and the  *)
(* lines it answers itself before the shell sees them.                     *)
(*                                                                         *)
(* Abstractions.  What a command prints is a sequence of lines, each the   *)
(* question it answers, whom it is about (Device, or a user) and the value *)
(* it gives, a sequence of words.  The shell's parsing, its pipelines and  *)
(* the loading of the command modules are Cowrie's, external here; a       *)
(* command that is not overridden prints what it gets.  Deleting characters*)
(* leaves of a word the word, nothing, or a word nobody meant; what stands *)
(* between words and lines is not modelled.                                *)
(***************************************************************************)
EXTENDS ListOps, FiniteSets

CONSTANTS
  Accounts,     \* account databases: records [passwd, group]
  Users,        \* names that log in
  Typed,        \* lines that can be typed: [probe, stages], a stage [name, args]
  Stock,        \* the names each module of Cowrie defines
  Nul,          \* the byte that ends a string of the device tree, a word of its own
  Spelling(_),  \* the characters of a word
  Unescaped,    \* the characters unicode_escape makes of the strings it decodes
  Garbled,      \* a word some of whose characters were deleted
  MaxLines      \* bound: lines typed

\* The stages of all lines.
Stage == UNION {ToSet(line.stages) : line \in Typed}

\* A line has at least one stage, for an empty line is Cowrie's, and is a probe
\* or none; the arguments of a stage are a list.
ASSUME TypedAssumption ==
  /\ \A line \in Typed :
       /\ line.stages \in Seq(Stage) \ {<< >>}
       /\ line.probe \in {"none", "syntax", "tree", "hostname", "summary"}
  /\ \A stage \in Stage :
       Len(stage.args) \in Nat /\ DOMAIN stage.args = 1..Len(stage.args)

ASSUME BoundAssumption == MaxLines \in Nat

\* /etc/group is a list and its numbers are numbers; Nul is neither a number
\* nor the name of a user or of a group.
ASSUME AccountsAssumption ==
  /\ Nul \notin Int
  /\ \A db \in Accounts :
       /\ db.group \in Seq(ToSet(db.group))
       /\ \A g \in ToSet(db.group) : g.gid \in Int /\ g.name # Nul
       /\ \A u \in DOMAIN db.passwd : db.passwd[u] \in Int /\ u # Nul

VARIABLES
  accounts, user,
  imported,     \* modules of __all__ imported
  registry,     \* for each command name, the module that runs it
  pipeline,     \* stages of the current line still to run
  piped,        \* the next stage has input_data
  data,         \* input_data of the next stage, empty if it has none
  waiting,      \* that stage was started and did not exit
  shown,        \* the set of the lines on the terminal
  lines,        \* lines typed
  prompts       \* prompts shown

running == <<pipeline, piped, data, waiting>>
vars == <<accounts, user, imported, registry, running, shown, lines, prompts>>

Device == "device"
Answer(q, of, v) == [q |-> q, of |-> of, v |-> v]
Error(text) == <<Answer("error", Device, <<text>>)>>

\* Fault: the overrides are loaded first.
FaultyAll == <<"rpi4_overrides", "base", "cat", "free", "fs", "groups", "ifconfig",
               "which">>

\* The modules of __all__ that define a command overridden here, in its order.
All == <<"base", "cat", "free", "fs", "groups", "ifconfig", "which",
         "rpi4_overrides">>

\* The commands registered at the end of rpi4_overrides.
Overrides == {"id", "groups", "cat", "ifconfig", "head", "lsb_release", "nproc",
              "free", "which", "tr"}

Defines(module) == IF module = "rpi4_overrides" THEN Overrides ELSE Stock[module]

-----------------------------------------------------------------------------
(* Accounts.                                                               *)

\* getgrgid: the first entry with the number; the user's own name if none.
Primary(db, name, gid) ==
  LET with == Keep(db.group, {g \in ToSet(db.group) : g.gid = gid})
  IN IF with = << >> THEN [name |-> name, gid |-> gid, members |-> {}] ELSE with[1]

\* The groups but those with a number already seen: in ascending order each
\* number the user is a member of, under the first name that lists him.
Supplementary(db, name, seen) ==
  LET gid    == [g \in ToSet(db.group) |-> g.gid]
      listed == {g \in ToSet(db.group) : name \in g.members /\ g.gid \notin seen}
  IN Firsts(Keep(Sorted(db.group, gid), listed), gid)

\* Fault: the primary group is not remembered as seen.
FaultyGroupEntries(db, name, gid) ==
  <<Primary(db, name, gid)>> \o Supplementary(db, name, {})

\* _group_entries
GroupEntries(db, name, gid) ==
  <<Primary(db, name, gid)>> \o Supplementary(db, name, {gid})

\* What id and groups print of each user; id shows the numbers too.
Membership ==
  [db \in Accounts |-> [name \in DOMAIN db.passwd |->
    LET entries == GroupEntries(db, name, db.passwd[name])
    IN [ names |-> [i \in DOMAIN entries |-> entries[i].name],
         gids  |-> [i \in DOMAIN entries |-> entries[i].gid] ]]]

Known(name) == name \in DOMAIN accounts.passwd

Subject(args) == IF args = << >> THEN user ELSE args[1]

Id(args) ==
  LET name == Subject(args)
  IN IF ~Known(name) THEN Error("no such user")
     ELSE <<Answer("gids", name, Membership[accounts][name].gids),
            Answer("names", name, Membership[accounts][name].names)>>

GroupsCommand(args) ==
  LET name == Subject(args)
  IN IF ~Known(name) THEN Error("no such user")
     ELSE <<Answer("names", name, Membership[accounts][name].names)>>

-----------------------------------------------------------------------------
(* The other commands.                                                     *)

\* A fixed line about the device.
Fixed(q, v) == <<Answer(q, Device, v)>>

Model == <<"Raspberry", "Pi", "4", "Model", "B", "Rev", "1.2">>

\* /proc/self/status, whoever asks.
Status == <<Answer("gids", "pi", <<4, 20, 24, 27, 29, 44, 46, 60, 100, 105, 109, 117,
                                  994, 997, 998, 999, 1000>>),
            Answer("cpus", Device, <<"4">>)>>

LsbRelease(args) == IF args \in {<<"-d">>, <<"--description">>}
                    THEN Fixed("system", <<"Raspbian", "10">>)
                    ELSE Error("invalid option")

\* Fault: the number of processors was changed in one place.
FaultyNproc == Fixed("cpus", <<"2">>)

Nproc == Fixed("cpus", <<"4">>)

Free == Fixed("memory", <<"3.7Gi">>) \o Fixed("swap", <<"99Mi">>)

WhichCommand(args) ==
  IF args = <<"apt">> THEN Fixed("apt", <<"/usr/bin/apt">>)
  ELSE [i \in DOMAIN args |-> Error("no such command")[1]]

\* The first lines, ten if no number is given; a negative number leaves off
\* lines at the end, and the name of a file is refused.
HeadCommand(args, input) ==
  LET Upto(n) == IF n < 0 THEN Len(input) + n
                 ELSE IF n < Len(input) THEN n ELSE Len(input)
      First(n) == SubSeq(input, 1, Upto(n))
  IN IF args = << >> THEN First(10)
     ELSE IF args[1] = "-1"
          THEN IF Len(args) = 1 THEN First(1) ELSE Error("cannot open")
     ELSE IF Len(args) < 2 \/ args[1] \notin {"-n", "--lines"} THEN Error("cannot open")
     ELSE IF args[2] \notin Int THEN Error("invalid number of lines")
     ELSE IF Len(args) = 2 THEN First(args[2]) ELSE Error("cannot open")

\* The characters of a word; the byte Nul is in no other word.
Letters(word) == IF word = Nul THEN {Nul} ELSE Spelling(word) \ {Nul}

\* Fault: the argument of tr is taken as it is written.
FaultyExpand(arg) == Letters(arg)

\* _expand_tr_bytes: Nul can be written in three ways, other escapes are decoded,
\* and what cannot be decoded stands for its own characters.  (Characters beyond
\* Latin-1 are dropped; no word has one.)
Expand(arg) == IF arg \in {"\\0", "\\000", Nul} THEN {Nul}
               ELSE IF arg \in DOMAIN Unescaped THEN Unescaped[arg]
               ELSE Letters(arg)

\* What is left of words when the characters del are deleted.
Left(words, del) ==
  LET kept == Keep(words, {w \in ToSet(words) : Letters(w) \cap del = {}
                                                \/ Letters(w) \ del # {}})
  IN [i \in 1..Len(kept) |->
       IF Letters(kept[i]) \cap del = {} THEN kept[i] ELSE Garbled]

Deletes(args) == Len(args) >= 2 /\ args[1] = "-d"

\* What start does: what it prints, and whether it calls exit.
Leaving(out) == [out |-> out, exits |-> TRUE]
Staying(out) == [out |-> out, exits |-> FALSE]

\* tr -d deletes; other uses pass their input on.
TrStart(args, input) ==
  IF Deletes(args)
  THEN Leaving([i \in 1..Len(input) |->
                 [input[i] EXCEPT !.v = Left(@, Expand(args[2]))]])
  ELSE Leaving(input)

\* Cowrie's own cat: without a file and without input it waits for lines.
StockCatStart(args, input) ==
  IF args = << >> /\ ~piped THEN Staying(<< >>) ELSE Leaving(input)

\* Fault: the branch of the second file forgets to exit.
FaultyCatStart(args, input) ==
  CASE args = <<"/proc/device-tree/model">> -> Leaving(Fixed("model", Append(Model, Nul)))
    [] args = <<"/proc/self/status">> -> Staying(Status)
    [] OTHER -> StockCatStart(args, input)

CatStart(args, input) ==
  CASE args = <<"/proc/device-tree/model">> -> Leaving(Fixed("model", Append(Model, Nul)))
    [] args = <<"/proc/self/status">> -> Leaving(Status)
    [] OTHER -> StockCatStart(args, input)

Ifconfig == Error("command not found")

\* Starting a stage: tr and cat replace start; the start of the others lets
\* call print, complaints among it, and exits.
Start(stage, input) ==
  LET Runs(name) == /\ stage.name = name /\ name \in Overrides
                    /\ registry[name] = "rpi4_overrides"
  IN CASE Runs("tr")          -> TrStart(stage.args, input)
       [] Runs("cat")         -> CatStart(stage.args, input)
       [] Runs("id")          -> Leaving(Id(stage.args))
       [] Runs("groups")      -> Leaving(GroupsCommand(stage.args))
       [] Runs("head")        -> Leaving(HeadCommand(stage.args, input))
       [] Runs("which")       -> Leaving(WhichCommand(stage.args))
       [] Runs("nproc")       -> Leaving(Nproc)
       [] Runs("free")        -> Leaving(Free)
       [] Runs("lsb_release") -> Leaving(LsbRelease(stage.args))
       [] Runs("ifconfig")    -> Leaving(Ifconfig)
       [] OTHER               -> Leaving(input)

\* What _patched_line_received answers itself.
Canned(probe) ==
  CASE probe = "syntax"   -> Error("syntax error")
    [] probe = "tree"     -> Fixed("model", Model)
    [] probe = "hostname" -> Fixed("hostname", <<"raspberrypi">>)
    [] probe = "summary"  ->
         Fixed("system", <<"Raspbian", "10">>) \o Fixed("apt", <<"/usr/bin/apt">>)
           \o Fixed("cpus", <<"4">>) \o Fixed("memory", <<"3.7Gi">>)

-----------------------------------------------------------------------------
(* The steps.                                                              *)

\* Later modules replace what earlier ones registered under a name.
Import ==
  /\ imported < Len(All)
  /\ LET module == All[imported + 1]
     IN registry' = [name \in DOMAIN registry \cup Defines(module) |->
                      IF name \in Defines(module) THEN module ELSE registry[name]]
  /\ imported' = imported + 1
  /\ UNCHANGED <<accounts, user, running, shown, lines, prompts>>

\* Login: the first prompt.
Login == /\ imported = Len(All) /\ prompts = 0 /\ prompts' = 1
         /\ UNCHANGED <<accounts, user, imported, registry, running, shown, lines>>

\* Fault: the shell sees a line that was answered.
FaultyPassedOn(line) == line.stages

\* A line that was answered is not passed on to the shell.
PassedOn(line) == IF line.probe = "none" THEN line.stages ELSE << >>

\* The shell reads a line; while a command runs, lines are not the shell's.
LineReceived(line) ==
  /\ prompts > 0 /\ pipeline = << >> /\ lines < MaxLines
  /\ lines' = lines + 1
  /\ pipeline' = PassedOn(line)
  /\ IF line.probe = "none" THEN UNCHANGED <<shown, prompts>>
     ELSE shown' = shown \cup ToSet(Canned(line.probe)) /\ prompts' = prompts + 1
  /\ UNCHANGED <<accounts, user, imported, registry, piped, data, waiting>>

\* exit: what was printed for it is the input of the next stage, which starts;
\* behind the last one the shell prompts.
Exit(printed) ==
  /\ pipeline' = Tail(pipeline) /\ waiting' = FALSE
  /\ IF Len(pipeline) > 1
     THEN piped' = TRUE /\ data' = printed /\ UNCHANGED prompts
     ELSE piped' = FALSE /\ data' = << >> /\ prompts' = prompts + 1

\* A stage starts; complaints, and what the last stage prints, go to the
\* terminal.
RunStage ==
  /\ pipeline # << >> /\ ~waiting
  /\ LET started == Start(Head(pipeline), data)
         out     == started.out
         errors  == {a \in ToSet(out) : a.q = "error"}
     IN /\ shown' = shown \cup (IF Len(pipeline) > 1 THEN errors ELSE ToSet(out))
        /\ IF started.exits THEN Exit(Keep(out, ToSet(out) \ errors))
           ELSE waiting' = TRUE /\ UNCHANGED <<pipeline, piped, data, prompts>>
  /\ UNCHANGED <<accounts, user, imported, registry, lines>>

\* Ctrl-D ends a cat that waits.  The lines it gave back are the user's own.
EndOfInput ==
  /\ waiting /\ Head(pipeline).name = "cat"
  /\ Exit(<< >>)
  /\ UNCHANGED <<accounts, user, imported, registry, shown, lines>>

-----------------------------------------------------------------------------
Init ==
  /\ accounts \in Accounts /\ user \in Users
  /\ imported = 0 /\ registry = [name \in {} |-> ""]
  /\ pipeline = << >> /\ piped = FALSE /\ data = << >> /\ waiting = FALSE
  /\ shown = {}
  /\ lines = 0 /\ prompts = 0

Next ==
  \/ Import \/ Login
  \/ (\E line \in Typed : LineReceived(line))
  \/ RunStage \/ EndOfInput

\* A command that can start is started; nobody has to type Ctrl-D.
Spec == Init /\ [][Next]_vars /\ WF_vars(RunStage)

-----------------------------------------------------------------------------
(* Properties.                                                             *)

Questions == {"gids", "names", "model", "system", "cpus", "memory", "swap", "apt",
              "hostname", "error"}

\* An answer to one of the questions, about the device or a user it knows: a
\* list of words.
IsAnswer(a) ==
  /\ a = Answer(a.q, a.of, a.v)
  /\ a.q \in Questions
  /\ a.of \in {Device, "pi"} \cup DOMAIN accounts.passwd
  /\ DOMAIN a.v = 1..Len(a.v)

\* Every variable has a value the code can give it: a list of answers is handed
\* from stage to stage, and no complaint with it; a command that waits is the
\* first of what is left to run; once the modules are imported the names
\* overridden here are run by the overrides, whatever module of Cowrie defines
\* them too.
TypeOK ==
  /\ accounts \in Accounts /\ user \in Users
  /\ imported \in 0..Len(All) /\ lines \in 0..MaxLines /\ prompts \in 0..(MaxLines + 1)
  /\ pipeline # << >> => \E line \in Typed : IsSuffix(pipeline, line.stages)
  /\ piped \in BOOLEAN /\ waiting \in BOOLEAN /\ (waiting => pipeline # << >>)
  /\ DOMAIN data = 1..Len(data)
  /\ \A a \in ToSet(data) : IsAnswer(a) /\ a.q # "error"
  /\ \A a \in shown : IsAnswer(a)
  /\ imported = Len(All) => \A name \in Overrides : registry[name] = "rpi4_overrides"

\* Each line is answered once: between two lines there is exactly one prompt,
\* whether the line was a probe, a command or a pipeline.
OnePrompt ==
  prompts > 0 => prompts + (IF pipeline = << >> THEN 0 ELSE 1) = lines + 1

\* cat without anything to read: what Cowrie's cat does on a terminal.
ReadsTerminal ==
  /\ waiting /\ ~piped
  /\ Head(pipeline).name = "cat" /\ Head(pipeline).args = << >>

\* The shell comes back: a line that was typed is answered without further
\* input, unless it begins with a cat that has nothing to read.  Every branch
\* of the commands that replace start calls exit (Command_tr_rpi4,
\* Command_cat_rpi4).
ShellReturns == pipeline # << >> ~> (pipeline = << >> \/ ReadsTerminal)

\* id and groups show what Linux shows: the primary group first, then every
\* other number the user is a member of in ascending order, none twice, and
\* the two commands the same names in the same order.
GroupsAsLinux ==
  \A u \in DOMAIN accounts.passwd :
    LET Told(q) == {a.v : a \in {a \in shown : a.q = q /\ a.of = u}}
        others  == {g.gid : g \in {g \in ToSet(accounts.group) : u \in g.members}}
    IN /\ \A v \in Told("gids") \ {Status[1].v} :
            /\ v[1] = accounts.passwd[u]
            /\ ToSet(Tail(v)) = others \ {v[1]}
            /\ \A i, j \in 2..Len(v) : i < j => v[i] < v[j]
       /\ Cardinality(Told("names")) <= 1

\* The device gives one picture of itself: whichever way something is asked
\* (a probe answered whole, a command, a pipeline, a file of /proc) the answer
\* is the same but for the order and the end of a string.
OnePicture ==
  \A a, b \in shown :
    a.q = b.q /\ a.of = b.of /\ a.q # "error" =>
      ToSet(a.v) \ {Nul} = ToSet(b.v) \ {Nul}
=============================================================================
