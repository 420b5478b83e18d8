-------------------------- MODULE TelemetryClient --------------------------
(***************************************************************************)
(* The commands' side of usage telemetry: who may send an event, and under *)
(* which install id.  Two files decide, config.yaml (the developer's       *)
(* settings, telemetry.enabled among them) and telemetry.json (consent and *)
(* the salt the install id is the digest of).  Every command reads them    *)
(* once and rewrites them whole, in place and without a lock.              *)
(*                                                                         *)
(* Salts are numbered in the order they are drawn, and an install id is    *)
(* the number of its salt; 0 is no salt.                                   *)
(***************************************************************************)
EXTENDS Naturals, Sequences, FiniteSets

CONSTANTS
  Procs,       \* commands that can run at once
  MaxEvents,   \* bound: components one command reports on
  MaxCommands, \* bound: commands started
  MaxFaults    \* bound: writes that fail and commands that are killed

ASSUME BoundAssumption ==
  MaxEvents \in Nat \ {0} /\ MaxCommands \in Nat /\ MaxFaults \in Nat

VARIABLES
  conf,    \* telemetry.enabled in config.yaml, "bad" when the file does not parse
  file,    \* what load makes of telemetry.json
  drawn,   \* salts drawn so far
  aged,    \* salts up to this one are 90 days old
  cmd,     \* cmd[p]: the command p runs, its copies of the two files, its events
  started, faults,
  will,    \* the developer's last decision, once a command has recorded it alone
  mishaps, \* faults and overlapping commands since then, two standing for more
  floor    \* the salt of the last rotate that ran alone

files   == <<conf, file>>
ghosts  == <<will, mishaps, floor>>
bounds  == <<started, faults>>
vars    == <<files, drawn, aged, cmd, bounds, ghosts>>

\* A missing or unreadable telemetry.json: nothing asked, nothing granted, no salt.
Zero == [salt |-> 0, asked |-> FALSE, granted |-> FALSE]

Setters == {"enable", "disable"}  \* fdh telemetry enable | disable
\* A session is an install or an update, which report what they did.
Kinds   == {"session", "claim", "rotate", "set"} \union Setters

Resting == [kind |-> "none", at |-> "idle", env |-> "default", conf |-> "unset",
            st |-> Zero, loaded |-> FALSE, left |-> 0, queue |-> <<>>, then |-> "none",
            alone |-> FALSE]

Init ==
  /\ conf = "unset" /\ file = Zero /\ drawn = 0 /\ aged = 0
  /\ cmd = [p \in Procs |-> Resting]
  /\ started = 0 /\ faults = 0
  /\ will = "unset" /\ mishaps = 0 /\ floor = 0

At(p, step) == cmd[p].at = step
Goto(p, step) == cmd' = [cmd EXCEPT ![p].at = step]
Ends(p) == cmd' = [cmd EXCEPT ![p] = Resting]

\* Anything that went wrong since the last decision; two of them are as many.
Mishap == mishaps' = IF mishaps = 2 THEN 2 ELSE mishaps + 1
Fault == faults < MaxFaults /\ faults' = faults + 1 /\ Mishap

-----------------------------------------------------------------------------
(* Enablement. *)

(* The environment of a command decides for it: DO_NOT_TRACK says off before
   FDH_TELEMETRY says on or off. *)
EnvDecision(doNotTrack, fdhTelemetry) == IF doNotTrack THEN "off" ELSE fdhTelemetry
Envs == {EnvDecision(d, f) : d \in BOOLEAN, f \in {"on", "off", "default"}}

\* Resolve: then telemetry.enabled does.
Decision(c) ==
  CASE c.env # "default"                       -> c.env
    [] c.env = "default" /\ c.conf = "true"    -> "on"
    [] c.env = "default" /\ c.conf = "false"   -> "off"
    [] c.env = "default" /\ c.conf = "unset"   -> "default"

\* load: once per command, lazily.
Loaded(c) == IF c.loaded THEN c ELSE [c EXCEPT !.st = file, !.loaded = TRUE]

(* ResolveWithConsent: the recorded answer decides when nothing else does. *)
Enabled(c) == \/ Decision(c) = "on"
              \/ Decision(c) = "default" /\ Loaded(c).st.asked /\ Loaded(c).st.granted

-----------------------------------------------------------------------------
(* A command starts: viper reads config.yaml, and a file that does not parse
   stops every command. *)

FirstStep(kind) ==
  CASE kind \in {"session", "claim", "rotate"} -> kind
    [] kind \in Setters \union {"set"}        -> "config"

Others(p) == {q \in Procs \ {p} : ~At(q, "idle")}

(* setTo is the value of telemetry.enabled that the command will write back: its
   own for enable, disable and `config set telemetry.enabled`, else the one it
   has just read. *)
Start(p, kind, env, left, setTo) ==
  LET decides == kind \in Setters \/ setTo # conf IN
  /\ At(p, "idle") /\ conf # "bad" /\ started < MaxCommands
  /\ started' = started + 1
  /\ cmd' = [q \in Procs |->
       IF q = p THEN [Resting EXCEPT !.kind = kind, !.at = FirstStep(kind), !.env = env,
                                     !.left = left, !.conf = setTo, !.alone = Others(p) = {}]
       ELSE [cmd[q] EXCEPT !.alone = FALSE]]
  /\ will' = IF decides THEN "unset" ELSE will
  /\ IF Others(p) # {} THEN Mishap ELSE mishaps' = IF decides THEN 0 ELSE mishaps
  /\ UNCHANGED <<files, drawn, aged, faults, floor>>

StartSession(p) == \E env \in Envs, n \in 1 .. MaxEvents : Start(p, "session", env, n, conf)
StartClaim(p)   == \E env \in Envs : Start(p, "claim", env, 1, conf)
StartRotate(p)  == Start(p, "rotate", "default", 0, conf)
StartSetter(p)  == \/ Start(p, "enable", "default", 0, "true")
                   \/ Start(p, "disable", "default", 0, "false")
\* `fdh config set telemetry.enabled`.
StartSet(p) == \E setTo \in {"true", "false"} : Start(p, "set", "default", 0, setTo)
\* `fdh init`, and `config set` of another key, write the setting back as they read it.
StartInit(p) == Start(p, "set", "default", 0, conf)

-----------------------------------------------------------------------------
(* writeConfigFile: os.WriteFile truncates config.yaml and writes it anew. *)

OpenConfig(p) ==
  /\ At(p, "config")
  /\ conf' = "unset"
  /\ Goto(p, "write config")
  /\ UNCHANGED <<file, drawn, aged, bounds, ghosts>>

WriteConfig(p) ==
  /\ At(p, "write config")
  /\ conf' = cmd[p].conf
  /\ IF cmd[p].kind \in Setters THEN Goto(p, "consent") ELSE Ends(p)
  /\ UNCHANGED <<file, drawn, aged, bounds, ghosts>>

\* The file cannot be opened, or is cut short: no value, or no YAML.
ConfigFails(p) ==
  /\ \/ At(p, "config") /\ UNCHANGED conf
     \/ At(p, "write config") /\ conf' \in {"unset", "bad"}
  /\ Fault /\ Ends(p)
  /\ UNCHANGED <<file, drawn, aged, started, will, floor>>

-----------------------------------------------------------------------------
(* Install ids. *)

NewSalt(c) == [Loaded(c) EXCEPT !.st.salt = drawn + 1]
Expired(salt) == salt <= aged

\* `claim` prints the id, a session puts it into an event.
WithEvent(c) ==
  IF c.kind = "claim" THEN Resting
  ELSE [c EXCEPT !.at = "id", !.left = @ - 1, !.queue = Append(@, c.st.salt)]
WithoutEvent(c) ==
  IF c.kind = "claim" THEN Resting ELSE [c EXCEPT !.at = "id", !.left = @ - 1]

-----------------------------------------------------------------------------
(* save: telemetry.json, truncated and written; then the command goes on. *)

SaveAnd(p, c, step) == cmd' = [cmd EXCEPT ![p] = [c EXCEPT !.at = "open", !.then = step]]

(* enable, disable and the prompt go on whether or not the answer was saved.
   Without a first id the event is dropped, but a new salt that replaces an old
   one is used although it was not saved. *)
After(c, ok) ==
  LET d == [c EXCEPT !.then = "none"] IN
  CASE c.then \in {"decided", "rotated"} -> Resting
    [] c.then = "answered"               -> [d EXCEPT !.at = "resolve"]
    [] c.then = "first"                  -> IF ok THEN WithEvent(d) ELSE WithoutEvent(d)
    [] c.then = "event"                  -> WithEvent(d)

\* A decision stands, and a rotate counts, when its command did it alone.
Stands(c) ==
  will' = IF c.then \in {"decided", "answered"} /\ c.alone
          THEN (IF c.st.granted THEN "yes" ELSE "no") ELSE will

\* Mutant: a rotate that could not be saved is reported as done.
CountsAnyway(c, ok) ==
  floor' = IF c.then = "rotated" /\ c.alone THEN c.st.salt ELSE floor
Counts(c, ok) ==
  floor' = IF c.then = "rotated" /\ ok /\ c.alone THEN c.st.salt ELSE floor

Open(p) ==
  /\ At(p, "open")
  /\ file' = Zero
  /\ Goto(p, "write")
  /\ UNCHANGED <<conf, drawn, aged, bounds, ghosts>>

Write(p) ==
  /\ At(p, "write")
  /\ file' = cmd[p].st
  /\ cmd' = [cmd EXCEPT ![p] = After(@, TRUE)]
  /\ Stands(cmd[p]) /\ Counts(cmd[p], TRUE)
  /\ UNCHANGED <<conf, drawn, aged, bounds, mishaps>>

SaveFails(p) ==
  /\ At(p, "open") \/ At(p, "write")
  /\ Fault
  /\ cmd' = [cmd EXCEPT ![p] = After(@, FALSE)]
  /\ Stands(cmd[p]) /\ Counts(cmd[p], FALSE)
  /\ UNCHANGED <<files, drawn, aged, started>>

-----------------------------------------------------------------------------
(* The answers. *)

Answered(c, granted) == [Loaded(c) EXCEPT !.st.asked = TRUE, !.st.granted = granted]

\* Mutant: disable leaves the answer to the prompt as it was.
SetConsentGranted(p) ==
  /\ At(p, "consent")
  /\ IF cmd[p].kind = "enable" THEN SaveAnd(p, Answered(cmd[p], TRUE), "decided") /\ UNCHANGED will
     ELSE Ends(p) /\ will' = IF cmd[p].alone THEN "no" ELSE will
  /\ UNCHANGED <<files, drawn, aged, bounds, mishaps, floor>>

\* enable and disable record the consent beside the setting.
SetConsent(p) ==
  /\ At(p, "consent")
  /\ SaveAnd(p, Answered(cmd[p], cmd[p].kind = "enable"), "decided")
  /\ UNCHANGED <<files, drawn, aged, bounds, ghosts>>

(* MaybePrompt, until the question: only on a terminal, outside CI, and when
   nothing has decided yet. *)
Session(p, tty) ==
  LET c == Loaded(cmd[p]) IN
  /\ At(p, "session")
  /\ IF Decision(cmd[p]) = "default" /\ tty
     THEN cmd' = [cmd EXCEPT ![p] = [c EXCEPT !.at = IF c.st.asked THEN "resolve" ELSE "prompt"]]
     ELSE Goto(p, "resolve")
  /\ UNCHANGED <<files, drawn, aged, bounds, ghosts>>

\* Mutant: only a yes is recorded.
AnswerIfYes(p, granted) ==
  /\ At(p, "prompt")
  /\ IF granted THEN SaveAnd(p, Answered(cmd[p], granted), "answered") ELSE Goto(p, "resolve")
  /\ mishaps' = IF cmd[p].alone THEN 0 ELSE mishaps
  /\ will' = IF cmd[p].alone /\ ~granted THEN "no" ELSE "unset"
  /\ UNCHANGED <<files, drawn, aged, bounds, floor>>

\* The answer comes when it comes; it is recorded whatever it is.
Answer(p, granted) ==
  /\ At(p, "prompt")
  /\ SaveAnd(p, Answered(cmd[p], granted), "answered")
  /\ mishaps' = IF cmd[p].alone THEN 0 ELSE mishaps
  /\ will' = "unset"
  /\ UNCHANGED <<files, drawn, aged, bounds, floor>>

-----------------------------------------------------------------------------
(* The events of a session, and `fdh telemetry claim`, which asks nothing. *)

Resolved(p) ==
  LET c == IF Decision(cmd[p]) = "default" THEN Loaded(cmd[p]) ELSE cmd[p] IN
  /\ At(p, "resolve") \/ At(p, "claim")
  /\ IF Enabled(cmd[p]) THEN cmd' = [cmd EXCEPT ![p] = [c EXCEPT !.at = "id"]] ELSE Ends(p)
  /\ UNCHANGED <<files, drawn, aged, bounds, ghosts>>

\* The first id is drawn when it is needed, an old one is replaced.
InstallID(p) ==
  LET c == Loaded(cmd[p]) IN
  /\ At(p, "id") /\ c.left > 0
  /\ IF Expired(c.st.salt)
     THEN /\ drawn' = drawn + 1
          /\ SaveAnd(p, NewSalt(c), IF c.st.salt = 0 THEN "first" ELSE "event")
     ELSE UNCHANGED drawn /\ cmd' = [cmd EXCEPT ![p] = WithEvent(c)]
  /\ UNCHANGED <<files, aged, bounds, ghosts>>

\* flushOnce closes the queue and posts each event once; nobody minds the outcome.
Flush(p) ==
  /\ At(p, "id") /\ cmd[p].left = 0
  /\ Goto(p, "flush")
  /\ UNCHANGED <<files, drawn, aged, bounds, ghosts>>

Post(p) ==
  /\ At(p, "flush") /\ cmd[p].queue # <<>>
  /\ cmd' = [cmd EXCEPT ![p].queue = Tail(@)]
  /\ UNCHANGED <<files, drawn, aged, bounds, ghosts>>

\* Nothing is left, or the time box of two seconds is over: the rest is dropped.
FlushEnds(p) ==
  /\ At(p, "flush")
  /\ Ends(p)
  /\ UNCHANGED <<files, drawn, aged, bounds, ghosts>>

Rotate(p) ==
  /\ At(p, "rotate")
  /\ drawn' = drawn + 1
  /\ SaveAnd(p, NewSalt(cmd[p]), "rotated")
  /\ UNCHANGED <<files, aged, bounds, ghosts>>

-----------------------------------------------------------------------------
(* The world. *)

NinetyDays ==
  /\ aged < drawn /\ aged' = drawn
  /\ UNCHANGED <<files, drawn, cmd, bounds, ghosts>>

\* A command is killed at a question or between two steps.
Killed(p) ==
  /\ ~At(p, "idle") /\ ~At(p, "write config")
  /\ Fault /\ Ends(p)
  /\ UNCHANGED <<files, drawn, aged, started, will, floor>>

Starts(p) ==
  \/ StartSession(p) \/ StartClaim(p) \/ StartRotate(p)
  \/ StartSetter(p) \/ StartSet(p) \/ StartInit(p)
Steps(p) ==
  \/ OpenConfig(p) \/ WriteConfig(p) \/ ConfigFails(p) \/ SetConsent(p)
  \/ Open(p) \/ Write(p) \/ SaveFails(p)
  \/ \E tty \in BOOLEAN : Session(p, tty)
  \/ \E granted \in BOOLEAN : Answer(p, granted)
  \/ Resolved(p) \/ InstallID(p) \/ Rotate(p)
  \/ Flush(p) \/ Post(p) \/ FlushEnds(p)

Next == (\E p \in Procs : Starts(p) \/ Steps(p) \/ Killed(p)) \/ NinetyDays

Spec == Init /\ [][Next]_vars

-----------------------------------------------------------------------------
\* Every variable has its type, and ids are of salts that were drawn.
TypeOK ==
  /\ conf \in {"unset", "true", "false", "bad"}
  /\ aged \in 0 .. drawn /\ floor \in 0 .. drawn /\ file.salt \in 0 .. drawn
  /\ \A p \in Procs :
       /\ cmd[p].kind \in Kinds \union {"none"}
       /\ cmd[p].st.salt \in 0 .. drawn /\ ~cmd[p].loaded => cmd[p].st = Zero
       /\ \A i \in DOMAIN cmd[p].queue : cmd[p].queue[i] \in 1 .. drawn
  /\ started \in 0 .. MaxCommands /\ faults \in 0 .. MaxFaults
  /\ will \in {"unset", "yes", "no"} /\ mishaps \in 0 .. 2

(* Once the developer has said no, to the prompt or with `telemetry disable`, no
   later command has an event to send unless FDH_TELEMETRY asks for it, although
   one of the two files is lost or cut short, one command is killed, or two run at
   once: config.yaml and telemetry.json both hold the answer (telemetry_cmd.go,
   runTelemetrySet; consent.go, MaybePrompt). *)
OptOutHolds ==
  will = "no" /\ mishaps <= 1 =>
    \A p \in Procs : cmd[p].queue # <<>> => cmd[p].env = "on"

(* Once a `telemetry rotate` has succeeded, with no other command running, no id
   that was in use before is sent again, whatever fails, is killed or overlaps
   afterwards (telemetry.go, rotateLocked and InstallID). *)
RotateForgets ==
  \A p \in Procs : \A i \in DOMAIN cmd[p].queue : cmd[p].queue[i] >= floor

(* After a decision the first-run question is not put again, unless something went
   wrong since (consent.go, MaybePrompt: one-time, regardless of the answer). *)
AskedOnce ==
  /\ TypeOK
  /\ will # "unset" /\ mishaps = 0 => \A p \in Procs : ~At(p, "prompt")

=============================================================================
