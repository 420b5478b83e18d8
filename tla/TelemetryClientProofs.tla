----------------------- MODULE TelemetryClientProofs -----------------------
(***************************************************************************)
(* Proofs about TelemetryClient, for any number of commands and events and *)
(* any bounds: no question is put twice, an id that was rotated away is    *)
(* not sent again, and a no of the developer holds.                        *)
(***************************************************************************)
EXTENDS TelemetryClient, TLAPS

(***************************************************************************)
(* The inductive invariant                                                 *)
(***************************************************************************)
Stores == [salt : Nat, asked : BOOLEAN, granted : BOOLEAN]
StepNames == {"idle", "session", "claim", "rotate", "config", "write config", "consent",
              "prompt", "resolve", "id", "flush", "open", "write"}
Records == [kind : Kinds \union {"none"}, at : StepNames, env : {"on", "off", "default"},
            conf : {"unset", "true", "false"}, st : Stores, loaded : BOOLEAN, left : Nat,
            queue : Seq(Nat),
            then : {"none", "decided", "answered", "rotated", "first", "event"},
            alone : BOOLEAN]

ClientTyped ==
  /\ conf \in {"unset", "true", "false", "bad"} /\ file \in Stores
  /\ drawn \in Nat /\ aged \in 0 .. drawn
  /\ cmd \in [Procs -> Records]
  /\ started \in 0 .. MaxCommands /\ faults \in 0 .. MaxFaults
  /\ will \in {"unset", "yes", "no"} /\ mishaps \in 0 .. 2 /\ floor \in Nat

\* What a command is doing when it saves, and what it has by then.
Shape(c) ==
  /\ c.at = "idle" => c.kind = "none" /\ c.conf = "unset" /\ c.loaded = FALSE /\ c.alone = FALSE
  /\ c.at \in {"open", "write"} <=> c.then # "none"
  /\ c.queue # <<>> => c.at \in {"id", "flush"} \/ c.then \in {"first", "event"}
  /\ c.then \in {"first", "event"} => c.left > 0
  /\ c.then \in {"rotated", "first", "event"} => c.st.salt > 0
  /\ c.at \in {"config", "write config"} => c.kind \in Setters \union {"set"}
  /\ c.at = "consent" \/ c.then = "decided" => c.kind \in Setters
  /\ c.kind = "disable" => c.conf = "false"
  /\ c.then = "decided" => c.st.asked = TRUE /\ (c.kind = "enable" => c.st.granted = TRUE)
                                             /\ (c.kind = "disable" => c.st.granted = FALSE)
  /\ c.loaded = FALSE => c.st = Zero
  /\ c.then # "none" => c.loaded = TRUE
  /\ c.at = "session" => c.kind = "session" /\ c.loaded = FALSE
  /\ c.at = "prompt" \/ c.then = "answered" =>
       c.kind = "session" /\ c.env = "default" /\ c.conf = "unset" /\ c.loaded = TRUE
  /\ c.at = "prompt" => c.st.asked = FALSE
  /\ c.then = "answered" => c.st.asked = TRUE
Shapes == \A p \in Procs : Shape(cmd[p])

\* Ids are of salts that were drawn, and not before the last rotate that counts.
Fresh(salt) == salt <= drawn /\ (salt > 0 => salt >= floor)
SaltsFresh ==
  /\ Fresh(file.salt) /\ floor <= drawn
  /\ \A p \in Procs : /\ Fresh(cmd[p].st.salt)
                      /\ \A i \in DOMAIN cmd[p].queue :
                           cmd[p].queue[i] > 0 /\ Fresh(cmd[p].queue[i])

\* A command that is alone: the others rest, and the files are as it left or read them.
AloneMeans(p) ==
  cmd[p].alone = TRUE =>
    /\ \A q \in Procs : q # p => cmd[q].at = "idle"
    /\ cmd[p].kind = "session" => conf = cmd[p].conf
    /\ cmd[p].kind = "disable" /\ (cmd[p].at = "consent" \/ cmd[p].then = "decided") => conf = "false"
    /\ cmd[p].at = "prompt" => file.asked = FALSE
    /\ cmd[p].at = "open" /\ cmd[p].then = "answered" => file.asked = FALSE
    /\ cmd[p].at = "write" => file = Zero
AloneInv == \A p \in Procs : AloneMeans(p)

ClientInv == ClientTyped /\ Shapes /\ SaltsFresh /\ AloneInv

OneRuns == \A p, q \in Procs : cmd[p].at = "idle" \/ cmd[q].at = "idle" \/ p = q
\* Once a decision was recorded, and until something goes wrong, it is on disk, and
\* every command that has looked knows.
KnowsAsked ==
  will # "unset" /\ mishaps = 0 =>
    /\ OneRuns
    /\ \A p \in Procs : /\ cmd[p].at # "prompt"
                        /\ cmd[p].loaded = TRUE => cmd[p].st.asked = TRUE
    /\ file.asked = TRUE \/ \E p \in Procs : cmd[p].at = "write"

\* While a decision stands no other one is under way.
Undecided == will # "unset" =>
  \A p \in Procs : cmd[p].kind \notin Setters /\ cmd[p].then \notin {"decided", "answered"}

Grants(st) == st.asked = TRUE /\ st.granted = TRUE
\* No copy of telemetry.json says yes,
NoneGrants == ~Grants(file) /\ \A p \in Procs : ~Grants(cmd[p].st)
\* or else config.yaml says no, to the one command that may run.
ConfigDenies ==
  /\ mishaps = 1 /\ OneRuns
  /\ \A p \in Procs : cmd[p].at # "idle" => cmd[p].conf = "false"
  /\ conf = "false" \/ \E p \in Procs : cmd[p].at = "write config"
Sending(c) == c.queue # <<>> \/ c.at = "id" \/ c.then \in {"first", "event"}
NoHolds ==
  will = "no" /\ mishaps <= 1 =>
    /\ conf # "true" /\ \A p \in Procs : cmd[p].conf # "true"
    /\ NoneGrants \/ ConfigDenies
    /\ \A p \in Procs : Sending(cmd[p]) => cmd[p].env = "on"

(***************************************************************************)
(* Records                                                                 *)
(***************************************************************************)
\* What stays with a command from its start to its end.
Keeps(c, d) == d.kind = c.kind /\ d.env = c.env /\ d.conf = c.conf /\ d.alone = c.alone
\* Only p moves.
Only(p) == cmd' \in [Procs -> Records] /\ \A q \in Procs : q # p => cmd'[q] = cmd[q]

LEMMA RestingIs ==
  /\ Resting \in Records /\ Shape(Resting) /\ Zero \in Stores
  /\ Resting.at = "idle" /\ Resting.kind = "none" /\ Resting.then = "none"
  /\ Resting.st = Zero /\ Resting.queue = <<>> /\ Resting.alone = FALSE /\ Resting.conf = "unset"
  /\ Resting.loaded = FALSE /\ Zero.salt = 0 /\ Zero.asked = FALSE /\ Zero.granted = FALSE
<1>1. Zero \in Stores /\ Zero.salt = 0 /\ Zero.asked = FALSE /\ Zero.granted = FALSE
  BY DEF Zero, Stores
<1>2. /\ Resting.at = "idle" /\ Resting.kind = "none" /\ Resting.then = "none"
      /\ Resting.st = Zero /\ Resting.queue = <<>> /\ Resting.alone = FALSE
      /\ Resting.conf = "unset" /\ Resting.loaded = FALSE
  BY DEF Resting
<1>3. Resting \in Records
  BY <1>1 DEF Resting, Records, StepNames
<1>4. Shape(Resting)
  BY <1>2 DEF Shape, Setters
<1> QED BY <1>1, <1>2, <1>3, <1>4

LEMMA Became ==
  ASSUME ClientTyped, NEW p \in Procs, NEW n \in Records, cmd' = [cmd EXCEPT ![p] = n]
  PROVE  Only(p) /\ cmd'[p] = n
BY DEF ClientTyped, Only

LEMMA Went ==
  ASSUME ClientTyped, NEW p \in Procs, NEW x \in StepNames, Goto(p, x)
  PROVE  /\ Only(p) /\ Keeps(cmd[p], cmd'[p]) /\ cmd'[p].at = x
         /\ cmd'[p].st = cmd[p].st /\ cmd'[p].loaded = cmd[p].loaded
         /\ cmd'[p].left = cmd[p].left /\ cmd'[p].queue = cmd[p].queue
         /\ cmd'[p].then = cmd[p].then
<1> DEFINE n == [cmd[p] EXCEPT !.at = x]
<1>1. cmd[p] \in Records
  BY DEF ClientTyped
<1>2. n \in Records
  BY <1>1 DEF Records
<1>3. /\ Keeps(cmd[p], n) /\ n.at = x /\ n.st = cmd[p].st /\ n.loaded = cmd[p].loaded
      /\ n.left = cmd[p].left /\ n.queue = cmd[p].queue /\ n.then = cmd[p].then
  BY <1>1 DEF Records, Keeps
<1>4. cmd' = [cmd EXCEPT ![p] = n]
  BY DEF Goto
<1> HIDE DEF n
<1>5. Only(p) /\ cmd'[p] = n
  BY <1>2, <1>4, Became
<1> QED BY <1>3, <1>5

LEMMA Ended ==
  ASSUME ClientTyped, NEW p \in Procs, Ends(p)
  PROVE  Only(p) /\ cmd'[p] = Resting
BY RestingIs, Became DEF Ends

LEMMA LoadedIs ==
  ASSUME NEW c \in Records, file \in Stores
  PROVE  /\ Loaded(c) \in Records /\ Keeps(c, Loaded(c)) /\ Loaded(c).loaded = TRUE
         /\ Loaded(c).at = c.at /\ Loaded(c).left = c.left /\ Loaded(c).queue = c.queue
         /\ Loaded(c).then = c.then
         /\ c.loaded = TRUE => Loaded(c).st = c.st
         /\ c.loaded = FALSE => Loaded(c).st = file
<1>1. c.loaded \in BOOLEAN
  BY DEF Records
<1>2. CASE c.loaded = TRUE
  BY <1>2 DEF Loaded, Keeps
<1>3. CASE c.loaded = FALSE
  <2>1. Loaded(c) = [c EXCEPT !.st = file, !.loaded = TRUE]
    BY <1>3 DEF Loaded
  <2> QED BY <1>3, <2>1 DEF Keeps, Records
<1> QED BY <1>1, <1>2, <1>3

\* A command that goes on to save telemetry.json.
LEMMA Saves ==
  ASSUME ClientTyped, NEW p \in Procs, NEW c \in Records, NEW x, SaveAnd(p, c, x),
         x \in {"decided", "answered", "rotated", "first", "event"}
  PROVE  /\ Only(p) /\ Keeps(c, cmd'[p]) /\ cmd'[p].at = "open" /\ cmd'[p].then = x
         /\ cmd'[p].st = c.st /\ cmd'[p].loaded = c.loaded
         /\ cmd'[p].left = c.left /\ cmd'[p].queue = c.queue
<1> DEFINE n == [c EXCEPT !.at = "open", !.then = x]
<1>2. n \in Records
  BY DEF Records, StepNames
<1>3. /\ Keeps(c, n) /\ n.at = "open" /\ n.then = x /\ n.st = c.st /\ n.loaded = c.loaded
      /\ n.left = c.left /\ n.queue = c.queue
  BY DEF Records, Keeps
<1>4. cmd' = [cmd EXCEPT ![p] = n]
  BY DEF SaveAnd
<1> HIDE DEF n
<1>5. Only(p) /\ cmd'[p] = n
  BY <1>2, <1>4, Became
<1> QED BY <1>3, <1>5

LEMMA AnsweredIs ==
  ASSUME NEW c \in Records, file \in Stores, NEW g \in BOOLEAN
  PROVE  /\ Answered(c, g) \in Records /\ Keeps(c, Answered(c, g))
         /\ Answered(c, g).loaded = TRUE /\ Answered(c, g).queue = c.queue
         /\ Answered(c, g).left = c.left
         /\ Answered(c, g).st.asked = TRUE /\ Answered(c, g).st.granted = g
         /\ Answered(c, g).st.salt = Loaded(c).st.salt
<1> DEFINE d == Loaded(c)
           n == [d EXCEPT !.st.asked = TRUE, !.st.granted = g]
<1>1. /\ d \in Records /\ Keeps(c, d) /\ d.loaded = TRUE /\ d.queue = c.queue
      /\ d.left = c.left
  BY LoadedIs
<1>2. Answered(c, g) = n
  BY DEF Answered
<1> HIDE DEF d
<1>3. n \in Records /\ Keeps(d, n) /\ n.loaded = d.loaded /\ n.queue = d.queue /\ n.left = d.left
  BY <1>1 DEF Records, Stores, Keeps
<1>4. n.st.asked = TRUE /\ n.st.granted = g /\ n.st.salt = d.st.salt
  BY <1>1 DEF Records, Stores
<1> QED BY <1>1, <1>2, <1>3, <1>4 DEF Keeps, d

LEMMA NewSaltIs ==
  ASSUME NEW c \in Records, file \in Stores, drawn \in Nat
  PROVE  /\ NewSalt(c) \in Records /\ Keeps(c, NewSalt(c))
         /\ NewSalt(c).loaded = TRUE /\ NewSalt(c).queue = c.queue /\ NewSalt(c).left = c.left
         /\ NewSalt(c).st.salt = drawn + 1
         /\ NewSalt(c).st.asked = Loaded(c).st.asked
         /\ NewSalt(c).st.granted = Loaded(c).st.granted
<1> DEFINE d == Loaded(c)
           s == drawn + 1
           n == [d EXCEPT !.st.salt = s]
<1>1. /\ d \in Records /\ Keeps(c, d) /\ d.loaded = TRUE /\ d.queue = c.queue
      /\ d.left = c.left
  BY LoadedIs
<1>2. NewSalt(c) = n /\ s \in Nat
  BY DEF NewSalt
<1> HIDE DEF d, s
<1>3. n \in Records /\ Keeps(d, n) /\ n.loaded = d.loaded /\ n.queue = d.queue /\ n.left = d.left
  BY <1>1, <1>2 DEF Records, Stores, Keeps
<1>4. n.st.asked = d.st.asked /\ n.st.granted = d.st.granted /\ n.st.salt = s
  BY <1>1 DEF Records, Stores
<1> QED BY <1>1, <1>2, <1>3, <1>4 DEF Keeps, d, s

LEMMA WithEventIs ==
  ASSUME NEW c \in Records, c.left > 0
  PROVE  \/ WithEvent(c) = Resting
         \/ /\ WithEvent(c) \in Records /\ Keeps(c, WithEvent(c)) /\ WithEvent(c).at = "id"
            /\ WithEvent(c).st = c.st /\ WithEvent(c).loaded = c.loaded
            /\ WithEvent(c).then = c.then /\ WithEvent(c).queue = Append(c.queue, c.st.salt)
<1>1. CASE c.kind = "claim"
  BY <1>1 DEF WithEvent
<1>2. CASE c.kind # "claim"
  <2> DEFINE l == c.left - 1
             q == Append(c.queue, c.st.salt)
             n == [c EXCEPT !.at = "id", !.left = l, !.queue = q]
  <2>1. l \in Nat
    BY DEF Records
  <2>2. q \in Seq(Nat)
    BY DEF Records, Stores
  <2>3. WithEvent(c) = n
    BY <1>2 DEF WithEvent
  <2> HIDE DEF l, q
  <2>4. n \in Records
    BY <2>1, <2>2 DEF Records, StepNames
  <2>5. /\ Keeps(c, n) /\ n.at = "id" /\ n.st = c.st /\ n.loaded = c.loaded
        /\ n.then = c.then /\ n.queue = q
    BY DEF Keeps, Records
  <2> QED BY <2>3, <2>4, <2>5 DEF q
<1> QED BY <1>1, <1>2

LEMMA WithoutEventIs ==
  ASSUME NEW c \in Records, c.left > 0
  PROVE  \/ WithoutEvent(c) = Resting
         \/ /\ WithoutEvent(c) \in Records /\ Keeps(c, WithoutEvent(c))
            /\ WithoutEvent(c).at = "id"
            /\ WithoutEvent(c).st = c.st /\ WithoutEvent(c).loaded = c.loaded
            /\ WithoutEvent(c).then = c.then /\ WithoutEvent(c).queue = c.queue
<1>1. CASE c.kind = "claim"
  BY <1>1 DEF WithoutEvent
<1>2. CASE c.kind # "claim"
  <2> DEFINE l == c.left - 1
             n == [c EXCEPT !.at = "id", !.left = l]
  <2>1. l \in Nat
    BY DEF Records
  <2>3. WithoutEvent(c) = n
    BY <1>2 DEF WithoutEvent
  <2> HIDE DEF l
  <2>4. n \in Records
    BY <2>1 DEF Records, StepNames
  <2>5. /\ Keeps(c, n) /\ n.at = "id" /\ n.st = c.st /\ n.loaded = c.loaded
        /\ n.then = c.then /\ n.queue = c.queue
    BY DEF Keeps, Records
  <2> QED BY <2>3, <2>4, <2>5
<1> QED BY <1>1, <1>2

\* What a command is after a save, successful or not.
AfterSave(c, d) ==
  \/ d = Resting
  \/ /\ d \in Records /\ Keeps(c, d) /\ d.st = c.st /\ d.loaded = c.loaded
     /\ d.then = "none"
     /\ \/ c.then = "answered" /\ d.at = "resolve" /\ d.queue = c.queue
        \/ /\ c.then \in {"first", "event"} /\ d.at = "id"
           /\ d.queue \in {c.queue, Append(c.queue, c.st.salt)}

LEMMA AfterIs ==
  ASSUME NEW c \in Records, Shape(c), c.then # "none", NEW ok \in BOOLEAN
  PROVE  AfterSave(c, After(c, ok))
<1> DEFINE d == [c EXCEPT !.then = "none"]
<1>1. d \in Records
  BY DEF Records
<1>2. /\ Keeps(c, d) /\ d.st = c.st /\ d.loaded = c.loaded /\ d.then = "none"
      /\ d.queue = c.queue /\ d.left = c.left
  BY DEF Records, Keeps
<1>3. CASE c.then \in {"decided", "rotated"}
  BY <1>3 DEF After, AfterSave
<1>4. CASE c.then = "answered"
  <2> DEFINE e == [d EXCEPT !.at = "resolve"]
  <2>1. After(c, ok) = e
    BY <1>4 DEF After
  <2> HIDE DEF d
  <2>2. /\ e \in Records /\ Keeps(d, e) /\ e.st = d.st /\ e.loaded = d.loaded
        /\ e.then = d.then /\ e.queue = d.queue /\ e.at = "resolve"
    BY <1>1 DEF Records, Keeps, StepNames
  <2> HIDE DEF e
  <2> QED BY <1>2, <1>4, <2>1, <2>2 DEF AfterSave, Keeps
<1>5. CASE c.then \in {"first", "event"}
  <2>1. d.left > 0
    BY <1>2, <1>5 DEF Shape
  <2>2. After(c, ok) \in {WithEvent(d), WithoutEvent(d)}
    BY <1>5 DEF After
  <2> HIDE DEF d
  <2>3. CASE After(c, ok) = WithEvent(d)
    BY <1>1, <1>2, <1>5, <2>1, <2>3, WithEventIs DEF AfterSave, Keeps
  <2>4. CASE After(c, ok) = WithoutEvent(d)
    BY <1>1, <1>2, <1>5, <2>1, <2>4, WithoutEventIs DEF AfterSave, Keeps
  <2> QED BY <2>2, <2>3, <2>4
<1> QED BY <1>3, <1>4, <1>5 DEF Records

(***************************************************************************)
(* What each step makes of its command                                     *)
(***************************************************************************)
\* What a start makes of its command and of the others.
Started(p) ==
  /\ cmd' \in [Procs -> Records] /\ cmd[p].at = "idle" /\ conf # "bad"
  /\ cmd'[p].at \in {"session", "claim", "rotate", "config"}
  /\ cmd'[p].conf # conf => cmd'[p].kind \in Setters \union {"set"}
  /\ cmd'[p].kind = "enable" => cmd'[p].conf = "true"
  /\ cmd'[p].st = Zero /\ cmd'[p].queue = <<>> /\ cmd'[p].then = "none"
  /\ cmd'[p].loaded = FALSE
  /\ cmd'[p].alone = TRUE <=> Others(p) = {}
  /\ Shape(cmd'[p])
  /\ \A q \in Procs : q # p =>
       /\ cmd'[q].kind = cmd[q].kind /\ cmd'[q].env = cmd[q].env
       /\ cmd'[q].conf = cmd[q].conf /\ cmd'[q].alone = FALSE
       /\ cmd'[q].at = cmd[q].at /\ cmd'[q].st = cmd[q].st
       /\ cmd'[q].loaded = cmd[q].loaded /\ cmd'[q].queue = cmd[q].queue
       /\ cmd'[q].left = cmd[q].left /\ cmd'[q].then = cmd[q].then
  /\ UNCHANGED <<conf, file, drawn, aged, faults, floor>> /\ started < MaxCommands
  /\ started' = started + 1
  /\ LET decides == cmd'[p].kind \in Setters \/ cmd'[p].conf # conf IN
     /\ will' = IF decides THEN "unset" ELSE will
     /\ IF Others(p) # {} THEN Mishap ELSE mishaps' = IF decides THEN 0 ELSE mishaps

LEMMA StartIs ==
  ASSUME ClientTyped, NEW p \in Procs, NEW kind \in Kinds, NEW env \in {"on", "off", "default"},
         NEW left \in Nat, NEW setTo \in {"unset", "true", "false"},
         kind \in Setters => setTo = IF kind = "enable" THEN "true" ELSE "false",
         kind \notin Setters \union {"set"} => setTo = conf,
         Start(p, kind, env, left, setTo)
  PROVE  Started(p)
<1> DEFINE b == Others(p) = {}
           f == FirstStep(kind)
           n == [Resting EXCEPT !.kind = kind, !.at = f, !.env = env,
                                !.left = left, !.conf = setTo, !.alone = b]
           old(q) == [cmd[q] EXCEPT !.alone = FALSE]
<1>1. f \in {"session", "claim", "rotate", "config"}
      /\ (f = "session" => kind = "session") /\ (f = "config" => kind \in Setters \union {"set"})
  BY DEF FirstStep, Kinds, Setters
<1>2. cmd' = [q \in Procs |-> IF q = p THEN n ELSE old(q)]
  BY DEF Start
<1>3. cmd[p].at = "idle" /\ conf # "bad"
  BY DEF Start, At
<1> HIDE DEF f
<1>4. b \in BOOLEAN
  OBVIOUS
<1> HIDE DEF b
<1>5. n \in Records
  BY <1>1, <1>4, RestingIs DEF Records, StepNames
<1>6. /\ n.kind = kind /\ n.at = f /\ n.conf = setTo /\ n.st = Zero /\ n.queue = <<>>
      /\ n.then = "none" /\ n.loaded = FALSE /\ n.alone = b /\ n.env = env
  BY DEF Resting
<1> HIDE DEF n
<1>7. Shape(n)
  <2>1. kind = "disable" => setTo = "false"
    BY DEF Setters
  <2> QED BY <1>1, <1>6, <2>1 DEF Shape, Setters
<1>8. ASSUME NEW q \in Procs
      PROVE  /\ old(q) \in Records
             /\ old(q).kind = cmd[q].kind /\ old(q).env = cmd[q].env
             /\ old(q).conf = cmd[q].conf /\ old(q).alone = FALSE
             /\ old(q).at = cmd[q].at /\ old(q).st = cmd[q].st
             /\ old(q).loaded = cmd[q].loaded /\ old(q).queue = cmd[q].queue
             /\ old(q).left = cmd[q].left /\ old(q).then = cmd[q].then
  <2>1. cmd[q] \in Records
    BY DEF ClientTyped
  <2> QED BY <2>1 DEF Records
<1> HIDE DEF old
<1>9. cmd' \in [Procs -> Records] /\ cmd'[p] = n /\ \A q \in Procs : q # p => cmd'[q] = old(q)
  BY <1>2, <1>5, <1>8
<1>10. n.alone = TRUE <=> b
  BY <1>4, <1>6
<1>11. cmd'[p].alone = TRUE <=> Others(p) = {}
  BY <1>9, <1>10 DEF b
<1>12. \A q \in Procs : q # p =>
              /\ cmd'[q].kind = cmd[q].kind /\ cmd'[q].env = cmd[q].env
              /\ cmd'[q].conf = cmd[q].conf /\ cmd'[q].alone = FALSE
              /\ cmd'[q].at = cmd[q].at /\ cmd'[q].st = cmd[q].st
              /\ cmd'[q].loaded = cmd[q].loaded /\ cmd'[q].queue = cmd[q].queue
              /\ cmd'[q].left = cmd[q].left /\ cmd'[q].then = cmd[q].then
  <2> SUFFICES ASSUME NEW q \in Procs, q # p
               PROVE  /\ cmd'[q].kind = cmd[q].kind /\ cmd'[q].env = cmd[q].env
                      /\ cmd'[q].conf = cmd[q].conf /\ cmd'[q].alone = FALSE
                      /\ cmd'[q].at = cmd[q].at /\ cmd'[q].st = cmd[q].st
                      /\ cmd'[q].loaded = cmd[q].loaded /\ cmd'[q].queue = cmd[q].queue
                      /\ cmd'[q].left = cmd[q].left /\ cmd'[q].then = cmd[q].then
    OBVIOUS
  <2>1. cmd'[q] = old(q)
    BY <1>9
  <2> QED BY <1>8, <2>1
<1>13. /\ UNCHANGED <<conf, file, drawn, aged, faults, floor>> /\ started < MaxCommands
       /\ started' = started + 1
       /\ will' = IF kind \in Setters \/ setTo # conf THEN "unset" ELSE will
       /\ IF Others(p) # {} THEN Mishap
          ELSE mishaps' = IF kind \in Setters \/ setTo # conf THEN 0 ELSE mishaps
  BY DEF Start, files
<1>14. kind = "enable" => setTo = "true"
  BY DEF Setters
<1> QED BY <1>1, <1>3, <1>6, <1>7, <1>9, <1>11, <1>12, <1>13, <1>14 DEF Started

LEMMA SetConsentIs ==
  ASSUME ClientTyped, Shapes, NEW p \in Procs, SetConsent(p)
  PROVE  /\ Only(p) /\ Keeps(cmd[p], cmd'[p]) /\ Shape(cmd'[p])
         /\ cmd[p].at = "consent" /\ cmd'[p].at = "open" /\ cmd'[p].then = "decided"
         /\ cmd'[p].st.asked = TRUE /\ cmd'[p].st.salt \in {cmd[p].st.salt, file.salt}
         /\ cmd'[p].queue = <<>> /\ cmd'[p].loaded = TRUE
<1>1. cmd[p] \in Records /\ Shape(cmd[p]) /\ file \in Stores /\ cmd[p].at = "consent"
  BY DEF ClientTyped, Shapes, SetConsent, At
<1>2. PICK g \in BOOLEAN : g = (cmd[p].kind = "enable")
  OBVIOUS
<1>3. SaveAnd(p, Answered(cmd[p], g), "decided")
  BY <1>2 DEF SetConsent
<1>4. /\ Answered(cmd[p], g) \in Records /\ Keeps(cmd[p], Answered(cmd[p], g))
      /\ Answered(cmd[p], g).loaded = TRUE /\ Answered(cmd[p], g).queue = cmd[p].queue
      /\ Answered(cmd[p], g).st.asked = TRUE /\ Answered(cmd[p], g).st.granted = g
      /\ Answered(cmd[p], g).st.salt = Loaded(cmd[p]).st.salt
  BY <1>1, AnsweredIs
<1>5. /\ Only(p) /\ Keeps(Answered(cmd[p], g), cmd'[p]) /\ cmd'[p].at = "open"
      /\ cmd'[p].then = "decided" /\ cmd'[p].st = Answered(cmd[p], g).st
      /\ cmd'[p].loaded = TRUE /\ cmd'[p].queue = cmd[p].queue
  BY <1>3, <1>4, Saves
<1>6. cmd[p].queue = <<>> /\ cmd[p].kind \in Setters /\ (cmd[p].kind = "disable" => cmd[p].conf = "false")
  BY <1>1 DEF Shape
<1>7. Loaded(cmd[p]).st.salt \in {cmd[p].st.salt, file.salt}
  <2>1. cmd[p].loaded \in BOOLEAN
    BY <1>1 DEF Records
  <2> QED BY <1>1, <2>1, LoadedIs
<1>8. Keeps(cmd[p], cmd'[p])
  BY <1>4, <1>5 DEF Keeps
<1>9. Shape(cmd'[p])
  BY <1>2, <1>4, <1>5, <1>6, <1>8 DEF Shape, Keeps, Setters
<1> QED BY <1>1, <1>4, <1>5, <1>6, <1>7, <1>8, <1>9

LEMMA AnswerIs ==
  ASSUME ClientTyped, Shapes, NEW p \in Procs, NEW g \in BOOLEAN, Answer(p, g)
  PROVE  /\ Only(p) /\ Keeps(cmd[p], cmd'[p]) /\ Shape(cmd'[p])
         /\ cmd[p].at = "prompt" /\ cmd'[p].at = "open" /\ cmd'[p].then = "answered"
         /\ cmd'[p].st.asked = TRUE /\ cmd'[p].st.granted = g
         /\ cmd'[p].st.salt = cmd[p].st.salt
         /\ cmd'[p].queue = <<>> /\ cmd'[p].loaded = TRUE
<1>1. cmd[p] \in Records /\ Shape(cmd[p]) /\ file \in Stores /\ cmd[p].at = "prompt"
  BY DEF ClientTyped, Shapes, Answer, At
<1>2. SaveAnd(p, Answered(cmd[p], g), "answered")
  BY DEF Answer
<1>3. /\ Answered(cmd[p], g) \in Records /\ Keeps(cmd[p], Answered(cmd[p], g))
      /\ Answered(cmd[p], g).loaded = TRUE /\ Answered(cmd[p], g).queue = cmd[p].queue
      /\ Answered(cmd[p], g).st.asked = TRUE /\ Answered(cmd[p], g).st.granted = g
      /\ Answered(cmd[p], g).st.salt = Loaded(cmd[p]).st.salt
  BY <1>1, AnsweredIs
<1>4. /\ Only(p) /\ Keeps(Answered(cmd[p], g), cmd'[p]) /\ cmd'[p].at = "open"
      /\ cmd'[p].then = "answered" /\ cmd'[p].st = Answered(cmd[p], g).st
      /\ cmd'[p].loaded = TRUE /\ cmd'[p].queue = cmd[p].queue
  BY <1>2, <1>3, Saves
<1>5. /\ cmd[p].queue = <<>> /\ cmd[p].loaded = TRUE /\ cmd[p].kind = "session"
      /\ cmd[p].env = "default" /\ cmd[p].conf = "unset"
  BY <1>1 DEF Shape
<1>6. Loaded(cmd[p]).st.salt = cmd[p].st.salt
  BY <1>1, <1>5, LoadedIs
<1>7. Keeps(cmd[p], cmd'[p])
  BY <1>3, <1>4 DEF Keeps
<1>8. Shape(cmd'[p])
  BY <1>3, <1>4, <1>5, <1>7 DEF Shape, Keeps, Setters
<1> QED BY <1>1, <1>3, <1>4, <1>5, <1>6, <1>7, <1>8

LEMMA SessionIs ==
  ASSUME ClientTyped, Shapes, NEW p \in Procs, NEW tty \in BOOLEAN, Session(p, tty)
  PROVE  /\ Only(p) /\ Keeps(cmd[p], cmd'[p]) /\ Shape(cmd'[p]) /\ cmd[p].at = "session"
         /\ cmd'[p].at \in {"resolve", "prompt"} /\ cmd'[p].then = "none"
         /\ cmd'[p].queue = <<>>
         /\ \/ cmd'[p].at = "resolve" /\ cmd'[p].st = Zero /\ cmd'[p].loaded = FALSE
            \/ cmd'[p].st = file /\ cmd'[p].loaded = TRUE
         /\ cmd'[p].at = "prompt" => file.asked = FALSE
<1>1. cmd[p] \in Records /\ Shape(cmd[p]) /\ file \in Stores /\ cmd[p].at = "session"
  BY DEF ClientTyped, Shapes, Session, At
<1>2. cmd[p].queue = <<>> /\ cmd[p].loaded = FALSE /\ cmd[p].then = "none" /\ cmd[p].st = Zero
  BY <1>1 DEF Shape
<1>3. CASE Goto(p, "resolve")
  <2>1. /\ Only(p) /\ Keeps(cmd[p], cmd'[p]) /\ cmd'[p].at = "resolve"
        /\ cmd'[p].st = cmd[p].st /\ cmd'[p].loaded = cmd[p].loaded
        /\ cmd'[p].queue = cmd[p].queue /\ cmd'[p].then = cmd[p].then
    BY <1>3, Went DEF StepNames
  <2>2. Shape(cmd'[p])
    BY <1>1, <1>2, <2>1 DEF Shape, Keeps
  <2> QED BY <1>1, <1>2, <2>1, <2>2
<1>4. CASE ~Goto(p, "resolve")
  <2> DEFINE c == Loaded(cmd[p])
             x == IF c.st.asked THEN "resolve" ELSE "prompt"
             n == [c EXCEPT !.at = x]
  <2>1. /\ c \in Records /\ Keeps(cmd[p], c) /\ c.loaded = TRUE
        /\ c.queue = <<>> /\ c.then = "none" /\ c.st = file
    BY <1>1, <1>2, LoadedIs
  <2>2. x \in {"resolve", "prompt"} /\ (x = "prompt" => file.asked = FALSE)
    BY <1>1, <2>1 DEF Stores
  <2>3. cmd' = [cmd EXCEPT ![p] = n] /\ Decision(cmd[p]) = "default"
    BY <1>4 DEF Session
  <2>4. cmd[p].env = "default" /\ cmd[p].conf = "unset"
    BY <1>1, <2>3 DEF Decision, Records
  <2>5. x = "prompt" => cmd[p].kind = "session"
    BY <1>1 DEF Shape
  <2> HIDE DEF c, x
  <2>6. n \in Records
    BY <2>1, <2>2 DEF Records, StepNames
  <2>7. /\ Keeps(c, n) /\ n.at = x /\ n.loaded = TRUE /\ n.queue = <<>> /\ n.then = "none"
        /\ n.st = file
    BY <2>1 DEF Records, Keeps
  <2> HIDE DEF n
  <2>8. Only(p) /\ cmd'[p] = n
    BY <2>3, <2>6, Became
  <2>9. Keeps(cmd[p], n)
    BY <2>1, <2>7 DEF Keeps
  <2>10. Shape(n)
    BY <1>1, <1>2, <2>2, <2>4, <2>5, <2>7, <2>9 DEF Shape, Keeps
  <2> QED BY <1>1, <2>2, <2>7, <2>8, <2>9, <2>10
<1> QED BY <1>3, <1>4

LEMMA ResolvedIs ==
  ASSUME ClientTyped, Shapes, NEW p \in Procs, Resolved(p)
  PROVE  /\ Only(p) /\ Shape(cmd'[p]) /\ cmd[p].at \in {"resolve", "claim"}
         /\ \/ cmd'[p] = Resting
            \/ /\ Keeps(cmd[p], cmd'[p]) /\ cmd'[p].at = "id" /\ cmd'[p].queue = <<>>
               /\ cmd'[p].then = "none" /\ Enabled(cmd[p])
               /\ \/ cmd'[p].st = cmd[p].st /\ cmd'[p].loaded = cmd[p].loaded
                  \/ cmd'[p].st = file /\ cmd'[p].loaded = TRUE /\ cmd[p].loaded = FALSE
<1>1. cmd[p] \in Records /\ Shape(cmd[p]) /\ file \in Stores /\ cmd[p].at \in {"resolve", "claim"}
  BY DEF ClientTyped, Shapes, Resolved, At
<1>2. cmd[p].queue = <<>> /\ cmd[p].then = "none"
  BY <1>1 DEF Shape
<1>3. CASE ~Enabled(cmd[p])
  BY <1>1, <1>3, Ended, RestingIs DEF Resolved
<1>4. CASE Enabled(cmd[p])
  <2> DEFINE c == IF Decision(cmd[p]) = "default" THEN Loaded(cmd[p]) ELSE cmd[p]
             n == [c EXCEPT !.at = "id"]
  <2>1. /\ c \in Records /\ Keeps(cmd[p], c) /\ c.queue = <<>> /\ c.then = "none"
        /\ \/ c.st = cmd[p].st /\ c.loaded = cmd[p].loaded
           \/ c.st = file /\ c.loaded = TRUE /\ cmd[p].loaded = FALSE
    <3>1. cmd[p].loaded \in BOOLEAN /\ Keeps(cmd[p], cmd[p])
      BY <1>1 DEF Records, Keeps
    <3> QED BY <1>1, <1>2, <3>1, LoadedIs
  <2>3. cmd' = [cmd EXCEPT ![p] = n]
    BY <1>4 DEF Resolved
  <2> HIDE DEF c
  <2>4. n \in Records
    BY <2>1 DEF Records, StepNames
  <2>5. /\ Keeps(c, n) /\ n.at = "id" /\ n.loaded = c.loaded /\ n.queue = <<>>
        /\ n.then = "none" /\ n.st = c.st
    BY <2>1 DEF Records, Keeps
  <2> HIDE DEF n
  <2>6. Only(p) /\ cmd'[p] = n
    BY <2>3, <2>4, Became
  <2>7. Keeps(cmd[p], n)
    BY <2>1, <2>5 DEF Keeps
  <2>8. Shape(n)
    BY <1>1, <1>2, <2>1, <2>5, <2>7 DEF Shape, Keeps
  <2> QED BY <1>1, <1>4, <2>1, <2>5, <2>6, <2>7, <2>8
<1> QED BY <1>3, <1>4

LEMMA InstallIDIs ==
  ASSUME ClientTyped, Shapes, NEW p \in Procs, InstallID(p)
  PROVE  /\ Only(p) /\ Shape(cmd'[p]) /\ cmd[p].at = "id" /\ drawn' \in {drawn, drawn + 1}
         /\ \/ cmd'[p] = Resting
            \/ /\ Keeps(cmd[p], cmd'[p]) /\ cmd'[p].loaded = TRUE
               /\ cmd'[p].st.asked = Loaded(cmd[p]).st.asked
               /\ cmd'[p].st.granted = Loaded(cmd[p]).st.granted
               /\ \/ /\ cmd'[p].at = "open" /\ cmd'[p].then \in {"first", "event"}
                     /\ cmd'[p].queue = cmd[p].queue
                     /\ cmd'[p].st.salt = drawn + 1 /\ drawn' = drawn + 1
                  \/ /\ cmd'[p].at = "id" /\ cmd'[p].then = "none"
                     /\ cmd'[p].st = Loaded(cmd[p]).st /\ cmd'[p].st.salt > 0
                     /\ cmd'[p].queue = Append(cmd[p].queue, Loaded(cmd[p]).st.salt)
<1>1. cmd[p] \in Records /\ Shape(cmd[p]) /\ file \in Stores /\ cmd[p].at = "id"
      /\ drawn \in Nat /\ aged \in Nat
  BY DEF ClientTyped, Shapes, InstallID, At
<1> DEFINE c == Loaded(cmd[p])
<1>2. /\ c \in Records /\ Keeps(cmd[p], c) /\ c.loaded = TRUE /\ c.queue = cmd[p].queue
      /\ c.then = "none" /\ c.left = cmd[p].left
  BY <1>1, LoadedIs DEF Shape
<1>3. c.left > 0 /\ c.st.salt \in Nat
  BY <1>2 DEF InstallID, Records, Stores
<1>4. /\ cmd[p].kind = "disable" => cmd[p].conf = "false"
  BY <1>1 DEF Shape
<1>5. CASE Expired(c.st.salt)
  <2> DEFINE x == IF c.st.salt = 0 THEN "first" ELSE "event"
  <2>1. drawn' = drawn + 1 /\ SaveAnd(p, NewSalt(c), x)
    BY <1>5 DEF InstallID
  <2>2. x \in {"first", "event"}
    OBVIOUS
  <2> HIDE DEF x
  <2>3. Loaded(c) = c
    BY <1>2 DEF Loaded
  <2> HIDE DEF c
  <2>4. /\ NewSalt(c) \in Records /\ Keeps(c, NewSalt(c))
        /\ NewSalt(c).loaded = TRUE /\ NewSalt(c).queue = c.queue /\ NewSalt(c).left = c.left
        /\ NewSalt(c).st.salt = drawn + 1
        /\ NewSalt(c).st.asked = c.st.asked /\ NewSalt(c).st.granted = c.st.granted
    BY <1>1, <1>2, <2>3, NewSaltIs
  <2>5. /\ Only(p) /\ Keeps(NewSalt(c), cmd'[p]) /\ cmd'[p].at = "open" /\ cmd'[p].then = x
        /\ cmd'[p].st = NewSalt(c).st /\ cmd'[p].loaded = TRUE
        /\ cmd'[p].left = c.left /\ cmd'[p].queue = c.queue
    BY <2>1, <2>2, <2>4, Saves
  <2>6. Keeps(cmd[p], cmd'[p])
    BY <1>2, <2>4, <2>5 DEF Keeps
  <2>7. cmd'[p].st.salt = drawn + 1 /\ drawn + 1 > 0
    BY <1>1, <2>4, <2>5
  <2>8. Shape(cmd'[p])
    BY <1>2, <1>3, <1>4, <2>2, <2>5, <2>6, <2>7 DEF Shape, Keeps
  <2> QED BY <1>1, <1>2, <2>1, <2>2, <2>4, <2>5, <2>6, <2>7, <2>8 DEF c
<1>6. CASE ~Expired(c.st.salt)
  <2>1. drawn' = drawn /\ cmd' = [cmd EXCEPT ![p] = WithEvent(c)]
    BY <1>6 DEF InstallID
  <2>2. c.st.salt > 0
    BY <1>1, <1>3, <1>6 DEF Expired
  <2> HIDE DEF c
  <2>3. CASE WithEvent(c) = Resting
    BY <1>1, <2>1, <2>3, RestingIs, Became
  <2>4. CASE /\ WithEvent(c) \in Records /\ Keeps(c, WithEvent(c)) /\ WithEvent(c).at = "id"
             /\ WithEvent(c).st = c.st /\ WithEvent(c).loaded = c.loaded
             /\ WithEvent(c).then = c.then /\ WithEvent(c).queue = Append(c.queue, c.st.salt)
    <3>1. Only(p) /\ cmd'[p] = WithEvent(c)
      BY <2>1, <2>4, Became
    <3>2. Keeps(cmd[p], cmd'[p])
      BY <1>2, <2>4, <3>1 DEF Keeps
    <3> HIDE DEF WithEvent
    <3>3. /\ cmd'[p].at = "id" /\ cmd'[p].then = "none" /\ cmd'[p].loaded = TRUE
          /\ cmd'[p].st = c.st /\ cmd'[p].queue = Append(c.queue, c.st.salt)
      BY <1>2, <2>4, <3>1
    <3>4. Shape(cmd'[p])
      BY <1>4, <3>2, <3>3 DEF Shape, Keeps
    <3> QED BY <1>1, <1>2, <2>1, <2>2, <3>1, <3>2, <3>3, <3>4 DEF c
  <2> QED BY <1>2, <1>3, <2>3, <2>4, WithEventIs
<1> QED BY <1>5, <1>6

LEMMA RotateIs ==
  ASSUME ClientTyped, Shapes, NEW p \in Procs, Rotate(p)
  PROVE  /\ Only(p) /\ Keeps(cmd[p], cmd'[p]) /\ Shape(cmd'[p]) /\ cmd[p].at = "rotate"
         /\ cmd'[p].at = "open" /\ cmd'[p].then = "rotated" /\ cmd'[p].queue = <<>>
         /\ cmd'[p].loaded = TRUE /\ cmd'[p].st.salt = drawn + 1
         /\ cmd'[p].st.asked = Loaded(cmd[p]).st.asked
         /\ cmd'[p].st.granted = Loaded(cmd[p]).st.granted
<1>1. cmd[p] \in Records /\ Shape(cmd[p]) /\ file \in Stores /\ cmd[p].at = "rotate"
      /\ drawn \in Nat
  BY DEF ClientTyped, Shapes, Rotate, At
<1> DEFINE c == NewSalt(cmd[p])
<1>2. /\ c \in Records /\ Keeps(cmd[p], c)
      /\ c.loaded = TRUE /\ c.queue = cmd[p].queue
      /\ c.st.salt = drawn + 1
      /\ c.st.asked = Loaded(cmd[p]).st.asked /\ c.st.granted = Loaded(cmd[p]).st.granted
  BY <1>1, NewSaltIs
<1>3. SaveAnd(p, c, "rotated")
  BY DEF Rotate
<1>4. cmd[p].queue = <<>> /\ (cmd[p].kind = "disable" => cmd[p].conf = "false")
  BY <1>1 DEF Shape
<1> HIDE DEF c
<1>5. /\ Only(p) /\ Keeps(c, cmd'[p]) /\ cmd'[p].at = "open" /\ cmd'[p].then = "rotated"
      /\ cmd'[p].st = c.st /\ cmd'[p].loaded = TRUE /\ cmd'[p].queue = c.queue
  BY <1>2, <1>3, Saves
<1>6. Keeps(cmd[p], cmd'[p])
  BY <1>2, <1>5 DEF Keeps
<1>7. cmd'[p].st.salt > 0
  BY <1>1, <1>2, <1>5
<1>8. Shape(cmd'[p])
  BY <1>2, <1>4, <1>5, <1>6, <1>7 DEF Shape, Keeps
<1> QED BY <1>1, <1>2, <1>4, <1>5, <1>6, <1>8

\* Writing telemetry.json, or failing to.
LEMMA SavedIs ==
  ASSUME ClientTyped, Shapes, NEW p \in Procs, Write(p) \/ SaveFails(p)
  PROVE  /\ Only(p) /\ Shape(cmd'[p]) /\ AfterSave(cmd[p], cmd'[p])
         /\ cmd[p].at \in {"open", "write"} /\ cmd[p].then # "none" /\ cmd[p].loaded = TRUE
<1>1. cmd[p] \in Records /\ Shape(cmd[p]) /\ cmd[p].at \in {"open", "write"}
  BY DEF ClientTyped, Shapes, Write, SaveFails, At
<1>2. cmd[p].then # "none" /\ cmd[p].loaded = TRUE
  BY <1>1 DEF Shape
<1>3. PICK ok \in BOOLEAN : cmd' = [cmd EXCEPT ![p] = After(cmd[p], ok)]
  BY DEF Write, SaveFails
<1>4. AfterSave(cmd[p], After(cmd[p], ok))
  BY <1>1, <1>2, AfterIs
<1>5. After(cmd[p], ok) \in Records
  BY <1>4, RestingIs DEF AfterSave
<1>6. Only(p) /\ cmd'[p] = After(cmd[p], ok)
  BY <1>3, <1>5, Became
<1>7. AfterSave(cmd[p], cmd'[p])
  BY <1>4, <1>6
<1>8. Shape(cmd'[p])
  <2>1. /\ cmd[p].kind = "disable" => cmd[p].conf = "false"
        /\ cmd[p].then = "answered" => cmd[p].queue = <<>>
    BY <1>1 DEF Shape
  <2> QED BY <1>2, <1>7, <2>1, RestingIs DEF AfterSave, Shape, Keeps
<1> QED BY <1>1, <1>2, <1>6, <1>7, <1>8

LEMMA ConfigIs ==
  ASSUME ClientTyped, Shapes, NEW p \in Procs, OpenConfig(p) \/ WriteConfig(p) \/ ConfigFails(p)
  PROVE  /\ Only(p) /\ Shape(cmd'[p])
         /\ \/ cmd'[p] = Resting
            \/ /\ Keeps(cmd[p], cmd'[p]) /\ cmd'[p].st = cmd[p].st
               /\ cmd'[p].loaded = cmd[p].loaded
               /\ cmd'[p].queue = <<>> /\ cmd'[p].then = "none"
               /\ \/ cmd'[p].at = "write config" /\ conf' = "unset"
                  \/ cmd'[p].at = "consent" /\ cmd[p].kind \in Setters
<1>1. cmd[p] \in Records /\ Shape(cmd[p])
  BY DEF ClientTyped, Shapes
<1>2. cmd[p].at \in {"config", "write config"} /\ cmd[p].then = "none" /\ cmd[p].queue = <<>>
  BY <1>1 DEF OpenConfig, WriteConfig, ConfigFails, At, Shape
<1>3. CASE Ends(p)
  BY <1>3, Ended, RestingIs
<1>4. CASE OpenConfig(p)
  <2>1. /\ Only(p) /\ Keeps(cmd[p], cmd'[p]) /\ cmd'[p].at = "write config"
        /\ cmd'[p].st = cmd[p].st /\ cmd'[p].loaded = cmd[p].loaded
        /\ cmd'[p].queue = cmd[p].queue /\ cmd'[p].then = cmd[p].then
    BY <1>4, Went DEF OpenConfig, StepNames
  <2>2. Shape(cmd'[p])
    BY <1>1, <1>2, <2>1 DEF Shape, Keeps
  <2> QED BY <1>2, <1>4, <2>1, <2>2 DEF OpenConfig
<1>5. CASE WriteConfig(p) /\ cmd[p].kind \in Setters
  <2>1. /\ Only(p) /\ Keeps(cmd[p], cmd'[p]) /\ cmd'[p].at = "consent"
        /\ cmd'[p].st = cmd[p].st /\ cmd'[p].loaded = cmd[p].loaded
        /\ cmd'[p].queue = cmd[p].queue /\ cmd'[p].then = cmd[p].then
    BY <1>5, Went DEF WriteConfig, StepNames
  <2>2. Shape(cmd'[p])
    BY <1>1, <1>2, <1>5, <2>1 DEF Shape, Keeps
  <2> QED BY <1>2, <1>5, <2>1, <2>2
<1> QED BY <1>3, <1>4, <1>5 DEF WriteConfig, ConfigFails

LEMMA OpenIs ==
  ASSUME ClientTyped, Shapes, NEW p \in Procs, Open(p)
  PROVE  /\ Only(p) /\ Keeps(cmd[p], cmd'[p]) /\ Shape(cmd'[p])
         /\ cmd[p].at = "open" /\ cmd'[p].at = "write" /\ cmd[p].loaded = TRUE
         /\ cmd'[p].then = cmd[p].then /\ cmd[p].then # "none"
         /\ cmd'[p].st = cmd[p].st /\ cmd'[p].loaded = cmd[p].loaded
         /\ cmd'[p].queue = cmd[p].queue
<1>1. cmd[p] \in Records /\ Shape(cmd[p]) /\ cmd[p].at = "open"
  BY DEF ClientTyped, Shapes, Open, At
<1>2. /\ Only(p) /\ Keeps(cmd[p], cmd'[p]) /\ cmd'[p].at = "write" /\ cmd'[p].left = cmd[p].left
      /\ cmd'[p].st = cmd[p].st /\ cmd'[p].loaded = cmd[p].loaded
      /\ cmd'[p].queue = cmd[p].queue /\ cmd'[p].then = cmd[p].then
  BY Went DEF Open, StepNames
<1>3. Shape(cmd'[p])
  BY <1>1, <1>2 DEF Shape, Keeps
<1> QED BY <1>1, <1>2, <1>3 DEF Shape

LEMMA FlushIs ==
  ASSUME ClientTyped, Shapes, NEW p \in Procs, Flush(p) \/ Post(p)
  PROVE  /\ Only(p) /\ Keeps(cmd[p], cmd'[p]) /\ Shape(cmd'[p])
         /\ cmd'[p].at = "flush" /\ cmd'[p].then = "none"
         /\ cmd'[p].st = cmd[p].st /\ cmd'[p].loaded = cmd[p].loaded
         /\ \/ cmd'[p].queue = cmd[p].queue
            \/ cmd[p].queue # <<>> /\ cmd'[p].queue = Tail(cmd[p].queue)
         /\ cmd[p].at = "id" \/ cmd[p].queue # <<>>
<1>1. cmd[p] \in Records /\ Shape(cmd[p]) /\ cmd[p].at \in {"id", "flush"}
  BY DEF ClientTyped, Shapes, Flush, Post, At
<1>2. cmd[p].then = "none" /\ (cmd[p].kind = "disable" => cmd[p].conf = "false")
  BY <1>1 DEF Shape
<1>3. CASE Flush(p)
  <2>1. /\ Only(p) /\ Keeps(cmd[p], cmd'[p]) /\ cmd'[p].at = "flush"
        /\ cmd'[p].st = cmd[p].st /\ cmd'[p].loaded = cmd[p].loaded
        /\ cmd'[p].queue = cmd[p].queue /\ cmd'[p].then = cmd[p].then
    BY <1>3, Went DEF Flush, StepNames
  <2>2. Shape(cmd'[p])
    BY <1>1, <2>1 DEF Shape, Keeps
  <2> QED BY <1>2, <1>3, <2>1, <2>2 DEF Flush, At
<1>4. CASE Post(p)
  <2> DEFINE q == Tail(cmd[p].queue)
             n == [cmd[p] EXCEPT !.queue = q]
  <2>1. q \in Seq(Nat) /\ cmd[p].queue # <<>> /\ cmd[p].at = "flush"
    BY <1>1, <1>4 DEF Records, Post, At
  <2>2. cmd' = [cmd EXCEPT ![p] = n]
    BY <1>4 DEF Post
  <2> HIDE DEF q
  <2>3. n \in Records
    BY <1>1, <2>1 DEF Records
  <2>4. /\ Keeps(cmd[p], n) /\ n.at = "flush" /\ n.queue = q /\ n.then = "none"
        /\ n.st = cmd[p].st /\ n.loaded = cmd[p].loaded
    BY <1>1, <1>2, <2>1 DEF Records, Keeps
  <2> HIDE DEF n
  <2>5. Only(p) /\ cmd'[p] = n
    BY <2>2, <2>3, Became
  <2>6. Shape(n)
    BY <1>1, <1>2, <2>4 DEF Shape, Keeps
  <2> QED BY <2>1, <2>4, <2>5, <2>6 DEF q
<1> QED BY <1>3, <1>4

LEMMA EndIs ==
  ASSUME ClientTyped, Shapes, NEW p \in Procs, FlushEnds(p) \/ Killed(p)
  PROVE  Only(p) /\ cmd'[p] = Resting /\ Shape(cmd'[p])
BY Ended, RestingIs DEF FlushEnds, Killed

(***************************************************************************)
(* Every variable keeps its type, and every command its shape              *)
(***************************************************************************)
\* A command starts, of one of the kinds that there are.
SomeStart(p) ==
  \E kind \in Kinds, env \in {"on", "off", "default"}, left \in Nat,
     setTo \in {"unset", "true", "false"} :
    /\ kind \in Setters => setTo = IF kind = "enable" THEN "true" ELSE "false"
    /\ kind \notin Setters \union {"set"} => setTo = conf
    /\ Start(p, kind, env, left, setTo)

LEMMA StartsAre ==
  ASSUME ClientTyped, NEW p \in Procs, Starts(p)
  PROVE  SomeStart(p)
<1>1. Envs \subseteq {"on", "off", "default"}
  BY DEF Envs, EnvDecision
<1>2. conf \in {"unset", "true", "false"}
  BY DEF ClientTyped, Starts, StartSession, StartClaim, StartRotate, StartSetter, StartSet,
         StartInit, Start
<1>3. CASE StartSession(p)
  <2>1. PICK env \in Envs, n \in 1 .. MaxEvents : Start(p, "session", env, n, conf)
    BY <1>3 DEF StartSession
  <2>2. n \in Nat /\ "session" \in Kinds /\ "session" \notin Setters
    BY BoundAssumption DEF Kinds, Setters
  <2> QED BY <1>1, <1>2, <2>1, <2>2 DEF SomeStart
<1>4. CASE StartClaim(p)
  <2>1. 1 \in Nat /\ "claim" \in Kinds /\ "claim" \notin Setters
    BY DEF Kinds, Setters
  <2> QED BY <1>1, <1>2, <1>4, <2>1 DEF SomeStart, StartClaim
<1>5. CASE StartRotate(p)
  <2>1. 0 \in Nat /\ "rotate" \in Kinds /\ "rotate" \notin Setters
    BY DEF Kinds, Setters
  <2> QED BY <1>1, <1>2, <1>5, <2>1 DEF SomeStart, StartRotate
<1>6. CASE StartSetter(p)
  <2>1. 0 \in Nat /\ "enable" \in Kinds /\ "disable" \in Kinds /\ Setters = {"enable", "disable"}
    BY DEF Kinds, Setters
  <2> QED BY <1>1, <1>2, <1>6, <2>1 DEF SomeStart, StartSetter
<1>7. CASE StartSet(p) \/ StartInit(p)
  <2>1. 0 \in Nat /\ "set" \in Kinds /\ "set" \notin Setters
    BY DEF Kinds, Setters
  <2> QED BY <1>1, <1>2, <1>7, <2>1 DEF SomeStart, StartSet, StartInit
<1> QED BY <1>3, <1>4, <1>5, <1>6, <1>7 DEF Starts

LEMMA StartedIs ==
  ASSUME ClientTyped, NEW p \in Procs, Starts(p)
  PROVE  Started(p)
BY StartsAre, StartIs DEF SomeStart

LEMMA Faulted ==
  ASSUME ClientTyped, Mishap
  PROVE  /\ mishaps' \in 1 .. 2 /\ (mishaps' = 1 => mishaps = 0)
BY DEF ClientTyped, Mishap

LEMMA OneMoreFault ==
  ASSUME ClientTyped, Fault
  PROVE  Mishap /\ mishaps' \in 0 .. 2 /\ faults' \in 0 .. MaxFaults
<1>1. faults < MaxFaults /\ faults' = faults + 1 /\ Mishap
  BY DEF Fault
<1>2. faults' \in 0 .. MaxFaults
  BY <1>1, BoundAssumption DEF ClientTyped
<1> QED BY <1>1, <1>2, Faulted

\* The files, the salts and the counters have their types.
WorldTyped ==
  /\ conf \in {"unset", "true", "false", "bad"} /\ file \in Stores
  /\ drawn \in Nat /\ aged \in 0 .. drawn
  /\ started \in 0 .. MaxCommands /\ faults \in 0 .. MaxFaults
  /\ will \in {"unset", "yes", "no"} /\ mishaps \in 0 .. 2 /\ floor \in Nat

LEMMA WorldIsTyped ==
  ASSUME ClientTyped, Shapes, NEW p \in Procs, Starts(p) \/ Steps(p) \/ Killed(p)
  PROVE  WorldTyped'
<1>1. WorldTyped /\ cmd[p] \in Records
  BY DEF WorldTyped, ClientTyped
<1>2. CASE Starts(p)
  <2>1. Started(p)
    BY <1>2, StartedIs
  <2>2. mishaps' \in 0 .. 2 /\ will' \in {"unset", "yes", "no"}
    BY <1>1, <2>1, Faulted DEF WorldTyped, Started
  <2> QED BY <1>1, <2>1, <2>2, BoundAssumption DEF WorldTyped, Started
<1>3. CASE OpenConfig(p) \/ WriteConfig(p) \/ ConfigFails(p)
  <2>1. conf' \in {"unset", "true", "false", "bad"}
    BY <1>1, <1>3 DEF WorldTyped, OpenConfig, WriteConfig, ConfigFails, Records
  <2>2. mishaps' \in 0 .. 2 /\ faults' \in 0 .. MaxFaults
    BY <1>1, <1>3, OneMoreFault DEF WorldTyped, OpenConfig, WriteConfig, ConfigFails, bounds, ghosts
  <2> QED BY <1>1, <1>3, <2>1, <2>2
          DEF WorldTyped, OpenConfig, WriteConfig, ConfigFails, bounds, ghosts
<1>4. CASE Write(p) \/ SaveFails(p)
  <2>1. file' \in Stores
    BY <1>1, <1>4 DEF WorldTyped, Write, SaveFails, files, Records
  <2>2. will' \in {"unset", "yes", "no"}
    BY <1>1, <1>4 DEF WorldTyped, Write, SaveFails, Stands
  <2>3. floor' \in Nat
    <3>1. cmd[p].st.salt \in Nat
      BY <1>1 DEF Records, Stores
    <3> QED BY <1>1, <1>4, <3>1 DEF WorldTyped, Write, SaveFails, Counts
  <2>4. mishaps' \in 0 .. 2 /\ faults' \in 0 .. MaxFaults
    BY <1>1, <1>4, OneMoreFault DEF WorldTyped, Write, SaveFails, bounds
  <2> QED BY <1>1, <1>4, <2>1, <2>2, <2>3, <2>4 DEF WorldTyped, Write, SaveFails, files, bounds
<1>5. CASE Open(p)
  BY <1>1, <1>5, RestingIs DEF WorldTyped, Open, bounds, ghosts
<1>6. CASE \E granted \in BOOLEAN : Answer(p, granted)
  BY <1>1, <1>6 DEF WorldTyped, Answer, bounds, files
<1>7. CASE InstallID(p) \/ Rotate(p)
  BY <1>1, <1>7 DEF WorldTyped, InstallID, Rotate, bounds, files, ghosts
<1>8. CASE Killed(p)
  BY <1>1, <1>8, OneMoreFault DEF WorldTyped, Killed, files
<1>9. CASE \/ SetConsent(p) \/ \E tty \in BOOLEAN : Session(p, tty)
           \/ Resolved(p) \/ Flush(p) \/ Post(p) \/ FlushEnds(p)
  BY <1>1, <1>9 DEF WorldTyped, SetConsent, Session, Resolved, Flush, Post, FlushEnds,
     bounds, files, ghosts
<1> QED BY <1>2, <1>3, <1>4, <1>5, <1>6, <1>7, <1>8, <1>9 DEF Steps

LEMMA StepsMoveOne ==
  ASSUME ClientTyped, Shapes, NEW p \in Procs, Steps(p) \/ Killed(p)
  PROVE  Only(p) /\ Shape(cmd'[p]) /\ (cmd'[p] = Resting \/ Keeps(cmd[p], cmd'[p]))
<1>1. CASE OpenConfig(p) \/ WriteConfig(p) \/ ConfigFails(p)
  BY <1>1, ConfigIs
<1>2. CASE Write(p) \/ SaveFails(p)
  BY <1>2, SavedIs DEF AfterSave
<1>3. CASE Open(p)
  BY <1>3, OpenIs
<1>4. CASE \E granted \in BOOLEAN : Answer(p, granted)
  BY <1>4, AnswerIs
<1>5. CASE InstallID(p) \/ Rotate(p)
  BY <1>5, InstallIDIs, RotateIs
<1>6. CASE FlushEnds(p) \/ Killed(p)
  BY <1>6, EndIs
<1>7. CASE SetConsent(p) \/ \E tty \in BOOLEAN : Session(p, tty)
  BY <1>7, SetConsentIs, SessionIs
<1>8. CASE Resolved(p) \/ Flush(p) \/ Post(p)
  BY <1>8, ResolvedIs, FlushIs
<1> QED BY <1>1, <1>2, <1>3, <1>4, <1>5, <1>6, <1>7, <1>8 DEF Steps

LEMMA TypedStep ==
  ASSUME ClientTyped, Shapes, [Next]_vars
  PROVE  ClientTyped' /\ Shapes'
<1>1. ASSUME NEW p \in Procs, Starts(p)
      PROVE  ClientTyped' /\ Shapes'
  <2>1. WorldTyped' /\ Started(p)
    BY <1>1, WorldIsTyped, StartedIs
  <2>2. ClientTyped'
    BY <2>1 DEF WorldTyped, ClientTyped, Started
  <2>3. ASSUME NEW q \in Procs
        PROVE  Shape(cmd'[q])
    <3>1. CASE q = p
      BY <2>1, <3>1 DEF Started
    <3>2. CASE q # p
      <4>1. Shape(cmd[q])
        BY DEF Shapes
      <4>2. /\ cmd'[q].kind = cmd[q].kind /\ cmd'[q].env = cmd[q].env
            /\ cmd'[q].conf = cmd[q].conf /\ cmd'[q].alone = FALSE
            /\ cmd'[q].at = cmd[q].at /\ cmd'[q].st = cmd[q].st
            /\ cmd'[q].loaded = cmd[q].loaded /\ cmd'[q].queue = cmd[q].queue
            /\ cmd'[q].left = cmd[q].left /\ cmd'[q].then = cmd[q].then
        BY <2>1, <3>2 DEF Started
      <4> QED BY <4>1, <4>2 DEF Shape
    <3> QED BY <3>1, <3>2
  <2> QED BY <2>2, <2>3 DEF Shapes
<1>2. ASSUME NEW p \in Procs, Steps(p) \/ Killed(p)
      PROVE  ClientTyped' /\ Shapes'
  <2>1. WorldTyped' /\ Only(p) /\ Shape(cmd'[p])
    BY <1>2, WorldIsTyped, StepsMoveOne
  <2>2. ClientTyped'
    BY <2>1 DEF WorldTyped, ClientTyped, Only
  <2> QED BY <2>1, <2>2 DEF Only, Shapes
<1>3. CASE NinetyDays
  BY <1>3 DEF NinetyDays, ClientTyped, Shapes, files, bounds, ghosts
<1>4. CASE UNCHANGED vars
  BY <1>4 DEF ClientTyped, Shapes, vars, files, bounds, ghosts
<1> QED BY <1>1, <1>2, <1>3, <1>4 DEF Next

(***************************************************************************)
(* A salt that was rotated away is gone                                    *)
(***************************************************************************)
\* Every id in q is of a salt in the old queue, or of s.
Ids(q, old, s) == \A i \in DOMAIN q : q[i] = s \/ \E j \in DOMAIN old : q[i] = old[j]

LEMMA IdsOf ==
  ASSUME NEW old \in Seq(Nat), NEW s \in Nat
  PROVE  /\ Ids(<<>>, old, s) /\ Ids(old, old, s) /\ Ids(Append(old, s), old, s)
         /\ old # <<>> =>
              \A i \in DOMAIN Tail(old) : \E j \in DOMAIN old : Tail(old)[i] = old[j]
<1>1. Ids(<<>>, old, s) /\ Ids(old, old, s)
  BY DEF Ids
<1>2. Ids(Append(old, s), old, s)
  <2>1. ASSUME NEW i \in DOMAIN Append(old, s)
        PROVE  Append(old, s)[i] = s \/ \E j \in DOMAIN old : Append(old, s)[i] = old[j]
    <3>1. i \in 1 .. Len(old) + 1
      OBVIOUS
    <3>2. CASE i = Len(old) + 1
      BY <3>2
    <3>3. CASE i \in 1 .. Len(old)
      BY <3>3
    <3> QED BY <3>1, <3>2, <3>3
  <2> QED BY <2>1 DEF Ids
<1>3. ASSUME old # <<>>, NEW i \in DOMAIN Tail(old)
      PROVE  \E j \in DOMAIN old : Tail(old)[i] = old[j]
  <2>1. i \in 1 .. Len(old) - 1 /\ i + 1 \in DOMAIN old /\ Tail(old)[i] = old[i + 1]
    BY <1>3
  <2> QED BY <2>1
<1> QED BY <1>1, <1>2, <1>3

\* Where the salts of a step come from: what p or the file had, or a draw.
SaltsMove(p) ==
  /\ drawn' \in Nat /\ drawn' >= drawn /\ floor' = floor
  /\ file'.salt \in {0, file.salt, cmd[p].st.salt}
  /\ cmd'[p].st.salt \in {0, file.salt, cmd[p].st.salt, drawn'}
  /\ \A i \in DOMAIN cmd'[p].queue :
       \/ cmd'[p].queue[i] \in {file.salt, cmd[p].st.salt} /\ cmd'[p].queue[i] > 0
       \/ \E j \in DOMAIN cmd[p].queue : cmd'[p].queue[i] = cmd[p].queue[j]
  /\ \A q \in Procs : q # p => cmd'[q].st = cmd[q].st /\ cmd'[q].queue = cmd[q].queue

LEMMA FreshMoves ==
  ASSUME ClientTyped, SaltsFresh, NEW p \in Procs, SaltsMove(p)
  PROVE  SaltsFresh'
<1>1. /\ file.salt \in Nat /\ drawn \in Nat /\ floor \in Nat /\ drawn' \in Nat
      /\ drawn' >= drawn /\ floor' = floor /\ floor <= drawn
  BY DEF ClientTyped, SaltsMove, SaltsFresh, Stores
<1>2. ASSUME NEW s \in Nat, Fresh(s)
      PROVE  Fresh(s)'
  BY <1>1, <1>2 DEF Fresh
<1>3. Fresh(0)' /\ Fresh(drawn)'
  BY <1>1 DEF Fresh
<1>4. ASSUME NEW q \in Procs
      PROVE  /\ cmd[q].st.salt \in Nat /\ cmd[q].queue \in Seq(Nat)
             /\ \A i \in DOMAIN cmd[q].queue : cmd[q].queue[i] \in Nat
  <2>1. cmd[q] \in Records
    BY DEF ClientTyped
  <2> QED BY <2>1 DEF Records, Stores
<1>5. Fresh(file.salt)'
  <2>1. file'.salt \in {0, file.salt, cmd[p].st.salt}
    BY DEF SaltsMove
  <2>2. Fresh(file.salt) /\ Fresh(cmd[p].st.salt)
    BY DEF SaltsFresh
  <2> QED BY <1>1, <1>4, <2>1, <2>2 DEF Fresh
<1>6. ASSUME NEW q \in Procs
      PROVE  Fresh(cmd[q].st.salt)'
  <2>1. Fresh(file.salt) /\ Fresh(cmd[q].st.salt)
    BY DEF SaltsFresh
  <2>2. cmd'[q].st.salt \in {0, file.salt, cmd[q].st.salt, drawn'}
    BY DEF SaltsMove
  <2> QED BY <1>1, <1>4, <2>1, <2>2 DEF Fresh
<1>7. ASSUME NEW q \in Procs, NEW i \in DOMAIN cmd'[q].queue
      PROVE  (cmd[q].queue[i] > 0 /\ Fresh(cmd[q].queue[i]))'
  <2>1. Fresh(file.salt) /\ Fresh(cmd[q].st.salt)
    BY DEF SaltsFresh
  <2>2. \/ cmd'[q].queue[i] \in {file.salt, cmd[q].st.salt} /\ cmd'[q].queue[i] > 0
        \/ \E j \in DOMAIN cmd[q].queue : cmd'[q].queue[i] = cmd[q].queue[j]
    BY <1>7 DEF SaltsMove
  <2>3. \A j \in DOMAIN cmd[q].queue : cmd[q].queue[j] > 0 /\ Fresh(cmd[q].queue[j])
    BY DEF SaltsFresh
  <2>4. CASE cmd'[q].queue[i] \in {file.salt, cmd[q].st.salt} /\ cmd'[q].queue[i] > 0
    BY <1>1, <1>4, <2>1, <2>4 DEF Fresh
  <2>5. CASE \E j \in DOMAIN cmd[q].queue : cmd'[q].queue[i] = cmd[q].queue[j]
    <3>1. PICK j \in DOMAIN cmd[q].queue : cmd'[q].queue[i] = cmd[q].queue[j]
      BY <2>5
    <3>2. cmd[q].queue[j] \in Nat /\ cmd[q].queue[j] > 0 /\ Fresh(cmd[q].queue[j])
      BY <1>4, <2>3
    <3>3. Fresh(cmd[q].queue[i])'
      BY <1>1, <3>1, <3>2 DEF Fresh
    <3> QED BY <3>1, <3>2, <3>3
  <2> QED BY <2>2, <2>4, <2>5
<1> QED BY <1>1, <1>5, <1>6, <1>7 DEF SaltsFresh, Fresh

LEMMA LoadedSalt ==
  ASSUME ClientTyped, NEW p \in Procs
  PROVE  /\ Loaded(cmd[p]).st \in {cmd[p].st, file}
         /\ Loaded(cmd[p]).st.salt \in {cmd[p].st.salt, file.salt}
<1>1. cmd[p] \in Records /\ file \in Stores /\ cmd[p].loaded \in BOOLEAN
  BY DEF ClientTyped, Records
<1> QED BY <1>1, LoadedIs

LEMMA SaltsDoMove ==
  ASSUME ClientTyped, Shapes, NEW p \in Procs, Starts(p) \/ Steps(p) \/ Killed(p), floor' = floor,
         SaltsFresh
  PROVE  SaltsMove(p)
<1> DEFINE old == cmd[p].queue
           s == cmd[p].st.salt
           f == file.salt
           QueueMoves == \/ cmd'[p].queue = <<>>
                         \/ cmd'[p].queue = old
                         \/ cmd'[p].queue = Append(old, s) /\ s > 0
                         \/ cmd'[p].queue = Append(old, f) /\ f > 0
                         \/ cmd'[p].queue = Tail(old) /\ old # <<>>
           Rest == \A q \in Procs : q # p => cmd'[q].st = cmd[q].st /\ cmd'[q].queue = cmd[q].queue
<1>1. cmd[p] \in Records /\ file \in Stores /\ drawn \in Nat /\ s \in Nat /\ f \in Nat
      /\ old \in Seq(Nat) /\ Resting.queue = <<>> /\ Resting.st.salt = 0 /\ Shape(cmd[p])
      /\ Zero.salt = 0
  BY RestingIs DEF ClientTyped, Records, Stores, Shapes
<1>2. drawn' \in Nat /\ drawn' >= drawn /\ file'.salt \in {0, f, s}
  <2>1. CASE Starts(p)
    <3>1. drawn' = drawn /\ file' = file
      BY <2>1, StartedIs DEF Started
    <3> QED BY <1>1, <3>1
  <2>2. CASE OpenConfig(p) \/ WriteConfig(p) \/ ConfigFails(p) \/ Killed(p)
    <3>1. drawn' = drawn /\ file' = file
      BY <2>2 DEF OpenConfig, WriteConfig, ConfigFails, Killed, files
    <3> QED BY <1>1, <3>1
  <2>3. CASE Open(p) \/ Write(p) \/ SaveFails(p)
    <3>1. drawn' = drawn /\ file' \in {file, Zero, cmd[p].st}
      BY <2>3 DEF Open, Write, SaveFails, files
    <3> QED BY <1>1, <3>1
  <2>4. CASE InstallID(p) \/ Rotate(p)
    BY <1>1, <2>4 DEF InstallID, Rotate, files
  <2>5. CASE (\E granted \in BOOLEAN : Answer(p, granted)) \/ (\E tty \in BOOLEAN : Session(p, tty))
    BY <1>1, <2>5 DEF Answer, Session, files
  <2>6. CASE SetConsent(p) \/ Resolved(p) \/ Flush(p) \/ Post(p) \/ FlushEnds(p)
    BY <1>1, <2>6 DEF SetConsent, Resolved, Flush, Post, FlushEnds, files
  <2> QED BY <2>1, <2>2, <2>3, <2>4, <2>5, <2>6 DEF Steps
<1>4. Rest
  <2>1. CASE Starts(p)
    BY <2>1, StartedIs DEF Started
  <2>2. CASE Steps(p) \/ Killed(p)
    BY <2>2, StepsMoveOne DEF Only
  <2> QED BY <2>1, <2>2
<1>5. cmd'[p].st.salt \in {0, f, s, drawn'} /\ QueueMoves
  <2>1. CASE Starts(p)
    BY <1>1, <2>1, StartedIs DEF Started
  <2>2. CASE OpenConfig(p) \/ WriteConfig(p) \/ ConfigFails(p)
    BY <1>1, <2>2, ConfigIs
  <2>3. CASE Write(p) \/ SaveFails(p)
    <3>1. AfterSave(cmd[p], cmd'[p])
      BY <2>3, SavedIs
    <3>2. cmd[p].then \in {"first", "event"} => s > 0
      BY <1>1 DEF Shape
    <3> QED BY <1>1, <3>1, <3>2 DEF AfterSave
  <2>4. CASE Open(p)
    BY <1>1, <2>4, OpenIs
  <2>5. CASE \E granted \in BOOLEAN : Answer(p, granted)
    BY <1>1, <2>5, AnswerIs
  <2>6. CASE InstallID(p)
    <3>1. Loaded(cmd[p]).st.salt \in {s, f}
      BY LoadedSalt
    <3>2. \/ cmd'[p] = Resting
          \/ cmd'[p].st.salt = drawn' /\ cmd'[p].queue = old
          \/ /\ cmd'[p].st.salt = Loaded(cmd[p]).st.salt /\ cmd'[p].st.salt > 0
             /\ cmd'[p].queue = Append(old, Loaded(cmd[p]).st.salt)
      BY <2>6, InstallIDIs
    <3> QED BY <1>1, <3>1, <3>2
  <2>7. CASE Rotate(p)
    BY <1>1, <2>7, RotateIs DEF Rotate
  <2>8. CASE FlushEnds(p) \/ Killed(p)
    BY <1>1, <2>8, EndIs
  <2>9. CASE SetConsent(p)
    BY <1>1, <2>9, SetConsentIs
  <2>10. CASE \E tty \in BOOLEAN : Session(p, tty)
    BY <1>1, <2>10, SessionIs
  <2>11. CASE Resolved(p)
    BY <1>1, <2>11, ResolvedIs
  <2>12. CASE Flush(p) \/ Post(p)
    BY <1>1, <2>12, FlushIs
  <2> QED BY <2>1, <2>2, <2>3, <2>4, <2>5, <2>6, <2>7, <2>8, <2>9, <2>10, <2>11, <2>12 DEF Steps
<1>3. ASSUME NEW i \in DOMAIN cmd'[p].queue
      PROVE  \/ cmd'[p].queue[i] \in {f, s} /\ cmd'[p].queue[i] > 0
             \/ \E j \in DOMAIN old : cmd'[p].queue[i] = old[j]
  <2>1. /\ Ids(<<>>, old, s) /\ Ids(old, old, s) /\ Ids(Append(old, s), old, s)
        /\ Ids(Append(old, f), old, f)
    BY <1>1, IdsOf
  <2>2. CASE cmd'[p].queue = <<>>
    BY <1>3, <2>1, <2>2 DEF Ids
  <2>3. CASE cmd'[p].queue = old
    BY <1>3, <2>3
  <2>4. CASE cmd'[p].queue = Append(old, s) /\ s > 0
    BY <1>3, <2>1, <2>4 DEF Ids
  <2>5. CASE cmd'[p].queue = Append(old, f) /\ f > 0
    BY <1>3, <2>1, <2>5 DEF Ids
  <2>6. CASE cmd'[p].queue = Tail(old) /\ old # <<>>
    BY <1>1, <1>3, <2>6, IdsOf
  <2> QED BY <1>5, <2>2, <2>3, <2>4, <2>5, <2>6
<1> QED BY <1>2, <1>3, <1>4, <1>5 DEF SaltsMove

(***************************************************************************)
(* A command that is alone finds the files as it left them                 *)
(***************************************************************************)
LEMMA StepsAreBusy ==
  ASSUME ClientTyped, Shapes, NEW p \in Procs, Steps(p) \/ Killed(p)
  PROVE  cmd[p].at # "idle"
BY DEF Steps, OpenConfig, WriteConfig, ConfigFails, SetConsent, Open, Write, SaveFails, Session,
       Answer, Resolved, InstallID, Rotate, Flush, Post, FlushEnds, Killed, At

\* What a step of p says of the files to a command that goes on, and is alone.
FilesAgree(p) ==
  /\ cmd[p].kind = "session" => conf' = conf
  /\ \/ cmd'[p].at = "consent" /\ conf' = cmd[p].conf
     \/ /\ cmd'[p].at # "consent" /\ conf' = conf
        /\ cmd'[p].then = "decided" => cmd[p].at = "consent" \/ cmd[p].then = "decided"
     \/ cmd'[p].at = "write config" /\ cmd'[p].then = "none"
  /\ cmd'[p].at = "prompt" => file'.asked = FALSE
  /\ cmd'[p].at = "open" /\ cmd'[p].then = "answered" => cmd[p].at = "prompt" /\ file' = file
  /\ cmd'[p].at = "write" => file' = Zero

LEMMA FilesDoAgree ==
  ASSUME ClientTyped, Shapes, NEW p \in Procs, Steps(p) \/ Killed(p), cmd'[p] # Resting
  PROVE  FilesAgree(p)
<1>1. cmd[p] \in Records /\ Shape(cmd[p])
  BY DEF ClientTyped, Shapes
<1>2. CASE OpenConfig(p) \/ WriteConfig(p) \/ ConfigFails(p)
  <2>1. cmd[p].kind # "session"
    BY <1>1, <1>2 DEF Shape, OpenConfig, WriteConfig, ConfigFails, At, Setters
  <2>2. \/ cmd'[p].at = "write config" /\ cmd'[p].then = "none"
        \/ cmd'[p].at = "consent" /\ WriteConfig(p)
    <3>1. CASE OpenConfig(p)
      BY <1>2, <3>1, ConfigIs, Went DEF OpenConfig, StepNames
    <3>2. CASE WriteConfig(p)
      BY <1>2, <3>2, Ended, Went DEF WriteConfig, StepNames
    <3>3. CASE ConfigFails(p)
      BY <3>3, Ended DEF ConfigFails
    <3> QED BY <1>2, <3>1, <3>2, <3>3
  <2> QED BY <2>1, <2>2 DEF FilesAgree, WriteConfig
<1>3. CASE Write(p) \/ SaveFails(p)
  BY <1>3, SavedIs DEF AfterSave, FilesAgree, Write, SaveFails, files
<1>4. CASE Open(p)
  BY <1>4, OpenIs DEF FilesAgree, Open
<1>5. CASE \E granted \in BOOLEAN : Answer(p, granted)
  BY <1>5, AnswerIs DEF FilesAgree, Answer, files
<1>6. CASE InstallID(p)
  BY <1>6, InstallIDIs DEF FilesAgree, InstallID, files
<1>7. CASE Rotate(p)
  BY <1>7, RotateIs DEF FilesAgree, Rotate, files
<1>8. CASE FlushEnds(p) \/ Killed(p)
  BY <1>8, EndIs
<1>9. CASE SetConsent(p)
  BY <1>9, SetConsentIs DEF FilesAgree, SetConsent, files
<1>10. CASE \E tty \in BOOLEAN : Session(p, tty)
  BY <1>10, SessionIs DEF FilesAgree, Session, files
<1>11. CASE Resolved(p)
  BY <1>11, ResolvedIs DEF FilesAgree, Resolved, files
<1>12. CASE Flush(p) \/ Post(p)
  BY <1>12, FlushIs DEF FilesAgree, Flush, Post, files
<1> QED BY <1>2, <1>3, <1>4, <1>5, <1>6, <1>7, <1>8, <1>9, <1>10, <1>11, <1>12 DEF Steps

LEMMA AloneStep ==
  ASSUME ClientTyped, Shapes, AloneInv, [Next]_vars
  PROVE  AloneInv'
<1>1. ASSUME NEW p \in Procs, Starts(p), NEW q \in Procs
      PROVE  AloneMeans(q)'
  <2>1. Started(p)
    BY <1>1, StartedIs
  <2>2. CASE q # p
    BY <2>1, <2>2 DEF Started, AloneMeans
  <2>3. CASE q = p /\ cmd'[p].alone = TRUE
    <3>1. \A r \in Procs : r # p => cmd'[r].at = "idle"
      BY <2>1, <2>3 DEF Started, Others, At
    <3> QED BY <2>1, <2>3, <3>1 DEF Started, AloneMeans, Setters
  <2> QED BY <2>2, <2>3 DEF AloneMeans
<1>2. ASSUME NEW p \in Procs, Steps(p) \/ Killed(p), NEW q \in Procs
      PROVE  AloneMeans(q)'
  <2>1. Only(p) /\ (cmd'[p] = Resting \/ Keeps(cmd[p], cmd'[p])) /\ cmd[p].at # "idle"
    BY <1>2, StepsMoveOne, StepsAreBusy
  <2>2. CASE q # p
    <3>1. cmd[q].alone # TRUE
      BY <2>1, <2>2 DEF AloneInv, AloneMeans
    <3> QED BY <2>1, <2>2, <3>1 DEF Only, AloneMeans
  <2>3. CASE q = p /\ cmd'[p] # Resting /\ cmd'[p].alone = TRUE
    <3>1. /\ FilesAgree(p) /\ cmd'[p].kind = cmd[p].kind /\ cmd'[p].conf = cmd[p].conf
          /\ cmd[p].alone = TRUE
      BY <1>2, <2>1, <2>3, FilesDoAgree DEF Keeps
    <3>2. AloneMeans(p) /\ (cmd[p].kind = "disable" => cmd[p].conf = "false")
      BY DEF AloneInv, Shapes, Shape
    <3>3. \A r \in Procs : r # p => cmd'[r].at = "idle"
      BY <2>1, <3>1, <3>2 DEF Only, AloneMeans
    <3> QED BY <2>3, <3>1, <3>2, <3>3 DEF AloneMeans, FilesAgree
  <2> QED BY <2>1, <2>2, <2>3, RestingIs DEF AloneMeans
<1>3. CASE NinetyDays
  BY <1>3 DEF NinetyDays, AloneInv, AloneMeans, files
<1>4. CASE UNCHANGED vars
  BY <1>4 DEF AloneInv, AloneMeans, vars, files
<1> QED BY <1>1, <1>2, <1>3, <1>4 DEF Next, AloneInv

LEMMA SaltsStep ==
  ASSUME ClientTyped, Shapes, SaltsFresh, AloneInv, [Next]_vars
  PROVE  SaltsFresh'
<1>1. ASSUME NEW p \in Procs, Starts(p) \/ Steps(p) \/ Killed(p)
      PROVE  SaltsFresh'
  <2>1. CASE floor' = floor
    BY <1>1, <2>1, SaltsDoMove, FreshMoves
  <2>2. CASE floor' # floor
    <3>1. Write(p) /\ cmd[p].then = "rotated" /\ cmd[p].alone = TRUE /\ floor' = cmd[p].st.salt
      <4>1. ~Starts(p)
        BY <2>2, StartedIs DEF Started
      <4>2. Write(p) \/ SaveFails(p)
        BY <1>1, <2>2, <4>1 DEF Steps, OpenConfig, WriteConfig, ConfigFails, SetConsent, Open,
           Session, Answer, Resolved, InstallID, Rotate, Flush, Post, FlushEnds, Killed, ghosts
      <4>3. cmd[p].alone \in BOOLEAN
        BY DEF ClientTyped, Records
      <4> QED BY <2>2, <4>2, <4>3 DEF Write, SaveFails, Counts
    <3>2. cmd'[p] = Resting /\ Only(p)
      BY <3>1, SavedIs DEF AfterSave
    <3>3. ASSUME NEW q \in Procs
          PROVE  cmd'[q].queue = <<>> /\ cmd'[q].st.salt = 0
      <4>1. CASE q = p
        BY <3>2, <4>1, RestingIs
      <4>2. CASE q # p
        <5>1. cmd[q].at = "idle" /\ Shape(cmd[q])
          BY <3>1, <4>2 DEF AloneInv, AloneMeans, Shapes
        <5>2. cmd[q].queue = <<>> /\ cmd[q].st = Zero
          BY <5>1 DEF Shape
        <5> QED BY <3>2, <4>2, <5>2, RestingIs DEF Only
      <4> QED BY <4>1, <4>2
    <3>4. file'.salt = floor' /\ drawn' = drawn /\ floor' \in Nat /\ drawn \in Nat
      <4>1. cmd[p] \in Records /\ drawn \in Nat
        BY DEF ClientTyped
      <4> QED BY <3>1, <4>1 DEF Write, Records, Stores
    <3>5. floor' <= drawn'
      <4>1. Fresh(cmd[p].st.salt)
        BY DEF SaltsFresh
      <4> QED BY <3>1, <3>4, <4>1 DEF Fresh
    <3>6. Fresh(file.salt)' /\ Fresh(0)'
      BY <3>4, <3>5 DEF Fresh
    <3> QED BY <3>3, <3>5, <3>6 DEF SaltsFresh, Fresh
  <2> QED BY <2>1, <2>2
<1>2. CASE NinetyDays
  BY <1>2 DEF NinetyDays, SaltsFresh, Fresh, files, ghosts
<1>3. CASE UNCHANGED vars
  BY <1>3 DEF SaltsFresh, Fresh, vars, files, ghosts
<1> QED BY <1>1, <1>2, <1>3 DEF Next

LEMMA ClientInit ==
  ASSUME Init
  PROVE  ClientInv
<1>1. \A p \in Procs : cmd[p] = Resting
  BY DEF Init
<1>2. ClientTyped
  BY RestingIs, BoundAssumption DEF Init, ClientTyped
<1>3. Shapes /\ AloneInv
  BY <1>1, RestingIs DEF Shapes, AloneInv, AloneMeans
<1>4. SaltsFresh
  BY <1>1, RestingIs DEF Init, SaltsFresh, Fresh
<1> QED BY <1>2, <1>3, <1>4 DEF ClientInv

LEMMA ClientStep ==
  ASSUME ClientInv, [Next]_vars
  PROVE  ClientInv'
BY TypedStep, AloneStep, SaltsStep DEF ClientInv

LEMMA ClientInvariant == Spec => []ClientInv
<1> QED BY ClientInit, ClientStep, PTL DEF Spec

(* Every id that is queued is of a salt drawn by the last rotate that counted, or
   after it: what RotateForgets asks, for any number of commands (rotateLocked and
   InstallID of telemetry.go). *)
THEOREM RotateIsForgetting == Spec => []RotateForgets
<1>1. ClientInv => RotateForgets
  <2> SUFFICES ASSUME ClientInv, NEW p \in Procs, NEW i \in DOMAIN cmd[p].queue
               PROVE  cmd[p].queue[i] >= floor
    BY DEF RotateForgets
  <2> QED BY DEF ClientInv, SaltsFresh, Fresh
<1> QED BY <1>1, ClientInvariant, PTL

(***************************************************************************)
(* No question is put twice                                                *)
(***************************************************************************)
Answers(p) == SetConsent(p) \/ \E granted \in BOOLEAN : Answer(p, granted)
Same(st, old) == st.asked = old.asked /\ st.granted = old.granted
\* Where the answer that a command has got comes from.
ConsentMoves(p) ==
  cmd'[p].loaded = TRUE =>
    \/ cmd[p].loaded = TRUE /\ Same(cmd'[p].st, cmd[p].st)
    \/ cmd[p].loaded = FALSE /\ Same(cmd'[p].st, file) /\ cmd[p].at \notin {"open", "write"}
    \/ Answers(p) /\ cmd'[p].st.asked = TRUE

LEMMA ConsentDoesMove ==
  ASSUME ClientTyped, Shapes, NEW p \in Procs, Steps(p) \/ Killed(p)
  PROVE  ConsentMoves(p)
<1>1. /\ cmd[p] \in Records /\ Shape(cmd[p]) /\ file \in Stores /\ cmd[p].loaded \in BOOLEAN
      /\ Resting.loaded = FALSE
  BY RestingIs DEF ClientTyped, Shapes, Records
<1>2. /\ cmd[p].loaded = TRUE => Loaded(cmd[p]).st = cmd[p].st
      /\ cmd[p].loaded = FALSE => Loaded(cmd[p]).st = file
  BY <1>1, LoadedIs
<1>3. CASE OpenConfig(p) \/ WriteConfig(p) \/ ConfigFails(p)
  BY <1>1, <1>3, ConfigIs DEF ConsentMoves, Same
<1>4. CASE Write(p) \/ SaveFails(p)
  BY <1>1, <1>4, SavedIs DEF AfterSave, ConsentMoves, Same
<1>5. CASE Open(p)
  BY <1>1, <1>5, OpenIs DEF ConsentMoves, Same
<1>6. CASE Answers(p)
  BY <1>6, AnswerIs, SetConsentIs DEF ConsentMoves, Answers
<1>7. CASE InstallID(p)
  <2>1. cmd[p].at = "id" /\ (cmd'[p] = Resting \/ Same(cmd'[p].st, Loaded(cmd[p]).st))
    BY <1>7, InstallIDIs DEF Same
  <2> QED BY <1>1, <1>2, <2>1 DEF ConsentMoves
<1>8. CASE Rotate(p)
  <2>1. cmd[p].at = "rotate" /\ Same(cmd'[p].st, Loaded(cmd[p]).st)
    BY <1>8, RotateIs DEF Same
  <2> QED BY <1>1, <1>2, <2>1 DEF ConsentMoves
<1>9. CASE FlushEnds(p) \/ Killed(p)
  BY <1>1, <1>9, EndIs DEF ConsentMoves
<1>10. CASE \E tty \in BOOLEAN : Session(p, tty)
  <2>1. cmd[p].at = "session" /\ (cmd'[p].loaded = FALSE \/ cmd'[p].st = file)
    BY <1>10, SessionIs
  <2>2. cmd[p].loaded = FALSE
    BY <1>1, <2>1 DEF Shape
  <2> QED BY <2>1, <2>2 DEF ConsentMoves, Same
<1>11. CASE Resolved(p)
  <2>1. /\ cmd[p].at \in {"resolve", "claim"}
        /\ \/ cmd'[p] = Resting
           \/ cmd'[p].st = cmd[p].st /\ cmd'[p].loaded = cmd[p].loaded
           \/ cmd'[p].st = file /\ cmd[p].loaded = FALSE
    BY <1>11, ResolvedIs
  <2> QED BY <1>1, <2>1 DEF ConsentMoves, Same
<1>12. CASE Flush(p) \/ Post(p)
  BY <1>1, <1>12, FlushIs DEF ConsentMoves, Same
<1> QED BY <1>3, <1>4, <1>5, <1>6, <1>7, <1>8, <1>9, <1>10, <1>11, <1>12 DEF Steps, Answers

\* What becomes of telemetry.json, of the decision and of the count of mishaps.
Deciding(p) == cmd[p].then \in {"decided", "answered"} /\ cmd[p].alone = TRUE
WorldMoves(p) ==
  /\ \/ cmd[p].at = "open" /\ cmd'[p].at = "write" /\ file' = Zero
     \/ cmd[p].at = "write" /\ Write(p)
     \/ cmd'[p].at # "write" /\ file' = file /\ (cmd[p].at = "write" => mishaps' # 0)
  /\ \/ Mishap
     \/ mishaps' = mishaps
     \/ will' = "unset" /\ cmd[p].at = "prompt"
  /\ \/ will' = will
     \/ will' = "unset" /\ cmd[p].at = "prompt"
     \/ Deciding(p) /\ (Write(p) \/ SaveFails(p))

LEMMA WorldDoesMove ==
  ASSUME ClientTyped, Shapes, NEW p \in Procs, Steps(p) \/ Killed(p)
  PROVE  WorldMoves(p)
<1>1. cmd[p] \in Records /\ Shape(cmd[p]) /\ Resting.at = "idle"
  BY RestingIs DEF ClientTyped, Shapes
<1>2. Mishap => mishaps' # 0
  BY Faulted
<1>3. CASE OpenConfig(p) \/ WriteConfig(p) \/ ConfigFails(p)
  <2>1. cmd'[p].at # "write" /\ cmd[p].at \in {"config", "write config"}
    BY <1>1, <1>3, ConfigIs DEF OpenConfig, WriteConfig, ConfigFails, At
  <2> QED BY <1>3, <2>1 DEF WorldMoves, OpenConfig, WriteConfig, ConfigFails, Fault, ghosts
<1>4. CASE Write(p)
  <2>1. cmd[p].at = "write" /\ mishaps' = mishaps
    BY <1>4 DEF Write, At
  <2>2. cmd[p].alone \in BOOLEAN
    BY <1>1 DEF Records
  <2>3. will' = will \/ Deciding(p)
    BY <1>4, <2>2 DEF Write, Stands, Deciding
  <2> QED BY <1>4, <2>1, <2>3 DEF WorldMoves
<1>5. CASE SaveFails(p)
  <2>1. cmd'[p].at # "write"
    BY <1>1, <1>5, SavedIs DEF AfterSave
  <2>2. cmd[p].alone \in BOOLEAN
    BY <1>1 DEF Records
  <2>3. will' = will \/ Deciding(p)
    BY <1>5, <2>2 DEF SaveFails, Stands, Deciding
  <2> QED BY <1>2, <1>5, <2>1, <2>3 DEF WorldMoves, SaveFails, Fault, files
<1>6. CASE Open(p)
  BY <1>6, OpenIs DEF WorldMoves, Open, ghosts
<1>7. CASE Answers(p)
  BY <1>7, AnswerIs, SetConsentIs DEF WorldMoves, Answers, Answer, SetConsent, files, ghosts
<1>8. CASE InstallID(p)
  BY <1>1, <1>8, InstallIDIs DEF WorldMoves, InstallID, files, ghosts
<1>9. CASE Rotate(p)
  BY <1>9, RotateIs DEF WorldMoves, Rotate, files, ghosts
<1>10. CASE FlushEnds(p)
  <2>1. cmd[p].at = "flush"
    BY <1>10 DEF FlushEnds, At
  <2> QED BY <1>1, <1>10, <2>1, EndIs DEF WorldMoves, FlushEnds, files, ghosts
<1>11. CASE Killed(p)
  BY <1>1, <1>2, <1>11, EndIs DEF WorldMoves, Killed, Fault, files
<1>12. CASE \E tty \in BOOLEAN : Session(p, tty)
  BY <1>12, SessionIs DEF WorldMoves, Session, files, ghosts
<1>13. CASE Resolved(p)
  BY <1>1, <1>13, ResolvedIs DEF WorldMoves, Resolved, files, ghosts
<1>14. CASE Flush(p) \/ Post(p)
  <2>1. cmd[p].at \in {"id", "flush"}
    BY <1>14 DEF Flush, Post, At
  <2> QED BY <1>14, <2>1, FlushIs DEF WorldMoves, Flush, Post, files, ghosts
<1> QED BY <1>3, <1>4, <1>5, <1>6, <1>7, <1>8, <1>9, <1>10, <1>11, <1>12, <1>13, <1>14
        DEF Steps, Answers

LEMMA UndecidedStep ==
  ASSUME ClientInv, Undecided, [Next]_vars
  PROVE  Undecided'
<1> USE DEF ClientInv
<1>1. ASSUME NEW p \in Procs, Starts(p), will' # "unset", NEW q \in Procs
      PROVE  cmd'[q].kind \notin Setters /\ cmd'[q].then \notin {"decided", "answered"}
  <2>1. Started(p) /\ will # "unset"
    BY <1>1, StartedIs DEF Started
  <2>2. CASE q = p
    BY <1>1, <2>1, <2>2 DEF Started
  <2>3. CASE q # p
    BY <2>1, <2>3 DEF Started, Undecided
  <2> QED BY <2>2, <2>3
<1>2. ASSUME NEW p \in Procs, Steps(p) \/ Killed(p), will' # "unset", NEW q \in Procs
      PROVE  cmd'[q].kind \notin Setters /\ cmd'[q].then \notin {"decided", "answered"}
  <2>1. /\ Only(p) /\ (cmd'[p] = Resting \/ Keeps(cmd[p], cmd'[p])) /\ WorldMoves(p)
        /\ Resting.kind = "none" /\ Resting.then = "none" /\ Shape(cmd[p])
    BY <1>2, StepsMoveOne, WorldDoesMove, RestingIs DEF Shapes
  <2>2. CASE will' # will
    <3>1. Deciding(p) /\ (Write(p) \/ SaveFails(p))
      BY <1>2, <2>1, <2>2 DEF WorldMoves
    <3>2. AfterSave(cmd[p], cmd'[p]) /\ cmd[p].alone = TRUE
      BY <3>1, SavedIs DEF Deciding
    <3>3. CASE q = p
      <4>1. cmd[p].then = "answered" => cmd[p].kind = "session"
        BY <2>1 DEF Shape
      <4> QED BY <2>1, <3>1, <3>2, <3>3, <4>1 DEF AfterSave, Keeps, Deciding, Setters
    <3>4. CASE q # p
      <4>1. cmd[q].at = "idle" /\ Shape(cmd[q])
        BY <3>2, <3>4 DEF AloneInv, AloneMeans, Shapes
      <4>2. cmd[q].kind = "none" /\ cmd[q].then = "none"
        BY <4>1 DEF Shape
      <4> QED BY <2>1, <3>4, <4>2 DEF Only, Setters
    <3> QED BY <3>3, <3>4
  <2>3. CASE will' = will
    <3>1. \A r \in Procs : cmd[r].kind \notin Setters /\ cmd[r].then \notin {"decided", "answered"}
      BY <1>2, <2>3 DEF Undecided
    <3>2. CASE q # p
      BY <2>1, <3>1, <3>2 DEF Only
    <3>3. CASE q = p
      <4>1. cmd'[p].kind \notin Setters
        BY <2>1, <3>1 DEF Keeps, Setters
      <4>2. cmd'[p].then = "decided" => cmd'[p].kind \in Setters
        <5>1. Shape(cmd'[p])
          BY <1>2, StepsMoveOne
        <5> QED BY <5>1 DEF Shape
      <4>3. cmd'[p].then # "answered"
        <5>1. ASSUME cmd'[p].then = "answered"
              PROVE  FALSE
          <6>1. cmd'[p] # Resting /\ cmd'[p].at \in {"open", "write"}
            BY <1>2, <2>1, <5>1, StepsMoveOne DEF Shape
          <6>2. CASE cmd'[p].at = "open"
            <7>1. cmd[p].at = "prompt"
              BY <1>2, <5>1, <6>1, <6>2, FilesDoAgree DEF FilesAgree
            <7>2. \E granted \in BOOLEAN : Answer(p, granted)
              BY <1>2, <6>1, <7>1, EndIs DEF Steps, OpenConfig, WriteConfig, ConfigFails,
                 SetConsent, Open, Write, SaveFails, Session, Resolved, InstallID, Rotate,
                 Flush, Post, FlushEnds, At
            <7> QED BY <1>2, <7>2 DEF Answer
          <6>3. CASE cmd'[p].at = "write"
            <7>1. cmd[p].at = "open" \/ Write(p)
              BY <2>1, <6>3 DEF WorldMoves
            <7>2. Open(p) \/ Write(p) \/ SaveFails(p)
              BY <1>2, <6>1, <7>1, EndIs DEF Steps, OpenConfig, WriteConfig, ConfigFails,
                 SetConsent, Answer, Session, Resolved, InstallID, Rotate,
                 Flush, Post, FlushEnds, At
            <7>3. ~(Write(p) \/ SaveFails(p))
              <8>1. AfterSave(cmd[p], cmd'[p]) => cmd'[p].then = "none"
                BY <6>1 DEF AfterSave
              <8> QED BY <5>1, <8>1, SavedIs
            <7>4. cmd'[p].then = cmd[p].then
              BY <7>2, <7>3, OpenIs
            <7> QED BY <3>1, <5>1, <7>4
          <6> QED BY <6>1, <6>2, <6>3
        <5> QED BY <5>1
      <4> QED BY <3>3, <4>1, <4>2, <4>3
    <3> QED BY <3>2, <3>3
  <2> QED BY <2>2, <2>3
<1>3. CASE NinetyDays
  BY <1>3 DEF NinetyDays, Undecided, ghosts
<1>4. CASE UNCHANGED vars
  BY <1>4 DEF Undecided, vars, ghosts
<1> QED BY <1>1, <1>2, <1>3, <1>4 DEF Next, Undecided

LEMMA KnowsStep ==
  ASSUME ClientInv, KnowsAsked, [Next]_vars
  PROVE  KnowsAsked'
<1> USE DEF ClientInv
<1>1. ASSUME NEW p \in Procs, Starts(p), will' # "unset", mishaps' = 0
      PROVE  KnowsAsked'
  <2>1. Started(p)
    BY <1>1, StartedIs
  <2>2. Others(p) = {}
    BY <1>1, <2>1, Faulted DEF Started
  <2>3. will # "unset" /\ mishaps = 0
    BY <1>1, <2>1, <2>2 DEF Started
  <2>4. \A q \in Procs : q # p => cmd[q].at = "idle" /\ cmd'[q].at = "idle"
    BY <2>1, <2>2 DEF Others, At, Started
  <2>5. OneRuns'
    BY <2>4 DEF OneRuns
  <2>6. file'.asked = TRUE
    <3>1. ~\E q \in Procs : cmd[q].at = "write"
      BY <2>1, <2>4 DEF Started
    <3> QED BY <2>1, <2>3, <3>1 DEF KnowsAsked, Started
  <2>7. ASSUME NEW q \in Procs
        PROVE  cmd'[q].at # "prompt" /\ (cmd'[q].loaded = TRUE => cmd'[q].st.asked = TRUE)
    <3>1. CASE q = p
      BY <2>1, <3>1 DEF Started
    <3>2. CASE q # p
      BY <2>1, <2>3, <2>4, <3>2 DEF Started, KnowsAsked
    <3> QED BY <3>1, <3>2
  <2> QED BY <2>5, <2>6, <2>7 DEF KnowsAsked
<1>2. ASSUME NEW p \in Procs, Steps(p) \/ Killed(p), will' # "unset", mishaps' = 0
      PROVE  KnowsAsked'
  <2>1. /\ Only(p) /\ WorldMoves(p) /\ ConsentMoves(p) /\ cmd[p].at # "idle"
        /\ Shape(cmd[p]) /\ cmd[p] \in Records
    BY <1>2, StepsMoveOne, WorldDoesMove, ConsentDoesMove, StepsAreBusy DEF Shapes, ClientTyped
  <2>2. mishaps = 0
    BY <1>2, <2>1, Faulted DEF WorldMoves
  <2>3. CASE will = will'
    <3>1. /\ OneRuns
          /\ file.asked = TRUE \/ \E q \in Procs : cmd[q].at = "write"
          /\ \A q \in Procs : /\ cmd[q].at # "prompt"
                              /\ cmd[q].loaded = TRUE => cmd[q].st.asked = TRUE
      BY <1>2, <2>2, <2>3 DEF KnowsAsked
    <3>2. \A q \in Procs : q # p => cmd[q].at = "idle" /\ cmd'[q] = cmd[q]
      BY <2>1, <3>1 DEF OneRuns, Only
    <3>3. cmd[p].at = "write" \/ file.asked = TRUE
      BY <2>1, <3>1, <3>2
    <3>4. OneRuns'
      BY <3>2 DEF OneRuns
    <3>5. cmd[p].at = "write" \/ cmd'[p].at = "write" \/ file'.asked = TRUE
      BY <2>1, <3>3 DEF WorldMoves
    <3>6. cmd[p].at = "write" => file'.asked = TRUE
      <4>1. cmd[p].at = "write" => Write(p) /\ cmd[p].loaded = TRUE
        BY <1>2, <2>1 DEF WorldMoves, Shape, Records
      <4> QED BY <3>1, <4>1 DEF Write
    <3>7. cmd'[p].loaded = TRUE => cmd'[p].st.asked = TRUE
      BY <2>1, <3>1, <3>3 DEF ConsentMoves, Same
    <3>8. cmd'[p].at # "prompt"
      <4>1. ASSUME cmd'[p].at = "prompt"
            PROVE  FALSE
        <5>1. cmd'[p] # Resting /\ cmd'[p].loaded = TRUE /\ cmd'[p].st.asked = FALSE
          BY <1>2, <4>1, StepsMoveOne, RestingIs DEF Shape
        <5> QED BY <3>7, <5>1
      <4> QED BY <4>1
    <3>9. file'.asked = TRUE \/ \E q \in Procs : cmd'[q].at = "write"
      BY <3>5, <3>6
    <3>10. ASSUME NEW q \in Procs
           PROVE  cmd'[q].at # "prompt" /\ (cmd'[q].loaded = TRUE => cmd'[q].st.asked = TRUE)
      <4>1. CASE q = p
        BY <3>7, <3>8, <4>1
      <4>2. CASE q # p
        BY <3>1, <3>2, <4>2
      <4> QED BY <4>1, <4>2
    <3> QED BY <3>4, <3>9, <3>10 DEF KnowsAsked
  <2>4. CASE will # will'
    <3>1. Deciding(p) /\ (Write(p) \/ SaveFails(p))
      BY <1>2, <2>1, <2>4 DEF WorldMoves
    <3>2. Write(p)
      <4>1. SaveFails(p) => Fault
        BY DEF SaveFails
      <4>2. Fault => mishaps' # 0
        BY OneMoreFault, Faulted
      <4> QED BY <1>2, <3>1, <4>1, <4>2
    <3>3. \A q \in Procs : q # p => cmd[q].at = "idle" /\ cmd'[q] = cmd[q] /\ cmd[q].loaded = FALSE
      BY <2>1, <3>1 DEF Deciding, AloneInv, AloneMeans, Only, Shapes, Shape
    <3>4. cmd[p].st.asked = TRUE
      BY <2>1, <3>1 DEF Shape, Deciding
    <3>5. file'.asked = TRUE
      BY <3>2, <3>4 DEF Write
    <3>6. /\ cmd'[p].loaded = TRUE => cmd'[p].st.asked = TRUE
          /\ cmd'[p].at # "prompt"
      BY <3>1, <3>4, SavedIs, RestingIs DEF AfterSave, Deciding
    <3>7. OneRuns'
      BY <3>3 DEF OneRuns
    <3> QED BY <3>3, <3>5, <3>6, <3>7 DEF KnowsAsked
  <2> QED BY <2>3, <2>4
<1>3. CASE NinetyDays
  BY <1>3 DEF NinetyDays, KnowsAsked, OneRuns, ghosts, files
<1>4. CASE UNCHANGED vars
  BY <1>4 DEF KnowsAsked, OneRuns, vars, ghosts, files
<1> QED BY <1>1, <1>2, <1>3, <1>4 DEF Next, KnowsAsked

AskedInv == ClientInv /\ Undecided /\ KnowsAsked

LEMMA AskedInvariant == Spec => []AskedInv
<1>1. Init => AskedInv
  BY ClientInit, RestingIs DEF Init, AskedInv, Undecided, KnowsAsked, Setters
<1>2. AskedInv /\ [Next]_vars => AskedInv'
  BY ClientStep, UndecidedStep, KnowsStep DEF AskedInv
<1> QED BY <1>1, <1>2, PTL DEF Spec

LEMMA ClientTypes ==
  ASSUME ClientInv
  PROVE  TypeOK
<1>1. /\ conf \in {"unset", "true", "false", "bad"} /\ aged \in 0 .. drawn /\ drawn \in Nat
      /\ started \in 0 .. MaxCommands /\ faults \in 0 .. MaxFaults
      /\ will \in {"unset", "yes", "no"} /\ mishaps \in 0 .. 2
  BY DEF ClientInv, ClientTyped
<1>2. floor \in 0 .. drawn /\ file.salt \in 0 .. drawn
  BY DEF ClientInv, ClientTyped, SaltsFresh, Fresh, Stores
<1>3. ASSUME NEW p \in Procs
      PROVE  /\ cmd[p].kind \in Kinds \union {"none"}
             /\ cmd[p].st.salt \in 0 .. drawn /\ ~cmd[p].loaded => cmd[p].st = Zero
             /\ \A i \in DOMAIN cmd[p].queue : cmd[p].queue[i] \in 1 .. drawn
  <2>1. cmd[p] \in Records /\ Shape(cmd[p])
    BY DEF ClientInv, ClientTyped, Shapes
  <2>2. cmd[p].kind \in Kinds \union {"none"} /\ cmd[p].st.salt \in Nat /\ cmd[p].loaded \in BOOLEAN
    BY <2>1 DEF Records, Stores
  <2>3. cmd[p].st.salt \in 0 .. drawn
    BY <1>1, <2>2 DEF ClientInv, SaltsFresh, Fresh
  <2>4. ~cmd[p].loaded => cmd[p].st = Zero
    BY <2>1, <2>2 DEF Shape
  <2>5. ASSUME NEW i \in DOMAIN cmd[p].queue
        PROVE  cmd[p].queue[i] \in 1 .. drawn
    <3>1. cmd[p].queue[i] \in Nat
      BY <2>1 DEF Records
    <3>2. cmd[p].queue[i] > 0 /\ cmd[p].queue[i] <= drawn
      BY DEF ClientInv, SaltsFresh, Fresh
    <3> QED BY <1>1, <3>1, <3>2
  <2> QED BY <2>2, <2>3, <2>4, <2>5
<1> QED BY <1>1, <1>2, <1>3 DEF TypeOK

(* The answer to the first-run question, once a command has recorded it alone, is on
   disk or about to be written, and every command that looks finds it there: nobody
   is asked again until something goes wrong (MaybePrompt of consent.go). *)
THEOREM NobodyIsAskedTwice == Spec => []AskedOnce
<1>1. AskedInv => AskedOnce
  BY ClientTypes DEF AskedInv, KnowsAsked, AskedOnce, At
<1> QED BY <1>1, AskedInvariant, PTL

(***************************************************************************)
(* A no holds                                                              *)
(***************************************************************************)
LEMMA SendingStarts ==
  ASSUME ClientTyped, Shapes, NEW p \in Procs, Steps(p) \/ Killed(p), Sending(cmd'[p])
  PROVE  Keeps(cmd[p], cmd'[p]) /\ (Sending(cmd[p]) \/ Enabled(cmd[p]))
<1>1. /\ cmd[p] \in Records /\ Shape(cmd[p]) /\ ~Sending(Resting)
  BY RestingIs DEF ClientTyped, Shapes, Sending
<1>2. Keeps(cmd[p], cmd'[p]) /\ cmd'[p] # Resting
  BY <1>1, StepsMoveOne
<1>3. CASE OpenConfig(p) \/ WriteConfig(p) \/ ConfigFails(p)
  BY <1>2, <1>3, ConfigIs DEF Sending
<1>4. CASE Write(p) \/ SaveFails(p)
  BY <1>2, <1>4, SavedIs DEF AfterSave, Sending
<1>5. CASE Open(p)
  BY <1>2, <1>5, OpenIs DEF Sending
<1>6. CASE Answers(p)
  BY <1>6, AnswerIs, SetConsentIs DEF Answers, Sending
<1>7. CASE InstallID(p)
  BY <1>2, <1>7, InstallIDIs DEF Sending
<1>8. CASE Rotate(p)
  BY <1>8, RotateIs DEF Sending
<1>9. CASE FlushEnds(p) \/ Killed(p)
  BY <1>1, <1>9, EndIs
<1>10. CASE \E tty \in BOOLEAN : Session(p, tty)
  BY <1>10, SessionIs DEF Sending
<1>11. CASE Resolved(p)
  BY <1>2, <1>11, ResolvedIs
<1>12. CASE Flush(p) \/ Post(p)
  BY <1>2, <1>12, FlushIs DEF Sending
<1> QED BY <1>3, <1>4, <1>5, <1>6, <1>7, <1>8, <1>9, <1>10, <1>11, <1>12 DEF Steps, Answers

\* What becomes of config.yaml.
ConfMoves(p) ==
  \/ conf' = conf /\ (cmd[p].at = "write config" => Mishap)
  \/ conf' = "unset" /\ cmd'[p].at = "write config"
  \/ conf' = cmd[p].conf
  \/ Mishap /\ conf' \in {"unset", "bad"}

LEMMA ConfDoesMove ==
  ASSUME ClientTyped, Shapes, NEW p \in Procs, Steps(p) \/ Killed(p)
  PROVE  ConfMoves(p)
<1>1. CASE OpenConfig(p)
  <2>1. cmd'[p].at = "write config" /\ conf' = "unset"
    BY <1>1, Went DEF OpenConfig, StepNames
  <2> QED BY <2>1 DEF ConfMoves
<1>2. CASE WriteConfig(p)
  BY <1>2 DEF ConfMoves, WriteConfig
<1>3. CASE ConfigFails(p)
  BY <1>3 DEF ConfMoves, ConfigFails, Fault
<1>4. CASE ~(OpenConfig(p) \/ WriteConfig(p) \/ ConfigFails(p))
  <2>1. conf' = conf
    BY <1>4 DEF Steps, SetConsent, Open, Write, SaveFails, Session, Answer, Resolved, InstallID,
       Rotate, Flush, Post, FlushEnds, Killed, files
  <2>2. cmd[p].at # "write config"
    BY <1>4 DEF Steps, SetConsent, Open, Write, SaveFails, Session, Answer, Resolved, InstallID,
       Rotate, Flush, Post, FlushEnds, Killed, At
  <2> QED BY <2>1, <2>2 DEF ConfMoves
<1> QED BY <1>1, <1>2, <1>3, <1>4

LEMMA NoStart ==
  ASSUME ClientInv, NoHolds, NEW p \in Procs, Starts(p), will' = "no", mishaps' <= 1
  PROVE  NoHolds'
<1> USE DEF ClientInv
<1>1. Started(p) /\ mishaps \in 0 .. 2
  BY StartedIs DEF ClientTyped
<1>2. /\ will = "no" /\ cmd'[p].conf = conf
      /\ Others(p) = {} => mishaps' = mishaps
      /\ Others(p) # {} => Mishap
  BY <1>1 DEF Started
<1>3. mishaps <= 1 /\ (mishaps = 1 => Others(p) = {})
  BY <1>1, <1>2, Faulted
<1>4. /\ conf # "true" /\ \A q \in Procs : cmd[q].conf # "true"
      /\ NoneGrants \/ ConfigDenies
      /\ \A q \in Procs : Sending(cmd[q]) => cmd[q].env = "on"
  BY <1>2, <1>3 DEF NoHolds
<1>5. conf' = conf /\ \A q \in Procs : cmd'[q].conf # "true"
  BY <1>1, <1>2, <1>4 DEF Started
<1>6. ASSUME NEW q \in Procs, Sending(cmd'[q])
      PROVE  cmd'[q].env = "on"
  <2>1. q # p
    BY <1>1, <1>6 DEF Started, Sending
  <2>2. Sending(cmd[q]) /\ cmd'[q].env = cmd[q].env
    BY <1>1, <1>6, <2>1 DEF Started, Sending
  <2> QED BY <1>4, <2>2
<1>7. NoneGrants => NoneGrants'
  <2>1. ~Grants(Zero)
    BY RestingIs DEF Grants
  <2>2. ASSUME NoneGrants, NEW q \in Procs
        PROVE  ~Grants(cmd'[q].st)
    BY <1>1, <2>1, <2>2 DEF Started, NoneGrants
  <2> QED BY <1>1, <2>2 DEF Started, NoneGrants
<1>8. ConfigDenies => ConfigDenies'
  <2> SUFFICES ASSUME ConfigDenies
               PROVE  ConfigDenies'
    OBVIOUS
  <2>1. Others(p) = {} /\ mishaps' = 1
    BY <1>2, <1>3 DEF ConfigDenies
  <2>2. \A q \in Procs : cmd[q].at = "idle" /\ (q # p => cmd'[q].at = "idle")
    BY <1>1, <2>1 DEF Others, At, Started
  <2>3. conf = "false"
    BY <2>2 DEF ConfigDenies
  <2> QED BY <1>2, <1>5, <2>1, <2>2, <2>3 DEF ConfigDenies, OneRuns
<1> QED BY <1>4, <1>5, <1>6, <1>7, <1>8 DEF NoHolds

\* A step while the no stands.
LEMMA NoStands ==
  ASSUME ClientInv, Undecided, NoHolds, NEW p \in Procs, Steps(p) \/ Killed(p),
         will = "no", will' = "no", mishaps' <= 1
  PROVE  NoHolds'
<1> USE DEF ClientInv
<1>1. /\ Only(p) /\ (cmd'[p] = Resting \/ Keeps(cmd[p], cmd'[p])) /\ Shape(cmd'[p])
      /\ WorldMoves(p) /\ ConsentMoves(p) /\ ConfMoves(p)
      /\ cmd[p].at # "idle" /\ Shape(cmd[p]) /\ cmd[p] \in Records
      /\ mishaps \in 0 .. 2 /\ cmd[p].loaded \in BOOLEAN /\ cmd'[p].loaded \in BOOLEAN
  <2>1. ClientTyped' /\ cmd[p] \in Records /\ mishaps \in 0 .. 2
    BY TypedStep DEF Next, ClientTyped
  <2>2. cmd[p].loaded \in BOOLEAN /\ cmd'[p].loaded \in BOOLEAN
    BY <2>1 DEF ClientTyped, Records
  <2>3. Shape(cmd[p]) /\ ConfMoves(p)
    BY ConfDoesMove DEF Shapes
  <2> QED BY <2>1, <2>2, <2>3, StepsMoveOne, WorldDoesMove, ConsentDoesMove, StepsAreBusy
<1>2. mishaps <= 1 /\ (mishaps = 1 => ~Mishap /\ mishaps' = 1)
  BY <1>1, Faulted DEF WorldMoves
<1>3. /\ conf # "true" /\ \A q \in Procs : cmd[q].conf # "true"
      /\ NoneGrants \/ ConfigDenies
      /\ \A q \in Procs : Sending(cmd[q]) => cmd[q].env = "on"
  BY <1>2 DEF NoHolds
<1>4. ~Answers(p)
  <2>1. ~SetConsent(p)
    BY <1>1 DEF SetConsent, At, Shape, Undecided
  <2> QED BY <2>1 DEF Answers, Answer
<1>5. conf' # "true" /\ \A q \in Procs : cmd'[q].conf # "true"
  BY <1>1, <1>3, RestingIs DEF ConfMoves, Only, Keeps
<1>6. NoneGrants => NoneGrants'
  <2> SUFFICES ASSUME NoneGrants
               PROVE  NoneGrants'
    OBVIOUS
  <2>1. ~Grants(Zero) /\ ~Grants(file) /\ \A q \in Procs : ~Grants(cmd[q].st)
    BY RestingIs DEF Grants, NoneGrants
  <2>2. ~Grants(file')
    BY <1>1, <2>1 DEF WorldMoves, Write
  <2>3. ~Grants(cmd'[p].st)
    <3>1. CASE cmd'[p].loaded = FALSE
      BY <1>1, <2>1, <3>1 DEF Shape
    <3>2. CASE cmd'[p].loaded = TRUE
      BY <1>1, <1>4, <2>1, <3>2 DEF ConsentMoves, Same, Grants
    <3> QED BY <1>1, <3>1, <3>2
  <2>4. \A q \in Procs : ~Grants(cmd'[q].st)
    BY <1>1, <2>1, <2>3 DEF Only
  <2> QED BY <2>2, <2>4 DEF NoneGrants, Grants
<1>7. ConfigDenies => ConfigDenies'
  <2> SUFFICES ASSUME ConfigDenies
               PROVE  ConfigDenies'
    OBVIOUS
  <2>1. mishaps' = 1 /\ ~Mishap /\ cmd[p].conf = "false"
    BY <1>1, <1>2 DEF ConfigDenies
  <2>2. \A q \in Procs : q # p => cmd[q].at = "idle" /\ cmd'[q].at = "idle"
    BY <1>1 DEF ConfigDenies, OneRuns, Only
  <2>3. OneRuns'
    BY <2>2 DEF OneRuns
  <2>4. \A q \in Procs : cmd'[q].at # "idle" => cmd'[q].conf = "false"
    BY <1>1, <2>1, <2>2, RestingIs DEF Keeps
  <2>5. conf = "false" \/ cmd[p].at = "write config"
    BY <2>2 DEF ConfigDenies
  <2>6. conf' = "false" \/ cmd'[p].at = "write config"
    BY <1>1, <2>1, <2>5 DEF ConfMoves
  <2> QED BY <2>1, <2>3, <2>4, <2>6 DEF ConfigDenies
<1>8. ASSUME NEW q \in Procs, Sending(cmd'[q])
      PROVE  cmd'[q].env = "on"
  <2>1. CASE q # p
    BY <1>1, <1>3, <1>8, <2>1 DEF Only
  <2>2. CASE q = p
    <3>1. cmd'[p].env = cmd[p].env /\ (Sending(cmd[p]) \/ Enabled(cmd[p]))
      BY <1>8, <2>2, SendingStarts DEF Keeps
    <3>2. CASE Enabled(cmd[p])
      <4>1. Decision(cmd[p]) = "on" => cmd[p].env = "on"
        BY <1>1, <1>3 DEF Decision, Records
      <4>2. ASSUME Decision(cmd[p]) = "default", Loaded(cmd[p]).st.asked, Loaded(cmd[p]).st.granted
            PROVE  FALSE
        <5>1. Loaded(cmd[p]).st \in {cmd[p].st, file} /\ file \in Stores
          BY LoadedSalt DEF ClientTyped
        <5>2. Grants(Loaded(cmd[p]).st)
          BY <1>1, <4>2, <5>1 DEF Grants, Stores, Records
        <5>3. ~NoneGrants
          BY <5>1, <5>2 DEF NoneGrants
        <5>4. cmd[p].conf = "false"
          BY <1>1, <1>3, <5>3 DEF ConfigDenies
        <5> QED BY <4>2, <5>4 DEF Decision
      <4> QED BY <2>2, <3>1, <3>2, <4>1, <4>2 DEF Enabled
    <3> QED BY <1>3, <2>2, <3>1, <3>2
  <2> QED BY <2>1, <2>2
<1> QED BY <1>3, <1>5, <1>6, <1>7, <1>8 DEF NoHolds

\* The step that records the no.
LEMMA NoIsMade ==
  ASSUME ClientInv, NEW p \in Procs, Steps(p) \/ Killed(p),
         will # "no", will' = "no", mishaps' <= 1
  PROVE  NoHolds'
<1> USE DEF ClientInv
<1>1. Deciding(p) /\ (Write(p) \/ SaveFails(p))
  BY WorldDoesMove DEF WorldMoves
<1>2. /\ Only(p) /\ AfterSave(cmd[p], cmd'[p]) /\ Shape(cmd[p]) /\ cmd[p] \in Records
      /\ file \in Stores
  BY <1>1, SavedIs DEF Shapes, ClientTyped
<1>3. cmd[p].st.granted = FALSE
  <2>1. will' = IF cmd[p].then \in {"decided", "answered"} /\ cmd[p].alone
                THEN (IF cmd[p].st.granted THEN "yes" ELSE "no") ELSE will
    BY <1>1 DEF Write, SaveFails, Stands
  <2>2. cmd[p].st.granted \in BOOLEAN
    BY <1>2 DEF Records, Stores
  <2> QED BY <1>1, <2>1, <2>2 DEF Deciding
<1>4. ASSUME NEW q \in Procs, q # p
      PROVE  cmd'[q].at = "idle" /\ cmd'[q].conf = "unset" /\ cmd'[q].st = Zero /\ ~Sending(cmd'[q])
  <2>1. cmd'[q] = cmd[q] /\ cmd[q].at = "idle" /\ Shape(cmd[q])
    BY <1>1, <1>2, <1>4 DEF Only, Deciding, AloneInv, AloneMeans, Shapes
  <2> QED BY <2>1 DEF Shape, Sending
<1>5. ~Grants(Zero) /\ ~Grants(cmd[p].st) /\ Resting.st = Zero /\ Resting.conf = "unset"
      /\ ~Sending(Resting) /\ Resting.at = "idle"
  BY <1>3, RestingIs DEF Grants, Sending
<1>6. conf' = conf
  BY <1>1 DEF Write, SaveFails, files
<1>7. ~Grants(cmd'[p].st)
  BY <1>2, <1>5 DEF AfterSave
<1>8. \A q \in Procs : ~Grants(cmd'[q].st)
  BY <1>4, <1>5, <1>7
<1>9. Write(p) => ~Grants(file')
  BY <1>5 DEF Write
<1>10. CASE cmd[p].then = "decided"
  <2>1. cmd'[p] = Resting /\ conf = "false"
    <3>1. cmd[p].kind = "disable"
      BY <1>2, <1>3, <1>10 DEF Shape, Setters
    <3> QED BY <1>1, <1>2, <1>10, <3>1 DEF AfterSave, Deciding, AloneInv, AloneMeans
  <2>2. \A q \in Procs : cmd'[q].conf = "unset" /\ ~Sending(cmd'[q]) /\ cmd'[q].at = "idle"
    BY <1>4, <1>5, <2>1
  <2>3. CASE Write(p)
    BY <1>6, <1>8, <1>9, <2>1, <2>2, <2>3 DEF NoHolds, NoneGrants, Grants
  <2>4. CASE SaveFails(p)
    <3>1. mishaps' = 1
      <4>1. Mishap
        BY <2>4 DEF SaveFails, Fault
      <4> QED BY <4>1, Faulted
    <3>2. ConfigDenies'
      BY <1>6, <2>1, <2>2, <3>1 DEF ConfigDenies, OneRuns
    <3> QED BY <1>6, <2>1, <2>2, <3>2 DEF NoHolds
  <2> QED BY <1>1, <2>3, <2>4
<1>11. CASE cmd[p].then = "answered"
  <2>1. conf = "unset" /\ cmd[p].conf = "unset" /\ cmd[p].queue = <<>>
    BY <1>1, <1>2, <1>11 DEF Shape, Deciding, AloneInv, AloneMeans
  <2>2. ~Grants(file')
    <3>1. CASE SaveFails(p)
      <4>1. file' = file /\ cmd[p].at \in {"open", "write"}
        BY <3>1 DEF SaveFails, files, At
      <4>2. ~Grants(file)
        BY <1>1, <1>5, <1>11, <4>1 DEF Deciding, AloneInv, AloneMeans, Grants
      <4> QED BY <4>1, <4>2
    <3> QED BY <1>1, <1>9, <3>1
  <2>3. NoneGrants'
    BY <1>8, <2>2 DEF NoneGrants, Grants
  <2>4. cmd'[p].conf = "unset" /\ ~Sending(cmd'[p])
    BY <1>2, <1>5, <1>11, <2>1 DEF AfterSave, Keeps, Sending
  <2> QED BY <1>4, <1>6, <2>1, <2>3, <2>4 DEF NoHolds
<1> QED BY <1>1, <1>10, <1>11 DEF Deciding

LEMMA NoStep ==
  ASSUME ClientInv, Undecided, NoHolds, [Next]_vars
  PROVE  NoHolds'
<1>1. ASSUME NEW p \in Procs, Starts(p) \/ Steps(p) \/ Killed(p), will' = "no", mishaps' <= 1
      PROVE  NoHolds'
  BY <1>1, NoStart, NoStands, NoIsMade
<1>2. CASE NinetyDays
  BY <1>2 DEF NinetyDays, NoHolds, NoneGrants, ConfigDenies, OneRuns, ghosts, files
<1>3. CASE UNCHANGED vars
  BY <1>3 DEF NoHolds, NoneGrants, ConfigDenies, OneRuns, vars, ghosts, files
<1> QED BY <1>1, <1>2, <1>3 DEF Next, NoHolds

NoInv == AskedInv /\ NoHolds

LEMMA NoInvariant == Spec => []NoInv
<1>1. Init => NoHolds
  BY DEF Init, NoHolds
<1>2. AskedInv /\ NoHolds /\ [Next]_vars => NoHolds'
  BY NoStep DEF AskedInv
<1> QED BY <1>1, <1>2, AskedInvariant, PTL DEF Spec, NoInv

(* Once the developer has said no, no command that FDH_TELEMETRY does not ask has an
   event to send, through one fault or one overlap of commands: no copy of
   telemetry.json says yes, or config.yaml says no to the one command that may run
   (runTelemetrySet of telemetry_cmd.go, Resolve of consent.go). *)
THEOREM NoIsKept == Spec => []OptOutHolds
<1>1. NoInv => OptOutHolds
  BY DEF NoInv, NoHolds, OptOutHolds, Sending
<1> QED BY <1>1, NoInvariant, PTL
=============================================================================
