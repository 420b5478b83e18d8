------------------------------- MODULE Ledger -------------------------------
(***************************************************************************)
(* What ~/.fdh/state.json promises to the commands that keep it: every     *)
(* operation is applied to the current content, whole, or not at all.      *)
(***************************************************************************)
EXTENDS Integers

CONSTANTS
    Projects,       \* directories a project can be installed in
    NoSection       \* a ledger without the key `instincts`

VARIABLES
    entry,          \* entry[q]: the install that last registered q, 0 if none
    hub,            \* the install that last recorded the hub cache, 0 if none
    section         \* the key `instincts`: its two counters, or NoSection

book == <<entry, hub, section>>

Counters == [count : Nat, runs : Nat]
Zero == [count |-> 0, runs |-> 0]
Kept == IF section = NoSection THEN Zero ELSE section

Init ==
    /\ entry = [q \in Projects |-> 0]
    /\ hub = 0
    /\ section = NoSection

\* An install, init or switch records its project and the hub's commit.
Register(q) ==
    /\ hub' \in Nat
    /\ entry' = [entry EXCEPT ![q] = hub']
    /\ UNCHANGED section

\* A repair forgets projects and nothing else.
Forget(gone) ==
    /\ entry' = [q \in Projects |-> IF q \in gone THEN 0 ELSE entry[q]]
    /\ UNCHANGED <<hub, section>>

\* An instinct command changes one counter and nothing else.
Tally ==
    /\ \/ /\ section' \in Counters
          /\ section'.count >= Kept.count
          /\ section'.runs = Kept.runs
       \/ section' = [Kept EXCEPT !.count = IF @ > 0 THEN @ - 1 ELSE 0]
       \/ section' = [Kept EXCEPT !.runs = @ + 1]
    /\ UNCHANGED <<entry, hub>>

Next ==
    \/ \E q \in Projects : Register(q)
    \/ \E gone \in SUBSET Projects : Forget(gone)
    \/ Tally

Spec == Init /\ [][Next]_book
=============================================================================
