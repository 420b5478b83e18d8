------------------------------ MODULE Proposals ------------------------------
(***************************************************************************)
(* What the portal promises to those who own the hub: a pull request is    *)
(* one action.  Its two files are edited from what the hub held at two     *)
(* moments, in order and not after the commit that it starts from; nothing *)
(* promises that the three are one.                                        *)
(***************************************************************************)
EXTENDS HubEdits

CONSTANTS
  FirstTrees, \* what the hub may hold at first
  Asked,      \* the actions users ask for
  Pushed      \* the changes others push

VARIABLES
  hub,   \* what the commits of main hold, oldest first
  open,  \* the open proposals: the action of the title, the first tree, the proposed one
  cut    \* the branches that somebody deleted under a request

Init == (\E t \in FirstTrees : hub = <<t>>) /\ open = {} /\ cut = {}

Now == hub[Len(hub)]

\* A call of a request, or a person, does nothing that shows.
Rest == UNCHANGED <<hub, open, cut>>

\* The title says what the proposal does, and nothing is proposed yet for the same branch.
Propose(title, a) ==
  /\ BranchOf(a) = BranchOf(title)
  /\ a = title \/ BranchOf(a) \in cut
  /\ a.type = "harness" => \E k \in 1 .. Len(hub) : a.add \subseteq Listed(hub[k])
  /\ \A p \in open : BranchOf(p.act) # BranchOf(title)
  /\ \E k \in 1 .. Len(hub) : \E i \in 1 .. k : \E j \in i .. k :
       /\ Accepts(hub[i].registry, a)
       /\ open' = open \union {[act |-> title, from |-> hub[k], tree |-> Edited(hub, a, i, j, k)]}
  /\ UNCHANGED <<hub, cut>>

\* What differs from its first tree, and nothing else, comes into the hub.
Merge(p) ==
  /\ ~Conflict(Now.registry, p.from.registry, p.tree.registry)
  /\ ~Conflict(Now.harnesses, p.from.harnesses, p.tree.harnesses)
  /\ hub' = Append(hub, [registry  |-> Merged(Now.registry, p.from.registry, p.tree.registry),
                         harnesses |-> Merged(Now.harnesses, p.from.harnesses, p.tree.harnesses)])
  /\ open' = open \ {p}
  /\ UNCHANGED cut

Close(p) == open' = open \ {p} /\ UNCHANGED <<hub, cut>>

Push(a) ==
  /\ Valid(Now, a)
  /\ hub' = Append(hub, Apply(Now, a))
  /\ UNCHANGED <<open, cut>>

\* Somebody deletes a branch that has no proposal yet.
Cut(b) == cut' = cut \union {b} /\ UNCHANGED <<hub, open>>

Next ==
  \/ Rest
  \/ \E title, a \in Asked : Propose(title, a)
  \/ \E a \in Pushed : Push(a)
  \/ \E p \in open : Merge(p) \/ Close(p)
  \/ \E b \in Branches : Cut(b)

Spec == Init /\ [][Next]_<<hub, open, cut>>
=============================================================================
