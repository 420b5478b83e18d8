---------------------------- MODULE PortalGitops ----------------------------
(***************************************************************************)
(* The write surface of the portal API: a request composes one pull        *)
(* request on the hub repository, one GitHub API call at a time, and never *)
(* merges it.  Beside the requests, people merge and close pull requests,  *)
(* delete branches and push to main.                                       *)
(*                                                                         *)
(* A commit of main is the two files the portal edits (HubEdits); Nothing  *)
(* is also no branch and no pull request.                                  *)
(***************************************************************************)
EXTENDS HubEdits, FiniteSets

CONSTANTS
  Requests,   \* requests the API can be serving
  FirstTrees, \* what main may hold at first
  Asked,      \* bound: the actions users ask the portal for
  Pushed,     \* bound: the changes others push to main
  KeepsHeads, \* people may leave the branch of a closed or merged pull request
  MaxMain,    \* bound: commits of main
  MaxFaults   \* bound: requests that stop half-way and branches deleted under one

\* A branch: its fork point on main, its tree, whether it has a commit of its own;
\* and, for the properties, where main was when its author began to read.
Heads == [since : 1..MaxMain, base : 1..MaxMain, tree : Trees, ahead : BOOLEAN]

ASSUME NothingAssumption == Nothing \notin Entries \union Acts \union Heads
ASSUME FirstAssumption   ==
  FirstTrees \subseteq Trees /\ Asked \subseteq Acts /\ Pushed \subseteq Acts
ASSUME BoundAssumption   ==
  /\ KeepsHeads \in BOOLEAN
  /\ MaxMain \in Nat \ {0} /\ MaxFaults \in Nat

VARIABLES
  main,      \* the trees of main's commits, oldest first
  branch,    \* branch[b]: the head of branch b
  pr,        \* pr[b]: the action in the title of the open pull request of b
  faults,    \* number of requests that stopped half-way
  step,      \* step[r]: the API call request r makes next
  act,       \* act[r]: the action r composes
  registry,  \* registry[r]: hub/registry.yaml as r read it
  roster,    \* roster[r]: hub/harnesses.yaml as r read it
  base,      \* base[r]: the tip of main as r read it
  since,     \* history: since[r]: the tip of main when r first read a file
  cut        \* history: the branches deleted under a request that composed on them

hubVars  == <<main, branch, pr, cut>>
readVars == <<registry, roster, base, since>>
vars == <<hubVars, faults, step, act, readVars>>

StepNames == {"idle", "find", "registry", "harnesses", "tip", "exists", "create",
          "commit", "open"}
NoRegistry == [c \in Comps |-> Nothing]
NoRoster   == [h \in Harnesses |-> {}]

TypeOK ==
  /\ main \in Seq(Trees) /\ Len(main) \in 1..MaxMain
  /\ branch \in [Branches -> Heads \union {Nothing}]
  /\ pr \in [Branches -> Acts \union {Nothing}]
  /\ faults \in Nat
  /\ step \in [Requests -> StepNames]
  /\ act \in [Requests -> Acts \union {Nothing}]
  /\ registry \in [Requests -> Registries]
  /\ roster \in [Requests -> Rosters]
  /\ base \in [Requests -> 1..MaxMain]
  /\ since \in [Requests -> 1..MaxMain]
  /\ cut \in SUBSET Branches

Init ==
  /\ \E t \in FirstTrees : main = <<t>>
  /\ branch = [b \in Branches |-> Nothing]
  /\ pr = [b \in Branches |-> Nothing]
  /\ faults = 0
  /\ step = [r \in Requests |-> "idle"]
  /\ act = [r \in Requests |-> Nothing]
  /\ registry = [r \in Requests |-> NoRegistry]
  /\ roster = [r \in Requests |-> NoRoster]
  /\ base = [r \in Requests |-> 1]
  /\ since = [r \in Requests |-> 1]
  /\ cut = {}

Tip == main[Len(main)]

(***************************************************************************)
(* A request.                                                              *)
(***************************************************************************)
\* Mutant: both files are committed, read or not.
CommitBothFiles(r) ==
  [registry |-> EditRegistry(registry[r], act[r]),
   harnesses |-> IF EditsRoster(roster[r], act[r]) THEN EditRoster(roster[r], act[r])
                 ELSE roster[r]]

\* CommitFiles: the tree of the base with the files of the request in place.
CommitTree(r) ==
  [registry  |-> IF act[r].type = "harness" THEN main[base[r]].registry
                 ELSE EditRegistry(registry[r], act[r]),
   harnesses |-> IF EditsRoster(roster[r], act[r]) THEN EditRoster(roster[r], act[r])
                 ELSE main[base[r]].harnesses]

Goto(r, s) == step' = [step EXCEPT ![r] = s]
Target(r) == BranchOf(act[r])

\* The portal's snapshot of the catalogue, built from some commit of main, lists
\* what the edit of a harness adds.
AdditionsKnown(a) ==
  a.type = "harness" => \E k \in 1..Len(main) : a.add \subseteq Listed(main[k])

\* The handler refuses an edit that is empty or adds what the portal does not know.
StartRequest(r, a) ==
  /\ step[r] = "idle"
  /\ a.type = "harness" => a.add \union a.remove # {}
  /\ AdditionsKnown(a)
  /\ act' = [act EXCEPT ![r] = a]
  /\ Goto(r, "find")
  /\ UNCHANGED <<hubVars, faults, readVars>>

\* The request ends and is forgotten: it has answered with an error or with a pull
\* request, or it has stopped.
ForgetFiles(r) ==
  /\ registry' = [registry EXCEPT ![r] = NoRegistry]
  /\ roster' = [roster EXCEPT ![r] = NoRoster]
  /\ base' = [base EXCEPT ![r] = 1]
  /\ since' = [since EXCEPT ![r] = 1]

Forget(r) ==
  /\ Goto(r, "idle")
  /\ act' = [act EXCEPT ![r] = Nothing]
  /\ ForgetFiles(r)

\* The pull request that is open already is the answer, whatever its action.
FindOpenPR(r) ==
  /\ step[r] = "find"
  /\ IF pr[Target(r)] # Nothing
     THEN Forget(r)
     ELSE /\ Goto(r, IF act[r].type = "harness" THEN "harnesses" ELSE "registry")
          /\ UNCHANGED <<act, readVars>>
  /\ UNCHANGED <<hubVars, faults>>

\* Mutant: the check of the action is left to the reviewer.
GetRegistryUnchecked(r) ==
  /\ step[r] = "registry"
  /\ registry' = [registry EXCEPT ![r] = Tip.registry]
  /\ since' = [since EXCEPT ![r] = Len(main)]
  /\ Goto(r, IF act[r].type = "default" THEN "harnesses" ELSE "tip")
  /\ UNCHANGED <<hubVars, faults, act, roster, base>>

GetRegistry(r) ==
  /\ step[r] = "registry"
  /\ IF Accepts(Tip.registry, act[r])
     THEN /\ registry' = [registry EXCEPT ![r] = Tip.registry]
          /\ since' = [since EXCEPT ![r] = Len(main)]
          /\ Goto(r, IF act[r].type = "default" THEN "harnesses" ELSE "tip")
          /\ UNCHANGED <<act, roster, base>>
     ELSE Forget(r)
  /\ UNCHANGED <<hubVars, faults>>

GetHarnesses(r) ==
  /\ step[r] = "harnesses"
  /\ roster' = [roster EXCEPT ![r] = Tip.harnesses]
  /\ since' = [since EXCEPT ![r] = IF act[r].type = "harness" THEN Len(main) ELSE @]
  /\ Goto(r, "tip")
  /\ UNCHANGED <<hubVars, faults, act, registry, base>>

DefaultBranchSHA(r) ==
  /\ step[r] = "tip"
  /\ base' = [base EXCEPT ![r] = Len(main)]
  /\ Goto(r, "exists")
  /\ UNCHANGED <<hubVars, faults, act, registry, roster, since>>

\* An existing branch is never reused: ErrBranchConflict.
BranchExists(r) ==
  /\ step[r] = "exists"
  /\ IF branch[Target(r)] # Nothing
     THEN Forget(r)
     ELSE Goto(r, "create") /\ UNCHANGED <<act, readVars>>
  /\ UNCHANGED <<hubVars, faults>>

\* GitHub refuses to create a reference that exists.
CreateBranch(r) ==
  /\ step[r] = "create"
  /\ IF branch[Target(r)] # Nothing
     THEN Forget(r) /\ UNCHANGED branch
     ELSE /\ branch' = [branch EXCEPT ![Target(r)] =
                [since |-> base[r], base |-> base[r], tree |-> main[base[r]], ahead |-> FALSE]]
          /\ Goto(r, "commit")
          /\ UNCHANGED <<act, readVars>>
  /\ UNCHANGED <<main, pr, cut, faults>>

\* The branch can move to a child of commit k of main without force.
FastForwards(b, k) ==
  IF branch[b] = Nothing THEN FALSE ELSE ~branch[b].ahead /\ branch[b].base <= k

CommitFiles(r) ==
  /\ step[r] = "commit"
  /\ IF FastForwards(Target(r), base[r])
     THEN /\ branch' = [branch EXCEPT ![Target(r)] =
                [since |-> since[r], base |-> base[r], tree |-> CommitTree(r), ahead |-> TRUE]]
          /\ Goto(r, "open")
          /\ UNCHANGED act /\ ForgetFiles(r)
     ELSE Forget(r) /\ UNCHANGED branch
  /\ UNCHANGED <<main, pr, cut, faults>>

\* Mutant: a commit that changes nothing is not proposed.
OpenPRIfChanged(r) ==
  /\ step[r] = "open"
  /\ IF branch[Target(r)] # Nothing /\ branch[Target(r)].tree # main[branch[Target(r)].base]
     THEN pr' = [pr EXCEPT ![Target(r)] = act[r]] /\ Forget(r)
     ELSE Forget(r) /\ UNCHANGED pr
  /\ UNCHANGED <<main, branch, cut, faults>>

\* GitHub refuses a second open pull request of a branch, and a branch that is
\* gone or has no commit of its own.
OpenPR(r) ==
  /\ step[r] = "open"
  /\ IF pr[Target(r)] = Nothing /\ branch[Target(r)] # Nothing /\ branch[Target(r)].ahead
     THEN pr' = [pr EXCEPT ![Target(r)] = act[r]] /\ Forget(r)
     ELSE Forget(r) /\ UNCHANGED pr
  /\ UNCHANGED <<main, branch, cut, faults>>

MayFail == faults + Cardinality(cut) < MaxFaults

\* A call fails or times out, the user's connection or the API goes away:
\* between two calls, so with or without the effect of the last one.
StopHalfWay(r) ==
  /\ step[r] # "idle" /\ MayFail
  /\ faults' = faults + 1
  /\ Forget(r)
  /\ UNCHANGED hubVars

(***************************************************************************)
(* The hub: people, at any moment.                                         *)
(***************************************************************************)
EndPR(b) ==
  /\ pr' = [pr EXCEPT ![b] = Nothing]
  /\ \/ branch' = [branch EXCEPT ![b] = Nothing]
     \/ KeepsHeads /\ UNCHANGED branch

MergePR(b) ==
  LET old == main[branch[b].base]  new == branch[b].tree IN
  /\ pr[b] # Nothing /\ Len(main) < MaxMain
  /\ ~Conflict(Tip.registry, old.registry, new.registry)
  /\ ~Conflict(Tip.harnesses, old.harnesses, new.harnesses)
  /\ main' = Append(main, [registry  |-> Merged(Tip.registry, old.registry, new.registry),
                           harnesses |-> Merged(Tip.harnesses, old.harnesses, new.harnesses)])
  /\ EndPR(b)
  /\ UNCHANGED <<cut, faults, step, act, readVars>>

ClosePR(b) ==
  /\ pr[b] # Nothing
  /\ EndPR(b)
  /\ UNCHANGED <<main, cut, faults, step, act, readVars>>

\* The request that writes to branch b has made it and not yet opened its pull request.
Writes(r, b) == step[r] \in {"commit", "open"} /\ Target(r) = b

\* A branch without a pull request looks stale, also when it is a moment old.
DeleteStaleBranch(b) ==
  /\ pr[b] = Nothing /\ branch[b] # Nothing
  /\ branch' = [branch EXCEPT ![b] = Nothing]
  /\ (\E r \in Requests : Writes(r, b)) => MayFail
  /\ cut' = IF \E r \in Requests : Writes(r, b) THEN cut \union {b} ELSE cut
  /\ UNCHANGED <<main, pr, faults, step, act, readVars>>

\* Others push to main too: `fdh share`, the hub's maintainers.
PushToMain(a) ==
  /\ Len(main) < MaxMain
  /\ Valid(Tip, a) /\ Apply(Tip, a) # Tip
  /\ main' = Append(main, Apply(Tip, a))
  /\ UNCHANGED <<branch, pr, cut, faults, step, act, readVars>>

(***************************************************************************)
(* The specification.                                                      *)
(***************************************************************************)
Compose(r) ==
  \/ FindOpenPR(r) \/ GetRegistry(r) \/ GetHarnesses(r) \/ DefaultBranchSHA(r)
  \/ BranchExists(r) \/ CreateBranch(r) \/ CommitFiles(r) \/ OpenPR(r)

Hub ==
  \/ \E b \in Branches : MergePR(b) \/ ClosePR(b) \/ DeleteStaleBranch(b)
  \/ \E a \in Pushed : PushToMain(a)

Next ==
  \/ \E r \in Requests : (\E a \in Asked : StartRequest(r, a)) \/ Compose(r) \/ StopHalfWay(r)
  \/ Hub

Spec == Init /\ [][Next]_vars

(***************************************************************************)
(* Properties.                                                             *)
(***************************************************************************)
\* The commit of branch b is action a: each file of it is edited as a says from what
\* main held at some commit, the registry's not after the harnesses', between the
\* first read of the request and the commit that the branch starts from.
Holds(b, a) ==
  \E i \in branch[b].since .. branch[b].base : \E j \in i .. branch[b].base :
    /\ Accepts(main[i].registry, a)
    /\ branch[b].tree = Edited(main, a, i, j, branch[b].base)

\* An open pull request is one action, and the one of its title unless somebody
\* deleted the branch under the request that opened it: no other interleaving of
\* requests and people mixes two of them.  When main has not moved between the first
\* read and the commit it starts from, it is that action and nothing else.
ProposalIsAction ==
  TypeOK /\ \A b \in Branches : pr[b] # Nothing =>
    /\ branch[b] # Nothing
    /\ \E a \in Acts : /\ BranchOf(a) = b /\ (a = pr[b] \/ b \in cut)
                       /\ AdditionsKnown(a) /\ Holds(b, a)

\* The pull request of b was composed while main stood still, and is its own.
Still(b) == branch[b].since = branch[b].base /\ b \notin cut

\* The default harness mirrors the entries with default: true.
Mirror(t) == \A c \in Comps : t.registry[c] # Nothing =>
  (t.registry[c].default <=> c \in t.harnesses[Default])

\* ComposeCurate edits flag and harness in one commit: merging a pull request that was
\* composed while main stood still keeps the mirror, whatever was merged or pushed
\* since, unless it edits the default harness itself or imports what that harness
\* names already.  Nothing in the code keeps main still between the two reads.
MergeKeepsMirror ==
  [][\A b \in Branches :
       /\ main' # main /\ pr[b] # Nothing /\ pr'[b] = Nothing /\ Still(b)
       /\ b # <<"harness", Default>>
       /\ pr[b].type = "import" => pr[b].comp \notin Tip.harnesses[Default]
       /\ Mirror(Tip) /\ Mirror(main[branch[b].base])
       => Mirror(Tip')]_vars

\* What takes the lifecycle of a version back on main, or an entry away, is the merge
\* of a pull request that was composed while main moved: no other merge, however
\* stale, does, and no push.
LifecycleForwardOnMain ==
  [][(\A b \in Branches : pr[b] # Nothing /\ pr'[b] = Nothing => Still(b)) =>
     \A c \in Comps : Tip.registry[c] # Nothing =>
       /\ Tip'.registry[c] # Nothing
       /\ Rank(Tip'.registry[c].status) >= Rank(Tip.registry[c].status)]_vars

\* No branch is left behind without a pull request, which would refuse every
\* later request for it with ErrBranchConflict, unless a request stopped
\* half-way: a branch has its pull request or its request, whoever deletes branches
\* and closes pull requests meanwhile.
BranchHasOwner ==
  \A b \in Branches : branch[b] # Nothing /\ faults = 0 /\ ~KeepsHeads =>
    pr[b] # Nothing \/ \E r \in Requests : Writes(r, b)

\* Seven or eight calls look like one: a pull request opens as an action whose files
\* were read at most at two moments before the commit it starts from, and no other
\* step of a request shows; a merge brings in what differs from that commit, whatever
\* main has become.
Shown == {[act |-> pr[b], from |-> main[branch[b].base], tree |-> branch[b].tree] :
            b \in {x \in Branches : pr[x] # Nothing}}
Promise == INSTANCE Proposals WITH hub <- main, open <- Shown
KeepsProposals == Promise!Spec
=============================================================================
