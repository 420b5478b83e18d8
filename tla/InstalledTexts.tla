--------------------------- MODULE InstalledTexts ---------------------------
(***************************************************************************)
(* The two texts that an install of RegistryInstall writes into: the       *)
(* SKILL.md that it marks and the project's .gitignore.                    *)
(***************************************************************************)
EXTENDS RegistryInstall, GitignoreText, SkillText

CONSTANTS
  MaxIgnored,   \* tokens of a .gitignore
  MaxMarked,    \* lines after the opening fence of a skill that is marked twice
  MaxPublished  \* the same of one that is published

ASSUME TextBoundAssumption == MaxIgnored \in Nat /\ MaxMarked \in Nat /\ MaxPublished \in Nat

(* Whatever a developer has made of .gitignore, the managed block comes to list exactly
   the paths and every other line keeps its text and its place, though not its CRLF
   (see GitignoreText, ForeignLinesKept; gitignore.go, Apply). *)
IgnoreKeepsForeign == Init => ForeignLinesKept(MaxIgnored)

(* An install marks a skill once, and what it has marked can be published again, with
   the exceptions that SkillText names (MarksReplaceMarks and MarkedStaysPublishable;
   provenance.go, InjectBreadcrumb; portability.go, Lint). *)
MarksAreSound == Init => MarksReplaceMarks(MaxMarked) /\ MarkedStaysPublishable(MaxPublished)
=============================================================================
