----------------------------- MODULE SkillText -----------------------------
(***************************************************************************)
(* SKILL.md: what a publisher's checks say of one, and the line in it that *)
(* tells where an installed skill came from.                               *)
(*                                                                         *)
(* A document is a sequence of lines with their terminators, of which only *)
(* the last may have none; a file may have a byte order mark before it.  A *)
(* line of the frontmatter is a key and what it is set to; keys and texts  *)
(* are those the checks tell apart.                                        *)
(***************************************************************************)
EXTENDS Naturals, Sequences, SequencesExt, Lines

CONSTANTS
  Refs,         \* installed_from lines
  Held,         \* one that is indented, in the map of the key above it
  Named,        \* the name of the directory, with a description
  Closed,       \* portable: false
  Compat,       \* a compatibility list of known agents
  AgentKey,     \* a key that one agent alone knows, which may hold a map
  Substitution, \* a text with a substitution, or a command, of one agent alone
  Prose         \* any other text

Fence == "---"

\* The texts that are a mark, for whatever their indentation, and those that are none.
Marks == Refs \union {Held}
Plain == {Fence, Named, Closed, Compat, AgentKey, Substitution, Prose}

ASSUME TextAssumption ==
  Plain \cap Marks = {} /\ Held \notin Refs /\ "installed_from" \notin Plain \union {Held}

Ends == {"lf", "crlf", "none"}
Line(text, eol) == [text |-> text, eol |-> eol]
HasEnd(line) == line.eol # "none"
Texts(lines) == [i \in DOMAIN lines |-> lines[i].text]

-----------------------------------------------------------------------------
(* InjectBreadcrumb. *)

HasFrontmatter(doc) == doc # <<>> /\ doc[1].text = Fence /\ HasEnd(doc[1])

\* The closing fence, 0 when there is none: it has to be ended.
CloseAt(doc) ==
  SelectInSubSeq(doc, 2, Len(doc), LAMBDA l : l.text = Fence /\ HasEnd(l))

\* The appended line ends as the block's lines do: CRLF if one of them does.
LineEnding(block) == IF \E i \in DOMAIN block : block[i].eol = "crlf" THEN "crlf" ELSE "lf"

\* Mutant: the line is appended whether there is one or not.
AlwaysAppend(block, ref) == Append(block, Line(ref, LineEnding(block)))

\* The first installed_from line gets the value, and loses its indentation.
ReplaceOrAppendKey(block, ref) ==
  LET k == SelectInSeq(block, LAMBDA l : l.text \in Marks)
  IN  IF k # 0 THEN [block EXCEPT ![k].text = ref]
      ELSE Append(block, Line(ref, LineEnding(block)))

Fresh(ref) == <<Line(Fence, "lf"), Line(ref, "lf"), Line(Fence, "lf")>>

\* The lines between the fences, and the document with other lines there.
BlockOf(doc) == SubSeq(doc, 2, CloseAt(doc) - 1)
WithBlock(doc, block) ==
  <<doc[1]>> \o block \o SubSeq(doc, CloseAt(doc), Len(doc))

\* A frontmatter that is not closed is left alone.
Marked(doc, ref) ==
  IF ~HasFrontmatter(doc) THEN Fresh(ref) \o doc
  ELSE IF CloseAt(doc) = 0 THEN doc
  ELSE WithBlock(doc, ReplaceOrAppendKey(BlockOf(doc), ref))

(* Behind a byte order mark, a frontmatter that is put before a document without one is
   written over its beginning first, for both are slices of one array. *)
Overwritten(doc, ref) ==
  Fresh(ref) \o [i \in DOMAIN doc |-> IF i \in DOMAIN Fresh(ref) THEN Fresh(ref)[i] ELSE doc[i]]

InjectBreadcrumb(file, ref) ==
  [file EXCEPT !.lines = IF file.bom /\ ~HasFrontmatter(@) THEN Overwritten(@, ref)
                         ELSE Marked(@, ref)]

\* What StripBreadcrumb leaves of a file without a byte order mark.
Unmarked(doc) ==
  IF ~HasFrontmatter(doc) \/ CloseAt(doc) = 0 THEN doc
  ELSE WithBlock(doc, Drop(BlockOf(doc), [text : Marks, eol : Ends]))

-----------------------------------------------------------------------------
(* ParseSkillMD reads lines without their terminators, and without a byte order mark,
   and takes a closing fence that ends the file. *)

ParsedClose(doc) == SelectInSubSeq(doc, 2, Len(doc), LAMBDA l : l.text = Fence)

Frontmatter(doc) ==
  IF ~HasFrontmatter(doc) THEN <<>>
  ELSE Texts(SubSeq(doc, 2, IF ParsedClose(doc) = 0 THEN Len(doc) ELSE ParsedClose(doc) - 1))
BodyTexts(doc) ==
  IF ~HasFrontmatter(doc) THEN Texts(doc)
  ELSE IF ParsedClose(doc) = 0 THEN <<>>
  ELSE Texts(SubSeq(doc, ParsedClose(doc) + 1, Len(doc)))

Key(text) == IF text \in Refs THEN "installed_from" ELSE text

\* YAML takes keys only, each of them once, and indents what another key holds.
Parsed(doc) ==
  LET fm == Frontmatter(doc)
  IN  /\ \A i \in DOMAIN fm : fm[i] \notin {Substitution, Prose, Fence}
      /\ \A i \in DOMAIN fm : fm[i] = Held => i > 1 /\ fm[i - 1] = AgentKey
      /\ \A i, j \in DOMAIN fm : Key(fm[i]) = Key(fm[j]) => i = j

\* Mutant: the list of portable keys lacks the one that fdh writes.
AuthoredKeys == {Named, Closed, Compat}

\* PortableAllowlist.
PortableKeys == {Named, Closed, Compat, "installed_from"}

(* Lint: a portable skill has portable keys and no text for one agent alone, and any
   other names the agents it is for. *)
Portable(doc) == ~Contains(Frontmatter(doc), Closed)
LintsClean(doc) ==
  IF Portable(doc)
  THEN /\ \A i \in DOMAIN Frontmatter(doc) : Key(Frontmatter(doc)[i]) \in PortableKeys
       /\ ~Contains(BodyTexts(doc), Substitution)
  ELSE Contains(Frontmatter(doc), Compat)

Publishable(doc) ==
  /\ Parsed(doc)                        \* bundle.Load
  /\ Contains(Frontmatter(doc), Named)  \* Bundle.Validate
  /\ LintsClean(doc)                    \* portability.Lint

-----------------------------------------------------------------------------
(* The documents of at most n lines after an opening fence, and those of at most two
   lines, which end in LF, in CRLF or in both by turns. *)
Docs(n) ==
  LET All     == Plain \union Marks
      Bodies  == BoundedSeq(All, 2) \union {<<Fence>> \o rest : rest \in BoundedSeq(All, n)}
      Turns   == {<<"lf", "lf">>, <<"crlf", "crlf">>, <<"crlf", "lf">>}
      Ending(texts, e) == [i \in DOMAIN texts |-> Line(texts[i], e[1 + (i % 2)])]
      Cut(doc) == IF doc = <<>> THEN doc ELSE [doc EXCEPT ![Len(doc)].eol = "none"]
      Whole   == {Ending(texts, e) : texts \in Bodies, e \in Turns}
  IN  Whole \union {Cut(doc) : doc \in Whole}

Skills(n) == [bom : BOOLEAN, lines : Docs(n)]

(* Marking an installed skill again gives what marking the original gives, so marks do
   not pile up, and without its installed_from lines it is what it was, line ends
   included: but for a skill with a byte order mark and no frontmatter, the beginning
   of which is lost (provenance.go, InjectBreadcrumb and StripBreadcrumb). *)
MarksReplaceMarks(n) ==
  \A file \in Skills(n), r, s \in Refs :
    (file.bom => HasFrontmatter(file.lines)) =>
      LET new == InjectBreadcrumb(file, r)
      IN  /\ InjectBreadcrumb(new, s) = InjectBreadcrumb(file, s)
          /\ HasFrontmatter(file.lines) => Unmarked(new.lines) = Unmarked(file.lines)

(* A skill that can be published can be published again from where it was installed:
   the mark breaks none of the checks, changes no other key and no line of the body,
   and names where it came from unless the closing fence is the end of the file; but
   for a skill in which another key holds an installed_from, which the mark takes for
   its own (provenance.go, InjectBreadcrumb; skillmd.go, ParseSkillMD; portability.go,
   Lint). *)
MarkedStaysPublishable(n) ==
  \A file \in Skills(n), r \in Refs :
    Publishable(file.lines) /\ ~Contains(Frontmatter(file.lines), Held) =>
      LET doc == file.lines
          new == InjectBreadcrumb(file, r).lines
          Others(d) == Drop(Frontmatter(d), Refs)
      IN  /\ Publishable(new)
          /\ BodyTexts(new) = BodyTexts(doc) /\ Others(new) = Others(doc)
          /\ CloseAt(doc) # 0 => Contains(Frontmatter(new), r)
=============================================================================
