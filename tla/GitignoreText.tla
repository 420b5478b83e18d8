--------------------------- MODULE GitignoreText ---------------------------
(***************************************************************************)
(* The managed block of .gitignore, a file that developers write too.      *)
(***************************************************************************)
EXTENDS Naturals, Sequences, SequencesExt, Lines

CONSTANTS
  PathOrder,  \* the paths that can be managed, in alphabetical order
  UnderFdh,   \* those in the project's .fdh directory
  UserLines   \* lines of the developer's

Paths == {PathOrder[i] : i \in DOMAIN PathOrder}

ASSUME PathAssumption == PathOrder \in Seq(Paths)

-----------------------------------------------------------------------------
(* The text is a sequence of tokens, of which two end a line. *)

NL    == "\n"
CRLF  == "\r\n"
Begin == "# >>> fdh:managed-paths >>>"
End   == "# <<< fdh:managed-paths <<<"
Negations == {"!.fdh/manifest.yaml", "!.fdh/lock.yaml"}

\* A line is no sentinel, and no path is a negation.
ASSUME LineAssumption ==
  {NL, CRLF, Begin, End} \cap (Paths \union UserLines) = {} /\ Negations \cap Paths = {}

Find(text, token) == SelectInSeq(text, LAMBDA t : t = token)

\* One sentinel without the other, or in the wrong order.
Malformed(text) ==
  LET b == Find(text, Begin)
      e == Find(text, End)
  IN  (b = 0) # (e = 0) \/ e < b

(* What is before and after the section of a text that has one: its own newline
   goes with it, and so does one blank line before it. *)
Before(text) ==
  LET lead == SubSeq(text, 1, Find(text, Begin) - 1)
  IN  IF IsSuffix(<<NL, NL>>, lead) THEN Front(lead) ELSE lead
After(text) ==
  LET e == Find(text, End)
  IN  SubSeq(text, IF e < Len(text) /\ text[e + 1] = NL THEN e + 2 ELSE e + 1, Len(text))

HasSection(text) == Find(text, Begin) # 0
Foreign(text) == IF HasSection(text) THEN Before(text) \o After(text) ELSE text

\* The entries of the section, without its blank lines.
Listed(text) ==
  IF ~HasSection(text) THEN <<>>
  ELSE Drop(SubSeq(text, Find(text, Begin) + 1, Find(text, End) - 1), {NL})

\* uniqueSorted.
Sorted(P) == Drop(PathOrder, Paths \ P)

NegationsFor(P) ==
  IF P \cap UnderFdh # {} THEN <<"!.fdh/manifest.yaml", "!.fdh/lock.yaml">> ELSE <<>>

\* Some lines, each of them ended.
EachEnded(lines) ==
  [i \in 1 .. 2 * Len(lines) |-> IF i % 2 = 0 THEN NL ELSE lines[(i + 1) \div 2]]
Block(P) == EachEnded(<<Begin>> \o Sorted(P) \o NegationsFor(P) \o <<End>>)

\* Mutant: the block follows whatever the file ends with.
SeparatorNone(foreign) == <<>>

\* A blank line, or the end of the last line and a blank line.
Separator(foreign) == IF Last(foreign) = NL THEN <<NL>> ELSE <<NL, NL>>

\* The block goes where the old one was when something is around that.
Rewrite(text, P) ==
  LET foreign == Foreign(text)
  IN  IF P = {} THEN foreign
      ELSE IF foreign = <<>> THEN Block(P)
      ELSE IF HasSection(text) THEN Before(text) \o Block(P) \o After(text)
      ELSE foreign \o Separator(foreign) \o Block(P)

\* Read with LF for CRLF.
Normalized(text) == [i \in DOMAIN text |-> IF text[i] = CRLF THEN NL ELSE text[i]]

(* Apply returns an error and leaves a malformed file alone, and also one that would say
   the same with LF for CRLF; any other is written, with LF. *)
Apply(text, P) ==
  LET normal == Normalized(text)
  IN  IF Malformed(normal) \/ Rewrite(normal, P) = normal THEN text ELSE Rewrite(normal, P)

-----------------------------------------------------------------------------
(* The texts of at most n tokens, with sentinels and blank lines wherever a developer
   may have put them. *)

\* A line is ended before the next one begins.
LinesEnded(text) == \A i \in 1 .. Len(text) - 1 : {NL, CRLF} \cap {text[i], text[i + 1]} # {}

\* fdh writes one block and a developer does not copy it.
OneOfEach(text) ==
  \A i, j \in DOMAIN text : text[i] = text[j] /\ text[i] \in {Begin, End} => i = j
Ignores(n) ==
  {text \in BoundedSeq(UserLines \union {NL, CRLF, Begin, End}, n) : LinesEnded(text) /\ OneOfEach(text)}

(* Whatever a developer has made of .gitignore, Apply leaves the block listing exactly
   the paths, keeps the text of every other line and their order, and writes LF at the
   end of every line or changes nothing; when it is repeated, a blank line above the
   block goes, and nothing else changes (gitignore.go, Apply). *)
ForeignLinesKept(n) ==
  \A text \in Ignores(n), P \in SUBSET Paths :
    ~Malformed(Normalized(text)) =>
      LET new    == Apply(text, P)
          normal == Normalized(new)
          Words(t) == Drop(Foreign(t), {NL})
          begin  == Find(normal, Begin)
          BlankAbove == begin # 0 /\ IsSuffix(<<NL, NL>>, SubSeq(normal, 1, begin - 1))
      IN  /\ ~Malformed(normal)
          /\ Words(normal) = Words(Normalized(text))
          /\ LinesEnded(normal) /\ new \in {text, normal}
          /\ {t \in Paths : Contains(Listed(normal), t)} = P
          /\ Apply(new, P) = IF BlankAbove THEN RemoveAt(normal, begin - 1) ELSE new
=============================================================================
