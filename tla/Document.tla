------------------------------ MODULE Document ------------------------------
(***************************************************************************)
(* The observation file and the server's edits of it,                      *)
(* backend/app/fieldnotes/document.py: a frontmatter of fields and a body  *)
(* of two sections of entries, as skills and people leave them, and the    *)
(* writes of observations.py, which replace the lines of the fields they   *)
(* set and enter a reaction after the last one.  A line is its kind: what  *)
(* a YAML reader takes for a field, for what continues one, for an entry.  *)
(***************************************************************************)
EXTENDS Integers, Sequences, FiniteSets
LOCAL INSTANCE SequencesExt

CONSTANTS MaxFront, MaxSection, MaxEdits    \* bound: lines, and the server's writes

ASSUME DocumentAssumption == {MaxFront, MaxSection, MaxEdits} \subseteq Nat

VARIABLES
    front,          \* the lines between the fences
    body,           \* the lines after them
    edit            \* history: the last write, and the file before it

documentVars == <<front, body, edit>>

\* A field's value is on its line, or in the lines that continue it: the items of a list,
\* or the text of a literal block.
Line(kind, of) == [kind |-> kind, of |-> of]
Inline(f) == Line("inline", f)
KeyLines ==
    {Inline(f) : f \in {"last_seen", "repos", "pointer"}}
    \cup {Line("list", "repos"), Line("literal", "pointer")}
ListItem == Line("item", "repos")
Text == Line("text", "pointer")
Comment == Line("comment", "")
Blank == Line("blank", "")

\* An entry is at column 0 or indented; `[]` is a section's empty list.
Entry(of) == Line("entry", of)
Indented == Line("indented", "old")
Empty == Line("[]", "")
Heading(section) == Line("heading", section)

-----------------------------------------------------------------------------
(* Reading: _load of the frontmatter and of a section. *)

IsKey(line) == line.kind \in {"inline", "list", "literal"}
Continues(line) == line.kind \in {"item", "text"}
Keys(lines, f) == {i \in DOMAIN lines : IsKey(lines[i]) /\ lines[i].of = f}
Greatest(s) == CHOOSE i \in s : \A j \in s : j <= i
KeysBefore(lines, i) == {j \in 1 .. i - 1 : IsKey(lines[j])}

\* What continues no field's value is no YAML: a comment may stand between a list's items
\* and ends a literal block.
FrontReads(lines) ==
    /\ Keys(lines, "last_seen") # {} /\ Keys(lines, "repos") # {}
    /\ \A i \in {j \in DOMAIN lines : Continues(lines[j])} :
        /\ KeysBefore(lines, i) # {}
        /\ LET k == Greatest(KeysBefore(lines, i)) IN
           IF lines[i] = ListItem THEN lines[k].kind = "list"
           ELSE lines[k].kind = "literal" /\ \A j \in k .. i : lines[j] # Comment

\* A field's value: the lines its last key starts.
ValueOf(lines, f) ==
    IF Keys(lines, f) = {} THEN << >>
    ELSE LET k == Greatest(Keys(lines, f))
             own == {i \in DOMAIN lines : Continues(lines[i]) /\ Greatest(KeysBefore(lines, i)) = k}
         IN <<lines[k]>> \o [i \in 1 .. Cardinality(own) |-> lines[Greatest(own)]]

Headings(section) == {i \in DOMAIN body : body[i] = Heading(section)}
SectionOf(lines, section) ==
    LET at == {i \in DOMAIN lines : lines[i] = Heading(section)}
        next(i) == {j \in DOMAIN lines : j > i /\ lines[j].kind = "heading"}
    IN IF at = {} THEN << >>
       ELSE LET i == Greatest(at)
                end == IF next(i) = {} THEN Len(lines) ELSE (CHOOSE j \in next(i) :
                            \A l \in next(i) : j <= l) - 1
            IN SubSeq(lines, i + 1, end)

EntriesOf(lines, section) ==
    SelectSeq(SectionOf(lines, section), LAMBDA l : l.kind \in {"entry", "indented"})
Kinds(lines) == {lines[i].kind : i \in DOMAIN lines}
Listed(lines) == Cardinality(Kinds(lines) \cap {"entry", "indented", "[]"}) <= 1

BodyReads(lines) ==
    /\ Cardinality({i \in DOMAIN lines : lines[i] = Heading("reactions")}) = 1
    /\ \A s \in {"reactions", "comments"} : Listed(SectionOf(lines, s))

-----------------------------------------------------------------------------
(* Editing. *)

\* Mutant: a field's lines go on to the next key.
SpanToNextKey(lines, k) ==
    LET after == {j \in k + 1 .. Len(lines) : IsKey(lines[j])} IN
    IF after = {} THEN Len(lines) ELSE (CHOOSE j \in after : \A i \in after : j <= i) - 1

\* The last line of the field at k: before a key or a comment, less the blank lines there.
SpanEnd(lines, k) ==
    LET stops == {j \in k + 1 .. Len(lines) : IsKey(lines[j]) \/ lines[j] = Comment}
        end == IF stops = {} THEN Len(lines) ELSE (CHOOSE j \in stops : \A i \in stops : j <= i) - 1
    IN Greatest({k} \cup {j \in k + 1 .. end : lines[j] # Blank})

\* render_field: a literal block for a text of several lines, one line for the rest.
Rendered(f) ==
    {<<Inline(f)>>} \cup IF f = "pointer" THEN {<<Line("literal", f), Text>>} ELSE {}

\* with_fields: a field that is there has its lines replaced, another is added at the end.
WithFields(values) ==
    LET start == [f \in {f \in DOMAIN values : Keys(front, f) # {}} |-> Greatest(Keys(front, f))]
        set == DOMAIN start
        spanned == UNION {start[f] .. SpanEnd(front, start[f]) : f \in set}
        lines(i) == IF \E f \in set : start[f] = i
                    THEN values[CHOOSE f \in set : start[f] = i]
                    ELSE IF i \in spanned THEN << >> ELSE <<front[i]>>
        added == FlattenSeq(SetToSeq({values[f] : f \in DOMAIN values \ set}))
    IN FlattenSeq([i \in DOMAIN front |-> lines(i)]) \o added

\* with_reaction: after the last line of the section that is not blank.
WithReaction ==
    LET h == Greatest(Headings("reactions"))
        last == Greatest({h} \cup {i \in h + 1 .. h + Len(SectionOf(body, "reactions")) :
                                        body[i] # Blank})
    IN SubSeq(body, 1, last) \o <<Blank, Entry("new")>>
       \o (IF last = h + Len(SectionOf(body, "reactions")) /\ last < Len(body)
           THEN <<Blank>> ELSE << >>)
       \o SubSeq(body, last + 1, Len(body))

-----------------------------------------------------------------------------
(* The files there are, and the server's writes. *)

NoEdit ==
    [count |-> 0, at |-> "none", set |-> [f \in {} |-> << >>], front |-> << >>, body |-> << >>]

FrontLines == KeyLines \cup {ListItem, Text, Comment, Blank}
Sections == SeqOf({Entry("old"), Indented, Empty, Comment, Blank}, MaxSection)
Bodies ==
    {<<Heading("reactions")>> \o s : s \in Sections}
    \cup {<<Heading("reactions")>> \o s \o <<Heading("comments"), Entry("old")>> : s \in Sections}
    \cup {<<Heading("comments"), Entry("old"), Heading("reactions")>> \o s : s \in Sections}

\* The server reads a file before it writes it, and refuses one that does not read.
DocumentInit ==
    /\ \/ front \in SeqOf(FrontLines, MaxFront) /\ body = <<Heading("reactions")>>
       \/ front = <<Inline("last_seen"), Inline("repos")>> /\ body \in Bodies
    /\ FrontReads(front) /\ BodyReads(body)
    /\ edit = NoEdit

\* The write as it leaves the file, read once more before it is committed.
WritesLines(at, values, lines) ==
    /\ edit.count < MaxEdits
    /\ LET edited == WithFields(values)
           reads == FrontReads(edited) /\ BodyReads(lines)
       IN /\ front' = IF reads THEN edited ELSE front
          /\ body' = IF reads THEN lines ELSE body
          /\ edit' = [count |-> edit.count + 1, at |-> IF reads THEN at ELSE "refused",
                      set |-> values, front |-> front, body |-> body]

\* Observations.react: the reaction, the time of it, and a repository that is new.
Reacts ==
    \E set \in {{"last_seen"}, {"last_seen", "repos"}} :
        WritesLines("react", [f \in set |-> <<Inline(f)>>], WithReaction)

\* Observations._apply: what the card tells.
Syncs ==
    \E lines \in Rendered("pointer") :
        WritesLines("sync", [f \in {"pointer"} |-> lines], body)

DocumentNext == Reacts \/ Syncs

-----------------------------------------------------------------------------
(* What skills and people rely on. *)

\* The lines no write of these fields is about: the comments and the other fields.
Others(lines, set) ==
    LET others == {i \in DOMAIN lines :
            \/ lines[i] = Comment
            \/ IsKey(lines[i]) /\ lines[i].of \notin set
            \/ Continues(lines[i]) /\ lines[Greatest(KeysBefore(lines, i))].of \notin set}
    IN [n \in 1 .. Cardinality(others) |->
            lines[CHOOSE i \in others : Cardinality({j \in others : j < i}) = n - 1]]

\* A comment at column 0 in the middle of a list's items, which ends the field's lines.
Torn(lines, f) == \E k \in Keys(lines, f) : \E i, j \in k + 1 .. Len(lines) :
    i < j /\ lines[i] = Comment /\ lines[j] = ListItem /\ Greatest(KeysBefore(lines, j)) = k

\* "An edit replaces the lines of each field it sets and nothing else, and a reaction is
\* inserted after the last entry of its section" (document.py): what is written reads as
\* it was meant, and the rest of a hand edit stands, or the write is refused for a field
\* that a comment tears or a section that is no list of entries at column 0.
WritesAreExact ==
    LET set == DOMAIN edit.set IN
    CASE edit.at = "none" -> TRUE
      [] edit.at = "refused" ->
            \/ \E f \in set : Torn(edit.front, f)
            \/ Kinds(SectionOf(edit.body, "reactions")) \cap {"indented", "[]"} # {}
      [] OTHER ->
            /\ \A f \in set : ValueOf(front, f) = edit.set[f]
            /\ Others(front, set) = Others(edit.front, set)
            /\ EntriesOf(body, "reactions") = EntriesOf(edit.body, "reactions")
                  \o IF edit.at = "react" THEN <<Entry("new")>> ELSE << >>
            /\ EntriesOf(body, "comments") = EntriesOf(edit.body, "comments")
=============================================================================
