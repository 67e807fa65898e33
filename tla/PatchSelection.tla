--------------------------- MODULE PatchSelection ---------------------------
(***************************************************************************)
(* stage_lines and unstage_lines (mcp_tgit.py): the part of a diff with    *)
(* the lines the caller names is cut out (git_patch_selection.py) and      *)
(* given to "git apply --cached --unidiff-zero", with -R to unstage.  Both *)
(* ask for a diff without context.  A diff is the script of two versions   *)
(* of a file: each entry is a line "both" have, or only the "old" or the   *)
(* "new" one; a line is known by its entry, so all lines differ.           *)
(***************************************************************************)
EXTENDS Integers, Sequences, FiniteSets, FiniteSetsExt, Functions

CONSTANTS
  MaxEntries  \* bound: entries of the script

SelectionAssumption == MaxEntries \in Nat

VARIABLES
  reverse,            \* the call is unstage_lines, not stage_lines
  script,             \* the diff
  oldLines, newLines, \* the arguments old_line_numbers, new_line_numbers
  todo,               \* entries of the hunks that are still to be applied
  image,              \* the index file git apply works on
  patched,            \* entries that hunks have put into it
  refused             \* git apply has found no place for a hunk

vars == <<reverse, script, oldLines, newLines, todo, image, patched, refused>>

Entries == DOMAIN script
Changed == {i \in Entries : script[i] # "both"}

\* Git prints the removed lines of a hunk before the added ones.
Scripts == {s \in UNION {[1 .. n -> {"both", "old", "new"}] : n \in 1 .. MaxEntries} :
              \A i \in 1 .. Len(s) - 1 : ~(s[i] = "new" /\ s[i + 1] = "old")}

\* The entries of S from the first to the last
InOrder(S) ==
  [k \in 1 .. Cardinality(S) |-> CHOOSE i \in S : Cardinality({j \in S : j <= i}) = k]
Only(kind, S) == {i \in S : script[i] = kind}

TypeOK ==
  /\ script \in Seq({"both", "old", "new"}) /\ oldLines \cup newLines \subseteq 1 .. MaxEntries
  /\ todo \subseteq Changed /\ patched \subseteq Changed /\ refused \in BOOLEAN
  /\ image \in Seq(Entries) /\ Len(image) <= Len(script) /\ reverse \in BOOLEAN

-----------------------------------------------------------------------------
(* build_selected_patch *)

OldBefore(i) == Cardinality({j \in 1 .. i - 1 : script[j] # "new"})
NewBefore(i) == Cardinality({j \in 1 .. i - 1 : script[j] # "old"})

\* The hunk of the diff an entry is in, and the numbers in its header: without a line
\* of a side, git gives the number of the line before.
HunkOf(i) == {j \in Entries : \A k \in (j .. i) \cup (i .. j) : script[k] # "both"}
HeaderOld(i) == OldBefore(Min(HunkOf(i))) + IF Only("old", HunkOf(i)) = {} THEN 0 ELSE 1
HeaderNew(i) == NewBefore(Min(HunkOf(i))) + IF Only("new", HunkOf(i)) = {} THEN 0 ELSE 1

\* old_cur and new_cur at an entry
OldCurrent(i) == HeaderOld(i) + Cardinality({j \in Only("old", HunkOf(i)) : j < i})
NewCurrent(i) == HeaderNew(i) + Cardinality({j \in Only("new", HunkOf(i)) : j < i})

IsSelected(i) ==
  \/ script[i] = "old" /\ OldCurrent(i) \in oldLines
  \/ script[i] = "new" /\ NewCurrent(i) \in newLines

\* A segment, which becomes a hunk: selected entries in a row.
Segment(a, S) == {b \in S : b >= a /\ a .. b \subseteq S}

\* The start numbers of its header
OldStart(S) == IF Only("old", S) # {} THEN OldCurrent(Min(Only("old", S))) ELSE OldCurrent(Min(S))
NewStart_Old(S) == OldStart(S)
NewStart(S) == IF Only("new", S) # {} THEN NewCurrent(Min(Only("new", S))) ELSE NewCurrent(Min(S))

-----------------------------------------------------------------------------
(* git apply *)

Source(S) == IF reverse THEN NewStart(S) ELSE OldStart(S)
Target(S) == IF reverse THEN OldStart(S) ELSE NewStart(S)
Preimage(S)  == InOrder(Only(IF reverse THEN "new" ELSE "old", S))
Postimage(S) == InOrder(Only(IF reverse THEN "old" ELSE "new", S))

\* The lines before the hunk, if it is where its header says.
Expected(S) == LET p == IF Source(S) = 0 \/ Target(S) = 0 THEN 0 ELSE Target(S) - 1
               IN  IF p > Len(image) THEN Len(image) ELSE p

Places(S) ==
  {p \in 0 .. Len(image) - Len(Preimage(S)) :
     /\ SubSeq(image, p + 1, p + Len(Preimage(S))) = Preimage(S)
     /\ Range(Preimage(S)) \cap patched = {}
     /\ Source(S) = 0 => p = 0}

\* git looks at the expected place, then one line after it, one before it, two after ...
Distance(p, S) == IF p > Expected(S) THEN 2 * (p - Expected(S)) - 1 ELSE 2 * (Expected(S) - p)
Place(S) == CHOOSE p \in Places(S) : \A q \in Places(S) : Distance(p, S) <= Distance(q, S)

Init ==
  /\ reverse \in BOOLEAN /\ script \in Scripts
  /\ \E S \in SUBSET Changed :
       /\ oldLines = {OldBefore(i) + 1 : i \in Only("old", S)}
       /\ newLines = {NewBefore(i) + 1 : i \in Only("new", S)}
  /\ todo = {i \in Changed : IsSelected(i)}
  /\ image = InOrder({i \in Entries : script[i] # IF reverse THEN "old" ELSE "new"})
  /\ patched = {} /\ refused = FALSE

Remaining(S) == todo \ S

ApplyHunk ==
  /\ todo # {} /\ ~refused
  /\ LET S == Segment(Min(todo), todo)
     IN  /\ Places(S) # {}
         /\ image' = SubSeq(image, 1, Place(S)) \o Postimage(S)
                       \o SubSeq(image, Place(S) + Len(Preimage(S)) + 1, Len(image))
         /\ patched' = patched \cup Range(Postimage(S))
         /\ todo' = Remaining(S)
  /\ UNCHANGED <<reverse, script, oldLines, newLines, refused>>

\* "Failed to apply patch to index": the index stays as it was.
Refuse ==
  /\ todo # {} /\ ~refused /\ Places(Segment(Min(todo), todo)) = {}
  /\ refused' = TRUE
  /\ UNCHANGED <<reverse, script, oldLines, newLines, todo, image, patched>>

Next == ApplyHunk \/ Refuse
Spec == Init /\ [][Next]_vars

-----------------------------------------------------------------------------
(* Properties.  What is asked for is the index in which the selected changes, and no
   others, are made (undone), every line at the place it has in the diff. *)

Asked == {i \in Changed : \/ script[i] = "old" /\ OldBefore(i) + 1 \in oldLines
                          \/ script[i] = "new" /\ NewBefore(i) + 1 \in newLines}
Staged == InOrder({i \in Entries :
  \/ script[i] = "both"
  \/ script[i] = (IF reverse THEN "new" ELSE "old") /\ i \notin Asked
  \/ script[i] = (IF reverse THEN "old" ELSE "new") /\ i \in Asked})

Done == todo = {} /\ ~refused

\* The hunks the caller selects are all before those the caller leaves.
SelectsPrefix == \A i, j \in Changed : i \in Asked /\ (j < i \/ j \in HunkOf(i)) => j \in Asked

\* Selecting whole hunks from the top, in the end the whole diff, stages exactly them:
\* the numbers of the headers are right however many hunks come before.
PrefixIsExact == SelectsPrefix => ~refused /\ (Done => image = Staged)

\* Whatever is selected, an index that is written has the selected lines and no others,
\* though perhaps at another place.
RightLines == Done => Range(image) = Range(Staged) /\ Len(image) = Len(Staged)

\* mcp_tgit.py:393, :462: the tools "Stage selected changed lines from one file" and
\* "Unstage selected staged lines from one file".
StagesSelection == Done => image = Staged
=============================================================================
