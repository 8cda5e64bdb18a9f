------------------------------ MODULE Extract -------------------------------
(***************************************************************************)
(* tld as an extractor (frontend/extract.c, adt/library.c), run on the     *)
(* library that the builder wrote: it reads the library and writes         *)
(* capsules to files, all of them or those that are named, under their own *)
(* name or under its last component.                                       *)
(***************************************************************************)
EXTENDS Builder

CONSTANTS
  ExtractArgs,  \* the possible command lines
  BaseName,     \* file_name_basename
  Unwritable    \* files that cannot be opened for writing

FileNames == DOMAIN BaseName

ExtractArg ==
  [all : BOOLEAN, use_basename : BOOLEAN, match_basename : BOOLEAN, files : Seq(FileNames)]

ASSUME ExtractAssumption ==
  /\ BaseName \in [FileNames -> FileNames] /\ CapName \in [Capsules -> FileNames]
  /\ ExtractArgs \subseteq ExtractArg
  /\ \A a \in ExtractArgs : a.all <=> a.files = <<>>   \* checked by extract_main

VARIABLES
  xarg,      \* ArgDataT of the extractor
  stage,     \* "wait" for the library, "all", "named", "done" or "fatal"
  fi, ci,    \* the file name and the capsule that the loops are at
  matched,   \* a capsule was found for the file name
  missed,    \* number of errors reported
  disk       \* what was written to each file; NULL: nothing

extractVars == <<xarg, stage, fi, ci, matched, missed, disk>>
extractAllVars == <<builderVars, extractVars>>

ExtractInit ==
  /\ BuilderInit /\ xarg \in ExtractArgs /\ stage = "wait" /\ fi = 1 /\ ci = 1
  /\ matched = FALSE /\ missed = 0 /\ disk = [f \in FileNames |-> NULL]

\* library_read of the library: it is complete, or nothing is extracted.  The
\* table of shapes is empty before, so tags and tokens are not looked at.
library_read ==
  /\ stage = "wait" /\ library # NULL
  /\ stage' = IF library.major < 4 \/ \E e \in library.index : IllegalUse(e.use, FALSE, FALSE)
              THEN "done" ELSE IF xarg.all THEN "all" ELSE "named"
  /\ UNCHANGED <<builderVars, xarg, fi, ci, matched, missed, disk>>

\* Where a capsule goes.
Target(c) == IF xarg.use_basename THEN BaseName[CapName[c]] ELSE CapName[c]

\* A capsule that was abandoned when the library was built is empty in it.
ContentsOf(c) == IF c \in library.whole THEN c ELSE "empty"

\* library_extract_1: the directories are made and the file is written; goes on
\* at s unless it cannot be opened.
library_extract_1(c, s) ==
  IF Target(c) \in Unwritable
  THEN stage' = "fatal" /\ UNCHANGED disk
  ELSE stage' = s /\ disk' = [disk EXCEPT ![Target(c)] = ContentsOf(c)]

\* Mutant of library_extract_all: the loop stops before the last capsule.
library_extract_most ==
  /\ stage = "all"
  /\ \/ ci < Len(library.caps) /\ library_extract_1(library.caps[ci], "all") /\ ci' = ci + 1
     \/ ci >= Len(library.caps) /\ stage' = "done" /\ UNCHANGED <<ci, disk>>
  /\ UNCHANGED <<builderVars, xarg, fi, matched, missed>>

library_extract_all ==
  /\ stage = "all"
  /\ \/ ci <= Len(library.caps) /\ library_extract_1(library.caps[ci], "all") /\ ci' = ci + 1
     \/ ci > Len(library.caps) /\ stage' = "done" /\ UNCHANGED <<ci, disk>>
  /\ UNCHANGED <<builderVars, xarg, fi, matched, missed>>

\* Mutant of Matches: base names are always compared.
MatchesBase(f, c) == f = CapName[c] \/ f = BaseName[CapName[c]]

Matches(f, c) == f = CapName[c] \/ (xarg.match_basename /\ f = BaseName[CapName[c]])

\* library_extract, the inner loop: every capsule that matches is extracted.
MatchCapsule ==
  LET c == library.caps[ci] IN
  /\ stage = "named" /\ fi <= Len(xarg.files) /\ ci <= Len(library.caps)
  /\ \/ /\ Matches(xarg.files[fi], c)
        /\ library_extract_1(c, "named") /\ matched' = TRUE
     \/ /\ ~Matches(xarg.files[fi], c)
        /\ UNCHANGED <<stage, disk, matched>>
  /\ ci' = ci + 1
  /\ UNCHANGED <<builderVars, xarg, fi, missed>>

\* library_extract, the outer loop.
NextFile ==
  /\ stage = "named" /\ fi <= Len(xarg.files) /\ ci > Len(library.caps)
  /\ missed' = missed + (IF matched THEN 0 ELSE 1)
  /\ fi' = fi + 1 /\ ci' = 1 /\ matched' = FALSE
  /\ UNCHANGED <<builderVars, xarg, stage, disk>>

EndExtract ==
  /\ stage = "named" /\ fi > Len(xarg.files)
  /\ stage' = "done"
  /\ UNCHANGED <<builderVars, xarg, fi, ci, matched, missed, disk>>

ExtractEnd ==
  /\ stage \in {"done", "fatal"} \/ (stage = "wait" /\ library = NULL /\ BuilderEnd)
  /\ UNCHANGED extractAllVars

ExtractNext ==
  \/ stage = "wait" /\ library = NULL /\ BuilderStep /\ UNCHANGED extractVars
  \/ library_read
  \/ library_extract_all
  \/ MatchCapsule
  \/ NextFile
  \/ EndExtract
  \/ ExtractEnd

ExtractSpec == ExtractInit /\ [][ExtractNext]_extractAllVars

-----------------------------------------------------------------------------
\* What a user asked for.
Wanted(c) ==
  \/ xarg.all
  \/ \E j \in DOMAIN xarg.files :
        \/ xarg.files[j] = CapName[c]
        \/ xarg.match_basename /\ xarg.files[j] = BaseName[CapName[c]]

\* A file that was written holds a capsule that was asked for and belongs there,
\* as it was put into the library, even if several capsules have that name.
ExtractedWasAskedFor ==
  \A f \in FileNames : disk[f] # NULL =>
     \E k \in DOMAIN library.caps :
        /\ Wanted(library.caps[k]) /\ disk[f] = ContentsOf(library.caps[k])
        /\ f = Target(library.caps[k])

\* After a build and an extraction without errors every capsule that was asked
\* for has come back: its file holds it, unless another capsule has the same
\* last component and the directories were dropped (library.c:213).
RoundTrip ==
  stage = "done" /\ errors = 0 /\ missed = 0 =>
    \A k \in DOMAIN library.caps :
       LET c == library.caps[k] IN
       Wanted(c) => \/ disk[Target(c)] = c
                    \/ /\ xarg.use_basename
                       /\ \E j \in DOMAIN library.caps :
                             j # k /\ disk[Target(c)] = library.caps[j]
=============================================================================
