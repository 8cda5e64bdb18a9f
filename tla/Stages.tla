-------------------------------- MODULE Stages --------------------------------
(***************************************************************************)
(* The options of tcc that say which files are kept and where a            *)
(* compilation stops: set_stage, once for each option, and update_options  *)
(* after the last of them (src/tcc/src/flags.c, table.c), and where the     *)
(* files of each type are put as a result (filename.c).                    *)
(*                                                                         *)
(* File types have the letters of filetype_table; "J" is a capsule built   *)
(* by -M (INDEP_TDF_COMPLEX) and "x" an executable.  Spec files, checker    *)
(* mode and the system compiler are left out.                              *)
(***************************************************************************)
EXTENDS Naturals, Sequences

FileTypes == {"c", "j", "J", "t", "s", "o", "x"}

\* What an option may ask for, of one type or of all.
StageOption == [type : FileTypes \cup {"all"}, k : {"keep", "dont_keep", "stop"}]

VARIABLES
  keep,        \* filetype_table[].keep: "FC" (false), "TC" (true) or "TN" (true for good)
  stop,        \* the types at which the compilation stops
  keep_all,
  keep_ofiles

stageVars == <<keep, stop, keep_all, keep_ofiles>>

StagesInit ==
  /\ keep = [t \in FileTypes |-> IF t = "x" THEN "TN" ELSE "FC"]
  /\ stop = {}
  /\ keep_all = "FC" /\ keep_ofiles = TRUE

table_keep(t) == keep[t] # "FC"

\* -Pa and -P-a.
KeepAllTypes(k) ==
  /\ keep' = [t \in FileTypes |->
                IF keep[t] = "TN" THEN "TN" ELSE IF k = "keep" THEN "TC" ELSE "FC"]
  /\ keep_all' = IF k = "keep" THEN "TC" ELSE "FC"
  /\ keep_ofiles' = (k = "keep" /\ keep_ofiles)
  /\ UNCHANGED stop

\* -F: compile as far as files of type t.
StopStage(t) ==
  /\ stop' = stop \cup {t}
  /\ keep' = [keep EXCEPT ![t] = IF @ = "FC" THEN "TC" ELSE @]
  /\ UNCHANGED <<keep_all, keep_ofiles>>

\* -P: keep files of type t, or do not.  The second assigns what it has tested
\* for, so that a type that is kept stays kept.
KeepStage(t, k) ==
  /\ keep' = [keep EXCEPT ![t] = IF k = "keep" /\ @ = "FC" THEN "TC" ELSE @]
  /\ keep_ofiles' = IF t = "o" THEN k = "keep" ELSE keep_ofiles
  /\ UNCHANGED <<stop, keep_all>>

\* "-Fa" is refused with a warning.
set_stage(t, k) ==
  CASE t = "all" /\ k = "stop" -> UNCHANGED stageVars
    [] t = "all" /\ k # "stop" -> KeepAllTypes(k)
    [] t # "all" /\ k = "stop" -> StopStage(t)
    [] OTHER                   -> KeepStage(t, k)

\* A stop is passed on to the types that come later.
StopsDown ==
  CASE "j" \in stop -> stop \cup {"J", "t", "s", "o"}
    [] "j" \notin stop /\ "t" \in stop -> stop \cup {"s", "o"}
    [] "j" \notin stop /\ "t" \notin stop /\ "s" \in stop -> stop \cup {"o"}
    [] OTHER -> stop

\* With -M it is the capsule built that is kept, unless everything is.  The
\* objects of several inputs are kept, as cc does, unless -P-o was given.
KeptAfter(make_complex, no_input_files) ==
  [t \in FileTypes |->
     CASE t = "j" /\ make_complex /\ table_keep("j") -> keep_all
       [] t = "J" /\ make_complex /\ table_keep("j") -> "TC"
       [] t = "o" /\ keep_ofiles /\ no_input_files > 1 /\ ~make_complex -> "TC"
       [] OTHER -> keep[t]]

update_options(make_complex, no_input_files) ==
  /\ stop' = StopsDown
  /\ keep' = KeptAfter(make_complex, no_input_files)
  /\ UNCHANGED <<keep_all, keep_ofiles>>

\* The storage of files of type t.
where(t) ==
  IF ~table_keep(t) THEN "TEMP_FILE"
  ELSE IF t \notin stop THEN "PRESERVED_FILE" ELSE "OUTPUT_FILE"
===============================================================================
