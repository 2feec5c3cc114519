----------------------------- MODULE OneProgram -----------------------------
(* The programs one person runs at a time - the loaders, the tax reports,   *)
(* the projections and the reports - share no state in these modules.  The  *)
(* variable program says which one a behaviour is about, and the variables  *)
(* of the others are Off.                                                   *)
VARIABLE program

Off == "off"

\* The initial predicate of one program: its own, or all of its variables Off.
Starts(name, init, off) == IF program = name THEN init ELSE off
=============================================================================
