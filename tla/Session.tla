------------------------------ MODULE Session -------------------------------
(***************************************************************************)
(* What a SQLAlchemy session does with a row it loaded: the values it saw  *)
(* stay with the session until it commits (a later SELECT of a row that is *)
(* already loaded, FOR UPDATE or not, does not refresh it), and a flush    *)
(* writes a column only if the session changed it.                         *)
(***************************************************************************)

\* The column after the flush: assigning the value that was loaded writes
\* nothing, and a concurrent change of the column survives.
Flushed(new, seen, current) == IF new = seen THEN current ELSE new
=============================================================================
