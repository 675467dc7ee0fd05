------------------------------- MODULE MCReplay -------------------------------
(***************************************************************************)
(* The replay on every sequence of a few records: two labels, and vectors  *)
(* of which two tie, one is far from both and one cannot be compared.      *)
(***************************************************************************)
EXTENDS Replay

MCSim == [p \in Vecs \X Vecs |->
            IF "nan" \in {p[1], p[2]} THEN NotANumber
            ELSE IF "far" \in {p[1], p[2]} /\ p[1] # p[2] THEN 10 ELSE 100]
MCDelta == <<1, Scale>>
=============================================================================
