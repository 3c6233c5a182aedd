------------------------------- MODULE IdLists -------------------------------
(***************************************************************************)
(* The parsers of PFOP id lists (pfop/test_pfop_pset.py and                *)
(* pfop/test_pfop_job.py): a count, then that many ids, all of the same    *)
(* number of digits.  A text is a sequence of digits.                      *)
(***************************************************************************)
EXTENDS Naturals, Sequences

(* int(text[offset : offset + width]) *)
Number(text) ==
  LET value[k \in 0 .. Len(text)] ==
        IF k = 0 THEN 0 ELSE 10 * value[k - 1] + text[k]
  IN value[Len(text)]

Field(text, width, k) == SubSeq(text, (k - 1) * width + 1, k * width)

(* The loop breaks at the first field the text is too short for. *)
FitsStrictly(text, width, k) == k * width < Len(text)
Fits(text, width, k) == k * width <= Len(text)

ParseIds(text, width) ==
  IF Len(text) < width THEN <<>>
  ELSE LET count == Number(Field(text, width, 1))
           n     == CHOOSE n \in 0 .. count :
                      /\ \A k \in 1 .. n : Fits(text, width, k + 1)
                      /\ n < count => ~Fits(text, width, n + 2)
       IN [k \in 1 .. n |-> Number(Field(text, width, k + 1))]

_parse_pset_ids(text) == ParseIds(text, 3)
_parse_job_ids(text, revision) == ParseIds(text, IF revision <= 1 THEN 2 ELSE 4)
=============================================================================
