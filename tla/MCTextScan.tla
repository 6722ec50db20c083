----------------------------- MODULE MCTextScan -----------------------------
EXTENDS TextScan

(* Calls, member accesses, literals, comments and braces. *)
MCAlphabets ==
  {{"a", "f", ".", "(", ")", ","}, {"a", "0", ".", " ", ")"},
   {"\"", "\\", "\n", "a", "{"}, {"/", "*", "\n", "{", "}"}}
MCFormat == <<"f">>
=============================================================================
