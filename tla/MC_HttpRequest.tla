---------------------------- MODULE MC_HttpRequest ----------------------------
(* Lengths around every limit: nothing, one byte, what fits the memory a   *)
(* chunked body starts with, what makes it grow once and twice, what is    *)
(* exactly, and one more than, a configured size; the largest int, more,   *)
(* which as an int is -1, and -16, and 5, more than a long, and negative.  *)
(* Sizes: a usual one, none, what a negative one comes to, the largest.    *)
EXTENDS HttpRequest

MC_Lengths == {-2, -1, 0, 1, 2, 4, 10, 11, 15, 16, 31, 37, 600}

MC_MaxSizes == {10, 0, -1, 15}
=============================================================================
