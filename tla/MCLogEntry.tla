----------------------------- MODULE MCLogEntry -----------------------------
(* Short lines that fill and rotate files, a code point at a forced split, *)
(* an overwritten line, and a CRLF.                                        *)
EXTENDS LogEntryProperties

MCStreams ==
  {<<LF, LF, LF, LF>>, <<"x", LF, "x", CR, "x", LF>>, <<"x", "x", "L", "c", "c", LF>>, <<"x", CR, LF>>}
MCValues == 1 .. 12
ASSUME MCWellFed == WellFed
=============================================================================
