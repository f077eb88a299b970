------------------------------ MODULE MCSi5381 ------------------------------
\* Si5381 with a short configuration: two registers of page 0 and two of
\* pages that neither preamble nor postamble uses.
EXTENDS Si5381

MCConfiguration ==
  <<Entry(\h0006, 17), Entry(\h002B, 34), Entry(\h0125, 51), Entry(\h0C06, 68)>>
=============================================================================
