----------------------------- MODULE MCWebPage -----------------------------
(* Two scans, one file to upload and three jobs: a roll of each origin, and *)
(* an export behind two prescans.                                           *)
EXTENDS WebPage

MCFiles == {11}

=============================================================================
