-------------------------- MODULE MCCratesDownload --------------------------
(* A small instance of CratesDownload: one index client, one downloader.   *)
EXTENDS CratesDownload, TLC
=============================================================================
