----------------------------- MODULE MCFtpCrawl -----------------------------
(***************************************************************************)
(* Values of FtpCrawl's constants: a directory with a file and an empty    *)
(* subdirectory; either directory is mirrored.  The file has three         *)
(* versions.  The first two have the same size, so that only the mtime     *)
(* tells them apart, and two pieces, so that a download can be interrupted *)
(* half-way.                                                               *)
(***************************************************************************)
EXTENDS FtpCrawl

CONSTANTS top, sub, f

MCParent == [p \in Path |-> top]
MCSize == <<2, 2, 1>>
=============================================================================
