---------------------------- MODULE MC_TocBuilder ----------------------------
(* Every document of up to four title blocks over levels h1..h4 and a     *)
(* failing block: deep enough for a section to skip a level below an      *)
(* earlier, deeper section.                                               *)
EXTENDS TocBuilder

MCMaxLevel == 4
MCMaxHeadings == 4
=============================================================================
