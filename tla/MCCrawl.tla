------------------------------ MODULE MCCrawl -------------------------------
(***************************************************************************)
(* Crawl on a few builds, of which any may come back.                      *)
(***************************************************************************)
EXTENDS Crawl

=============================================================================
