--------------------------- MODULE MCCrawlerJobs ---------------------------
(* The instances of CrawlerJobs with one job that TLC checks.              *)
EXTENDS CrawlerJobs, TLC

CONSTANTS j1, r1

OnePage  == (j1 :> "page")
PageOfR1 == (j1 :> r1)
OnePdf   == (j1 :> "pdf")
NoParent == (j1 :> None)
=============================================================================
