-------------------------- MODULE MCCrawlPoliteness --------------------------
(* The small web of MCCrawlLoop, with the time between visits measured. *)
EXTENDS MCCrawlLoop, CrawlPoliteness
=============================================================================
