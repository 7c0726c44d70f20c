------------------------- MODULE MCBrowserRotation -------------------------
(* BrowserRotation on small instances. *)
EXTENDS BrowserRotation, TLC

\* Crawls are interchangeable.
CrawlSymmetry == Permutations(Crawl)
=============================================================================
