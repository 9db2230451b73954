------------------------------- MODULE Crawl -------------------------------
(***************************************************************************)
(* What the pipelines of examples/data.cpp are there for: beginning with a *)
(* seed, find the pages that match, load each of them once if its url can  *)
(* be parsed, and count what was loaded.  No channels, workers or waits.   *)
(***************************************************************************)
EXTENDS Integers, Sequences, FiniteSets

CONSTANTS Pages, Seed, Links, Matching, Parsable, MaxUrls

VARIABLES
  found,    \* the pages the filter has let through
  loaded,   \* those that have been loaded
  failed,   \* those that could not be loaded
  counted,  \* those whose words have been counted
  over      \* the result is read

crawlVars == <<found, loaded, failed, counted, over>>

LinksOf(p) == {Links[p][i] : i \in DOMAIN Links[p]}

Known == {Seed} \cup UNION {LinksOf(p) : p \in loaded}

CrawlInit ==
  /\ found = {} /\ loaded = {} /\ failed = {} /\ counted = {}
  /\ over = FALSE

Find(p) ==
  /\ p \in (Known \cap Matching) \ found
  /\ Cardinality(found) < MaxUrls
  /\ found' = found \cup {p}
  /\ UNCHANGED <<loaded, failed, counted, over>>

Load(p) ==
  /\ p \in (found \cap Parsable) \ (loaded \cup failed)
  /\ \/ loaded' = loaded \cup {p} /\ UNCHANGED failed
     \/ failed' = failed \cup {p} /\ UNCHANGED loaded
  /\ UNCHANGED <<found, counted, over>>

Count(p) ==
  /\ p \in loaded \ counted
  /\ counted' = counted \cup {p}
  /\ UNCHANGED <<found, loaded, failed, over>>

\* There is nothing left to find, to load or to count.
Finish ==
  /\ Known \cap Matching \subseteq found \/ Cardinality(found) = MaxUrls
  /\ found \cap Parsable = loaded \cup failed
  /\ counted = loaded
  /\ over' = TRUE
  /\ UNCHANGED <<found, loaded, failed, counted>>

CrawlNext == (\E p \in Pages : Find(p) \/ Load(p) \/ Count(p)) \/ Finish

CrawlSpec == CrawlInit /\ [][CrawlNext]_crawlVars

=============================================================================
