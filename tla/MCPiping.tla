------------------------------ MODULE MCPiping ------------------------------
(***************************************************************************)
(* The graph of examples/data.cpp: url -> filter -> filteredUrl -> parse   *)
(* -> parsedUrl -> two loaders -> content -> split -> contentHref -> href  *)
(* -> url, and contentText -> count.  Five of the six pages match, one     *)
(* more than the filter lets through, and one of them cannot be parsed;    *)
(* the first one links all of them.                                        *)
(***************************************************************************)
EXTENDS Piping, TLC

CONSTANTS a, b, c, d, e, x

MCSrc ==
  [filter |-> "url", parse |-> "filteredUrl", load1 |-> "parsedUrl", load2 |-> "parsedUrl",
   split |-> "content", href |-> "contentHref", count |-> "contentText"]
MCDst ==
  [filter |-> <<"filteredUrl">>, parse |-> <<"parsedUrl">>,
   load1 |-> <<"content">>, load2 |-> <<"content">>,
   split |-> <<"contentText", "contentHref">>, href |-> <<"url">>, count |-> <<>>]
MCJob ==
  [filter |-> "filter", parse |-> "parse", load1 |-> "load", load2 |-> "load",
   split |-> "split", href |-> "href", count |-> "count"]
MCWorkers == DOMAIN MCSrc
MCChannels == {MCSrc[w] : w \in MCWorkers}

MCLinks ==
  [p \in Pages |-> IF p = a THEN <<a, x, b, c, d, e>> ELSE <<>>]
=============================================================================
