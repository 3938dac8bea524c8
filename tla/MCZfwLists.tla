----------------------------- MODULE MCZfwLists -----------------------------
(* One feed, with or without a country.  Every version also lists a         *)
(* special-use range and a LAN; the second one lists nothing else.          *)
EXTENDS ZfwLists

CONSTANTS home, office, old, new, bogon, feed, country, r1, tick, button

MCOneFeed == <<feed>>
MCOrder == <<feed, country>>
MCVersion ==
  << {old, bogon, home, office}, {bogon, home}, {new, bogon, home, office} >>
=============================================================================
