--------------------------- MODULE MCOutputFiles ---------------------------
(***************************************************************************)
(* Decks that ask for restart files at all steps, at some, and at others,  *)
(* with RFT output that begins before, at and after them.                  *)
(***************************************************************************)
EXTENDS OutputFiles

Deck(plan, rft, unified) == [plan |-> plan, rft |-> rft, unified |-> unified]

MCDecks ==
  {Deck({1, 2, 3}, {1, 3}, TRUE), Deck({0, 2}, {2, 3}, TRUE), Deck({1, 2, 3}, {}, FALSE)}
=============================================================================
