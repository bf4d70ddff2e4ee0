--------------------------- MODULE MCMonobankSync ---------------------------
(* Instances of MonobankSync for TLC: a card in hryvnias and one in euros  *)
(* under one token, and a purchase in dollars made with the first.         *)
EXTENDS MonobankSync, TLC

CONSTANTS k1, card, euroCard, i1, uah, eur, usd

BothUnderOne == k1 :> {card, euroCard}
OnCard       == i1 :> card
PickerSays   == card :> uah @@ euroCard :> eur
Abroad       == i1 :> usd
Lists        == {<<euroCard>>, <<card, euroCard>>, <<euroCard, card>>}

=============================================================================
