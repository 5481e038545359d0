------------------------- MODULE MCGovernedBacktest -------------------------
(* Windows of two sessions; three folds, the first of which can hold two     *)
(* independent clusters, an overlapping one and a cluster of two assets.     *)
EXTENDS GovernedBacktest

MCFoldStart == [f \in Fold |-> CASE f = "F1" -> 3 [] f = "F2" -> 9 [] OTHER -> 13]
MCFoldEnd   == [f \in Fold |-> CASE f = "F1" -> 8 [] f = "F2" -> 12 [] OTHER -> 16]
MCYearOf    == [p \in 0 .. LastSession |-> IF p < 9 THEN 1 ELSE IF p < 13 THEN 2 ELSE 3]

Slot == {[fold |-> "F1", entry |-> 4, asset |-> "a"],
         [fold |-> "F1", entry |-> 5, asset |-> "b"],
         [fold |-> "F1", entry |-> 6, asset |-> "b"],
         [fold |-> "F2", entry |-> 10, asset |-> "b"],
         [fold |-> "F2", entry |-> 10, asset |-> "c"],
         [fold |-> "F3", entry |-> 14, asset |-> "c"]}

At(s) == [id |-> <<s.entry, s.asset>>, fold |-> s.fold, asset |-> s.asset,
          signal |-> s.entry - 1, entry |-> s.entry, close |-> s.entry + 1,
          frictions |-> {0, 10, 25}, coherent |-> TRUE, drawdown |-> TRUE,
          spy |-> 2, cash |-> 2]

Ordinary(s) == {At(s), [At(s) EXCEPT !.spy = -1]}

Defective(s) ==
    {[At(s) EXCEPT !.spy = 0], [At(s) EXCEPT !.spy = 1], [At(s) EXCEPT !.cash = -2],
     [At(s) EXCEPT !.frictions = {0, 25}], [At(s) EXCEPT !.frictions = {0, 10}],
     [At(s) EXCEPT !.coherent = FALSE], [At(s) EXCEPT !.drawdown = FALSE],
     [At(s) EXCEPT !.signal = @ + 1],
     [At(s) EXCEPT !.fold = "F1"], [At(s) EXCEPT !.close = @ + 1],
     [At(s) EXCEPT !.signal = @ + 2, !.entry = @ + 2, !.close = @ + 2]}

\* One slot of each fold is where the defects are.
FlawedSlot == {s \in Slot : s.entry = 4 \/ s.asset = "c"}

MCFlawed   == (UNION {Defective(s) : s \in FlawedSlot}) \ (UNION {Ordinary(s) : s \in Slot})
MCEpisodes == (UNION {Ordinary(s) : s \in Slot}) \cup MCFlawed
=============================================================================
