---------------------------- MODULE MCRaceTiming ----------------------------
EXTENDS RaceDesk

(* Track A passes two places, B one of them at once; nobody is near "off".   *)
MCDist == [A |-> [p |-> 4, q |-> 9, off |-> Off], B |-> [p |-> Off, q |-> 3, off |-> Off]]

Trial(seq, start, front, tail) == [seq |-> seq, start |-> start, front |-> front, tail |-> tail]
File(id, t, track) == [id |-> id, trial |-> t, track |-> track]
Tables(trials, files, entries, place) ==
  LET none == <<NoRow(0), NoRow(0)>>
      d == [race |-> TRUE, born |-> Cardinality({t \in Trials : trials[t] # NoTrial}),
            trials |-> trials, uploads |-> Cardinality(files), files |-> files, vs |-> Stations, entries |-> entries, place |-> place,
            rows |-> <<none, none, none>>]
  IN Recomputed(Read(d), d)

(* Two trials, room for a third; three, the second without a track; and the  *)
(* same without stations: there is nothing to recompute while trials are     *)
(* moved about.                                                              *)
TwoTrials(entries) ==
  Tables(<<Trial(0, 2, 2, 1), Trial(1, Null, 3, 1), NoTrial>>,
         {File(1, 1, "A"), File(2, 2, "B")}, entries, <<"p", "q">>)
ThreeTrials(entries) ==
  Tables(<<Trial(0, 1, 2, 1), Trial(1, 3, 2, 1), Trial(2, Null, 2, 1)>>,
         {File(1, 3, "A"), File(2, 1, "B")}, entries, <<"p", "q">>)
MCDatabases0 ==
  [timing |-> {TwoTrials(<<1, 2>>), ThreeTrials(<<2, 1>>)},
   order |-> {TwoTrials(<<>>), ThreeTrials(<<>>)},
   forms |-> {TwoTrials(<<>>), ThreeTrials(<<>>)},
   tracks |-> {TwoTrials(<<1, 2>>)},
   list |-> {TwoTrials(<<1, 2>>), ThreeTrials(<<2>>)},
   tags |-> {TwoTrials(<<>>)}]
=============================================================================
