--------------------------- MODULE MCMessageOutput ---------------------------
(***************************************************************************)
(* Both families with and without link qualities, and buffers so small     *)
(* that two or three entries fill one.  The tables: empty; four neighbors  *)
(* on this interface in all states of links; neighbors on this and on      *)
(* other interfaces, one with two links and one hidden by hysteresis.      *)
(***************************************************************************)
EXTENDS MessageOutput

MCOutConfigs == {<<"v4", FALSE, 0>>, <<"v4", TRUE, 2>>, <<"v6", FALSE, 1>>, <<"v6", TRUE, 0>>}
MCOutMax == [v4 |-> 32, v6 |-> 72]

LinkTo(addr, main, here, link) == [addr |-> addr, main |-> main, here |-> here, link |-> link]

EmptyTables ==
  [links |-> <<>>, neighbors |-> <<>>, sym |-> {}, mpr |-> {}, selectors |-> {}, broken |-> {},
   others |-> <<>>, hna |-> <<>>]

FirstInterface ==
  [links |-> <<LinkTo(11, 1, TRUE, 2), LinkTo(12, 2, TRUE, 2), LinkTo(13, 3, TRUE, 1), LinkTo(14, 4, TRUE, 3)>>,
   neighbors |-> <<1, 2, 3, 4>>, sym |-> {1, 2, 4}, mpr |-> {1}, selectors |-> {2, 4}, broken |-> {4},
   others |-> <<21>>, hna |-> <<31, 32>>]

ManyInterfaces ==
  [links |-> <<LinkTo(11, 1, TRUE, 2), LinkTo(21, 1, FALSE, 2), LinkTo(22, 2, FALSE, 2),
               LinkTo(13, 3, TRUE, 2), LinkTo(15, 5, TRUE, 4)>>,
   neighbors |-> <<3, 5, 2, 1>>, sym |-> {1, 2, 3}, mpr |-> {2}, selectors |-> {1, 2, 3}, broken |-> {},
   others |-> <<21, 22, 23, 24, 25, 26>>, hna |-> <<31, 32, 33>>]

MCOutTables == {EmptyTables, FirstInterface, ManyInterfaces}
==============================================================================
