----------------------------- MODULE MCMatchers -----------------------------
EXTENDS Matchers

Rep(w, n) == [k \in 1 .. n * Len(w) |-> w[1 + ((k - 1) % Len(w))]]
MCWords == [len \in {4, 11} |->
   IF len = 4 THEN <<<<2, 2, 1, 3>>, <<1, 3, 3, 0>>>>
   ELSE << <<3, 3, 1, 2, 3, 1, 3, 2, 2, 0, 1>>, <<1, 3, 0, 2, 1, 1, 3, 3, 2, 0, 0>> >>]
MCDictKeys == 8
HashWord(w) == (w[1] + 2 * w[2] + 5 * w[3] + 11 * w[4]) % MCDictKeys
MCWordTable == [key \in 0 .. 2 * MCDictKeys - 1 |->
   LET fit == {<<len, k>> \in {4, 11} \X {0, 1} : HashWord(MCWords[len][k + 1]) = key \div 2}
       pick == IF key % 2 = 0 THEN {e \in fit : \A f \in fit : e[1] >= f[1]} ELSE {e \in fit : \E f \in fit : e[1] < f[1]}
   IN IF pick = {} THEN [first |-> 0, len |-> 0, word |-> 0]
      ELSE LET e == CHOOSE x \in pick : TRUE IN [first |-> MCWords[e[1]][e[2] + 1][1], len |-> e[1], word |-> e[2]]]
MCInputs == <<
  Rep(<<0, 1, 2, 0, 3, 1, 1, 0, 2>>, 5) \o Rep(<<1, 0>>, 8) \o Rep(<<0, 1, 2, 0, 3, 1, 1>>, 4),
  <<0,1,1,2,0,0,1,3,2,1,0,2,2,1,0,1,2,0,2,3,1,1,2,3,0,3,0,1,0,2,1,3,1,0,0,2,3,3,1,2,3,1,3,2,2,0,1,0,3,1,1,2,0,0,1,3,2,1,0,2,2,1,0,1,2,0,2,3,1,0,1,2,3,3,1,2,3,1,3,2,0>>,
  <<0, 1, 0, 2>> \o MCWords[11][1] \o Rep(<<2, 2, 0, 1>>, 5),
  Rep(<<0, 1, 2, 0, 3, 1, 1, 0, 2>>, 2)
  >>
MCCases == {[data |-> 1, dict |-> 1], [data |-> 2, dict |-> 2], [data |-> 4, dict |-> 1]}
MCNarrowCases == {[data |-> d, dict |-> 1] : d \in 1 .. 3}
MCHops == [level \in 5 .. 9 |-> level - 2]
MCKinds == QuickKinds \cup BucketKinds \cup ChainKinds
MCDictionaries == << <<>>, << <<2, 1, 0, 2, 2, 1, 0, 1, 2, 0, 2>>, <<3, 1, 1, 0, 2>> >> >>
=============================================================================
