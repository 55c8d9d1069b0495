-------------------------- MODULE MCSettingReduction ---------------------------
(* Up to four settings in the six lists, at most two in one of them, with  *)
(* any of them off their targets.                                          *)
EXTENDS SettingReduction

MCShapes ==
  {s \in [1..6 -> 0..2] :
     LET n == s[1] + s[2] + s[3] + s[4] + s[5] + s[6] IN n <= 4}

MCPairs ==
  UNION {{[settings |-> [t \in 1..6 |-> [i \in 1..s[t] |-> "old"]],
           target   |-> [t \in 1..6 |->
              [i \in 1..s[t] |-> IF <<t, i>> \in d THEN "new" ELSE "old"]]] :
            d \in SUBSET {e \in (1..6) \X (1..2) : e[2] <= s[e[1]]}} :
         s \in MCShapes}

MCBatchNumbers == {-1, 1, 2, 3}
===============================================================================
