------------------------------ MODULE MCStartup -------------------------------
(***************************************************************************)
(* TLC instance of the start: every file of two lines at most, out of      *)
(* lines of each kind, with each kind of key.                              *)
(***************************************************************************)
EXTENDS Startup

CONSTANTS a, b

MCSegIds == {a, b}

MCLines ==
  { <<a, 20, 10, 6>>, <<b, 18, 12, 6, 1>>,
    <<a, 20, 10>>,                             \* a field is missing
    <<b, 22, 22, 6>>, <<b, 20, 10, 1>>,        \* wrong way round, too few
    <<b, 20, Garbage, 6>>, <<b, Garbage, 10, 6>>, <<b, 20, 10, Garbage>>,
    <<b, NaN, 10, 6>>, <<a, 20, 10, NaN>>,
    <<b, -1, -2, 6>> }

MCFiles == {<<>>} \cup {<<l>> : l \in MCLines}
                  \cup {<<l, m>> : l \in MCLines, m \in MCLines}

Config(lines, min, key, password) ==
  [lines |-> lines, min_number_num |-> min, secret_key |-> key,
   password |-> password]

(* every file; a minimum that lets a 0 pass; and every key, with a file    *)
(* that passes                                                             *)
MCConfigs ==
  {Config(f, 2, "good", "no") : f \in MCFiles} \cup
  {Config(<<l>>, 0, "good", "no") : l \in MCLines} \cup
  {Config(<<<<a, 20, 10, 6>>>>, 2, key, password) :
     key \in Keys, password \in {"no", "right", "wrong"}}

Account(type, state, id) == [type |-> type, state |-> state, id |-> id]

MCAnswers ==
  { <<>>,
    <<Account("margin", "working", 1), Account("spot", "lock", 2),
      Account("spot", "working", 3), Account("spot", "working", 4)>>,
    <<Account("spot", "lock", 1), Account("margin", "working", 2)>> }

=============================================================================
