------------------------------- MODULE MCJson -------------------------------
(* Instance of Json: 8-bit numbers, two member names besides the empty one. *)
EXTENDS Json

MCNameOrder == <<"", "a", "b">>
MCNumbers ==
  {IntValue(n) : n \in {0, 127, -119, -120, -121, -128}}
  \cup {UIntValue(n) : n \in {0, 127, 128, 249, 250, 255}}
  \cup {RealValue(n) : n \in {-3, 3, 300}}
MCItems == {IntValue(7), UIntValue(250), ArrayValue(EmptyMap), ObjectValue("" :> Null)}
MCGoals ==
  MCNumbers \cup {StringValue(""), StringValue("a"), BoolValue(TRUE), BoolValue(FALSE)}
  \cup {ArrayValue(0 :> v @@ 2 :> ObjectValue("b" :> v)) : v \in MCNumbers}
MCTokens ==
  {P(c) : c \in {"{", "}", "[", "]", ",", ":", "comment", "error", "null"}}
  \cup {NumTok(7, FALSE)} \cup {Str(n) : n \in {"", "a"}}
=============================================================================
