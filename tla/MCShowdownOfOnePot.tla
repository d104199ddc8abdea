------------------------- MODULE MCShowdownOfOnePot -------------------------
(***************************************************************************)
(* ShowdownOfOnePot for TLC: twelve cards among which every type of hand   *)
(* and many equal ones can be dealt to three players.                      *)
(***************************************************************************)
EXTENDS ShowdownOfOnePot

(* Oros hold a SEGUNDA and, without the five, a CHIVO.                     *)
TwelveCards ==
    {<<1, "Oros">>, <<5, "Oros">>, <<6, "Oros">>, <<7, "Oros">>}
      \cup {<<v, s>> : v \in {3, 4}, s \in {"Copas", "Espadas", "Bastos"}}
      \cup {<<7, "Copas">>, <<2, "Espadas">>}
=============================================================================
