------------------------------ MODULE MCPique ------------------------------
(***************************************************************************)
(* Instances of Pique for TLC, chips in cents.                             *)
(***************************************************************************)
EXTENDS Pique

(* Deep purses, and one that cannot pay the banda.                         *)
ThreePurses == <<6000, 6000, 800>>

FourPurses == <<6000, 6000, 800, 6000>>
=============================================================================
