------------------------- MODULE MCLocationService -------------------------
(* The tree of hls_moved.py and hls_original.py. *)
EXTENDS LocationService

WorkshopDomains ==
  {"ROOT", "AMERICA", "ECUADOR", "IBARRA", "QUITO", "USA", "EUROPE"}

WorkshopTree ==
  [d \in WorkshopDomains |->
     CASE d = "ROOT" -> {"AMERICA", "EUROPE"}
       [] d = "AMERICA" -> {"ECUADOR", "USA"}
       [] d = "ECUADOR" -> {"IBARRA", "QUITO"}
       [] OTHER -> {}]
=============================================================================
