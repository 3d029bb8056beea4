------------------------------ MODULE MCDelivery ------------------------------
(***************************************************************************)
(* Small instances of the Shop for TLC.  Requests and tokens are numbered  *)
(* and interchangeable until they are used, so they are used in order.     *)
(***************************************************************************)
EXTENDS Shop, Integers

InOrder ==
    /\ \A g, h \in Gets : g < h /\ gPc[h] # "idle" => gPc[g] # "idle"
    /\ \A s, t \in Tokens :
          s < t /\ (t \in issuing \/ row[t] # "none") => s \in issuing \/ row[s] # "none"

MCSpec == ShopInit /\ [][ShopNext /\ InOrder']_shopVars /\ ShopFairness
===============================================================================
