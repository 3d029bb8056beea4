---------------------------- MODULE DeliveryProofs ----------------------------
(***************************************************************************)
(* Proofs about Delivery for any number of tokens and requests, with       *)
(* clients leaving at any time and the process dying at any time, and      *)
(* about its composition with the orders of Shop, for any sets of orders   *)
(* and charges.                                                            *)
(***************************************************************************)
EXTENDS Shop, TLAPS

USE DeliveryAssumption

\* Handlers know their token, only finished downloads were served, nobody else
\* holds the token of a served request, and a token still to be inserted has
\* no row.
HandlerInv ==
    /\ \A g \in Gets :
          /\ gPc[g] # "idle" => gToken[g] \in Tokens
          /\ served[g] => gPc[g] \in {"use", "done", "dead"}
          /\ gPc[g] = "use" => served[g]
          /\ served[g] => \A h \in Gets \ {g} :
                gPc[h] \in Holding => gToken[h] # gToken[g]
    /\ \A t \in issuing : row[t] = "none"

IInv == TypeOK /\ HandlerInv /\ OneHolder /\ ServedOnce /\ UsedMeansServed

LEMMA InitInv == Init => IInv
  BY DEF Init, IInv, TypeOK, HandlerInv, OneHolder, ServedOnce,
         UsedMeansServed, Holding

LEMMA AccessInv ==
  ASSUME IInv, Grant \/ Revoke
  PROVE  IInv'
  BY DEF IInv, TypeOK, HandlerInv, OneHolder, ServedOnce, UsedMeansServed,
         Grant, Revoke, gets

LEMMA IssueInv ==
  ASSUME IInv, NEW t \in Tokens,
         IssueRead(t) \/ IssueInsert(t) \/ Expire(t)
  PROVE  IInv'
<1> USE DEF IInv, TypeOK, IssueRead, IssueInsert, Expire, issue, gets
<1>1. TypeOK' OBVIOUS
<1>2. HandlerInv' BY DEF HandlerInv
<1>3. OneHolder' BY DEF OneHolder, HandlerInv, Holding
<1>4. ServedOnce' BY DEF ServedOnce, HandlerInv
<1>5. UsedMeansServed' BY DEF UsedMeansServed
<1> QED BY <1>1, <1>2, <1>3, <1>4, <1>5

\* Only the claim and the settling updates write a row on behalf of a GET.
LEMMA QuietInv ==
  ASSUME IInv, NEW g \in Gets,
         \/ \E t \in Tokens : GetSelect(g, t)
         \/ Opens(g) \/ PipeCloses(g) \/ PipeFinishes(g) \/ PipeFails(g)
         \/ LeavesEarly(g)
  PROVE  IInv'
<1> USE DEF IInv, GetSelect, Opens, PipeCloses, PipeFinishes, PipeFails,
            LeavesEarly, issue, Holding
<1>1. TypeOK'
  <2>1. UNCHANGED <<issue, row, fresh>> OBVIOUS
  <2>2. gPc' \in [Gets -> {"idle", "claim", "open", "pipe", "release", "use", "done", "dead"}]
    BY DEF TypeOK
  <2>3. gToken' \in [Gets -> Tokens \cup {NoToken}]
    BY DEF TypeOK
  <2>4. gone' \in [Gets -> BOOLEAN]
    BY DEF TypeOK
  <2>5. served' \in [Gets -> BOOLEAN]
    BY DEF TypeOK
  <2> QED BY <2>1, <2>2, <2>3, <2>4, <2>5 DEF TypeOK
<1>2. HandlerInv' BY DEF TypeOK, HandlerInv, OneHolder
<1>3. OneHolder' BY DEF TypeOK, OneHolder
<1>4. ServedOnce' BY DEF TypeOK, ServedOnce, HandlerInv, OneHolder
<1>5. UsedMeansServed' BY DEF TypeOK, UsedMeansServed, HandlerInv, ServedOnce
<1> QED BY <1>1, <1>2, <1>3, <1>4, <1>5

LEMMA ClaimInv ==
  ASSUME IInv, NEW g \in Gets, GetClaim(g)
  PROVE  IInv'
<1> USE DEF IInv, TypeOK, GetClaim, Claimable, issue, Holding
<1>1. gToken[g] \in Tokens BY DEF HandlerInv
<1>2. TypeOK' BY <1>1
<1>3. HandlerInv' BY <1>1 DEF HandlerInv, ServedOnce
<1>4. OneHolder' BY <1>1 DEF OneHolder, HandlerInv
<1>5. ServedOnce' BY <1>1 DEF ServedOnce, HandlerInv
<1>6. UsedMeansServed' BY <1>1 DEF UsedMeansServed
<1> QED BY <1>2, <1>3, <1>4, <1>5, <1>6

\* The conditional updates: the catch of readAsset, the release, the "used".
LEMMA SettleInv ==
  ASSUME IInv, NEW g \in Gets, OpenFails(g) \/ SettleRow(g)
  PROVE  IInv'
<1> USE DEF IInv, OpenFails, SettleRow, Settle, Outcome, issue, Holding
<1>1. /\ gToken[g] \in Tokens
      /\ row[gToken[g]] = "streaming"
  BY DEF HandlerInv, OneHolder
<1>2. PICK s \in {"issued", "used"} :
          /\ row' = [row EXCEPT ![gToken[g]] = s]
          /\ s = "used" <=> gPc[g] = "use"
  BY <1>1
<1>3. /\ gPc' = [gPc EXCEPT ![g] = "done"]
      /\ gPc[g] \in {"open", "release", "use"}
      /\ UNCHANGED <<issue, fresh, gToken, gone, served>>
  OBVIOUS
<1> HIDE DEF OpenFails, SettleRow, Settle, Outcome
<1>4. TypeOK' BY <1>1, <1>2, <1>3 DEF TypeOK
<1>5. HandlerInv' BY <1>1, <1>2, <1>3 DEF TypeOK, HandlerInv
<1>6. OneHolder' BY <1>1, <1>2, <1>3 DEF TypeOK, OneHolder, HandlerInv
<1>7. ServedOnce'
  BY <1>1, <1>2, <1>3 DEF TypeOK, ServedOnce, HandlerInv
<1>8. UsedMeansServed'
  BY <1>1, <1>2, <1>3 DEF TypeOK, UsedMeansServed, HandlerInv
<1> QED BY <1>4, <1>5, <1>6, <1>7, <1>8

LEMMA CrashInv ==
  ASSUME IInv, Crash
  PROVE  IInv'
  BY DEF IInv, TypeOK, Crash, HandlerInv, OneHolder, ServedOnce,
         UsedMeansServed, Holding

LEMMA Inductive == Spec => []IInv
<1>1. IInv /\ [Next]_vars => IInv'
  <2>1. ASSUME IInv, Next PROVE IInv'
    <3>1. ASSUME NEW t \in Tokens, IssueRead(t) \/ IssueInsert(t) \/ Expire(t)
          PROVE  IInv'
      BY <2>1, <3>1, IssueInv
    <3>2. ASSUME NEW g \in Gets,
                 \/ \E t \in Tokens : GetSelect(g, t)
                 \/ Handler(g) \/ LeavesEarly(g) \/ PipeFails(g)
          PROVE  IInv'
      BY <2>1, <3>2, QuietInv, ClaimInv, SettleInv DEF Handler
    <3>3. CASE Grant \/ Revoke
      BY <2>1, <3>3, AccessInv
    <3> QED BY <2>1, <3>1, <3>2, <3>3, CrashInv DEF Next, Downloads
  <2>2. ASSUME IInv, UNCHANGED vars PROVE IInv'
    BY <2>2 DEF vars, issue, gets, IInv, TypeOK, HandlerInv, OneHolder,
                ServedOnce, UsedMeansServed
  <2> QED BY <2>1, <2>2
<1> QED BY InitInv, <1>1, PTL DEF Spec

-------------------------------------------------------------------------------
\* Every variable keeps its type.
THEOREM TypeCorrect == Spec => []TypeOK
  BY Inductive, PTL DEF IInv

\* The conditional updates are enough: no two handlers own a token at once and
\* no late listener settles a claim that is not its own.
THEOREM TokensHaveOneHolder == Spec => []OneHolder
  BY Inductive, PTL DEF IInv

\* A download link serves one archive at most, whatever fails and whenever the
\* process dies.
THEOREM TokensServeOnce == Spec => []ServedOnce
  BY Inductive, PTL DEF IInv

\* No failure path marks a token used.
THEOREM FailuresKeepTokens == Spec => []UsedMeansServed
  BY Inductive, PTL DEF IInv

-------------------------------------------------------------------------------
(* Downloads and orders together. *)

USE ShopAssumption

\* In the composition downloads behave as they do alone.
THEOREM DownloadsAsAlone == ShopSpec => Spec
<1>1. ShopInit => Init
  BY DEF ShopInit
<1>2. [ShopNext]_shopVars => [Next]_vars
  BY DEF ShopNext, OrderStep, DownloadStep, Next, shopVars
<1> QED BY <1>1, <1>2, PTL DEF ShopSpec, Spec

LEMMA InitContract == ShopInit => Contract!Init
  BY DEF ShopInit

LEMMA StepContract == [ShopNext]_shopVars => [Contract!Next]_(Contract!cvars)
<1>1. ASSUME UNCHANGED <<access, money>> PROVE UNCHANGED Contract!cvars
  BY <1>1 DEF money, Contract!cvars, Access
<1>2. CASE OrderStep
  BY <1>2 DEF OrderStep
<1>3. CASE DownloadStep
  BY <1>1, <1>3 DEF DownloadStep
<1>4. CASE UNCHANGED shopVars
  BY <1>1, <1>4 DEF shopVars, vars, issue
<1> QED BY <1>2, <1>3, <1>4 DEF ShopNext

\* And orders keep their contract beside them.
THEOREM OrdersKeepContract == ShopSpec => Contract!Spec
  BY InitContract, StepContract, PTL DEF ShopSpec, Contract!Spec

-------------------------------------------------------------------------------
\* Without an entitlement there is no link.
NoLink == access = "none" => issuing = {} /\ \A t \in Tokens : row[t] = "none"

\* A charge buys one order, and an entitlement stands for the charge of its
\* order.
Bought ==
    /\ \A c \in Charges : \A o, p \in Orders :
          <<c, o>> \in taken /\ <<c, p>> \in taken => o = p
    /\ paidBy \in [Orders -> Charges \cup {NoCharge}]
    /\ access # "none" =>
          paidBy[Purchase] \in Charges /\ <<paidBy[Purchase], Purchase>> \in taken

ShopInv == NoLink /\ Bought

LEMMA InitShop == ShopInit => ShopInv
  BY DEF ShopInit, Init, Contract!Init, ShopInv, NoLink, Bought

LEMMA DownloadNoLink ==
  ASSUME IInv, NoLink, DownloadStep
  PROVE  NoLink'
<1> SUFFICES ASSUME access = "none"
             PROVE  issuing' = {} /\ \A t \in Tokens : row'[t] = "none"
  BY DEF NoLink, DownloadStep
<1>1. issuing = {} /\ \A t \in Tokens : row[t] = "none"
  BY DEF NoLink
<1>2. ASSUME NEW t \in Tokens, IssueRead(t) \/ IssueInsert(t) \/ Expire(t)
      PROVE  issuing' = {} /\ row' = row
  BY <1>1, <1>2 DEF IssueRead, IssueInsert, Expire, Entitled, issue
<1>3. ASSUME NEW g \in Gets,
             \/ \E t \in Tokens : GetSelect(g, t)
             \/ Handler(g) \/ LeavesEarly(g) \/ PipeFails(g)
      PROVE  issuing' = {} /\ row' = row
  <2>1. gPc[g] \in Holding => gToken[g] \in Tokens /\ row[gToken[g]] = "streaming"
    BY DEF IInv, HandlerInv, OneHolder, Holding
  <2>2. gPc[g] \notin Holding
    BY <1>1, <2>1
  <2>3. gPc[g] = "claim" => gToken[g] \in Tokens
    BY DEF IInv, HandlerInv
  <2> QED BY <1>1, <1>3, <2>2, <2>3
          DEF Holding, Handler, GetSelect, GetClaim, Claimable, OpenFails, Opens,
              PipeCloses, PipeFinishes, PipeFails, SettleRow, LeavesEarly, issue
<1>4. CASE Crash
  BY <1>1, <1>4 DEF Crash
<1> QED BY <1>1, <1>2, <1>3, <1>4 DEF DownloadStep, Downloads

LEMMA OrderNoLink ==
  ASSUME IInv, NoLink, OrderStep
  PROVE  NoLink'
  BY DEF NoLink, OrderStep, Grant, Revoke, vars, issue

LEMMA OrderBought ==
  ASSUME IInv, Bought, OrderStep
  PROVE  Bought'
<1>1. PICK o \in Orders :
          \/ Contract!Revoke(o)
          \/ \E c \in Charges :
                Contract!Take(c, o) \/ Contract!Grant(c, o) \/ Contract!Return(c, o)
  BY DEF OrderStep, Contract!Next
<1>2. Access[Purchase] = access /\ Access'[Purchase] = access'
  BY DEF Access
<1>3. CASE Contract!Revoke(o)
  BY <1>2, <1>3 DEF Contract!Revoke, Bought, Access
<1>4. ASSUME NEW c \in Charges, Contract!Return(c, o) PROVE Bought'
  BY <1>2, <1>4 DEF Contract!Return, Bought
<1>5. ASSUME NEW c \in Charges, Contract!Take(c, o) PROVE Bought'
  BY <1>2, <1>5 DEF Contract!Take, Bought
<1>6. ASSUME NEW c \in Charges, Contract!Grant(c, o) PROVE Bought'
  BY <1>2, <1>6 DEF Contract!Grant, Bought, Access
<1> QED BY <1>1, <1>3, <1>4, <1>5, <1>6

LEMMA ShopInductive == ShopSpec => []ShopInv
<1>1. ASSUME IInv, ShopInv, [ShopNext]_shopVars PROVE ShopInv'
  <2>1. CASE OrderStep
    BY <1>1, <2>1, OrderNoLink, OrderBought DEF ShopInv
  <2>2. CASE DownloadStep
    BY <1>1, <2>2, DownloadNoLink DEF ShopInv, Bought, DownloadStep, money
  <2>3. CASE UNCHANGED shopVars
    BY <1>1, <2>3 DEF ShopInv, NoLink, Bought, shopVars, vars, issue, money
  <2> QED BY <1>1, <2>1, <2>2, <2>3 DEF ShopNext
<1> QED BY InitShop, DownloadsAsAlone, Inductive, <1>1, PTL DEF ShopSpec

\* Nobody is served an archive that the Stars of its own order have not paid
\* for.
THEOREM DeliveriesArePaid == ShopSpec => []ServedIsPaid
<1>1. IInv /\ ShopInv => ServedIsPaid
  <2> SUFFICES ASSUME IInv, ShopInv, NEW g \in Gets, served[g]
               PROVE  \E c \in Charges :
                        /\ paidBy[Purchase] = c
                        /\ \A o \in Orders : <<c, o>> \in taken <=> o = Purchase
    BY DEF ServedIsPaid
  <2>1. gToken[g] \in Tokens /\ row[gToken[g]] # "none"
    BY DEF IInv, HandlerInv, ServedOnce
  <2>2. access # "none"
    BY <2>1 DEF ShopInv, NoLink
  <2> QED BY <2>2 DEF ShopInv, Bought
<1> QED BY <1>1, ShopInductive, DownloadsAsAlone, Inductive, PTL

===============================================================================
