----------------------------- MODULE CheckoutProofs -----------------------------
(***************************************************************************)
(* Proofs about Checkout, for any windows, licenses, orders and keys and   *)
(* any number of requests at once.                                         *)
(*                                                                         *)
(* An attempt learns of its order through the handler its window waits     *)
(* for: the handler works on the attempt's key and license (Waiting), its  *)
(* answer is a row of that key and license (AnswersTrue), and no key has   *)
(* two rows (OneRow).                                                      *)
(*                                                                         *)
(* The buyer with one window and one license is led back to what he paid   *)
(* for because the stored attempt outlives the window (Resumes): it is     *)
(* given up only with an order whose invoice was on the screen, so every   *)
(* handler still at work either finds its key taken or works for it        *)
(* (NoStray), and an order paid for and not received is the stored one     *)
(* (PaidIsStored).                                                         *)
(***************************************************************************)
EXTENDS MCCheckout, FiniteSetTheorems, TLAPS

Knowing == {"check", "pending", "purchases", "invoice", "link", "open", "poll"}

OneRow == \A o, p \in Placed : row[o].key = row[p].key => o = p

AnswersTrue ==
    \A c \in Calls : hAnswer[c] \in Orders =>
        /\ row[hAnswer[c]] # NoRow
        /\ row[hAnswer[c]].key = hKey[c]
        /\ row[hAnswer[c]].license = hLicense[c]

Waiting ==
    \A w \in Windows :
        /\ wPc[w] # "idle" => att[w] # NoAttempt
        /\ wPc[w] \in Knowing => att[w].order # NoOrder
        /\ wPc[w] = "open" => att[w].order \in shown
        /\ wPc[w] = "create" =>
              /\ cur[w] # NoCall
              /\ hKey[cur[w]] = att[w].key
              /\ hLicense[cur[w]] = att[w].license
        /\ \A v \in Windows : cur[v] = cur[w] /\ cur[w] # NoCall => v = w

IInv == TypeOK /\ OneRow /\ AnswersTrue /\ AttemptNamesItsOrder /\ Waiting

Resumes ==
    /\ \A w \in Windows \ {FirstWindow} : wPc[w] = "idle" /\ page[w] = NoOrder
    /\ stored # NoAttempt => stored.license = FirstLicense
    /\ wPc[FirstWindow] # "idle" =>
          /\ att[FirstWindow] = stored
          /\ want[FirstWindow] = FirstLicense
          /\ page[FirstWindow] = NoOrder
    /\ wPc[FirstWindow] = "create" => stored.order = NoOrder
    /\ wPc[FirstWindow] = "purchases" => Fulfilled(stored.order)

NoStray ==
    \A c \in Calls : hPc[c] \in {"read", "insert", "reread"} =>
        \/ Known(hKey[c]) # {}
        \/ stored # NoAttempt /\ stored.key = hKey[c]

PaidIsStored ==
    /\ \A o \in Placed : Fulfilled(o) => o \in charged
    /\ \A o \in charged : ~Fulfilled(o) =>
          /\ stored # NoAttempt /\ stored.order = o
          /\ wPc[FirstWindow] \in {"idle", "check", "pending", "poll"}

SingleInv == Resumes /\ NoStray /\ NoForgottenOrder /\ PaidIsStored

LEMMA Initially == Init => IInv
<1> SUFFICES ASSUME Init PROVE IInv OBVIOUS
<1> USE MCAssumption DEF CheckoutAssumption, Init
<1>1. TypeOK BY DEF TypeOK, Placed
<1>2. OneRow /\ AnswersTrue BY DEF OneRow, AnswersTrue, Placed
<1>3. AttemptNamesItsOrder /\ Waiting BY DEF AttemptNamesItsOrder, Waiting, Knowing
<1> QED BY <1>1, <1>2, <1>3 DEF IInv

-------------------------------------------------------------------------------
(* POST /api/orders *)

\* A handler that ends names no order, or one of its own key and license.
LEMMA AnswerKeeps ==
  ASSUME IInv, NEW c \in Calls, NEW a \in Orders \cup {Conflict}, Answer(c, a),
         hPc[c] # "free", UNCHANGED <<row, shown, charged, hKey, hLicense, client>>,
         a \in Orders => row[a] # NoRow /\ row[a].key = hKey[c] /\ row[a].license = hLicense[c]
  PROVE  IInv'
<1> USE MCAssumption DEF CheckoutAssumption, IInv, Answer, client
<1>1. TypeOK' BY DEF TypeOK, Placed
<1>2. OneRow' BY DEF OneRow, Placed
<1>3. AnswersTrue' BY DEF AnswersTrue, TypeOK
<1>4. AttemptNamesItsOrder' BY DEF AttemptNamesItsOrder
<1>5. Waiting' BY DEF Waiting, Knowing
<1> QED BY <1>1, <1>2, <1>3, <1>4, <1>5

LEMMA FoundKeeps ==
  ASSUME IInv, NEW c \in Calls, NEW o \in Known(hKey[c]), Answer(c, Replay(c, o)),
         hPc[c] # "free", UNCHANGED <<row, shown, charged, hKey, hLicense, client>>
  PROVE  IInv'
<1>1. o \in Orders /\ row[o] # NoRow /\ row[o].key = hKey[c]
  BY DEF Known, Placed
<1>2. Conflict \notin Orders
  BY MCAssumption DEF CheckoutAssumption
<1>3. CASE row[o].license = hLicense[c]
  BY <1>1, <1>3, AnswerKeeps DEF Replay
<1>4. CASE row[o].license # hLicense[c]
  BY <1>2, <1>4, AnswerKeeps DEF Replay
<1> QED BY <1>3, <1>4

LEMMA ReadKeeps ==
  ASSUME IInv, NEW c \in Calls, OrderRead(c) \/ OrderRaced(c) \/ OrderReread(c)
  PROVE  IInv'
<1>1. ASSUME NEW pc \in {"insert", "reread"}, hPc' = [hPc EXCEPT ![c] = pc],
             UNCHANGED <<row, shown, charged, hKey, hLicense, hAnswer, client>>
      PROVE  IInv'
  <2> USE <1>1 DEF IInv, client
  <2>1. TypeOK' BY DEF TypeOK, Placed
  <2>2. (OneRow /\ AnswersTrue /\ AttemptNamesItsOrder)'
    BY DEF OneRow, Placed, AnswersTrue, AttemptNamesItsOrder
  <2>3. Waiting' BY DEF Waiting
  <2> QED BY <2>1, <2>2, <2>3
<1>2. CASE OrderRaced(c) BY <1>1, <1>2 DEF OrderRaced
<1>3. CASE OrderRead(c) BY <1>1, <1>3, FoundKeeps DEF OrderRead
<1>4. CASE OrderReread(c) BY <1>4, FoundKeeps DEF OrderReread
<1> QED BY <1>2, <1>3, <1>4

LEMMA InsertKeeps == ASSUME IInv, NEW c \in Calls, OrderInsert(c) PROVE IInv'
<1>1. PICK o \in Orders \ Placed :
        /\ row' = [row EXCEPT ![o] = [license |-> hLicense[c], key |-> hKey[c],
                                      status |-> "pending"]]
        /\ hPc' = [hPc EXCEPT ![c] = "done"]
        /\ hAnswer' = [hAnswer EXCEPT ![c] = o]
  BY DEF OrderInsert, Fresh, Placed, Answer
<1>2. /\ hPc[c] = "insert" /\ Known(hKey[c]) = {}
      /\ UNCHANGED <<shown, charged, hKey, hLicense, client>>
  BY DEF OrderInsert, Duplicate
<1> USE MCAssumption, <1>1, <1>2 DEF CheckoutAssumption, IInv, client
<1>3. hLicense[c] \in Licenses /\ hKey[c] \in Keys BY DEF TypeOK
<1>4. row' \in [Orders -> Row \cup {NoRow}] BY <1>3 DEF TypeOK, Row
<1>5. row[o] = NoRow /\ row'[o] # NoRow /\ row'[o].key = hKey[c] /\ row'[o].license = hLicense[c]
  BY <1>3 DEF TypeOK, Placed, Row
<1>6. \A p \in Orders : p # o => row'[p] = row[p] BY DEF TypeOK
<1>7. Placed' = Placed \cup {o} BY <1>5, <1>6 DEF Placed
<1>8. TypeOK' BY <1>4, <1>7 DEF TypeOK
<1>9. OneRow' BY <1>5, <1>6, <1>7 DEF OneRow, Placed, Known
<1>10. AnswersTrue' BY <1>5, <1>6 DEF AnswersTrue, TypeOK
<1>11. AttemptNamesItsOrder'
  <2>1. \A p \in Orders : row[p] # NoRow => row'[p] = row[p]
    BY <1>5, <1>6
  <2>2. \A a \in {stored} \cup {att[w] : w \in Windows} :
          a # NoAttempt /\ a.order # NoOrder => a.order \in Orders
    BY DEF TypeOK, Attempt
  <2> QED BY <2>1, <2>2 DEF AttemptNamesItsOrder
<1>12. Waiting' BY DEF Waiting
<1> QED BY <1>8, <1>9, <1>10, <1>11, <1>12

-------------------------------------------------------------------------------
(* useCheckout *)

\* The slot taken is one no window waits for.
LEMMA Sends ==
  ASSUME IInv, NEW w \in Windows, NEW l, NEW a \in Attempt \cup {NoAttempt},
         SendOrder(w, l, a)
  PROVE  \E c \in Calls, k \in Keys :
            /\ hPc[c] \in {"free", "done"}
            /\ \A v \in Windows : cur[v] # c
            /\ Reusable(a, l) => k = a.key
            /\ usedKeys' = usedKeys \cup {k}
            /\ stored' = [license |-> l, key |-> k, order |-> NoOrder]
            /\ att' = [att EXCEPT ![w] = [license |-> l, key |-> k, order |-> NoOrder]]
            /\ cur' = [cur EXCEPT ![w] = c]
            /\ hPc' = [hPc EXCEPT ![c] = "read"]
            /\ hKey' = [hKey EXCEPT ![c] = k]
            /\ hLicense' = [hLicense EXCEPT ![c] = l]
            /\ hAnswer' = [hAnswer EXCEPT ![c] = NoOrder]
            /\ wPc' = [wPc EXCEPT ![w] = "create"]
<1> DEFINE free == {c \in Calls : hPc[c] \in {"free", "done"}} \ Range(cur)
           k == IF Reusable(a, l) THEN a.key ELSE Fresh(Keys \ usedKeys)
<1>1. Fresh(free) \in free
  BY DEF SendOrder, Fresh
<1>2. \A v \in Windows : cur[v] # Fresh(free)
  BY <1>1 DEF Range, IInv, TypeOK
<1>3. k \in Keys
  <2>1. CASE Reusable(a, l) BY <2>1 DEF Reusable, Attempt
  <2>2. CASE ~Reusable(a, l) /\ usedKeys # Keys
    BY <2>2 DEF Fresh, IInv, TypeOK
  <2> QED BY <2>1, <2>2 DEF SendOrder
<1> QED BY <1>1, <1>2, <1>3 DEF SendOrder, Goto

LEMMA SendKeeps ==
  ASSUME IInv, NEW w \in Windows, NEW l \in Licenses,
         NEW a \in Attempt \cup {NoAttempt}, SendOrder(w, l, a),
         UNCHANGED <<row, shown, charged>>,
         want' \in [Windows -> Licenses],
         page' \in [Windows -> Orders \cup {NoOrder}]
  PROVE  IInv'
<1>1. PICK c \in Calls, k \in Keys :
        /\ hPc[c] \in {"free", "done"}
        /\ \A v \in Windows : cur[v] # c
        /\ usedKeys' = usedKeys \cup {k}
        /\ stored' = [license |-> l, key |-> k, order |-> NoOrder]
        /\ att' = [att EXCEPT ![w] = [license |-> l, key |-> k, order |-> NoOrder]]
        /\ cur' = [cur EXCEPT ![w] = c]
        /\ hPc' = [hPc EXCEPT ![c] = "read"]
        /\ hKey' = [hKey EXCEPT ![c] = k]
        /\ hLicense' = [hLicense EXCEPT ![c] = l]
        /\ hAnswer' = [hAnswer EXCEPT ![c] = NoOrder]
        /\ wPc' = [wPc EXCEPT ![w] = "create"]
  BY Sends
<1> USE <1>1, MCAssumption DEF CheckoutAssumption, IInv
<1>2. stored' \in Attempt /\ stored'.order = NoOrder BY DEF Attempt
<1>3. TypeOK' BY <1>2 DEF TypeOK, Placed
<1>4. OneRow' BY DEF OneRow, Placed
<1>5. AnswersTrue' BY DEF AnswersTrue, TypeOK
<1>6. AttemptNamesItsOrder'
  <2>1. \A v \in Windows : att'[v] = att[v] \/ att'[v] = stored' BY DEF TypeOK
  <2> QED BY <1>2, <2>1 DEF AttemptNamesItsOrder
<1>7. Waiting'
  <2>1. wPc'[w] = "create" /\ cur'[w] = c /\ att'[w] = stored'
    BY DEF TypeOK
  <2>2. hKey'[c] = k /\ hLicense'[c] = l /\ stored'.key = k /\ stored'.license = l
    BY DEF TypeOK
  <2>3. stored' # NoAttempt BY <1>2
  <2>4. ASSUME NEW v \in Windows, v # w
        PROVE  wPc'[v] = wPc[v] /\ cur'[v] = cur[v] /\ att'[v] = att[v] /\ cur[v] # c
    BY <2>4 DEF TypeOK
  <2>5. \A d \in Calls : d # c => hKey'[d] = hKey[d] /\ hLicense'[d] = hLicense[d]
    BY DEF TypeOK
  <2>6. \A v \in Windows : cur[v] \in Calls \cup {NoCall} BY DEF TypeOK
  <2> QED BY <2>1, <2>2, <2>3, <2>4, <2>5, <2>6 DEF Waiting, Knowing
<1> QED BY <1>3, <1>4, <1>5, <1>6, <1>7

LEMMA StoredIsTyped == ASSUME IInv PROVE stored \in Attempt \cup {NoAttempt}
  BY DEF IInv, TypeOK

LEMMA BuyKeeps == ASSUME IInv, NEW w \in Windows, NEW l \in Licenses, Buy(w, l) PROVE IInv'
<1>1. want' \in [Windows -> Licenses] /\ page' \in [Windows -> Orders \cup {NoOrder}]
  BY DEF Buy, IInv, TypeOK
<1>2. CASE SendOrder(w, l, stored)
  BY <1>1, <1>2, StoredIsTyped, SendKeeps DEF Buy
<1>3. CASE ~SendOrder(w, l, stored)
  <2>1. /\ stored # NoAttempt /\ stored.order # NoOrder
        /\ att' = [att EXCEPT ![w] = stored] /\ wPc' = [wPc EXCEPT ![w] = "check"]
        /\ UNCHANGED <<handlers, stored, usedKeys, cur, row, shown, charged>>
    BY <1>3 DEF Buy, Goto
  <2> USE <2>1 DEF IInv, handlers
  <2>2. TypeOK' BY <1>1 DEF TypeOK, Placed
  <2>3. (OneRow /\ AnswersTrue)' BY DEF OneRow, Placed, AnswersTrue
  <2>4. AttemptNamesItsOrder' BY DEF AttemptNamesItsOrder, TypeOK
  <2>5. Waiting' BY DEF Waiting, TypeOK, Knowing
  <2> QED BY <2>2, <2>3, <2>4, <2>5
<1> QED BY <1>2, <1>3

LEMMA ReplaceKeeps == ASSUME IInv, NEW w \in Windows, Replace(w) PROVE IInv'
<1>1. want[w] \in Licenses /\ want' \in [Windows -> Licenses]
      /\ page' \in [Windows -> Orders \cup {NoOrder}]
  BY DEF Replace, IInv, TypeOK
<1> QED BY <1>1, SendKeeps DEF Replace

\* Only the variable wPc moves, between two states in which the order is known.
LEMMA MoveKeeps ==
  ASSUME IInv, NEW w \in Windows, NEW pc \in Knowing \ {"open"}, wPc[w] \in Knowing,
         Goto(w, pc), charged' \in {charged, charged \cup {att[w].order}},
         charged' # charged => wPc[w] = "open",
         UNCHANGED <<row, shown, handlers, stored, usedKeys, want, att, cur, page>>
  PROVE  IInv'
<1> USE DEF IInv, handlers, Goto, Knowing
<1>1. TypeOK' BY DEF TypeOK, Placed, Waiting
<1>2. (OneRow /\ AnswersTrue /\ AttemptNamesItsOrder)'
  BY DEF OneRow, Placed, AnswersTrue, AttemptNamesItsOrder
<1>3. Waiting' BY DEF Waiting, TypeOK
<1> QED BY <1>1, <1>2, <1>3

\* The function returns: the window forgets its attempt, storage may.
LEMMA LeaveKeeps ==
  ASSUME IInv, NEW w \in Windows, Leave(w),
         stored' \in {stored, NoAttempt},
         charged' = charged \/ (charged' = charged \cup {att[w].order} /\ wPc[w] = "open"),
         cur' \in {cur, [cur EXCEPT ![w] = NoCall]},
         page' \in [Windows -> Orders \cup {NoOrder}],
         UNCHANGED <<row, shown, handlers, usedKeys, want>>
  PROVE  IInv'
<1> USE DEF IInv, handlers, Leave, Goto
<1>1. TypeOK' BY DEF TypeOK, Placed, Waiting
<1>2. (OneRow /\ AnswersTrue)' BY DEF OneRow, Placed, AnswersTrue
<1>3. AttemptNamesItsOrder' BY DEF AttemptNamesItsOrder, TypeOK
<1>4. Waiting' BY DEF Waiting, TypeOK, Knowing
<1> QED BY <1>1, <1>2, <1>3, <1>4

LEMMA CreatedKeeps == ASSUME IInv, NEW w \in Windows, Created(w) PROVE IInv'
<1> DEFINE c == cur[w]
           a == [att[w] EXCEPT !.order = hAnswer[c]]
<1>1. c \in Calls /\ hAnswer[c] \in Orders
  BY DEF Created, IInv, Waiting, TypeOK
<1>2. att[w] \in Attempt /\ hKey[c] = att[w].key /\ hLicense[c] = att[w].license
  BY DEF Created, IInv, Waiting, TypeOK
<1>3. /\ a \in Attempt /\ a.order = hAnswer[c] /\ a.key = att[w].key
      /\ a.license = att[w].license
  BY <1>1, <1>2 DEF Attempt
<1>4. /\ row[a.order] # NoRow /\ row[a.order].key = a.key
      /\ row[a.order].license = a.license
  BY <1>1, <1>2, <1>3 DEF IInv, AnswersTrue
<1>5. a # NoAttempt /\ a.order # NoOrder
  BY <1>1, <1>3, MCAssumption DEF CheckoutAssumption
<1>6. /\ att' = [att EXCEPT ![w] = a] /\ stored' = a
      /\ cur' = [cur EXCEPT ![w] = NoCall] /\ wPc' = [wPc EXCEPT ![w] = "invoice"]
      /\ UNCHANGED <<row, shown, charged, handlers, usedKeys, want, page>>
  BY DEF Created, Goto
<1> HIDE DEF a
<1> USE <1>6 DEF IInv, handlers
<1>7. TypeOK' BY <1>3 DEF TypeOK, Placed
<1>8. (OneRow /\ AnswersTrue)' BY DEF OneRow, Placed, AnswersTrue
<1>9. AttemptNamesItsOrder' BY <1>4 DEF AttemptNamesItsOrder, TypeOK
<1>10. Waiting' BY <1>5 DEF Waiting, TypeOK, Knowing
<1> QED BY <1>7, <1>8, <1>9, <1>10

LEMMA OpensKeeps == ASSUME IInv, NEW w \in Windows, InvoiceOpens(w) PROVE IInv'
<1> USE DEF IInv, InvoiceOpens, Goto, handlers
<1>1. att[w] # NoAttempt /\ att[w].order # NoOrder
  BY DEF Waiting, Knowing
<1>2. att[w].order \in Placed
  BY <1>1 DEF AttemptNamesItsOrder, Placed, TypeOK, Attempt
<1>3. TypeOK' BY <1>2 DEF TypeOK, Placed
<1>4. (OneRow /\ AnswersTrue /\ AttemptNamesItsOrder)'
  BY DEF OneRow, Placed, AnswersTrue, AttemptNamesItsOrder
<1>5. Waiting' BY <1>1 DEF Waiting, TypeOK, Knowing
<1> QED BY <1>3, <1>4, <1>5

LEMMA CheckoutKeeps == ASSUME IInv, NEW w \in Windows, Checkout(w) PROVE IInv'
<1>1. CASE CheckedFulfilled(w) \/ CheckedPending(w) \/ InvoiceRead(w) \/ Pay(w)
  BY <1>1, MoveKeeps DEF CheckedFulfilled, CheckedPending, InvoiceRead, Pay, Goto, Knowing
<1>2. CASE StillProcessing(w) \/ FoundFulfilled(w) \/ NotPaid(w) \/ PollFinds(w) \/ PollGivesUp(w)
  <2>1. wPc[w] \in Knowing => att[w].order \in Orders
    BY DEF IInv, Waiting, TypeOK, Attempt, Knowing
  <2>2. page' \in [Windows -> Orders \cup {NoOrder}]
    BY <1>2, <2>1 DEF IInv, TypeOK, StillProcessing, FoundFulfilled, NotPaid,
       PollFinds, PollGivesUp, Knowing
  <2> QED
    BY <1>2, <2>2, LeaveKeeps DEF StillProcessing, FoundFulfilled, NotPaid,
       PollFinds, PollGivesUp
<1> QED
  BY <1>1, <1>2, ReplaceKeeps, CreatedKeeps, OpensKeeps DEF Checkout

LEMMA PaysUnseen == ASSUME IInv, NEW w \in Windows, PayReportedPending(w) PROVE IInv'
<1>1. page' \in [Windows -> Orders \cup {NoOrder}]
  BY DEF PayReportedPending, IInv, TypeOK
<1> QED BY <1>1, LeaveKeeps DEF PayReportedPending

LEMMA EndKeeps == ASSUME IInv, NEW w \in Windows, Fail(w) \/ Reload(w) PROVE IInv'
<1>1. page' \in [Windows -> Orders \cup {NoOrder}]
  BY DEF Fail, Reload, IInv, TypeOK
<1> QED BY <1>1, LeaveKeeps DEF Fail, Reload

\* The attempt is too old, or the payments page finds its order fulfilled.
LEMMA ForgetKeeps ==
  ASSUME IInv, stored' = NoAttempt,
         UNCHANGED <<row, shown, charged, handlers, usedKeys, wPc, want, att, cur, page>>
  PROVE  IInv'
  BY DEF IInv, TypeOK, Placed, OneRow, AnswersTrue, AttemptNamesItsOrder, Waiting, Knowing,
         handlers

LEMMA WebhookKeeps == ASSUME IInv, NEW o \in Orders, Webhook(o) PROVE IInv'
<1> USE DEF IInv, Webhook, handlers, client
<1>1. row[o] \in Row
  BY MCAssumption DEF TypeOK, Placed, CheckoutAssumption
<1>2. /\ row'[o] \in Row /\ row'[o].key = row[o].key /\ row'[o].license = row[o].license
      /\ row'[o] # NoRow /\ row[o] # NoRow
  BY <1>1, MCAssumption DEF TypeOK, Row, CheckoutAssumption
<1>3. \A p \in Orders : p # o => row'[p] = row[p]
  BY DEF TypeOK
<1>4. Placed' = Placed BY <1>2, <1>3 DEF Placed
<1>5. TypeOK' BY <1>2, <1>3, <1>4 DEF TypeOK
<1>6. (OneRow /\ AnswersTrue)'
  BY <1>2, <1>3, <1>4 DEF OneRow, Placed, AnswersTrue
<1>7. AttemptNamesItsOrder'
  BY <1>2, <1>3 DEF AttemptNamesItsOrder, TypeOK, Attempt
<1>8. Waiting' BY DEF Waiting, Knowing
<1> QED BY <1>5, <1>6, <1>7, <1>8

LEMMA BuyingKeeps ==
  ASSUME IInv, NEW W \in SUBSET Windows, NEW L \in SUBSET Licenses, Buying(W, L)
  PROVE  IInv'
<1>1. ASSUME NEW c \in Calls, Handler(c) PROVE IInv'
  BY <1>1, ReadKeeps, InsertKeeps DEF Handler
<1>2. ASSUME NEW w \in Windows,
             \/ \E l \in Licenses : Buy(w, l)
             \/ Checkout(w) \/ Fail(w) \/ Reload(w) \/ PageConfirms(w)
      PROVE  IInv'
  BY <1>2, BuyKeeps, CheckoutKeeps, EndKeeps, ForgetKeeps DEF PageConfirms
<1> QED BY <1>1, <1>2, WebhookKeeps DEF Buying

LEMMA StepKeeps == ASSUME IInv, [Next]_vars PROVE IInv'
<1>1. CASE UNCHANGED vars
  BY <1>1 DEF vars, handlers, client, IInv, TypeOK, Placed, OneRow, AnswersTrue,
     AttemptNamesItsOrder, Waiting, Knowing
<1>2. ASSUME NEW w \in Windows, PayReportedPending(w) PROVE IInv'
  BY <1>2, PaysUnseen
<1>3. CASE Expire
  BY <1>3, ForgetKeeps DEF Expire
<1> QED BY <1>1, <1>2, <1>3, BuyingKeeps DEF Next
-------------------------------------------------------------------------------
LEMMA PartsAreCheckout == [MCNext]_<<vars, part>> => [Next]_vars
<1>1. ASSUME NEW W \in SUBSET Windows, NEW L \in SUBSET Licenses, Buying(W, L)
      PROVE  Buying(Windows, Licenses)
  BY <1>1 DEF Buying
<1> QED BY <1>1, MCAssumption DEF MCNext, PairNext, Next

LEMMA Inductive == MCSpec => []IInv
<1>1. IInv /\ [MCNext]_<<vars, part>> => IInv'
  BY StepKeeps, PartsAreCheckout
<1> QED BY Initially, <1>1, PTL DEF MCSpec, MCInit

\* However often a click's request is sent, its key buys one order, and the
\* order an attempt names is that one, for the license the buyer chose: for
\* any windows, licenses and requests at once.
THEOREM ClicksBuyOnce == MCSpec => []AttemptsBuyOnce
<1>1. OneRow => OneOrderPerKey
  <2> SUFFICES ASSUME OneRow, NEW k \in Keys PROVE Cardinality(Known(k)) <= 1
    BY DEF OneOrderPerKey
  <2>1. Known(k) = {} \/ \E o \in Placed : Known(k) = {o}
    BY DEF Known, OneRow
  <2> QED BY <2>1, FS_EmptySet, FS_Singleton
<1>2. IInv => AttemptsBuyOnce BY <1>1 DEF IInv, AttemptsBuyOnce
<1> QED BY Inductive, <1>2, PTL

-------------------------------------------------------------------------------
(* One window and one license. *)

LEMMA SingleInitially == Init => SingleInv
  BY MCAssumption DEF Init, SingleInv, Resumes, NoStray, NoForgottenOrder, PaidIsStored,
     Placed, Fulfilled

LEMMA NamedIsPlaced ==
  ASSUME IInv, stored # NoAttempt, stored.order # NoOrder
  PROVE  /\ stored.order \in Placed
         /\ stored.order \in Known(stored.key)
         /\ \A o \in Placed : row[o].key = stored.key => o = stored.order
<1>1. stored.order \in Orders
  BY DEF IInv, TypeOK, Attempt
<1>2. row[stored.order] # NoRow /\ row[stored.order].key = stored.key
  BY DEF IInv, AttemptNamesItsOrder
<1> QED BY <1>1, <1>2 DEF IInv, OneRow, Placed, Known

LEMMA SingleReads ==
  ASSUME IInv, SingleInv, NEW c \in Calls, OrderRead(c) \/ OrderRaced(c) \/ OrderReread(c)
  PROVE  SingleInv'
<1>1. /\ hPc[c] \in {"read", "insert", "reread"}
      /\ \E pc : hPc' = [hPc EXCEPT ![c] = pc]
      /\ UNCHANGED <<row, shown, charged, hKey, client>>
  BY DEF OrderRead, OrderRaced, OrderReread, Answer
<1> QED BY <1>1 DEF IInv, TypeOK, SingleInv, Resumes, NoStray, NoForgottenOrder,
    PaidIsStored, Known, Placed, Fulfilled, client

LEMMA SingleInserts ==
  ASSUME IInv, SingleInv, NEW c \in Calls, OrderInsert(c) PROVE SingleInv'
<1>1. PICK o \in Orders \ Placed :
        /\ row' = [row EXCEPT ![o] = [license |-> hLicense[c], key |-> hKey[c],
                                      status |-> "pending"]]
        /\ hPc' = [hPc EXCEPT ![c] = "done"]
  BY DEF OrderInsert, Fresh, Placed, Answer
<1>2. /\ hPc[c] = "insert" /\ Known(hKey[c]) = {}
      /\ UNCHANGED <<shown, charged, hKey, client>>
  BY DEF OrderInsert, Duplicate
<1>3. /\ row[o] = NoRow /\ row'[o].key = hKey[c] /\ row'[o].status = "pending"
      /\ \A p \in Orders : p # o => row'[p] = row[p]
  BY <1>1 DEF IInv, TypeOK, Placed
<1>4. hLicense[c] \in Licenses /\ hKey[c] \in Keys
  BY DEF IInv, TypeOK
<1>5. row'[o] # NoRow
  BY <1>1, <1>4, MCAssumption DEF IInv, TypeOK, CheckoutAssumption, Row
<1>6. Placed' = Placed \cup {o}
  BY <1>3, <1>5 DEF Placed
<1>7. ~Fulfilled(o)' /\ \A p \in Placed : Fulfilled(p)' <=> Fulfilled(p)
  BY <1>3 DEF Fulfilled, Placed
<1>8. o \notin charged /\ o \notin shown
  BY <1>1 DEF IInv, TypeOK
<1>9. Resumes'
  BY <1>2, <1>7, NamedIsPlaced, MCAssumption
     DEF SingleInv, Resumes, IInv, Waiting, Knowing, client
<1>10. NoStray'
  <2>1. \A k : Known(k) \subseteq Known(k)'
    BY <1>3, <1>6 DEF Known, Placed
  <2>2. \A d \in Calls : hPc'[d] \in {"read", "insert", "reread"} => hPc'[d] = hPc[d]
    BY <1>1 DEF IInv, TypeOK
  <2> QED BY <1>2, <2>1, <2>2 DEF SingleInv, NoStray, client
<1>11. NoForgottenOrder'
  <2>1. stored # NoAttempt /\ stored.key = hKey[c]
    BY <1>2 DEF SingleInv, NoStray
  <2> QED BY <1>2, <1>3, <1>6, <2>1 DEF SingleInv, NoForgottenOrder, client, Placed
<1>12. PaidIsStored'
  <2>1. charged \subseteq Placed BY DEF IInv, TypeOK
  <2> QED BY <1>2, <1>6, <1>7, <1>8, <2>1 DEF SingleInv, PaidIsStored, client
<1> QED BY <1>9, <1>10, <1>11, <1>12 DEF SingleInv

LEMMA SingleBuys == ASSUME IInv, SingleInv, Buy(FirstWindow, FirstLicense) PROVE SingleInv'
<1> DEFINE w == FirstWindow
<1>1. /\ wPc[w] = "idle" /\ want' = [want EXCEPT ![w] = FirstLicense]
      /\ page' = [page EXCEPT ![w] = NoOrder]
      /\ UNCHANGED <<row, shown, charged>>
  BY DEF Buy
<1>2. Placed' = Placed /\ (\A k : Known(k)' = Known(k)) /\ (\A o : Fulfilled(o)' = Fulfilled(o))
  BY <1>1 DEF Placed, Known, Fulfilled
<1>3. CASE stored # NoAttempt /\ stored.order # NoOrder
  <2>1. /\ att' = [att EXCEPT ![w] = stored] /\ wPc' = [wPc EXCEPT ![w] = "check"]
        /\ UNCHANGED <<handlers, stored, usedKeys, cur>>
    BY <1>3 DEF Buy, Goto
  <2>2. Resumes'
    BY <1>1, <1>3, <2>1, MCAssumption DEF SingleInv, Resumes, IInv, TypeOK
  <2>3. (NoStray /\ NoForgottenOrder)'
    BY <1>1, <1>2, <2>1 DEF SingleInv, NoStray, NoForgottenOrder, handlers
  <2>4. PaidIsStored'
    BY <1>1, <1>2, <2>1, MCAssumption DEF SingleInv, PaidIsStored, IInv, TypeOK
  <2> QED BY <2>2, <2>3, <2>4 DEF SingleInv
<1>4. CASE ~(stored # NoAttempt /\ stored.order # NoOrder)
  <2>1. SendOrder(w, FirstLicense, stored)
    BY <1>4 DEF Buy
  <2>2. PICK c \in Calls, k \in Keys :
          /\ Reusable(stored, FirstLicense) => k = stored.key
          /\ stored' = [license |-> FirstLicense, key |-> k, order |-> NoOrder]
          /\ att' = [att EXCEPT ![w] = [license |-> FirstLicense, key |-> k, order |-> NoOrder]]
          /\ hPc' = [hPc EXCEPT ![c] = "read"]
          /\ hKey' = [hKey EXCEPT ![c] = k]
          /\ wPc' = [wPc EXCEPT ![w] = "create"]
    <3>1. w \in Windows /\ stored \in Attempt \cup {NoAttempt}
      BY StoredIsTyped, MCAssumption
    <3> QED BY <2>1, <3>1, Sends
  <2>3. stored # NoAttempt => stored.key = k
    BY <2>2 DEF Reusable, SingleInv, Resumes
  <2>4. /\ stored' # NoAttempt /\ stored'.license = FirstLicense /\ stored'.key = k
        /\ stored'.order = NoOrder
    BY <2>2, MCAssumption DEF CheckoutAssumption, Attempt
  <2>5. Resumes'
    BY <1>1, <2>2, <2>4, MCAssumption DEF SingleInv, Resumes, IInv, TypeOK
  <2>6. NoStray'
    <3> SUFFICES ASSUME NEW d \in Calls, hPc'[d] \in {"read", "insert", "reread"}
                 PROVE  Known(hKey[d])' # {} \/ stored'.key = hKey'[d]
      BY <2>4 DEF NoStray
    <3>1. CASE d = c
      BY <2>2, <2>4, <3>1 DEF IInv, TypeOK
    <3>2. CASE d # c
      <4>1. hKey'[d] = hKey[d] /\ hPc'[d] = hPc[d]
        BY <2>2, <3>2 DEF IInv, TypeOK
      <4>2. Known(hKey[d])' = Known(hKey[d])
        BY <1>1, <1>2, <4>1 DEF Known
      <4> QED BY <2>3, <2>4, <4>1, <4>2 DEF SingleInv, NoStray
    <3> QED BY <3>1, <3>2
  <2>7. NoForgottenOrder'
    BY <1>1, <1>2, <2>3, <2>4 DEF SingleInv, NoForgottenOrder
  <2>8. PaidIsStored'
    <3>1. \A o \in charged : o # NoOrder
      BY MCAssumption DEF IInv, TypeOK, Placed, CheckoutAssumption
    <3> QED BY <1>1, <1>2, <1>4, <3>1 DEF SingleInv, PaidIsStored
  <2> QED BY <2>5, <2>6, <2>7, <2>8 DEF SingleInv
<1> QED BY <1>3, <1>4

\* A step of the window in which no row, handler or request changes: what
\* remains to be said of it.
LEMMA SingleMoves ==
  ASSUME SingleInv, Resumes',
         UNCHANGED <<row, handlers>>,
         shown \subseteq shown',
         \A k \in Keys : stored # NoAttempt /\ stored.key = k =>
            \/ stored' # NoAttempt /\ stored'.key = k
            \/ Known(k) # {} /\ \A o \in Known(k) : o \in shown,
         PaidIsStored', hKey \in [Calls -> Keys], \A o \in Placed : row[o].key \in Keys
  PROVE  SingleInv'
<1>1. Placed' = Placed /\ \A k : Known(k)' = Known(k)
  BY DEF Placed, Known
<1>2. NoStray'
  <2> SUFFICES ASSUME NEW c \in Calls, hPc[c] \in {"read", "insert", "reread"}, Known(hKey[c]) = {}
               PROVE  stored' # NoAttempt /\ stored'.key = hKey[c]
    BY <1>1 DEF NoStray, Known, handlers
  <2> QED BY DEF SingleInv, NoStray
<1>3. NoForgottenOrder'
  <2> SUFFICES ASSUME NEW o \in Placed \ shown
               PROVE  stored' # NoAttempt /\ stored'.key = row[o].key
    BY <1>1 DEF NoForgottenOrder
  <2>1. o \in Known(row[o].key) BY DEF Known
  <2> QED BY <2>1 DEF SingleInv, NoForgottenOrder
<1> QED BY <1>2, <1>3 DEF SingleInv

LEMMA KeysAreTyped ==
  ASSUME IInv PROVE hKey \in [Calls -> Keys] /\ \A o \in Placed : row[o].key \in Keys
  BY DEF IInv, TypeOK, Placed, Row

\* An attempt is dropped: of its order the buyer has seen the invoice, and no
\* other is unpaid for.
LEMMA SingleForgets ==
  ASSUME IInv, SingleInv, stored # NoAttempt, stored.order \in shown,
         stored' = NoAttempt,
         wPc[FirstWindow] = "open" \/ Fulfilled(stored.order),
         wPc' \in {wPc, [wPc EXCEPT ![FirstWindow] = "idle"]}, wPc'[FirstWindow] = "idle",
         \A w \in Windows \ {FirstWindow} : page'[w] = page[w],
         UNCHANGED <<row, shown, charged, handlers, want>>
  PROVE  SingleInv'
<1>1. stored.order \in Orders /\ stored.order # NoOrder
  BY MCAssumption DEF IInv, TypeOK, Placed, CheckoutAssumption
<1>2. Resumes'
  BY MCAssumption DEF SingleInv, Resumes, IInv, TypeOK
<1>3. PaidIsStored'
  <2>1. \A o \in charged : Fulfilled(o)
    BY DEF SingleInv, PaidIsStored
  <2> QED BY <2>1 DEF SingleInv, PaidIsStored, Fulfilled, Placed
<1>4. Known(stored.key) # {} /\ \A o \in Known(stored.key) : o \in shown
  BY <1>1, NamedIsPlaced DEF Known
<1> QED BY <1>2, <1>3, <1>4, SingleMoves, KeysAreTyped

LEMMA SingleLeaves ==
  ASSUME IInv, SingleInv, Leave(FirstWindow),
         \A w \in Windows \ {FirstWindow} : page'[w] = page[w],
         UNCHANGED <<row, shown, charged, handlers, want, stored>>
  PROVE  SingleInv'
<1>1. Resumes'
  BY MCAssumption DEF SingleInv, Resumes, IInv, TypeOK, Leave, Goto
<1>2. PaidIsStored'
  BY MCAssumption DEF SingleInv, PaidIsStored, Fulfilled, Placed, Leave, Goto, IInv, TypeOK
<1> QED BY <1>1, <1>2, SingleMoves, KeysAreTyped

LEMMA SingleGoes ==
  ASSUME IInv, SingleInv, NEW pc \in Knowing, wPc[FirstWindow] \in Knowing,
         Goto(FirstWindow, pc), shown \subseteq shown',
         pc = "purchases" => Fulfilled(stored.order),
         charged' \in {charged, charged \cup {stored.order}},
         charged' # charged => pc = "poll",
         pc \in {"purchases", "invoice", "link", "open"} => \A o \in charged : Fulfilled(o),
         charged' \subseteq Orders,
         UNCHANGED <<row, handlers, stored, want, att, page>>
  PROVE  SingleInv'
<1>1. stored # NoAttempt /\ att[FirstWindow] = stored
  BY MCAssumption DEF SingleInv, Resumes, IInv, Waiting, Knowing
<1>2. Resumes'
  BY MCAssumption DEF SingleInv, Resumes, IInv, TypeOK, Goto, Knowing, Fulfilled
<1>3. wPc'[FirstWindow] = pc
  BY MCAssumption DEF IInv, TypeOK, Goto
<1>4. PaidIsStored'
  BY <1>1, <1>3 DEF SingleInv, PaidIsStored, Fulfilled, Placed, Knowing
<1> QED BY <1>2, <1>4, SingleMoves, KeysAreTyped

LEMMA SingleCreated == ASSUME IInv, SingleInv, Created(FirstWindow) PROVE SingleInv'
<1> DEFINE w == FirstWindow
           a == [att[w] EXCEPT !.order = hAnswer[cur[w]]]
<1>1. att[w] = stored /\ stored # NoAttempt /\ stored.order = NoOrder
  BY MCAssumption DEF Created, SingleInv, Resumes, IInv, Waiting
<1>2. stored \in Attempt
  BY <1>1 DEF IInv, TypeOK
<1>3. a \in Attempt /\ a.key = stored.key /\ a.license = stored.license
  <2>1. cur[w] \in Calls /\ hAnswer[cur[w]] \in Orders \cup {NoOrder}
    BY MCAssumption DEF Created, IInv, TypeOK, Waiting
  <2> QED BY <1>1, <1>2, <2>1 DEF Attempt
<1>4. a # NoAttempt
  BY <1>3, MCAssumption DEF CheckoutAssumption
<1>5. /\ att' = [att EXCEPT ![w] = a] /\ stored' = a
      /\ wPc' = [wPc EXCEPT ![w] = "invoice"]
      /\ UNCHANGED <<row, shown, charged, handlers, want, page>>
  BY DEF Created, Goto
<1> HIDE DEF a
<1>6. Resumes'
  BY <1>1, <1>3, <1>5, MCAssumption DEF SingleInv, Resumes, IInv, TypeOK, Created
<1>7. \A o \in charged : Fulfilled(o)
  <2>1. NoOrder \notin charged
    BY MCAssumption DEF IInv, TypeOK, Placed, CheckoutAssumption
  <2> QED BY <1>1, <2>1 DEF SingleInv, PaidIsStored
<1>8. PaidIsStored'
  BY <1>5, <1>7 DEF SingleInv, PaidIsStored, Fulfilled, Placed
<1> QED BY <1>3, <1>4, <1>5, <1>6, <1>8, SingleMoves, KeysAreTyped

LEMMA SingleSteps == ASSUME IInv, SingleInv, Checkout(FirstWindow) PROVE SingleInv'
<1> DEFINE w == FirstWindow
<1>1. CASE wPc[w] \in Knowing
  <2>1. att[w] = stored /\ stored # NoAttempt /\ stored.order # NoOrder
        /\ stored.license = FirstLicense /\ want[w] = FirstLicense /\ page[w] = NoOrder
    BY <1>1, MCAssumption DEF SingleInv, Resumes, IInv, Waiting, Knowing
  <2>2. stored.order \in Orders /\ charged \subseteq Orders
    BY <2>1, NamedIsPlaced DEF IInv, TypeOK, Placed
  <2>3. wPc[w] \in {"purchases", "invoice", "link", "open"} \/ Fulfilled(stored.order)
           => \A o \in charged : Fulfilled(o)
    BY <2>1 DEF SingleInv, PaidIsStored
  <2>4. ~Replace(w)
    BY <2>1 DEF Replace, Resume
  <2>5. CASE CheckedFulfilled(w) \/ CheckedPending(w) \/ InvoiceRead(w) \/ InvoiceOpens(w) \/ Pay(w)
    BY <2>1, <2>2, <2>3, <2>5, SingleGoes DEF CheckedFulfilled, CheckedPending, InvoiceRead,
       InvoiceOpens, Pay, Knowing
  <2>6. \A v \in Windows \ {w} : w \in Windows =>
          (page' = [page EXCEPT ![w] = att[w].order] => page'[v] = page[v])
    BY DEF IInv, TypeOK
  <2>7. CASE StillProcessing(w) \/ PollGivesUp(w)
    BY <2>6, <2>7, SingleLeaves, MCAssumption DEF StillProcessing, PollGivesUp
  <2>8. CASE FoundFulfilled(w) \/ NotPaid(w) \/ PollFinds(w)
    <3>1. Fulfilled(stored.order) => stored.order \in shown
      BY <2>1, NamedIsPlaced DEF SingleInv, PaidIsStored, IInv, TypeOK
    <3>2. wPc[w] = "purchases" => Fulfilled(stored.order)
      BY DEF SingleInv, Resumes
    <3>3. wPc[w] = "open" => stored.order \in shown
      BY <2>1, MCAssumption DEF IInv, Waiting
    <3>4. \A v \in Windows \ {w} : page'[v] = page[v]
      BY <2>6, <2>8, MCAssumption DEF FoundFulfilled, NotPaid, PollFinds
    <3>5. /\ wPc' = [wPc EXCEPT ![w] = "idle"] /\ wPc'[w] = "idle" /\ stored' = NoAttempt
          /\ UNCHANGED <<row, shown, charged, handlers, want>>
      BY <2>8, MCAssumption DEF FoundFulfilled, NotPaid, PollFinds, Leave, Goto, IInv, TypeOK
    <3>6. stored.order \in shown /\ (wPc[w] = "open" \/ Fulfilled(stored.order))
      BY <2>1, <2>8, <3>1, <3>2, <3>3 DEF FoundFulfilled, NotPaid, PollFinds
    <3> QED BY <2>1, <3>4, <3>5, <3>6, SingleForgets
  <2> QED BY <1>1, <2>4, <2>5, <2>7, <2>8 DEF Checkout, Created, Knowing
<1>2. CASE wPc[w] \notin Knowing
  BY <1>2, SingleCreated DEF Checkout, CheckedFulfilled, CheckedPending, StillProcessing,
     Replace, FoundFulfilled, InvoiceRead, InvoiceOpens, Pay, NotPaid, PollFinds,
     PollGivesUp, Knowing
<1> QED BY <1>1, <1>2

LEMMA SingleEnds ==
  ASSUME IInv, SingleInv, Fail(FirstWindow) \/ Reload(FirstWindow) PROVE SingleInv'
<1>1. \A v \in Windows \ {FirstWindow} : page'[v] = page[v]
  BY MCAssumption DEF Fail, Reload, IInv, TypeOK
<1> QED BY <1>1, SingleLeaves DEF Fail, Reload

LEMMA SingleConfirms ==
  ASSUME IInv, SingleInv, PageConfirms(FirstWindow) PROVE SingleInv'
<1>1. wPc[FirstWindow] = "idle"
  BY DEF PageConfirms, Polling, SingleInv, Resumes
<1>2. stored # NoAttempt /\ stored.order # NoOrder /\ Fulfilled(stored.order)
  BY DEF PageConfirms, Polling, HasPending
<1>3. stored.order \in shown
  BY <1>2, NamedIsPlaced DEF SingleInv, PaidIsStored, IInv, TypeOK
<1> QED BY <1>1, <1>2, <1>3, SingleForgets DEF PageConfirms

LEMMA SingleWebhook ==
  ASSUME IInv, SingleInv, NEW o \in Orders, Webhook(o) PROVE SingleInv'
<1>1. /\ row' = [row EXCEPT ![o].status = "fulfilled"] /\ o \in charged
      /\ UNCHANGED <<shown, charged, handlers, client>>
  BY DEF Webhook
<1>2. row[o] \in Row
  BY <1>1, MCAssumption DEF IInv, TypeOK, Placed, CheckoutAssumption
<1>3. /\ row'[o].status = "fulfilled" /\ row'[o].key = row[o].key
      /\ row'[o] # NoRow /\ row[o] # NoRow
      /\ \A p \in Orders : p # o => row'[p] = row[p]
  BY <1>1, <1>2, MCAssumption DEF IInv, TypeOK, Row, CheckoutAssumption
<1>4. Placed' = Placed /\ \A k : Known(k)' = Known(k)
  BY <1>3 DEF Placed, Known
<1>5. Fulfilled(o)' /\ \A p \in Placed : p # o => (Fulfilled(p)' <=> Fulfilled(p))
  BY <1>3 DEF Fulfilled, Placed
<1>6. Resumes'
  BY <1>1, <1>5, NamedIsPlaced, MCAssumption
     DEF SingleInv, Resumes, IInv, Waiting, Knowing, client
<1>7. NoStray'
  <2>1. \A c \in Calls : Known(hKey[c])' = Known(hKey[c])
    BY <1>1, <1>4 DEF Known, handlers
  <2> QED BY <1>1, <2>1 DEF SingleInv, NoStray, handlers, client
<1>8. NoForgottenOrder'
  BY <1>1, <1>3, <1>4 DEF SingleInv, NoForgottenOrder, Placed, client
<1>9. PaidIsStored'
  <2>1. charged \subseteq Placed BY DEF IInv, TypeOK
  <2> QED BY <1>1, <1>4, <1>5, <2>1 DEF SingleInv, PaidIsStored, client
<1> QED BY <1>6, <1>7, <1>8, <1>9 DEF SingleInv

LEMMA SingleKeeps ==
  ASSUME IInv, SingleInv, Buying({FirstWindow}, {FirstLicense}) PROVE SingleInv'
<1>1. ASSUME NEW c \in Calls, Handler(c) PROVE SingleInv'
  BY <1>1, SingleReads, SingleInserts DEF Handler
<1> QED BY <1>1, SingleBuys, SingleSteps, SingleEnds, SingleConfirms, SingleWebhook DEF Buying

LEMMA SingleInductive == MCSpec => [](part = "single" => SingleInv)
<1>1. MCInit => (part = "single" => SingleInv)
  BY SingleInitially DEF MCInit
<1>2. IInv /\ (part = "single" => SingleInv) /\ [MCNext]_<<vars, part>>
         => (part = "single" => SingleInv)'
  <2> SUFFICES ASSUME IInv, SingleInv, part = "single", [MCNext]_<<vars, part>>
               PROVE  SingleInv'
    BY DEF MCNext
  <2>1. CASE MCNext
    BY <2>1, SingleKeeps DEF MCNext
  <2>2. CASE UNCHANGED <<vars, part>>
    BY <2>2 DEF vars, handlers, client, SingleInv, Resumes, NoStray, NoForgottenOrder,
       PaidIsStored, Placed, Known, Fulfilled
  <2> QED BY <2>1, <2>2
<1> QED BY <1>1, <1>2, Inductive, PTL DEF MCSpec

\* Through lost answers, reloads and late webhooks, no invoice opens for a
\* license the buyer has paid for and not received yet (useCheckout).
THEOREM PaidOrdersAreNotOfferedAgain == MCSpec => []NoSecondInvoiceOpens
<1>1. IInv /\ (part = "single" => SingleInv) => NoSecondInvoiceOpens
  <2> SUFFICES ASSUME SingleInv, NEW w \in Windows, wPc[w] = "open", NEW o \in charged
               PROVE  Fulfilled(o)
    BY DEF NoSecondInvoiceOpens, NoSecondInvoice
  <2>1. w = FirstWindow BY DEF SingleInv, Resumes
  <2> QED BY <2>1 DEF SingleInv, PaidIsStored
<1> QED BY Inductive, SingleInductive, <1>1, PTL

\* A click whose order the buyer never got to see is taken up by the next one.
THEOREM OrdersAreTakenUp == MCSpec => []NoOrderIsForgotten
<1>1. (part = "single" => SingleInv) => NoOrderIsForgotten
  BY DEF NoOrderIsForgotten, SingleInv
<1> QED BY SingleInductive, <1>1, PTL

===============================================================================
