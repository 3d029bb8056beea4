------------------------------- MODULE LoginProofs -------------------------------
(***************************************************************************)
(* Proofs about Login, for any windows and tokens, any ages, and clocks    *)
(* that are any distance apart.                                            *)
(*                                                                         *)
(* A login that waits has passed the check no longer than Delay ago        *)
(* (Waits), and a token that nobody was given has no session (Fresh).  So  *)
(* a session ends a wait and its own length after its initData became too  *)
(* old (Issued).  A window was signed when it was opened, give or take the *)
(* drift of the clocks (Signed), and is refused for its age only (Denied). *)
(***************************************************************************)
EXTENDS Login, TLAPS

Waits ==
    \A t \in Tokens : begun[t] # 0 =>
        /\ begun[t] <= now
        /\ now <= begun[t] + Delay
        /\ \A w \in owner[t] : begun[t] <= signed[w] + MaxAge

Fresh == \A t \in Tokens : owner[t] = {} \/ begun[t] # 0 => expires[t] = 0

Owned == \A t \in Tokens : begun[t] # 0 => owner[t] # {}

Issued ==
    \A t \in Tokens : \A w \in owner[t] :
        /\ flaw[w] = "none"
        /\ signed[w] # 0
        /\ expires[t] <= signed[w] + MaxAge + Delay + TTL

Signed ==
    \A w \in Windows : signed[w] # 0 =>
        /\ since[w] <= now
        /\ signed[w] <= since[w] + Drift
        /\ since[w] <= signed[w] + Drift

Denied == \A w \in refused : signed[w] # 0 /\ ~Accepted(w)

LetIn == \A t \in served : now <= expires[t]

IInv ==
    /\ TypeOK /\ now > Drift
    /\ Waits /\ Fresh /\ Owned /\ Issued
    /\ Signed /\ Denied /\ LetIn

LEMMA Initially == ASSUME LoginAssumption, Init PROVE IInv
  BY DEF LoginAssumption, Init, IInv, TypeOK, Waits, Fresh, Owned, Issued, Signed, Denied, LetIn

-------------------------------------------------------------------------------
LEMMA TickKeeps == ASSUME LoginAssumption, IInv, Tick PROVE IInv'
<1> USE DEF LoginAssumption, IInv, TypeOK, Tick, keys
<1>1. TypeOK' /\ now' > Drift OBVIOUS
<1>2. Waits' /\ Fresh' /\ Owned' /\ Issued' BY DEF Waits, Fresh, Owned, Issued
<1>3. Signed' BY DEF Signed
<1>4. Denied' /\ LetIn' BY DEF Denied, LetIn
<1> QED BY <1>1, <1>2, <1>3, <1>4

\* A window is opened once: no token and no refusal is for initData still to
\* come.
LEMMA OpenKeeps ==
  ASSUME LoginAssumption, IInv, NEW w \in Windows, Open(w) PROVE IInv'
<1>1. PICK d \in (-Drift)..Drift : signed' = [signed EXCEPT ![w] = now + d]
  BY DEF Open
<1>2. PICK f \in Flaws \cup {"none"} : flaw' = [flaw EXCEPT ![w] = f]
  BY DEF Open
<1>3. now + d \in Nat /\ now + d <= now + Drift /\ now <= now + d + Drift
  BY <1>1 DEF LoginAssumption, IInv, TypeOK
<1>4. TypeOK' /\ now' > Drift
  BY <1>1, <1>2, <1>3 DEF IInv, TypeOK, Open, keys
<1>5. \A v \in Windows : v # w => signed'[v] = signed[v] /\ flaw'[v] = flaw[v]
  BY <1>1, <1>2 DEF IInv, TypeOK
<1>6. Waits' /\ Fresh' /\ Owned' /\ Issued'
  BY <1>5 DEF IInv, TypeOK, Waits, Fresh, Owned, Issued, Open, keys
<1>7. Signed'
  BY <1>1, <1>3, <1>5 DEF IInv, TypeOK, Signed, Open, keys
<1>8. Denied' /\ LetIn'
  BY <1>5 DEF IInv, TypeOK, Denied, Accepted, LetIn, Open, keys
<1> QED BY <1>4, <1>6, <1>7, <1>8 DEF IInv

\* A login that starts has initData that is not too old, and a token without a
\* session.
LEMMA LogInKeeps ==
  ASSUME LoginAssumption, IInv, NEW w \in Windows, LogIn(w) PROVE IInv'
<1>1. PICK t \in Tokens :
        /\ owner[t] = {}
        /\ begun' = [begun EXCEPT ![t] = now]
        /\ owner' = [owner EXCEPT ![t] = {w}]
  BY DEF LogIn
<1>2. /\ flaw[w] = "none" /\ signed[w] # 0 /\ now <= signed[w] + MaxAge
      /\ expires[t] = 0
  BY <1>1 DEF LogIn, Accepted, LoginAssumption, IInv, TypeOK, Fresh
<1>3. TypeOK' /\ now' > Drift
  BY <1>1 DEF LoginAssumption, IInv, TypeOK, LogIn
<1>4. begun'[t] = now /\ owner'[t] = {w}
  BY <1>1 DEF IInv, TypeOK
<1>5. \A k \in Tokens : k # t => begun'[k] = begun[k] /\ owner'[k] = owner[k]
  BY <1>1 DEF IInv, TypeOK
<1>6. Waits'
  BY <1>2, <1>4, <1>5 DEF LoginAssumption, IInv, TypeOK, Waits, LogIn
<1>7. Fresh' /\ Owned'
  BY <1>2, <1>4, <1>5 DEF IInv, Fresh, Owned, LogIn
<1>8. Issued'
  BY <1>2, <1>4, <1>5 DEF LoginAssumption, IInv, TypeOK, Issued, LogIn
<1>9. Signed' /\ Denied' /\ LetIn'
  BY DEF IInv, Signed, Denied, Accepted, LetIn, LogIn
<1> QED BY <1>3, <1>6, <1>7, <1>8, <1>9 DEF IInv

\* The key is set no earlier than the check and no later than the answer.
LEMMA IssueKeeps ==
  ASSUME LoginAssumption, IInv, NEW t \in Tokens, Issue(t) PROVE IInv'
<1>1. PICK set \in begun[t]..now : expires' = [expires EXCEPT ![t] = set + TTL]
  BY DEF Issue
<1>2. set \in Nat /\ set <= now /\ now <= begun[t] + Delay
  BY <1>1 DEF IInv, TypeOK, Waits, Issue
<1>3. expires'[t] = set + TTL /\ begun'[t] = 0
  BY <1>1 DEF IInv, TypeOK, Issue
<1>4. \A k \in Tokens : k # t => expires'[k] = expires[k] /\ begun'[k] = begun[k]
  BY <1>1 DEF IInv, TypeOK, Issue
<1>5. TypeOK' /\ now' > Drift
  BY <1>1, <1>2 DEF LoginAssumption, IInv, TypeOK, Issue
<1>6. Waits'
  BY <1>3, <1>4 DEF IInv, Waits, Issue
<1>7. Fresh' /\ Owned'
  <2>1. owner[t] # {}
    BY DEF IInv, Owned, Issue
  <2> QED BY <2>1, <1>3, <1>4 DEF IInv, Fresh, Owned, Issue
<1>8. Issued'
  <2> SUFFICES ASSUME NEW k \in Tokens, NEW w \in owner[k]
               PROVE  /\ flaw[w] = "none" /\ signed[w] # 0
                      /\ expires'[k] <= signed[w] + MaxAge + Delay + TTL
    BY DEF Issued, Issue
  <2>1. w \in Windows /\ signed[w] \in Nat /\ begun[t] \in Nat
    BY DEF IInv, TypeOK
  <2>2. CASE k = t
    <3>1. begun[t] <= signed[w] + MaxAge
      BY <2>2 DEF IInv, Waits, Issue
    <3> QED BY <1>2, <1>3, <2>1, <2>2, <3>1 DEF LoginAssumption, IInv, TypeOK, Issued
  <2>3. CASE k # t
    BY <1>4, <2>3 DEF IInv, Issued
  <2> QED BY <2>2, <2>3
<1>9. Signed' /\ Denied'
  BY DEF IInv, Signed, Denied, Accepted, Issue
<1>10. LetIn'
  <2>1. t \notin served
    BY DEF LoginAssumption, IInv, TypeOK, Fresh, LetIn, Issue
  <2> QED BY <2>1, <1>4 DEF IInv, TypeOK, LetIn, Issue
<1> QED BY <1>5, <1>6, <1>7, <1>8, <1>9, <1>10 DEF IInv

LEMMA LoginFailsKeeps ==
  ASSUME LoginAssumption, IInv, NEW t \in Tokens, LoginFails(t) PROVE IInv'
<1> USE DEF LoginAssumption, IInv, TypeOK, LoginFails
<1>1. TypeOK' /\ now' > Drift OBVIOUS
<1>2. Waits' BY DEF Waits
<1>3. Fresh' /\ Owned' BY DEF Fresh, Owned
<1>4. Issued' BY DEF Issued
<1>5. Signed' /\ Denied' /\ LetIn' BY DEF Signed, Denied, Accepted, LetIn
<1> QED BY <1>1, <1>2, <1>3, <1>4, <1>5

LEMMA RefuseKeeps ==
  ASSUME LoginAssumption, IInv, NEW w \in Windows, Refuse(w) PROVE IInv'
  BY DEF IInv, TypeOK, keys, Waits, Fresh, Owned, Issued, Signed, Denied, Accepted,
     LetIn, Refuse

LEMMA RequestKeeps ==
  ASSUME LoginAssumption, IInv, NEW t \in Tokens, Request(t) PROVE IInv'
<1>1. now <= expires[t]
  BY DEF IInv, TypeOK, Request, Present
<1> QED BY <1>1 DEF IInv, TypeOK, keys, Waits, Fresh, Owned, Issued, Signed, Denied, Accepted,
     LetIn, Request

LEMMA TurnedKeeps ==
  ASSUME LoginAssumption, IInv, NEW t \in Tokens, Turned(t) PROVE IInv'
  BY DEF IInv, TypeOK, keys, Waits, Fresh, Owned, Issued, Signed, Denied, Accepted,
     LetIn, Turned

LEMMA LogoutKeeps ==
  ASSUME LoginAssumption, IInv, NEW t \in Tokens, Logout(t) PROVE IInv'
<1> USE DEF LoginAssumption, IInv, TypeOK, Logout
<1>1. TypeOK' /\ now' > Drift OBVIOUS
<1>2. Waits' /\ Fresh' /\ Owned' /\ Issued' BY DEF Waits, Fresh, Owned, Issued
<1>3. Signed' /\ Denied' BY DEF Signed, Denied, Accepted
<1>4. LetIn' BY DEF LetIn
<1> QED BY <1>1, <1>2, <1>3, <1>4

LEMMA StepKeeps == ASSUME LoginAssumption, IInv, [Next]_vars PROVE IInv'
<1>1. CASE UNCHANGED vars
  BY <1>1 DEF vars, keys, IInv, TypeOK, Waits, Fresh, Owned, Issued, Signed, Denied,
     Accepted, LetIn
<1>2. CASE Next
  BY <1>2, TickKeeps, OpenKeeps, LogInKeeps, IssueKeeps, LoginFailsKeeps, RefuseKeeps,
     RequestKeeps, TurnedKeeps, LogoutKeeps DEF Next
<1> QED BY <1>1, <1>2

LEMMA Invariance == ASSUME LoginAssumption PROVE Spec => []IInv
<1>1. Init => IInv BY Initially
<1>2. IInv /\ [Next]_vars => IInv' BY StepKeeps
<1> QED BY <1>1, <1>2, PTL DEF Spec

-------------------------------------------------------------------------------
\* Every variable of a login holds a value the code can give it.
THEOREM TypeCorrect == ASSUME LoginAssumption PROVE Spec => []TypeOK
<1>1. IInv => TypeOK BY DEF IInv
<1> QED BY Invariance, <1>1, PTL

\* Whoever renews a token with the same initData is let in no longer than
\* MaxAge, a login's wait for database and store, and a session after it was
\* signed (validateTelegramInitData, the session's key).
THEOREM LoginsEnd == ASSUME LoginAssumption PROVE Spec => []AccessEnds
<1>1. ASSUME LoginAssumption, IInv PROVE AccessEnds
  BY <1>1 DEF LoginAssumption, IInv, TypeOK, Issued, LetIn, AccessEnds
<1> QED BY Invariance, <1>1, PTL

\* As long as the clocks differ by no more than the tolerated skew, only
\* initData that is old is refused (validateTelegramInitData).
THEOREM FreshIsAccepted == ASSUME LoginAssumption PROVE Spec => []RefusedOnlyWhenOld
<1>1. ASSUME LoginAssumption, IInv PROVE RefusedOnlyWhenOld
  <2> SUFFICES ASSUME NEW w \in refused, flaw[w] = "none", Drift <= Skew
               PROVE  now - since[w] > MaxAge - Drift
    BY DEF RefusedOnlyWhenOld
  <2>1. w \in Windows /\ signed[w] # 0 /\ ~Accepted(w)
    BY <1>1 DEF IInv, TypeOK, Denied
  <2>2. /\ signed[w] <= since[w] + Drift
        /\ since[w] <= signed[w] + Drift
        /\ since[w] <= now
    BY <1>1, <2>1 DEF IInv, Signed
  <2>3. now - signed[w] > MaxAge
    BY <1>1, <2>1, <2>2 DEF Accepted, LoginAssumption, IInv, TypeOK
  <2> QED BY <1>1, <2>1, <2>2, <2>3 DEF LoginAssumption, IInv, TypeOK
<1> QED BY Invariance, <1>1, PTL
===============================================================================
