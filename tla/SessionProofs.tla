---------------------------- MODULE SessionProofs ----------------------------
(***************************************************************************)
(* Proofs about module Session, for any number of tabs and tokens: a token *)
(* whose refusal sends a tab to the login page is not in the jar when it   *)
(* gets there, and one that has left the jar does not return to it.        *)
(*                                                                         *)
(* The property alone is not inductive: a login that is under way could    *)
(* bring the refused token back. It cannot because a token is in one       *)
(* login's answer at most, and goes into the jar once: those in answers    *)
(* have never been in the jar, those in calls and refusals have.           *)
(***************************************************************************)
EXTENDS Session, TLAPS

\* A token in a login's answer was issued for it alone and is new to the jar.
AnswersAreNew ==
  /\ \A t \in Tab : sign[t] \in Token => sign[t] \in issued \ used
  /\ \A t, u \in Tab : t # u /\ sign[t] \in Token => sign[t] # sign[u]

\* Everything else that names a token had it from the jar.
FromTheJar ==
  /\ jar \in used \cup {None}
  /\ \A t \in Tab : get[t] # None => get[t].token \in used \cup {None}
  /\ \A t \in Tab : refused[t] \in used \cup {None}

IInv == TypeOK /\ AnswersAreNew /\ FromTheJar /\ RefusedIsGone

Induction == AnswersAreNew /\ FromTheJar /\ RefusedIsGone

LEMMA InitHolds == Init => IInv
BY SessionAssumption
   DEF Init, IInv, TypeOK, Place, AnswersAreNew, FromTheJar, RefusedIsGone, Asked

LEMMA TypePreserved == IInv /\ [Next]_vars => TypeOK'
<1> SUFFICES ASSUME TypeOK, AnswersAreNew, [Next]_vars
             PROVE  TypeOK'
  BY DEF IInv
<1> USE SessionAssumption DEF TypeOK, AnswersAreNew, Place, Call, Admitted
<1>1. ASSUME NEW t \in Tab, Submit(t) PROVE TypeOK' BY <1>1 DEF Submit
<1>2. ASSUME NEW t \in Tab, NEW k \in Token, Issue(t, k) PROVE TypeOK' BY <1>2 DEF Issue
<1>3. ASSUME NEW t \in Tab, Reject(t) PROVE TypeOK' BY <1>3 DEF Reject
<1>4. ASSUME NEW t \in Tab, SignedIn(t) PROVE TypeOK' BY <1>4 DEF SignedIn
<1>5. ASSUME NEW t \in Tab, Enter(t) PROVE TypeOK' BY <1>5 DEF Enter
<1>6. ASSUME NEW t \in Tab, Follow(t) PROVE TypeOK' BY <1>6 DEF Follow
<1>7. ASSUME NEW t \in Tab, Arrive(t) PROVE TypeOK' BY <1>7 DEF Arrive, Load
<1>8. ASSUME NEW t \in Tab, Reload(t) PROVE TypeOK' BY <1>8 DEF Reload, Load
<1>9. ASSUME NEW t \in Tab, Send(t) PROVE TypeOK' BY <1>9 DEF Send
<1>10. ASSUME NEW t \in Tab, Decide(t) PROVE TypeOK' BY <1>10 DEF Decide
<1>11. ASSUME NEW t \in Tab, Receive(t) PROVE TypeOK' BY <1>11 DEF Receive
<1>12. ASSUME NEW t \in Tab, Refused(t) PROVE TypeOK' BY <1>12 DEF Refused
<1>13. ASSUME NEW t \in Tab, Lose(t) PROVE TypeOK' BY <1>13 DEF Lose
<1>14. ASSUME NEW t \in Tab, Logout(t) PROVE TypeOK' BY <1>14 DEF Logout
<1>15. ASSUME NEW t \in Tab, LoggedOut(t) PROVE TypeOK' BY <1>15 DEF LoggedOut
<1>16. ASSUME NEW t \in Tab, LogoutFails(t) PROVE TypeOK' BY <1>16 DEF LogoutFails
<1>17. ASSUME NEW k \in Token, End(k) PROVE TypeOK' BY <1>17 DEF End
<1>18. CASE Lapse BY <1>18 DEF Lapse
<1>19. CASE UNCHANGED vars BY <1>19 DEF vars
<1>20. QED
  BY <1>1, <1>2, <1>3, <1>4, <1>5, <1>6, <1>7, <1>8, <1>9, <1>10, <1>11, <1>12, <1>13, <1>14, <1>15, <1>16, <1>17, <1>18, <1>19 DEF Next

LEMMA InductionPreserved == IInv /\ [Next]_vars => Induction'
<1> SUFFICES ASSUME IInv, [Next]_vars
             PROVE  Induction'
  OBVIOUS
<1> USE SessionAssumption
    DEF IInv, TypeOK, Place, Call, Admitted, Induction, AnswersAreNew, FromTheJar, RefusedIsGone
<1>1. ASSUME NEW t \in Tab, Submit(t) PROVE Induction' BY <1>1 DEF Submit
<1>2. ASSUME NEW t \in Tab, NEW k \in Token, Issue(t, k) PROVE Induction' BY <1>2 DEF Issue
<1>3. ASSUME NEW t \in Tab, Reject(t) PROVE Induction' BY <1>3 DEF Reject
<1>4. ASSUME NEW t \in Tab, SignedIn(t) PROVE Induction' BY <1>4 DEF SignedIn
<1>5. ASSUME NEW t \in Tab, Enter(t) PROVE Induction' BY <1>5 DEF Enter
<1>6. ASSUME NEW t \in Tab, Follow(t) PROVE Induction' BY <1>6 DEF Follow
<1>7. ASSUME NEW t \in Tab, Arrive(t) PROVE Induction' BY <1>7 DEF Arrive, Load
<1>8. ASSUME NEW t \in Tab, Reload(t) PROVE Induction' BY <1>8 DEF Reload, Load
<1>9. ASSUME NEW t \in Tab, Send(t) PROVE Induction' BY <1>9 DEF Send
<1>10. ASSUME NEW t \in Tab, Decide(t) PROVE Induction' BY <1>10 DEF Decide
<1>11. ASSUME NEW t \in Tab, Receive(t) PROVE Induction' BY <1>11 DEF Receive
<1>12. ASSUME NEW t \in Tab, Refused(t) PROVE Induction' BY <1>12 DEF Refused
<1>13. ASSUME NEW t \in Tab, Lose(t) PROVE Induction' BY <1>13 DEF Lose
<1>14. ASSUME NEW t \in Tab, Logout(t) PROVE Induction' BY <1>14 DEF Logout
<1>15. ASSUME NEW t \in Tab, LoggedOut(t) PROVE Induction' BY <1>15 DEF LoggedOut
<1>16. ASSUME NEW t \in Tab, LogoutFails(t) PROVE Induction' BY <1>16 DEF LogoutFails
<1>17. ASSUME NEW k \in Token, End(k) PROVE Induction' BY <1>17 DEF End
<1>18. CASE Lapse BY <1>18 DEF Lapse
<1>19. CASE UNCHANGED vars BY <1>19 DEF vars
<1>20. QED
  BY <1>1, <1>2, <1>3, <1>4, <1>5, <1>6, <1>7, <1>8, <1>9, <1>10, <1>11, <1>12, <1>13, <1>14, <1>15, <1>16, <1>17, <1>18, <1>19 DEF Next

LEMMA Invariant == Spec => []IInv
<1>1. IInv /\ [Next]_vars => IInv'
  BY TypePreserved, InductionPreserved DEF IInv, Induction
<1>2. QED
  BY InitHolds, <1>1, PTL DEF Spec

\* Types: the cookie, the calls and the tabs keep the shapes that the routes
\* and the form give them.
THEOREM TypeCorrect == Spec => []TypeOK
<1>1. IInv => TypeOK
  BY DEF IInv
<1>2. QED
  BY Invariant, <1>1, PTL

\* A refused token does not come back into the jar: the route's 401 handling
\* clears the cookie for good, whatever the other tabs are doing.
THEOREM RefusedStaysGone == Spec => []RefusedIsGone
<1>1. IInv => RefusedIsGone
  BY DEF IInv
<1>2. QED
  BY Invariant, <1>1, PTL

\* Only a login's answer puts a token into the jar.
LEMMA JarTakesNewTokens ==
  ASSUME IInv, [Next]_vars, jar' # jar
  PROVE  jar' \notin used
<1> USE SessionAssumption DEF IInv, TypeOK, AnswersAreNew
<1>1. ASSUME NEW t \in Tab, SignedIn(t) PROVE jar' \notin used
  BY <1>1 DEF SignedIn
<1>2. ASSUME NEW t \in Tab, Refused(t) \/ LoggedOut(t) PROVE jar' = None
  BY <1>2 DEF Refused, LoggedOut
<1>3. CASE Lapse
  BY <1>3 DEF Lapse
<1>4. None \notin used
  OBVIOUS
<1>5. QED
  BY <1>1, <1>2, <1>3, <1>4
  DEF Next, Submit, Issue, Reject, Enter, Follow, Arrive, Reload, Load, Send, Decide, Receive, Lose,
      Logout, LogoutFails, End, vars

\* No call that outlives a logout, a refusal or another login brings the old
\* session back.
THEOREM SignOutStaysFinal == Spec => SignOutIsFinal
<1>1. IInv /\ [Next]_vars => [jar' # jar => jar' \notin used]_vars
  BY JarTakesNewTokens
<1>2. QED
  BY Invariant, <1>1, PTL DEF Spec, SignOutIsFinal

=============================================================================
