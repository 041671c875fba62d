-------------------------- MODULE CmsMailboxProofs --------------------------
(***************************************************************************)
(* For any number of threads, calls and attempts: what a call of the card  *)
(* management returns is its own, is in force, and is performed in turn.   *)
(***************************************************************************)
EXTENDS CmsMailbox, TLAPS

LEMMA TypeInit == Init => TypeOK
<1> SUFFICES ASSUME Init PROVE TypeOK
  OBVIOUS
<1>1. PICK v \in Value : Init!(v)
  BY DEF Init
<1>2. answer \in [Thread -> Reply] /\ response \in Reply /\ reg \in Value
  BY <1>1, CmsMailboxAssumption DEF Reply, CallId
<1>3. call \in [Thread -> Request] /\ request \in Request
  BY <1>1, CmsMailboxAssumption DEF Request, CallId
<1>4. /\ phase = "up" /\ owner = NoThread /\ pc \in [Thread -> PC]
      /\ attempt \in [Thread -> 1 .. MaxAttempts] /\ mailbox \in [Thread -> BOOLEAN]
  BY <1>1, CmsMailboxAssumption DEF PC
<1>5. 0 \in CallId
  BY CmsMailboxAssumption DEF CallId
<1>6. /\ busy \in BOOLEAN /\ reset \in BOOLEAN /\ error \in BOOLEAN
      /\ work = Nothing /\ finished \in BOOLEAN
      /\ calls \in CallId /\ performed \in CallId /\ culprit \in CallId
      /\ former \in CallId
  BY <1>1, <1>5
<1>7. QED
  BY <1>2, <1>3, <1>4, <1>6 DEF TypeOK

\* The type of every variable is kept by every step.
LEMMA TypeNext == TypeOK /\ [Next]_vars => TypeOK'
<1> SUFFICES ASSUME TypeOK, [Next]_vars PROVE TypeOK'
  OBVIOUS
<1> USE CmsMailboxAssumption DEF TypeOK, PC, Request, Reply, CallId, At, Goto,
        hostVars, cardVars
<1>1. ASSUME NEW t \in Thread, Call(t) PROVE TypeOK'
  BY <1>1 DEF Call
<1>2. ASSUME NEW t \in Thread, Lock(t) PROVE TypeOK'
  BY <1>2 DEF Lock
<1>3. ASSUME NEW t \in Thread, AwaitReady(t) PROVE TypeOK'
  BY <1>3 DEF AwaitReady
<1>4. ASSUME NEW t \in Thread, AwaitClear(t) PROVE TypeOK'
  BY <1>4 DEF AwaitClear
<1>5. ASSUME NEW t \in Thread, Post(t) PROVE TypeOK'
  BY <1>5 DEF Post
<1>6. ASSUME NEW t \in Thread, AwaitDone(t) PROVE TypeOK'
  BY <1>6 DEF AwaitDone
<1>7. ASSUME NEW t \in Thread, CheckError(t) PROVE TypeOK'
  <2>1. mailbox' \in [Thread -> BOOLEAN]
    BY <1>7 DEF CheckError
  <2>2. pc' \in [Thread -> PC]
    BY <1>7 DEF CheckError
  <2>3. attempt' \in [Thread -> 1 .. MaxAttempts]
    <3>1. attempt[t] < MaxAttempts => attempt[t] + 1 \in 1 .. MaxAttempts
      OBVIOUS
    <3>2. \/ attempt' = attempt
          \/ /\ attempt' = [attempt EXCEPT ![t] = @ + 1]
             /\ attempt[t] < MaxAttempts
      BY <1>7 DEF CheckError
    <3>3. QED
      BY <3>1, <3>2
  <2>4. QED
    BY <1>7, <2>1, <2>2, <2>3 DEF CheckError
<1>8. ASSUME NEW t \in Thread, CopyResponse(t) PROVE TypeOK'
  BY <1>8 DEF CopyResponse
<1>9. ASSUME NEW t \in Thread, Unlock(t) PROVE TypeOK'
  BY <1>9 DEF Unlock
<1>10. CASE Fetch
  BY <1>10 DEF Fetch, Runs
<1>11. CASE Perform
  BY <1>11 DEF Perform, Runs
<1>12. CASE Finish
  BY <1>12 DEF Finish, Runs
<1>13. CASE ClearError
  BY <1>13 DEF ClearError, Runs
<1>14. CASE Die
  BY <1>14 DEF Die
<1>15. CASE ResetAssert
  BY <1>15 DEF ResetAssert
<1>16. CASE ResetRelease
  BY <1>16 DEF ResetRelease
<1>17. CASE AwaitCard
  BY <1>17 DEF AwaitCard
<1>18. CASE UNCHANGED vars
  BY <1>18 DEF vars
<1>19. QED
  BY <1>1, <1>2, <1>3, <1>4, <1>5, <1>6, <1>7, <1>8, <1>9, <1>10, <1>11, <1>12, <1>13, <1>14, <1>15, <1>16, <1>17, <1>18
     DEF Next, Host, Firmware, Restart

\* The type invariant of the mailbox, the threads and the firmware.
THEOREM TypeCorrect == Spec => []TypeOK
<1>1. QED
  BY TypeInit, TypeNext, PTL DEF Spec

\* The mutex lets one thread in, and a restart throws it out.
LEMMA ExclusiveNext == MailboxInv /\ [Next]_vars => Exclusive'
<1> SUFFICES ASSUME MailboxInv, [Next]_vars PROVE Exclusive'
  OBVIOUS
<1> USE CmsMailboxAssumption DEF MailboxInv, TypeOK, PC, Request, Reply, CallId,
        At, Goto, hostVars, cardVars, Exclusive, Inside
<1>1. ASSUME NEW t \in Thread, Call(t) PROVE Exclusive'
  BY <1>1 DEF Call
<1>2. ASSUME NEW t \in Thread, Lock(t) PROVE Exclusive'
  <2>1. \A u \in Thread : ~Inside(u)
    BY <1>2 DEF Lock
  <2>2. \A u \in Thread : Inside(u)' <=> u = t
    BY <1>2, <2>1 DEF Lock
  <2>3. owner' = t /\ phase' = "up"
    BY <1>2 DEF Lock
  <2>4. call'[t].id = calls' /\ former' < calls'
    BY <1>2 DEF Lock, InOrder
  <2>5. QED
    BY <2>2, <2>3, <2>4
<1>3. ASSUME NEW t \in Thread, AwaitReady(t) PROVE Exclusive'
  BY <1>3 DEF AwaitReady
<1>4. ASSUME NEW t \in Thread, AwaitClear(t) PROVE Exclusive'
  BY <1>4 DEF AwaitClear
<1>5. ASSUME NEW t \in Thread, Post(t) PROVE Exclusive'
  BY <1>5 DEF Post
<1>6. ASSUME NEW t \in Thread, AwaitDone(t) PROVE Exclusive'
  BY <1>6 DEF AwaitDone
<1>7. ASSUME NEW t \in Thread, CheckError(t) PROVE Exclusive'
  BY <1>7 DEF CheckError
<1>8. ASSUME NEW t \in Thread, CopyResponse(t) PROVE Exclusive'
  BY <1>8 DEF CopyResponse
<1>9. ASSUME NEW t \in Thread, Unlock(t) PROVE Exclusive'
  BY <1>9 DEF Unlock
<1>10. CASE Fetch
  BY <1>10 DEF Fetch, Runs
<1>11. CASE Perform
  BY <1>11 DEF Perform, Runs
<1>12. CASE Finish
  BY <1>12 DEF Finish, Runs
<1>13. CASE ClearError
  BY <1>13 DEF ClearError, Runs
<1>14. CASE Die
  BY <1>14 DEF Die
<1>15. CASE ResetAssert
  BY <1>15 DEF ResetAssert
<1>16. CASE ResetRelease
  BY <1>16 DEF ResetRelease
<1>17. CASE AwaitCard
  BY <1>17 DEF AwaitCard
<1>18. CASE UNCHANGED vars
  BY <1>18 DEF vars
<1>19. QED
  BY <1>1, <1>2, <1>3, <1>4, <1>5, <1>6, <1>7, <1>8, <1>9, <1>10, <1>11, <1>12, <1>13, <1>14, <1>15, <1>16, <1>17, <1>18
     DEF Next, Host, Firmware, Restart

\* The mailbox never goes back to an older request.
LEMMA InOrderNext == MailboxInv /\ [Next]_vars => InOrder'
<1> SUFFICES ASSUME MailboxInv, [Next]_vars PROVE InOrder'
  OBVIOUS
<1> USE CmsMailboxAssumption DEF MailboxInv, TypeOK, PC, Request, Reply, CallId,
        At, Goto, hostVars, cardVars, InOrder, Exclusive, Inside, Exchange
<1>1. ASSUME NEW t \in Thread, Call(t) PROVE InOrder'
  BY <1>1 DEF Call
<1>2. ASSUME NEW t \in Thread, Lock(t) PROVE InOrder'
  BY <1>2 DEF Lock
<1>3. ASSUME NEW t \in Thread, AwaitReady(t) PROVE InOrder'
  BY <1>3 DEF AwaitReady
<1>4. ASSUME NEW t \in Thread, AwaitClear(t) PROVE InOrder'
  BY <1>4 DEF AwaitClear
<1>5. ASSUME NEW t \in Thread, Post(t) PROVE InOrder'
  BY <1>5 DEF Post
<1>6. ASSUME NEW t \in Thread, AwaitDone(t) PROVE InOrder'
  BY <1>6 DEF AwaitDone
<1>7. ASSUME NEW t \in Thread, CheckError(t) PROVE InOrder'
  BY <1>7 DEF CheckError
<1>8. ASSUME NEW t \in Thread, CopyResponse(t) PROVE InOrder'
  BY <1>8 DEF CopyResponse
<1>9. ASSUME NEW t \in Thread, Unlock(t) PROVE InOrder'
  BY <1>9 DEF Unlock
<1>10. CASE Fetch
  BY <1>10 DEF Fetch, Runs
<1>11. CASE Perform
  BY <1>11 DEF Perform, Runs
<1>12. CASE Finish
  BY <1>12 DEF Finish, Runs
<1>13. CASE ClearError
  BY <1>13 DEF ClearError, Runs
<1>14. CASE Die
  BY <1>14 DEF Die
<1>15. CASE ResetAssert
  BY <1>15 DEF ResetAssert
<1>16. CASE ResetRelease
  BY <1>16 DEF ResetRelease
<1>17. CASE AwaitCard
  BY <1>17 DEF AwaitCard
<1>18. CASE UNCHANGED vars
  BY <1>18 DEF vars
<1>19. QED
  BY <1>1, <1>2, <1>3, <1>4, <1>5, <1>6, <1>7, <1>8, <1>9, <1>10, <1>11, <1>12, <1>13, <1>14, <1>15, <1>16, <1>17, <1>18
     DEF Next, Host, Firmware, Restart

\* mailbox is a local variable of the call: NULL before it begins.
NoneOutside == \A t \in Thread : ~Inside(t) => ~mailbox[t]

LEMMA OutsideNext == MailboxInv /\ [Next]_vars => NoneOutside'
<1> SUFFICES ASSUME MailboxInv, [Next]_vars PROVE NoneOutside'
  OBVIOUS
<1> USE CmsMailboxAssumption DEF MailboxInv, TypeOK, PC, Request, Reply, CallId,
        At, Goto, hostVars, cardVars, Inside, Exclusive, Exchange, NoneOutside
<1>1. ASSUME NEW t \in Thread, Call(t) PROVE NoneOutside'
  BY <1>1 DEF Call
<1>2. ASSUME NEW t \in Thread, Lock(t) PROVE NoneOutside'
  BY <1>2 DEF Lock
<1>3. ASSUME NEW t \in Thread, AwaitReady(t) PROVE NoneOutside'
  BY <1>3 DEF AwaitReady
<1>4. ASSUME NEW t \in Thread, AwaitClear(t) PROVE NoneOutside'
  BY <1>4 DEF AwaitClear
<1>5. ASSUME NEW t \in Thread, Post(t) PROVE NoneOutside'
  BY <1>5 DEF Post
<1>6. ASSUME NEW t \in Thread, AwaitDone(t) PROVE NoneOutside'
  BY <1>6 DEF AwaitDone
<1>7. ASSUME NEW t \in Thread, CheckError(t) PROVE NoneOutside'
  BY <1>7 DEF CheckError
<1>8. ASSUME NEW t \in Thread, CopyResponse(t) PROVE NoneOutside'
  BY <1>8 DEF CopyResponse
<1>9. ASSUME NEW t \in Thread, Unlock(t) PROVE NoneOutside'
  BY <1>9 DEF Unlock
<1>10. CASE Fetch
  BY <1>10 DEF Fetch, Runs
<1>11. CASE Perform
  BY <1>11 DEF Perform, Runs
<1>12. CASE Finish
  BY <1>12 DEF Finish, Runs
<1>13. CASE ClearError
  BY <1>13 DEF ClearError, Runs
<1>14. CASE Die
  BY <1>14 DEF Die
<1>15. CASE ResetAssert
  BY <1>15 DEF ResetAssert
<1>16. CASE ResetRelease
  BY <1>16 DEF ResetRelease
<1>17. CASE AwaitCard
  BY <1>17 DEF AwaitCard
<1>18. CASE UNCHANGED vars
  BY <1>18 DEF vars
<1>19. QED
  BY <1>1, <1>2, <1>3, <1>4, <1>5, <1>6, <1>7, <1>8, <1>9, <1>10, <1>11, <1>12, <1>13, <1>14, <1>15, <1>16, <1>17, <1>18
     DEF Next, Host, Firmware, Restart

Exchanges == \A t \in Thread : Exchange(t)

\* Each step of an exchange finds what the steps before it left: nobody else
\* touches the mailbox, and the firmware is done with older requests.
LEMMA ExchangeNext == MailboxInv /\ [Next]_vars => Exchanges'
<1> SUFFICES ASSUME MailboxInv, [Next]_vars PROVE Exchanges'
  OBVIOUS
<1> USE CmsMailboxAssumption DEF MailboxInv, TypeOK, PC, Request, Reply, CallId,
        At, Goto, hostVars, cardVars, Exchange, Exchanges, Exclusive, InOrder, Inside, Done
<1>1. ASSUME NEW t \in Thread, Call(t) PROVE Exchanges'
  BY <1>1 DEF Call
<1>2. ASSUME NEW t \in Thread, Lock(t) PROVE Exchanges'
  BY <1>2 DEF Lock
<1>3. ASSUME NEW t \in Thread, AwaitReady(t) PROVE Exchanges'
  BY <1>3 DEF AwaitReady
<1>4. ASSUME NEW t \in Thread, AwaitClear(t) PROVE Exchanges'
  BY <1>4 DEF AwaitClear
<1>5. ASSUME NEW t \in Thread, Post(t) PROVE Exchanges'
  BY <1>5 DEF Post
<1>6. ASSUME NEW t \in Thread, AwaitDone(t) PROVE Exchanges'
  BY <1>6 DEF AwaitDone
<1>7. ASSUME NEW t \in Thread, CheckError(t) PROVE Exchanges'
  BY <1>7 DEF CheckError
<1>8. ASSUME NEW t \in Thread, CopyResponse(t) PROVE Exchanges'
  BY <1>8 DEF CopyResponse
<1>9. ASSUME NEW t \in Thread, Unlock(t) PROVE Exchanges'
  BY <1>9 DEF Unlock
<1>10. CASE Fetch
  BY <1>10 DEF Fetch, Runs
<1>11. CASE Perform
  BY <1>11 DEF Perform, Runs
<1>12. CASE Finish
  BY <1>12 DEF Finish, Runs
<1>13. CASE ClearError
  BY <1>13 DEF ClearError, Runs
<1>14. CASE Die
  BY <1>14 DEF Die
<1>15. CASE ResetAssert
  BY <1>15 DEF ResetAssert
<1>16. CASE ResetRelease
  BY <1>16 DEF ResetRelease
<1>17. CASE AwaitCard
  BY <1>17 DEF AwaitCard
<1>18. CASE UNCHANGED vars
  BY <1>18 DEF vars
<1>19. QED
  BY <1>1, <1>2, <1>3, <1>4, <1>5, <1>6, <1>7, <1>8, <1>9, <1>10, <1>11, <1>12, <1>13, <1>14, <1>15, <1>16, <1>17, <1>18
     DEF Next, Host, Firmware, Restart

\* What the threads, the mailbox and the firmware maintain together.
THEOREM MailboxInvariant == Spec => []MailboxInv
<1>1. Init => MailboxInv
  <2> SUFFICES ASSUME Init PROVE MailboxInv
    OBVIOUS
  <2>1. PICK v \in Value : Init!(v)
    BY DEF Init
  <2>2. TypeOK
    BY TypeInit
  <2>3. \A t \in Thread : ~Inside(t) /\ ~mailbox[t] /\ owner # t
    BY <2>1, CmsMailboxAssumption DEF Inside
  <2>4. Exclusive
    BY <2>1, <2>3 DEF Exclusive
  <2>5. InOrder
    BY <2>1 DEF InOrder
  <2>6. \A t \in Thread : Exchange(t)
    BY <2>3 DEF Exchange, Inside
  <2>7. QED
    BY <2>2, <2>3, <2>4, <2>5, <2>6 DEF MailboxInv
<1>2. MailboxInv /\ [Next]_vars => MailboxInv'
  <2> SUFFICES ASSUME MailboxInv, [Next]_vars PROVE MailboxInv'
    OBVIOUS
  <2>1. TypeOK'
    BY TypeNext DEF MailboxInv
  <2>2. QED
    BY <2>1, ExclusiveNext, InOrderNext, OutsideNext, ExchangeNext
       DEF MailboxInv, NoneOutside, Exchanges
<1>3. QED
  BY <1>1, <1>2, PTL DEF Spec

\* cms_mailbox_post judges its own request: the error it reads is of this call,
\* and a mailbox it returns holds the response to it.
THEOREM VerdictsAreOwn == Spec => []VerdictIsOwn
<1>1. MailboxInv => VerdictIsOwn
  <2> SUFFICES ASSUME MailboxInv, NEW t \in Thread
               PROVE  /\ pc[t] = "check" /\ mailbox[t] /\ error =>
                           culprit = call[t].id
                      /\ pc[t] = "copy" =>
                           /\ performed = call[t].id
                           /\ call[t].op = Read => response.id = call[t].id
    BY DEF VerdictIsOwn
  <2>1. Exchange(t)
    BY DEF MailboxInv
  <2>2. pc[t] = "copy" => Done(t)
    BY <2>1 DEF Exchange
  <2>3. Done(t) /\ call[t].op = Read => response.id = call[t].id
    BY DEF Done
  <2>4. QED
    BY <2>1, <2>2, <2>3 DEF Exchange, Done
<1>2. QED
  BY <1>1, MailboxInvariant, PTL

\* A call that returns true has written what is in force or read it.
THEOREM SuccessHolds == Spec => []SuccessIsInForce
<1>1. MailboxInv => SuccessIsInForce
  BY DEF MailboxInv, Exchange, Done, SuccessIsInForce
<1>2. QED
  BY <1>1, MailboxInvariant, PTL

\* After cms_reset no request of a former run of the agent is performed.
THEOREM DeadRequestsAreGone == Spec => []WorksForTheLiving
<1>1. MailboxInv => WorksForTheLiving
  BY DEF MailboxInv, InOrder, WorksForTheLiving
<1>2. QED
  BY <1>1, MailboxInvariant, PTL

\* The effects of calls come in the order in which the calls had the mutex.
THEOREM EffectsInOrder == Spec => PerformedInOrder
<1>1. MailboxInv /\ [Next]_vars => performed' >= performed
  <2> SUFFICES ASSUME MailboxInv, [Next]_vars PROVE performed' >= performed
    OBVIOUS
  <2>1. performed \in Nat
    BY CmsMailboxAssumption DEF MailboxInv, TypeOK, CallId
  <2>2. CASE Perform
    BY <2>1, <2>2, CmsMailboxAssumption
       DEF Perform, MailboxInv, InOrder, TypeOK, Request, CallId
  <2>3. CASE ~Perform
    <3>1. performed' = performed
      BY <2>3 DEF Next, Host, Firmware, Restart, vars, cardVars, Call, Lock,
         AwaitReady, AwaitClear, Post, AwaitDone, CheckError, CopyResponse,
         Unlock, Fetch, Finish, ClearError, Die, ResetAssert, ResetRelease,
         AwaitCard
    <3>2. QED
      BY <2>1, <3>1
  <2>4. QED
    BY <2>2, <2>3
<1>2. QED
  BY <1>1, MailboxInvariant, PTL DEF Spec, PerformedInOrder

=============================================================================
