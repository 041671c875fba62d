----------------------------- MODULE CmsMailbox -----------------------------
(***************************************************************************)
(* The mailbox of the card management subsystem (libopennic/src/cms.c).    *)
(*                                                                         *)
(* Threads of the agent (the RPCs on modules and on the card) hand         *)
(* requests to the firmware of the card's microblaze and poll for the      *)
(* answer, each with the mutex of the cms held.  A poll of a bit gives up  *)
(* after 20 reads over two seconds; the firmware may be slower than that,  *)
(* or stuck.  A request that fails is posted again, so the firmware may    *)
(* perform it more than once, and after the caller has given up.           *)
(*                                                                         *)
(* The requests are abstracted to reads and writes of one register of a    *)
(* module: its GPIO lines, or a byte of its memory.                        *)
(***************************************************************************)
EXTENDS Naturals

CONSTANTS
  Thread,       \* the threads of the agent
  NoThread,     \* the mutex is free
  Value,        \* what the register of the module may hold
  Read,         \* the operation that is not a write of a value
  Nothing,      \* the firmware works on no request
  MaxAttempts,  \* MAX_ATTEMPTS of cms_mailbox_post
  MaxCalls      \* bounds the calls of a behaviour

ASSUME CmsMailboxAssumption ==
  /\ NoThread \notin Thread
  /\ Value # {} /\ Read \notin Value
  /\ MaxAttempts \in Nat \ {0}
  /\ MaxCalls \in Nat

\* The number of a call is that of its turn on the mutex.
CallId  == 0 .. MaxCalls
Request == [id : CallId, op : Value \cup {Read}]
Reply   == [id : CallId, value : Value]

ASSUME NothingAssumption == Nothing \notin Request

VARIABLES
  phase,     \* of the agent: "up", or where it is in a restart
  owner,     \* who holds the mutex of the cms
  pc,        \* pc[t]: where thread t is
  call,      \* call[t]: the request of t's call
  attempt,   \* attempt[t]: the attempt of cms_mailbox_post it is at
  mailbox,   \* mailbox[t]: is t's local variable other than NULL?
  answer,    \* answer[t]: what t copied from the response
  busy,      \* control.mailbox_msg_status
  reset,     \* control.reset_error_reg
  error,     \* does the error register show an error?
  request,   \* the mailbox memory: the request
  response,  \* and the response
  work,      \* the request the firmware works on
  finished,  \* has it performed that request?
  reg,       \* the register of the module
  \* History, read by no action:
  calls,     \* the calls that had the mutex so far
  performed, \* the call the firmware performed last
  culprit,   \* the call whose error the register shows
  former     \* the calls of former runs of the agent

hostVars == <<owner, pc, call, attempt, mailbox, answer>>
cardVars == <<error, response, work, finished, reg, performed, culprit>>
vars == <<phase, hostVars, busy, reset, request, cardVars, calls, former>>

PC == {"idle", "lock", "ready", "clear", "post", "wait", "check", "copy",
       "unlock"}

TypeOK ==
  /\ phase \in {"up", "down", "reset", "boot"}
  /\ owner \in Thread \cup {NoThread}
  /\ pc \in [Thread -> PC]
  /\ call \in [Thread -> Request]
  /\ attempt \in [Thread -> 1 .. MaxAttempts]
  /\ mailbox \in [Thread -> BOOLEAN]
  /\ answer \in [Thread -> Reply]
  /\ busy \in BOOLEAN /\ reset \in BOOLEAN /\ error \in BOOLEAN
  /\ request \in Request /\ response \in Reply
  /\ work \in Request \cup {Nothing}
  /\ finished \in BOOLEAN
  /\ reg \in Value
  /\ calls \in CallId /\ performed \in CallId /\ culprit \in CallId
  /\ former \in CallId

\* cms_reset has succeeded, no other thread has used the cms yet.
Init ==
  \E v \in Value :
    /\ phase = "up" /\ owner = NoThread
    /\ pc       = [t \in Thread |-> "idle"]
    /\ call     = [t \in Thread |-> [id |-> 0, op |-> Read]]
    /\ attempt  = [t \in Thread |-> 1]
    /\ mailbox  = [t \in Thread |-> FALSE]
    /\ answer   = [t \in Thread |-> [id |-> 0, value |-> v]]
    /\ busy = FALSE /\ reset = FALSE /\ error = FALSE
    /\ request  = [id |-> 0, op |-> Read]
    /\ response = [id |-> 0, value |-> v]
    /\ work = Nothing /\ finished = FALSE
    /\ reg = v
    /\ calls = 0 /\ performed = 0 /\ culprit = 0 /\ former = 0

-----------------------------------------------------------------------------
(* The callers: cms_module_byte_read and _write, cms_module_gpio_read and  *)
(* _write, cms_module_page_read, cms_card_info_read                        *)

At(t, label)   == phase = "up" /\ pc[t] = label
Goto(t, label) == pc' = [pc EXCEPT ![t] = label]

\* The caller builds its request.
Call(t) ==
  /\ At(t, "idle")
  /\ \E op \in Value \cup {Read} :
       call' = [call EXCEPT ![t] = [id |-> 0, op |-> op]]
  /\ Goto(t, "lock")
  /\ UNCHANGED <<phase, owner, attempt, mailbox, answer, busy, reset, request,
                 cardVars, calls, former>>

\* Fault: the mutex is not taken.
Lock_Unlocked(t) ==
  /\ At(t, "lock")
  /\ calls < MaxCalls
  /\ owner' = t
  /\ calls' = calls + 1
  /\ call' = [call EXCEPT ![t].id = calls + 1]
  /\ Goto(t, "ready")
  /\ UNCHANGED <<phase, attempt, mailbox, answer, busy, reset, request,
                 cardVars, former>>

\* cms_lock.
Lock(t) ==
  /\ At(t, "lock")
  /\ owner = NoThread
  /\ calls < MaxCalls
  /\ owner' = t
  /\ calls' = calls + 1
  /\ call' = [call EXCEPT ![t].id = calls + 1]
  /\ Goto(t, "ready")
  /\ UNCHANGED <<phase, attempt, mailbox, answer, busy, reset, request, cardVars, former>>

-----------------------------------------------------------------------------
(* cms_mailbox_post *)

\* Fault: the mailbox is not polled before the request is written.
AwaitReady_NoPoll(t) ==
  /\ At(t, "ready")
  /\ reset' = TRUE /\ Goto(t, "clear")
  /\ UNCHANGED <<phase, owner, call, attempt, mailbox, answer, busy, request,
                 cardVars, calls, former>>

\* Fault: the error register is not cleared.
AwaitReady_NoClear(t) ==
  /\ At(t, "ready")
  /\ Goto(t, IF busy THEN "unlock" ELSE "clear")
  /\ UNCHANGED <<phase, owner, call, attempt, mailbox, answer, busy, reset,
                 request, cardVars, calls, former>>

\* cms_mailbox_is_ready before a request: the mailbox is free and the error
\* register is asked to be cleared, or the call fails.
AwaitReady(t) ==
  /\ At(t, "ready")
  /\ \/ ~busy /\ reset' = TRUE /\ Goto(t, "clear")
     \/ busy /\ Goto(t, "unlock") /\ UNCHANGED reset
  /\ UNCHANGED <<phase, owner, call, attempt, mailbox, answer, busy, request,
                 cardVars, calls, former>>

\* Fault: returns without the unlock when the poll gives up.
AwaitClear_Returns(t) ==
  /\ At(t, "clear")
  /\ Goto(t, IF reset THEN "idle" ELSE "post")
  /\ UNCHANGED <<phase, owner, call, attempt, mailbox, answer, busy, reset,
                 request, cardVars, calls, former>>

\* cms_error_is_cleared: the firmware has cleared it, or the call fails.
AwaitClear(t) ==
  /\ At(t, "clear")
  /\ Goto(t, IF reset THEN "unlock" ELSE "post")
  /\ UNCHANGED <<phase, owner, call, attempt, mailbox, answer, busy, reset,
                 request, cardVars, calls, former>>

\* The header and the payload are written, then mailbox_msg_status is set.
Post(t) ==
  /\ At(t, "post")
  /\ request' = call[t]
  /\ busy'    = TRUE
  /\ mailbox' = [mailbox EXCEPT ![t] = TRUE]
  /\ Goto(t, "wait")
  /\ UNCHANGED <<phase, owner, call, attempt, answer, reset, cardVars, calls,
                 former>>

\* cms_mailbox_is_ready after a request: it is done, or the poll gave up.
AwaitDone(t) ==
  /\ At(t, "wait")
  /\ mailbox' = [mailbox EXCEPT ![t] = ~busy]
  /\ Goto(t, "check")
  /\ UNCHANGED <<phase, owner, call, attempt, answer, busy, reset, request,
                 cardVars, calls, former>>

\* The error register is read even then.  A packet error and an error of the
\* satellite controller both make the attempt fail; after the last one the
\* call fails.
CheckError(t) ==
  /\ At(t, "check")
  /\ mailbox' = [mailbox EXCEPT ![t] = @ /\ ~error]
  /\ \/ mailbox'[t] /\ Goto(t, "copy") /\ UNCHANGED attempt
     \/ /\ ~mailbox'[t] /\ attempt[t] < MaxAttempts
        /\ attempt' = [attempt EXCEPT ![t] = @ + 1]
        /\ Goto(t, "ready")
     \/ /\ ~mailbox'[t] /\ attempt[t] = MaxAttempts
        /\ Goto(t, "unlock") /\ UNCHANGED attempt
  /\ UNCHANGED <<phase, owner, call, answer, busy, reset, request, cardVars,
                 calls, former>>

-----------------------------------------------------------------------------
(* The callers again *)

\* A read copies its data from the response, the mutex still held.
CopyResponse(t) ==
  /\ At(t, "copy")
  /\ answer' = IF call[t].op = Read
               THEN [answer EXCEPT ![t] = response] ELSE answer
  /\ Goto(t, "unlock")
  /\ UNCHANGED <<phase, owner, call, attempt, mailbox, busy, reset, request,
                 cardVars, calls, former>>

\* cms_unlock, and the call returns whether mailbox is other than NULL.  Its
\* variables end with it: the next one starts with mailbox NULL and attempt 1.
Unlock(t) ==
  /\ At(t, "unlock")
  /\ owner'   = NoThread
  /\ attempt' = [attempt EXCEPT ![t] = 1]
  /\ mailbox' = [mailbox EXCEPT ![t] = FALSE]
  /\ Goto(t, "idle")
  /\ UNCHANGED <<phase, call, answer, busy, reset, request,
                 cardVars, calls, former>>

Host(t) == \/ Lock(t) \/ AwaitReady(t) \/ AwaitClear(t) \/ Post(t)
           \/ AwaitDone(t) \/ CheckError(t) \/ CopyResponse(t) \/ Unlock(t)

-----------------------------------------------------------------------------
(* The card's firmware *)

Runs == phase # "reset"

\* It takes up the request it finds in the mailbox.
Fetch ==
  /\ Runs /\ busy /\ work = Nothing
  /\ work' = request /\ finished' = FALSE
  /\ UNCHANGED <<phase, hostVars, busy, reset, request, error, response, reg,
                 performed, culprit, calls, former>>

\* It performs it.  A request that fails may have had its effect.
Perform ==
  /\ Runs /\ work # Nothing /\ ~finished
  /\ finished' = TRUE
  /\ performed' = work.id
  /\ \E fails \in BOOLEAN, effect \in BOOLEAN :
       /\ fails \/ effect
       /\ error'   = (error \/ fails)
       /\ culprit' = IF fails THEN work.id ELSE culprit
       /\ reg'     = IF effect /\ work.op # Read THEN work.op ELSE reg
       /\ response' = IF effect /\ work.op = Read
                      THEN [id |-> work.id, value |-> reg] ELSE response
  /\ UNCHANGED <<phase, hostVars, busy, reset, request, work, calls, former>>

\* It gives the mailbox back.
Finish ==
  /\ Runs /\ work # Nothing /\ finished
  /\ busy' = FALSE /\ work' = Nothing /\ finished' = FALSE
  /\ UNCHANGED <<phase, hostVars, reset, request, error, response, reg,
                 performed, culprit, calls, former>>

\* It clears the error register when it is asked to.
ClearError ==
  /\ Runs /\ reset /\ work = Nothing
  /\ error' = FALSE /\ reset' = FALSE
  /\ UNCHANGED <<phase, hostVars, busy, request, response, work, finished, reg,
                 performed, culprit, calls, former>>

-----------------------------------------------------------------------------
(* A restart of the agent: init_device calls cms_init and cms_reset *)

\* The agent dies at any point, and its memory with it; the card goes on.
Die ==
  /\ phase = "up"
  /\ phase'  = "down"
  /\ former' = calls
  /\ owner'  = NoThread
  /\ pc'      = [t \in Thread |-> "idle"]
  /\ attempt' = [t \in Thread |-> 1]
  /\ mailbox' = [t \in Thread |-> FALSE]
  /\ UNCHANGED <<call, answer, busy, reset, request, cardVars, calls>>

\* Fault: the agent does not reset the card when it starts.
ResetAssert_Skipped ==
  /\ phase = "down"
  /\ phase' = "up"
  /\ UNCHANGED <<hostVars, busy, reset, request, cardVars, calls, former>>

\* cms_microblaze_reset_assert halts the firmware.
ResetAssert ==
  /\ phase = "down"
  /\ phase' = "reset"
  /\ work' = Nothing /\ finished' = FALSE
  /\ UNCHANGED <<hostVars, busy, reset, request, error, response, reg,
                 performed, culprit, calls, former>>

\* cms_microblaze_reset_release: the firmware boots while the agent sleeps,
\* and starts with its registers cleared.
ResetRelease ==
  /\ phase = "reset"
  /\ phase' = "boot"
  /\ busy' = FALSE /\ reset' = FALSE /\ error' = FALSE
  /\ UNCHANGED <<hostVars, request, response, work, finished, reg, performed,
                 culprit, calls, former>>

\* cms_is_ready: the agent serves, or exits and is started again.
AwaitCard ==
  /\ phase = "boot"
  /\ \/ ~busy /\ phase' = "up"
     \/ phase' = "down"
  /\ UNCHANGED <<hostVars, busy, reset, request, cardVars, calls, former>>

-----------------------------------------------------------------------------

Firmware == Fetch \/ Perform \/ Finish \/ ClearError
Restart  == Die \/ ResetAssert \/ ResetRelease \/ AwaitCard

Next == \/ \E t \in Thread : Call(t) \/ Host(t)
        \/ Firmware
        \/ Restart

\* The scheduler runs a thread that can go on.  Nothing is promised of the
\* firmware, and nobody is obliged to call, to die or to restart.
Fairness == \A t \in Thread : WF_vars(Host(t))

Spec == Init /\ [][Next]_vars /\ Fairness

-----------------------------------------------------------------------------
(* Properties *)

\* What cms_mailbox_post returns is about the request of its caller: the
\* error it reads in error_reg is that of this very call, not one that an
\* earlier call left behind when it gave up, and a mailbox other than NULL
\* holds the response to this request.
VerdictIsOwn ==
  phase = "up" => \A t \in Thread :
    /\ pc[t] = "check" /\ mailbox[t] /\ error => culprit = call[t].id
    /\ pc[t] = "copy" =>
         /\ performed = call[t].id
         /\ call[t].op = Read => response.id = call[t].id

\* When a call is about to return true, a write is in force and a read has
\* read what is in force: no request that an earlier call gave up on is
\* performed in between (cms_module_byte_write, cms_module_gpio_write).
SuccessIsInForce ==
  phase = "up" => \A t \in Thread : pc[t] = "unlock" /\ mailbox[t] =>
    IF call[t].op = Read THEN answer[t] = [id |-> call[t].id, value |-> reg]
    ELSE reg = call[t].op

\* The firmware performs requests in the order in which their calls had the
\* mutex, the late and the repeated ones included: a call that failed has no
\* effect after the effect of a later one.
PerformedInOrder == [][performed' >= performed]_vars

\* Once a restarted agent serves, the firmware performs no request of an
\* earlier run: cms_reset stopped it first.
WorksForTheLiving ==
  phase = "up" => /\ work # Nothing => work.id > former
                  /\ busy => request.id > former

\* However the firmware behaves, the mutex is given back: each poll gives up
\* and the attempts are limited, so a stuck card does not block the agent.
MutexIsGivenBack ==
  \A t \in Thread :
    (phase = "up" /\ owner = t) ~> ~(phase = "up" /\ owner = t)

-----------------------------------------------------------------------------
(* The inductive strengthening of the safety properties *)

\* Does t hold the mutex of the cms?
Inside(t) == pc[t] \notin {"idle", "lock"}

\* One thread is inside, the owner, with the last call; a dead agent has none.
Exclusive ==
  /\ \A t \in Thread : Inside(t) <=> owner = t
  /\ \A t \in Thread : Inside(t) => call[t].id = calls /\ former < calls
  /\ phase # "up" => \A t \in Thread : pc[t] = "idle"

\* The firmware works on what is in the mailbox, which is not older than what
\* it performed.
InOrder ==
  /\ work # Nothing => work = request /\ busy
  /\ finished => work # Nothing /\ performed = request.id
  /\ performed <= request.id /\ request.id <= calls
  /\ former <= calls
  /\ phase \in {"reset", "boot"} => work = Nothing
  /\ phase = "boot" => ~busy
  /\ phase = "up" /\ busy => request.id > former

\* The request of t was performed with success, and nothing since.
Done(t) ==
  /\ performed = call[t].id
  /\ IF call[t].op = Read THEN response = [id |-> call[t].id, value |-> reg]
     ELSE reg = call[t].op

\* How far the exchange of t has come.
Exchange(t) ==
  /\ pc[t] \in {"ready", "clear", "post"} => ~mailbox[t]
  /\ pc[t] \in {"clear", "post"} => ~busy
  /\ pc[t] = "clear" => reset \/ ~error
  /\ pc[t] \in {"post", "wait", "check"} => ~reset
  /\ pc[t] = "post" => ~error
  /\ pc[t] \in {"wait", "check"} =>
       /\ request = call[t]
       /\ error => culprit = call[t].id
       /\ (finished \/ ~busy) /\ ~error => Done(t)
  /\ pc[t] = "check" /\ mailbox[t] => ~busy
  /\ pc[t] = "copy" => mailbox[t] /\ ~busy /\ Done(t)
  /\ pc[t] = "unlock" /\ mailbox[t] =>
       /\ ~busy /\ Done(t)
       /\ call[t].op = Read => answer[t] = response

MailboxInv ==
  /\ TypeOK /\ Exclusive /\ InOrder
  /\ \A t \in Thread : ~Inside(t) => ~mailbox[t]
  /\ \A t \in Thread : Exchange(t)

=============================================================================
