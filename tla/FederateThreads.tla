-------------------------- MODULE FederateThreads --------------------------
(***************************************************************************)
(* The class Thread and the three classes built on it that are not part of *)
(* a test program: the federate's output thread, its input thread and the  *)
(* timer.  One object of one of the three kinds, the application that      *)
(* calls it, and the threads it has started.  Thread::stop only lets go of *)
(* a thread, which goes on running on the object, so that after stop and   *)
(* start there are two.                                                    *)
(*                                                                         *)
(* The threads lock myMutex around their use of the list of messages, the  *)
(* application adds to the list without it.  Changing the list while it is *)
(* read or changed is undefined: here the later of two overlapping changes *)
(* may undo the earlier one, and nothing more is claimed.  PostOffice,     *)
(* FederateIO_Handler and the sleep are outside the source.                *)
(***************************************************************************)
EXTENDS Integers, Sequences

Seqs == INSTANCE SequencesExt

CONSTANTS
  Kinds,       \* the classes looked at: "output", "input", "timer"
  MaxStarts,   \* bound: threads started on the object
  MaxPosted    \* bound: messages the application adds

ASSUME FederateAssumption ==
  /\ Kinds \subseteq {"output", "input", "timer"}
  /\ MaxStarts \in Nat
  /\ MaxPosted \in Nat

Threads == 1..MaxStarts
NoThread == 0
Unowned == -1      \* the mutex is locked by nobody

VARIABLES
  kind,                \* the class of the object
  theThread,           \* the thread the object holds, or NoThread
  started,             \* the number of threads started: they are 1..started
  at,                  \* thread -> where it stands
  itsFederateMessage,  \* the list
  fedMutex,            \* the thread that holds myMutex, NoThread or Unowned
  fm_Ptr,              \* thread -> the message in its hand
  app,                 \* "free", "adding", "joining"
  posted,              \* messages added so far
  seenByAdd,           \* the list as the call that adds found it
  timerActive,
  passedOn,            \* history: messages the receiver took, in order
  overlapped,          \* history: an unlocked add met a use of the list
  threw,               \* history: the receiver threw an exception
  twoInside,           \* history: two threads were in the section at once
  emptyRound,          \* history: an input thread found the list empty
  expired,             \* history: threads that called onTimerExpired
  unstopped            \* history: threads not followed by a stop of the timer

fedThread == <<kind, theThread, started>>
fedList == <<itsFederateMessage, fm_Ptr, posted, seenByAdd, passedOn>>
fedFlags == <<overlapped, threw, twoInside, emptyRound>>
fedTimer == <<timerActive, expired, unstopped>>
fedVars == <<fedThread, at, fedMutex, app, fedList, fedFlags, fedTimer>>

FederateInit ==
  /\ kind \in Kinds
  /\ theThread = NoThread
  /\ started = 0
  /\ at = [t \in Threads |-> "unborn"]
  /\ itsFederateMessage = <<>>
  /\ fedMutex = NoThread
  /\ fm_Ptr = [t \in Threads |-> 0]
  /\ app = "free"
  /\ posted = 0
  /\ seenByAdd = <<>>
  /\ timerActive \in BOOLEAN      \* startImmediately: no thread is started
  /\ passedOn = <<>>
  /\ overlapped = FALSE
  /\ threw = FALSE
  /\ twoInside = FALSE
  /\ emptyRound = FALSE
  /\ expired = {}
  /\ unstopped = {}

Steps(t, from, to) == at[t] = from /\ at' = [at EXCEPT ![t] = to]
Sends == kind \in {"output", "input"}
----------------------------------------------------------------------------
(* Thread, called by the application *)

(* A thread handle that is still there makes start throw.                  *)
NewThread ==
  IF theThread # NoThread
    THEN UNCHANGED <<theThread, started, at, unstopped>>
    ELSE /\ started < MaxStarts
         /\ started' = started + 1
         /\ theThread' = started'
         /\ at' = [at EXCEPT ![started'] = "loop"]
         /\ unstopped' = unstopped \cup {started'}

Start ==
  /\ Sends
  /\ app = "free"
  /\ NewThread
  /\ UNCHANGED <<kind, fedMutex, app, fedList, fedFlags, timerActive, expired>>

(* startOneShotTimer and startPeriodicTimer: isPeriodic is never read.     *)
(* Mutant: the timer is not made active.                                   *)
StartTimerMutant ==
  /\ kind = "timer"
  /\ app = "free"
  /\ NewThread
  /\ UNCHANGED <<kind, timerActive, fedMutex, app, fedList, fedFlags, expired>>

StartTimer ==
  /\ kind = "timer"
  /\ app = "free"
  /\ timerActive' = TRUE
  /\ NewThread
  /\ UNCHANGED <<kind, fedMutex, app, fedList, fedFlags, expired>>

stopPeriodicTimer ==
  /\ kind = "timer"
  /\ app = "free"
  /\ timerActive' = FALSE
  /\ unstopped' = {}
  /\ UNCHANGED <<fedThread, at, fedMutex, app, fedList, fedFlags, expired>>

Stop ==
  /\ app = "free"
  /\ theThread' = NoThread
  /\ UNCHANGED <<kind, started, at, fedMutex, app, fedList, fedFlags, fedTimer>>

Join ==
  /\ app = "free"
  /\ theThread # NoThread
  /\ app' = "joining"
  /\ UNCHANGED <<fedThread, at, fedMutex, fedList, fedFlags, fedTimer>>

Joined ==
  /\ app = "joining"
  /\ at[theThread] = "ended"
  /\ app' = "free"
  /\ UNCHANGED <<fedThread, at, fedMutex, fedList, fedFlags, fedTimer>>
----------------------------------------------------------------------------
(* addFederateMessage: an unlocked push_back, from its first look at the   *)
(* list to its last write.                                                 *)

AddBegins ==
  /\ Sends
  /\ app = "free"
  /\ posted < MaxPosted
  /\ app' = "adding"
  /\ seenByAdd' = itsFederateMessage
  /\ UNCHANGED <<fedThread, at, fedMutex, itsFederateMessage, fm_Ptr, posted, passedOn,
                 fedFlags, fedTimer>>

AddEnds ==
  /\ app = "adding"
  /\ app' = "free"
  /\ posted' = posted + 1
  /\ \E list \in {itsFederateMessage, seenByAdd} :
       itsFederateMessage' = Append(list, posted')
  /\ UNCHANGED <<fedThread, at, fedMutex, fm_Ptr, seenByAdd, passedOn, fedFlags, fedTimer>>
----------------------------------------------------------------------------
(* threadOperation of the output and of the input thread *)

Inside == {"locked", "send", "remove", "catch", "unlock"}

LockList(t) ==
  /\ Sends
  /\ fedMutex = NoThread
  /\ fedMutex' = t
  /\ Steps(t, "loop", "locked")
  /\ twoInside' = (twoInside \/ \E s \in Threads \ {t} : at[s] \in Inside)
  /\ UNCHANGED <<fedThread, app, fedList, overlapped, threw, emptyRound, fedTimer>>

(* Unlocking a mutex that the thread does not hold is undefined: it stays  *)
(* as it is, opens, or is locked for good.                                 *)
UnlockList(t) ==
  IF fedMutex = t THEN fedMutex' = NoThread
                  ELSE fedMutex' \in {fedMutex, NoThread, Unowned}

(* The input thread unlocks only when there was a message.                 *)
FindsNone(t) ==
  /\ itsFederateMessage = <<>>
  /\ IF kind = "input" THEN Steps(t, "locked", "loop") /\ emptyRound' = TRUE
                       ELSE Steps(t, "locked", "unlock") /\ UNCHANGED emptyRound
  /\ UNCHANGED <<fedThread, fedMutex, app, fedList, overlapped, threw, twoInside, fedTimer>>

FindsOne(t) ==
  /\ itsFederateMessage # <<>>
  /\ Steps(t, "locked", "send")
  /\ fm_Ptr' = [fm_Ptr EXCEPT ![t] = Head(itsFederateMessage)]
  /\ overlapped' = (overlapped \/ app = "adding")
  /\ UNCHANGED <<fedThread, fedMutex, app, itsFederateMessage, posted, seenByAdd, passedOn,
                 threw, twoInside, emptyRound, fedTimer>>

(* sendMessage returns, or passMessageToApplication returns TRUE.          *)
PassOn(t) ==
  /\ Steps(t, "send", "remove")
  /\ passedOn' = Append(passedOn, fm_Ptr[t])
  /\ UNCHANGED <<fedThread, fedMutex, app, itsFederateMessage, fm_Ptr, posted, seenByAdd,
                 fedFlags, fedTimer>>

(* passMessageToApplication returns FALSE: the message stays.              *)
Refuse(t) ==
  /\ kind = "input"
  /\ Steps(t, "send", "unlock")
  /\ UNCHANGED <<fedThread, fedMutex, app, fedList, fedFlags, fedTimer>>

Throw(t) ==
  /\ Steps(t, "send", "catch")
  /\ threw' = TRUE
  /\ UNCHANGED <<fedThread, fedMutex, app, fedList, overlapped, twoInside, emptyRound, fedTimer>>

(* The handler unlocks; the output thread then unlocks once more.          *)
Catch(t) ==
  /\ Steps(t, "catch", IF kind = "output" THEN "unlock" ELSE "loop")
  /\ UnlockList(t)
  /\ UNCHANGED <<fedThread, app, fedList, fedFlags, fedTimer>>

EraseFrom(t, list) ==
  /\ Steps(t, "remove", "unlock")
  /\ itsFederateMessage' = list
  /\ overlapped' = (overlapped \/ app = "adding")
  /\ UNCHANGED <<fedThread, fedMutex, app, fm_Ptr, posted, seenByAdd, passedOn,
                 threw, twoInside, emptyRound, fedTimer>>

(* Mutant: the last message is erased instead of the one passed on.        *)
EraseMutant(t) ==
  EraseFrom(t, SubSeq(itsFederateMessage, 1, Len(itsFederateMessage) - 1))

(* removeItsFederateMessage: no error if the message is no longer there.   *)
Erase(t) == EraseFrom(t, Seqs!RemoveFirst(itsFederateMessage, fm_Ptr[t]))

(* Mutant: the list stays locked.                                          *)
EndRoundMutant(t) ==
  /\ Steps(t, "unlock", "loop")
  /\ UNCHANGED <<fedThread, fedMutex, app, fedList, fedFlags, fedTimer>>

EndRound(t) ==
  /\ Steps(t, "unlock", "loop")
  /\ UnlockList(t)
  /\ UNCHANGED <<fedThread, app, fedList, fedFlags, fedTimer>>
----------------------------------------------------------------------------
(* threadOperation of the timer: one sleep, one expiry.                    *)

TimerSleeps(t) ==
  /\ kind = "timer"
  /\ Steps(t, "loop", IF timerActive THEN "asleep" ELSE "ended")
  /\ UNCHANGED <<fedThread, fedMutex, app, fedList, fedFlags, fedTimer>>

TimerWakes(t) ==
  /\ Steps(t, "asleep", IF timerActive THEN "expire" ELSE "ended")
  /\ UNCHANGED <<fedThread, fedMutex, app, fedList, fedFlags, fedTimer>>

TimerExpires(t) ==
  /\ Steps(t, "expire", "ended")
  /\ expired' = expired \cup {t}
  /\ UNCHANGED <<fedThread, fedMutex, app, fedList, fedFlags, timerActive, unstopped>>
----------------------------------------------------------------------------
Application ==
  Start \/ StartTimer \/ stopPeriodicTimer \/ Stop \/ Join \/ Joined \/ AddBegins
Round(t) ==
  \/ LockList(t) \/ FindsNone(t) \/ FindsOne(t)
  \/ PassOn(t) \/ Refuse(t) \/ Throw(t)
  \/ Catch(t) \/ Erase(t) \/ EndRound(t)
TimerStep(t) == TimerSleeps(t) \/ TimerWakes(t) \/ TimerExpires(t)

FederateNext ==
  \/ Application
  \/ AddEnds
  \/ \E t \in Threads : Round(t) \/ TimerStep(t)

(* Threads run, a call that adds returns, and the receiver does not refuse *)
(* messages for ever.  The application need not call anything.             *)
FederateSpec ==
  /\ FederateInit
  /\ [][FederateNext]_fedVars
  /\ WF_fedVars(AddEnds)
  /\ \A t \in Threads : WF_fedVars(Round(t) \/ TimerStep(t)) /\ SF_fedVars(PassOn(t))
----------------------------------------------------------------------------
(* Properties *)

(* What a round has passed on but not yet erased is still in the list.     *)
StillListed == {fm_Ptr[t] : t \in {s \in Threads : at[s] = "remove"}}

(* Every message the application added is passed on exactly once and in    *)
(* order, whatever the application refuses or the receiver throws, and     *)
(* however many threads were let go and started, unless an add met a use   *)
(* of the list; two threads are in the section only after an exception.    *)
(* The list holds what has not been passed on, behind the message that was *)
(* last, while its round has not yet erased it.                            *)
PassedOnce ==
  /\ twoInside => threw
  /\ ~overlapped /\ ~twoInside =>
       LET first == Len(passedOn) + (IF StillListed = {} THEN 1 ELSE 0)
       IN  /\ StillListed \subseteq {Len(passedOn)}
           /\ first + Len(itsFederateMessage) = posted + 1
           /\ \A i \in 1..Len(passedOn) : passedOn[i] = i
           /\ \A i \in 1..Len(itsFederateMessage) : itsFederateMessage[i] = first + i - 1

(* A message in the list of a started thread is passed on in the end,      *)
(* unless an add met a use of the list, the receiver threw (the unlock     *)
(* that follows may lock the mutex for good) or an input thread went once  *)
(* round an empty list, which leaves it waiting for the mutex it holds     *)
(* itself.  A timer's thread calls onTimerExpired unless it is stopped.    *)
Served ==
  /\ \A m \in 1..MaxPosted :
       started > 0 /\ (\E i \in 1..Len(itsFederateMessage) : itsFederateMessage[i] = m)
         ~> (\E i \in 1..Len(passedOn) : passedOn[i] = m) \/ overlapped \/ threw \/ emptyRound
  /\ \A t \in Threads :
       kind = "timer" /\ t <= started ~> t \in expired \/ t \notin unstopped
=============================================================================
