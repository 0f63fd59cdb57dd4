----------------------------- MODULE RateLimiter -----------------------------
(***************************************************************************)
(* base-admin: the token bucket in front of the open API                   *)
(* (limiter/RateLimiter.java), switched on and off when an administrator   *)
(* saves the system settings (eventlistener/SysSettingEventListener.java)  *)
(* and asked by every API request (aspect/OpenApiAspect.java).             *)
(*                                                                         *)
(* execute() is synchronized, but the refill task is not: each read and    *)
(* write of the volatile token count is a step of its own.  star() runs in *)
(* a thread of the asyncTaskExecutor: between its submission and its first *)
(* line anything may happen.  The plain flag asyncTaskFlag is read after a *)
(* volatile read in every turn of the loop, so a turn sees its last value. *)
(***************************************************************************)
EXTENDS Integers, FiniteSets

CONSTANTS Callers,  \* threads that serve open API requests
          Admins,   \* threads that serve the settings page
          Tasks,    \* bound: star() calls that have not returned
          NoOne,    \* not a caller
          Limit,    \* limit, 10 in the code
          Speed     \* speed, 3 in the code

ASSUME RateLimiterAssumption ==
    /\ Limit \in Nat \ {0} /\ Speed \in Nat \ {0}
    /\ NoOne \notin Callers
    /\ IsFiniteSet(Tasks) /\ IsFiniteSet(Admins)

VARIABLES tokens,   \* RateLimiter.tokens
          flag,     \* RateLimiter.asyncTaskFlag
          setting,  \* sysOpenApiLimiterEncrypt in SysSettingUtil's map
          holder,   \* who is inside execute()
          caller,   \* [Callers -> [pc, got]]: the token count read for tokens - 1
          admin,    \* [Admins -> where the listener is]
          task,     \* [Tasks -> [pc, new]], new is newTokens
          burst     \* history: requests granted since the last refill

vars == <<tokens, flag, setting, holder, caller, admin, task, burst>>

Settings == {"Y", "N"}

CallerAt(p) == [pc |-> p, got |-> 0]
TaskAt(p) == [pc |-> p, new |-> 0]

FreeTasks == {t \in Tasks : task[t].pc = "free"}
InLoop == {t \in Tasks : task[t].pc \in {"test", "sleep", "read", "write"}}
Saving == {a \in Admins : admin[a] # "idle"}

\* The application runs with the limiter on, and its bucket full, or off;
\* when on, start-up has called star().
Init ==
    /\ tokens = Limit
    /\ flag = FALSE
    /\ setting \in Settings
    /\ holder = NoOne
    /\ burst = 0
    /\ caller = [c \in Callers |-> CallerAt("outside")]
    /\ admin = [a \in Admins |-> "idle"]
    /\ \/ setting = "N" /\ task = [t \in Tasks |-> TaskAt("free")]
       \/ /\ setting = "Y"
          /\ \E s \in Tasks :
               task = [t \in Tasks |-> TaskAt(IF t = s THEN "submitted" ELSE "free")]

-----------------------------------------------------------------------------
(***************************************************************************)
(* An API request.  With the limiter off it proceeds and touches nothing.  *)
(***************************************************************************)
Call(c) ==
    /\ caller[c].pc = "outside"
    /\ setting # "N"
    /\ caller' = [caller EXCEPT ![c] = CallerAt("enter")]
    /\ UNCHANGED <<tokens, flag, setting, holder, admin, task, burst>>

\* Mutant: execute is not synchronized.
ExecuteTestUnlocked(c) ==
    /\ caller[c].pc = "enter"
    /\ IF tokens > 0
         THEN holder' = c /\ caller' = [caller EXCEPT ![c] = CallerAt("take")]
         ELSE holder' = holder /\ caller' = [caller EXCEPT ![c] = CallerAt("outside")]
    /\ UNCHANGED <<tokens, flag, setting, admin, task, burst>>

\* tokens > 0, or the request is refused.
ExecuteTest(c) ==
    /\ caller[c].pc = "enter"
    /\ holder = NoOne
    /\ IF tokens > 0
         THEN holder' = c /\ caller' = [caller EXCEPT ![c] = CallerAt("take")]
         ELSE holder' = holder /\ caller' = [caller EXCEPT ![c] = CallerAt("outside")]
    /\ UNCHANGED <<tokens, flag, setting, admin, task, burst>>

ExecuteRead(c) ==
    /\ caller[c].pc = "take"
    /\ caller' = [caller EXCEPT ![c] = [pc |-> "put", got |-> tokens]]
    /\ UNCHANGED <<tokens, flag, setting, holder, admin, task, burst>>

\* Mutant: the count is written back as it was read.
ExecuteWriteSame(c) ==
    /\ caller[c].pc = "put"
    /\ tokens' = caller[c].got
    /\ holder' = NoOne
    /\ caller' = [caller EXCEPT ![c] = CallerAt("outside")]
    /\ burst' = burst + 1
    /\ UNCHANGED <<flag, setting, admin, task>>

\* tokens = tokens - 1; the request is granted.
ExecuteWrite(c) ==
    /\ caller[c].pc = "put"
    /\ tokens' = caller[c].got - 1
    /\ holder' = NoOne
    /\ caller' = [caller EXCEPT ![c] = CallerAt("outside")]
    /\ burst' = burst + 1
    /\ UNCHANGED <<flag, setting, admin, task>>

-----------------------------------------------------------------------------
(***************************************************************************)
(* Saving the settings: the listener updates the map, then decides.        *)
(***************************************************************************)
Save(a, value) ==
    /\ admin[a] = "idle"
    /\ Cardinality(FreeTasks) > Cardinality(Saving)
    /\ setting' = value
    /\ admin' = [admin EXCEPT ![a] = "getStatus"]
    /\ UNCHANGED <<tokens, flag, holder, caller, task, burst>>

\* Mutant: the flag is tested the other way round.
GetStatusInverted(a) ==
    /\ admin[a] = "getStatus"
    /\ admin' = [admin EXCEPT ![a] = IF flag THEN "testOn" ELSE "testOff"]
    /\ UNCHANGED <<tokens, flag, setting, holder, caller, task, burst>>

GetStatus(a) ==
    /\ admin[a] = "getStatus"
    /\ admin' = [admin EXCEPT ![a] = IF flag THEN "testOff" ELSE "testOn"]
    /\ UNCHANGED <<tokens, flag, setting, holder, caller, task, burst>>

\* star() is submitted to the executor.
TestOn(a) ==
    /\ admin[a] = "testOn"
    /\ IF setting = "Y"
         THEN \E t \in FreeTasks : task' = [task EXCEPT ![t] = TaskAt("submitted")]
         ELSE UNCHANGED task
    /\ admin' = [admin EXCEPT ![a] = "testOff"]
    /\ UNCHANGED <<tokens, flag, setting, holder, caller, burst>>

TestOff(a) ==
    /\ admin[a] = "testOff"
    /\ admin' = [admin EXCEPT ![a] = IF setting = "N" THEN "stop" ELSE "idle"]
    /\ UNCHANGED <<tokens, flag, setting, holder, caller, task, burst>>

Stop(a) ==
    /\ admin[a] = "stop"
    /\ flag' = FALSE
    /\ admin' = [admin EXCEPT ![a] = "idle"]
    /\ UNCHANGED <<tokens, setting, holder, caller, task, burst>>

-----------------------------------------------------------------------------
(***************************************************************************)
(* star() in its thread.                                                   *)
(***************************************************************************)
Star(t) ==
    /\ task[t].pc = "submitted"
    /\ flag' = TRUE
    /\ task' = [task EXCEPT ![t] = TaskAt("test")]
    /\ UNCHANGED <<tokens, setting, holder, caller, admin, burst>>

\* while (asyncTaskFlag)
LoopTest(t) ==
    /\ task[t].pc = "test"
    /\ task' = [task EXCEPT ![t] = TaskAt(IF flag THEN "sleep" ELSE "free")]
    /\ UNCHANGED <<tokens, flag, setting, holder, caller, admin, burst>>

Wake(t) ==
    /\ task[t].pc = "sleep"
    /\ task' = [task EXCEPT ![t] = TaskAt("read")]
    /\ UNCHANGED <<tokens, flag, setting, holder, caller, admin, burst>>

RefillRead(t) ==
    /\ task[t].pc = "read"
    /\ task' = [task EXCEPT ![t] = [pc |-> "write", new |-> tokens + Speed]]
    /\ UNCHANGED <<tokens, flag, setting, holder, caller, admin, burst>>

RefillWrite(t) ==
    /\ task[t].pc = "write"
    /\ tokens' = IF task[t].new > Limit THEN Limit ELSE task[t].new
    /\ task' = [task EXCEPT ![t] = TaskAt("test")]
    /\ burst' = 0
    /\ UNCHANGED <<flag, setting, holder, caller, admin>>

-----------------------------------------------------------------------------
Request(c) == Call(c) \/ ExecuteTest(c) \/ ExecuteRead(c) \/ ExecuteWrite(c)

SaveStep(a) ==
    \/ \E value \in Settings : Save(a, value)
    \/ GetStatus(a) \/ TestOn(a) \/ TestOff(a) \/ Stop(a)

TaskStep(t) == Star(t) \/ LoopTest(t) \/ Wake(t) \/ RefillRead(t) \/ RefillWrite(t)

Next ==
    \/ \E c \in Callers : Request(c)
    \/ \E a \in Admins : SaveStep(a)
    \/ \E t \in Tasks : TaskStep(t)

Spec == Init /\ [][Next]_vars

\* The executor gives a submitted task a thread while fewer than its 20 core
\* threads are taken, and a thread that can run does.
FairSpec == Spec /\ \A t \in Tasks : WF_vars(TaskStep(t))

-----------------------------------------------------------------------------
(***************************************************************************)
(* Properties                                                              *)
(***************************************************************************)

\* Although the refill does not take execute's lock, the count never drops
\* below zero and never exceeds the bucket.
CountTypeOK ==
    /\ tokens \in 0..Limit
    /\ flag \in BOOLEAN
    /\ setting \in Settings
    /\ holder \in Callers \cup {NoOne}
    /\ caller \in [Callers -> [pc: {"outside", "enter", "take", "put"}, got: 0..Limit]]
    /\ admin \in [Admins -> {"idle", "getStatus", "testOn", "testOff", "stop"}]
    /\ task \in [Tasks -> [pc: {"free", "submitted", "test", "sleep", "read", "write"},
                           new: 0..(Limit + Speed)]]
    /\ burst \in Nat

\* limiter/RateLimiter.java:21: limit is the peak number of requests.  Until
\* the next refill, by whichever task, no more requests are granted than the
\* bucket holds, although refills overlap with the requests and undo, or are
\* undone by, what these take.
BurstAtMostLimit == burst <= Limit

\* While saves of the settings do not overlap, a limiter that stays on never
\* shuts the API for good: the bucket is filled again and again, however the
\* saves before that raced with the task's start, sleep and end.
OnKeepsServing ==
    /\ [](Cardinality(Saving) <= 1)
    /\ <>[](setting = "Y" /\ Saving = {})
    => []<>(tokens > 0)

\* limiter/RateLimiter.java:24: speed tokens are added per second.  Two tasks
\* that both go on would add twice as many.
OneRefillTask == flag => Cardinality(InLoop) <= 1

=============================================================================
