------------------------------ MODULE Presence ------------------------------
(***************************************************************************)
(* _heartbeat_loop of dtq/worker/loop.py and GET /v1/workers: a worker     *)
(* writes worker:<id> every heartbeat_interval, the key lives for three    *)
(* intervals, and the console shows the worker as alive while the          *)
(* timestamp in it is younger than that.                                   *)
(***************************************************************************)
EXTENDS Integers

CONSTANTS
  Interval,    \* heartbeat_interval_s
  WriteMax     \* bound on set_worker_heartbeat

ASSUME PresenceTimes ==
  /\ Interval \in Nat /\ WriteMax \in Nat
  /\ 3 * WriteMax < Interval

VARIABLES
  turn,     \* "write" or "sleep"
  rest,     \* ticks the current await may still take
  fresh,    \* age of the timestamp being written
  px,       \* PX left of worker:<id> (0: no such key)
  age,      \* age of the timestamp in it
  missed    \* writes that failed in a row

presenceVars == <<turn, rest, fresh, px, age, missed>>

Expiry == 3 * Interval

\* The first write has just succeeded.
PresenceInit ==
  /\ turn = "sleep"
  /\ rest = Interval
  /\ fresh = 0
  /\ px = Expiry
  /\ age = 0
  /\ missed = 0

\* The sleep is over: data is put together and SET is called.
WriteStarts ==
  /\ turn = "sleep" /\ rest = 0
  /\ turn' = "write"
  /\ rest' = WriteMax
  /\ fresh' = 0
  /\ UNCHANGED <<px, age, missed>>

Written ==
  /\ turn = "write"
  /\ turn' = "sleep"
  /\ rest' = Interval
  /\ px' = Expiry
  /\ age' = fresh
  /\ missed' = 0
  /\ UNCHANGED fresh

\* The exception is logged and the loop goes on.
WriteFails ==
  /\ turn = "write"
  /\ turn' = "sleep"
  /\ rest' = Interval
  /\ missed' = IF missed = 2 THEN 2 ELSE missed + 1
  /\ UNCHANGED <<fresh, px, age>>

PresenceStep == WriteStarts \/ Written \/ WriteFails

Older(n) == IF n = Expiry THEN n ELSE n + 1

PresenceTick ==
  /\ rest > 0
  /\ rest' = rest - 1
  /\ px' = IF px = 0 THEN 0 ELSE px - 1
  /\ age' = Older(age)
  /\ fresh' = Older(fresh)
  /\ UNCHANGED <<turn, missed>>

-----------------------------------------------------------------------------

\* Faulty variant: the key's lifetime is the interval.
alive_once == px > 0 /\ age < Interval

\* list_workers: the key is found and its timestamp is young enough.
alive == px > 0 /\ age < Expiry

\* A running worker is shown as alive, even right before the write that follows
\* one that failed.
RunningIsShown == missed <= 1 => alive

=============================================================================
