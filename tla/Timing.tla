------------------------------- MODULE Timing -------------------------------
(***************************************************************************)
(* A worker with one message in hand: the clocks of its job and of its     *)
(* presence run together.                                                  *)
(***************************************************************************)
EXTENDS LeaseClock, Presence

vars == <<clockVars, presenceVars>>

Init == ClockInit /\ PresenceInit

Tick == ClockTick /\ PresenceTick

Next ==
  \/ ClockStep /\ UNCHANGED presenceVars
  \/ PresenceStep /\ UNCHANGED clockVars
  \/ Tick

Spec == Init /\ [][Next]_vars

-----------------------------------------------------------------------------
(* Why the clocks never run out: what every await leaves of each. *)

Beating == {"sleep", "call", "reply"}

ClockTypeOK ==
  /\ pc \in Owning \cup {"permit", "acquire", "released", "returned", "schedule", "deadLetter",
                         "markDead", "ack", "done"}
  /\ left \in Nat /\ ttl \in Nat /\ idle \in Nat
  /\ beat \in [at : Beating \cup {"off"}, left : Nat]
  /\ pc = "handler" <=> beat.at \in Beating

\* How old the entry can be when the current await ends.
IdleInv ==
  LET upTo(n) == idle + left <= PermitMax + n
      H == 2 * RedisMax + 2 * StoreMax + Timeout
  IN  /\ pc = "permit" => upTo(0)
      /\ pc \in {"acquire", "acquired"} => upTo(RedisMax)
      /\ pc = "record" => upTo(RedisMax + StoreMax)
      /\ pc \in {"giveBack", "returned"} => upTo(2 * RedisMax + StoreMax)
      /\ pc = "handler" => upTo(RedisMax + StoreMax + Timeout)
      /\ pc = "commit" => upTo(RedisMax + 2 * StoreMax + Timeout)
      /\ pc \in {"release", "released"} => upTo(H)
      /\ pc \in {"schedule", "deadLetter"} => upTo(H + RedisMax)
      /\ pc = "markDead" => upTo(H + RedisMax + StoreMax)
      /\ pc = "ack" => upTo(H + 2 * RedisMax + StoreMax)

\* What is left of the lease when the current await ends.
TtlInv ==
  LET keeps(n, used) == ttl >= n + Lease - used
      slack == RedisMax + StoreMax + Beat
  IN  /\ pc = "acquired" => keeps(left, RedisMax)
      /\ pc = "record" => keeps(left, RedisMax + StoreMax)
      /\ pc = "giveBack" => keeps(left, 2 * RedisMax + StoreMax)
      /\ beat.at = "sleep" => keeps(beat.left, slack)
      /\ beat.at = "call" => keeps(beat.left, slack + RedisMax)
      /\ beat.at = "reply" => keeps(beat.left, RedisMax)
      /\ beat.at \in {"call", "reply"} => beat.left <= RedisMax
      /\ pc = "commit" => keeps(left, slack + RedisMax + StoreMax)
      /\ pc = "release" => keeps(left, slack + 2 * RedisMax + StoreMax)
      /\ pc = "acquire" => left <= RedisMax

PresenceInv ==
  /\ turn \in {"write", "sleep"} /\ missed \in 0..2
  /\ rest \in Nat /\ fresh \in Nat /\ px \in Nat /\ age \in Nat
  /\ turn = "write" => fresh + rest <= WriteMax
  /\ \A n \in 0..1 :
       missed = n =>
         LET late == n * (Interval + WriteMax)
         IN  /\ turn = "sleep" => /\ age + rest <= Interval + WriteMax + late
                                  /\ px >= rest + 2 * Interval - late
             /\ turn = "write" => /\ age + rest <= Interval + 2 * WriteMax + late
                                  /\ px >= rest + 2 * Interval - WriteMax - late

TimingInv == ClockTypeOK /\ IdleInv /\ TtlInv /\ PresenceInv

=============================================================================
