----------------------------- MODULE RateLimit -----------------------------
(***************************************************************************)
(* The limiter of mutating requests and of the operator's login            *)
(* (lib/rate-limit, server/handler, server/operator-handler and the login  *)
(* route): one bucket per user or address, in the memory of the process.   *)
(*                                                                         *)
(* Time is counted in parts of a second, PerSecond of them; a bucket's     *)
(* tokens are counted in the same parts, so that one comes back per tick.  *)
(***************************************************************************)
EXTENDS Integers, Sequences, FiniteSetsExt

CONSTANTS
  Capacity, PerSecond,  \* 30 tokens; a token a second
  Costs,                \* 1 for a mutation, 3 for a login
  Jumps, LastTick       \* how far time goes between requests, and in all

ASSUME RateAssumption ==
  Capacity \in Nat /\ PerSecond \in Nat \ {0} /\ Costs \subseteq 1 .. Capacity

ASSUME JumpsAssumption == Jumps \subseteq Nat

VARIABLES
  tick,
  bucket,     \* tokens and when they were counted
  granted,    \* the requests let through: when, at which cost, and the sum so far
  waiting,    \* a refused request: its cost and when Retry-After ends
  told        \* whether that wait is over and was still not enough

rateVars == <<tick, bucket, granted, waiting, told>>

NobodyWaits == [cost |-> 0, from |-> 0]

RateInit ==
  /\ tick = 0 /\ bucket = [tokens |-> Capacity * PerSecond, updatedAt |-> 0]
  /\ granted = <<>> /\ waiting = NobodyWaits /\ told = FALSE

Refilled_Uncapped(b) == b.tokens + (tick - b.updatedAt)

Refilled(b) == Min({Capacity * PerSecond, b.tokens + (tick - b.updatedAt)})

CeilSeconds(parts) == (parts + PerSecond - 1) \div PerSecond

RetryAfter_Floor(cost, tokens) == (cost * PerSecond - tokens) \div PerSecond

RetryAfter(cost, tokens) == CeilSeconds(cost * PerSecond - tokens)

(* What has been let through so far, and a request let through now.        *)
Total == IF granted = <<>> THEN 0 ELSE granted[Len(granted)].total

Grant(cost) == [at |-> tick, cost |-> cost, total |-> Total + cost]

(* A refusal charges nothing; the wait it tells holds for a client that    *)
(* waits, and is forgotten when something else is let through.             *)
Ask(cost) ==
  LET tokens == Refilled(bucket)
      ok == tokens >= cost * PerSecond IN
    /\ bucket' = [tokens |-> IF ok THEN tokens - cost * PerSecond ELSE tokens, updatedAt |-> tick]
    /\ granted' = IF ok THEN Append(granted, Grant(cost)) ELSE granted
    /\ told' = (~ok /\ waiting.cost = cost /\ tick >= waiting.from)
    /\ waiting' = IF ok THEN NobodyWaits
                  ELSE [cost |-> cost, from |-> tick + RetryAfter(cost, tokens) * PerSecond]
    /\ UNCHANGED tick

TimePasses ==
  \E d \in Jumps :
    /\ tick + d <= LastTick /\ tick' = tick + d
    /\ UNCHANGED <<bucket, granted, waiting, told>>

RateNext == TimePasses \/ \E cost \in Costs : Ask(cost)

-----------------------------------------------------------------------------
(* Properties.                                                             *)

Spent(i, j) == granted[j].total - granted[i].total + granted[i].cost

(* Between any two moments no more is let through than the burst and what  *)
(* came back in between, however requests of both costs and refusals mix.  *)
BurstBound ==
  \A i, j \in DOMAIN granted : i <= j =>
    PerSecond * Spent(i, j) <= PerSecond * Capacity + granted[j].at - granted[i].at

(* A client that waits the seconds it was told is let through then, if     *)
(* nothing else of it was meanwhile.                                       *)
RetryAfterEnough == ~told

(* The limiter lets through what it promises, and no more.                 *)
LimitAsPromised == BurstBound /\ RetryAfterEnough
=============================================================================
