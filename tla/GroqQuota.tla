------------------------------ MODULE GroqQuota ------------------------------
(***************************************************************************)
(* The shared limiter in front of the model provider                        *)
(* (packages/reconciliation/src/agent/groq-rate-limiter.ts), its Postgres   *)
(* store (apps/api/src/groq-postgres-quota-store.ts) and the adapter's use  *)
(* of it (groq-reasoning-adapter.ts).  Requests of all replicas share one   *)
(* quota row.  Each reads its clock first and updates the row in a          *)
(* transaction later, so an update may use a clock reading that is long     *)
(* outdated, and a request is sent some time after its reservation.  The    *)
(* replicas' clocks agree, and a tick stands for some milliseconds.         *)
(***************************************************************************)
EXTENDS Integers, FiniteSets

CONSTANTS
  Callers,            \* requests in flight at once, in any replica
  Minute,             \* ticks of a quota window
  RequestsPerMinute,
  TokensPerMinute,
  Sizes,              \* tokens a request may reserve
  Waits,              \* retry-after times of the provider
  Excess,             \* tokens the actual usage may exceed a reservation by
  MaxCalls,           \* bound: requests of a behaviour
  MaxTime,            \* bound: the clock stops there unless a request waits
  MaxClock            \* bound: the clock stops there in any case

ASSUME QuotaAssumption ==
  /\ Minute \in Nat \ {0} /\ RequestsPerMinute \in Nat \ {0} /\ TokensPerMinute \in Nat \ {0}
  /\ Sizes \subseteq Nat \ {0}
  /\ Waits \subseteq Nat \ {0}
  /\ Excess \in Nat /\ MaxCalls \in Nat /\ MaxTime \in Nat /\ MaxClock \in Nat

VARIABLES
  clock,
  quota,       \* the row of groq_quota_state
  call,        \* what each request is at
  calls,       \* requests begun so far
  due,         \* what the requests counted in the current window should cost it
  refusedUntil \* the latest time the provider asked a request to wait for

vars == <<clock, quota, call, calls, due, refusedUntil>>

Idle == [pc |-> "idle"]

QuotaRow == [minuteStartedAt : Nat, requestsInMinute : 0..RequestsPerMinute,
             tokensInMinute : Nat, blockedUntil : Nat]

\* A reservation is what reserve returns; "window" is the one it counts in.
Reservation == [size : 1..TokensPerMinute, started : Nat \ {0}, window : Nat \ {0}]

\* What a request remembers at each await.
CallRow ==
  {Idle} \cup
  [pc : {"begun"}, size : 1..TokensPerMinute] \cup
  [pc : {"reserve"}, size : 1..TokensPerMinute, now : 1..clock] \cup
  [pc : {"wait"}, size : 1..TokensPerMinute, wake : Nat] \cup
  [pc : {"granted", "request"}, held : Reservation] \cup
  [pc : {"settle"}, held : Reservation, used : Nat, now : 1..clock] \cup
  [pc : {"refused"}, ms : Waits] \cup
  [pc : {"block"}, ms : Waits, now : 1..clock]

\* Every variable has its type, and no clock reading is ahead of the clock.
TypeOK ==
  /\ clock \in Nat \ {0}
  /\ quota \in QuotaRow
  /\ call \in [Callers -> CallRow]
  /\ calls \in Nat
  /\ due \in Int
  /\ refusedUntil \in Nat

Init ==
  /\ clock = 1
  /\ quota = [minuteStartedAt |-> 0, requestsInMinute |-> 0, tokensInMinute |-> 0,
              blockedUntil |-> 0]
  /\ call = [c \in Callers |-> Idle]
  /\ calls = 0
  /\ due = 0
  /\ refusedUntil = 0

Waiting(c) == call[c].pc = "wait" /\ clock < call[c].wake

Tick ==
  /\ clock < MaxTime \/ (clock < MaxClock /\ \E c \in Callers : Waiting(c))
  /\ clock' = clock + 1
  /\ UNCHANGED <<quota, call, calls, due, refusedUntil>>

(***************************************************************************)
(* The transitions of the row.                                              *)
(***************************************************************************)

\* Variant: a new window forgets the provider's refusal.
NormalizeAll(state, now) ==
  IF state.minuteStartedAt # 0 /\ now < state.minuteStartedAt + Minute
  THEN state
  ELSE [minuteStartedAt |-> now, requestsInMinute |-> 0, tokensInMinute |-> 0,
        blockedUntil |-> 0]

Normalize(state, now) ==
  IF state.minuteStartedAt # 0 /\ now < state.minuteStartedAt + Minute
  THEN state
  ELSE [minuteStartedAt |-> now, requestsInMinute |-> 0, tokensInMinute |-> 0,
        blockedUntil |-> state.blockedUntil]

\* A new window owes nothing for the requests of the old one.
DueIn(state) == IF state.minuteStartedAt = quota.minuteStartedAt THEN due ELSE 0

Fits(state, size) ==
  /\ state.requestsInMinute < RequestsPerMinute
  /\ state.tokensInMinute + size <= TokensPerMinute

Count(state, size) ==
  [state EXCEPT !.requestsInMinute = @ + 1, !.tokensInMinute = @ + size]

AtLeast(low, n) == IF n < low THEN low ELSE n

Adjusted(state, adjustment) ==
  [state EXCEPT !.tokensInMinute = AtLeast(0, @ + adjustment)]

\* Variant: the last refusal replaces a longer one.
BlockedAnew(state, until) == [state EXCEPT !.blockedUntil = until]

Blocked(state, until) == [state EXCEPT !.blockedUntil = AtLeast(@, until)]

(***************************************************************************)
(* A request.  Requests too large for the limit are rejected at once.       *)
(***************************************************************************)

At(c, pc) == call[c].pc = pc

Begin(c, size) ==
  /\ At(c, "idle") /\ calls < MaxCalls
  /\ size <= TokensPerMinute
  /\ call' = [call EXCEPT ![c] = [pc |-> "begun", size |-> size]]
  /\ calls' = calls + 1
  /\ UNCHANGED <<clock, quota, due, refusedUntil>>

\* The clock is read before the transaction opens.
ReadClock(c) ==
  /\ \/ /\ At(c, "begun")
        /\ call' = [call EXCEPT ![c] = [pc |-> "reserve", size |-> call[c].size, now |-> clock]]
     \/ /\ At(c, "refused")
        /\ call' = [call EXCEPT ![c] = [pc |-> "block", ms |-> call[c].ms, now |-> clock]]
  /\ UNCHANGED <<clock, quota, calls, due, refusedUntil>>

\* The timer starts when the transaction has ended.
Sleep(c, state, ms) ==
  /\ quota' = state
  /\ due' = DueIn(state)
  /\ call' = [call EXCEPT ![c] = [pc |-> "wait", size |-> call[c].size, wake |-> clock + ms]]
  /\ UNCHANGED <<clock, calls, refusedUntil>>

WaitForProvider(c) ==
  /\ At(c, "reserve") /\ quota.blockedUntil > call[c].now
  /\ Sleep(c, Normalize(quota, call[c].now), quota.blockedUntil - call[c].now)

WaitForWindow(c) ==
  LET now == call[c].now
      state == Normalize(quota, now)
  IN  /\ At(c, "reserve") /\ quota.blockedUntil <= now
      /\ ~Fits(state, call[c].size)
      /\ Sleep(c, state, AtLeast(1, state.minuteStartedAt + Minute - now))

\* The reservation names the clock reading, not the window it counts in.
Grant(c) ==
  LET now == call[c].now
      size == call[c].size
      state == Normalize(quota, now)
  IN  /\ At(c, "reserve") /\ quota.blockedUntil <= now
      /\ Fits(state, size)
      /\ quota' = Count(state, size)
      /\ due' = DueIn(state) + size
      /\ call' = [call EXCEPT ![c] =
                    [pc |-> "granted",
                     held |-> [size |-> size, started |-> now, window |-> state.minuteStartedAt]]]
      /\ UNCHANGED <<clock, calls, refusedUntil>>

Reserve(c) == WaitForProvider(c) \/ WaitForWindow(c) \/ Grant(c)

\* The request is sent when two events of the run are stored, at the earliest:
\* nobody looks at the row again.
Send(c) ==
  /\ At(c, "granted")
  /\ call' = [call EXCEPT ![c] = [pc |-> "request", held |-> call[c].held]]
  /\ UNCHANGED <<clock, quota, calls, due, refusedUntil>>

Wake(c) ==
  /\ At(c, "wait") /\ ~Waiting(c)
  /\ call' = [call EXCEPT ![c] = [pc |-> "begun", size |-> call[c].size]]
  /\ UNCHANGED <<clock, quota, calls, due, refusedUntil>>

\* The provider answers with its usage; 0 stands for an answer that names none.
Answer(c) ==
  /\ At(c, "request")
  /\ \E used \in 0..(call[c].held.size + Excess) :
       call' = [call EXCEPT ![c] =
                  IF used \in {0, call[c].held.size} THEN Idle
                  ELSE [pc |-> "settle", held |-> call[c].held, used |-> used, now |-> clock]]
  /\ UNCHANGED <<clock, quota, calls, due, refusedUntil>>

Adjustment(c) == call[c].used - call[c].held.size

\* What the window of a settled reservation should cost from now on.
DueAfter(c, state) ==
  IF state.minuteStartedAt = call[c].held.window THEN DueIn(state) + Adjustment(c)
  ELSE DueIn(state)

\* Variant: the adjustment lands in whatever window is current.
SettleAnyWindow(c) ==
  LET state == Normalize(quota, call[c].now)
  IN  /\ At(c, "settle")
      /\ quota' = Adjusted(state, Adjustment(c))
      /\ due' = DueAfter(c, state)
      /\ call' = [call EXCEPT ![c] = Idle]
      /\ UNCHANGED <<clock, calls, refusedUntil>>

\* Variant: a settlement that finds another window is put off.
SettleWhenCurrent(c) ==
  LET state == Normalize(quota, call[c].now)
  IN  /\ At(c, "settle")
      /\ state.minuteStartedAt = call[c].held.started
      /\ quota' = Adjusted(state, Adjustment(c))
      /\ due' = DueAfter(c, state)
      /\ call' = [call EXCEPT ![c] = Idle]
      /\ UNCHANGED <<clock, calls, refusedUntil>>

\* Only a window that is still the reservation's is adjusted.
Settle(c) ==
  LET state == Normalize(quota, call[c].now)
  IN  /\ At(c, "settle")
      /\ quota' = IF state.minuteStartedAt = call[c].held.started
                  THEN Adjusted(state, Adjustment(c)) ELSE state
      /\ due' = DueAfter(c, state)
      /\ call' = [call EXCEPT ![c] = Idle]
      /\ UNCHANGED <<clock, calls, refusedUntil>>

\* The provider refuses with 429 and a time to wait.
Refuse(c) ==
  /\ At(c, "request")
  /\ \E ms \in Waits : call' = [call EXCEPT ![c] = [pc |-> "refused", ms |-> ms]]
  /\ UNCHANGED <<clock, quota, calls, due, refusedUntil>>

BlockFor(c) ==
  LET until == call[c].now + call[c].ms
      state == Normalize(quota, call[c].now)
  IN  /\ At(c, "block")
      /\ quota' = Blocked(state, until)
      /\ due' = DueIn(state)
      /\ refusedUntil' = AtLeast(refusedUntil, until)
      /\ call' = [call EXCEPT ![c] = Idle]
      /\ UNCHANGED <<clock, calls>>

\* An abort, a rejected transaction, any other provider error, or a crash:
\* nothing is returned to the quota.
Abandon(c) ==
  /\ call[c].pc # "idle"
  /\ call' = [call EXCEPT ![c] = Idle]
  /\ UNCHANGED <<clock, quota, calls, due, refusedUntil>>

CallStep(c) ==
  ReadClock(c) \/ Reserve(c) \/ Wake(c) \/ Send(c) \/ Answer(c) \/ Settle(c) \/ BlockFor(c)

Next ==
  \/ Tick
  \/ \E c \in Callers : \/ \E size \in Sizes : Begin(c, size)
                        \/ CallStep(c)
                        \/ Refuse(c)
                        \/ Abandon(c)

Spec == Init /\ [][Next]_vars

\* Time passes, and a request whose next step is enabled takes it.
FairSpec == Spec /\ WF_vars(Tick) /\ \A c \in Callers : WF_vars(CallStep(c))

-----------------------------------------------------------------------------
(* Properties.                                                              *)

\* The requests counted in a window whose usage is still to be told, and how
\* many of the others there are.
InFlight(state) ==
  {c \in Callers : call[c].pc \in {"granted", "request", "settle"}
                     /\ call[c].held.window = state.minuteStartedAt}

Ended(state) == state.requestsInMinute - Cardinality(InFlight(state))

(* What the requests of a window use or may still use exceeds the budget    *)
(* only by what those that have ended used beyond their reservations,       *)
(* whatever the order in which outdated clock readings, expiries of the     *)
(* window and settlements of earlier windows reach the row                  *)
(* (groq-rate-limiter.ts:46-100).                                           *)
BudgetKept == due <= TokensPerMinute + Excess * Ended(quota)

(* Once a refusal of the provider is recorded, no replica reserves before   *)
(* that time: a shorter refusal that is recorded later, a new window or a   *)
(* settlement does not lift it (groq-rate-limiter.ts:54,72-79).  A request  *)
(* reserved before the refusal is recorded is still sent.                   *)
NoReservationWhileRefused ==
  [][\A c \in Callers : At(c, "reserve") /\ call'[c].pc = "granted" => refusedUntil <= clock]_vars

(* Requests that keep meeting full windows, refusals and each other's       *)
(* reservations all end (groq-rate-limiter.ts:50-69).                       *)
EveryRequestEnds == \A c \in Callers : call[c].pc # "idle" ~> call[c].pc = "idle"

(* groq-rate-limiter.ts:81-84: a settlement "Replaces a conservative        *)
(* pre-request reservation with Groq's actual usage", so that the window is *)
(* charged no more than what its requests used or may still use.            *)
UnusedCapacityReturned == quota.tokensInMinute <= due

(* What the others rest on: every request in flight was counted, the row    *)
(* undercounts by no more than what ended requests used in excess, and a    *)
(* reservation that names the current window counts in it.                  *)
Booked(state, cost) ==
  /\ IsFiniteSet(InFlight(state)) /\ Cardinality(InFlight(state)) <= state.requestsInMinute
  /\ cost <= state.tokensInMinute + Excess * Ended(state)
  /\ cost <= TokensPerMinute + Excess * Ended(state)

Charged == Booked(quota, due)

RefusalKept == refusedUntil <= quota.blockedUntil

\* A window opens at a clock reading, so an outdated reading may name no window.
ReservationsPlaced ==
  \A c \in Callers : call[c].pc \in {"granted", "request", "settle"} =>
    LET held == call[c].held
    IN  /\ held.window <= quota.minuteStartedAt
        /\ held.started < quota.minuteStartedAt + Minute
        /\ held.started = quota.minuteStartedAt => held.window = quota.minuteStartedAt

UsageCovered ==
  \A c \in Callers : call[c].pc = "settle" => call[c].used <= call[c].held.size + Excess

QuotaInv == Charged /\ RefusalKept /\ ReservationsPlaced /\ UsageCovered

(* The inductive invariant, with the types it needs: among them that no     *)
(* window counts more requests than it may.                                 *)
IInv == TypeOK /\ QuotaInv

=============================================================================
