-------------------------- MODULE GroqQuotaProofs --------------------------
(***************************************************************************)
(* Proofs about GroqQuota, for any number of requests, any budget and any   *)
(* order of the updates.                                                    *)
(***************************************************************************)
EXTENDS GroqQuota, FiniteSetTheorems, TLAPS

\* Opening a window or not: what the row looks like to the update that follows.
LEMMA NormalizeRow ==
  ASSUME quota \in QuotaRow, NEW now \in Nat \ {0}, NEW state, state = Normalize(quota, now)
  PROVE  /\ state \in QuotaRow /\ state.minuteStartedAt > 0
         /\ state.blockedUntil = quota.blockedUntil
         /\ now < state.minuteStartedAt + Minute
         /\ \/ state = quota
            \/ /\ state.minuteStartedAt = now /\ state.tokensInMinute = 0
               /\ state.requestsInMinute = 0
               /\ quota.minuteStartedAt = 0 \/ quota.minuteStartedAt + Minute <= now
BY QuotaAssumption DEF Normalize, QuotaRow

LEMMA DueType ==
  ASSUME due \in Int, NEW state
  PROVE  DueIn(state) \in Int
BY DEF DueIn

LEMMA TypeInit == Init => TypeOK
BY QuotaAssumption DEF Init, TypeOK, QuotaRow, CallRow, Idle

\* One request takes a step and the clock stands still.
LEMMA CallType ==
  ASSUME TypeOK, NEW c \in Callers, NEW row \in CallRow, call' = [call EXCEPT ![c] = row],
         quota' \in QuotaRow, due' \in Int, refusedUntil' \in Nat, calls' \in Nat,
         UNCHANGED clock
  PROVE  TypeOK'
<1>1. CallRow' = CallRow
  BY DEF CallRow, Idle
<1> QED
  BY <1>1 DEF TypeOK

\* What each request remembers, read off its program counter.
LEMMA CallFields ==
  ASSUME TypeOK, NEW c \in Callers
  PROVE  /\ call[c].pc \in {"begun", "reserve", "wait"} => call[c].size \in 1..TokensPerMinute
         /\ call[c].pc \in {"reserve", "settle", "block"} => call[c].now \in 1..clock
         /\ call[c].pc \in {"granted", "request", "settle"} => call[c].held \in Reservation
         /\ call[c].pc = "settle" => call[c].used \in Nat
         /\ call[c].pc \in {"refused", "block"} => call[c].ms \in Waits
<1>1. call[c] \in CallRow
  BY DEF TypeOK
<1> QED
  BY <1>1 DEF CallRow, Idle

LEMMA CountRow ==
  ASSUME NEW state \in QuotaRow, NEW size \in 1..TokensPerMinute, Fits(state, size)
  PROVE  /\ Count(state, size) \in QuotaRow
         /\ Count(state, size).minuteStartedAt = state.minuteStartedAt
         /\ Count(state, size).tokensInMinute = state.tokensInMinute + size
         /\ Count(state, size).requestsInMinute = state.requestsInMinute + 1
         /\ Count(state, size).blockedUntil = state.blockedUntil
<1> DEFINE half == [state EXCEPT !.requestsInMinute = @ + 1]
<1>1. half \in QuotaRow /\ half.tokensInMinute = state.tokensInMinute
      /\ half.minuteStartedAt = state.minuteStartedAt /\ half.blockedUntil = state.blockedUntil
      /\ half.requestsInMinute = state.requestsInMinute + 1
  BY QuotaAssumption DEF Fits, QuotaRow
<1>2. Count(state, size) = [half EXCEPT !.tokensInMinute = state.tokensInMinute + size]
  BY DEF Count
<1> HIDE DEF half
<1>3. state.tokensInMinute + size \in Nat
  BY QuotaAssumption DEF QuotaRow
<1> QED
  BY <1>1, <1>2, <1>3 DEF QuotaRow

LEMMA ReserveType ==
  ASSUME TypeOK, NEW c \in Callers, Reserve(c)
  PROVE  TypeOK'
<1> DEFINE now == call[c].now
           size == call[c].size
           state == Normalize(quota, now)
<1>1. now \in Nat \ {0} /\ now \in 1..clock /\ size \in 1..TokensPerMinute
  BY CallFields DEF Reserve, WaitForProvider, WaitForWindow, Grant, At, TypeOK
<1>2. state \in QuotaRow /\ DueIn(state) \in Int /\ state.minuteStartedAt > 0
      /\ now < state.minuteStartedAt + Minute
  BY <1>1, NormalizeRow, DueType DEF TypeOK
<1> HIDE DEF state
<1>3. ASSUME NEW ms \in Nat, Sleep(c, state, ms)
      PROVE  TypeOK'
  <2>1. [pc |-> "wait", size |-> size, wake |-> clock + ms] \in CallRow
    BY <1>1, <1>3 DEF CallRow, TypeOK
  <2> QED
    BY <1>2, <1>3, <2>1, CallType DEF Sleep, TypeOK
<1>4. CASE WaitForProvider(c)
  <2>1. quota.blockedUntil - now \in Nat
    BY <1>1, <1>4 DEF WaitForProvider, TypeOK, QuotaRow
  <2> QED
    BY <1>3, <1>4, <2>1 DEF WaitForProvider, state
<1>5. CASE WaitForWindow(c)
  <2>1. AtLeast(1, state.minuteStartedAt + Minute - now) \in Nat
    BY <1>1, <1>2, QuotaAssumption DEF AtLeast, QuotaRow
  <2> QED
    BY <1>3, <1>5, <2>1 DEF WaitForWindow, state
<1>6. CASE Grant(c)
  <2>1. Fits(state, size) /\ quota' = Count(state, size) /\ due' = DueIn(state) + size
    BY <1>6 DEF Grant, state
  <2>2. quota' \in QuotaRow /\ due' \in Int
    BY <1>1, <1>2, <2>1, CountRow
  <2>3. [size |-> size, started |-> now, window |-> state.minuteStartedAt] \in Reservation
    BY <1>1, <1>2 DEF Reservation, QuotaRow
  <2>4. [pc |-> "granted", held |-> [size |-> size, started |-> now,
                                     window |-> state.minuteStartedAt]] \in CallRow
    BY <2>3 DEF CallRow
  <2>5. /\ call' = [call EXCEPT ![c] = [pc |-> "granted",
                       held |-> [size |-> size, started |-> now, window |-> state.minuteStartedAt]]]
        /\ UNCHANGED <<clock, calls, refusedUntil>>
    BY <1>6 DEF Grant, state
  <2> QED
    BY <2>2, <2>4, <2>5, CallType DEF TypeOK
<1> QED
  BY <1>4, <1>5, <1>6 DEF Reserve

LEMMA SettleType ==
  ASSUME TypeOK, NEW c \in Callers, Settle(c)
  PROVE  TypeOK'
<1> DEFINE state == Normalize(quota, call[c].now)
<1>1. /\ call[c].now \in Nat \ {0} /\ Adjustment(c) \in Int
  BY CallFields DEF Settle, At, Reservation, Adjustment
<1>2. state \in QuotaRow /\ DueIn(state) \in Int
  BY <1>1, NormalizeRow, DueType DEF TypeOK
<1> HIDE DEF state
<1>3. Adjusted(state, Adjustment(c)) \in QuotaRow
  BY <1>1, <1>2 DEF Adjusted, AtLeast, QuotaRow
<1>4. DueAfter(c, state) \in Int
  BY <1>1, <1>2 DEF DueAfter
<1>5. Idle \in CallRow
  BY DEF CallRow
<1> QED
  BY <1>2, <1>3, <1>4, <1>5, CallType DEF Settle, TypeOK, state

LEMMA BlockForType ==
  ASSUME TypeOK, NEW c \in Callers, BlockFor(c)
  PROVE  TypeOK'
<1> DEFINE state == Normalize(quota, call[c].now)
           until == call[c].now + call[c].ms
<1>0. call[c].now \in 1..clock /\ call[c].ms \in Waits
  <2>1. call[c].pc = "block"
    BY DEF BlockFor, At
  <2> QED
    BY <2>1, CallFields
<1>1. call[c].now \in Nat \ {0} /\ until \in Nat
  <2>1. call[c].ms \in Nat /\ clock \in Nat
    BY <1>0, QuotaAssumption DEF TypeOK
  <2> QED
    BY <1>0, <2>1
<1>2. state \in QuotaRow /\ DueIn(state) \in Int
  BY <1>1, NormalizeRow, DueType DEF TypeOK
<1> HIDE DEF state
<1>3. Blocked(state, until) \in QuotaRow /\ AtLeast(refusedUntil, until) \in Nat
  BY <1>1, <1>2 DEF Blocked, AtLeast, QuotaRow, TypeOK
<1>4. Idle \in CallRow
  BY DEF CallRow
<1>5. /\ quota' = Blocked(state, until) /\ due' = DueIn(state)
      /\ refusedUntil' = AtLeast(refusedUntil, until)
      /\ call' = [call EXCEPT ![c] = Idle] /\ UNCHANGED <<clock, calls>>
  BY DEF BlockFor, state
<1> QED
  BY <1>2, <1>3, <1>4, <1>5, CallType DEF TypeOK

LEMMA TypeStep == TypeOK /\ [Next]_vars => TypeOK'
<1> SUFFICES ASSUME TypeOK, [Next]_vars
             PROVE  TypeOK'
  OBVIOUS
<1>0. Idle \in CallRow
  BY DEF CallRow
<1>1. CASE Tick
  <2>1. \A row \in CallRow : row \in CallRow'
    BY <1>1 DEF Tick, CallRow, Idle, TypeOK
  <2> QED
    BY <1>1, <2>1 DEF Tick, TypeOK
<1>2. ASSUME NEW c \in Callers, NEW size \in Sizes, Begin(c, size)
      PROVE  TypeOK'
  <2>1. size \in 1..TokensPerMinute
    BY <1>2, QuotaAssumption DEF Begin
  <2>2. [pc |-> "begun", size |-> size] \in CallRow
    BY <2>1 DEF CallRow
  <2>3. /\ call' = [call EXCEPT ![c] = [pc |-> "begun", size |-> size]] /\ calls' = calls + 1
        /\ UNCHANGED <<clock, quota, due, refusedUntil>>
    BY <1>2 DEF Begin
  <2>4. quota' \in QuotaRow /\ due' \in Int /\ refusedUntil' \in Nat /\ calls' \in Nat
    BY <2>3 DEF TypeOK
  <2> QED
    BY <2>2, <2>3, <2>4, CallType
<1>3. ASSUME NEW c \in Callers, ReadClock(c)
      PROVE  TypeOK'
  <2>1. CASE At(c, "begun") /\ call' = [call EXCEPT ![c] =
               [pc |-> "reserve", size |-> call[c].size, now |-> clock]]
    <3>1. [pc |-> "reserve", size |-> call[c].size, now |-> clock] \in CallRow
      BY <2>1, CallFields DEF At, CallRow, TypeOK
    <3> QED
      BY <1>3, <2>1, <3>1, CallType DEF ReadClock, TypeOK
  <2>2. CASE At(c, "refused") /\ call' = [call EXCEPT ![c] =
               [pc |-> "block", ms |-> call[c].ms, now |-> clock]]
    <3>1. [pc |-> "block", ms |-> call[c].ms, now |-> clock] \in CallRow
      BY <2>2, CallFields DEF At, CallRow, TypeOK
    <3> QED
      BY <1>3, <2>2, <3>1, CallType DEF ReadClock, TypeOK
  <2> QED
    BY <1>3, <2>1, <2>2 DEF ReadClock
<1>4. ASSUME NEW c \in Callers, Wake(c)
      PROVE  TypeOK'
  <2>1. [pc |-> "begun", size |-> call[c].size] \in CallRow
    BY <1>4, CallFields DEF Wake, At, CallRow
  <2> QED
    BY <1>4, <2>1, CallType DEF Wake, TypeOK
<1>5. ASSUME NEW c \in Callers, Answer(c)
      PROVE  TypeOK'
  <2>1. PICK used \in 0..(call[c].held.size + Excess) :
          call' = [call EXCEPT ![c] =
                     IF used \in {0, call[c].held.size} THEN Idle
                     ELSE [pc |-> "settle", held |-> call[c].held, used |-> used, now |-> clock]]
    BY <1>5 DEF Answer
  <2>2. [pc |-> "settle", held |-> call[c].held, used |-> used, now |-> clock] \in CallRow
    BY <1>5, CallFields DEF Answer, At, CallRow, TypeOK
  <2> QED
    BY <1>0, <1>5, <2>1, <2>2, CallType DEF Answer, TypeOK
<1>6. ASSUME NEW c \in Callers, Refuse(c)
      PROVE  TypeOK'
  <2>1. PICK ms \in Waits : call' = [call EXCEPT ![c] = [pc |-> "refused", ms |-> ms]]
    BY <1>6 DEF Refuse
  <2>2. [pc |-> "refused", ms |-> ms] \in CallRow
    BY DEF CallRow
  <2> QED
    BY <1>6, <2>1, <2>2, CallType DEF Refuse, TypeOK
<1>7. ASSUME NEW c \in Callers, Abandon(c)
      PROVE  TypeOK'
  BY <1>0, <1>7, CallType DEF Abandon, TypeOK
<1>8. ASSUME NEW c \in Callers, Send(c)
      PROVE  TypeOK'
  <2>1. [pc |-> "request", held |-> call[c].held] \in CallRow
    BY <1>8, CallFields DEF Send, At, CallRow
  <2> QED
    BY <1>8, <2>1, CallType DEF Send, TypeOK
<1>9. CASE UNCHANGED vars
  <2>1. CallRow' = CallRow
    BY <1>9 DEF vars, CallRow, Idle
  <2> QED
    BY <1>9, <2>1 DEF vars, TypeOK
<1> QED
  BY <1>1, <1>2, <1>3, <1>4, <1>5, <1>6, <1>7, <1>9, <1>8, ReserveType, SettleType, BlockForType
     DEF Next, CallStep

\* Every variable of the limiter stays within its type.
THEOREM QuotaTypeCorrect == Spec => []TypeOK
BY TypeInit, TypeStep, PTL DEF Spec

-----------------------------------------------------------------------------
(* The inductive invariant.                                                 *)

\* A window that opens starts later than every reservation the row has seen.
LEMMA LaterWindow ==
  ASSUME TypeOK, NEW now \in Nat \ {0}, NEW state, state = Normalize(quota, now)
  PROVE  /\ quota.minuteStartedAt <= state.minuteStartedAt
         /\ state # quota => /\ quota.minuteStartedAt < state.minuteStartedAt
                             /\ \/ quota.minuteStartedAt = 0
                                \/ quota.minuteStartedAt + Minute <= state.minuteStartedAt
<1>1. quota \in QuotaRow /\ quota.minuteStartedAt \in Nat
  BY DEF TypeOK, QuotaRow
<1> QED
  BY <1>1, NormalizeRow, QuotaAssumption

\* Opening a window or not keeps every reservation in its place.
LEMMA HeldPlaced ==
  ASSUME TypeOK, QuotaInv, NEW now \in Nat \ {0}, NEW state, state = Normalize(quota, now),
         NEW d \in Callers, call[d].pc \in {"granted", "request", "settle"}
  PROVE  /\ call[d].held.window <= state.minuteStartedAt
         /\ call[d].held.started < state.minuteStartedAt + Minute
         /\ call[d].held.started = state.minuteStartedAt
              => call[d].held.window = state.minuteStartedAt
<1> DEFINE held == call[d].held
<1>1. held.window \in Nat \ {0} /\ held.started \in Nat
  BY CallFields DEF Reservation
<1>2. /\ held.window <= quota.minuteStartedAt
      /\ held.started < quota.minuteStartedAt + Minute
      /\ held.started = quota.minuteStartedAt => held.window = quota.minuteStartedAt
  BY DEF QuotaInv, ReservationsPlaced
<1>3. quota.minuteStartedAt \in Nat /\ state.minuteStartedAt \in Nat
  BY NormalizeRow DEF TypeOK, QuotaRow
<1>4. CASE state = quota
  BY <1>2, <1>4
<1>5. CASE state # quota
  <2>1. quota.minuteStartedAt + Minute <= state.minuteStartedAt
    BY <1>1, <1>2, <1>3, <1>5, LaterWindow
  <2> QED
    BY <1>1, <1>2, <1>3, <2>1, QuotaAssumption
<1> QED
  BY <1>4, <1>5

LEMMA MoreExcess ==
  ASSUME NEW n \in Nat, NEW m \in Nat, n <= m
  PROVE  Excess * n <= Excess * m /\ Excess * (n + 1) = Excess * n + Excess
<1>1. PICK k \in Nat : m = n + k
  <2>1. m - n \in Nat /\ m = n + (m - n)
    OBVIOUS
  <2> QED
    BY <2>1
<1>2. Excess * m = Excess * n + Excess * k /\ Excess * k \in Nat /\ Excess * n \in Nat
  BY <1>1, QuotaAssumption
<1>3. Excess * (n + 1) = Excess * n + Excess
  BY QuotaAssumption
<1> QED
  BY <1>2, <1>3

\* A new window has no requests yet, so its books are in order, too.
LEMMA BookedDue ==
  ASSUME TypeOK, QuotaInv, NEW now \in Nat \ {0}, NEW state, state = Normalize(quota, now)
  PROVE  Booked(state, DueIn(state))
<1>1. CASE state = quota
  BY <1>1 DEF DueIn, QuotaInv, Charged
<1>2. CASE state # quota
  <2>1. state.tokensInMinute = 0 /\ state.requestsInMinute = 0
    BY <1>2, NormalizeRow DEF TypeOK
  <2>2. quota.minuteStartedAt < state.minuteStartedAt
    BY <1>2, LaterWindow
  <2>3. DueIn(state) = 0
    BY <2>2 DEF DueIn, TypeOK, QuotaRow
  <2>4. InFlight(state) = {}
    <3> SUFFICES ASSUME NEW d \in Callers, call[d].pc \in {"granted", "request", "settle"},
                        call[d].held.window = state.minuteStartedAt
                 PROVE  FALSE
      BY DEF InFlight
    <3>1. call[d].held.window <= quota.minuteStartedAt /\ call[d].held.window \in Nat
      BY CallFields DEF QuotaInv, ReservationsPlaced, Reservation
    <3> QED
      BY <2>2, <3>1 DEF TypeOK, QuotaRow
  <2>5. IsFiniteSet(InFlight(state)) /\ Cardinality(InFlight(state)) = 0
    BY <2>4, FS_EmptySet
  <2> QED
    BY <2>1, <2>3, <2>5, QuotaAssumption DEF Booked, Ended
<1> QED
  BY <1>1, <1>2

\* A request that leaves the window, its usage unknown or nothing in excess.
LEMMA FewerInFlight ==
  ASSUME TypeOK, NEW c \in Callers, NEW row, call' = [call EXCEPT ![c] = row],
         row.pc \notin {"granted", "request", "settle"}, NEW state,
         quota'.minuteStartedAt = state.minuteStartedAt
  PROVE  InFlight(quota)' = InFlight(state) \ {c}
<1>1. call'[c] = row /\ \A d \in Callers \ {c} : call'[d] = call[d]
  BY DEF TypeOK
<1> QED
  BY <1>1 DEF InFlight

LEMMA BookedStep ==
  ASSUME TypeOK, NEW c \in Callers, NEW row, call' = [call EXCEPT ![c] = row],
         row.pc \notin {"granted", "request", "settle"},
         NEW state \in QuotaRow, NEW cost \in Int, Booked(state, cost), due' = cost,
         quota'.minuteStartedAt = state.minuteStartedAt,
         quota'.tokensInMinute = state.tokensInMinute,
         quota'.requestsInMinute = state.requestsInMinute
  PROVE  Charged'
<1> DEFINE open == InFlight(state)
           left == InFlight(quota)'
<1>1. left = open \ {c}
  BY FewerInFlight
<1>2. IsFiniteSet(open) /\ Cardinality(open) <= state.requestsInMinute
  BY DEF Booked
<1>3. /\ cost <= state.tokensInMinute + Excess * (state.requestsInMinute - Cardinality(open))
      /\ cost <= TokensPerMinute + Excess * (state.requestsInMinute - Cardinality(open))
  BY DEF Booked, Ended
<1>4. Ended(quota)' = state.requestsInMinute - Cardinality(left)
  BY DEF Ended
<1> HIDE DEF open, left
<1>5. /\ IsFiniteSet(left) /\ Cardinality(left) <= Cardinality(open)
      /\ Cardinality(left) \in Nat /\ Cardinality(open) \in Nat
  BY <1>1, <1>2, FS_Subset, FS_CardinalityType
<1>6. state.requestsInMinute \in Nat /\ state.tokensInMinute \in Nat /\ TokensPerMinute \in Nat
  BY QuotaAssumption DEF QuotaRow
<1>7. DEFINE n == state.requestsInMinute - Cardinality(open)
             m == state.requestsInMinute - Cardinality(left)
<1>8. n \in Nat /\ m \in Nat /\ n <= m
  BY <1>2, <1>5, <1>6
<1> HIDE DEF n, m
<1>9. Excess * n <= Excess * m /\ Excess * n \in Nat /\ Excess * m \in Nat
  BY <1>8, MoreExcess, QuotaAssumption
<1>10. /\ cost <= state.tokensInMinute + Excess * n /\ cost <= TokensPerMinute + Excess * n
       /\ Ended(quota)' = m
  BY <1>3, <1>4 DEF n, m
<1>11. Cardinality(left) <= state.requestsInMinute
  BY <1>2, <1>5, <1>6
<1>12. /\ cost <= state.tokensInMinute + Excess * m
       /\ cost <= TokensPerMinute + Excess * m
  BY <1>6, <1>9, <1>10
<1> QED
  BY <1>5, <1>10, <1>11, <1>12 DEF Charged, Booked, left

\* An update of the row by a request that then holds no reservation.
LEMMA PlacedStep ==
  ASSUME TypeOK, QuotaInv, NEW now \in Nat \ {0}, NEW state, state = Normalize(quota, now),
         quota'.minuteStartedAt = state.minuteStartedAt,
         NEW c \in Callers, NEW row, call' = [call EXCEPT ![c] = row],
         row.pc \notin {"granted", "request", "settle"}
  PROVE  ReservationsPlaced' /\ UsageCovered'
<1>1. call'[c] = row /\ \A d \in Callers \ {c} : call'[d] = call[d]
  BY DEF TypeOK
<1>2. ReservationsPlaced'
  BY <1>1, HeldPlaced DEF ReservationsPlaced
<1>3. UsageCovered'
  BY <1>1 DEF UsageCovered, QuotaInv
<1> QED
  BY <1>2, <1>3

\* A step that leaves the row alone and grants nothing.
LEMMA QuietStep ==
  ASSUME TypeOK, QuotaInv, NEW c \in Callers, NEW row, call' = [call EXCEPT ![c] = row],
         row.pc \notin {"granted", "request", "settle"}, UNCHANGED <<quota, due, refusedUntil>>
  PROVE  QuotaInv'
<1>1. call'[c] = row /\ \A d \in Callers \ {c} : call'[d] = call[d]
  BY DEF TypeOK
<1>2. ReservationsPlaced' /\ UsageCovered'
  BY <1>1 DEF QuotaInv, ReservationsPlaced, UsageCovered
<1>3. quota \in QuotaRow /\ due \in Int /\ Booked(quota, due)
  BY DEF TypeOK, QuotaInv, Charged
<1>4. Charged'
  BY <1>3, BookedStep
<1> QED
  BY <1>2, <1>4 DEF QuotaInv, RefusalKept

LEMMA ReserveKeepsInv ==
  ASSUME TypeOK, QuotaInv, NEW c \in Callers, Reserve(c)
  PROVE  QuotaInv'
<1> DEFINE now == call[c].now
           size == call[c].size
           state == Normalize(quota, now)
<1>0. call[c].pc = "reserve"
  BY DEF Reserve, WaitForProvider, WaitForWindow, Grant, At
<1>1. now \in 1..clock /\ now \in Nat \ {0} /\ size \in 1..TokensPerMinute
  BY <1>0, CallFields DEF TypeOK
<1>2. /\ state \in QuotaRow /\ state.blockedUntil = quota.blockedUntil
      /\ now < state.minuteStartedAt + Minute /\ state.minuteStartedAt > 0
      /\ \/ state = quota
         \/ state.minuteStartedAt = now
  BY <1>1, NormalizeRow DEF TypeOK
<1>3. Booked(state, DueIn(state)) /\ DueIn(state) \in Int
  BY <1>1, BookedDue, DueType DEF TypeOK
<1>4. ASSUME NEW ms, Sleep(c, state, ms)
      PROVE  QuotaInv'
  <2>1. /\ quota' = state /\ due' = DueIn(state)
        /\ call' = [call EXCEPT ![c] = [pc |-> "wait", size |-> size, wake |-> clock + ms]]
        /\ UNCHANGED refusedUntil
    BY <1>4 DEF Sleep
  <2>2. ReservationsPlaced' /\ UsageCovered'
    BY <1>1, <2>1, PlacedStep
  <2>3. Charged'
    BY <1>2, <1>3, <2>1, BookedStep
  <2> QED
    BY <1>2, <2>1, <2>2, <2>3 DEF QuotaInv, RefusalKept
<1>5. CASE Grant(c)
  <2> DEFINE held == [size |-> size, started |-> now, window |-> state.minuteStartedAt]
  <2>1. /\ Fits(state, size) /\ quota' = Count(state, size) /\ due' = DueIn(state) + size
        /\ call' = [call EXCEPT ![c] = [pc |-> "granted", held |-> held]]
        /\ UNCHANGED refusedUntil
    BY <1>5 DEF Grant
  <2>2. /\ quota'.minuteStartedAt = state.minuteStartedAt
        /\ quota'.tokensInMinute = state.tokensInMinute + size
        /\ quota'.requestsInMinute = state.requestsInMinute + 1
        /\ quota'.blockedUntil = state.blockedUntil
    BY <1>1, <1>2, <2>1, CountRow
  <2>3. call'[c] = [pc |-> "granted", held |-> held] /\ \A d \in Callers \ {c} : call'[d] = call[d]
    BY <2>1 DEF TypeOK
  <2>4. Charged'
    <3> DEFINE open == InFlight(state)
    <3>1. InFlight(quota)' = open \cup {c} /\ c \notin open
      BY <1>0, <2>2, <2>3 DEF InFlight
    <3>2. /\ IsFiniteSet(open) /\ Cardinality(open) <= state.requestsInMinute
          /\ DueIn(state) <= state.tokensInMinute
                               + Excess * (state.requestsInMinute - Cardinality(open))
      BY <1>3 DEF Booked, Ended
    <3>3. state.requestsInMinute \in Nat /\ state.tokensInMinute \in Nat /\ size \in Nat
          /\ TokensPerMinute \in Nat /\ state.tokensInMinute + size <= TokensPerMinute
      BY <1>1, <1>2, <2>1, QuotaAssumption DEF QuotaRow, Fits
    <3> HIDE DEF open, state, size
    <3>4. /\ IsFiniteSet(open \cup {c}) /\ Cardinality(open) \in Nat
          /\ Cardinality(open \cup {c}) = Cardinality(open) + 1
      BY <3>1, <3>2, FS_AddElement, FS_CardinalityType
    <3> DEFINE n == state.requestsInMinute - Cardinality(open)
    <3>5. n \in Nat  BY <3>2, <3>3, <3>4
    <3>6. Ended(quota)' = n
      BY <2>2, <3>1, <3>3, <3>4 DEF Ended
    <3>7. DueIn(state) <= state.tokensInMinute + Excess * n
      BY <3>2
    <3> HIDE DEF n
    <3>8. Excess * n \in Nat  BY <3>5, QuotaAssumption
    <3>9. /\ due' <= quota'.tokensInMinute + Excess * n
          /\ due' <= TokensPerMinute + Excess * n
      BY <1>3, <2>1, <2>2, <3>3, <3>7, <3>8
    <3>10. Cardinality(open \cup {c}) <= quota'.requestsInMinute
      BY <2>2, <3>2, <3>3, <3>4
    <3> QED
      BY <3>1, <3>4, <3>6, <3>9, <3>10 DEF Charged, Booked
  <2>5. UsageCovered'
    BY <2>3 DEF UsageCovered, QuotaInv
  <2>6. ReservationsPlaced'
    <3>1. ASSUME NEW d \in Callers \ {c}, call'[d].pc \in {"granted", "request", "settle"}
          PROVE  /\ call'[d].held.window <= state.minuteStartedAt
                 /\ call'[d].held.started < state.minuteStartedAt + Minute
                 /\ call'[d].held.started = state.minuteStartedAt
                      => call'[d].held.window = state.minuteStartedAt
      BY <1>1, <2>3, <3>1, HeldPlaced
    <3>2. /\ held.window <= state.minuteStartedAt
          /\ held.started < state.minuteStartedAt + Minute
          /\ held.window = state.minuteStartedAt
      BY <1>2 DEF QuotaRow
    <3> QED
      BY <2>2, <2>3, <3>1, <3>2 DEF ReservationsPlaced
  <2> QED
    BY <1>2, <2>1, <2>2, <2>4, <2>5, <2>6 DEF QuotaInv, RefusalKept
<1> QED
  BY <1>4, <1>5 DEF Reserve, WaitForProvider, WaitForWindow

\* The request is sent: it holds the same reservation as before.
LEMMA SendKeepsInv ==
  ASSUME TypeOK, QuotaInv, NEW c \in Callers, Send(c)
  PROVE  QuotaInv'
<1>1. call[c].pc = "granted" /\ UNCHANGED <<quota, due, refusedUntil>>
  BY DEF Send, At
<1>2. /\ call'[c] = [pc |-> "request", held |-> call[c].held]
      /\ \A d \in Callers \ {c} : call'[d] = call[d]
  BY DEF Send, TypeOK
<1>3. ReservationsPlaced' /\ UsageCovered'
  BY <1>1, <1>2 DEF QuotaInv, ReservationsPlaced, UsageCovered
<1>4. Charged'
  <2>1. InFlight(quota)' = InFlight(quota)
    BY <1>1, <1>2 DEF InFlight
  <2> QED
    BY <1>1, <2>1 DEF QuotaInv, Charged, Booked, Ended
<1> QED
  BY <1>1, <1>3, <1>4 DEF QuotaInv, RefusalKept

LEMMA AnswerKeepsInv ==
  ASSUME TypeOK, QuotaInv, NEW c \in Callers, Answer(c)
  PROVE  QuotaInv'
<1> DEFINE held == call[c].held
<1>1. call[c].pc = "request" /\ UNCHANGED <<quota, due, refusedUntil>>
  BY DEF Answer, At
<1>2. PICK used \in 0..(held.size + Excess) :
        call' = [call EXCEPT ![c] =
                   IF used \in {0, held.size} THEN Idle
                   ELSE [pc |-> "settle", held |-> held, used |-> used, now |-> clock]]
  BY DEF Answer
<1>3. CASE used \in {0, held.size}
  <2>1. Idle.pc \notin {"granted", "request", "settle"} /\ call' = [call EXCEPT ![c] = Idle]
    BY <1>2, <1>3 DEF Idle
  <2> QED
    BY <1>1, <2>1, QuietStep
<1>4. CASE used \notin {0, held.size}
  <2> DEFINE row == [pc |-> "settle", held |-> held, used |-> used, now |-> clock]
  <2>1. call'[c] = row /\ \A d \in Callers \ {c} : call'[d] = call[d]
    BY <1>2, <1>4 DEF TypeOK
  <2>2. used <= held.size + Excess
    BY <1>1, CallFields DEF Reservation
  <2>3. ReservationsPlaced'
    BY <1>1, <2>1 DEF QuotaInv, ReservationsPlaced
  <2>4. UsageCovered'
    BY <2>1, <2>2 DEF QuotaInv, UsageCovered
  <2>5. Charged'
    <3>1. InFlight(quota)' = InFlight(quota)
      BY <1>1, <2>1 DEF InFlight
    <3> QED
      BY <1>1, <3>1 DEF QuotaInv, Charged, Booked, Ended
  <2> QED
    BY <1>1, <2>3, <2>4, <2>5 DEF QuotaInv, RefusalKept
<1> QED
  BY <1>3, <1>4

LEMMA SettleKeepsInv ==
  ASSUME TypeOK, QuotaInv, NEW c \in Callers, Settle(c)
  PROVE  QuotaInv'
<1> DEFINE now == call[c].now
           held == call[c].held
           state == Normalize(quota, now)
<1>1. call[c].pc = "settle"
  BY DEF Settle, At
<1>2. /\ now \in Nat \ {0} /\ held \in Reservation /\ call[c].used \in Nat
      /\ Adjustment(c) \in Int
  BY <1>1, CallFields DEF Adjustment, Reservation
<1>3. state \in QuotaRow /\ state.blockedUntil = quota.blockedUntil
  BY <1>2, NormalizeRow DEF TypeOK
<1>4. /\ quota' = IF state.minuteStartedAt = held.started
                  THEN Adjusted(state, Adjustment(c)) ELSE state
      /\ due' = DueAfter(c, state) /\ UNCHANGED refusedUntil
      /\ call' = [call EXCEPT ![c] = Idle]
  BY DEF Settle
<1>5. \A n \in Int : /\ Adjusted(state, n).minuteStartedAt = state.minuteStartedAt
                     /\ Adjusted(state, n).blockedUntil = state.blockedUntil
                     /\ Adjusted(state, n).tokensInMinute = AtLeast(0, state.tokensInMinute + n)
  BY <1>3 DEF Adjusted, QuotaRow
<1>6. ReservationsPlaced' /\ UsageCovered'
  <2>1. quota'.minuteStartedAt = state.minuteStartedAt
    BY <1>2, <1>4, <1>5
  <2>2. Idle.pc \notin {"granted", "request", "settle"}
    BY DEF Idle
  <2> QED
    BY <1>2, <1>4, <2>1, <2>2, PlacedStep
<1>7. RefusalKept'
  BY <1>2, <1>3, <1>4, <1>5 DEF RefusalKept, QuotaInv
<1>8. Charged'
  <2>1. Booked(state, DueIn(state)) /\ DueIn(state) \in Int
    BY <1>2, BookedDue, DueType DEF TypeOK
  <2>2. Idle.pc \notin {"granted", "request", "settle"}
    BY DEF Idle
  <2>3. CASE state.minuteStartedAt # held.window
    <3>1. state.minuteStartedAt # held.started
      BY <1>1, <1>2, <2>3, HeldPlaced
    <3>2. quota' = state /\ due' = DueIn(state)
      BY <1>4, <2>3, <3>1 DEF DueAfter
    <3> QED
      BY <1>3, <1>4, <2>1, <2>2, <3>2, BookedStep
  <2>4. CASE state.minuteStartedAt = held.window
    <3> DEFINE open == InFlight(state)
               more == Adjustment(c)
    <3>1. InFlight(quota)' = open \ {c} /\ c \in open
      <4>1. quota'.minuteStartedAt = state.minuteStartedAt
        BY <1>2, <1>4, <1>5
      <4>2. c \in open
        BY <1>1, <2>4 DEF InFlight
      <4> QED
        BY <1>4, <2>2, <4>1, <4>2, FewerInFlight
    <3>2. /\ IsFiniteSet(open) /\ Cardinality(open) <= state.requestsInMinute
          /\ DueIn(state) <= state.tokensInMinute
                               + Excess * (state.requestsInMinute - Cardinality(open))
          /\ DueIn(state) <= TokensPerMinute
                               + Excess * (state.requestsInMinute - Cardinality(open))
      BY <2>1 DEF Booked, Ended
    <3>3. due' = DueIn(state) + more
      BY <1>4, <2>4 DEF DueAfter
    <3>4. more \in Int /\ more <= Excess
      BY <1>1, <1>2, QuotaAssumption DEF Adjustment, Reservation, QuotaInv, UsageCovered
    <3>5. /\ quota'.requestsInMinute = state.requestsInMinute
          /\ quota'.tokensInMinute \in {state.tokensInMinute, AtLeast(0, state.tokensInMinute + more)}
      BY <1>3, <1>4, <3>4 DEF Adjusted, QuotaRow
    <3>6. state.requestsInMinute \in Nat /\ state.tokensInMinute \in Nat
          /\ TokensPerMinute \in Nat /\ Excess \in Nat
      BY <1>3, QuotaAssumption DEF QuotaRow
    <3> HIDE DEF open, more, state
    <3>7. /\ IsFiniteSet(open \ {c}) /\ Cardinality(open) \in Nat
          /\ Cardinality(open \ {c}) = Cardinality(open) - 1
      BY <3>1, <3>2, FS_RemoveElement, FS_CardinalityType
    <3> DEFINE n == state.requestsInMinute - Cardinality(open)
    <3>8. n \in Nat  BY <3>2, <3>6, <3>7
    <3>9. Ended(quota)' = n + 1 /\ Cardinality(open \ {c}) <= quota'.requestsInMinute
      BY <3>1, <3>2, <3>5, <3>6, <3>7 DEF Ended
    <3>10. /\ DueIn(state) <= state.tokensInMinute + Excess * n
           /\ DueIn(state) <= TokensPerMinute + Excess * n
      BY <3>2
    <3> HIDE DEF n
    <3>11. Excess * n \in Nat /\ Excess * (n + 1) = Excess * n + Excess
      BY <3>6, <3>8, MoreExcess
    <3>12. /\ due' <= quota'.tokensInMinute + Excess * (n + 1)
           /\ due' <= TokensPerMinute + Excess * (n + 1)
      <4>1. due' <= TokensPerMinute + Excess * (n + 1)
        BY <2>1, <3>3, <3>4, <3>6, <3>10, <3>11
      <4>2. CASE quota'.tokensInMinute = state.tokensInMinute
        BY <2>1, <3>3, <3>4, <3>6, <3>10, <3>11, <4>1, <4>2
      <4>3. CASE quota'.tokensInMinute = AtLeast(0, state.tokensInMinute + more)
        <5>1. quota'.tokensInMinute \in Int
              /\ state.tokensInMinute + more <= quota'.tokensInMinute
          BY <3>4, <3>6, <4>3 DEF AtLeast
        <5> QED
          BY <2>1, <3>3, <3>4, <3>6, <3>10, <3>11, <4>1, <5>1
      <4> QED
        BY <3>5, <4>2, <4>3
    <3> QED
      BY <3>1, <3>7, <3>9, <3>12 DEF Charged, Booked
  <2> QED
    BY <2>3, <2>4
<1> QED
  BY <1>6, <1>7, <1>8 DEF QuotaInv

LEMMA BlockForKeepsInv ==
  ASSUME TypeOK, QuotaInv, NEW c \in Callers, BlockFor(c)
  PROVE  QuotaInv'
<1> DEFINE now == call[c].now
           state == Normalize(quota, now)
           until == now + call[c].ms
<1>1. call[c].pc = "block"
  BY DEF BlockFor, At
<1>2. now \in Nat \ {0} /\ call[c].ms \in Nat
  <2>1. now \in 1..clock /\ call[c].ms \in Waits
    BY <1>1, CallFields
  <2>2. call[c].ms \in Nat
    BY <2>1, QuotaAssumption
  <2>3. clock \in Nat
    BY DEF TypeOK
  <2> QED
    BY <2>1, <2>2, <2>3
<1>3. state \in QuotaRow /\ state.blockedUntil = quota.blockedUntil
  BY <1>2, NormalizeRow DEF TypeOK
<1>4. /\ quota' = Blocked(state, until) /\ due' = DueIn(state)
      /\ refusedUntil' = AtLeast(refusedUntil, until)
      /\ call' = [call EXCEPT ![c] = Idle]
  BY DEF BlockFor
<1>5. /\ quota'.minuteStartedAt = state.minuteStartedAt
      /\ quota'.tokensInMinute = state.tokensInMinute
      /\ quota'.requestsInMinute = state.requestsInMinute
      /\ quota'.blockedUntil = AtLeast(state.blockedUntil, until)
  BY <1>3, <1>4 DEF Blocked, QuotaRow
<1>6. ReservationsPlaced' /\ UsageCovered'
  <2>1. Idle.pc \notin {"granted", "request", "settle"}
    BY DEF Idle
  <2> QED
    BY <1>2, <1>4, <1>5, <2>1, PlacedStep
<1>7. Charged'
  <2>1. Idle.pc \notin {"granted", "request", "settle"}
    BY DEF Idle
  <2>2. Booked(state, DueIn(state)) /\ DueIn(state) \in Int
    BY <1>2, BookedDue, DueType DEF TypeOK
  <2> QED
    BY <1>3, <1>4, <1>5, <2>1, <2>2, BookedStep
<1>8. RefusalKept'
  <2>1. refusedUntil \in Nat /\ quota.blockedUntil \in Nat /\ until \in Nat
    BY <1>2 DEF TypeOK, QuotaRow
  <2> QED
    BY <1>3, <1>4, <1>5, <2>1 DEF RefusalKept, QuotaInv, AtLeast
<1> QED
  BY <1>6, <1>7, <1>8 DEF QuotaInv

LEMMA InvInit == Init => QuotaInv
<1> SUFFICES ASSUME Init PROVE QuotaInv
  OBVIOUS
<1>1. InFlight(quota) = {} /\ quota.requestsInMinute = 0 /\ quota.tokensInMinute = 0 /\ due = 0
  BY DEF Init, Idle, InFlight
<1>2. IsFiniteSet(InFlight(quota)) /\ Cardinality(InFlight(quota)) = 0
  BY <1>1, FS_EmptySet
<1>3. Charged
  BY <1>1, <1>2, QuotaAssumption DEF Charged, Booked, Ended
<1> QED
  BY <1>3 DEF Init, QuotaInv, RefusalKept, ReservationsPlaced, UsageCovered, Idle

LEMMA InvStep == TypeOK /\ QuotaInv /\ [Next]_vars => QuotaInv'
<1> SUFFICES ASSUME TypeOK, QuotaInv, [Next]_vars
             PROVE  QuotaInv'
  OBVIOUS
<1>1. ASSUME NEW c \in Callers,
             \/ \E size \in Sizes : Begin(c, size)
             \/ ReadClock(c) \/ Wake(c) \/ Refuse(c) \/ Abandon(c)
      PROVE  QuotaInv'
  <2>1. PICK row : /\ call' = [call EXCEPT ![c] = row]
                   /\ row.pc \notin {"granted", "request", "settle"}
                   /\ UNCHANGED <<quota, due, refusedUntil>>
    BY <1>1 DEF Begin, ReadClock, Wake, Refuse, Abandon, Idle
  <2> QED
    BY <2>1, QuietStep
<1>2. CASE Tick \/ UNCHANGED vars
  <2>1. InFlight(quota)' = InFlight(quota) /\ UNCHANGED <<quota, call, due, refusedUntil>>
    BY <1>2 DEF Tick, vars, InFlight
  <2> QED
    BY <2>1 DEF QuotaInv, Charged, Booked, Ended, RefusalKept, ReservationsPlaced, UsageCovered
<1> QED
  BY <1>1, <1>2, ReserveKeepsInv, SendKeepsInv, AnswerKeepsInv, SettleKeepsInv, BlockForKeepsInv
     DEF Next, CallStep

\* The row never undercounts the window, and a recorded refusal stays.
THEOREM QuotaInvariant == Spec => []IInv
BY TypeInit, TypeStep, InvInit, InvStep, PTL DEF Spec, IInv

(* What the requests of a window use or may still use exceeds the budget    *)
(* only by what those that have ended used beyond their reservations, for   *)
(* any bound on that excess (groq-rate-limiter.ts:46-100).                  *)
THEOREM WindowsWithinBudget == Spec => []BudgetKept
<1>1. IInv => BudgetKept
  BY DEF IInv, QuotaInv, Charged, Booked, BudgetKept
<1> QED
  BY <1>1, QuotaInvariant, PTL

\* Nothing is reserved before the time of any recorded refusal.
THEOREM RefusalsRespected == Spec => NoReservationWhileRefused
<1> DEFINE Step == \A c \in Callers :
             At(c, "reserve") /\ call'[c].pc = "granted" => refusedUntil <= clock
<1>1. IInv /\ [Next]_vars => [Step]_vars
  <2> SUFFICES ASSUME IInv, Next, NEW c \in Callers,
                      At(c, "reserve"), call'[c].pc = "granted"
               PROVE  refusedUntil <= clock
    OBVIOUS
  <2>1. Grant(c)
    <3>1. PICK d \in Callers : \/ \E size \in Sizes : Begin(d, size)
                              \/ CallStep(d) \/ Refuse(d) \/ Abandon(d)
      BY DEF Next, Tick, At
    <3>2. PICK row : call' = [call EXCEPT ![d] = row]
      BY <3>1 DEF CallStep, Begin, ReadClock, Reserve, WaitForProvider, WaitForWindow, Sleep,
                  Grant, Wake, Send, Answer, Settle, Refuse, BlockFor, Abandon
    <3>3. d = c /\ call'[c] = row
      BY <3>2 DEF At, IInv, TypeOK
    <3>4. ~Abandon(c) /\ \A state, ms : ~Sleep(c, state, ms)
      BY DEF Abandon, Sleep, Idle, IInv, TypeOK
    <3> QED
      BY <3>1, <3>3, <3>4 DEF CallStep, Begin, ReadClock, Reserve, WaitForProvider,
                  WaitForWindow, Wake, Send, Answer, Settle, Refuse, BlockFor, At
  <2>2. call[c].now \in 1..clock /\ quota.blockedUntil <= call[c].now
    BY <2>1, CallFields DEF Grant, At, IInv
  <2> QED
    BY <2>2 DEF IInv, QuotaInv, RefusalKept, TypeOK, QuotaRow
<1> QED
  BY <1>1, QuotaInvariant, PTL DEF Spec, NoReservationWhileRefused

=============================================================================
