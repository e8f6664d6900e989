-------------------------- MODULE LoginGuardProofs --------------------------
(***************************************************************************)
(* The budget of the login limiter, for every number of clients and every  *)
(* setting. The failures alone are not inductive: a refund or a sweep      *)
(* makes tokens out of nothing unless what is left in the bucket is        *)
(* counted too, which is what BudgetIsConserved does. Then the lifetime of *)
(* a session, for every lifetime and every rounding to seconds.            *)
(***************************************************************************)
EXTENDS LoginGuard, TLAPS

IInv == TypeOK /\ BudgetIsConserved

(* A full bucket, and one more or one login less, in units of time.        *)
LEMMA FullType == full \in Nat /\ full >= refill /\ full <= limiterSweepAfter
<1>1. \A b, r \in Nat \ {0} : b * r \in Nat /\ b * r >= r
  OBVIOUS
<1>2. QED
  BY <1>1, BucketAssumption, SweepAssumption DEF full

LEMMA OneMore ==
  ASSUME NEW n \in Nat
  PROVE  /\ refill * n \in Nat
         /\ refill * (n + 1) = refill * n + refill
         /\ n > 0 => refill * (n - 1) = refill * n - refill
BY BucketAssumption

(* Capping at a full bucket.                                               *)
LEMMA AtMostFullType ==
  ASSUME NEW n \in Nat
  PROVE  /\ AtMostFull(n) \in Nat
         /\ AtMostFull(n) <= full
         /\ AtMostFull(n) <= n
         /\ AtMostFull(n) = n \/ (AtMostFull(n) = full /\ full <= n)
BY FullType DEF AtMostFull

(* The tokens a login finds are what the client could spend: forgetting a  *)
(* bucket that has been idle for limiterSweepAfter changes nothing,        *)
(* because by then it is full.                                             *)
LEMMA SweepIsHarmless ==
  ASSUME IInv, NEW c \in Clients
  PROVE  /\ Swept \in [Clients -> Bucket \cup {None}]
         /\ \A d \in Clients : Swept[d] = buckets[d] \/ (Swept[d] = None /\ Level(d) = full)
         /\ Replenished(c) = Level(c)
         /\ Level(c) \in Nat /\ Level(c) <= full
<1>1. \A d \in Clients : buckets[d] # None =>
        /\ buckets[d].tokens \in Nat /\ buckets[d].lastSeen \in Nat
        /\ now - buckets[d].lastSeen \in Nat
        /\ buckets[d].tokens + (now - buckets[d].lastSeen) \in Nat
  BY DEF IInv, TypeOK, BudgetIsConserved, Bucket
<1>2. Swept \in [Clients -> Bucket \cup {None}]
  BY DEF IInv, TypeOK, Swept
<1>3. ASSUME NEW d \in Clients
      PROVE  /\ Swept[d] = buckets[d] \/ (Swept[d] = None /\ Level(d) = full)
             /\ Replenished(d) = Level(d)
             /\ Level(d) \in Nat /\ Level(d) <= full
  <2>1. CASE buckets[d] = None
    BY <2>1, FullType DEF Swept, Level, Replenished
  <2>2. CASE buckets[d] # None /\ now - buckets[d].lastSeen > limiterSweepAfter
    <3>1. full <= buckets[d].tokens + (now - buckets[d].lastSeen)
      BY <1>1, <2>2, FullType, SweepAssumption DEF IInv, TypeOK
    <3>2. Level(d) = full
      BY <1>1, <2>2, <3>1, FullType DEF Level, AtMostFull
    <3>3. Swept[d] = None
      BY <2>2 DEF Swept
    <3>4. QED
      BY <3>2, <3>3, FullType DEF Replenished
  <2>3. CASE buckets[d] # None /\ ~ (now - buckets[d].lastSeen > limiterSweepAfter)
    <3>1. Swept[d] = buckets[d]
      BY <2>3 DEF Swept
    <3>2. QED
      BY <1>1, <2>3, <3>1, AtMostFullType DEF Replenished, Level
  <2>4. QED
    BY <2>1, <2>2, <2>3
<1>4. QED
  BY <1>2, <1>3

-----------------------------------------------------------------------------
(* Every step keeps the budget.                                            *)

(* A step that leaves the others' buckets alone, up to the sweep, and      *)
(* settles c's account keeps everyone's.                                   *)
LEMMA OwnAccount ==
  ASSUME IInv, now' = now, started' = started, NEW c \in Clients,
         pending' \in [Clients -> Nat], failed' \in [Clients -> Nat],
         buckets' \in [Clients -> Bucket \cup {None}],
         \A d \in Clients \ {c} :
           /\ buckets'[d] = buckets[d] \/ buckets'[d] = Swept[d]
           /\ pending'[d] = pending[d] /\ failed'[d] = failed[d],
         buckets'[c] # None => buckets'[c].tokens <= full /\ buckets'[c].lastSeen <= now,
         refill * (failed'[c] + pending'[c]) + Level(c)' <= full + (now - started)
  PROVE  BudgetIsConserved'
<1>1. SUFFICES ASSUME NEW d \in Clients, d # c
               PROVE  /\ buckets'[d] # None =>
                           buckets'[d].tokens <= full /\ buckets'[d].lastSeen <= now
                      /\ refill * (failed[d] + pending[d]) + Level(d)' <= full + (now - started)
  BY DEF BudgetIsConserved, full
<1>2. buckets'[d] = buckets[d] \/ (buckets'[d] = None /\ Level(d) = full)
  BY SweepIsHarmless, <1>1
<1>3. Level(d)' = Level(d)
  BY <1>2 DEF Level, AtMostFull, full
<1>4. QED
  BY <1>1, <1>2, <1>3 DEF IInv, BudgetIsConserved

(* A bucket written now holds what its client can spend.                   *)
LEMMA NewBucketLevel ==
  ASSUME NEW c \in Clients, NEW n \in Nat, n <= full, now \in Nat, now' = now,
         buckets'[c] = [tokens |-> n, lastSeen |-> now]
  PROVE  Level(c)' = n
<1>1. buckets'[c] # None
  BY NoneAssumption
<1>2. buckets'[c].tokens = n /\ buckets'[c].lastSeen = now
  OBVIOUS
<1>3. Level(c)' = AtMostFull(buckets'[c].tokens + (now - buckets'[c].lastSeen))
  BY <1>1 DEF Level, AtMostFull, full
<1>4. QED
  BY <1>2, <1>3, FullType DEF AtMostFull

LEMMA AllowKeepsBudget ==
  ASSUME IInv, NEW c \in Clients, Allow(c)
  PROVE  IInv'
<1>1. /\ Replenished(c) = Level(c) /\ Level(c) \in Nat /\ Level(c) <= full
      /\ Swept \in [Clients -> Bucket \cup {None}]
  BY SweepIsHarmless
<1>2. /\ Level(c) - refill \in Nat /\ Level(c) - refill <= full
      /\ refill \in Nat /\ full \in Nat /\ now \in Nat
  BY <1>1, FullType, BucketAssumption DEF Allow, IInv, TypeOK
<1>3. buckets' = [Swept EXCEPT ![c] = [tokens |-> Level(c) - refill, lastSeen |-> now]]
  BY <1>1 DEF Allow, WithTokens
<1>4. buckets'[c] = [tokens |-> Level(c) - refill, lastSeen |-> now]
  BY <1>1, <1>3
<1>5. buckets' \in [Clients -> Bucket \cup {None}]
  BY <1>1, <1>2, <1>3 DEF Bucket
<1>6. TypeOK'
  BY <1>5 DEF Allow, IInv, TypeOK
<1>7. Level(c)' = Level(c) - refill
  BY <1>2, <1>4, NewBucketLevel DEF Allow
<1>8. /\ failed[c] + pending[c] \in Nat
      /\ failed'[c] + pending'[c] = (failed[c] + pending[c]) + 1
  BY DEF Allow, IInv, TypeOK
<1>9. refill * (failed'[c] + pending'[c]) + Level(c)' <= full + (now - started)
  <2>1. refill * (failed'[c] + pending'[c]) = refill * (failed[c] + pending[c]) + refill
    BY <1>8, OneMore
  <2>2. refill * (failed[c] + pending[c]) \in Nat
    BY <1>8, OneMore
  <2>3. refill * (failed[c] + pending[c]) + Level(c) <= full + (now - started)
    BY DEF IInv, BudgetIsConserved
  <2>4. QED
    BY <1>1, <1>2, <1>7, <2>1, <2>2, <2>3 DEF IInv, TypeOK
<1>10. BudgetIsConserved'
  BY <1>2, <1>3, <1>4, <1>5, <1>6, <1>9, OwnAccount DEF Allow, IInv, TypeOK
<1>11. QED
  BY <1>6, <1>10 DEF IInv

LEMMA ThrottleKeepsBudget ==
  ASSUME IInv, NEW c \in Clients, Throttle(c)
  PROVE  IInv'
<1>1. /\ Replenished(c) = Level(c) /\ Level(c) \in Nat /\ Level(c) <= full
      /\ Swept \in [Clients -> Bucket \cup {None}]
      /\ Swept[c] = buckets[c] \/ (Swept[c] = None /\ Level(c) = full)
      /\ now \in Nat
  BY SweepIsHarmless DEF IInv, TypeOK
<1>2. /\ buckets' \in [Clients -> Bucket \cup {None}]
      /\ \A d \in Clients \ {c} : buckets'[d] = Swept[d]
      /\ buckets'[c] # None => buckets'[c].tokens <= full /\ buckets'[c].lastSeen <= now
      /\ Level(c)' = Level(c)
  <2>1. CASE buckets' = Swept
    <3>1. Level(c)' = Level(c)
      BY <1>1, <2>1 DEF Throttle, Level, AtMostFull, full
    <3>2. QED
      BY <1>1, <2>1, <3>1 DEF IInv, BudgetIsConserved
  <2>2. CASE buckets' = WithTokens(c, Replenished(c))
    <3>1. buckets' = [Swept EXCEPT ![c] = [tokens |-> Level(c), lastSeen |-> now]]
      BY <1>1, <2>2 DEF WithTokens
    <3>2. buckets'[c] = [tokens |-> Level(c), lastSeen |-> now]
      BY <1>1, <3>1
    <3>3. Level(c)' = Level(c)
      BY <1>1, <3>2, NewBucketLevel DEF Throttle
    <3>4. buckets' \in [Clients -> Bucket \cup {None}]
      BY <1>1, <3>1 DEF Bucket
    <3>5. QED
      BY <1>1, <3>1, <3>2, <3>3, <3>4
  <2>3. QED
    BY <2>1, <2>2 DEF Throttle
<1>3. TypeOK'
  BY <1>2 DEF Throttle, IInv, TypeOK
<1>4. BudgetIsConserved'
  BY <1>2, OwnAccount DEF Throttle, IInv, TypeOK, BudgetIsConserved
<1>5. QED
  BY <1>3, <1>4 DEF IInv

LEMMA RejectKeepsBudget ==
  ASSUME IInv, NEW c \in Clients, Reject(c)
  PROVE  IInv'
<1>1. TypeOK'
  BY DEF Reject, IInv, TypeOK
<1>2. \A d \in Clients : failed'[d] + pending'[d] = failed[d] + pending[d]
  BY DEF Reject, IInv, TypeOK
<1>3. \A d \in Clients : Level(d)' = Level(d)
  BY DEF Reject, Level, AtMostFull, full
<1>4. BudgetIsConserved'
  BY <1>2, <1>3 DEF Reject, IInv, BudgetIsConserved, full
<1>5. QED
  BY <1>1, <1>4 DEF IInv

(* The refund may be lost in a full bucket, but never exceeds the token.   *)
LEMMA AcceptKeepsBudget ==
  ASSUME IInv, NEW c \in Clients, Accept(c)
  PROVE  IInv'
<1>1. /\ Level(c) \in Nat /\ Level(c) <= full
      /\ refill \in Nat /\ full \in Nat /\ now \in Nat
  BY SweepIsHarmless, FullType, BucketAssumption DEF IInv, TypeOK
<1>2. /\ buckets' \in [Clients -> Bucket \cup {None}]
      /\ \A d \in Clients \ {c} : buckets'[d] = buckets[d]
      /\ buckets'[c] # None => buckets'[c].tokens <= full /\ buckets'[c].lastSeen <= now
      /\ Level(c)' \in Nat /\ Level(c)' <= Level(c) + refill
  <2>1. CASE buckets[c] = None
    <3>1. buckets' = buckets
      BY <2>1 DEF Accept, Refund
    <3>2. Level(c)' = full /\ Level(c) = full
      BY <2>1, <3>1 DEF Level, full
    <3>3. QED
      BY <1>1, <2>1, <3>1, <3>2 DEF IInv, TypeOK
  <2>2. CASE buckets[c] # None
    <3> DEFINE old == buckets[c].tokens
               idle == now - buckets[c].lastSeen
               new == AtMostFull(old + refill)
    <3>1. /\ buckets[c] \in Bucket /\ old \in Nat /\ idle \in Nat
          /\ buckets[c].lastSeen \in Nat /\ buckets[c].lastSeen <= now
      BY <2>2 DEF IInv, TypeOK, BudgetIsConserved, Bucket
    <3>2. new \in Nat /\ new <= full /\ new <= old + refill
      BY <1>1, <3>1, AtMostFullType
    <3>3. buckets' = [buckets EXCEPT ![c] = [buckets[c] EXCEPT !.tokens = new]]
      BY <2>2 DEF Accept, Refund
    <3>4. buckets'[c] = [tokens |-> new, lastSeen |-> buckets[c].lastSeen]
      BY <3>1, <3>3 DEF IInv, TypeOK, Bucket
    <3>5. buckets' \in [Clients -> Bucket \cup {None}]
      BY <3>1, <3>2, <3>3 DEF IInv, TypeOK, Bucket
    <3>6. buckets'[c] # None
      BY <3>1, <3>2, <3>4, NoneAssumption
    <3>7. Level(c)' = AtMostFull(new + idle)
      <4>1. Level(c)' = AtMostFull(buckets'[c].tokens + (now' - buckets'[c].lastSeen))
        BY <3>6 DEF Level, AtMostFull, full
      <4>2. QED
        BY <3>4, <4>1 DEF Accept
    <3>8. /\ AtMostFull(new + idle) \in Nat
          /\ AtMostFull(new + idle) <= full
          /\ AtMostFull(new + idle) <= new + idle
      BY <3>1, <3>2, AtMostFullType
    <3>9. Level(c) = old + idle \/ Level(c) = full
      BY <2>2, <3>1, AtMostFullType DEF Level
    <3>10. Level(c)' <= Level(c) + refill
      BY <1>1, <3>1, <3>2, <3>7, <3>8, <3>9
    <3>11. QED
      BY <3>1, <3>2, <3>3, <3>4, <3>5, <3>7, <3>8, <3>10 DEF IInv, TypeOK
  <2>3. QED
    BY <2>1, <2>2
<1>3. TypeOK'
  <2>1. \A n \in Nat, s \in Nat \ {0} : n \div s \in Nat
    OBVIOUS
  <2>2. now + ttl \in Nat /\ key \in Nat
    BY <1>1, SessionAssumption DEF IInv, TypeOK
  <2>3. Unix(now + ttl) \in Nat
    BY <2>1, <2>2, SessionAssumption DEF Unix
  <2>4. Issue \in Token
    BY <1>1, <2>2, <2>3 DEF Issue, Token
  <2>5. cookie' \in Token \cup {None}
    BY <2>4, Zenon DEF Accept, IInv, TypeOK
  <2>6. pending' \in [Clients -> Nat]
    BY DEF Accept, IInv, TypeOK
  <2>7. QED
    BY <1>2, <2>5, <2>6 DEF Accept, IInv, TypeOK
<1>4. /\ failed[c] + pending[c] \in Nat /\ failed[c] + pending[c] > 0
      /\ failed'[c] + pending'[c] = (failed[c] + pending[c]) - 1
  BY DEF Accept, IInv, TypeOK
<1>5. refill * (failed'[c] + pending'[c]) + Level(c)' <= full + (now - started)
  <2>1. /\ refill * (failed'[c] + pending'[c]) = refill * (failed[c] + pending[c]) - refill
        /\ refill * (failed[c] + pending[c]) \in Nat
    BY <1>4, OneMore
  <2>2. refill * (failed[c] + pending[c]) + Level(c) <= full + (now - started)
    BY DEF IInv, BudgetIsConserved
  <2>3. QED
    BY <1>1, <1>2, <2>1, <2>2 DEF IInv, TypeOK
<1>6. BudgetIsConserved'
  BY <1>2, <1>3, <1>5, OwnAccount DEF Accept, IInv, TypeOK
<1>7. QED
  BY <1>3, <1>6 DEF IInv

(* Nobody earns faster than time passes.                                   *)
LEMMA TickKeepsBudget ==
  ASSUME IInv, Tick
  PROVE  IInv'
<1>1. TypeOK'
  BY DEF Tick, IInv, TypeOK
<1>2. SUFFICES ASSUME NEW c \in Clients
               PROVE  /\ buckets[c] # None =>
                           buckets[c].tokens <= full /\ buckets[c].lastSeen <= now + 1
                      /\ refill * (failed[c] + pending[c]) + Level(c)'
                           <= full + ((now + 1) - started)
  BY <1>1 DEF Tick, IInv, BudgetIsConserved, full
<1>3. /\ Level(c) \in Nat /\ full \in Nat /\ now \in Nat /\ started \in Nat
  BY SweepIsHarmless, FullType DEF IInv, TypeOK
<1>4. Level(c)' \in Nat /\ Level(c)' <= Level(c) + 1
  <2>1. CASE buckets[c] = None
    BY <1>3, <2>1 DEF Level, Tick, full
  <2>2. CASE buckets[c] # None
    <3> DEFINE sum == buckets[c].tokens + (now - buckets[c].lastSeen)
    <3>1. sum \in Nat /\ buckets[c].tokens + ((now + 1) - buckets[c].lastSeen) = sum + 1
      BY <2>2 DEF IInv, TypeOK, BudgetIsConserved, Bucket
    <3>2. Level(c)' = AtMostFull(sum + 1) /\ Level(c) = AtMostFull(sum)
      BY <2>2, <3>1 DEF Level, Tick, AtMostFull, full
    <3>3. QED
      BY <1>3, <3>1, <3>2 DEF AtMostFull
  <2>3. QED
    BY <2>1, <2>2
<1>5. refill * (failed[c] + pending[c]) \in Nat
  BY OneMore DEF IInv, TypeOK
<1>6. QED
  BY <1>3, <1>4, <1>5 DEF IInv, TypeOK, BudgetIsConserved, Bucket

LEMMA InitBudget == Init => IInv
<1>1. refill * (0 + 0) = 0 /\ full \in Nat
  BY FullType, BucketAssumption
<1>2. QED
  BY <1>1 DEF Init, NoBuckets, Zero, IInv, TypeOK, BudgetIsConserved, Level

LEMMA RestartKeepsBudget ==
  ASSUME IInv, Restart
  PROVE  IInv'
<1>1. refill * (0 + 0) = 0 /\ full \in Nat
  BY FullType, BucketAssumption
<1>2. TypeOK'
  BY DEF Restart, NoBuckets, Zero, IInv, TypeOK
<1>3. \A c \in Clients : Level(c)' = full
  BY DEF Restart, NoBuckets, Level, full
<1>4. BudgetIsConserved'
  BY <1>1, <1>3 DEF Restart, NoBuckets, Zero, IInv, TypeOK, BudgetIsConserved, full
<1>5. QED
  BY <1>2, <1>4 DEF IInv

LEMMA BudgetIsInductive == IInv /\ [Next]_vars => IInv'
<1> SUFFICES ASSUME IInv, [Next]_vars
             PROVE  IInv'
  OBVIOUS
<1>1. CASE Logout
  BY <1>1 DEF Logout, IInv, TypeOK, BudgetIsConserved, Level, AtMostFull, full
<1>2. CASE UNCHANGED vars
  BY <1>2 DEF vars, IInv, TypeOK, BudgetIsConserved, Level, AtMostFull, full
<1>3. QED
  BY <1>1, <1>2, AllowKeepsBudget, ThrottleKeepsBudget, RejectKeepsBudget,
     AcceptKeepsBudget, RestartKeepsBudget, TickKeepsBudget DEF Next

-----------------------------------------------------------------------------
(* The limiter's table, its counters and the issued tokens are well-formed *)
(* after any sequence of logins, sweeps, refunds and restarts; tokens      *)
(* never go below zero.                                                    *)
THEOREM TypeCorrect == Spec => []TypeOK
<1>1. IInv => TypeOK
  BY DEF IInv
<1>2. QED
  BY <1>1, InitBudget, BudgetIsInductive, PTL DEF Spec

(* What a client's logins spent and what its bucket holds never exceed     *)
(* what Allow's token bucket has earned since the process started.         *)
THEOREM BudgetConserved == Spec => []BudgetIsConserved
<1>1. IInv => BudgetIsConserved
  BY DEF IInv
<1>2. QED
  BY <1>1, InitBudget, BudgetIsInductive, PTL DEF Spec

(* The failed and undecided logins of a client are within one full bucket  *)
(* plus what time refilled, although Allow, the password check and Refund  *)
(* are separate steps of concurrent handlers and buckets are swept.        *)
THEOREM FailuresBounded == Spec => []FailuresAreBounded
<1>1. IInv => FailuresAreBounded
  <2>1. SUFFICES ASSUME IInv, NEW c \in Clients
                 PROVE  refill * (failed[c] + pending[c]) <= full + (now - started)
    BY DEF FailuresAreBounded
  <2>2. refill * (failed[c] + pending[c]) \in Nat
    BY <2>1, OneMore DEF IInv, TypeOK
  <2>3. Level(c) \in Nat /\ full \in Nat
    BY <2>1, SweepIsHarmless, FullType
  <2>4. QED
    BY <2>1, <2>2, <2>3 DEF IInv, TypeOK, BudgetIsConserved
<1>2. QED
  BY <1>1, InitBudget, BudgetIsInductive, PTL DEF Spec

-----------------------------------------------------------------------------
(* Sessions. Whole seconds round down: a time that is not earlier is not   *)
(* in an earlier second, and one that is a second later is in a later one. *)
LEMMA WholeSeconds ==
  ASSUME NEW a \in Nat
  PROVE  /\ Unix(a) \in Nat
         /\ second * Unix(a) <= a
         /\ a < second * Unix(a) + second
BY SessionAssumption DEF Unix

LEMMA LaterSeconds ==
  ASSUME NEW a \in Nat, NEW b \in Nat
  PROVE  /\ a <= b => Unix(a) <= Unix(b)
         /\ a + second <= b => Unix(a) < Unix(b)
<1>1. \A s, p, q \in Nat : p + 1 <= q => s * p + s <= s * q
  <2>1. SUFFICES ASSUME NEW s \in Nat, NEW p \in Nat, NEW q \in Nat, p + 1 <= q
                 PROVE  s * p + s <= s * q
    OBVIOUS
  <2>2. PICK d \in Nat : q = (p + 1) + d
    <3>1. q - (p + 1) \in Nat /\ q = (p + 1) + (q - (p + 1))
      BY <2>1
    <3>2. QED
      BY <3>1
  <2>3. s * q = (s * p + s) + s * d /\ s * d \in Nat /\ s * p \in Nat
    BY <2>2
  <2>4. QED
    BY <2>3
<1>2. \A s, p, q \in Nat : p <= q => s * p <= s * q
  <2>1. SUFFICES ASSUME NEW s \in Nat, NEW p \in Nat, NEW q \in Nat, p <= q, p # q
                 PROVE  s * p <= s * q
    OBVIOUS
  <2>2. s * p + s <= s * q /\ s * p \in Nat /\ s * q \in Nat
    BY <1>1, <2>1
  <2>3. QED
    BY <2>2
<1>3. /\ second \in Nat /\ second > 0
      /\ second * Unix(a) \in Nat /\ second * Unix(b) \in Nat
  BY SessionAssumption, WholeSeconds
<1>4. ASSUME a <= b PROVE Unix(a) <= Unix(b)
  <2>1. SUFFICES ASSUME Unix(b) + 1 <= Unix(a) PROVE FALSE
    BY WholeSeconds
  <2>2. second * Unix(b) + second <= second * Unix(a)
    BY <1>1, <1>3, <2>1, WholeSeconds
  <2>3. QED
    BY <1>3, <1>4, <2>2, WholeSeconds
<1>5. ASSUME a + second <= b PROVE Unix(a) < Unix(b)
  <2>1. SUFFICES ASSUME Unix(b) <= Unix(a) PROVE FALSE
    BY WholeSeconds
  <2>2. second * Unix(b) <= second * Unix(a)
    BY <1>2, <1>3, <2>1, WholeSeconds
  <2>3. QED
    BY <1>3, <1>5, <2>2, WholeSeconds
<1>6. QED
  BY <1>4, <1>5

(* A token is of the past and of a key up to the current one, and one that *)
(* the generated key of this process signed was issued by this process.    *)
Genuine(token) ==
  /\ token.expiry = Unix(token.issued_at + ttl)
  /\ token.key <= key
  /\ token.issued_at <= now
  /\ ~KeyConfigured /\ token.key = key => started <= token.issued_at

SessionInv == TypeOK /\ (cookie # None => cookie \in Token /\ Genuine(cookie))

LEMMA SessionInit == Init => SessionInv
BY InitBudget DEF Init, IInv, SessionInv

LEMMA SessionStep == SessionInv /\ IInv /\ [Next]_vars => SessionInv'
<1>1. SUFFICES ASSUME SessionInv, IInv, [Next]_vars
               PROVE  cookie' # None => cookie' \in Token /\ Genuine(cookie)'
  BY BudgetIsInductive DEF SessionInv, IInv
<1>2. CASE cookie' = cookie /\ UNCHANGED <<now, started, key>>
  BY <1>1, <1>2 DEF SessionInv, Genuine, Unix
<1>3. ASSUME NEW c \in Clients, Accept(c), cookie' = Issue
      PROVE  cookie' \in Token /\ Genuine(cookie)'
  <2>1. /\ now \in Nat /\ started \in Nat /\ started <= now /\ key \in Nat
        /\ now + ttl \in Nat
    BY <1>1, SessionAssumption DEF SessionInv, TypeOK
  <2>2. /\ cookie'.expiry = Unix(now + ttl) /\ cookie'.key = key
        /\ cookie'.issued_at = now /\ UNCHANGED <<now, started, key>>
    BY <1>3 DEF Issue, Accept
  <2>3. cookie' \in Token
    BY <1>3, <2>1, WholeSeconds DEF Issue, Token
  <2>4. QED
    BY <2>1, <2>2, <2>3 DEF Genuine, Unix
<1>4. CASE Restart
  <2>1. SUFFICES ASSUME cookie # None
                 PROVE  cookie \in Token /\ Genuine(cookie)'
    BY <1>4 DEF Restart
  <2>2. /\ cookie \in Token /\ Genuine(cookie) /\ key \in Nat
        /\ cookie.key \in Nat /\ cookie.issued_at \in Nat
    BY <1>1, <2>1 DEF SessionInv, TypeOK, Token
  <2>3. CASE KeyConfigured
    BY <1>4, <2>2, <2>3 DEF Restart, Genuine, Unix
  <2>4. CASE ~KeyConfigured
    <3>1. key' = key + 1 /\ cookie' = cookie /\ now' = now
      BY <1>4, <2>4 DEF Restart
    <3>2. cookie.key <= key' /\ cookie.key # key'
      BY <2>2, <3>1 DEF Genuine
    <3>3. QED
      BY <2>2, <3>1, <3>2 DEF Genuine, Unix
  <2>5. QED
    BY <2>3, <2>4
<1>5. CASE Tick
  <2>1. SUFFICES ASSUME cookie # None
                 PROVE  cookie \in Token /\ Genuine(cookie)'
    BY <1>5 DEF Tick
  <2>2. /\ cookie \in Token /\ Genuine(cookie)
        /\ cookie.issued_at \in Nat /\ now \in Nat
        /\ now' = now + 1 /\ UNCHANGED <<started, key, cookie>>
    BY <1>1, <1>5, <2>1 DEF SessionInv, TypeOK, Token, Tick
  <2>3. QED
    BY <2>2 DEF Genuine, Unix
<1>6. CASE Logout
  BY <1>6 DEF Logout
<1>7. ASSUME NEW c \in Clients, Accept(c), cookie' # Issue
      PROVE  cookie' = cookie /\ UNCHANGED <<now, started, key>>
  BY <1>7, Zenon DEF Accept
<1>8. QED
  BY <1>1, <1>2, <1>3, <1>4, <1>5, <1>6, <1>7 DEF Next, vars, Allow, Throttle, Reject

(* A session is accepted for its lifetime, up to the rounding of expiry to *)
(* whole seconds, and never longer; with a generated key, not after the    *)
(* process that issued it has been replaced (session.go).                  *)
THEOREM SessionsEnd == Spec => []SessionLifetime
<1>1. SessionInv => SessionLifetime
  <2>1. SUFFICES ASSUME SessionInv, cookie # None
                 PROVE  /\ Verify(cookie) =>
                             /\ now < cookie.issued_at + ttl
                             /\ KeyConfigured \/ started <= cookie.issued_at
                        /\ cookie.key = key /\ now + second <= cookie.issued_at + ttl
                             => Verify(cookie)
    BY DEF SessionLifetime
  <2>2. /\ Genuine(cookie) /\ now \in Nat /\ cookie.issued_at + ttl \in Nat
    BY <2>1, SessionAssumption DEF SessionInv, TypeOK, Token
  <2>3. /\ cookie.issued_at + ttl <= now => Unix(cookie.issued_at + ttl) <= Unix(now)
        /\ now + second <= cookie.issued_at + ttl => Unix(now) < Unix(cookie.issued_at + ttl)
        /\ Unix(now) \in Nat /\ Unix(cookie.issued_at + ttl) \in Nat
    BY <2>2, LaterSeconds, WholeSeconds
  <2>4. QED
    BY <2>2, <2>3 DEF Verify, Genuine
<1>2. QED
  BY <1>1, InitBudget, BudgetIsInductive, SessionInit, SessionStep, PTL DEF Spec
=============================================================================
