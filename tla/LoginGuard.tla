----------------------------- MODULE LoginGuard -----------------------------
(***************************************************************************)
(* The console's login guard (auth/auth.go, limiter.go, session.go): a     *)
(* token bucket per client address, the login handler, and signed session  *)
(* tokens. Handlers run concurrently: a login spends its token before the  *)
(* slow password check and gets it back only after a successful one, and   *)
(* buckets come and go meanwhile. Buckets and a generated signing key live *)
(* in memory and end with the process; cookies do not. A bucket's tokens   *)
(* are counted in the time it takes to earn them (refill is one token), so *)
(* that the arithmetic is exact. Password hashing is an oracle.            *)
(***************************************************************************)
EXTENDS Integers, FiniteSets

CONSTANTS
  Clients,            \* client addresses
  burst,              \* tokens of a full bucket
  refill,             \* time to earn one token
  limiterSweepAfter,  \* idle time after which a bucket is forgotten
  maxTrackedClients,  \* size of the bucket table
  ttl,                \* lifetime of a session
  second,             \* clock units per second; expiry is in whole seconds
  KeyConfigured,      \* a session key is configured and survives restarts
  MaxNow,             \* bound on the clock
  MaxRestarts,        \* bound on the restarts that generate a key
  None                \* no bucket, no cookie

ASSUME BucketAssumption == burst \in Nat \ {0} /\ refill \in Nat \ {0}
(* 30 minutes against 8 * 30 seconds in limiter.go.                        *)
ASSUME SweepAssumption == limiterSweepAfter \in Nat /\ burst * refill <= limiterSweepAfter
ASSUME SessionAssumption ==
  ttl \in Nat \ {0} /\ second \in Nat \ {0} /\ KeyConfigured \in BOOLEAN
ASSUME BoundAssumption ==
  maxTrackedClients \in Nat /\ MaxNow \in Nat /\ MaxRestarts \in Nat
ASSUME NoneAssumption == None \notin [tokens : Nat, lastSeen : Nat]

VARIABLES
  now,      \* the clock
  started,  \* when the process started
  key,      \* the signing key: how often it was generated
  buckets,  \* the limiter's table
  pending,  \* per client, logins that were allowed and are not decided
  failed,   \* per client, logins that failed since the process started
  cookie    \* the token a browser holds

vars == <<now, started, key, buckets, pending, failed, cookie>>

Bucket == [tokens : Nat, lastSeen : Nat]

(* Unix seconds of a time.                                                 *)
Unix(t) == t \div second

(* issued_at is not part of the token; the properties compare with it.     *)
Token == [expiry : Nat, key : Nat, issued_at : Nat]

TypeOK ==
  /\ now \in Nat
  /\ started \in Nat /\ started <= now
  /\ key \in Nat
  /\ buckets \in [Clients -> Bucket \cup {None}]
  /\ pending \in [Clients -> Nat]
  /\ failed \in [Clients -> Nat]
  /\ cookie \in Token \cup {None}

NoBuckets == [c \in Clients |-> None]
Zero == [c \in Clients |-> 0]

Init ==
  /\ now = 0
  /\ started = 0
  /\ key = 0
  /\ buckets = NoBuckets
  /\ pending = Zero
  /\ failed = Zero
  /\ cookie = None

-----------------------------------------------------------------------------
(* The limiter.                                                            *)

full == burst * refill

AtMostFull(n) == IF n < full THEN n ELSE full

(* Mutant: a bucket is forgotten once it earned a single token.            *)
SweptEarly ==
  [c \in Clients |->
     IF buckets[c] # None /\ now - buckets[c].lastSeen >= refill THEN None ELSE buckets[c]]

(* sweepLocked                                                             *)
Swept ==
  [c \in Clients |->
     IF buckets[c] # None /\ now - buckets[c].lastSeen > limiterSweepAfter THEN None
     ELSE buckets[c]]

IsSaturated(c) ==
  Swept[c] = None /\ Cardinality({d \in Clients : Swept[d] # None}) >= maxTrackedClients

(* The tokens of c's bucket, found or created, after replenishing.         *)
Replenished(c) ==
  IF Swept[c] = None THEN full
  ELSE AtMostFull(Swept[c].tokens + (now - Swept[c].lastSeen))

WithTokens(c, n) == [Swept EXCEPT ![c] = [tokens |-> n, lastSeen |-> now]]

(* Allow lets the login through and takes its token.                       *)
Allow(c) ==
  /\ ~ IsSaturated(c)
  /\ Replenished(c) >= refill
  /\ buckets' = WithTokens(c, Replenished(c) - refill)
  /\ pending' = [pending EXCEPT ![c] = @ + 1]
  /\ UNCHANGED <<now, started, key, failed, cookie>>

(* Allow throttles the login: no bucket to be had, or no token in it.      *)
Throttle(c) ==
  /\ \/ IsSaturated(c) /\ buckets' = Swept
     \/ /\ ~ IsSaturated(c)
        /\ Replenished(c) < refill
        /\ buckets' = WithTokens(c, Replenished(c))
  /\ UNCHANGED <<now, started, key, pending, failed, cookie>>

(* Refund goes to the bucket there is now, if there is one.                *)
Refund(c) ==
  IF buckets[c] = None THEN buckets
  ELSE [buckets EXCEPT ![c].tokens = AtMostFull(@ + refill)]

-----------------------------------------------------------------------------
(* The login handler after Allow, and sessions.                            *)

(* A malformed form, a wrong password, or no session can be issued.        *)
Reject(c) ==
  /\ pending[c] > 0
  /\ pending' = [pending EXCEPT ![c] = @ - 1]
  /\ failed' = [failed EXCEPT ![c] = @ + 1]
  /\ UNCHANGED <<now, started, key, buckets, cookie>>

Issue == [expiry |-> Unix(now + ttl), key |-> key, issued_at |-> now]

(* The password is right: a token is issued, the login refunded. The       *)
(* browser is the one watched or another.                                  *)
Accept(c) ==
  /\ pending[c] > 0
  /\ pending' = [pending EXCEPT ![c] = @ - 1]
  /\ buckets' = Refund(c)
  /\ cookie' \in {cookie, Issue}
  /\ UNCHANGED <<now, started, key, failed>>

(* Mutant: valid in the second it expires.                                 *)
VerifyInclusive(token) == token.key = key /\ Unix(now) <= token.expiry

Verify(token) == token.key = key /\ Unix(now) < token.expiry

(* logout clears the cookie; nothing is revoked.                           *)
Logout ==
  /\ cookie' = None
  /\ UNCHANGED <<now, started, key, buckets, pending, failed>>

(* The process is replaced: the table is empty, a generated key is new,    *)
(* and the logins under way are lost. Only new keys need a bound.          *)
Restart ==
  /\ key < MaxRestarts
  /\ started' = now
  /\ key' = IF KeyConfigured THEN key ELSE key + 1
  /\ buckets' = NoBuckets
  /\ pending' = Zero
  /\ failed' = Zero
  /\ UNCHANGED <<now, cookie>>

Tick ==
  /\ now < MaxNow
  /\ now' = now + 1
  /\ UNCHANGED <<started, key, buckets, pending, failed, cookie>>

Next ==
  \/ \E c \in Clients : Allow(c) \/ Throttle(c) \/ Reject(c) \/ Accept(c)
  \/ Logout \/ Restart \/ Tick

Spec == Init /\ [][Next]_vars

-----------------------------------------------------------------------------
(* However logins overlap, succeed, fail and refund each other's buckets,  *)
(* and however buckets are swept and made anew: the logins of one client   *)
(* that failed or may still fail are within the budget of one bucket that  *)
(* was full when the process started.                                      *)
FailuresAreBounded ==
  \A c \in Clients : refill * (failed[c] + pending[c]) <= full + (now - started)

(* What the client could spend now.                                        *)
Level(c) ==
  IF buckets[c] = None THEN full
  ELSE AtMostFull(buckets[c].tokens + (now - buckets[c].lastSeen))

(* What is spent and what is left is never more than was earned.           *)
BudgetIsConserved ==
  \A c \in Clients :
    /\ buckets[c] # None => buckets[c].tokens <= full /\ buckets[c].lastSeen <= now
    /\ refill * (failed[c] + pending[c]) + Level(c) <= full + (now - started)

(* A session is valid for its lifetime, short of the last second at most,  *)
(* and never beyond it or, with a generated key, beyond the process.       *)
SessionLifetime ==
  cookie # None =>
    /\ Verify(cookie) =>
         /\ now < cookie.issued_at + ttl
         /\ KeyConfigured \/ started <= cookie.issued_at
    /\ cookie.key = key /\ now + second <= cookie.issued_at + ttl => Verify(cookie)
=============================================================================
