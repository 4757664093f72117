----------------------------- MODULE RateLimit -----------------------------
(***************************************************************************)
(* checkRateLimit() of lib/production/rate-limit.ts, for one key: the      *)
(* calls of one address on api/leads, api/consulting or api/checkout.      *)
(*                                                                         *)
(* A bucket counts the calls from its first one on until it expires; the   *)
(* next call then opens another.  The buckets are in the memory of the     *)
(* instance: when it is restarted they are lost, but time goes on.         *)
(***************************************************************************)
EXTENDS Integers, Sequences, FiniteSets

CONSTANTS
    PerBucket,  \* calls admitted by one bucket: max
    Window,     \* how long a bucket lasts: windowMs
    MaxCount,   \* bound on the calls that a bucket counts
    MaxTime,    \* bound on the time
    MaxLives    \* bound on the lives of the instance

ASSUME RateAssumption ==
    /\ PerBucket \in Nat \ {0}
    /\ Window \in Nat \ {0}
    /\ MaxCount \in Nat /\ MaxTime \in Nat /\ MaxLives \in Nat \ {0}

VARIABLES
    time,      \* Date.now(), which does not go back
    bucket,    \* the key's bucket; its count is 0 if there is none
    life,      \* how many times the instance has been started
    admitted   \* history: of each admitted call, when, in which life and into
               \* the bucket opened when

rateVars == <<time, bucket, life, admitted>>

NoBucket == [count |-> 0, resetAt |-> 0]

RateInit ==
    /\ time = 0 /\ life = 1
    /\ bucket = NoBucket
    /\ admitted = <<>>

-----------------------------------------------------------------------------

Expired == bucket.count = 0 \/ time > bucket.resetAt

Admission(opened) == [at |-> time, life |-> life, opened |-> opened]

\* The first call, and the first after the bucket has expired, opens a new one.
OpenBucket ==
    /\ Expired
    /\ bucket' = [count |-> 1, resetAt |-> time + Window]
    /\ admitted' = Append(admitted, Admission(time))
    /\ UNCHANGED <<time, life>>

\* Mutant: the count is looked at before the call is counted.
HasRoomBefore == bucket.count <= PerBucket

\* The call is counted, and admitted if the count is then within the limit.
HasRoom == bucket.count + 1 <= PerBucket

CountCall ==
    /\ ~ Expired /\ bucket.count < MaxCount
    /\ bucket' = [bucket EXCEPT !.count = @ + 1]
    /\ admitted' = IF HasRoom
                   THEN Append(admitted, Admission(bucket.resetAt - Window)) ELSE admitted
    /\ UNCHANGED <<time, life>>

TimePasses ==
    /\ time < MaxTime /\ time' = time + 1
    /\ UNCHANGED <<bucket, life, admitted>>

\* The instance is started anew.
LoseBuckets ==
    /\ life < MaxLives /\ life' = life + 1
    /\ bucket' = NoBucket
    /\ UNCHANGED <<time, admitted>>

RateNext == OpenBucket \/ CountCall \/ TimePasses \/ LoseBuckets

RateSpec == RateInit /\ [][RateNext]_rateVars

-----------------------------------------------------------------------------

RateTypeOK ==
    /\ time \in 0 .. MaxTime
    /\ bucket \in [count : Nat, resetAt : Nat]
    /\ life \in 1 .. MaxLives
    /\ admitted \in Seq([at : Nat, life : Nat, opened : Nat])

\* The calls that one life of the instance admitted in a stretch of one window.
AdmittedIn(l, from) ==
    {i \in DOMAIN admitted : /\ admitted[i].life = l
                             /\ admitted[i].at \in from .. from + Window}

\* However the calls fall: the limit is not kept of every stretch of time as long as a
\* window, since around the end of a bucket two buckets admit calls; but no stretch has
\* more than twice the limit from one life of the instance.  (A restarted instance, or
\* another one, admits as many on top.)  And no call is refused unless as many as the
\* limit were admitted within the last window by this life.
RateKept ==
    /\ \A l \in 1 .. life, from \in 0 .. time :
           Cardinality(AdmittedIn(l, from)) <= 2 * PerBucket
    /\ ~ Expired /\ ~ HasRoom => Cardinality(AdmittedIn(life, time - Window)) >= PerBucket

=============================================================================
