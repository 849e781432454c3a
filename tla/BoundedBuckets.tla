--------------------------- MODULE BoundedBuckets ---------------------------
(***************************************************************************)
(* What a distribution promises: waiting keys go to the bucket that is     *)
(* their home, which holds no more than limit of them, or aside, which     *)
(* they may only when their bucket is full.  Any number of keys may go at  *)
(* once.  When no key waits, the buckets are handed over and the next      *)
(* distribution may begin.                                                 *)
(***************************************************************************)
EXTENDS Naturals, FiniteSets

VARIABLES
    home,       \* the bucket of each key
    limit,
    waiting,    \* the number of copies of each key that wait,
    held,       \* are in each bucket
    aside       \* and are aside

vars == <<home, limit, waiting, held, aside>>

None == [key \in DOMAIN home |-> 0]
AllEmpty(buckets) == \A i \in DOMAIN buckets : buckets[i] = None

(* The number of keys in a bucket. *)
Size(copies) == Cardinality(UNION {{key} \X (1..copies[key]) : key \in DOMAIN copies})

Init == waiting = None /\ aside = None /\ AllEmpty(held)

Begin == waiting = None /\ aside' = None' /\ AllEmpty(held)'

(* Keys go from w to h and a, and w1, h1 and a1 are what comes of it. *)
Moves(of, w, h, a, w1, h1, a1) ==
    /\ w1 # w
    /\ DOMAIN h1 = DOMAIN h
    /\ \A i \in DOMAIN h :
          /\ Size(h1[i]) <= limit
          /\ \A key \in DOMAIN of : /\ h1[i][key] >= h[i][key]
                                    /\ h1[i][key] > 0 => of[key] = i
    /\ \A key \in DOMAIN of :
          /\ w1[key] <= w[key]
          /\ w1[key] + h1[of[key]][key] + a1[key] = w[key] + h[of[key]][key] + a[key]
          /\ a1[key] >= a[key]
          /\ a1[key] > a[key] => Size(h1[of[key]]) = limit

Move ==
    /\ \E of \in {home}, w \in {waiting}, h \in {held}, a \in {aside},
          w1 \in {waiting'}, h1 \in {held'}, a1 \in {aside'} : Moves(of, w, h, a, w1, h1, a1)
    /\ UNCHANGED <<home, limit>>

Spec == Init /\ [][Begin \/ Move]_vars
=============================================================================
