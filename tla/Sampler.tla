------------------------------ MODULE Sampler -------------------------------
(***************************************************************************)
(* The sampler of a thread (sampler.h, sampler.cc) and the allocation      *)
(* paths that ask it (tcmalloc.cc).  A sampling point is a number of bytes *)
(* picked at random; the allocation that reaches it is sampled.  On the    *)
(* fast path bytes_until_sample_ counts down to it.  Off the fast path     *)
(* that counter is 0, so that every allocation takes the slow path, and    *)
(* true_bytes_until_sample_ counts.  Whether the process is on the fast    *)
(* path (hooks, per-CPU mode) and the sampling rate change at any time;    *)
(* the sampler notices when it is next on the slow path.                   *)
(***************************************************************************)
EXTENDS Integers

CONSTANTS Rates,    \* values of profile_sampling_rate()
          Points,   \* what GetGeometricVariable() may return
          FarPoint, \* the point while sampling is off (128 MiB in the code)
          Sizes     \* requested sizes

VARIABLES sampler,  \* the Sampler's fields
          onFast,   \* Static::IsOnFastPath()
          rate,     \* Parameters::profile_sampling_rate()
          since,    \* bytes since the last point was picked: requested, counted, the
                    \* point, the rate it was picked at and how many were picked
          sample    \* the last allocation: its weight, 0 if it was not sampled, the one
                    \* its point and the bytes since give, and which point that was

samplerVars == <<sampler, onFast, rate, since, sample>>

NewSampler == [bytes |-> 0, true |-> 0, period |-> 0, was |-> FALSE, inited |-> FALSE]

GetGeometricVariable == Points
PickNextSamplingPoint ==
    IF rate <= 0 THEN {FarPoint} ELSE IF rate = 1 THEN {1} ELSE GetGeometricVariable

\* UpdateFastPathState().  Mutant: without keeping the counter.
UpdateForgets(s) == [s EXCEPT !.was = onFast]
Update(s) ==
    IF s.was = onFast THEN s
    ELSE IF onFast THEN [s EXCEPT !.bytes = s.true, !.true = 0, !.was = TRUE]
    ELSE [s EXCEPT !.bytes = 0, !.true = s.bytes, !.was = FALSE]

\* Init(): the first point.
Started(s, p) ==
    [bytes |-> IF onFast THEN p ELSE s.bytes, true |-> p, period |-> rate,
     was |-> onFast, inited |-> TRUE]

\* RecordAllocationSlow(k) of an initialized sampler: not yet, ...
NotYet(s, k) ==
    IF onFast THEN [s EXCEPT !.bytes = s.true - k, !.true = 0, !.was = TRUE]
    ELSE [s EXCEPT !.bytes = 0, !.true = @ - k, !.was = FALSE]
\* ... or now, with a new point.
Weight(s, k) == s.period + k - (IF s.was THEN s.bytes ELSE s.true)
Picked(s, p) ==
    [s EXCEPT !.bytes = IF onFast THEN p ELSE 0, !.true = IF onFast THEN 0 ELSE p,
              !.was = onFast, !.period = rate]

\* The bytes since the last point, after an allocation that picks none.
Counts(size) == [since EXCEPT !.requested = @ + size, !.counted = @ + size + 1]
At(p) == [requested |-> 0, counted |-> 0, point |-> p, period |-> rate,
          picks |-> IF since.picks < 2 THEN since.picks + 1 ELSE 2]
Unsampled == [weight |-> 0, exact |-> 0, picks |-> 0]

Slow(s, size, k, ghost) ==
    IF s.true > k
    THEN /\ sampler' = NotYet(s, k)
         /\ since' = [ghost EXCEPT !.requested = @ + size, !.counted = @ + k]
         /\ sample' = Unsampled
    ELSE \E p \in PickNextSamplingPoint :
         /\ sampler' = Picked(s, p)
         /\ since' = [At(p) EXCEPT !.picks = IF ghost.picks < 2 THEN ghost.picks + 1 ELSE 2]
         /\ sample' = IF rate <= 0 THEN Unsampled
                      ELSE [weight |-> Weight(s, k),
                            exact |-> ghost.period + ghost.counted + k - ghost.point,
                            picks |-> ghost.picks]

\* RecordAllocation(k), the first call of which initializes the sampler.
RecordAllocation(s, size) ==
    LET k == size + 1
    IN IF s.bytes > k
       THEN /\ sampler' = [s EXCEPT !.bytes = @ - k]
            /\ since' = Counts(size)
            /\ sample' = Unsampled
       ELSE IF s.inited THEN Slow(s, size, k, since)
       ELSE \E p \in PickNextSamplingPoint :
            LET i == Started(s, p)
            IN IF p > k
               THEN /\ sampler' = [i EXCEPT !.bytes = IF onFast THEN @ - k ELSE @, !.true = @ - k]
                    /\ since' = [At(p) EXCEPT !.requested = size, !.counted = k]
                    /\ sample' = Unsampled
               ELSE Slow(i, size, k, At(p))

\* fast_alloc(): TryRecordAllocationFast(), which takes the bytes off, else slow_alloc(), where a large size goes
\* at once.
TryRecordAllocationFast(size) == sampler.bytes - (size + 1) > 0
FastAlloc(size) ==
    /\ TryRecordAllocationFast(size)
    /\ sampler' = [sampler EXCEPT !.bytes = @ - (size + 1)]
    /\ since' = Counts(size)
    /\ sample' = Unsampled
    /\ UNCHANGED <<onFast, rate>>
SlowAlloc(size, large) ==
    /\ large \/ ~TryRecordAllocationFast(size)
    /\ RecordAllocation(Update(sampler), size)
    /\ UNCHANGED <<onFast, rate>>
\* An allocation that fails on the slow path, or a free with hooks.
UpdateFastPathState ==
    /\ sampler' = Update(sampler)
    /\ sampler' # sampler
    /\ UNCHANGED <<onFast, rate, since, sample>>

\* Hooks come and go, per-CPU mode is activated.
SwitchPath == onFast' = ~onFast /\ UNCHANGED <<sampler, rate, since, sample>>
set_profile_sampling_rate(r) ==
    rate' = r /\ rate' # rate /\ UNCHANGED <<sampler, onFast, since, sample>>

SamplerInit ==
    /\ sampler = NewSampler
    /\ onFast \in BOOLEAN
    /\ rate \in Rates
    /\ since = [requested |-> 0, counted |-> 0, point |-> 0, period |-> 0, picks |-> 0]
    /\ sample = Unsampled

SamplerNext ==
    \/ \E size \in Sizes :
        FastAlloc(size) \/ \E large \in BOOLEAN : SlowAlloc(size, large)
    \/ UpdateFastPathState
    \/ SwitchPath
    \/ \E r \in Rates : set_profile_sampling_rate(r)

SamplerSpec == SamplerInit /\ [][SamplerNext]_samplerVars

----------------------------------------------------------------------------
\* From the second point on, whatever switches of path and rate come between, an
\* allocation is sampled exactly when the bytes since the point was picked reach it,
\* and the weight is the period of that time and the bytes beyond the point.
SamplesExact ==
    /\ since.picks = 2 => since.counted < since.point \/ since.counted = 0
    /\ sample.picks = 2 => sample.weight = sample.exact
=============================================================================
