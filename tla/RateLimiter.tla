---------------------------- MODULE RateLimiter ----------------------------
(***************************************************************************)
(* The limiter of the webhook handler (api/handlers/rate_limiter.go): one  *)
(* daily count per client, in memory, under one mutex, so that a call of   *)
(* AllowRequest is one step.  No code sets isPremium or webhookCount: every *)
(* client is on the free plan with a webhook count of 0, and those branches *)
(* are never taken.                                                        *)
(*                                                                         *)
(* A day is measured by the wall clock: time.Now().UTC() drops the         *)
(* monotonic reading, so that Sub compares times an operator or NTP may    *)
(* have moved in between.  The real time that has passed, and how the      *)
(* clock was set meanwhile, are kept beside it, for the properties.        *)
(***************************************************************************)
EXTENDS Integers, Sequences

CONSTANTS
    Clients,
    DailyLimit,   \* freePlan.dailyLimit
    Day,          \* 24 hours, in ticks of the clock
    NoLimit,      \* limits has no entry for the client
    ClockSteps,   \* by how much the clock may be set forward, or back (< 0)
    MaxTime,      \* bound on the real time that passes
    MaxSteps      \* bound on the settings of the clock

ASSUME RateLimiterAssumption ==
    /\ DailyLimit \in Nat \ {0}
    /\ Day \in Nat \ {0}
    /\ ClockSteps \subseteq Int \ {0}
    /\ MaxTime \in Nat
    /\ MaxSteps \in Nat
    /\ NoLimit \notin [dailyCount : 0..DailyLimit, lastReset : Int]

VARIABLES
    now,          \* time.Now().UTC()
    limits,
    elapsed,      \* history: the real time that has passed
    jumps,        \* history: how often the clock was set forward
    back,         \* history: by how much it was set back, in all
    admitted      \* history: when this process let requests of each client in

clockVars == <<now, elapsed, jumps, back>>
limiterVars == <<clockVars, limits, admitted>>

Limit == [dailyCount : 0..DailyLimit, lastReset : Int]

\* An admission is known by the real time and the settings of the clock so far.
Admission == [at : Nat, jumps : Nat, back : Nat]

LimiterTypeOK ==
    /\ now \in Int
    /\ elapsed \in Nat /\ jumps \in Nat /\ back \in Nat
    /\ limits \in [Clients -> Limit \cup {NoLimit}]
    /\ admitted \in [Clients -> Seq(Admission)]

LimiterInit ==
    /\ now = 0 /\ elapsed = 0 /\ jumps = 0 /\ back = 0
    /\ limits = [c \in Clients |-> NoLimit]
    /\ admitted = [c \in Clients |-> <<>>]
-----------------------------------------------------------------------------
\* Variant: the reset forgets lastReset.
EntryKeepingReset(c) ==
    CASE limits[c] = NoLimit -> [dailyCount |-> 0, lastReset |-> now]
      [] limits[c] # NoLimit /\ now - limits[c].lastReset < Day -> limits[c]
      [] OTHER -> [limits[c] EXCEPT !.dailyCount = 0]

\* Variant: the count is reset a tick late.
EntryLate(c) ==
    IF limits[c] # NoLimit /\ now - limits[c].lastReset <= Day
    THEN limits[c]
    ELSE [dailyCount |-> 0, lastReset |-> now]

\* The client's entry as AllowRequest sees it once it has made one or reset it.
Entry(c) ==
    IF limits[c] # NoLimit /\ now - limits[c].lastReset < Day
    THEN limits[c]
    ELSE [dailyCount |-> 0, lastReset |-> now]

Spent(c) == Entry(c).dailyCount >= DailyLimit

\* AllowRequest returns true ...
Admit(c) ==
    /\ ~Spent(c)
    /\ limits' = [limits EXCEPT ![c] = [Entry(c) EXCEPT !.dailyCount = @ + 1]]
    /\ admitted' = [admitted EXCEPT ![c] =
                       Append(@, [at |-> elapsed, jumps |-> jumps, back |-> back])]
    /\ UNCHANGED clockVars

\* ... or false, which costs nothing.
Refuse(c) ==
    /\ Spent(c)
    /\ limits' = [limits EXCEPT ![c] = Entry(c)]
    /\ UNCHANGED <<clockVars, admitted>>

Tick ==
    /\ elapsed < MaxTime
    /\ now' = now + 1
    /\ elapsed' = elapsed + 1
    /\ UNCHANGED <<jumps, back, limits, admitted>>

\* The system's clock is set.
SetClock ==
    /\ jumps + back < MaxSteps
    /\ \E d \in ClockSteps :
         /\ now' = now + d
         /\ jumps' = IF d > 0 THEN jumps + 1 ELSE jumps
         /\ back' = IF d < 0 THEN back - d ELSE back
    /\ UNCHANGED <<elapsed, limits, admitted>>

Time == Tick \/ SetClock

\* The process starts again, and knows nothing of what it had let in.
ForgetLimits ==
    /\ limits' = [c \in Clients |-> NoLimit]
    /\ admitted' = [c \in Clients |-> <<>>]
    /\ UNCHANGED clockVars

LimiterNext ==
    \/ \E c \in Clients : Admit(c) \/ Refuse(c)
    \/ Time
    \/ ForgetLimits

LimiterSpec == LimiterInit /\ [][LimiterNext]_limiterVars
-----------------------------------------------------------------------------
\* What that many windows let in.
Quota(windows) == DailyLimit * windows

\* However requests are spread over the windows, no more than twice the daily
\* limit of a client's get in during any 24 hours of a process's life, unless
\* the clock is set forward: each setting lets one more limit in, and setting
\* it back lets in none.  Of DailyLimit * (2 + k) + 1 requests let in one after
\* the other, k settings forward apart, the first and the last are a day apart.
WindowBound ==
    \A c \in Clients :
        LET a == admitted[c]
        IN  \A j \in 1..Len(a) : \A i \in 1..j :
                j - i >= Quota(2 + a[j].jumps - a[i].jumps)
                    => a[j].at - a[i].at >= Day

\* A client is refused only while a full daily limit of its requests is less
\* than 24 hours old, to which comes what the clock has been set back since the
\* oldest of them: a count that should have been reset refuses nobody longer.
RefusedOnlyWhenSpent ==
    \A c \in Clients :
        Spent(c) =>
            LET a == admitted[c]
                oldest == a[Len(a) - DailyLimit + 1]
            IN  /\ Len(a) >= DailyLimit
                /\ elapsed - oldest.at < Day + (back - oldest.back)
-----------------------------------------------------------------------------
\* Admissions follow each other in time.
InOrder(a) ==
    \A i, j \in 1..Len(a) :
        i <= j =>
            /\ a[i].at <= a[j].at /\ a[i].jumps <= a[j].jumps /\ a[i].back <= a[j].back
            /\ a[j].at <= elapsed /\ a[j].jumps <= jumps /\ a[j].back <= back

\* The first of the admissions that the entry l counts, which made or reset it.
FirstOf(l, a) == Len(a) - l.dailyCount + 1

\* How far the clock is from the last reset, against the real time since.
ClockSince(l, first) ==
    /\ now - l.lastReset >= (elapsed - first.at) - (back - first.back)
    /\ jumps = first.jumps => now - l.lastReset <= elapsed - first.at

\* A day lies between the reset and all that was let in more than one limit
\* before it, or one more for each setting of the clock forward.
Spaced(f, a) ==
    \A i \in 1..f :
        f - i > Quota(1 + a[f].jumps - a[i].jumps)
            => a[f].at - a[i].at >= Day

\* The entry l of a client against its admissions a.
InWindow(l, a) ==
    /\ l.dailyCount \in 1..Len(a)
    /\ ClockSince(l, a[FirstOf(l, a)])
    /\ Spaced(FirstOf(l, a), a)

WindowInv ==
    \A c \in Clients :
        /\ InOrder(admitted[c])
        /\ IF limits[c] = NoLimit
           THEN admitted[c] = <<>>
           ELSE InWindow(limits[c], admitted[c])

LimiterInv == LimiterTypeOK /\ WindowInv /\ WindowBound
=============================================================================
