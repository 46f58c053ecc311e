--------------------------- MODULE ArtworkBreaker ---------------------------
(***************************************************************************)
(* The circuit breaker in front of one external artwork provider           *)
(* (core/artwork/gate.go).  The worker pool drains the queue concurrently, *)
(* so several calls are between allow() and record() at any moment, and    *)
(* the answer of a call may arrive long after the breaker has opened,      *)
(* probed or closed.                                                       *)
(*                                                                         *)
(* A call admitted by allow() remembers the episode it was admitted under: *)
(* 0 when the breaker was closed, the current generation for a probe.      *)
(***************************************************************************)
EXTENDS Naturals, FiniteSets

CONSTANTS
  Callers,            \* the goroutines of the pool that may call the provider
  breakerThreshold,   \* consecutive errors that open the breaker
  breakerRecoveries,  \* answers to probes that close it again
  breakerProbeAfter,  \* default delay before a probe
  RetryDelays,        \* the back-offs a provider may ask for
  Idle,               \* marks a caller without a call
  MaxTime,            \* bound: last instant of the clock
  MaxGeneration       \* bound: open episodes explored

ASSUME BreakerAssumption ==
  /\ IsFiniteSet(Callers)
  /\ breakerThreshold \in Nat \ {0}
  /\ breakerRecoveries \in Nat \ {0}
  /\ breakerProbeAfter \in Nat \ {0}
  /\ RetryDelays \subseteq Nat \ {0}
  /\ Idle \notin Nat
  /\ MaxTime \in Nat
  /\ MaxGeneration \in Nat

VARIABLES
  failures,    \* consecutive errors counted so far
  openedAt,    \* start of the current probe window
  recoveries,  \* answers to probes of this episode since the last error
  generation,  \* number of times the breaker has opened
  probeAfter,  \* the provider's own delay, 0 when it named none
  calls,       \* calls[c]: the episode c was admitted under, Idle when c has no call
  now,         \* the clock
  episodeStart,\* history: when the current episode began
  probes,      \* history: probes admitted in the current episode
  notBefore    \* history: end of the last back-off the provider asked for

bvars == <<failures, openedAt, recoveries, generation, probeAfter>>
breakerVars == <<bvars, calls, now, episodeStart, probes, notBefore>>

Open == failures >= breakerThreshold
ProbeDelay == IF probeAfter = 0 THEN breakerProbeAfter ELSE probeAfter

BreakerInit ==
  /\ failures = 0 /\ openedAt = 0 /\ recoveries = 0
  /\ generation = 0 /\ probeAfter = 0
  /\ calls = [c \in Callers |-> Idle]
  /\ now = 0
  /\ episodeStart = 0 /\ probes = 0
  /\ notBefore = 0

-----------------------------------------------------------------------------
\* allow(): a closed breaker admits every call under episode 0.
AllowClosed(c) ==
  /\ calls[c] = Idle
  /\ ~Open
  /\ calls' = [calls EXCEPT ![c] = 0]
  /\ UNCHANGED <<bvars, now, episodeStart, probes, notBefore>>

\* allow(): an open breaker admits one probe per elapsed window, and starts a
\* new window so that the next caller waits.
AllowProbe(c) ==
  /\ calls[c] = Idle
  /\ Open
  /\ now - openedAt >= ProbeDelay
  /\ openedAt' = now
  /\ calls' = [calls EXCEPT ![c] = generation]
  /\ probes' = probes + 1
  /\ UNCHANGED <<failures, recoveries, generation, probeAfter, now, episodeStart, notBefore>>

\* allow(): the window is still running, and gate() returns errBreakerOpen.
Refuse(c) ==
  /\ calls[c] = Idle
  /\ Open
  /\ now - openedAt < ProbeDelay
  /\ UNCHANGED breakerVars

Done(c) == calls' = [calls EXCEPT ![c] = Idle]

\* The rate limiter's wait was cancelled, or the call was: record() is not
\* reached, or returns at once.
Cancelled(c) ==
  /\ calls[c] # Idle
  /\ Done(c)
  /\ UNCHANGED <<bvars, now, episodeStart, probes, notBefore>>

\* Mutant: the back-off reuses the running episode, so old probes still count.
RecordRetryLaterSameEpisode(c, d) ==
  /\ calls[c] # Idle
  /\ Done(c)
  /\ recoveries' = 0
  /\ failures' = breakerThreshold
  /\ openedAt' = now
  /\ probeAfter' = d
  /\ episodeStart' = now /\ probes' = 0
  /\ notBefore' = now + d
  /\ UNCHANGED <<generation, now>>

\* record(): the provider asked to be left alone for d.
RecordRetryLater(c, d) ==
  /\ calls[c] # Idle
  /\ generation < MaxGeneration
  /\ Done(c)
  /\ recoveries' = 0
  /\ failures' = breakerThreshold
  /\ openedAt' = now
  /\ probeAfter' = d
  /\ generation' = generation + 1
  /\ episodeStart' = now /\ probes' = 0
  /\ notBefore' = now + d
  /\ UNCHANGED now

\* record(): any other fault, a RetryLaterError without a delay included.  Only
\* the failure that reaches the threshold opens the breaker.
RecordTransient(c) ==
  /\ calls[c] # Idle
  /\ Done(c)
  /\ recoveries' = 0
  /\ failures' = failures + 1
  /\ IF failures' = breakerThreshold
     THEN /\ generation < MaxGeneration
          /\ openedAt' = now
          /\ probeAfter' = 0
          /\ generation' = generation + 1
          /\ episodeStart' = now /\ probes' = 0
     ELSE UNCHANGED <<openedAt, probeAfter, generation, episodeStart, probes>>
  /\ UNCHANGED <<now, notBefore>>

\* Mutant: every answer that arrives while open counts.
AnyAnswerIsEvidence(gen) == TRUE

\* record(): only a probe admitted in the current episode is evidence.
IsEvidence(gen) == gen # 0 /\ gen = generation

\* record(): an answer (an image or a definitive not-found).  Closed, it clears
\* the error count; open, it counts only if it answers a probe of this episode.
RecordAnswer(c) ==
  /\ calls[c] # Idle
  /\ Done(c)
  /\ IF ~Open
     THEN failures' = 0 /\ UNCHANGED recoveries
     ELSE IF ~IsEvidence(calls[c])
     THEN UNCHANGED <<failures, recoveries>>
     ELSE IF recoveries + 1 < breakerRecoveries
     THEN recoveries' = recoveries + 1 /\ UNCHANGED failures
     ELSE failures' = 0 /\ recoveries' = 0
  /\ UNCHANGED <<openedAt, generation, probeAfter, now, episodeStart, probes, notBefore>>

Tick ==
  /\ now < MaxTime
  /\ now' = now + 1
  /\ UNCHANGED <<bvars, calls, episodeStart, probes, notBefore>>

BreakerNext ==
  \/ \E c \in Callers :
       \/ AllowClosed(c)
       \/ AllowProbe(c)
       \/ Refuse(c)
       \/ Cancelled(c)
       \/ RecordTransient(c)
       \/ RecordAnswer(c)
       \/ \E d \in RetryDelays : RecordRetryLater(c, d)
  \/ Tick

BreakerSpec == BreakerInit /\ [][BreakerNext]_breakerVars

-----------------------------------------------------------------------------
\* Every variable keeps its type, a call's episode is never ahead of the
\* breaker's, and an open breaker counts fewer recoveries than it needs.
BreakerTypeOK ==
  /\ failures \in Nat /\ openedAt \in 0..now /\ probeAfter \in Nat
  /\ recoveries \in 0..(breakerRecoveries - 1)
  /\ generation \in Nat
  /\ calls \in [Callers -> {Idle} \cup 0..generation]
  /\ now \in Nat
  /\ episodeStart \in 0..now /\ probes \in Nat
  /\ notBefore \in Nat

\* The calls in flight that are probes of the current episode.
InFlightProbes == {c \in Callers : calls[c] # Idle /\ IsEvidence(calls[c])}

\* An answer is counted at most once per probe: what has been counted plus what
\* may still be counted never exceeds the probes admitted in this episode.
CountedOncePerProbe == recoveries + Cardinality(InFlightProbes) <= probes

\* Each probe of the episode consumed a whole window.
WindowPerProbe == openedAt - episodeStart >= probes * ProbeDelay

\* Until a back-off has run out, the breaker is open and has admitted no probe.
BackoffPending ==
  now < notBefore => Open /\ probes = 0 /\ openedAt + ProbeDelay >= notBefore

\* The inductive core of the two properties below: allow() and record() keep
\* probes, windows and back-offs in step however late answers arrive.
EpisodeInv == CountedOncePerProbe /\ WindowPerProbe /\ BackoffPending

\* record() closes an open breaker only after breakerRecoveries full probe
\* windows of the current episode have passed: answers to calls admitted before
\* it opened, or in an earlier episode, never bring the agent back to full rate.
ClosesAfterProbeWindows ==
  [][Open /\ ~Open' => now - episodeStart >= breakerRecoveries * ProbeDelay]_breakerVars

\* allow() admits no call, probe or not, before the end of the last back-off
\* the provider asked for, whatever calls were in flight when it asked.
BackoffHonoured ==
  [][\A c \in Callers : calls[c] = Idle /\ calls'[c] # Idle => now >= notBefore]_breakerVars
=============================================================================
