----------------------------- MODULE MCRtCache -----------------------------
(***************************************************************************)
(* Small instances of RtCache for TLC.                                     *)
(***************************************************************************)
EXTENDS RtCache, TLC

CONSTANTS f1, f2

\* One clock unit stands for the TTL of the fastest feed; f2 lives longer, as
\* camsys/all-alerts does (feed.service.ts:56-58).
MCTtl == [f \in Feed |-> IF f = f1 THEN 1 ELSE 2]

\* Calls are interchangeable: no action or property names one.
CallSymmetry == Permutations(Call)

\* Restricts the counterexamples to the plainest schedule: a new call arrives
\* only while the event loop is idle, never among the continuations of a settled
\* fetch.
ArrivalsWhenIdle ==
    ~Quiet => \A c \in Call :
                 call[c].pc \in {"idle"} \cup Answered => call'[c] = call[c]
=============================================================================
