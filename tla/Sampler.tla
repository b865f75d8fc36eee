------------------------------ MODULE Sampler ------------------------------
(***************************************************************************)
(* engines/_metrics.py: the thread that polls the process tree of an       *)
(* engine while a step runs, and the three things the adapter does with    *)
(* it: start, stop (set an event, join for two seconds, average what was   *)
(* sampled) and, after that, read the peak.  The thread hands the peak     *)
(* over when its loop has ended, not before, so the adapter reads what     *)
(* another thread may not have written yet.                                *)
(*                                                                         *)
(* The processes come and go between two calls of psutil.  What a process  *)
(* holds is read as some number up to MaxRss; the CPU numbers only count   *)
(* as samples.                                                             *)
(***************************************************************************)
EXTENDS Integers, Sequences, FiniteSets

CONSTANTS
    Children,      \* processes that may be found below the sampled one
    MaxRss,        \* bound: memory of one process
    MaxStragglers  \* bound: threads of earlier steps that still run

SamplerAssumption ==
    /\ IsFiniteSet(Children) /\ "root" \notin Children
    /\ MaxRss \in Nat /\ MaxStragglers \in Nat

ASSUME SamplerAssumption

None == -1

VARIABLES
    root,        \* the sampled process: "alive", "gone", or "unknown" (no pid)
    thread,      \* locals of _run: pc, processes to read, total, peak_rss
    stop,        \* the event
    sampled,     \* highest total of a sample in _cpu_samples, None without one
    counted,     \* what sampled was when avg_cpu_pct was computed
    peak,        \* peak_rss_mb, None until the loop has ended
    late,        \* join returned because its two seconds were over
    stragglers   \* threads of earlier samplers that have not ended

sampler == <<root, thread, stop, sampled, counted, peak, late, stragglers>>

NoThread == [pc |-> "ended", todo |-> {}, total |-> 0, top |-> 0]
Higher(a, b) == IF a < b THEN b ELSE a
Ended    == thread.pc \in {"ended", "left"}

SamplerTypeOK ==
    /\ root \in {"alive", "gone", "unknown"}
    /\ thread \in [pc : {"open", "check", "list", "read", "ended", "left"},
                   todo : SUBSET ({"root"} \cup Children),
                   total : 0..MaxRss * (1 + Cardinality(Children)),
                   top : 0..MaxRss * (1 + Cardinality(Children))]
    /\ stop \in BOOLEAN
    /\ {sampled, counted, peak} \subseteq {None} \cup 0..MaxRss * (1 + Cardinality(Children))
    /\ late \in BOOLEAN
    /\ stragglers \in 0..MaxStragglers

SamplerInit ==
    /\ root = "unknown"
    /\ thread = NoThread
    /\ stop = FALSE
    /\ sampled = None
    /\ counted = None
    /\ peak = None
    /\ late = FALSE
    /\ stragglers = 0

-----------------------------------------------------------------------------
(***************************************************************************)
(* The thread                                                              *)
(***************************************************************************)

\* psutil.Process and the priming call: without a process, return.
Open ==
    /\ thread.pc = "open"
    /\ thread' = [thread EXCEPT !.pc = IF root = "alive" THEN "check" ELSE "left"]
    /\ UNCHANGED <<root, stop, sampled, peak, late, stragglers, counted>>

Leave ==
    /\ thread' = [thread EXCEPT !.pc = "ended"]
    /\ peak' = thread.top

\* Variant of CheckStop: the loop runs on.
CheckNothing ==
    /\ thread.pc = "check"
    /\ thread' = [thread EXCEPT !.pc = "list"]
    /\ UNCHANGED <<root, stop, sampled, peak, late, stragglers, counted>>

\* while not self._stop.is_set(): the peak is assigned behind the loop.
CheckStop ==
    /\ thread.pc = "check"
    /\ \/ stop /\ Leave
       \/ ~stop /\ thread' = [thread EXCEPT !.pc = "list"] /\ UNCHANGED peak
    /\ UNCHANGED <<root, stop, sampled, late, stragglers, counted>>

\* Variant of List: the total goes on from the sample before.
ListKeeping ==
    /\ thread.pc = "list"
    /\ \/ root # "alive" /\ Leave
       \/ /\ root = "alive"
          /\ \E found \in SUBSET Children :
                thread' = [thread EXCEPT !.pc = "read", !.todo = {"root"} \cup found]
          /\ UNCHANGED peak
    /\ UNCHANGED <<root, stop, sampled, late, stragglers, counted>>

\* root.children(recursive=True); a process that is gone breaks the loop.
List ==
    /\ thread.pc = "list"
    /\ \/ root # "alive" /\ Leave
       \/ /\ root = "alive"
          /\ \E found \in SUBSET Children :
                thread' = [thread EXCEPT !.pc = "read", !.total = 0,
                                         !.todo = {"root"} \cup found]
          /\ UNCHANGED peak
    /\ UNCHANGED <<root, stop, sampled, late, stragglers, counted>>

\* One process after the other, the root first; one that is gone, or that may
\* not be looked at, counts for nothing.
ReadProcess ==
    /\ thread.pc = "read"
    /\ \E p \in thread.todo, rss \in 0..MaxRss :
          /\ "root" \in thread.todo => p = "root"
          /\ p = "root" /\ root = "gone" => rss = 0
          /\ thread' = [thread EXCEPT !.todo = @ \ {p}, !.total = @ + rss]
    /\ UNCHANGED <<root, stop, sampled, peak, late, stragglers, counted>>

\* Variant of AppendSample: the peak is what was seen last.
AppendLatest ==
    /\ thread.pc = "read" /\ thread.todo = {}
    /\ thread' = [thread EXCEPT !.pc = "check", !.top = thread.total]
    /\ sampled' = Higher(sampled, thread.total)
    /\ UNCHANGED <<root, stop, peak, late, stragglers, counted>>

AppendSample ==
    /\ thread.pc = "read" /\ thread.todo = {}
    /\ thread' = [thread EXCEPT !.pc = "check",
                                !.top = Higher(@, thread.total)]
    /\ sampled' = Higher(sampled, thread.total)
    /\ UNCHANGED <<root, stop, peak, late, stragglers, counted>>

\* A thread nobody reads any more sees its event and ends.
StragglerEnds ==
    /\ stragglers > 0
    /\ stragglers' = stragglers - 1
    /\ UNCHANGED <<root, thread, stop, sampled, peak, late, counted>>

ThreadStep == Open \/ CheckStop \/ List \/ ReadProcess \/ AppendSample

\* The sampled process ends: the platform may, the bench's own process not.
RootGone ==
    /\ root = "alive"
    /\ root' = "gone"
    /\ UNCHANGED <<thread, stop, sampled, peak, late, stragglers, counted>>

-----------------------------------------------------------------------------
(***************************************************************************)
(* The adapter's calls                                                     *)
(***************************************************************************)

\* MetricSampler(pid).start(): a new object, whatever became of the last one.
StartSampler ==
    /\ Ended \/ stragglers < MaxStragglers
    /\ stragglers' = IF Ended THEN stragglers ELSE stragglers + 1
    /\ thread' = [NoThread EXCEPT !.pc = "open"]
    /\ stop' = FALSE
    /\ sampled' = None
    /\ counted' = None
    /\ peak' = None
    /\ late' = FALSE
    /\ UNCHANGED root

SetStop ==
    /\ stop' = TRUE
    /\ UNCHANGED <<root, thread, sampled, peak, late, stragglers, counted>>

\* join(timeout=2.0): the thread has ended, or the two seconds are over while
\* it is in some slow call; the average is of the samples there are by now.
Join ==
    /\ late' = ~Ended
    /\ counted' = sampled
    /\ UNCHANGED <<root, thread, stop, sampled, peak, stragglers>>

\* The StepResult has what it needs; a thread that still runs keeps its object.
DropSampler ==
    IF Ended
    THEN /\ thread' = NoThread
         /\ stop' = FALSE /\ late' = FALSE
         /\ sampled' = None /\ counted' = None /\ peak' = None
         /\ UNCHANGED <<root, stragglers>>
    ELSE UNCHANGED sampler
=============================================================================
