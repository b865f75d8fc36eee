------------------------------- MODULE RunLog -------------------------------
(***************************************************************************)
(* What a benchmark run promises to the reports, with no process in it:    *)
(* one engine at a time opens its log and appends measurements in schedule *)
(* order, a session that reaches its end is vouched for, and once the run  *)
(* is published nothing changes any more.                                  *)
(***************************************************************************)
EXTENDS Schedule

CONSTANT Engines

VARIABLES
  log,        \* log[e]: the measurements of e that are on disk
  open,       \* the engines whose session is in progress: at most one
  vouched,    \* the engines whose last session to end ran to its end
  published,  \* whether the manifest has been written
  listed      \* the engines it lists

logVars == <<log, open, vouched, published, listed>>

Init ==
  /\ log = [e \in Engines |-> <<>>]
  /\ open = {}
  /\ vouched = {}
  /\ published = FALSE
  /\ listed = {}

(* A new session of e replaces whatever an earlier session of e left.      *)
Begin(e) ==
  /\ ~ published
  /\ open = {}
  /\ open' = {e}
  /\ log' = [log EXCEPT ![e] = <<>>]
  /\ UNCHANGED <<vouched, published, listed>>

(* Only where a workload was given up can a line be spoiled: it is the     *)
(* first of the workload that comes next.                                  *)
Measure(e, rec) ==
  /\ e \in open
  /\ CanFollow(log[e], rec.cell)
  /\ rec.whole \/ rec.cell = FirstCell(rec.cell.wl)
  /\ log' = [log EXCEPT ![e] = Append(@, rec)]
  /\ UNCHANGED <<open, vouched, published, listed>>

(* The session ends: at its end (vouched for), or by a crash or a failure  *)
(* to write the vouching fragment, which may destroy an earlier one.       *)
End(e) ==
  /\ e \in open
  /\ open' = {}
  /\ vouched' \in {vouched, vouched \union {e}, vouched \ {e}}
  /\ UNCHANGED <<log, published, listed>>

Publish ==
  /\ open = {}
  /\ ~ published
  /\ published' = TRUE
  /\ listed' = vouched
  /\ UNCHANGED <<log, open, vouched>>

Next ==
  \/ \E e \in Engines : Begin(e) \/ End(e)
  \/ \E e \in Engines, rec \in Record : Measure(e, rec)
  \/ Publish

Spec == Init /\ [][Next]_logVars

-----------------------------------------------------------------------------
(* No measurement is recorded twice, and a log lists them in the order     *)
(* they ran (the loops of run_workload, the truncation before them).       *)
InOrder ==
  \A e \in Engines : \A i, j \in DOMAIN log[e] :
    i < j => Precedes(log[e][i].cell, log[e][j].cell)

(* Within a workload nothing is skipped: before a recorded cell, every     *)
(* earlier cell of its workload is recorded, and in a line that parses     *)
(* unless it is the workload's first.  A reader may take the last record   *)
(* of a workload as the point up to which it is complete.                  *)
GapFree ==
  \A e \in Engines : \A i \in DOMAIN log[e] :
    \A c \in Cell :
      c.wl = log[e][i].cell.wl /\ Precedes(c, log[e][i].cell)
        => \E j \in DOMAIN log[e] :
             log[e][j].cell = c /\ (log[e][j].whole \/ c = FirstCell(c.wl))
=============================================================================
