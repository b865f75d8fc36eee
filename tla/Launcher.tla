------------------------------ MODULE Launcher ------------------------------
(***************************************************************************)
(* src/bench: the shell script that looks for free ports, starts an X      *)
(* server and the platform in the background, polls the platform until it  *)
(* is healthy and answers a query, runs bench_runner.py, and on its way    *)
(* out, or at SIGINT or SIGTERM, stops what it has started.  Several       *)
(* copies may run on one host, from one checkout or from several.          *)
(*                                                                         *)
(* A trapped signal is handled between two commands of the shell, or ends  *)
(* a wait.  The handler does not exit: what follows is the next command,   *)
(* unless the signal also ended a plain command and set -e is on.          *)
(*                                                                         *)
(* The platform (binary), its PostgreSQL and Xvfb are external: they are   *)
(* modelled by what the script knows of them.  What a probe is answered is *)
(* any answer that the state of the platform allows.  The compute node that *)
(* the platform spawns for itself is not one of them: the script never     *)
(* looks for it.                                                           *)
(***************************************************************************)
EXTENDS Integers, FiniteSets

CONSTANTS
    Launchers,    \* processes of ./bench on the host
    Checkouts,    \* working copies, each with its .env and .engine/xdg
    Ports,        \* of control planes, as .env files may name them
    Setups,       \* triples: the checkout of each launcher, the port in each .env,
                  \* the ports on which something of the user's listens
    UsedDisplays, \* display numbers of which a socket is there
    WithXvfb,     \* launchers on whose path there is an Xvfb
    User, Nobody, \* a DeltaForge of the user's own; no holder
    NumPgPorts,   \* bound: ports from 5442 upward for the embedded PostgreSQL
    NumDisplays,  \* bound: X display numbers from 99 upward
    Rounds,       \* bound: polls until a deadline (180 s, 90 s) is over
    MaxSignals    \* bound: signals on the host

LauncherAssumption ==
    /\ Setups \subseteq [Launchers -> Checkouts] \X [Checkouts -> Ports] \X SUBSET Ports
    /\ UsedDisplays \subseteq 1..NumDisplays
    /\ WithXvfb \subseteq Launchers
    /\ {User, Nobody} \cap Launchers = {} /\ User # Nobody
    /\ NumPgPorts \in Nat \ {0}
    /\ {NumDisplays, Rounds, MaxSignals} \subseteq Nat

ASSUME LauncherAssumption

VARIABLES
    dir, port,  \* the setup
    shell,      \* each script: pc, ret (where its handler returns to), variables
    plat,       \* each launcher's platform: gone, starting, db, bound, serving
    xvfb,       \* each launcher's latest Xvfb: gone, starting, up
    told,       \* running processes that were sent SIGTERM: <<"plat", "xvfb" or "pg", launcher>>
    signals,    \* how many there were
    holder,     \* who listens on a control-plane port
    sock,       \* whose socket an X display number has
    pgs         \* whose PostgreSQL runs

vars == <<dir, port, shell, plat, xvfb, told, signals, holder, sock, pgs>>
rest == <<dir, port, signals>>

Displays == 1..NumDisplays
Owners   == Launchers \cup {User}
Untrapped == {"start", "check"}
Body     == {"display", "xpid", "xwait", "xreap", "boot", "pid",
             "health", "ask", "probe", "query", "harness"}
Handler  == {"stop", "wait", "sweep", "xend"}

Port(l) == port[dir[l]]
Up      == {l \in Launchers : plat[l] \in {"bound", "serving"}}
\* Whose PostgreSQL has its data under the XDG_DATA_HOME of launcher l.
InDir(l) == {o \in Launchers : dir[o] = dir[l]}

\* kill of a process that may be gone (2>/dev/null || true).
Kill(what, l) ==
    IF (IF what = "plat" THEN plat ELSE xvfb)[l] = "gone" THEN {} ELSE {<<what, l>>}

OnlyShell == UNCHANGED <<dir, port, plat, xvfb, told, signals, holder, sock, pgs>>

At(l, pc) == shell[l].pc = pc
Become(l, s) == shell' = [shell EXCEPT ![l] = s]
Goto(l, pc) == Become(l, [shell[l] EXCEPT !.pc = pc])
\* The variables of a script that has not begun, or has ended; met is a history
\* variable, the platforms that were up when the script looked at its port.
Fresh(pc) == [pc |-> pc, ret |-> "done", left |-> 0, pid |-> FALSE, xpid |-> FALSE,
              num |-> 0, pgport |-> 1, met |-> {}]
End(l) == Become(l, Fresh("done"))
\* fail, or the last line: the EXIT trap comes first.
Exit(l) == Become(l, [shell[l] EXCEPT !.pc = "stop", !.ret = "done"])

Init ==
    /\ \E s \in Setups :
          /\ dir = s[1] /\ port = s[2]
          /\ holder = [p \in Ports |-> IF p \in s[3] THEN User ELSE Nobody]
    /\ shell = [l \in Launchers |-> Fresh("start")]
    /\ plat = [l \in Launchers |-> "gone"]
    /\ xvfb = plat
    /\ told = {}
    /\ signals = 0
    /\ sock = [n \in Displays |-> IF n \in UsedDisplays THEN User ELSE Nobody]
    /\ pgs = {User}

------------------------------------------------------------------------------
(* Before the trap is set.                                                  *)

\* The first port that can be bound, the first of all when none can.
FreePgPort ==
    LET free == (1..NumPgPorts) \ {shell[o].pgport : o \in pgs \cap Launchers}
    IN IF free = {} THEN 1 ELSE CHOOSE p \in free : \A q \in free : p <= q

\* .env, venv, licence key and binaries are there, or the script ends.
Preflight(l) ==
    /\ At(l, "start")
    /\ \/ Become(l, [shell[l] EXCEPT !.pc = "check", !.pgport = FreePgPort])
       \/ End(l)
    /\ OnlyShell

\* Variant of CheckPort: the trap is set before the check.
CheckPortTrapped(l) ==
    /\ At(l, "check")
    /\ IF holder[Port(l)] = Nobody
       THEN Become(l, [shell[l] EXCEPT !.pc = "display", !.met = Up])
       ELSE Become(l, [shell[l] EXCEPT !.pc = "stop", !.ret = "done", !.met = Up])
    /\ OnlyShell

\* A bind that is given up again: the port is free, or the script ends.
CheckPort(l) ==
    /\ At(l, "check")
    /\ IF holder[Port(l)] = Nobody
       THEN Become(l, [shell[l] EXCEPT !.pc = "display", !.met = Up])
       ELSE End(l)
    /\ OnlyShell

------------------------------------------------------------------------------
(* start_virtual_display and the boot.                                      *)

\* No Xvfb (or no Linux), no number left, or the socket of the next is there.
PassDisplay(l) ==
    /\ At(l, "display")
    /\ LET n == shell[l].num
       IN \/ (l \notin WithXvfb \/ n = NumDisplays) /\ Goto(l, "boot")
          \/ l \in WithXvfb /\ n < NumDisplays /\ sock[n + 1] # Nobody
             /\ Become(l, [shell[l] EXCEPT !.num = n + 1])
    /\ OnlyShell

StartXvfb(l) ==
    /\ At(l, "display") /\ l \in WithXvfb /\ shell[l].num < NumDisplays
    /\ sock[shell[l].num + 1] = Nobody
    /\ Become(l, [shell[l] EXCEPT !.pc = "xpid", !.num = shell[l].num + 1])
    /\ xvfb' = [xvfb EXCEPT ![l] = "starting"]
    /\ UNCHANGED <<rest, plat, told, holder, sock, pgs>>

\* XVFB_PID=$!
TakeXvfbPid(l) ==
    /\ At(l, "xpid")
    /\ Become(l, [shell[l] EXCEPT !.pc = "xwait", !.xpid = TRUE]) /\ OnlyShell

\* Alive and the socket is there, whoever made it.
XvfbReady(l) ==
    /\ At(l, "xwait") /\ xvfb[l] # "gone" /\ sock[shell[l].num] # Nobody
    /\ Goto(l, "boot") /\ OnlyShell

\* Dead, or no socket in five seconds: kill, wait, and the next number.
DropXvfb(l) ==
    /\ At(l, "xwait") /\ (xvfb[l] = "gone" \/ sock[shell[l].num] = Nobody)
    /\ told' = told \cup Kill("xvfb", l)
    /\ Goto(l, "xreap")
    /\ UNCHANGED <<rest, plat, xvfb, holder, sock, pgs>>

ReapXvfb(l) ==
    /\ At(l, "xreap") /\ xvfb[l] = "gone"
    /\ Become(l, [shell[l] EXCEPT !.pc = "display", !.xpid = FALSE]) /\ OnlyShell

BootPlatform(l) ==
    /\ At(l, "boot")
    /\ plat' = [plat EXCEPT ![l] = "starting"]
    /\ Goto(l, "pid")
    /\ UNCHANGED <<rest, xvfb, told, holder, sock, pgs>>

\* PLATFORM_PID=$!, and the deadline of the health loop.
TakePid(l) ==
    /\ At(l, "pid")
    /\ Become(l, [shell[l] EXCEPT !.pc = "health", !.pid = TRUE, !.left = Rounds]) /\ OnlyShell

------------------------------------------------------------------------------
(* The two polling loops and the run.                                       *)

\* Variant of Expired: -le for -lt.
ExpiredLate(l) == shell[l].left < 0

Expired(l) == shell[l].left = 0

\* The heads of the loops: the deadline, then kill -0 of the platform.
LoopHead(l, head, body) ==
    /\ At(l, head)
    /\ IF Expired(l) \/ plat[l] = "gone" THEN Exit(l) ELSE Goto(l, body)
    /\ OnlyShell

Poll(l) == LoopHead(l, "health", "ask") \/ LoopHead(l, "probe", "query")

\* Variant of Again: the deadline is computed in the loop.
AgainRenewed(l, head) == Goto(l, head)

Again(l, head) == Become(l, [shell[l] EXCEPT !.pc = head, !.left = shell[l].left - 1])

\* The CLI's health call is answered by whoever has the port, or not in time.
Health(l) ==
    /\ At(l, "ask")
    /\ \/ holder[Port(l)] # Nobody /\ Become(l, [shell[l] EXCEPT !.pc = "probe", !.left = Rounds])
       \/ Again(l, "health")
    /\ OnlyShell

\* SELECT 1: rows, a refusal for the licence, or (not activated yet, no compute
\* node, no database, no answer) something to try again.
Serves(h) == plat[h] = "serving" /\ InDir(h) \cap pgs # {}

Query(l) ==
    /\ At(l, "query")
    /\ LET h == holder[Port(l)]
       IN \/ h \in Launchers /\ Serves(h) /\ Goto(l, "harness")
          \/ h # Nobody /\ Exit(l)
          \/ Again(l, "probe")
    /\ OnlyShell

\* bench_runner.py has returned, with whatever code.
Harness(l) ==
    /\ At(l, "harness")
    /\ Exit(l) /\ OnlyShell

\* A signal also ended it, or the sleep of a loop under set -e.
Leave(l) ==
    /\ At(l, "leave")
    /\ Exit(l) /\ OnlyShell

------------------------------------------------------------------------------
(* stop_platform.                                                           *)

KillPlatform(l) ==
    /\ At(l, "stop")
    /\ told' = IF shell[l].pid THEN told \cup Kill("plat", l) ELSE told
    /\ Goto(l, "wait")
    /\ UNCHANGED <<rest, plat, xvfb, holder, sock, pgs>>

\* Variant of WaitPlatform: kill without wait.
WaitNothing(l) ==
    /\ At(l, "wait")
    /\ Goto(l, "sweep") /\ OnlyShell

WaitPlatform(l) ==
    /\ At(l, "wait") /\ (shell[l].pid => plat[l] = "gone")
    /\ Goto(l, "sweep") /\ OnlyShell

\* kill of every postgres with XDG_DATA_HOME in its command line, which nothing
\* waits for; then of Xvfb.
SweepPostgres(l) ==
    /\ At(l, "sweep")
    /\ told' = told \cup ({"pg"} \X (InDir(l) \cap pgs))
                    \cup IF shell[l].xpid THEN Kill("xvfb", l) ELSE {}
    /\ Goto(l, "xend")
    /\ UNCHANGED <<rest, plat, xvfb, holder, sock, pgs>>

WaitXvfb(l) ==
    /\ At(l, "xend") /\ (shell[l].xpid => xvfb[l] = "gone")
    /\ IF shell[l].ret = "done" THEN End(l) ELSE Goto(l, shell[l].ret)
    /\ OnlyShell

\* A signal: fatal before the trap; otherwise the handler runs, from its start
\* when one of its own waits is ended by it.
Signal(l) ==
    /\ signals < MaxSignals
    /\ signals' = signals + 1
    /\ LET pc == shell[l].pc
       IN \/ pc \in Untrapped /\ End(l)
          \/ pc \in Body /\ Become(l, [shell[l] EXCEPT !.pc = "stop", !.ret = pc])
          \/ pc \in {"health", "probe", "harness"}
             /\ Become(l, [shell[l] EXCEPT !.pc = "stop", !.ret = "leave"])
          \/ pc \in {"wait", "xend"} /\ Goto(l, "stop")
    /\ UNCHANGED <<dir, port, plat, xvfb, told, holder, sock, pgs>>

------------------------------------------------------------------------------
(* The processes in the background.                                         *)

Dies(l) == plat' = [plat EXCEPT ![l] = "gone"]

\* A platform whose data directory is in use may refuse it; one whose port for
\* PostgreSQL was taken since it was looked for does not come up.
StartDatabase(l) ==
    /\ plat[l] = "starting"
    /\ LET others == (pgs \cap Launchers) \ {l}
       IN \/ /\ InDir(l) \cap pgs # {}
             /\ Dies(l) \/ plat' = [plat EXCEPT ![l] = "db"]
             /\ UNCHANGED pgs
          \/ /\ InDir(l) \cap pgs = {}
             /\ IF \E o \in others : shell[o].pgport = shell[l].pgport
                THEN Dies(l) /\ UNCHANGED pgs
                ELSE plat' = [plat EXCEPT ![l] = "db"] /\ pgs' = pgs \cup {l}
    /\ UNCHANGED <<rest, shell, xvfb, told, holder, sock>>

BindPort(l) ==
    /\ plat[l] = "db"
    /\ IF holder[Port(l)] = Nobody
       THEN /\ plat' = [plat EXCEPT ![l] = "bound"]
            /\ holder' = [holder EXCEPT ![Port(l)] = l]
       ELSE Dies(l) /\ UNCHANGED holder
    /\ UNCHANGED <<rest, shell, xvfb, told, sock, pgs>>

\* The compute node has come up and the licence is active.
BeginServing(l) ==
    /\ plat[l] = "bound"
    /\ plat' = [plat EXCEPT ![l] = "serving"]
    /\ UNCHANGED <<rest, shell, xvfb, told, holder, sock, pgs>>

\* At SIGTERM or by itself; its PostgreSQL may outlive it.
PlatformDies(l) ==
    /\ plat[l] # "gone"
    /\ Dies(l)
    /\ \E gone \in SUBSET ({l} \cap pgs) :
          /\ pgs' = pgs \ gone
          /\ told' = told \ ({<<"plat", l>>} \cup ({"pg"} \X gone))
    /\ holder' = [p \in Ports |-> IF holder[p] = l THEN Nobody ELSE holder[p]]
    /\ UNCHANGED <<rest, shell, xvfb, sock>>

\* At SIGTERM, sooner or later: not while a platform is connected, perhaps.
PostgresDies(l) ==
    /\ <<"pg", l>> \in told
    /\ pgs' = pgs \ {l}
    /\ told' = told \ {<<"pg", l>>}
    /\ UNCHANGED <<rest, shell, plat, xvfb, holder, sock>>

\* Xvfb makes its socket, or ends: the number is in use, or it cannot start.
XvfbUp(l) ==
    /\ xvfb[l] = "starting" /\ sock[shell[l].num] = Nobody
    /\ xvfb' = [xvfb EXCEPT ![l] = "up"]
    /\ sock' = [sock EXCEPT ![shell[l].num] = l]
    /\ UNCHANGED <<rest, shell, plat, told, holder, pgs>>

XvfbDies(l) ==
    /\ xvfb[l] = "starting" \/ <<"xvfb", l>> \in told
    /\ xvfb' = [xvfb EXCEPT ![l] = "gone"]
    /\ told' = told \ {<<"xvfb", l>>}
    /\ sock' = [n \in Displays |-> IF sock[n] = l THEN Nobody ELSE sock[n]]
    /\ UNCHANGED <<rest, shell, plat, holder, pgs>>

\* The commands that return: those with a deadline, a counter or nothing to wait
\* for, and the waits for a process that was killed.
Script(l) ==
    \/ Preflight(l) \/ CheckPort(l)
    \/ PassDisplay(l) \/ StartXvfb(l) \/ TakeXvfbPid(l) \/ XvfbReady(l)
    \/ DropXvfb(l) \/ ReapXvfb(l) \/ BootPlatform(l) \/ TakePid(l)
    \/ Poll(l) \/ Leave(l)
    \/ KillPlatform(l) \/ WaitPlatform(l) \/ SweepPostgres(l) \/ WaitXvfb(l)

\* The programs in the foreground, which have no timeout.
Calls(l) == Health(l) \/ Query(l) \/ Harness(l)

Shell(l) == Script(l) \/ Calls(l)

Background(l) ==
    \/ StartDatabase(l) \/ BindPort(l) \/ BeginServing(l) \/ PlatformDies(l)
    \/ PostgresDies(l) \/ XvfbUp(l) \/ XvfbDies(l)

Next == \E l \in Launchers : Shell(l) \/ Signal(l) \/ Background(l)

\* What SIGTERM was sent to and a script waits for ends.
Terminates(l) ==
    \/ <<"plat", l>> \in told /\ PlatformDies(l)
    \/ <<"xvfb", l>> \in told /\ XvfbDies(l)

\* Some script goes on while one can, and what is waited for ends.  A call of the
\* CLI or of bench_runner.py may last for ever (BenchRun says when the latter
\* returns).
Fairness ==
    /\ WF_vars(\E l \in Launchers : Script(l))
    /\ WF_vars(\E l \in Launchers : Terminates(l))

Spec == Init /\ [][Next]_vars /\ Fairness

------------------------------------------------------------------------------
Places == Untrapped \cup Body \cup Handler \cup {"leave", "done"}
Returns == Body \cup {"leave", "done"}
ShellStates ==
    [pc : Places, ret : Returns, left : 0..Rounds,
     pid : BOOLEAN, xpid : BOOLEAN, num : 0..NumDisplays, pgport : 1..NumPgPorts,
     met : SUBSET Launchers]

TypeOK ==
    /\ dir \in [Launchers -> Checkouts] /\ port \in [Checkouts -> Ports]
    /\ shell \in [Launchers -> ShellStates]
    /\ signals \in 0..MaxSignals
    /\ plat \in [Launchers -> {"gone", "starting", "db", "bound", "serving"}]
    /\ xvfb \in [Launchers -> {"gone", "starting", "up"}]
    /\ told \subseteq {"plat", "xvfb", "pg"} \X Launchers
    /\ holder \in [Ports -> Owners \cup {Nobody}]
    /\ sock \in [Displays -> Owners \cup {Nobody}]
    /\ pgs \subseteq Owners

\* A launcher that has ended, at whatever point of the script it was signalled or
\* failed, has left neither platform nor X server, and no PostgreSQL of its own
\* that it has not told to terminate ("tears the platform down on exit", bench:9;
\* the PostgreSQL may be running still).
NothingLeft ==
    \A l \in Launchers :
        At(l, "done") => /\ plat[l] = "gone" /\ xvfb[l] = "gone"
                         /\ l \in pgs => <<"pg", l>> \in told

\* No launcher tells the PostgreSQL of the user to terminate, nor that of a
\* platform that was up already when the launcher looked at its port: from the
\* same checkout it is refused before it has a trap, from another it does not
\* match (bench:211-214).
NewcomerHarmless ==
    [][\A l \in Launchers : \A o \in shell[l].met \cup {User} :
          At(l, "sweep") /\ ~At(l, "sweep")' => (<<"pg", o>> \in told' => <<"pg", o>> \in told)]_vars

\* Every launcher ends, whatever becomes of its platform, but for one whose call of
\* the CLI (bench:312, 344) or of bench_runner.py (bench:386) never returns.
LauncherEnds ==
    <>[](\A l \in Launchers : shell[l].pc \in {"done", "ask", "query", "harness"})
=============================================================================
