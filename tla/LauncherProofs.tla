--------------------------- MODULE LauncherProofs ---------------------------
(***************************************************************************)
(* Proofs that a launcher leaves nothing behind but what it has told to    *)
(* terminate, and tells nobody else's PostgreSQL to, for any number of     *)
(* launchers, checkouts, ports, displays, polls and signals.               *)
(***************************************************************************)
EXTENDS Launcher, WellFoundedInduction, TLAPS

\* The script is at a place, or its handler will return to it.
AtOrBack(l, place) == At(l, place) \/ (shell[l].pc \in Handler /\ shell[l].ret = place)

\* What holds of each launcher.  Behind a loop head that let the script pass,
\* rounds are left ...
RoundsLeft(l) == AtOrBack(l, "ask") \/ AtOrBack(l, "query") => shell[l].left > 0

\* ... what the script has started it knows the PID of, but for the one moment
\* between the start in the background and the assignment of $! ...
Untold(l) == l \in pgs /\ <<"pg", l>> \notin told
PlatformTracked(l) ==
    plat[l] # "gone" \/ Untold(l) => shell[l].pid \/ AtOrBack(l, "pid")
XvfbTracked(l) == xvfb[l] # "gone" => shell[l].xpid \/ AtOrBack(l, "xpid")

\* ... there is nothing to know before the trap is set and after the end ...
NothingStarted(l) ==
    shell[l].pc \in Untrapped \cup {"done"} => ~shell[l].pid /\ ~shell[l].xpid

\* ... and the handler waits for a platform before it tells its PostgreSQL.
Swept(l) ==
    shell[l].pid => /\ shell[l].pc \in {"sweep", "xend"} => plat[l] = "gone"
                    /\ At(l, "xend") => ~Untold(l)

Tracked(l) ==
    /\ RoundsLeft(l) /\ PlatformTracked(l) /\ XvfbTracked(l)
    /\ NothingStarted(l) /\ Swept(l)

\* A platform that is up has its port.
UpHasPort == \A l \in Up : holder[Port(l)] = l

\* What was up when a launcher looked at the port is of another checkout.
MetElsewhere == \A l \in Launchers : shell[l].met \cap InDir(l) = {}

IInv ==
    /\ TypeOK
    /\ \A l \in Launchers : Tracked(l)
    /\ UpHasPort
    /\ MetElsewhere

-----------------------------------------------------------------------------
(* A set of numbers has a least one.                                       *)
LEMMA LeastNumber ==
    ASSUME NEW S \in SUBSET Nat, S # {}
    PROVE  \E p \in S : \A q \in S : p <= q
  <1> DEFINE less == {ss \in Nat \X Nat : ss[1] < ss[2]}
  <1>1. IsWellFoundedOn(less, Nat)
    BY NatLessThanWellFounded DEF OpToRel
  <1> HIDE DEF less
  <1>2. PICK p \in S : \A q \in S : ~(<<q, p>> \in less)
    BY <1>1, WFMin
  <1>3. ASSUME NEW q \in S PROVE p <= q
    <2>1. p \in Nat /\ q \in Nat
      OBVIOUS
    <2>2. q < p => <<q, p>> \in less
      BY <2>1 DEF less
    <2> QED
      BY <1>2, <2>1, <2>2
  <1> QED
    BY <1>3

(* The port that is looked for is one of those there are.                  *)
LEMMA FreePgPortType == FreePgPort \in 1..NumPgPorts
  <1> DEFINE free == (1..NumPgPorts) \ {shell[o].pgport : o \in pgs \cap Launchers}
  <1>1. NumPgPorts \in Nat \ {0}
    BY LauncherAssumption DEF LauncherAssumption
  <1>2. CASE free = {}
    BY <1>1, <1>2 DEF FreePgPort
  <1>3. CASE free # {}
    <2>1. free \in SUBSET Nat /\ free \subseteq 1..NumPgPorts
      BY <1>1
    <2> HIDE DEF free
    <2>2. \E p \in free : \A q \in free : p <= q
      BY <2>1, <1>3, LeastNumber
    <2> DEFINE least == CHOOSE p \in free : \A q \in free : p <= q
    <2>3. least \in free
      BY <2>2
    <2>4. FreePgPort = least
      BY <1>3 DEF FreePgPort, free
    <2> QED
      BY <2>1, <2>3, <2>4
  <1> QED
    BY <1>2, <1>3

(* What the assignments of the script do to its state.                     *)
LEMMA FreshType == ASSUME NEW pc \in Places PROVE Fresh(pc) \in ShellStates
  <1>1. 0 \in 0..Rounds /\ 0 \in 0..NumDisplays /\ 1 \in 1..NumPgPorts
    BY LauncherAssumption DEF LauncherAssumption
  <1> QED
    BY <1>1 DEF Fresh, ShellStates, Returns

LEMMA Assigned ==
    ASSUME NEW s \in ShellStates, NEW pc \in Places
    PROVE  /\ [s EXCEPT !.pc = pc] \in ShellStates
           /\ \A ret \in Returns : [s EXCEPT !.pc = pc, !.ret = ret] \in ShellStates
           /\ \A left \in 0..Rounds : [s EXCEPT !.pc = pc, !.left = left] \in ShellStates
           /\ \A num \in 0..NumDisplays : /\ [s EXCEPT !.num = num] \in ShellStates
                                          /\ [s EXCEPT !.pc = pc, !.num = num] \in ShellStates
           /\ \A n \in 1..NumPgPorts : [s EXCEPT !.pc = pc, !.pgport = n] \in ShellStates
           /\ \A met \in SUBSET Launchers : [s EXCEPT !.pc = pc, !.met = met] \in ShellStates
           /\ \A b \in BOOLEAN : [s EXCEPT !.pc = pc, !.xpid = b] \in ShellStates
           /\ \A left \in 0..Rounds : 
                 [s EXCEPT !.pc = pc, !.pid = TRUE, !.left = left] \in ShellStates
  BY DEF ShellStates

LEMMA StateOf == ASSUME TypeOK, NEW l \in Launchers PROVE shell[l] \in ShellStates
  BY DEF TypeOK

(* A step of the script that is only about its variables.                  *)
LEMMA OnlyShellType ==
    ASSUME TypeOK, NEW l \in Launchers, NEW s \in ShellStates,
           Become(l, s), OnlyShell
    PROVE  TypeOK'
  BY DEF TypeOK, Become, OnlyShell

(* The initial states.                                                     *)
LEMMA InitIInv == Init => IInv
  <1> SUFFICES ASSUME Init PROVE IInv
    OBVIOUS
  <1> USE LauncherAssumption DEF LauncherAssumption
  <1>1. PICK s \in Setups :
          /\ dir = s[1] /\ port = s[2]
          /\ holder = [p \in Ports |-> IF p \in s[3] THEN User ELSE Nobody]
    BY DEF Init
  <1>2. dir \in [Launchers -> Checkouts] /\ port \in [Checkouts -> Ports]
    BY <1>1
  <1>3. Fresh("start") \in ShellStates
    BY FreshType DEF Places, Untrapped
  <1>4. TypeOK
    BY <1>1, <1>2, <1>3 DEF Init, TypeOK, Owners, Displays
  <1>5. ASSUME NEW l \in Launchers PROVE Tracked(l)
    BY DEF Init, Tracked, RoundsLeft, PlatformTracked, XvfbTracked, NothingStarted, Swept, Untold,
           AtOrBack, At, Fresh, Handler
  <1>6. UpHasPort /\ MetElsewhere
    BY DEF Init, UpHasPort, MetElsewhere, Up, Fresh
  <1> QED
    BY <1>4, <1>5, <1>6 DEF IInv

(* A step of the script keeps values in their ranges: rounds left are       *)
(* counted down to zero only.                                              *)
LEMMA ShellTypeOK ==
    ASSUME TypeOK, NEW l \in Launchers, RoundsLeft(l), Shell(l)
    PROVE  TypeOK'
  <1> USE DEF Places, Returns, Untrapped, Body, Handler, At
  <1>s. shell[l] \in ShellStates
    BY StateOf
  <1>p. shell[l].pc \in Places /\ shell[l].left \in 0..Rounds
          /\ shell[l].num \in 0..NumDisplays /\ shell[l].ret \in Returns
    BY <1>s DEF ShellStates
  <1>r. Rounds \in Nat /\ Rounds \in 0..Rounds /\ NumDisplays \in Nat
    BY LauncherAssumption DEF LauncherAssumption
  <1>k. \A w \in {"plat", "xvfb"} : Kill(w, l) \subseteq {"plat", "xvfb", "pg"} \X Launchers
    BY DEF Kill
  <1>1. CASE Preflight(l)
    BY <1>1, <1>s, FreePgPortType, FreshType, Assigned, OnlyShellType DEF Preflight, End
  <1>2. CASE CheckPort(l)
    BY <1>2, <1>s, FreshType, Assigned, OnlyShellType DEF CheckPort, End, Up
  <1>3. CASE PassDisplay(l)
    <2>1. CASE Goto(l, "boot")
      BY <1>3, <2>1, <1>s, Assigned, OnlyShellType DEF PassDisplay, Goto
    <2>2. CASE shell[l].num < NumDisplays /\ Become(l, [shell[l] EXCEPT !.num = shell[l].num + 1])
      <3>1. shell[l].num + 1 \in 0..NumDisplays
        BY <2>2, <1>p, <1>r
      <3> QED
        BY <1>3, <2>2, <3>1, <1>p, <1>s, Assigned, OnlyShellType DEF PassDisplay
    <2> QED
      BY <1>3, <2>1, <2>2 DEF PassDisplay
  <1>4. CASE StartXvfb(l)
    <2>1. shell[l].num + 1 \in 0..NumDisplays
      BY <1>4, <1>p, <1>r DEF StartXvfb
    <2>2. [shell[l] EXCEPT !.pc = "xpid", !.num = shell[l].num + 1] \in ShellStates
      BY <2>1, <1>s, Assigned
    <2> QED
      BY <1>4, <2>2 DEF StartXvfb, Become, TypeOK, rest
  <1>5. CASE TakeXvfbPid(l)
    BY <1>5, <1>s, Assigned, OnlyShellType DEF TakeXvfbPid
  <1>6. CASE XvfbReady(l)
    BY <1>6, <1>s, Assigned, OnlyShellType DEF XvfbReady, Goto
  <1>7. CASE DropXvfb(l)
    <2>1. [shell[l] EXCEPT !.pc = "xreap"] \in ShellStates
      BY <1>s, Assigned
    <2> QED
      BY <1>7, <1>k, <2>1 DEF DropXvfb, Goto, Become, TypeOK, rest
  <1>8. CASE ReapXvfb(l)
    BY <1>8, <1>s, Assigned, OnlyShellType DEF ReapXvfb
  <1>9. CASE BootPlatform(l)
    <2>1. [shell[l] EXCEPT !.pc = "pid"] \in ShellStates
      BY <1>s, Assigned
    <2> QED
      BY <1>9, <2>1 DEF BootPlatform, Goto, Become, TypeOK, rest
  <1>10. CASE TakePid(l)
    BY <1>10, <1>s, <1>r, Assigned, OnlyShellType DEF TakePid
  <1>11. CASE Poll(l)
    BY <1>11, <1>s, Assigned, OnlyShellType DEF Poll, LoopHead, Exit, Goto
  <1>a. ASSUME NEW head \in Places, At(l, "ask") \/ At(l, "query"), Again(l, head), OnlyShell
        PROVE  TypeOK'
    <2>1. shell[l].left - 1 \in 0..Rounds
      BY <1>a, <1>p, <1>r DEF RoundsLeft, AtOrBack
    <2> QED
      BY <1>a, <2>1, <1>s, Assigned, OnlyShellType DEF Again
  <1>12. CASE Health(l)
    BY <1>12, <1>s, <1>r, <1>a, Assigned, OnlyShellType DEF Health
  <1>13. CASE Query(l)
    BY <1>13, <1>s, <1>a, Assigned, OnlyShellType DEF Query, Goto, Exit
  <1>14. CASE Leave(l) \/ Harness(l)
    BY <1>14, <1>s, Assigned, OnlyShellType DEF Leave, Harness, Exit
  <1>15. CASE KillPlatform(l)
    <2>1. [shell[l] EXCEPT !.pc = "wait"] \in ShellStates
      BY <1>s, Assigned
    <2> QED
      BY <1>15, <1>k, <2>1 DEF KillPlatform, Goto, Become, TypeOK, rest
  <1>16. CASE WaitPlatform(l)
    BY <1>16, <1>s, Assigned, OnlyShellType DEF WaitPlatform, Goto
  <1>17. CASE SweepPostgres(l)
    <2>1. [shell[l] EXCEPT !.pc = "xend"] \in ShellStates
      BY <1>s, Assigned
    <2>2. {"pg"} \X (InDir(l) \cap pgs) \subseteq {"plat", "xvfb", "pg"} \X Launchers
      BY DEF InDir
    <2>3. told' \subseteq {"plat", "xvfb", "pg"} \X Launchers
      BY <1>17, <1>k, <2>2 DEF SweepPostgres, TypeOK
    <2> QED
      BY <1>17, <2>1, <2>3 DEF SweepPostgres, Goto, Become, TypeOK, rest
  <1>18. CASE WaitXvfb(l)
    BY <1>18, <1>s, <1>p, FreshType, Assigned, OnlyShellType DEF WaitXvfb, End, Goto
  <1> QED
    BY <1>1, <1>2, <1>3, <1>4, <1>5, <1>6, <1>7, <1>8, <1>9, <1>10, <1>11, <1>12, <1>13,
       <1>14, <1>15, <1>16, <1>17, <1>18 DEF Shell, Script, Calls

(* Nor does a signal or a process in the background.                       *)
LEMMA OthersTypeOK ==
    ASSUME TypeOK, NEW l \in Launchers, Signal(l) \/ Background(l)
    PROVE  TypeOK'
  <1>1. CASE Signal(l)
    <2> USE DEF Places, Returns, Untrapped, Body, Handler
    <2>1. shell[l] \in ShellStates
      BY StateOf
    <2>2. ASSUME NEW s \in ShellStates, Become(l, s) PROVE shell' \in [Launchers -> ShellStates]
      BY <2>2 DEF Become, TypeOK
    <2>3. shell' \in [Launchers -> ShellStates]
      BY <1>1, <2>1, <2>2, FreshType, Assigned DEF Signal, End, Goto
    <2>4. signals' \in 0..MaxSignals
      BY <1>1, LauncherAssumption DEF Signal, TypeOK, LauncherAssumption
    <2> QED
      BY <1>1, <2>3, <2>4 DEF Signal, TypeOK
  <1>2. CASE StartDatabase(l)
    BY <1>2 DEF StartDatabase, Dies, TypeOK, rest, Owners
  <1>3. CASE BindPort(l)
    BY <1>3 DEF BindPort, Dies, TypeOK, rest, Owners
  <1>4. CASE BeginServing(l)
    BY <1>4 DEF BeginServing, TypeOK, rest
  <1>5. CASE PlatformDies(l)
    BY <1>5 DEF PlatformDies, Dies, TypeOK, rest
  <1>p. CASE PostgresDies(l)
    BY <1>p DEF PostgresDies, TypeOK, rest
  <1>6. CASE XvfbUp(l)
    BY <1>6 DEF XvfbUp, TypeOK, rest, Owners
  <1>7. CASE XvfbDies(l)
    BY <1>7 DEF XvfbDies, TypeOK, rest
  <1> QED
    BY <1>1, <1>2, <1>3, <1>4, <1>5, <1>6, <1>7, <1>p DEF Background

(* A step of one launcher, or of what it has started, leaves the others'    *)
(* alone; it may tell their PostgreSQL to terminate.                       *)
LEMMA OthersKept ==
    ASSUME TypeOK, NEW l \in Launchers, Shell(l) \/ Signal(l) \/ Background(l),
           NEW k \in Launchers \ {l}
    PROVE  /\ shell'[k] = shell[k] /\ plat'[k] = plat[k] /\ xvfb'[k] = xvfb[k]
           /\ Untold(k)' => Untold(k)
  <1> USE DEF TypeOK, Become, Goto, End, Exit, OnlyShell, rest, Untold
  <1>1. CASE Shell(l)
    <2>1. CASE Preflight(l) \/ CheckPort(l)
      BY <2>1 DEF Preflight, CheckPort
    <2>2. CASE PassDisplay(l) \/ StartXvfb(l) \/ TakeXvfbPid(l) \/ XvfbReady(l)
      BY <2>2 DEF PassDisplay, StartXvfb, TakeXvfbPid, XvfbReady
    <2>3. CASE DropXvfb(l) \/ ReapXvfb(l) \/ BootPlatform(l) \/ TakePid(l)
      BY <2>3 DEF DropXvfb, ReapXvfb, BootPlatform, TakePid
    <2>4. CASE Poll(l) \/ Calls(l) \/ Leave(l)
      BY <2>4 DEF Poll, LoopHead, Calls, Health, Again, Query, Harness, Leave
    <2>5. CASE KillPlatform(l) \/ WaitPlatform(l) \/ SweepPostgres(l) \/ WaitXvfb(l)
      BY <2>5 DEF KillPlatform, WaitPlatform, SweepPostgres, WaitXvfb
    <2> QED
      BY <1>1, <2>1, <2>2, <2>3, <2>4, <2>5 DEF Shell, Script
  <1>2. CASE Signal(l)
    BY <1>2 DEF Signal
  <1>3. CASE Background(l)
    BY <1>3 DEF Background, StartDatabase, BindPort, BeginServing, PlatformDies, PostgresDies,
                XvfbUp, XvfbDies, Dies
  <1> QED
    BY <1>1, <1>2, <1>3

LEMMA OthersTracked ==
    ASSUME TypeOK, NEW l \in Launchers, Shell(l) \/ Signal(l) \/ Background(l),
           NEW k \in Launchers \ {l}, Tracked(k)
    PROVE  Tracked(k)'
  BY OthersKept DEF Tracked, RoundsLeft, PlatformTracked, XvfbTracked, NothingStarted, Swept, Untold,
                    AtOrBack, At

(* An end with nothing left running is an end without anything to track.   *)
LEMMA EndTracked ==
    ASSUME TypeOK, NEW l \in Launchers, End(l), UNCHANGED <<plat, xvfb, pgs, told>>,
           plat[l] = "gone", xvfb[l] = "gone", ~Untold(l)
    PROVE  Tracked(l)'
  <1>1. shell'[l] = Fresh("done")
    BY DEF End, Become, TypeOK
  <1> QED
    BY <1>1 DEF Fresh, Tracked, RoundsLeft, PlatformTracked, XvfbTracked, NothingStarted, Swept, Untold,
                AtOrBack, At, Handler

(* Nor is anything lost on the way to another command or to the handler.    *)
LEMMA MoveTracked ==
    ASSUME TypeOK, NEW l \in Launchers, Tracked(l), UNCHANGED <<plat, xvfb, pgs, told>>,
           NEW s \in ShellStates, Become(l, s), s.pid = shell[l].pid, s.xpid = shell[l].xpid,
           shell[l].pc \notin {"pid", "xpid"} \cup Handler,
           s.pc \notin Untrapped \cup {"done", "sweep", "xend"},
           s.pc \in {"ask", "query"} => s.left > 0,
           s.pc \in Handler => s.ret \notin {"ask", "query"}
    PROVE  Tracked(l)'
  <1>1. shell'[l] = s
    BY DEF Become, TypeOK
  <1> QED
    BY <1>1 DEF Tracked, RoundsLeft, PlatformTracked, XvfbTracked, NothingStarted, Swept, Untold,
                AtOrBack, At, Handler, Untrapped

(* The script keeps track of what it starts.                               *)
LEMMA ShellTracked ==
    ASSUME TypeOK, NEW l \in Launchers, Tracked(l), Shell(l)
    PROVE  Tracked(l)'
  <1> USE DEF Tracked, RoundsLeft, PlatformTracked, XvfbTracked, NothingStarted, Swept, Untold,
              AtOrBack, At, Untrapped, Body, Handler, Returns, Become
  <1>s. shell[l] \in ShellStates /\ l \in DOMAIN shell /\ l \in DOMAIN plat /\ l \in DOMAIN xvfb
    BY StateOf DEF TypeOK
  <1>r. shell[l].ret \in Returns /\ shell[l].left \in 0..Rounds /\ Rounds \in Nat
    BY <1>s, LauncherAssumption DEF ShellStates, LauncherAssumption
  <1>a. ASSUME OnlyShell, NEW p \in {"ask", "query", "harness", "health", "probe"}, Goto(l, p),
               shell[l].pc \in {"health", "probe", "ask", "query"}, shell[l].left > 0
        PROVE  Tracked(l)'
    <2> DEFINE s == [shell[l] EXCEPT !.pc = p]
    <2>1. s \in ShellStates
      BY <1>s, Assigned DEF Places, Returns
    <2> QED
      BY <1>a, <2>1, MoveTracked DEF OnlyShell, Goto
  <1>b. ASSUME OnlyShell, Exit(l), shell[l].pc \in {"health", "probe", "query", "harness", "leave"}
        PROVE  Tracked(l)'
    <2> DEFINE s == [shell[l] EXCEPT !.pc = "stop", !.ret = "done"]
    <2>1. s \in ShellStates
      BY <1>s, Assigned DEF Places, Returns
    <2> QED
      BY <1>b, <2>1, MoveTracked DEF OnlyShell, Exit
  <1>c. ASSUME OnlyShell, NEW p \in {"health", "probe"}, NEW n \in 0..Rounds,
               Become(l, [shell[l] EXCEPT !.pc = p, !.left = n]),
               shell[l].pc \in {"ask", "query"}
        PROVE  Tracked(l)'
    <2> DEFINE s == [shell[l] EXCEPT !.pc = p, !.left = n]
    <2>1. s \in ShellStates
      BY <1>s, Assigned DEF Places, Returns
    <2> QED
      BY <1>c, <2>1, MoveTracked DEF OnlyShell
  <1>d. /\ shell[l].pc \in {"ask", "query"} => shell[l].left > 0 /\ shell[l].left - 1 \in 0..Rounds
        /\ Rounds \in 0..Rounds
    BY <1>r, LauncherAssumption DEF LauncherAssumption
  <1>e. [shell[l] EXCEPT !.pc = "display", !.met = Up] \in ShellStates
    BY <1>s, Assigned DEF Up, Places
  <1> USE <1>s DEF ShellStates
  <1>1. CASE Preflight(l)
    <2>1. CASE End(l)
      BY <1>1, <2>1, EndTracked DEF Preflight, OnlyShell
    <2>2. CASE ~End(l)
      <3>1. shell'[l] = [shell[l] EXCEPT !.pc = "check", !.pgport = FreePgPort]
        BY <1>1, <2>2 DEF Preflight
      <3>2. /\ shell'[l].pc = "check" /\ shell'[l].pid = shell[l].pid
            /\ shell'[l].xpid = shell[l].xpid
        BY <3>1
      <3>3. shell[l].pc = "start" /\ UNCHANGED <<plat, xvfb, pgs, told>>
        BY <1>1 DEF Preflight, OnlyShell
      <3> HIDE DEF ShellStates
      <3> QED
        BY <3>2, <3>3
    <2> QED
      BY <2>1, <2>2
  <1>2. CASE CheckPort(l)
    <2>1. CASE End(l)
      BY <1>2, <2>1, EndTracked DEF CheckPort, OnlyShell
    <2>2. CASE ~End(l)
      <3> DEFINE s == [shell[l] EXCEPT !.pc = "display", !.met = Up]
      <3>2. Become(l, s)
        BY <1>2, <2>2 DEF CheckPort
      <3> QED
        BY <1>2, <1>e, <3>2, MoveTracked DEF CheckPort, OnlyShell
    <2> QED
      BY <2>1, <2>2
  <1>3. CASE PassDisplay(l)
    BY <1>3 DEF PassDisplay, Goto, OnlyShell
  <1>4. CASE StartXvfb(l)
    BY <1>4 DEF StartXvfb, rest
  <1>5. CASE TakeXvfbPid(l)
    BY <1>5 DEF TakeXvfbPid, OnlyShell
  <1>6. CASE XvfbReady(l)
    BY <1>6 DEF XvfbReady, Goto, OnlyShell
  <1>7. CASE DropXvfb(l)
    BY <1>7 DEF DropXvfb, Goto, rest
  <1>8. CASE ReapXvfb(l)
    BY <1>8 DEF ReapXvfb, OnlyShell
  <1>9. CASE BootPlatform(l)
    BY <1>9 DEF BootPlatform, Goto, rest
  <1>10. CASE TakePid(l)
    BY <1>10 DEF TakePid, OnlyShell
  <1>11. CASE Poll(l)
    <2>1. shell[l].pc \in {"health", "probe"} /\ OnlyShell
      BY <1>11 DEF Poll, LoopHead
    <2>2. Exit(l) \/ (shell[l].left > 0 /\ (Goto(l, "ask") \/ Goto(l, "query")))
      BY <1>11, <1>r DEF Poll, LoopHead, Expired
    <2> QED
      BY <2>1, <2>2, <1>a, <1>b
  <1>12. CASE Health(l)
    BY <1>12, <1>c, <1>d DEF Health, Again
  <1>13. CASE Query(l)
    BY <1>13, <1>a, <1>b, <1>c, <1>d DEF Query, Again
  <1>14. CASE Leave(l) \/ Harness(l)
    BY <1>14, <1>b DEF Leave, Harness
  <1>15. CASE KillPlatform(l)
    BY <1>15 DEF KillPlatform, Goto, rest
  <1>16. CASE WaitPlatform(l)
    BY <1>16 DEF WaitPlatform, Goto, OnlyShell
  <1>17. CASE SweepPostgres(l)
    BY <1>17 DEF SweepPostgres, Goto, rest, InDir
  <1>18. CASE WaitXvfb(l)
    BY <1>18, <1>r DEF WaitXvfb, End, Fresh, Goto, OnlyShell
  <1> QED
    BY <1>1, <1>2, <1>3, <1>4, <1>5, <1>6, <1>7, <1>8, <1>9, <1>10, <1>11, <1>12, <1>13,
       <1>14, <1>15, <1>16, <1>17, <1>18 DEF Shell, Script, Calls

(* A signal sends it to its handler, and what runs in the background may    *)
(* end at any time, but not start again.                                   *)
LEMMA BackgroundTracked ==
    ASSUME TypeOK, NEW l \in Launchers, Tracked(l), Signal(l) \/ Background(l)
    PROVE  Tracked(l)'
  <1> USE DEF Tracked, RoundsLeft, PlatformTracked, XvfbTracked, NothingStarted, Swept, Untold,
              AtOrBack, At, Untrapped, Body, Handler, TypeOK
  <1>s. shell[l] \in ShellStates
    BY StateOf
  <1>1. CASE Signal(l)
    <2> DEFINE pc == shell[l].pc
    <2>1. CASE pc \in Untrapped /\ End(l)
      BY <1>1, <2>1, EndTracked DEF Signal
    <2>2. CASE pc \in Body /\ Become(l, [shell[l] EXCEPT !.pc = "stop", !.ret = pc])
      BY <1>1, <1>s, <2>2 DEF Signal, Become, ShellStates
    <2>3. CASE pc \in {"health", "probe", "harness"}
                 /\ Become(l, [shell[l] EXCEPT !.pc = "stop", !.ret = "leave"])
      BY <1>1, <1>s, <2>3 DEF Signal, Become, ShellStates
    <2>4. CASE pc \in {"wait", "xend"} /\ Goto(l, "stop")
      BY <1>1, <1>s, <2>4 DEF Signal, Goto, Become, ShellStates
    <2> QED
      BY <1>1, <2>1, <2>2, <2>3, <2>4 DEF Signal
  <1>2. CASE StartDatabase(l)
    BY <1>2 DEF StartDatabase, Dies, rest
  <1>3. CASE BindPort(l)
    BY <1>3 DEF BindPort, Dies, rest
  <1>4. CASE BeginServing(l)
    BY <1>4 DEF BeginServing, rest
  <1>5. CASE PlatformDies(l)
    BY <1>5 DEF PlatformDies, Dies, rest
  <1>p. CASE PostgresDies(l)
    BY <1>p DEF PostgresDies, rest
  <1>6. CASE XvfbUp(l) \/ XvfbDies(l)
    BY <1>6 DEF XvfbUp, XvfbDies, rest
  <1> QED
    BY <1>1, <1>2, <1>3, <1>4, <1>5, <1>6, <1>p DEF Background

(* The setup never changes, and a port is taken and left by platforms only. *)
LEMMA HoldersKept ==
    ASSUME TypeOK, NEW l \in Launchers, Shell(l) \/ Signal(l) \/ Background(l)
    PROVE  /\ UNCHANGED <<dir, port>>
           /\ \/ UNCHANGED holder /\ Up' \subseteq Up
              \/ BindPort(l) \/ BeginServing(l) \/ PlatformDies(l)
  <1>1. CASE Shell(l)
    <2> USE <1>1 DEF Up, OnlyShell, rest
    <2>1. CASE BootPlatform(l)
      BY <2>1 DEF BootPlatform, TypeOK
    <2>2. CASE Preflight(l) \/ CheckPort(l) \/ PassDisplay(l) \/ TakeXvfbPid(l) \/ XvfbReady(l)
      BY <2>2 DEF Preflight, CheckPort, PassDisplay, TakeXvfbPid, XvfbReady
    <2>3. CASE StartXvfb(l) \/ DropXvfb(l) \/ ReapXvfb(l) \/ TakePid(l)
      BY <2>3 DEF StartXvfb, DropXvfb, ReapXvfb, TakePid
    <2>4. CASE Poll(l) \/ Calls(l) \/ Leave(l)
      BY <2>4 DEF Poll, LoopHead, Calls, Health, Query, Harness, Leave
    <2>5. CASE KillPlatform(l) \/ WaitPlatform(l) \/ SweepPostgres(l) \/ WaitXvfb(l)
      BY <2>5 DEF KillPlatform, WaitPlatform, SweepPostgres, WaitXvfb
    <2> QED
      BY <2>1, <2>2, <2>3, <2>4, <2>5 DEF Shell, Script
  <1>2. CASE Signal(l)
    BY <1>2 DEF Signal, Up
  <1>3. CASE StartDatabase(l) \/ PostgresDies(l) \/ XvfbUp(l) \/ XvfbDies(l)
    BY <1>3 DEF StartDatabase, PostgresDies, XvfbUp, XvfbDies, Dies, Up, rest, TypeOK
  <1>4. CASE BindPort(l) \/ BeginServing(l) \/ PlatformDies(l)
    BY <1>4 DEF BindPort, BeginServing, PlatformDies, rest
  <1> QED
    BY <1>1, <1>2, <1>3, <1>4 DEF Background

(* Who is up holds its port.                                               *)
LEMMA NextUpHasPort ==
    ASSUME TypeOK, UpHasPort, NEW l \in Launchers, Shell(l) \/ Signal(l) \/ Background(l)
    PROVE  UpHasPort'
  <1> SUFFICES ASSUME NEW k \in Up' PROVE holder'[Port(k)'] = k
    BY DEF UpHasPort
  <1>1. Port(k)' = Port(k) /\ Port(k) \in Ports /\ k \in Launchers
    BY HoldersKept DEF Port, TypeOK, Up
  <1>2. Nobody \notin Launchers
    BY LauncherAssumption DEF LauncherAssumption
  <1>3. CASE UNCHANGED holder /\ Up' \subseteq Up
    BY <1>1, <1>3 DEF UpHasPort
  <1>4. CASE BindPort(l)
    <2>1. CASE k = l
      BY <1>1, <1>4, <2>1 DEF BindPort, Dies, Up, TypeOK
    <2>2. CASE k # l
      <3>1. k \in Up
        BY <1>1, <1>4, <2>2 DEF BindPort, Dies, Up, TypeOK
      <3>2. holder[Port(k)] = k
        BY <3>1 DEF UpHasPort
      <3> QED
        BY <1>1, <1>2, <1>4, <3>2 DEF BindPort, TypeOK
    <2> QED
      BY <2>1, <2>2
  <1>5. CASE BeginServing(l)
    BY <1>1, <1>5 DEF BeginServing, Up, TypeOK, UpHasPort, rest
  <1>6. CASE PlatformDies(l)
    <2>1. k \in Up /\ k # l
      BY <1>1, <1>6 DEF PlatformDies, Dies, Up, TypeOK
    <2> QED
      BY <1>1, <1>6, <2>1 DEF PlatformDies, UpHasPort
  <1> QED
    BY HoldersKept, <1>3, <1>4, <1>5, <1>6

(* A launcher that finds its port free meets nobody of its own checkout:    *)
(* with the same .env, whoever is up would hold that port.                 *)
LEMMA NextMetElsewhere ==
    ASSUME IInv, NEW l \in Launchers, Shell(l) \/ Signal(l) \/ Background(l)
    PROVE  MetElsewhere'
  <1> SUFFICES ASSUME NEW k \in Launchers PROVE shell'[k].met \cap InDir(k)' = {}
    BY DEF MetElsewhere
  <1>1. InDir(k)' = InDir(k)
    BY HoldersKept DEF InDir, IInv
  <1>2. CASE shell'[k].met \subseteq shell[k].met
    BY <1>1, <1>2 DEF IInv, MetElsewhere
  <1>3. CASE shell'[k].met = {}
    BY <1>3
  <1>4. CASE k = l /\ CheckPort(l) /\ shell'[k].met = Up /\ holder[Port(l)] = Nobody
    <2> SUFFICES ASSUME NEW o \in Up, dir[o] = dir[l] PROVE FALSE
      BY <1>1, <1>4 DEF InDir
    <2>1. holder[Port(o)] = o /\ Port(o) = Port(l) /\ o \in Launchers
      BY DEF IInv, UpHasPort, Port, Up
    <2> QED
      BY <1>4, <2>1, LauncherAssumption DEF LauncherAssumption
  <1>5. \/ shell'[k].met \subseteq shell[k].met
        \/ shell'[k].met = {}
        \/ k = l /\ CheckPort(l) /\ shell'[k].met = Up /\ holder[Port(l)] = Nobody
    <2>1. CASE k # l
      BY <2>1, OthersKept DEF IInv
    <2>2. CASE k = l
      <3>1. TypeOK /\ l \in DOMAIN shell
        BY DEF IInv, TypeOK
      <3>s. shell[l] \in ShellStates
        BY <3>1, StateOf
      <3> USE <2>2, <3>1, <3>s DEF Become, Goto, End, Exit, Fresh, OnlyShell, rest, ShellStates
      <3>2. CASE Preflight(l)
        <4>1. CASE End(l)
          BY <4>1
        <4>2. CASE ~End(l)
          BY <3>2, <4>2 DEF Preflight
        <4> QED
          BY <4>1, <4>2
      <3>3. CASE CheckPort(l)
        <4>1. CASE End(l)
          BY <4>1
        <4>2. CASE ~End(l)
          BY <3>3, <4>2 DEF CheckPort
        <4> QED
          BY <4>1, <4>2
      <3>4. CASE PassDisplay(l) \/ StartXvfb(l) \/ TakeXvfbPid(l) \/ XvfbReady(l)
        BY <3>4 DEF PassDisplay, StartXvfb, TakeXvfbPid, XvfbReady
      <3>5. CASE DropXvfb(l) \/ ReapXvfb(l) \/ BootPlatform(l) \/ TakePid(l)
        <4>1. CASE DropXvfb(l)
          BY <4>1 DEF DropXvfb
        <4>3. CASE ReapXvfb(l)
          BY <4>3 DEF ReapXvfb
        <4>2. CASE BootPlatform(l) \/ TakePid(l)
          BY <4>2 DEF BootPlatform, TakePid
        <4> QED
          BY <3>5, <4>1, <4>2, <4>3
      <3>6. CASE Poll(l) \/ Health(l)
        BY <3>6 DEF Poll, LoopHead, Health, Again
      <3>7. CASE Query(l) \/ Harness(l) \/ Leave(l)
        BY <3>7 DEF Again, Query, Harness, Leave
      <3>8. CASE KillPlatform(l) \/ WaitPlatform(l) \/ SweepPostgres(l)
        BY <3>8 DEF KillPlatform, WaitPlatform, SweepPostgres
      <3>9. CASE WaitXvfb(l)
        BY <3>9 DEF WaitXvfb
      <3>10. CASE Signal(l)
        <4>1. CASE End(l)
          BY <4>1
        <4>2. CASE ~End(l)
          <5>1. CASE Goto(l, "stop")
            BY <5>1
          <5>2. CASE ~Goto(l, "stop")
            BY <3>10, <4>2, <5>2 DEF Signal
          <5> QED
            BY <5>1, <5>2
        <4> QED
          BY <4>1, <4>2
      <3>11. CASE Background(l)
        BY <3>11 DEF Background, StartDatabase, BindPort, BeginServing, PlatformDies, PostgresDies,
                     XvfbUp, XvfbDies
      <3> QED
        BY <3>2, <3>3, <3>4, <3>5, <3>6, <3>7, <3>8, <3>9, <3>10, <3>11 DEF Shell, Script, Calls
    <2> QED
      BY <2>1, <2>2
  <1> QED
    BY <1>2, <1>3, <1>4, <1>5

(* The invariant is inductive.                                             *)
LEMMA NextIInv == IInv /\ [Next]_vars => IInv'
  <1>1. ASSUME IInv, NEW l \in Launchers, Shell(l) \/ Signal(l) \/ Background(l)
        PROVE  IInv'
    <2>1. TypeOK'
      BY <1>1, ShellTypeOK, OthersTypeOK DEF IInv, Tracked
    <2>2. ASSUME NEW k \in Launchers PROVE Tracked(k)'
      BY <1>1, ShellTracked, BackgroundTracked, OthersTracked DEF IInv
    <2>3. UpHasPort' /\ MetElsewhere'
      BY <1>1, NextUpHasPort, NextMetElsewhere DEF IInv
    <2> QED
      BY <2>1, <2>2, <2>3 DEF IInv
  <1>2. ASSUME IInv, UNCHANGED vars PROVE IInv'
    <2> USE <1>2 DEF vars
    <2>1. TypeOK'
      BY DEF IInv, TypeOK
    <2>2. ASSUME NEW k \in Launchers PROVE Tracked(k)'
      BY DEF IInv, Tracked, RoundsLeft, PlatformTracked, XvfbTracked, NothingStarted, Swept, Untold,
             AtOrBack, At
    <2>3. UpHasPort' /\ MetElsewhere'
      BY DEF IInv, UpHasPort, MetElsewhere, Up, InDir, Port
    <2> QED
      BY <2>1, <2>2, <2>3 DEF IInv
  <1> QED
    BY <1>1, <1>2 DEF Next

THEOREM Invariant == Spec => []IInv
  BY InitIInv, NextIInv, PTL DEF Spec

(* Every state of every run has its values in their ranges: bench's loops   *)
(* count their deadlines down and stop at zero.                            *)
THEOREM TypeCorrect == Spec => []TypeOK
  <1>1. IInv => TypeOK
    BY DEF IInv
  <1> QED
    BY Invariant, <1>1, PTL

(* A launcher that has ended has left neither platform nor X server, and no *)
(* PostgreSQL that it has not told to terminate, wherever in the script a  *)
(* signal or a failure found it.                                           *)
THEOREM LeavesNothing == Spec => []NothingLeft
  <1>1. IInv => NothingLeft
    BY DEF IInv, NothingLeft, Tracked, PlatformTracked, XvfbTracked, NothingStarted, AtOrBack, At,
           Handler, Untold
  <1> QED
    BY Invariant, <1>1, PTL

(* No sweep tells the PostgreSQL of the user to terminate, or of a platform *)
(* that was up when the sweeping launcher looked at its port.              *)
THEOREM SweepsOnlyItsOwn == Spec => NewcomerHarmless
  <1> DEFINE A == \A l \in Launchers : \A o \in shell[l].met \cup {User} :
                    At(l, "sweep") /\ ~At(l, "sweep")' => (<<"pg", o>> \in told' => <<"pg", o>> \in told)
  <1>1. ASSUME IInv, [Next]_vars PROVE [A]_vars
    <2> SUFFICES ASSUME NEW l \in Launchers, NEW o \in shell[l].met \cup {User}, Next,
                        At(l, "sweep"), ~At(l, "sweep")', <<"pg", o>> \in told'
                 PROVE  <<"pg", o>> \in told
      BY <1>1
    <2>1. PICK k \in Launchers : Shell(k) \/ Signal(k) \/ Background(k)
      BY DEF Next
    <2>2. k = l
      BY <1>1, <2>1, OthersKept DEF IInv, At
    <2>3. Shell(l) \/ Signal(l)
      <3>1. shell' # shell
        BY DEF At
      <3> QED
        BY <2>1, <2>2, <3>1 DEF Background, StartDatabase, BindPort, BeginServing, PlatformDies,
                                PostgresDies, XvfbUp, XvfbDies
    <2>4. SweepPostgres(l)
      BY <2>3 DEF Shell, Script, Calls, Signal, At, Untrapped, Body, Preflight, CheckPort, PassDisplay, StartXvfb,
                  TakeXvfbPid, XvfbReady, DropXvfb, ReapXvfb, BootPlatform, TakePid, Poll,
                  LoopHead, Health, Query, Harness, Leave, KillPlatform, WaitPlatform, WaitXvfb
    <2>5. o \notin InDir(l)
      BY <1>1, LauncherAssumption DEF IInv, MetElsewhere, InDir, LauncherAssumption
    <2> QED
      BY <2>4, <2>5 DEF SweepPostgres, Kill
  <1>2. IInv /\ [Next]_vars => [A]_vars
    BY <1>1
  <1> QED
    BY Invariant, <1>2, PTL DEF NewcomerHarmless, Spec
=============================================================================
