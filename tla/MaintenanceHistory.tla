-------------------------- MODULE MaintenanceHistory ---------------------------
(***************************************************************************)
(* What the application may rely on of the background maintenance: tasks   *)
(* it asked for are run, none is run that nobody asked for, and all stops  *)
(* once the store is dropped.  History variables watch the passes begin.   *)
(***************************************************************************)
EXTENDS Maintenance

VARIABLES
    owed,     \* Manual registrations triggered since their last pass began
    begun     \* passes begun, of the registrations that run at need

passHistory == <<owed, begun>>
mhvars == <<mvars, passHistory>>

AtNeed == OnStarts \cup Manuals

\* Passes are bounded by what the loops may ask for.
PassesTypeOK ==
    /\ owed \subseteq Manuals
    /\ begun \in [AtNeed -> Nat]

\* A pass begins when its task is polled and the store is still there.
PassBegins(s) == worker' = "running" /\ worker # "running" /\ pass' = s

WatchPasses ==
    /\ owed' = {s \in owed : ~PassBegins(s)} \cup
               UNION {Listeners(h) : h \in {g \in Handles : value'[g] # value[g]}}
    /\ begun' = [s \in AtNeed |-> IF PassBegins(s) THEN begun[s] + 1 ELSE begun[s]]

MHInit == MaintenanceInit /\ owed = {} /\ begun = [s \in AtNeed |-> 0]
MHNext == MaintenanceStep /\ WatchPasses

\* Spawned tasks are polled, sleeps and passes end, and a drop is carried out.
\* A custom strategy promises to end on cancellation, and nothing else.
\* Nothing makes a task panic or the application trigger or drop anything.
MaintenanceFairness ==
    /\ WF_mhvars(BuildNext /\ WatchPasses)
    /\ WF_mhvars(LayersDropped /\ WatchPasses)
    /\ WF_mhvars(WorkerNext /\ WatchPasses)
    /\ \A s \in Registrations \ Customs : WF_mhvars(LoopNext(s) /\ WatchPasses)
    /\ \A s \in Customs : WF_mhvars(Cancelled /\ CustomEnds(s) /\ WatchPasses)

MHSafe == MHInit /\ [][MHNext]_mhvars
MHSpec == MHSafe /\ MaintenanceFairness

----------------------------------------------------------------------------
Sent(s)      == \E i \in DOMAIN queue : queue[i] = s
Requested(s) == s \in unseen \/ at[s] \in {"due", "sending"} \/ Sent(s)

\* A trigger of a registered Manual is not lost: until a pass of it begins, the
\* request is in the watch, in the loop's hands or in the queue, unless the
\* store is dropped or a panic has taken the worker.
TriggersKept ==
    \A s \in owed : Cancelled \/ worker = "panicked" \/ Requested(s)

\* strategies.rs, Manual: "A trigger fired after the Manual strategy has been
\* registered during build is not lost", panic or no panic.
NoTriggerLost == \A s \in owed : Cancelled \/ Requested(s)

\* No pass without a cause: a Manual registration begins at most one pass for
\* each value of its watch, and OnStart begins at most one.
PassesEarned ==
    /\ \A s \in Manuals : begun[s] <= value[HandleOf[s]]
    /\ \A s \in OnStarts : begun[s] <= 1

\* A triggered Manual registration gets its pass.
TriggersServed ==
    \A s \in Manuals :
        s \in owed ~> s \notin owed \/ Cancelled \/ worker = "panicked"

\* As long as the store is held, OnStart runs and Periodic goes on running,
\* however full the queue is.
OnStartRuns ==
    \A s \in OnStarts :
        store = "held" ~> begun[s] = 1 \/ Cancelled \/ worker = "panicked"
PeriodicRecurs ==
    \A s \in Periodics :
        store = "held" ~> pass = s \/ Cancelled \/ worker = "panicked"

\* When the store is dropped, or its build fails, worker and loops all end:
\* also a Periodic loop that waits for a slot and hears no cancellation.
DropEndsAll ==
    Cancelled ~> WorkerGone /\ \A s \in Registrations : LoopEnded(s)
===============================================================================
