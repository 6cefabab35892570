------------------------------ MODULE Maintenance ------------------------------
(***************************************************************************)
(* The background maintenance of a built store (builder.rs, builder/       *)
(* maintenance.rs, builder/strategies.rs): a bounded queue of tasks, one   *)
(* worker that runs them, one spawned loop per registered task, and the    *)
(* guard that stops it all when the store is dropped.                      *)
(*                                                                         *)
(* A registration is a rekey or cleanup task with its strategy.  A queue   *)
(* entry is the registration whose task it is: the task upgrades its weak  *)
(* reference when the worker polls it first, and is skipped if the store   *)
(* is gone.  The channel and the watch are tokio's: the channel wakes      *)
(* waiting senders in order; the watch keeps for each receiver whether it  *)
(* has seen the last value.                                                *)
(***************************************************************************)
EXTENDS Naturals, Sequences

CONSTANTS
    OnStarts, Periodics, Manuals, Customs,   \* registrations, by strategy
    Handles,       \* Manual handles of the application
    HandleOf,      \* Manual registration -> the handle that triggers it
    QueueCap,      \* slots of the queue
    MaxTriggers,   \* bound: values a handle may send
    Panics,        \* whether a task may panic (provider, predicate, layer)
    Nothing        \* no registration

Registrations == OnStarts \cup Periodics \cup Manuals \cup Customs

ASSUME RegistrationsAssumption ==
    /\ OnStarts \cap (Periodics \cup Manuals \cup Customs) = {}
    /\ Periodics \cap (Manuals \cup Customs) = {}
    /\ Manuals \cap Customs = {}
    /\ Nothing \notin Registrations
ASSUME HandlesAssumption == HandleOf \in [Manuals -> Handles]
ASSUME QueueAssumption   == QueueCap \in Nat \ {0}
ASSUME BoundAssumption   == MaxTriggers \in Nat /\ Panics \in BOOLEAN

VARIABLES
    store,      \* the guarded store: being built, held, being dropped, gone
    worker,     \* the worker: idle, running, stopped or panicked
    pass,       \* registration whose pass it runs
    queue,      \* tasks in the channel
    waiting,    \* loops that wait for a slot, in order
    at,         \* where each registration's loop stands
    unseen,     \* Manual loops whose watch has a value they have not seen
    value,      \* handle -> how many values were sent to its watch
    handles     \* handles the application still has

mvars == <<store, worker, pass, queue, waiting, at, unseen, value, handles>>

LoopSteps == {"unscheduled", "due", "sending", "sleeping", "listening", "free", "done"}

\* The variables have their types, the queue keeps its bound, and each loop is
\* where its strategy can be.
MaintenanceTypeOK ==
    /\ store \in {"building", "held", "dropping", "dropped"}
    /\ worker \in {"idle", "running", "stopped", "panicked"}
    /\ pass \in Registrations \cup {Nothing}
    /\ queue \in Seq(Registrations)
    /\ waiting \in Seq(Registrations)
    /\ at \in [Registrations -> LoopSteps]
    /\ unseen \subseteq Manuals
    /\ value \in [Handles -> 0 .. MaxTriggers]
    /\ handles \subseteq Handles
    /\ Len(queue) <= QueueCap
    /\ worker = "running" <=> pass # Nothing
    /\ \A s \in Registrations :
          /\ at[s] = "sleeping" => s \in Periodics
          /\ at[s] = "listening" => s \in Manuals
          /\ at[s] = "free" => s \in Customs
          /\ at[s] \in {"due", "sending"} => s \notin Customs

MaintenanceInit ==
    /\ store = "building"
    /\ worker = "idle"
    /\ pass = Nothing
    /\ queue = <<>>
    /\ waiting = <<>>
    /\ at = [s \in Registrations |-> "unscheduled"]
    /\ unseen = {}
    /\ value = [h \in Handles |-> 0]
    /\ handles = Handles

\* ShutdownGuard::drop cancels the token before its fields are dropped.
Cancelled  == store \in {"dropping", "dropped"}
WorkerGone == worker \in {"stopped", "panicked"}
LoopEnded(s) == at[s] \in {"unscheduled", "done"}

----------------------------------------------------------------------------
(* build and drop                                                           *)

\* spawn_tasks schedules one registration: its loop is spawned.  A Manual loop
\* subscribes at once, to values sent from now on.
Schedules(s) ==
    /\ store = "building"
    /\ at[s] = "unscheduled"
    /\ at' = [at EXCEPT ![s] = CASE s \in OnStarts \cup Periodics -> "due"
                                 [] s \in Manuals                 -> "listening"
                                 [] s \in Customs                 -> "free"]
    /\ unseen' = unseen \ {s}
    /\ UNCHANGED <<store, worker, pass, queue, waiting, value, handles>>

\* A custom strategy refuses: build returns the error and drops the store.
ScheduleFails(s) ==
    /\ store = "building"
    /\ s \in Customs
    /\ at[s] = "unscheduled"
    /\ store' = "dropping"
    /\ UNCHANGED <<worker, pass, queue, waiting, at, unseen, value, handles>>

BuildReturns ==
    /\ store = "building"
    /\ \A s \in Registrations : at[s] # "unscheduled"
    /\ store' = "held"
    /\ UNCHANGED <<worker, pass, queue, waiting, at, unseen, value, handles>>

\* The application drops its last reference: the token is cancelled ...
StoreDropped ==
    /\ store = "held"
    /\ store' = "dropping"
    /\ UNCHANGED <<worker, pass, queue, waiting, at, unseen, value, handles>>

\* ... and then the layers go, but for those a running pass still holds.
LayersDropped ==
    /\ store = "dropping"
    /\ store' = "dropped"
    /\ UNCHANGED <<worker, pass, queue, waiting, at, unseen, value, handles>>

----------------------------------------------------------------------------
(* The worker                                                               *)

\* Its select is not biased: a task is taken even if the token is cancelled.  It
\* begins a pass only if its weak reference to the layers can be upgraded.
WorkerTakes ==
    /\ worker = "idle"
    /\ queue # <<>>
    /\ queue' = Tail(queue)
    /\ IF store # "dropped"
       THEN worker' = "running" /\ pass' = Head(queue)
       ELSE UNCHANGED <<worker, pass>>
    /\ UNCHANGED <<store, waiting, at, unseen, value, handles>>

\* The pass ends, well or with an error that is logged.
PassEnds ==
    /\ worker = "running"
    /\ worker' = "idle"
    /\ pass' = Nothing
    /\ UNCHANGED <<store, queue, waiting, at, unseen, value, handles>>

\* The worker ends and drops its end of the channel, with the tasks in it.
WorkerEnds(how) ==
    /\ worker' = how
    /\ pass' = Nothing
    /\ queue' = <<>>
    /\ waiting' = <<>>
    /\ UNCHANGED <<store, at, unseen, value, handles>>

WorkerCancelled ==
    /\ worker = "idle"
    /\ Cancelled
    /\ WorkerEnds("stopped")

\* The channel is empty and every sender gone: spawn_tasks's and the loops'.
ChannelClosed ==
    /\ worker = "idle"
    /\ queue = <<>>
    /\ store # "building"
    /\ \A s \in Registrations : LoopEnded(s)
    /\ WorkerEnds("stopped")

PassPanics ==
    /\ Panics
    /\ worker = "running"
    /\ WorkerEnds("panicked")

----------------------------------------------------------------------------
(* trigger: send to the bounded channel, waiting for a slot if need be.     *)

\* Mutant of HasSlot: the channel is unbounded.
HasSlotAlways == waiting = <<>>

HasSlot == waiting = <<>> /\ Len(queue) < QueueCap

\* The task is sent at once, and the loop goes on to `next`.
Sends(s, next) ==
    /\ ~WorkerGone
    /\ HasSlot
    /\ queue' = Append(queue, s)
    /\ at' = [at EXCEPT ![s] = next]
    /\ UNCHANGED waiting

Waits(s) ==
    /\ ~WorkerGone
    /\ ~HasSlot
    /\ waiting' = Append(waiting, s)
    /\ at' = [at EXCEPT ![s] = "sending"]
    /\ UNCHANGED queue

\* A slot is free and it is this loop's turn.
SendsAtLast(s, next) ==
    /\ at[s] = "sending"
    /\ waiting # <<>> /\ Head(waiting) = s
    /\ Len(queue) < QueueCap
    /\ queue' = Append(queue, s)
    /\ waiting' = Tail(waiting)
    /\ at' = [at EXCEPT ![s] = next]

\* The channel is closed: trigger returns an error, and every loop ends on it.
SendFails(s) ==
    /\ at[s] \in {"due", "sending"}
    /\ WorkerGone
    /\ at' = [at EXCEPT ![s] = "done"]
    /\ UNCHANGED <<queue, waiting>>

Triggers(s, next) ==
    \/ at[s] = "due" /\ (Sends(s, next) \/ Waits(s))
    \/ SendsAtLast(s, next)
    \/ SendFails(s)

----------------------------------------------------------------------------
(* The strategies' loops                                                    *)

\* A loop that does not wait: it goes on to `next` if the queue is full.
Tries(s, next) ==
    /\ at[s] = "due"
    /\ \/ Sends(s, next)
       \/ /\ ~HasSlot \/ WorkerGone
          /\ at' = [at EXCEPT ![s] = next]
          /\ UNCHANGED <<queue, waiting>>

\* Mutants of OnStartSends, PeriodicSends and ManualSends: try_trigger in place
\* of trigger.
OnStartTries(s) ==
    /\ s \in OnStarts
    /\ ~Cancelled
    /\ Tries(s, "done")
    /\ UNCHANGED <<store, worker, pass, unseen, value, handles>>

PeriodicTries(s) ==
    /\ s \in Periodics
    /\ IF HasSlot THEN Tries(s, "sleeping") ELSE Tries(s, "done")
    /\ UNCHANGED <<store, worker, pass, unseen, value, handles>>

ManualTries(s) ==
    /\ s \in Manuals
    /\ Tries(s, "listening")
    /\ UNCHANGED <<store, worker, pass, unseen, value, handles>>

\* OnStart sends one task, unless the token is cancelled by then; its select
\* looks at the token first.
OnStartSends(s) ==
    /\ s \in OnStarts
    /\ ~Cancelled
    /\ Triggers(s, "done")
    /\ UNCHANGED <<store, worker, pass, unseen, value, handles>>

OnStartCancelled(s) ==
    /\ s \in OnStarts
    /\ Cancelled
    /\ at[s] \in {"due", "sending"}
    /\ at' = [at EXCEPT ![s] = "done"]
    /\ IF \E i \in DOMAIN waiting : waiting[i] = s
       THEN \E i \in DOMAIN waiting :
               /\ waiting[i] = s
               /\ waiting' = SubSeq(waiting, 1, i - 1) \o SubSeq(waiting, i + 1, Len(waiting))
       ELSE UNCHANGED waiting
    /\ UNCHANGED <<store, worker, pass, queue, unseen, value, handles>>

\* Periodic sends one task at once and one after each sleep.  It looks at the
\* token while it sleeps and when it wakes, not while it waits for a slot.
PeriodicSends(s) ==
    /\ s \in Periodics
    /\ Triggers(s, "sleeping")
    /\ UNCHANGED <<store, worker, pass, unseen, value, handles>>

PeriodicWakes(s) ==
    /\ s \in Periodics
    /\ at[s] = "sleeping"
    /\ at' = [at EXCEPT ![s] = IF Cancelled THEN "done" ELSE "due"]
    /\ UNCHANGED <<store, worker, pass, queue, waiting, unseen, value, handles>>

\* Mutant of ManualSees: the value is not marked as seen.
ManualSeesAgain(s) ==
    /\ s \in Manuals
    /\ at[s] = "listening"
    /\ s \in unseen
    /\ at' = [at EXCEPT ![s] = "due"]
    /\ UNCHANGED <<store, worker, pass, queue, waiting, unseen, value, handles>>

\* Manual sends one task when its watch has a value it has not seen.
ManualSees(s) ==
    /\ s \in Manuals
    /\ at[s] = "listening"
    /\ s \in unseen
    /\ unseen' = unseen \ {s}
    /\ at' = [at EXCEPT ![s] = "due"]
    /\ UNCHANGED <<store, worker, pass, queue, waiting, value, handles>>

ManualSends(s) ==
    /\ s \in Manuals
    /\ Triggers(s, "listening")
    /\ UNCHANGED <<store, worker, pass, unseen, value, handles>>

\* Mutants of ManualEnds: a value sent before the handle went is not looked at;
\* the loop does not listen to the token.
ManualEndsUnheard(s) ==
    /\ s \in Manuals
    /\ at[s] = "listening"
    /\ Cancelled \/ HandleOf[s] \notin handles
    /\ at' = [at EXCEPT ![s] = "done"]
    /\ UNCHANGED <<store, worker, pass, queue, waiting, unseen, value, handles>>

ManualEndsUncancelled(s) ==
    /\ s \in Manuals
    /\ at[s] = "listening"
    /\ HandleOf[s] \notin handles /\ s \notin unseen
    /\ at' = [at EXCEPT ![s] = "done"]
    /\ UNCHANGED <<store, worker, pass, queue, waiting, unseen, value, handles>>

\* The token is cancelled, or the handle is gone and nothing is unseen.
ManualEnds(s) ==
    /\ s \in Manuals
    /\ at[s] = "listening"
    /\ Cancelled \/ (HandleOf[s] \notin handles /\ s \notin unseen)
    /\ at' = [at EXCEPT ![s] = "done"]
    /\ UNCHANGED <<store, worker, pass, queue, waiting, unseen, value, handles>>

\* A custom strategy may send a task at any time with try_trigger, which does
\* not wait, and may end; it must end when the token is cancelled.
CustomTries(s) ==
    /\ s \in Customs
    /\ at[s] = "free"
    /\ Sends(s, "free")
    /\ UNCHANGED <<store, worker, pass, unseen, value, handles>>

CustomEnds(s) ==
    /\ s \in Customs
    /\ at[s] = "free"
    /\ at' = [at EXCEPT ![s] = "done"]
    /\ UNCHANGED <<store, worker, pass, queue, waiting, unseen, value, handles>>

----------------------------------------------------------------------------
(* Manual handles, used by the application                                  *)

Listeners(h) == {s \in Manuals : HandleOf[s] = h /\ ~LoopEnded(s)}

\* A value nobody listens to is not sent, and triggers nothing.
ManualTriggered(h) ==
    /\ h \in handles
    /\ Listeners(h) # {}
    /\ value[h] < MaxTriggers
    /\ value' = [value EXCEPT ![h] = @ + 1]
    /\ unseen' = unseen \cup Listeners(h)
    /\ UNCHANGED <<store, worker, pass, queue, waiting, at, handles>>

HandleDropped(h) ==
    /\ h \in handles
    /\ handles' = handles \ {h}
    /\ UNCHANGED <<store, worker, pass, queue, waiting, at, unseen, value>>

----------------------------------------------------------------------------
BuildNext ==
    \/ \E s \in Registrations : Schedules(s) \/ ScheduleFails(s)
    \/ BuildReturns

WorkerNext == WorkerTakes \/ PassEnds \/ WorkerCancelled \/ ChannelClosed

LoopNext(s) ==
    \/ OnStartSends(s) \/ OnStartCancelled(s)
    \/ PeriodicSends(s) \/ PeriodicWakes(s)
    \/ ManualSees(s) \/ ManualSends(s) \/ ManualEnds(s)
    \/ CustomEnds(s)

ApplicationNext ==
    \/ StoreDropped
    \/ \E h \in Handles : ManualTriggered(h) \/ HandleDropped(h)
    \/ \E s \in Customs : CustomTries(s)

MaintenanceStep ==
    \/ BuildNext \/ LayersDropped
    \/ WorkerNext \/ PassPanics
    \/ \E s \in Registrations : LoopNext(s)
    \/ ApplicationNext
===============================================================================
