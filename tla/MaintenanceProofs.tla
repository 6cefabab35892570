--------------------------- MODULE MaintenanceProofs ---------------------------
(***************************************************************************)
(* Safety of the background maintenance, for every set of registrations,   *)
(* every queue size and any number of triggers.                            *)
(***************************************************************************)
EXTENDS MaintenanceHistory, FiniteSetTheorems, TLAPS

\* While the store is held and no task panics, the worker ends only when no
\* loop is left that could send it a task.
WorkerServes ==
    worker = "stopped" /\ ~Cancelled => \A s \in Registrations : LoopEnded(s)

\* The worker does not end during build unless a panic takes it, and only
\* registered loops are owed a pass.
EndsInv ==
    /\ worker = "stopped" => store # "building"
    /\ \A s \in owed : at[s] # "unscheduled"

MInv ==
    /\ MaintenanceTypeOK
    /\ PassesTypeOK
    /\ EndsInv
    /\ WorkerServes
    /\ TriggersKept

LEMMA MHInit_MInv == MHInit => MInv
BY RegistrationsAssumption, HandlesAssumption, QueueAssumption, BoundAssumption
DEF MHInit, MaintenanceInit, MInv, MaintenanceTypeOK, PassesTypeOK, EndsInv, WorkerServes,
    TriggersKept, LoopSteps, AtNeed

----------------------------------------------------------------------------
\* Kinds of registrations do not overlap.
LEMMA Kinds ==
    /\ \A s \in OnStarts : s \notin Periodics /\ s \notin Manuals /\ s \notin Customs
    /\ \A s \in Periodics : s \notin Manuals /\ s \notin Customs
    /\ \A s \in Manuals : s \notin Customs
    /\ OnStarts \subseteq Registrations /\ Periodics \subseteq Registrations
    /\ Manuals \subseteq Registrations /\ Customs \subseteq Registrations
BY RegistrationsAssumption DEF Registrations

\* A loop that sends a task: it, the queue and the waiting loops keep their types.
LEMMA TriggersTypes ==
    ASSUME MaintenanceTypeOK, NEW s \in Registrations, s \notin Customs,
           NEW next \in LoopSteps, Triggers(s, next)
    PROVE  /\ queue' \in Seq(Registrations) /\ Len(queue') <= QueueCap
           /\ waiting' \in Seq(Registrations)
           /\ \/ at' = [at EXCEPT ![s] = next]
              \/ at' = [at EXCEPT ![s] = "sending"]
              \/ at' = [at EXCEPT ![s] = "done"]
<1>1. /\ queue \in Seq(Registrations) /\ Len(queue) \in Nat /\ Len(queue) <= QueueCap
      /\ waiting \in Seq(Registrations)
  BY DEF MaintenanceTypeOK
<1>2. CASE Sends(s, next)
  BY <1>1, <1>2, QueueAssumption DEF Sends, HasSlot
<1>3. CASE Waits(s)
  BY <1>1, <1>3 DEF Waits
<1>4. CASE SendsAtLast(s, next)
  BY <1>1, <1>4, QueueAssumption DEF SendsAtLast
<1>5. CASE SendFails(s)
  BY <1>1, <1>5 DEF SendFails
<1>6. QED
  BY <1>2, <1>3, <1>4, <1>5 DEF Triggers

\* What such a loop leaves alone keeps its type as well.
LEMMA SendsKeepTypes ==
    ASSUME MaintenanceTypeOK, NEW s \in Registrations, s \notin Customs,
           NEW next \in LoopSteps, Triggers(s, next),
           next = "sleeping" => s \in Periodics, next = "listening" => s \in Manuals,
           next \notin {"free", "due", "sending"},
           UNCHANGED <<store, worker, pass, unseen, value, handles>>
    PROVE  MaintenanceTypeOK'
<1>1. PICK step \in {next, "sending", "done"} : at' = [at EXCEPT ![s] = step]
  BY TriggersTypes
<1>2. at' \in [Registrations -> LoopSteps]
  BY <1>1 DEF MaintenanceTypeOK, LoopSteps
<1>3. \A t \in Registrations :
          /\ at'[t] = "sleeping" => t \in Periodics
          /\ at'[t] = "listening" => t \in Manuals
          /\ at'[t] = "free" => t \in Customs
          /\ at'[t] \in {"due", "sending"} => t \notin Customs
  BY <1>1 DEF MaintenanceTypeOK
<1>4. QED
  BY <1>2, <1>3, TriggersTypes DEF MaintenanceTypeOK

LEMMA LoopKeepsTypes ==
    ASSUME MaintenanceTypeOK, NEW s \in Registrations, LoopNext(s)
    PROVE  MaintenanceTypeOK'
<1> USE Kinds
<1>1. CASE OnStartSends(s)
  BY <1>1, SendsKeepTypes DEF OnStartSends, LoopSteps
<1>2. CASE OnStartCancelled(s)
  <2>1. waiting' \in Seq(Registrations)
    <3>1. CASE UNCHANGED waiting
      BY <3>1 DEF MaintenanceTypeOK
    <3>2. ASSUME NEW i \in DOMAIN waiting,
                 waiting' = SubSeq(waiting, 1, i - 1) \o SubSeq(waiting, i + 1, Len(waiting))
          PROVE  waiting' \in Seq(Registrations)
      <4>1. waiting \in Seq(Registrations) /\ i \in 1 .. Len(waiting) /\ Len(waiting) \in Nat
        BY DEF MaintenanceTypeOK
      <4>2. SubSeq(waiting, 1, i - 1) \in Seq(Registrations)
        BY <4>1
      <4>3. SubSeq(waiting, i + 1, Len(waiting)) \in Seq(Registrations)
        BY <4>1
      <4>4. QED
        BY <3>2, <4>2, <4>3
    <3>3. QED
      BY <1>2, <3>1, <3>2 DEF OnStartCancelled
  <2>2. QED
    BY <1>2, <2>1 DEF OnStartCancelled, MaintenanceTypeOK, LoopSteps
<1>3. CASE PeriodicSends(s)
  BY <1>3, SendsKeepTypes DEF PeriodicSends, LoopSteps
<1>4. CASE ManualSends(s)
  BY <1>4, SendsKeepTypes DEF ManualSends, LoopSteps
<1>5. CASE PeriodicWakes(s) \/ ManualSees(s) \/ ManualEnds(s) \/ CustomEnds(s)
  BY <1>5 DEF PeriodicWakes, ManualSees, ManualEnds, CustomEnds, MaintenanceTypeOK, LoopSteps
<1>6. QED
  BY <1>1, <1>2, <1>3, <1>4, <1>5 DEF LoopNext

LEMMA MaintenanceTypes == MaintenanceTypeOK /\ MaintenanceStep => MaintenanceTypeOK'
<1> SUFFICES ASSUME MaintenanceTypeOK, MaintenanceStep PROVE MaintenanceTypeOK'
  OBVIOUS
<1> USE Kinds
<1>1. ASSUME NEW s \in Registrations, Schedules(s) PROVE MaintenanceTypeOK'
  <2>1. CASE s \in OnStarts \cup Periodics
    <3>1. at' = [at EXCEPT ![s] = "due"]
      BY <1>1, <2>1 DEF Schedules
    <3>2. QED
      BY <1>1, <2>1, <3>1 DEF Schedules, MaintenanceTypeOK, LoopSteps
  <2>2. CASE s \in Manuals
    <3>1. at' = [at EXCEPT ![s] = "listening"]
      BY <1>1, <2>2 DEF Schedules
    <3>2. QED
      BY <1>1, <2>2, <3>1 DEF Schedules, MaintenanceTypeOK, LoopSteps
  <2>3. CASE s \in Customs
    <3>1. at' = [at EXCEPT ![s] = "free"]
      BY <1>1, <2>3 DEF Schedules
    <3>2. QED
      BY <1>1, <2>3, <3>1 DEF Schedules, MaintenanceTypeOK, LoopSteps
  <2>4. QED
    BY <2>1, <2>2, <2>3 DEF Registrations
<1>2. ASSUME NEW s \in Registrations, ScheduleFails(s) PROVE MaintenanceTypeOK'
  BY <1>2 DEF ScheduleFails, MaintenanceTypeOK
<1>3. CASE BuildReturns \/ LayersDropped \/ StoreDropped
  BY <1>3 DEF BuildReturns, LayersDropped, StoreDropped, MaintenanceTypeOK
<1>4. CASE WorkerTakes
  <2>1. /\ Head(queue) \in Registrations /\ Tail(queue) \in Seq(Registrations)
        /\ Len(Tail(queue)) <= QueueCap
    BY <1>4, QueueAssumption DEF WorkerTakes, MaintenanceTypeOK
  <2>2. CASE store = "dropped"
    BY <1>4, <2>1, <2>2 DEF WorkerTakes, MaintenanceTypeOK
  <2>3. CASE store # "dropped"
    <3>1. worker' = "running" /\ pass' \in Registrations /\ pass' # Nothing
      BY <1>4, <2>1, <2>3, RegistrationsAssumption DEF WorkerTakes
    <3>2. QED
      BY <1>4, <2>1, <3>1 DEF WorkerTakes, MaintenanceTypeOK
  <2>4. QED
    BY <2>2, <2>3
<1>5. CASE PassEnds \/ WorkerCancelled \/ ChannelClosed \/ PassPanics
  <2>1. CASE PassEnds
    BY <2>1 DEF PassEnds, MaintenanceTypeOK
  <2>2. ASSUME NEW how \in {"stopped", "panicked"}, WorkerEnds(how) PROVE MaintenanceTypeOK'
    <3>1. /\ worker' = how /\ pass' = Nothing /\ queue' = <<>> /\ waiting' = <<>>
          /\ UNCHANGED <<store, at, unseen, value, handles>>
      BY <2>2 DEF WorkerEnds
    <3>2. queue' \in Seq(Registrations) /\ waiting' \in Seq(Registrations) /\ Len(queue') = 0
      BY <3>1
    <3>3. QED
      BY <2>2, <3>1, <3>2, QueueAssumption DEF MaintenanceTypeOK
  <2>3. QED
    BY <1>5, <2>1, <2>2 DEF WorkerCancelled, ChannelClosed, PassPanics
<1>6. ASSUME NEW s \in Registrations, LoopNext(s) PROVE MaintenanceTypeOK'
  BY <1>6, LoopKeepsTypes
<1>7. ASSUME NEW h \in Handles, ManualTriggered(h) PROVE MaintenanceTypeOK'
  BY <1>7, BoundAssumption DEF ManualTriggered, Listeners, MaintenanceTypeOK
<1>8. ASSUME NEW h \in Handles, HandleDropped(h) PROVE MaintenanceTypeOK'
  BY <1>8 DEF HandleDropped, MaintenanceTypeOK
<1>9. ASSUME NEW s \in Customs, CustomTries(s) PROVE MaintenanceTypeOK'
  BY <1>9, QueueAssumption DEF CustomTries, Sends, HasSlot, MaintenanceTypeOK, LoopSteps
<1>10. QED
  BY <1>1, <1>2, <1>3, <1>4, <1>5, <1>6, <1>7, <1>8, <1>9
  DEF MaintenanceStep, BuildNext, WorkerNext, ApplicationNext

----------------------------------------------------------------------------
(* What one step does to the things the promises speak of.                  *)

\* A loop leaves the queue alone or puts its own task at the end.
LEMMA TriggersQueue ==
    ASSUME NEW s, NEW next, Triggers(s, next)
    PROVE  queue' = queue \/ queue' = Append(queue, s)
BY DEF Triggers, Sends, Waits, SendsAtLast, SendFails

LEMMA LoopQueue ==
    ASSUME NEW s \in Registrations, LoopNext(s)
    PROVE  queue' = queue \/ queue' = Append(queue, s)
BY TriggersQueue
DEF LoopNext, OnStartSends, OnStartCancelled, PeriodicSends, PeriodicWakes, ManualSees,
    ManualSends, ManualEnds, CustomEnds

LEMMA AppendSends ==
    ASSUME queue \in Seq(Registrations), NEW s \in Registrations, queue' = Append(queue, s)
    PROVE  Sent(s)' /\ \A r \in Registrations : Sent(r) => Sent(r)'
<1>1. /\ Len(queue) \in Nat /\ DOMAIN queue = 1 .. Len(queue)
      /\ DOMAIN queue' = 1 .. Len(queue) + 1 /\ queue'[Len(queue) + 1] = s
      /\ \A i \in 1 .. Len(queue) : queue'[i] = queue[i]
  OBVIOUS
<1>2. QED
  BY <1>1 DEF Sent

\* A step of a loop: only its own place changes, and only on its own grounds.
LEMMA LoopEffects ==
    ASSUME MaintenanceTypeOK, NEW s \in Registrations, LoopNext(s)
    PROVE  /\ UNCHANGED <<store, worker, value>>
           /\ \A r \in Registrations \ {s} : at'[r] = at[r]
           /\ ~LoopEnded(s) /\ at'[s] # "unscheduled"
           /\ \A r \in Registrations : r # s /\ r \in unseen => r \in unseen'
<1>1. CASE OnStartSends(s) \/ PeriodicSends(s) \/ ManualSends(s)
  BY <1>1
  DEF MaintenanceTypeOK, LoopEnded, OnStartSends, PeriodicSends, ManualSends, Triggers,
      Sends, Waits, SendsAtLast, SendFails
<1>2. CASE \/ OnStartCancelled(s) \/ PeriodicWakes(s) \/ ManualSees(s) \/ ManualEnds(s)
           \/ CustomEnds(s)
  BY <1>2
  DEF MaintenanceTypeOK, LoopEnded, OnStartCancelled, PeriodicWakes, ManualSees, ManualEnds,
      CustomEnds
<1>3. QED
  BY <1>1, <1>2 DEF LoopNext

\* A Manual loop that has a request keeps it, unless the channel is closed.
LEMMA ManualKeeps ==
    ASSUME MaintenanceTypeOK, NEW s \in Manuals, LoopNext(s), Requested(s), ~Cancelled
    PROVE  Requested(s)' \/ WorkerGone
<1>1. s \in Registrations /\ s \notin OnStarts /\ s \notin Periodics /\ s \notin Customs
  BY Kinds
<1>2. CASE ManualSees(s)
  BY <1>1, <1>2 DEF ManualSees, MaintenanceTypeOK, Requested
<1>3. CASE ManualSends(s)
  <2>1. CASE queue' = Append(queue, s)
    BY <1>1, <2>1, AppendSends DEF MaintenanceTypeOK, Requested
  <2>2. CASE Waits(s)
    BY <1>1, <2>2 DEF Waits, MaintenanceTypeOK, Requested
  <2>3. QED
    BY <1>3, <2>1, <2>2 DEF ManualSends, Triggers, Sends, SendsAtLast, SendFails
<1>4. CASE ManualEnds(s)
  <2>1. s \in unseen \/ Sent(s)
    BY <1>4 DEF ManualEnds, Requested
  <2>2. UNCHANGED <<unseen, queue>>
    BY <1>4 DEF ManualEnds
  <2>3. QED
    BY <2>1, <2>2 DEF Requested, Sent
<1>5. QED
  BY <1>1, <1>2, <1>3, <1>4
  DEF LoopNext, OnStartSends, OnStartCancelled, PeriodicSends, PeriodicWakes, CustomEnds

\* A step that is not a loop's: what it leaves alone.
LEMMA OtherEffects ==
    ASSUME MaintenanceTypeOK, MaintenanceStep,
           ~ \E s \in Registrations : LoopNext(s)
    PROVE  /\ unseen \subseteq unseen' \/ store = "building"
           /\ \A s \in Registrations :
                 \/ at'[s] = at[s]
                 \/ at[s] = "unscheduled" /\ store = "building" /\ at'[s] # "unscheduled"
           /\ \A s \in Registrations : s \in unseen => s \in unseen' \/ at[s] = "unscheduled"
<1>1. ASSUME NEW s \in Registrations, Schedules(s)
      PROVE  /\ at[s] = "unscheduled" /\ store = "building" /\ unseen' = unseen \ {s}
             /\ at'[s] # "unscheduled" /\ \A r \in Registrations \ {s} : at'[r] = at[r]
  <2>1. CASE s \in OnStarts \cup Periodics
    <3>1. at' = [at EXCEPT ![s] = "due"]
      BY <1>1, <2>1, Kinds DEF Schedules
    <3>2. QED
      BY <1>1, <3>1 DEF Schedules, MaintenanceTypeOK
  <2>2. CASE s \in Manuals
    <3>1. at' = [at EXCEPT ![s] = "listening"]
      BY <1>1, <2>2, Kinds DEF Schedules
    <3>2. QED
      BY <1>1, <3>1 DEF Schedules, MaintenanceTypeOK
  <2>3. CASE s \in Customs
    <3>1. at' = [at EXCEPT ![s] = "free"]
      BY <1>1, <2>3, Kinds DEF Schedules
    <3>2. QED
      BY <1>1, <3>1 DEF Schedules, MaintenanceTypeOK
  <2>4. QED
    BY <2>1, <2>2, <2>3 DEF Registrations
<1>2. ASSUME NEW s \in Customs, CustomTries(s) PROVE UNCHANGED <<at, unseen>>
  BY <1>2, Kinds DEF CustomTries, Sends, MaintenanceTypeOK
<1>3. CASE \E s \in Registrations : Schedules(s)
  BY <1>1, <1>3
<1>4. CASE ~ \E s \in Registrations : Schedules(s)
  BY <1>2, <1>4
  DEF MaintenanceStep, BuildNext, WorkerNext, ApplicationNext, ScheduleFails, BuildReturns,
      LayersDropped, StoreDropped, WorkerTakes, PassEnds, WorkerEnds, WorkerCancelled,
      ChannelClosed, PassPanics, ManualTriggered, HandleDropped
<1>5. QED
  BY <1>3, <1>4

\* The store goes one way, and so does the worker once it ended.
LEMMA OneWay ==
    ASSUME MaintenanceTypeOK, MaintenanceStep
    PROVE  /\ store' = "building" => store = "building"
           /\ Cancelled => Cancelled'
           /\ worker = "panicked" => worker' = "panicked"
           /\ worker = "stopped" => worker' = "stopped"
           /\ worker' = "stopped" /\ worker # "stopped" =>
                 /\ UNCHANGED <<store, at, unseen>>
                 /\ \/ Cancelled
                    \/ /\ \A s \in Registrations : LoopEnded(s)
                       /\ store # "building" /\ queue = <<>>
<1>1. CASE \E s \in Registrations : LoopNext(s)
  BY <1>1, LoopEffects DEF Cancelled
<1>2. CASE \E s \in Customs : CustomTries(s)
  BY <1>2 DEF CustomTries, Cancelled
<1>3. CASE BuildNext \/ LayersDropped \/ StoreDropped
  BY <1>3 DEF BuildNext, Schedules, ScheduleFails, BuildReturns, LayersDropped, StoreDropped,
              Cancelled
<1>4. CASE WorkerNext \/ PassPanics
  BY <1>4 DEF WorkerNext, WorkerTakes, PassEnds, WorkerEnds, WorkerCancelled, ChannelClosed,
              PassPanics, Cancelled
<1>5. CASE \E h \in Handles : ManualTriggered(h) \/ HandleDropped(h)
  BY <1>5 DEF ManualTriggered, HandleDropped, Cancelled
<1>6. QED
  BY <1>1, <1>2, <1>3, <1>4, <1>5 DEF MaintenanceStep, ApplicationNext

\* Who is owed a pass: who was and got none, and who is triggered now.
LEMMA OwedNow ==
    ASSUME MaintenanceTypeOK, MHNext, NEW s \in owed'
    PROVE  \/ s \in owed /\ ~PassBegins(s)
           \/ s \in unseen' /\ s \in Manuals /\ ~LoopEnded(s) /\ UNCHANGED at
<1>1. CASE s \in owed /\ ~PassBegins(s)
  BY <1>1
<1>2. ASSUME NEW h \in Handles, value'[h] # value[h], s \in Listeners(h)
      PROVE  s \in unseen' /\ s \in Manuals /\ ~LoopEnded(s) /\ UNCHANGED at
  <2>1. MaintenanceStep
    BY DEF MHNext
  <2>2. ~UNCHANGED value
    BY <1>2
  <2>3. \A r \in Registrations : ~LoopNext(r)
    BY <2>2, LoopEffects
  <2>4. PICK g \in Handles : ManualTriggered(g)
    BY <2>1, <2>2, <2>3
    DEF MaintenanceStep, BuildNext, WorkerNext, ApplicationNext, Schedules, ScheduleFails,
        BuildReturns, LayersDropped, StoreDropped, WorkerTakes, PassEnds, WorkerEnds,
        WorkerCancelled, ChannelClosed, PassPanics, HandleDropped, CustomTries
  <2>5. g = h
    BY <1>2, <2>4 DEF ManualTriggered, MaintenanceTypeOK
  <2>6. QED
    BY <1>2, <2>4, <2>5 DEF ManualTriggered, Listeners
<1>3. QED
  BY <1>1, <1>2 DEF MHNext, WatchPasses

\* What a step that is not a loop's does to a task in the queue.
LEMMA OtherQueue ==
    ASSUME MaintenanceTypeOK, MaintenanceStep, ~Cancelled, worker' # "panicked",
           ~ \E r \in Registrations : LoopNext(r),
           NEW s \in Registrations, Sent(s), ~PassBegins(s)
    PROVE  Sent(s)'
<1>1. CASE WorkerTakes
  <2>1. Head(queue) # s
    BY <1>1 DEF WorkerTakes, PassBegins, Cancelled
  <2>2. queue \in Seq(Registrations) /\ queue # <<>> /\ queue' = Tail(queue)
    BY <1>1 DEF WorkerTakes, MaintenanceTypeOK
  <2>3. PICK i \in DOMAIN queue : queue[i] = s
    BY DEF Sent
  <2>4. i \in 2 .. Len(queue) /\ Len(queue) \in Nat
    BY <2>1, <2>2, <2>3
  <2>5. i - 1 \in DOMAIN queue' /\ queue'[i - 1] = s
    BY <2>2, <2>3, <2>4
  <2>6. QED
    BY <2>5 DEF Sent
<1>2. CASE WorkerCancelled \/ ChannelClosed \/ PassPanics
  BY <1>2 DEF WorkerCancelled, ChannelClosed, PassPanics, WorkerEnds, Sent
<1>3. ASSUME NEW r \in Customs, CustomTries(r) PROVE Sent(s)'
  BY <1>3, Kinds, AppendSends DEF CustomTries, Sends, MaintenanceTypeOK
<1>4. CASE UNCHANGED queue
  BY <1>4 DEF Sent
<1>5. QED
  BY <1>1, <1>2, <1>3, <1>4
  DEF MaintenanceStep, BuildNext, WorkerNext, ApplicationNext, Schedules, ScheduleFails,
      BuildReturns, LayersDropped, StoreDropped, PassEnds, ManualTriggered, HandleDropped

\* A request that is owed a pass is kept by every step.
LEMMA RequestKept ==
    ASSUME MaintenanceTypeOK, PassesTypeOK, EndsInv, WorkerServes, MaintenanceStep,
           NEW s \in owed, Requested(s), ~PassBegins(s), ~Cancelled, worker' # "panicked"
    PROVE  Requested(s)'
<1>1. s \in Manuals /\ s \in Registrations /\ at[s] # "unscheduled"
  BY Kinds DEF PassesTypeOK, EndsInv
<1>2. ASSUME NEW r \in Registrations, LoopNext(r) PROVE Requested(s)'
  <2>1. worker # "stopped" /\ worker # "panicked"
    BY <1>2, LoopEffects DEF WorkerServes
  <2>2. CASE r = s
    BY <1>1, <1>2, <2>1, <2>2, ManualKeeps DEF WorkerGone
  <2>3. CASE r # s
    <3>1. at'[s] = at[s] /\ (s \in unseen => s \in unseen')
      BY <1>1, <1>2, <2>3, LoopEffects
    <3>2. Sent(s) => Sent(s)'
      <4>1. queue \in Seq(Registrations)
        BY DEF MaintenanceTypeOK
      <4>2. CASE UNCHANGED queue
        BY <4>2 DEF Sent
      <4>3. CASE queue' = Append(queue, r)
        BY <1>1, <4>1, <4>3, AppendSends
      <4>4. QED
        BY <1>2, <4>2, <4>3, LoopQueue
    <3>3. QED
      BY <3>1, <3>2 DEF Requested
  <2>4. QED
    BY <2>2, <2>3
<1>3. CASE ~ \E r \in Registrations : LoopNext(r)
  <2>1. at'[s] = at[s] /\ (s \in unseen => s \in unseen')
    BY <1>1, <1>3, OtherEffects
  <2>2. Sent(s) => Sent(s)'
    BY <1>1, <1>3, OtherQueue
  <2>3. QED
    BY <2>1, <2>2 DEF Requested
<1>4. QED
  BY <1>2, <1>3

----------------------------------------------------------------------------
\* The invariant: a step at a time.
LEMMA ServesKept ==
    ASSUME MaintenanceTypeOK, EndsInv, WorkerServes, MaintenanceStep
    PROVE  WorkerServes'
<1> SUFFICES ASSUME worker' = "stopped", ~Cancelled', NEW s \in Registrations
             PROVE  LoopEnded(s)'
  BY DEF WorkerServes
<1>1. ~Cancelled
  BY OneWay
<1>2. CASE worker = "stopped"
  <2>1. \A r \in Registrations : LoopEnded(r)
    BY <1>1, <1>2 DEF WorkerServes
  <2>2. ~ \E r \in Registrations : LoopNext(r)
    BY <2>1, LoopEffects
  <2>3. at'[s] = at[s]
    BY <1>2, <2>2, OtherEffects DEF EndsInv
  <2>4. QED
    BY <2>1, <2>3 DEF LoopEnded
<1>3. CASE worker # "stopped"
  BY <1>1, <1>3, OneWay DEF LoopEnded
<1>4. QED
  BY <1>2, <1>3

LEMMA EndsKept ==
    ASSUME MaintenanceTypeOK, PassesTypeOK, EndsInv, MHNext
    PROVE  EndsInv'
<1>1. MaintenanceStep
  BY DEF MHNext
<1>2. worker' = "stopped" => store' # "building"
  BY <1>1, OneWay DEF EndsInv, Cancelled
<1>3. ASSUME NEW s \in owed' PROVE at'[s] # "unscheduled"
  <2>1. CASE s \in owed
    <3>1. s \in Registrations /\ at[s] # "unscheduled"
      BY <2>1, Kinds DEF EndsInv, PassesTypeOK
    <3>2. QED
      BY <1>1, <3>1, LoopEffects, OtherEffects
  <2>2. CASE ~LoopEnded(s) /\ UNCHANGED at
    BY <2>2 DEF LoopEnded
  <2>3. QED
    BY <2>1, <2>2, OwedNow
<1>4. QED
  BY <1>2, <1>3 DEF EndsInv

LEMMA PassesTypes ==
    ASSUME PassesTypeOK, MHNext
    PROVE  PassesTypeOK'
BY DEF MHNext, WatchPasses, PassesTypeOK, Listeners

LEMMA MInvStep == MInv /\ [MHNext]_mhvars => MInv'
<1>1. ASSUME MInv, MHNext PROVE MInv'
  <2>1. /\ MaintenanceTypeOK /\ PassesTypeOK /\ EndsInv /\ WorkerServes /\ TriggersKept
        /\ MaintenanceStep
    BY <1>1 DEF MInv, MHNext
  <2>2. MaintenanceTypeOK' /\ PassesTypeOK'
    BY <1>1, <2>1, MaintenanceTypes, PassesTypes
  <2>3. EndsInv' /\ WorkerServes'
    BY <1>1, <2>1, EndsKept, ServesKept
  <2>4. TriggersKept'
    <3> SUFFICES ASSUME NEW s \in owed', ~Cancelled', worker' # "panicked"
                 PROVE  Requested(s)'
      BY DEF TriggersKept
    <3>1. ~Cancelled /\ worker # "panicked"
      BY <2>1, OneWay
    <3>2. CASE s \in owed /\ ~PassBegins(s)
      <4>1. Requested(s)
        BY <2>1, <3>1, <3>2 DEF TriggersKept
      <4>2. QED
        BY <2>1, <3>1, <3>2, <4>1, RequestKept
    <3>3. CASE s \in unseen'
      BY <3>3 DEF Requested
    <3>4. QED
      BY <1>1, <2>1, <3>2, <3>3, OwedNow
  <2>5. QED
    BY <2>2, <2>3, <2>4 DEF MInv
<1>2. ASSUME MInv, UNCHANGED mhvars PROVE MInv'
  BY <1>2
  DEF mhvars, mvars, passHistory, MInv, MaintenanceTypeOK, PassesTypeOK, EndsInv,
      WorkerServes, TriggersKept, Cancelled, LoopEnded, Requested, Sent
<1>3. QED
  BY <1>1, <1>2

LEMMA MInvariant == MHSafe => []MInv
BY MHInit_MInv, MInvStep, PTL DEF MHSafe

----------------------------------------------------------------------------
\* The queue never holds more tasks than its capacity, and every loop is where
\* its strategy can be (maintenance.rs, strategies.rs).
THEOREM MaintenanceTypeCorrect == MHSafe => []MaintenanceTypeOK
<1>1. MInv => MaintenanceTypeOK
  BY DEF MInv
<1>2. QED
  BY <1>1, MInvariant, PTL

\* A trigger of a registered Manual (Manual::trigger) stays in the watch, in
\* the loop or in the queue until a pass begins.
THEOREM RequestsKept == MHSafe => []TriggersKept
<1>1. MInv => TriggersKept
  BY DEF MInv
<1>2. QED
  BY <1>1, MInvariant, PTL

----------------------------------------------------------------------------
\* How many tasks of a registration are in the queue.
Places(q, s) == {i \in 1 .. Len(q) : q[i] = s}
Tasks(q, s)  == Cardinality(Places(q, s))

LEMMA TasksNumber ==
    ASSUME NEW q \in Seq(Registrations), NEW s
    PROVE  IsFiniteSet(Places(q, s)) /\ Tasks(q, s) \in Nat
<1>1. Places(q, s) \subseteq 1 .. Len(q) /\ IsFiniteSet(1 .. Len(q))
  BY FS_Interval DEF Places
<1>2. QED
  BY <1>1, FS_Subset, FS_CardinalityType DEF Tasks

LEMMA NoTasks == ASSUME NEW s PROVE Tasks(<<>>, s) = 0
<1>1. Places(<<>>, s) = {}
  BY DEF Places
<1>2. QED
  BY <1>1, FS_EmptySet DEF Tasks

LEMMA TasksAppend ==
    ASSUME NEW q \in Seq(Registrations), NEW r \in Registrations, NEW s
    PROVE  Tasks(Append(q, r), s) = Tasks(q, s) + (IF r = s THEN 1 ELSE 0)
<1> DEFINE n == Len(q)  p == Append(q, r)
<1>1. n \in Nat /\ Len(p) = n + 1 /\ p[n + 1] = r /\ \A i \in 1 .. n : p[i] = q[i]
  OBVIOUS
<1>2. \A i : i \in 1 .. n + 1 <=> i \in 1 .. n \/ i = n + 1
  BY <1>1
<1>3. n + 1 \notin 1 .. n
  BY <1>1
<1> HIDE DEF n, p
<1>4. CASE r = s
  <2>1. Places(p, s) = Places(q, s) \cup {n + 1}
    BY <1>1, <1>2, <1>4 DEF Places, n
  <2>2. n + 1 \notin Places(q, s)
    BY <1>3 DEF Places, n
  <2>3. QED
    BY <1>4, <2>1, <2>2, TasksNumber, FS_AddElement DEF Tasks, p
<1>5. CASE r # s
  <2>1. Places(p, s) = Places(q, s)
    BY <1>1, <1>2, <1>5 DEF Places, n
  <2>2. QED
    BY <1>5, <2>1, TasksNumber DEF Tasks, p
<1>6. QED
  BY <1>4, <1>5

LEMMA TasksTail ==
    ASSUME NEW q \in Seq(Registrations), q # <<>>, NEW s
    PROVE  Tasks(q, s) = Tasks(Tail(q), s) + (IF Head(q) = s THEN 1 ELSE 0)
<1> DEFINE n == Len(q)  p == Tail(q)
           rest == {i \in 2 .. n : q[i] = s}
<1>1. /\ n \in Nat /\ n > 0 /\ p \in Seq(Registrations) /\ Len(p) = n - 1
      /\ Head(q) = q[1] /\ \A i \in 1 .. n - 1 : p[i] = q[i + 1]
  OBVIOUS
<1>2. \A i : i \in 1 .. n <=> i \in 2 .. n \/ i = 1
  BY <1>1
<1>3. ExistsBijection(Places(p, s), rest)
  <2> DEFINE f == [i \in Places(p, s) |-> i + 1]
  <2>1. \A i \in Places(p, s) : i \in Int /\ f[i] = i + 1 /\ f[i] \in rest
    BY <1>1 DEF Places
  <2>2. \A i, j \in Places(p, s) : f[i] = f[j] => i = j
    BY <2>1
  <2>3. ASSUME NEW j \in rest PROVE \E i \in Places(p, s) : f[i] = j
    <3>1. j - 1 \in Places(p, s) /\ (j - 1) + 1 = j
      BY <1>1 DEF Places
    <3>2. QED
      BY <2>1, <3>1
  <2>4. f \in Injection(Places(p, s), rest)
    BY <2>1, <2>2 DEF Injection, IsInjective
  <2>5. f \in Surjection(Places(p, s), rest)
    BY <2>1, <2>3 DEF Surjection
  <2>6. QED
    BY <2>4, <2>5 DEF ExistsBijection, Bijection
<1>4. IsFiniteSet(rest) /\ Cardinality(rest) = Tasks(p, s) /\ Tasks(p, s) \in Nat
  <2>1. IsFiniteSet(Places(p, s)) /\ Tasks(p, s) \in Nat
    BY <1>1, TasksNumber
  <2> HIDE DEF rest, p
  <2>2. QED
    BY <1>3, <2>1, FS_Bijection DEF Tasks
<1>5. CASE Head(q) = s
  <2>1. Places(q, s) = rest \cup {1} /\ 1 \notin rest
    BY <1>1, <1>2, <1>5 DEF Places
  <2>2. QED
    BY <1>4, <1>5, <2>1, FS_AddElement DEF Tasks
<1>6. CASE Head(q) # s
  <2>1. Places(q, s) = rest
    BY <1>1, <1>2, <1>6 DEF Places
  <2>2. QED
    BY <1>4, <1>6, <2>1 DEF Tasks
<1>7. QED
  BY <1>5, <1>6

----------------------------------------------------------------------------
One(b) == IF b THEN 1 ELSE 0

\* The passes a registration had, the tasks it has in the queue, the one its
\* loop is about to send and the value it has not seen yet: as many as there
\* were values, or one for OnStart.
Coming(s) ==
    One(at[s] \in {"due", "sending"} \/ (s \in OnStarts /\ at[s] = "unscheduled"))
    + One(s \in unseen)

Earned(s) == IF s \in OnStarts THEN 1 ELSE value[HandleOf[s]]

EarnedInv == \A s \in AtNeed : begun[s] + Tasks(queue, s) + Coming(s) <= Earned(s)

LEMMA EarnedInit == MHInit => EarnedInv
<1> SUFFICES ASSUME MHInit, NEW s \in AtNeed
             PROVE  begun[s] + Tasks(queue, s) + Coming(s) <= Earned(s)
  BY DEF EarnedInv
<1>1. s \in Registrations /\ (s \notin OnStarts => s \in Manuals)
  BY Kinds DEF AtNeed
<1>2. at[s] = "unscheduled" /\ unseen = {} /\ begun[s] = 0 /\ Tasks(queue, s) = 0
  BY <1>1, NoTasks DEF MHInit, MaintenanceInit
<1>3. s \in Manuals => value[HandleOf[s]] = 0
  BY HandlesAssumption DEF MHInit, MaintenanceInit
<1>4. QED
  BY <1>1, <1>2, <1>3 DEF Coming, Earned, One

\* A loop that is at work has asked for a pass, and does so once: the request
\* moves from the watch to the loop and on to the queue.
LEMMA LoopAsks ==
    ASSUME MaintenanceTypeOK, NEW r \in Registrations, LoopNext(r), NEW s \in AtNeed
    PROVE  Tasks(queue, s)' + Coming(s)' <= Tasks(queue, s) + Coming(s)
<1>1. /\ queue \in Seq(Registrations) /\ Tasks(queue, s) \in Nat
      /\ at \in [Registrations -> LoopSteps] /\ s \in Registrations
  BY TasksNumber, Kinds DEF MaintenanceTypeOK, AtNeed
<1>2. Coming(s) \in Nat /\ Coming(s)' \in Nat
  BY DEF Coming, One
<1>3. ASSUME NEW next \in {"done", "sleeping", "listening"}, Triggers(r, next),
             UNCHANGED unseen
      PROVE  Tasks(queue, s)' + Coming(s)' <= Tasks(queue, s) + Coming(s)
  <2>1. CASE queue' = Append(queue, r) /\ at' = [at EXCEPT ![r] = next]
             /\ at[r] \in {"due", "sending"}
    <3>1. Tasks(queue, s)' = Tasks(queue, s) + (IF r = s THEN 1 ELSE 0)
      BY <1>1, <2>1, TasksAppend
    <3>2. r = s => Coming(s)' + 1 = Coming(s)
      BY <1>1, <1>3, <2>1 DEF Coming, One
    <3>3. r # s => Coming(s)' = Coming(s)
      BY <1>1, <1>3, <2>1 DEF Coming, One
    <3>4. QED
      BY <1>1, <1>2, <3>1, <3>2, <3>3
  <2>2. CASE queue' = queue /\ at[r] \in {"due", "sending"}
             /\ (at' = [at EXCEPT ![r] = "sending"] \/ at' = [at EXCEPT ![r] = "done"])
    <3>1. Coming(s)' <= Coming(s)
      BY <1>1, <1>3, <2>2 DEF Coming, One
    <3>2. QED
      BY <1>1, <1>2, <2>2, <3>1
  <2>3. QED
    BY <1>3, <2>1, <2>2 DEF Triggers, Sends, Waits, SendsAtLast, SendFails
<1>4. CASE OnStartSends(r) \/ PeriodicSends(r) \/ ManualSends(r)
  BY <1>3, <1>4 DEF OnStartSends, PeriodicSends, ManualSends
<1>5. CASE OnStartCancelled(r) \/ ManualEnds(r) \/ CustomEnds(r)
  <2>1. queue' = queue /\ unseen' = unseen /\ at' = [at EXCEPT ![r] = "done"]
    BY <1>5 DEF OnStartCancelled, ManualEnds, CustomEnds
  <2>2. Coming(s)' <= Coming(s)
    BY <1>1, <2>1 DEF Coming, One
  <2>3. QED
    BY <1>1, <1>2, <2>1, <2>2
<1>6. CASE PeriodicWakes(r)
  <2>1. r # s /\ queue' = queue /\ unseen' = unseen /\ at'[s] = at[s]
    BY <1>1, <1>6, Kinds DEF PeriodicWakes, AtNeed
  <2>2. QED
    BY <1>1, <1>2, <2>1 DEF Coming
<1>7. CASE ManualSees(r)
  <2>1. /\ queue' = queue /\ unseen' = unseen \ {r} /\ at' = [at EXCEPT ![r] = "due"]
        /\ r \in unseen /\ at[r] = "listening"
    BY <1>7 DEF ManualSees
  <2>2. Coming(s)' <= Coming(s)
    BY <1>1, <2>1 DEF Coming, One
  <2>3. QED
    BY <1>1, <1>2, <2>1, <2>2
<1>8. QED
  BY <1>4, <1>5, <1>6, <1>7 DEF LoopNext

\* Every other step leaves the requests as they are, or takes one from the
\* queue for a pass, or drops some.
LEMMA OthersAsk ==
    ASSUME MaintenanceTypeOK, MaintenanceStep, NEW s \in AtNeed,
           ~ \E r \in Registrations : LoopNext(r),
           ~ \E h \in Handles : ManualTriggered(h)
    PROVE  Tasks(queue, s)' + Coming(s)' + One(PassBegins(s)) <= Tasks(queue, s) + Coming(s)
<1>1. /\ queue \in Seq(Registrations) /\ Tasks(queue, s) \in Nat
      /\ at \in [Registrations -> LoopSteps] /\ s \in Registrations
      /\ s \notin Customs /\ s \notin Periodics
  BY TasksNumber, Kinds DEF MaintenanceTypeOK, AtNeed
<1>2. Coming(s) \in Nat /\ Coming(s)' \in Nat
  BY DEF Coming, One
<1>3. CASE WorkerTakes
  <2>1. /\ queue # <<>> /\ queue' = Tail(queue) /\ UNCHANGED <<at, unseen>>
        /\ PassBegins(s) => Head(queue) = s
    BY <1>3 DEF WorkerTakes, PassBegins
  <2>2. /\ Tasks(queue, s) = Tasks(Tail(queue), s) + One(Head(queue) = s)
        /\ Tasks(Tail(queue), s) \in Nat
    <3>1. Tail(queue) \in Seq(Registrations)
      BY <1>1, <2>1
    <3>2. Tasks(queue, s) = Tasks(Tail(queue), s) + (IF Head(queue) = s THEN 1 ELSE 0)
      BY <1>1, <2>1, TasksTail
    <3>3. QED
      BY <3>1, <3>2, TasksNumber DEF One
  <2>3. Coming(s)' = Coming(s)
    BY <2>1 DEF Coming
  <2>4. One(PassBegins(s)) <= One(Head(queue) = s)
    BY <2>1 DEF One
  <2>5. QED
    BY <1>2, <2>1, <2>2, <2>3, <2>4 DEF One
<1>4. ASSUME worker' # "running" \/ worker = "running"
      PROVE  One(PassBegins(s)) = 0
  BY <1>4 DEF PassBegins, One
<1>5. CASE WorkerCancelled \/ ChannelClosed \/ PassPanics
  <2>1. worker' # "running" /\ queue' = <<>> /\ UNCHANGED <<at, unseen>>
    BY <1>5 DEF WorkerCancelled, ChannelClosed, PassPanics, WorkerEnds
  <2>2. Tasks(queue, s)' = 0 /\ Coming(s)' = Coming(s) /\ One(PassBegins(s)) = 0
    BY <1>4, <2>1, NoTasks DEF Coming
  <2>3. QED
    BY <1>1, <1>2, <2>2
<1>6. CASE ScheduleFails(s) \/ BuildReturns \/ LayersDropped \/ StoreDropped \/ PassEnds
           \/ (\E h \in Handles : HandleDropped(h))
           \/ (\E r \in Registrations : ScheduleFails(r))
  <2>1. (worker' # "running" \/ worker = "running") /\ UNCHANGED <<queue, at, unseen>>
    BY <1>6 DEF ScheduleFails, BuildReturns, LayersDropped, StoreDropped, PassEnds, HandleDropped
  <2>2. Tasks(queue, s)' = Tasks(queue, s) /\ Coming(s)' = Coming(s) /\ One(PassBegins(s)) = 0
    BY <1>4, <2>1 DEF Coming
  <2>3. QED
    BY <1>1, <1>2, <2>2
<1>7. ASSUME NEW r \in Registrations, Schedules(r)
      PROVE  Tasks(queue, s)' + Coming(s)' + One(PassBegins(s)) <= Tasks(queue, s) + Coming(s)
  <2>1. /\ queue' = queue /\ worker' = worker /\ at[r] = "unscheduled"
        /\ unseen' = unseen \ {r}
        /\ \A t \in Registrations \ {r} : at'[t] = at[t]
        /\ r \in OnStarts => at'[r] = "due"
        /\ r \in Manuals => at'[r] = "listening"
    BY <1>7, <1>1, Kinds DEF Schedules
  <2>2. Coming(s)' <= Coming(s)
    BY <1>1, <2>1, Kinds DEF Coming, One, AtNeed
  <2>3. One(PassBegins(s)) = 0
    BY <1>4, <2>1
  <2>4. QED
    BY <1>1, <1>2, <2>1, <2>2, <2>3
<1>8. ASSUME NEW r \in Customs, CustomTries(r)
      PROVE  Tasks(queue, s)' + Coming(s)' + One(PassBegins(s)) <= Tasks(queue, s) + Coming(s)
  <2>1. /\ r # s /\ r \in Registrations /\ queue' = Append(queue, r)
        /\ at'[s] = at[s] /\ UNCHANGED <<worker, unseen>>
    BY <1>1, <1>8, Kinds DEF CustomTries, Sends
  <2>2. Tasks(queue, s)' = Tasks(queue, s)
    BY <1>1, <2>1, TasksAppend
  <2>3. Coming(s)' = Coming(s) /\ One(PassBegins(s)) = 0
    BY <1>4, <2>1 DEF Coming
  <2>4. QED
    BY <1>1, <1>2, <2>2, <2>3
<1>9. QED
  BY <1>3, <1>5, <1>6, <1>7, <1>8
  DEF MaintenanceStep, BuildNext, WorkerNext, ApplicationNext

\* A value that is sent is unseen by each of its listeners.
LEMMA TriggerAsks ==
    ASSUME MaintenanceTypeOK, NEW h \in Handles, ManualTriggered(h), NEW s \in AtNeed
    PROVE  /\ Tasks(queue, s)' = Tasks(queue, s) /\ ~PassBegins(s)
           /\ Coming(s)' - Coming(s) <= Earned(s)' - Earned(s)
<1>1. /\ value \in [Handles -> 0 .. MaxTriggers] /\ (s \notin OnStarts => s \in Manuals)
      /\ unseen \subseteq Manuals
  BY DEF MaintenanceTypeOK, AtNeed
<1>2. /\ UNCHANGED <<queue, at, worker>> /\ value' = [value EXCEPT ![h] = value[h] + 1]
      /\ unseen' = unseen \cup Listeners(h)
  BY DEF ManualTriggered
<1>3. CASE s \in OnStarts
  BY <1>1, <1>2, <1>3, Kinds DEF Coming, Earned, One, PassBegins, Listeners
<1>4. CASE s \in Manuals /\ s \notin OnStarts
  <2>1. HandleOf[s] \in Handles /\ value[HandleOf[s]] \in Nat
    BY <1>1, <1>4, HandlesAssumption, BoundAssumption
  <2>2. CASE HandleOf[s] = h
    BY <1>1, <1>2, <1>4, <2>1, <2>2 DEF Coming, Earned, One, PassBegins
  <2>3. CASE HandleOf[s] # h
    BY <1>1, <1>2, <1>4, <2>1, <2>3 DEF Coming, Earned, One, PassBegins, Listeners
  <2>4. QED
    BY <2>2, <2>3
<1>5. QED
  BY <1>1, <1>3, <1>4

LEMMA EarnedStep == MInv /\ EarnedInv /\ [MHNext]_mhvars => EarnedInv'
<1> SUFFICES ASSUME MInv, EarnedInv, [MHNext]_mhvars, NEW s \in AtNeed
             PROVE  begun'[s] + Tasks(queue, s)' + Coming(s)' <= Earned(s)'
  BY DEF EarnedInv
<1>1. MaintenanceTypeOK /\ begun[s] \in Nat /\ s \in Registrations
      /\ queue \in Seq(Registrations)
  BY Kinds DEF MInv, PassesTypeOK, MaintenanceTypeOK, AtNeed
<1>2. MaintenanceTypeOK' /\ queue' \in Seq(Registrations)
  BY MInvStep DEF MInv, MaintenanceTypeOK
<1>3. /\ Tasks(queue, s) \in Nat /\ Tasks(queue, s)' \in Nat
      /\ Coming(s) \in Nat /\ Coming(s)' \in Nat
  BY <1>1, <1>2, TasksNumber DEF Coming, One
<1>4. Earned(s) \in Nat /\ Earned(s)' \in Nat
  <2>1. s \notin OnStarts => HandleOf[s] \in Handles
    BY HandlesAssumption DEF AtNeed
  <2>2. QED
    BY <1>1, <1>2, <2>1, BoundAssumption DEF MaintenanceTypeOK, Earned
<1>5. begun[s] + Tasks(queue, s) + Coming(s) <= Earned(s)
  BY DEF EarnedInv
<1>6. CASE MHNext
  <2>1. MaintenanceStep /\ begun'[s] = begun[s] + One(PassBegins(s))
    BY <1>1, <1>6 DEF MHNext, WatchPasses, One
  <2>2. CASE \E r \in Registrations : LoopNext(r)
    <3>1. Tasks(queue, s)' + Coming(s)' <= Tasks(queue, s) + Coming(s)
      BY <1>1, <2>2, LoopAsks
    <3>2. UNCHANGED <<worker, value>>
      BY <1>1, <2>2, LoopEffects
    <3>3. One(PassBegins(s)) = 0 /\ Earned(s)' = Earned(s)
      BY <3>2 DEF PassBegins, One, Earned
    <3>4. QED
      BY <1>1, <1>3, <1>4, <1>5, <2>1, <3>1, <3>3
  <2>3. CASE \E h \in Handles : ManualTriggered(h)
    <3>1. /\ Tasks(queue, s)' = Tasks(queue, s) /\ One(PassBegins(s)) = 0
          /\ Coming(s)' - Coming(s) <= Earned(s)' - Earned(s)
      BY <1>1, <2>3, TriggerAsks DEF One
    <3>2. QED
      BY <1>1, <1>3, <1>4, <1>5, <2>1, <3>1
  <2>4. CASE ~ (\E r \in Registrations : LoopNext(r)) /\ ~ (\E h \in Handles : ManualTriggered(h))
    <3>1. Tasks(queue, s)' + Coming(s)' + One(PassBegins(s)) <= Tasks(queue, s) + Coming(s)
      BY <1>1, <2>1, <2>4, OthersAsk
    <3>2. value' = value
      BY <2>1, <2>4
      DEF MaintenanceStep, BuildNext, WorkerNext, ApplicationNext, Schedules, ScheduleFails,
          BuildReturns, LayersDropped, StoreDropped, WorkerTakes, PassEnds, WorkerCancelled,
          ChannelClosed, PassPanics, WorkerEnds, HandleDropped, CustomTries
    <3>3. Earned(s)' = Earned(s) /\ One(PassBegins(s)) \in Nat
      BY <3>2 DEF Earned, One
    <3>4. /\ Tasks(queue, s)' + Coming(s)' + One(PassBegins(s)) <= Tasks(queue, s) + Coming(s)
          /\ begun[s] \in Nat /\ Earned(s) \in Nat /\ One(PassBegins(s)) \in Nat
      BY <1>1, <1>4, <3>1, <3>3
    <3>5. QED
      BY <1>3, <1>5, <2>1, <3>3, <3>4
  <2>5. QED
    BY <2>2, <2>3, <2>4
<1>7. CASE UNCHANGED mhvars
  BY <1>5, <1>7 DEF mhvars, mvars, passHistory, Coming, Earned
<1>8. QED
  BY <1>6, <1>7

\* A Manual registration (strategies.rs) begins at most one pass for each value
\* sent to its watch, and OnStart at most one in the life of the store.
THEOREM PassesAreEarned == MHSafe => []PassesEarned
<1>1. MHInit => EarnedInv
  BY EarnedInit
<1>2. MInv /\ EarnedInv => PassesEarned
  <2> SUFFICES ASSUME MInv, EarnedInv PROVE PassesEarned
    OBVIOUS
  <2>1. \A s \in AtNeed : begun[s] <= Earned(s)
    <3> SUFFICES ASSUME NEW s \in AtNeed PROVE begun[s] <= Earned(s)
      OBVIOUS
    <3>1. begun[s] \in Nat /\ Tasks(queue, s) \in Nat /\ Coming(s) \in Nat
      BY TasksNumber DEF MInv, PassesTypeOK, MaintenanceTypeOK, Coming, One
    <3>2. Earned(s) \in Nat
      BY HandlesAssumption, BoundAssumption DEF MInv, MaintenanceTypeOK, Earned, AtNeed
    <3>3. QED
      BY <3>1, <3>2 DEF EarnedInv
  <2>2. QED
    BY <2>1, Kinds DEF Earned, AtNeed, PassesEarned
<1>3. QED
  BY <1>1, <1>2, EarnedStep, MInvariant, PTL DEF MHSafe
===============================================================================
