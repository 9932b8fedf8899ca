-------------------------- MODULE DetectorProofs --------------------------
(* The cooldown of a worker and the order of stopping, for every set of    *)
(* configurations and whatever the tracker makes of the frames; then the   *)
(* tracker itself, for every number of tracks and of detections.           *)
EXTENDS Detector, FiniteSetTheorems, SequenceTheorems, WellFoundedInduction, TLAPS

\* What the events need of the types: nothing is said of the tracks
Types ==
  /\ now \in 0..MaxTime
  /\ active \in Workers \cup {None}
  /\ config \in [Workers -> Offers]
  /\ stopped \subseteq Workers
  /\ pc \in [Workers -> {"unborn", "loop", "frame", "post", "end"}]
  /\ cfg \in [Workers -> Offers]
  /\ lastTrigger \in [Workers -> Int]
  /\ DOMAIN alert = Workers
  /\ events \in Seq(Event)

\* Nothing is posted but by the worker itself, about its last trigger.
AlertInv ==
  \A w \in Workers :
    \/ alert[w] = <<>>
    \/ /\ pc[w] = "post"
       /\ \E e \in Event :
            /\ alert[w] = <<e>> /\ e.worker = w /\ e.at = lastTrigger[w]
            /\ e.stopped => w \in stopped
            /\ \A i \in 1..Len(events) :
                 events[i].worker = w => e.at - events[i].at >= AtLeastOne(e.config.cooldown)

\* last_trigger_time is no earlier than any event, and not in the future.
TriggerInv ==
  \A w \in Workers :
    /\ lastTrigger[w] <= now
    /\ \A i \in 1..Len(events) : events[i].worker = w => events[i].at <= lastTrigger[w]

\* Who has posted after it was stopped is about to end.
StopInv ==
  \A i \in 1..Len(events) :
    events[i].stopped => events[i].worker \in stopped /\ pc[events[i].worker] \in {"loop", "end"}

\* Who was told to stop has started; the active worker was not told, and only it was not.  A
\* thread that died stays in the table.
ActiveInv ==
  /\ active \notin stopped
  /\ \A w \in stopped \cup {active} : w \in Workers => pc[w] # "unborn"
  /\ \A w \in Workers : pc[w] # "unborn" /\ w \notin stopped => w = active

\* Who has posted has started.
PosterInv == \A i \in 1..Len(events) : pc[events[i].worker] # "unborn"

IInv == Types /\ AlertInv /\ TriggerInv /\ StopInv /\ ActiveInv /\ PosterInv
          /\ WorkerCooldown /\ OnlyActiveListens /\ OneLastEvent

-----------------------------------------------------------------------------
LEMMA CooldownRange ==
  \A c \in Settings : AtLeastOne(c.cooldown) \in Nat /\ AtLeastOne(c.cooldown) >= 1
<1> DEFINE Seconds == 1..3600
<1>1. \A n \in Seconds : AtLeastOne(n) \in Nat /\ AtLeastOne(n) >= 1
  BY DEF AtLeastOne
<1>2. \A c \in Settings : c.cooldown \in Seconds
  BY SMTT(30) DEF Settings
<1> HIDE DEF Seconds
<1> QED
  BY <1>1, <1>2, Zenon

LEMMA EventFields ==
  ASSUME NEW e \in Event
  PROVE  /\ e.worker \in Workers /\ e.at \in Nat /\ e.at <= MaxTime /\ e.config \in Configs
         /\ AtLeastOne(e.config.cooldown) \in Nat /\ AtLeastOne(e.config.cooldown) >= 1
<1>1. MaxTime \in Nat /\ Configs \subseteq Settings
  BY DetectorAssumption DEF DetectorAssumption
<1>2. e.at \in 0..MaxTime /\ e.worker \in Workers /\ e.config \in Configs
  BY DEF Event
<1>3. e.config \in Settings
  BY <1>1, <1>2, Zenon
<1>4. AtLeastOne(e.config.cooldown) \in Nat /\ AtLeastOne(e.config.cooldown) >= 1
  BY <1>3, CooldownRange, Zenon
<1>5. e.at \in Nat /\ e.at <= MaxTime
  BY <1>1, <1>2
<1> QED
  BY <1>2, <1>4, <1>5, Zenon

LEMMA NoneIsNoWorker == None \notin Workers /\ MaxTime \in Nat
BY DetectorAssumption DEF DetectorAssumption

LEMMA InitInv == Init => IInv
<1> SUFFICES ASSUME Init PROVE IInv
  OBVIOUS
<1>1. Types
  BY NoneIsNoWorker DEF Init, Types, Offers, LongAgo
<1>2. AlertInv /\ TriggerInv /\ StopInv /\ ActiveInv /\ PosterInv
  BY NoneIsNoWorker DEF Init, AlertInv, TriggerInv, StopInv, ActiveInv, PosterInv, LongAgo
<1>3. WorkerCooldown /\ OnlyActiveListens /\ OneLastEvent
  BY DEF Init, WorkerCooldown, OnlyActiveListens, OneLastEvent
<1> QED
  BY <1>1, <1>2, <1>3 DEF IInv

LEMMA StutterInv == IInv /\ UNCHANGED vars => IInv'
BY NoneIsNoWorker DEF IInv, Types, AlertInv, TriggerInv, StopInv, ActiveInv, PosterInv, WorkerCooldown, OnlyActiveListens,
       OneLastEvent, vars, manager, worker

\* The properties about the events survive when events does not change.
LEMMA EventsKept ==
  ASSUME WorkerCooldown, OneLastEvent, events' = events, stopped \subseteq stopped'
  PROVE  WorkerCooldown' /\ OneLastEvent'
BY DEF WorkerCooldown, OneLastEvent

\* A worker that has started stays so.
LEMMA PostersKept ==
  ASSUME Types, PosterInv, events' = events,
         \A w \in Workers : pc[w] # "unborn" => pc'[w] # "unborn"
  PROVE  PosterInv'
BY EventFields DEF PosterInv, Types

\* A round of the manager starts a worker that has posted nothing, or tells the active one.
LEMMA RunLoopInv ==
  ASSUME IInv, RunLoop
  PROVE  IInv'
<1> USE DEF IInv
<1>0. UNCHANGED <<now, cfg, lastTrigger, alert, events>>
  BY DEF RunLoop, worker
<1> PICK items \in Offers : SyncActive(items) \/ SyncRemoved(items)
  BY DEF RunLoop
<1>1. CASE SyncActive(items) /\ active = None
  <2>1. PICK w \in Workers : /\ pc[w] = "unborn" /\ active' = w
                             /\ config' = [config EXCEPT ![w] = items]
                             /\ pc' = [pc EXCEPT ![w] = "loop"]
    BY <1>1 DEF SyncActive, Unborn
  <2>2. stopped' = stopped
    BY <1>1 DEF SyncActive
  <2>3. w \notin stopped
    BY <2>1 DEF Types, ActiveInv
  <2>4. Types'
    BY <1>0, <2>1, <2>2 DEF Types
  <2>5. AlertInv' /\ TriggerInv'
    BY <1>0, <2>1, <2>2 DEF AlertInv, TriggerInv, Types
  <2>6. StopInv'
    BY <1>0, <2>1, <2>2, EventFields DEF StopInv, Types
  <2>7. ActiveInv' /\ OnlyActiveListens'
    BY <1>1, <1>0, <2>1, <2>2, <2>3, NoneIsNoWorker DEF ActiveInv, OnlyActiveListens, Types
  <2>8. PosterInv'
    BY <1>0, <2>1, PostersKept DEF Types
  <2> QED
    BY <1>0, <2>2, <2>4, <2>5, <2>6, <2>7, <2>8, EventsKept
<1>2. CASE SyncActive(items) /\ active # None
  <2>1. /\ config' = [config EXCEPT ![active] = items]
        /\ UNCHANGED <<active, pc, stopped>>
    BY <1>2 DEF SyncActive
  <2>2. Types'
    BY <1>0, <1>2, <2>1 DEF Types
  <2>3. (AlertInv /\ TriggerInv /\ StopInv /\ ActiveInv /\ PosterInv /\ OnlyActiveListens)'
    BY <1>0, <2>1 DEF AlertInv, TriggerInv, StopInv, ActiveInv, PosterInv, OnlyActiveListens
  <2> QED
    BY <1>0, <2>1, <2>2, <2>3, EventsKept
<1>3. CASE SyncRemoved(items)
  <2>1. /\ active # None /\ active' = None /\ stopped' = stopped \cup {active}
        /\ UNCHANGED <<config, pc>>
    BY <1>3 DEF SyncRemoved, StopRemoved, StopActive
  <2>2. Types'
    BY <1>0, <2>1 DEF Types
  <2>3. AlertInv' /\ TriggerInv'
    BY <1>0, <2>1 DEF AlertInv, TriggerInv
  <2>4. StopInv' /\ ActiveInv' /\ OnlyActiveListens'
    BY <1>0, <2>1, NoneIsNoWorker, EventFields DEF StopInv, ActiveInv, OnlyActiveListens, Types
  <2>5. PosterInv'
    BY <1>0, <2>1 DEF PosterInv
  <2> QED
    BY <1>0, <2>1, <2>2, <2>3, <2>4, <2>5, EventsKept
<1> QED
  BY <1>1, <1>2, <1>3 DEF SyncActive

LEMMA TickInv ==
  ASSUME IInv, Tick
  PROVE  IInv'
<1> USE DEF IInv
<1>0. /\ now' = now + 1 /\ now < MaxTime
      /\ UNCHANGED <<active, config, stopped, pc, cfg, lastTrigger, alert, events>>
  BY DEF Tick, manager, worker
<1>1. Types'
  BY <1>0, NoneIsNoWorker DEF Types
<1>2. TriggerInv'
  BY <1>0 DEF TriggerInv, Types
<1>3. AlertInv' /\ StopInv' /\ ActiveInv' /\ PosterInv' /\ OnlyActiveListens'
  BY <1>0 DEF AlertInv, StopInv, ActiveInv, PosterInv, OnlyActiveListens
<1> QED
  BY <1>0, <1>1, <1>2, <1>3, EventsKept

\* GrabFrame, End and Die move a worker that posts nothing; a stopped one does not grab a frame.
LEMMA LoopInv ==
  ASSUME IInv, NEW w \in Workers, GrabFrame(w) \/ End(w) \/ Die(w)
  PROVE  IInv'
<1> USE DEF IInv
<1>0. /\ UNCHANGED <<now, active, config, stopped, lastTrigger, events>>
      /\ pc[w] \in {"loop", "frame", "post"}
  BY DEF GrabFrame, End, Die, manager, worker
<1>1. CASE GrabFrame(w)
  <2>1. /\ w \notin stopped /\ pc[w] = "loop" /\ pc' = [pc EXCEPT ![w] = "frame"] /\ cfg' = [cfg EXCEPT ![w] = config[w]]
        /\ alert' = alert
    BY <1>1 DEF GrabFrame, MustEnd, StopIsSet, Goto
  <2>2. Types'
    BY <1>0, <2>1 DEF Types
  <2>3. AlertInv' /\ TriggerInv'
    BY <1>0, <2>1 DEF AlertInv, TriggerInv, Types
  <2>4. StopInv' /\ ActiveInv' /\ OnlyActiveListens'
    BY <1>0, <2>1, NoneIsNoWorker, EventFields DEF StopInv, ActiveInv, OnlyActiveListens, Types
  <2>5. PosterInv'
    BY <1>0, <2>1, PostersKept DEF Types
  <2> QED
    BY <1>0, <2>2, <2>3, <2>4, <2>5, EventsKept
<1>2. CASE End(w) \/ Die(w)
  <2>1. /\ pc' = [pc EXCEPT ![w] = "end"]
        /\ cfg' = cfg \/ cfg' = [cfg EXCEPT ![w] = {}]
    BY <1>2 DEF End, Die, Goto, worker
  <2>5. /\ DOMAIN alert' = Workers /\ alert'[w] = <<>>
        /\ \A v \in Workers \ {w} : alert'[v] = alert[v]
    <3>1. CASE End(w)
      <4>1. alert' = alert /\ pc[w] = "loop"
        BY <3>1 DEF End, worker
      <4>2. alert[w] = <<>>
        BY <4>1 DEF AlertInv
      <4> QED
        BY <4>1, <4>2 DEF Types
    <3>2. CASE Die(w)
      BY <3>2 DEF Die, Types
    <3> QED
      BY <1>2, <3>1, <3>2
  <2>6. PosterInv'
    BY <1>0, <2>1, PostersKept DEF Types
  <2>2. Types'
    BY <1>0, <2>1, <2>5 DEF Types, Offers
  <2>3. AlertInv' /\ TriggerInv'
    <3>1. ASSUME NEW v \in Workers \ {w}, alert'[v] # <<>> PROVE pc'[v] = "post" /\ alert[v] # <<>>
      BY <2>1, <2>5, <3>1 DEF AlertInv, Types
    <3>2. \A v \in Workers : alert'[v] = <<>> \/ (v # w /\ pc'[v] = "post" /\ alert'[v] = alert[v])
      BY <2>5, <3>1
    <3>3. AlertInv'
      BY <1>0, <3>2 DEF AlertInv
    <3> QED
      BY <1>0, <3>3 DEF TriggerInv
  <2>4. StopInv' /\ ActiveInv' /\ OnlyActiveListens'
    BY <1>0, <2>1, NoneIsNoWorker, EventFields DEF StopInv, ActiveInv, OnlyActiveListens, Types
  <2> QED
    BY <1>0, <2>2, <2>3, <2>4, <2>6, EventsKept
<1> QED
  BY <1>1, <1>2

\* The tracks of a frame trigger only when the cooldown since the last trigger is over.
LEMMA ProcessInv ==
  ASSUME IInv, NEW w \in Workers, ProcessFrame(w)
  PROVE  IInv'
<1> USE DEF IInv
<1>0. UNCHANGED <<now, active, config, stopped, events>> /\ pc[w] = "frame"
      /\ cfg' = [cfg EXCEPT ![w] = {}]
  BY DEF ProcessFrame, manager
<1>1. PICK c, judged : c \in cfg[w] /\ Outcome(w, c, judged)
  BY DEF ProcessFrame
<1>2. c \in Configs
  <2>1. cfg[w] \in Offers
    BY DEF Types
  <2> QED
    BY <1>1, <2>1 DEF Offers
<1>3. alert[w] = <<>>
  BY <1>0 DEF AlertInv
<1>4. w \notin stopped => w = active
  BY <1>0 DEF OnlyActiveListens
<1>5. \A i \in 1..Len(events) : events[i].worker = w => ~events[i].stopped
  BY <1>0 DEF StopInv
<1>8. \A place : place # "unborn" /\ pc' = [pc EXCEPT ![w] = place] => PosterInv'
  BY <1>0, PostersKept DEF Types
<1>6. CASE /\ pc' = [pc EXCEPT ![w] = "loop"]
           /\ UNCHANGED <<lastTrigger, alert>>
  <2>1. Types'
    BY <1>0, <1>6 DEF Types, Offers
  <2>2. AlertInv' /\ TriggerInv'
    BY <1>0, <1>3, <1>6 DEF AlertInv, TriggerInv, Types
  <2>3. StopInv' /\ ActiveInv' /\ OnlyActiveListens'
    BY <1>0, <1>4, <1>6 DEF StopInv, ActiveInv, OnlyActiveListens, Types
  <2>4. PosterInv' /\ WorkerCooldown' /\ OneLastEvent'
    <3>1. PosterInv'
      BY <1>6, <1>8
    <3> QED
      BY <1>0, <3>1, EventsKept
  <2> QED
    BY <2>1, <2>2, <2>3, <2>4
<1>7. ASSUME NEW i \in DOMAIN judged, Triggers(w, c, judged[i]),
             lastTrigger' = [lastTrigger EXCEPT ![w] = now],
             alert' = [alert EXCEPT ![w] = <<[worker |-> w, at |-> now, config |-> c,
                                              present |-> judged[i].age = 0,
                                              stopped |-> w \in stopped]>>],
             pc' = [pc EXCEPT ![w] = "post"]
      PROVE  IInv'
  <2> DEFINE e == [worker |-> w, at |-> now, config |-> c, present |-> judged[i].age = 0,
                   stopped |-> w \in stopped]
  <2>1. e \in Event
    BY <1>2 DEF Event, Types
  <2>2. now - lastTrigger[w] >= AtLeastOne(c.cooldown)
    BY <1>7 DEF Triggers, Cooled, Cool
  <2>3. \A j \in 1..Len(events) : events[j].worker = w => now - events[j].at >= AtLeastOne(c.cooldown)
    <3> SUFFICES ASSUME NEW j \in 1..Len(events), events[j].worker = w
                 PROVE  now - events[j].at >= AtLeastOne(c.cooldown)
      OBVIOUS
    <3>1. events[j] \in Event
      BY DEF Types
    <3>2. events[j].at <= lastTrigger[w]
      BY DEF TriggerInv
    <3>3. events[j].at \in Int /\ lastTrigger[w] \in Int /\ now \in Int /\ AtLeastOne(c.cooldown) \in Int
      BY <1>2, <2>1, <3>1, EventFields DEF Types
    <3> QED
      BY <2>2, <3>2, <3>3
  <2>4. Types'
    <3>1. DOMAIN alert' = Workers
      BY <1>7 DEF Types
    <3>2. lastTrigger' \in [Workers -> Int]
      BY <1>7, NoneIsNoWorker DEF Types
    <3>3. cfg' \in [Workers -> Offers]
      BY <1>0 DEF Types, Offers
    <3>4. pc' \in [Workers -> {"unborn", "loop", "frame", "post", "end"}]
      BY <1>7 DEF Types
    <3> QED
      BY <1>0, <3>1, <3>2, <3>3, <3>4 DEF Types
  <2>5. TriggerInv'
    <3> SUFFICES ASSUME NEW v \in Workers
                 PROVE  /\ lastTrigger'[v] <= now
                        /\ \A j \in 1..Len(events) : events[j].worker = v => events[j].at <= lastTrigger'[v]
      BY <1>0 DEF TriggerInv
    <3>1. CASE v # w
      BY <1>7, <3>1 DEF TriggerInv, Types
    <3>2. CASE v = w
      <4>1. lastTrigger'[w] = now
        BY <1>7 DEF Types
      <4>2. \A j \in 1..Len(events) : events[j] \in Event
        BY DEF Types
      <4> QED
        BY <3>2, <4>1, <4>2, EventFields DEF TriggerInv, Types
    <3> QED
      BY <3>1, <3>2
  <2>6. AlertInv'
    <3> SUFFICES ASSUME NEW v \in Workers
                 PROVE  AlertInv!(v)'
      BY DEF AlertInv
    <3>1. CASE v # w
      BY <1>0, <1>7, <3>1 DEF AlertInv, Types
    <3>2. CASE v = w
      <4>1. alert'[w] = <<e>> /\ pc'[w] = "post" /\ lastTrigger'[w] = now
        BY <1>7 DEF Types
      <4>2. e.worker = w /\ e.at = now /\ e.config = c /\ (e.stopped => w \in stopped)
        OBVIOUS
      <4> HIDE DEF e
      <4> QED
        BY <1>0, <2>1, <2>3, <3>2, <4>1, <4>2
    <3> QED
      BY <3>1, <3>2
  <2>7. StopInv'
    BY <1>0, <1>5, <1>7 DEF StopInv, Types
  <2>8. ActiveInv' /\ OnlyActiveListens'
    BY <1>0, <1>4, <1>7 DEF ActiveInv, OnlyActiveListens, Types
  <2>9. PosterInv' /\ WorkerCooldown' /\ OneLastEvent'
    <3>1. PosterInv'
      BY <1>7, <1>8
    <3> QED
      BY <1>0, <3>1, EventsKept
  <2> QED
    BY <2>4, <2>5, <2>6, <2>7, <2>8, <2>9
<1> QED
  BY <1>1, <1>6, <1>7 DEF Outcome, Goto

\* The event that a worker posts is stored or lost.
LEMMA SendInv ==
  ASSUME IInv, NEW w \in Workers, SendEvent(w)
  PROVE  IInv'
<1> USE DEF IInv
<1>0. /\ UNCHANGED <<now, active, config, stopped, cfg, lastTrigger>>
      /\ pc[w] = "post" /\ pc' = [pc EXCEPT ![w] = "loop"]
      /\ alert' = [alert EXCEPT ![w] = <<>>]
      /\ events' = events \o alert[w] \/ events' = events
  BY DEF SendEvent, manager, Goto
<1>1. w \in stopped \/ w = active
  BY <1>0 DEF OnlyActiveListens
<1>2. ActiveInv' /\ OnlyActiveListens'
  BY <1>0, <1>1 DEF ActiveInv, OnlyActiveListens, Types
<1>5. \A v \in Workers : pc'[v] # "unborn" <=> pc[v] # "unborn"
  BY <1>0 DEF Types
<1>3. CASE events' = events
  <2>1. Types'
    BY <1>0, <1>3 DEF Types
  <2>2. AlertInv' /\ TriggerInv'
    BY <1>0, <1>3 DEF AlertInv, TriggerInv, Types
  <2>3. StopInv'
    BY <1>0, <1>3 DEF StopInv, Types
  <2>9. PosterInv'
    BY <1>3, <1>5, PostersKept
  <2> QED
    BY <1>0, <1>2, <1>3, <2>1, <2>2, <2>3, <2>9, EventsKept
<1>4. CASE events' # events
  <2>1. PICK e \in Event :
          /\ alert[w] = <<e>> /\ e.worker = w /\ e.at = lastTrigger[w]
          /\ e.stopped => w \in stopped
          /\ \A i \in 1..Len(events) :
               events[i].worker = w => e.at - events[i].at >= AtLeastOne(e.config.cooldown)
    <3>1. events \in Seq(Event)
      BY DEF Types
    <3>2. alert[w] # <<>>
      BY <1>0, <1>4, <3>1
    <3> QED
      BY <3>2 DEF AlertInv
  <2>2. PICK n \in Nat : n = Len(events)
    BY DEF Types
  <2>3. /\ events' \in Seq(Event) /\ Len(events') = n + 1
        /\ \A i \in 1..n : events'[i] = events[i]
        /\ events'[n + 1] = e
    <3>1. events' = events \o <<e>>
      BY <1>0, <1>4, <2>1
    <3>2. events \in Seq(Event)
      BY DEF Types
    <3> QED
      BY <2>2, <3>1, <3>2
  <2>4. \A i \in 1..n : events[i] \in Event
    BY <2>2 DEF Types
  <2>5. \A i \in 1..n : events[i].stopped => events[i].worker # w
    BY <1>0, <2>2 DEF StopInv
  <2>6. Types'
    BY <1>0, <2>3 DEF Types
  <2>7. TriggerInv'
    <3> SUFFICES ASSUME NEW v \in Workers, NEW i \in 1..(n + 1), events'[i].worker = v
                 PROVE  events'[i].at <= lastTrigger[v]
      BY <1>0, <2>3 DEF TriggerInv
    <3>1. CASE i = n + 1
      BY <2>1, <2>3, <3>1, EventFields
    <3>2. CASE i \in 1..n
      BY <2>2, <2>3, <3>2 DEF TriggerInv
    <3> QED
      BY <3>1, <3>2
  <2>8. AlertInv'
    <3> SUFFICES ASSUME NEW v \in Workers, v # w
                 PROVE  AlertInv!(v)'
      BY <1>0 DEF AlertInv, Types
    <3>1. alert'[v] = alert[v] /\ pc'[v] = pc[v]
      BY <1>0 DEF Types
    <3>2. CASE alert[v] = <<>>
      BY <3>1, <3>2
    <3>3. CASE alert[v] # <<>>
      <4>1. PICK f \in Event :
              /\ alert[v] = <<f>> /\ f.worker = v /\ f.at = lastTrigger[v]
              /\ f.stopped => v \in stopped
              /\ \A i \in 1..n :
                   events[i].worker = v => f.at - events[i].at >= AtLeastOne(f.config.cooldown)
        BY <2>2, <3>3 DEF AlertInv
      <4>2. \A i \in 1..(n + 1) :
              events'[i].worker = v => f.at - events'[i].at >= AtLeastOne(f.config.cooldown)
        <5> SUFFICES ASSUME NEW i \in 1..(n + 1), events'[i].worker = v
                     PROVE  f.at - events'[i].at >= AtLeastOne(f.config.cooldown)
          OBVIOUS
        <5>1. i # n + 1
          BY <2>1, <2>3
        <5>2. i \in 1..n
          BY <5>1
        <5> QED
          BY <2>3, <4>1, <5>2
      <4>3. pc[v] = "post"
        BY <3>3 DEF AlertInv
      <4> QED
        BY <1>0, <2>3, <3>1, <4>1, <4>2, <4>3
    <3> QED
      BY <3>2, <3>3
  <2>9. StopInv'
    <3> SUFFICES ASSUME NEW i \in 1..(n + 1), events'[i].stopped
                 PROVE  /\ events'[i].worker \in stopped
                        /\ pc'[events'[i].worker] \in {"loop", "end"}
      BY <1>0, <2>3 DEF StopInv
    <3>1. CASE i = n + 1
      BY <1>0, <2>1, <2>3, <3>1 DEF Types
    <3>2. CASE i \in 1..n
      BY <1>0, <2>2, <2>3, <2>5, <3>2 DEF StopInv, Types
    <3> QED
      BY <3>1, <3>2
  <2>10. WorkerCooldown'
    <3> SUFFICES ASSUME NEW i \in 1..(n + 1), NEW j \in 1..(n + 1), i < j,
                        events'[i].worker = events'[j].worker \/
                          {events'[i].worker, events'[j].worker} \cap stopped = {}
                 PROVE  events'[j].at - events'[i].at >= AtLeastOne(events'[j].config.cooldown)
      BY <1>0, <2>3 DEF WorkerCooldown
    <3>1. CASE j = n + 1
      <4>1. i \in 1..n
        BY <3>1
      <4>2. events[i] \in Event /\ events[i] = events'[i] /\ events'[j] = e
        BY <2>3, <2>4, <3>1, <4>1
      <4>3. pc[events[i].worker] # "unborn" /\ events[i].worker \in Workers
        BY <2>2, <4>1, <4>2, EventFields DEF PosterInv
      <4>4. CASE events[i].worker # w
        BY <1>0, <2>1, <4>2, <4>3, <4>4 DEF ActiveInv
      <4>5. CASE events[i].worker = w
        BY <2>1, <2>2, <4>1, <4>2, <4>5
      <4> QED
        BY <4>4, <4>5
    <3>2. CASE j \in 1..n
      <4>1. i \in 1..n
        BY <3>2
      <4> QED
        BY <2>2, <2>3, <3>2, <4>1 DEF WorkerCooldown
    <3> QED
      BY <3>1, <3>2
  <2>11. OneLastEvent'
    <3> SUFFICES ASSUME NEW i \in 1..(n + 1), NEW j \in 1..(n + 1),
                        events'[i].worker = events'[j].worker,
                        events'[i].stopped, events'[j].stopped
                 PROVE  i = j
      BY <2>3 DEF OneLastEvent
    <3>1. CASE i \in 1..n /\ j \in 1..n
      BY <2>2, <2>3, <3>1 DEF OneLastEvent
    <3>2. CASE i = n + 1 /\ j \in 1..n
      BY <2>1, <2>3, <2>5, <3>2
    <3>3. CASE i \in 1..n /\ j = n + 1
      BY <2>1, <2>3, <2>5, <3>3
    <3> QED
      BY <3>1, <3>2, <3>3
  <2>12. PosterInv'
    <3> SUFFICES ASSUME NEW i \in 1..(n + 1) PROVE pc'[events'[i].worker] # "unborn"
      BY <2>3 DEF PosterInv
    <3>1. CASE i = n + 1
      BY <1>0, <1>5, <2>1, <2>3, <3>1
    <3>2. CASE i \in 1..n
      BY <1>5, <2>2, <2>3, <2>4, <3>2, EventFields DEF PosterInv
    <3> QED
      BY <3>1, <3>2
  <2> QED
    BY <1>2, <2>6, <2>7, <2>8, <2>9, <2>10, <2>11, <2>12
<1> QED
  BY <1>3, <1>4
-----------------------------------------------------------------------------
LEMMA NextInv == IInv /\ [Next]_vars => IInv'
<1> SUFFICES ASSUME IInv, [Next]_vars PROVE IInv'
  OBVIOUS
<1>1. CASE RunLoop
  BY <1>1, RunLoopInv
<1>2. CASE Tick
  BY <1>2, TickInv
<1>3. ASSUME NEW w \in Workers, GrabFrame(w) \/ End(w) \/ Die(w) PROVE IInv'
  BY <1>3, LoopInv
<1>4. ASSUME NEW w \in Workers, ProcessFrame(w) PROVE IInv'
  BY <1>4, ProcessInv
<1>5. ASSUME NEW w \in Workers, SendEvent(w) PROVE IInv'
  BY <1>5, SendInv
<1>6. CASE UNCHANGED vars
  BY <1>6, StutterInv
<1> QED
  BY <1>1, <1>2, <1>3, <1>4, <1>5, <1>6 DEF Next

LEMMA IInvHolds == Spec => []IInv
<1> QED
  BY InitInv, NextInv, PTL DEF Spec

(* Two events of the channel keep the cooldown of the configuration the    *)
(* second was raised under, whatever is detected and however it is edited, *)
(* unless they are of two workers one of which was told to stop.           *)
THEOREM CooldownKept == Spec => []WorkerCooldown
<1>1. IInv => WorkerCooldown
  BY DEF IInv
<1> QED
  BY <1>1, IInvHolds, PTL

(* A worker that the manager has dropped from its table is always told to  *)
(* stop: no restart of the configuration leaves a second one listening.    *)
THEOREM NoForgottenWorker == Spec => []OnlyActiveListens
<1>1. IInv => OnlyActiveListens
  BY DEF IInv
<1> QED
  BY <1>1, IInvHolds, PTL

(* A worker posts one event at most after it was told to stop.             *)
THEOREM AtMostOneAfterStop == Spec => []OneLastEvent
<1>1. IInv => OneLastEvent
  BY DEF IInv
<1> QED
  BY <1>1, IInvHolds, PTL
-----------------------------------------------------------------------------
(* The tracker: the induction over the rounds of the loop of update is by  *)
(* the least number at which a claim would fail.                           *)
LEMMA LeastNumber == \A S \in SUBSET Nat : S # {} => \E n \in S : \A m \in S : n <= m
<1> SUFFICES ASSUME NEW S \in SUBSET Nat, S # {} PROVE \E n \in S : \A m \in S : n <= m
  OBVIOUS
<1>1. IsWellFoundedOn({p \in Nat \X Nat : p[1] < p[2]}, Nat)
  BY NatLessThanWellFounded DEF OpToRel
<1>2. PICK n \in S : \A m \in S : <<m, n>> \notin {p \in Nat \X Nat : p[1] < p[2]}
  BY <1>1, WFMin
<1>3. \A m \in S : ~(m < n)
  BY <1>2
<1> QED
  BY <1>3

Rounds(ts, frame, n, f) ==
  f = [k \in 0..n |-> IF k = 0 THEN {} ELSE OneMore(ts, frame, f[k - 1])]

LEMMA RoundsExist ==
  ASSUME NEW ts, NEW frame, NEW n \in Nat
  PROVE  \E f : Rounds(ts, frame, n, f)
<1> DEFINE Bad == {m \in Nat : ~\E f : Rounds(ts, frame, m, f)}
<1>1. SUFFICES ASSUME Bad # {} PROVE FALSE
  OBVIOUS
<1>2. PICK m \in Bad : \A l \in Bad : m <= l
  <2>1. Bad \in SUBSET Nat
    OBVIOUS
  <2> HIDE DEF Bad
  <2> QED
    BY <1>1, <2>1, LeastNumber
<1>3. CASE m = 0
  <2>1. [k \in 0..0 |-> {}] = [k \in 0..0 |-> IF k = 0 THEN {} ELSE OneMore(ts, frame, [l \in 0..0 |-> {}][k - 1])]
    OBVIOUS
  <2>2. Rounds(ts, frame, 0, [k \in 0..0 |-> {}])
    BY <2>1 DEF Rounds
  <2> QED
    BY <1>3, <2>2
<1>4. CASE m # 0
  <2>1. m - 1 \in Nat /\ m - 1 \notin Bad
    BY <1>2, <1>4
  <2>2. PICK f : Rounds(ts, frame, m - 1, f)
    BY <2>1
  <2> DEFINE g == [k \in 0..m |-> IF k = m THEN OneMore(ts, frame, f[m - 1]) ELSE f[k]]
  <2>3. ASSUME NEW k \in 0..m PROVE g[k] = IF k = 0 THEN {} ELSE OneMore(ts, frame, g[k - 1])
    <3>1. CASE k = m
      <4>1. m - 1 \in 0..m /\ m - 1 # m
        BY <2>1
      <4>2. g[m - 1] = f[m - 1]
        BY <4>1
      <4>3. g[m] = OneMore(ts, frame, f[m - 1])
        BY <2>1
      <4> QED
        BY <1>4, <3>1, <4>2, <4>3
    <3>2. CASE k # m
      <4>1. k \in 0..(m - 1) /\ (k # 0 => k - 1 \in 0..m /\ k - 1 # m)
        BY <2>1, <3>2
      <4>2. f[k] = IF k = 0 THEN {} ELSE OneMore(ts, frame, f[k - 1])
        BY <2>2, <4>1 DEF Rounds
      <4>3. g[k] = f[k] /\ (k # 0 => g[k - 1] = f[k - 1])
        BY <3>2, <4>1
      <4> QED
        BY <4>2, <4>3
    <3> QED
      BY <3>1, <3>2
  <2>4. g = [k \in 0..m |-> g[k]]
    OBVIOUS
  <2> HIDE DEF g
  <2>5. Rounds(ts, frame, m, g)
    BY <2>3, <2>4 DEF Rounds
  <2> QED
    BY <2>5
<1> QED
  BY <1>3, <1>4

LEMMA AssignedIsLastRound ==
  ASSUME NEW ts, NEW frame, Len(frame) \in Nat
  PROVE  \E f : Rounds(ts, frame, Len(frame), f) /\ Assigned(ts, frame) = f[Len(frame)]
<1> DEFINE f == CHOOSE g : Rounds(ts, frame, Len(frame), g)
<1>1. Rounds(ts, frame, Len(frame), f)
  BY RoundsExist
<1>2. Assigned(ts, frame) = f[Len(frame)]
  BY DEF Assigned, Rounds
<1> QED
  BY <1>1, <1>2

\* Positions, of tracks and of detections
Placed(ts, frame) ==
  /\ DOMAIN ts \subseteq Nat /\ \A i \in DOMAIN ts : ts[i].at \in Nat
  /\ Len(frame) \in Nat /\ DOMAIN frame = 1..Len(frame) /\ \A d \in DOMAIN frame : frame[d] \in Nat

LEMMA PairFacts ==
  ASSUME NEW ts, NEW frame, Placed(ts, frame), NEW p \in Pairs(ts, frame)
  PROVE  /\ p[1] \in Nat /\ p[2] \in 1..Len(frame) /\ p = <<p[1], p[2]>>
         /\ Gap(ts, frame, p) \in Nat
<1>1. p \in (DOMAIN ts) \X (DOMAIN frame)
  BY DEF Pairs
<1>2. p[1] \in DOMAIN ts /\ p[2] \in DOMAIN frame /\ p = <<p[1], p[2]>>
  BY <1>1
<1>3. ts[p[1]].at \in Nat /\ frame[p[2]] \in Nat
  BY <1>2 DEF Placed
<1>4. \A x, y \in Nat : Distance(x, y) \in Nat
  BY DEF Distance
<1>5. Gap(ts, frame, p) \in Nat
  BY <1>3, <1>4 DEF Gap
<1> QED
  BY <1>2, <1>5 DEF Placed

\* Of some pairs one comes first: the order of the loop is a total one.
LEMMA FirstPair ==
  ASSUME NEW ts, NEW frame, Placed(ts, frame), NEW free \in SUBSET Pairs(ts, frame), free # {}
  PROVE  \E p \in free : \A q \in free : p = q \/ Before(ts, frame, p, q)
<1> DEFINE G(p) == Gap(ts, frame, p)
           Gaps == {g \in Nat : \E p \in free : G(p) = g}
<1>1. \A p \in free : p[1] \in Nat /\ p[2] \in Nat /\ p = <<p[1], p[2]>> /\ G(p) \in Nat
  <2>1. SUFFICES ASSUME NEW p \in free
                 PROVE  p[1] \in Nat /\ p[2] \in Nat /\ p = <<p[1], p[2]>> /\ G(p) \in Nat
    OBVIOUS
  <2>2. p \in Pairs(ts, frame) /\ \A d \in 1..Len(frame) : d \in Nat
    BY DEF Placed
  <2> QED
    BY <2>2, PairFacts
<1>2. PICK g \in Gaps : \A h \in Gaps : g <= h
  <2>1. Gaps \in SUBSET Nat /\ Gaps # {}
    BY <1>1
  <2> HIDE DEF Gaps
  <2> QED
    BY <2>1, LeastNumber
<1> DEFINE Rows == {i \in Nat : \E p \in free : G(p) = g /\ p[1] = i}
<1>3. PICK i \in Rows : \A j \in Rows : i <= j
  <2>1. Rows \in SUBSET Nat /\ Rows # {}
    BY <1>1, <1>2
  <2> HIDE DEF Rows
  <2> QED
    BY <2>1, LeastNumber
<1> DEFINE Columns == {d \in Nat : \E p \in free : G(p) = g /\ p[1] = i /\ p[2] = d}
<1>4. PICK d \in Columns : \A e \in Columns : d <= e
  <2>1. Columns \in SUBSET Nat /\ Columns # {}
    BY <1>1, <1>3
  <2> HIDE DEF Columns
  <2> QED
    BY <2>1, LeastNumber
<1>5. PICK p \in free : G(p) = g /\ p[1] = i /\ p[2] = d
  BY <1>4
<1>6. ASSUME NEW q \in free, q # p PROVE Before(ts, frame, p, q)
  <2>1. q[1] \in Nat /\ q[2] \in Nat /\ G(q) \in Nat
    BY <1>1
  <2>2. g \in Nat /\ i \in Nat /\ d \in Nat
    BY <1>2, <1>3, <1>4
  <2>3. g <= G(q)
    BY <1>2, <2>1
  <2>4. G(q) = g => i <= q[1]
    BY <1>3, <2>1
  <2>5. G(q) = g /\ q[1] = i => d <= q[2]
    BY <1>4, <2>1
  <2>6. ~(q[1] = p[1] /\ q[2] = p[2])
    BY <1>1, <1>6
  <2> HIDE DEF G
  <2>7. g < G(q) \/ (g = G(q) /\ (i < q[1] \/ (i = q[1] /\ d < q[2])))
    BY <1>5, <2>1, <2>2, <2>3, <2>4, <2>5, <2>6
  <2> QED
    BY <1>5, <2>7 DEF Before, G
<1> QED
  BY <1>6

\* What holds after each round: no track and no detection is in two pairs; what clashes with a
\* pair clashes with one that is as near; and each round uses up a detection, while a pair is free.
Matching(taken) == \A p, q \in taken : p # q => ~Clash(p, q)
NearestTaken(ts, frame, taken) ==
  \A p \in Pairs(ts, frame) :
    (\E q \in taken : Clash(p, q))
      => \E q \in taken : Clash(p, q) /\ Gap(ts, frame, q) <= Gap(ts, frame, p)
Unused(frame, taken) == {d \in 1..Len(frame) : \A q \in taken : q[2] # d}
Round(ts, frame, k, taken) ==
  /\ taken \subseteq Pairs(ts, frame)
  /\ Matching(taken) /\ NearestTaken(ts, frame, taken)
  /\ Free(ts, frame, taken) = {} \/ Cardinality(Unused(frame, taken)) <= Len(frame) - k

LEMMA UnusedFinite ==
  ASSUME NEW frame, Len(frame) \in Nat, NEW taken
  PROVE  IsFiniteSet(Unused(frame, taken)) /\ Cardinality(Unused(frame, taken)) \in Nat
         /\ Cardinality(Unused(frame, taken)) <= Len(frame)
<1>1. PICK n \in Int : n = Len(frame)
  OBVIOUS
<1>2. IsFiniteSet(1..n) /\ Cardinality(1..n) = IF 1 > n THEN 0 ELSE n - 1 + 1
  BY FS_Interval
<1>3. Cardinality(1..n) = n
  BY <1>1, <1>2
<1>4. Unused(frame, taken) \in SUBSET (1..n)
  BY <1>1 DEF Unused
<1> QED
  BY <1>1, <1>2, <1>3, <1>4, FS_Subset, FS_CardinalityType

\* A round takes the first of the free pairs, or there is none.
LEMMA RoundStep ==
  ASSUME NEW ts, NEW frame, Placed(ts, frame), NEW k \in Nat, NEW taken, Round(ts, frame, k, taken)
  PROVE  Round(ts, frame, k + 1, OneMore(ts, frame, taken))
<1> DEFINE free == Free(ts, frame, taken)
           next == OneMore(ts, frame, taken)
<1>1. free \subseteq Pairs(ts, frame)
  BY DEF Free
<1>2. Len(frame) \in Nat
  BY DEF Placed
<1>3. CASE free = {}
  <2>1. next = taken
    BY <1>3 DEF OneMore
  <2> QED
    BY <1>3, <2>1 DEF Round
<1>4. CASE free # {}
  <2>1. PICK p \in free : \A q \in free : p = q \/ Before(ts, frame, p, q)
    BY <1>1, <1>4, FirstPair
  <2>2. \A q \in free : /\ Gap(ts, frame, q) \in Nat /\ q[1] \in Nat /\ q[2] \in Nat
                        /\ q = <<q[1], q[2]>>
    BY <1>1, <1>2, PairFacts
  <2>3. \A q \in free : (\A r \in free : q = r \/ Before(ts, frame, q, r)) => q = p
    BY <2>1, <2>2 DEF Before
  <2>4. next = taken \cup {p}
    <3>1. {q \in free : \A r \in free : q = r \/ Before(ts, frame, q, r)} = {p}
      BY <2>1, <2>3
    <3> QED
      BY <3>1 DEF OneMore
  <2> HIDE DEF next
  <2>5. p \in Pairs(ts, frame) /\ \A q \in taken : ~Clash(p, q)
    BY DEF Free, Excludes
  <2>6. \A q \in free : Gap(ts, frame, p) <= Gap(ts, frame, q)
    BY <2>1, <2>2 DEF Before
  <2>7. next \subseteq Pairs(ts, frame)
    BY <2>4, <2>5 DEF Round
  <2>8. Matching(next)
    BY <2>4, <2>5 DEF Round, Matching, Clash
  <2>9. NearestTaken(ts, frame, next)
    <3>1. SUFFICES ASSUME NEW r \in Pairs(ts, frame), NEW q \in next, Clash(r, q)
                   PROVE  \E s \in next : Clash(r, s) /\ Gap(ts, frame, s) <= Gap(ts, frame, r)
      BY DEF NearestTaken
    <3>2. CASE \E s \in taken : Clash(r, s)
      BY <2>4, <3>2 DEF Round, NearestTaken
    <3>3. CASE ~\E s \in taken : Clash(r, s)
      <4>1. r \in free /\ q = p
        BY <2>4, <3>1, <3>3 DEF Free, Excludes
      <4> QED
        BY <2>4, <2>6, <3>1, <4>1
    <3> QED
      BY <3>2, <3>3
  <2>10. Cardinality(Unused(frame, next)) <= Len(frame) - (k + 1)
    <3>1. Unused(frame, next) = Unused(frame, taken) \ {p[2]}
      BY <2>4 DEF Unused
    <3>2. p[2] \in Unused(frame, taken)
      <4>1. p[2] \in 1..Len(frame)
        BY <2>5, PairFacts
      <4> QED
        BY <2>5, <4>1 DEF Unused, Clash
    <3>3. PICK n \in Nat : n = Cardinality(Unused(frame, taken)) /\ IsFiniteSet(Unused(frame, taken))
      BY <1>2, UnusedFinite
    <3>4. Cardinality(Unused(frame, next)) = IF p[2] \in Unused(frame, taken) THEN n - 1 ELSE n
      BY <3>1, <3>3, FS_RemoveElement
    <3>5. n <= Len(frame) - k
      BY <1>4, <3>3 DEF Round
    <3> QED
      BY <1>2, <3>2, <3>4, <3>5
  <2> QED
    BY <2>7, <2>8, <2>9, <2>10 DEF Round, next
<1> QED
  BY <1>3, <1>4

LEMMA RoundsHold ==
  ASSUME NEW ts, NEW frame, Placed(ts, frame), NEW f, Rounds(ts, frame, Len(frame), f)
  PROVE  \A k \in 0..Len(frame) : Round(ts, frame, k, f[k])
<1> DEFINE Bad == {k \in Nat : k <= Len(frame) /\ ~Round(ts, frame, k, f[k])}
<1>0. Len(frame) \in Nat
  BY DEF Placed
<1>1. SUFFICES ASSUME Bad # {} PROVE FALSE
  BY <1>0
<1>2. PICK m \in Bad : \A l \in Bad : m <= l
  <2>1. Bad \in SUBSET Nat
    OBVIOUS
  <2> HIDE DEF Bad
  <2> QED
    BY <1>1, <2>1, LeastNumber
<1>3. \A k \in 0..Len(frame) : f[k] = IF k = 0 THEN {} ELSE OneMore(ts, frame, f[k - 1])
  BY DEF Rounds
<1>4. CASE m = 0
  <2>1. f[0] = {}
    BY <1>0, <1>3
  <2>2. Cardinality(Unused(frame, {})) <= Len(frame) - 0
    BY <1>0, UnusedFinite
  <2>3. Round(ts, frame, 0, {})
    BY <2>2 DEF Round, Matching, NearestTaken
  <2> QED
    BY <1>2, <1>4, <2>1, <2>3
<1>5. CASE m # 0
  <2>1. m - 1 \in Nat /\ m \in 0..Len(frame) /\ (m - 1) + 1 = m /\ m - 1 <= Len(frame) /\ ~(m <= m - 1)
    BY <1>0, <1>2, <1>5
  <2>2. Round(ts, frame, m - 1, f[m - 1])
    BY <1>2, <2>1
  <2>3. f[m] = OneMore(ts, frame, f[m - 1])
    BY <1>3, <1>5, <2>1
  <2>4. PICK l \in Nat : l = m - 1
    BY <2>1
  <2>5. Round(ts, frame, l + 1, f[m])
    BY <2>2, <2>3, <2>4, RoundStep
  <2> QED
    BY <1>2, <2>1, <2>4, <2>5
<1> QED
  BY <1>4, <1>5

\* The greedy loop ends in a stable matching.
LEMMA AssignedIsStable ==
  ASSUME NEW ts, NEW frame, Placed(ts, frame)
  PROVE  /\ Assigned(ts, frame) \subseteq Pairs(ts, frame)
         /\ Matching(Assigned(ts, frame))
         /\ \A p \in Pairs(ts, frame) :
              \E q \in Assigned(ts, frame) : Clash(p, q) /\ Gap(ts, frame, q) <= Gap(ts, frame, p)
<1>0. Len(frame) \in Nat
  BY DEF Placed
<1>1. PICK f : Rounds(ts, frame, Len(frame), f) /\ Assigned(ts, frame) = f[Len(frame)]
  BY <1>0, AssignedIsLastRound
<1>2. Round(ts, frame, Len(frame), Assigned(ts, frame))
  BY <1>0, <1>1, RoundsHold
<1>3. ASSUME NEW p \in Free(ts, frame, Assigned(ts, frame)) PROVE FALSE
  <2> DEFINE unused == Unused(frame, Assigned(ts, frame))
  <2>1. Cardinality(unused) <= Len(frame) - Len(frame)
    BY <1>2, <1>3 DEF Round
  <2>2. IsFiniteSet(unused) /\ Cardinality(unused) \in Nat
    BY <1>0, UnusedFinite
  <2>3. Cardinality(unused) = 0
    BY <1>0, <2>1, <2>2
  <2>4. unused = {}
    BY <2>2, <2>3, FS_EmptySet
  <2>5. p \in Pairs(ts, frame) /\ \A q \in Assigned(ts, frame) : ~Clash(p, q)
    BY DEF Free, Excludes
  <2>6. p[2] \in 1..Len(frame)
    BY <2>5, PairFacts
  <2> QED
    BY <2>4, <2>5, <2>6 DEF Unused, Clash
<1>4. ASSUME NEW p \in Pairs(ts, frame)
      PROVE  \E q \in Assigned(ts, frame) : Clash(p, q)
  BY <1>3 DEF Free, Excludes
<1> QED
  BY <1>2, <1>4 DEF Round, NearestTaken
-----------------------------------------------------------------------------
\* The places are counted from the first to the last, each by a number of its own.
LEMMA PickedFrom ==
  ASSUME NEW S, NEW s, NEW m \in Nat, NEW places \in SUBSET (1..m), \A i \in places : s[i] \in S
  PROVE  Picked(s, places) \in Seq(S)
<1> DEFINE c == Cardinality(places)
           UpTo(i) == {j \in places : j <= i}
           rank == [i \in places |-> Cardinality(UpTo(i))]
<1>1. IsFiniteSet(1..m)
  BY FS_Interval
<1>2. IsFiniteSet(places) /\ c \in Nat
  BY <1>1, FS_Subset, FS_CardinalityType
<1>3. ASSUME NEW i \in places
      PROVE  /\ UpTo(i) \in SUBSET places /\ IsFiniteSet(UpTo(i))
             /\ Cardinality(UpTo(i)) \in 1..c
  <2>1. UpTo(i) \in SUBSET places /\ i \in UpTo(i)
    OBVIOUS
  <2> HIDE DEF UpTo
  <2>2. IsFiniteSet(UpTo(i)) /\ Cardinality(UpTo(i)) \in Nat /\ Cardinality(UpTo(i)) <= c
    BY <1>2, <2>1, FS_Subset, FS_CardinalityType
  <2>3. Cardinality(UpTo(i)) # 0
    BY <2>1, <2>2, FS_EmptySet
  <2> QED
    BY <1>2, <2>1, <2>2, <2>3
<1>4. ASSUME NEW i \in places, NEW j \in places, i < j
      PROVE  Cardinality(UpTo(i)) # Cardinality(UpTo(j))
  <2>0. i \in Nat /\ j \in Nat /\ \A h \in places : h \in Nat
    OBVIOUS
  <2>1. j \in UpTo(j) /\ j \notin UpTo(i)
    BY <1>4, <2>0
  <2>2. \A h \in UpTo(i) : h \in UpTo(j)
    BY <1>4, <2>0
  <2>3. UpTo(i) \in SUBSET UpTo(j)
    BY <2>2
  <2> HIDE DEF UpTo
  <2> QED
    BY <1>3, <2>1, <2>3, FS_Subset
<1> HIDE DEF UpTo
<1>5. rank \in Injection(places, 1..c)
  <2>1. rank \in [places -> 1..c]
    BY <1>3
  <2>2. ASSUME NEW i \in places, NEW j \in places, rank[i] = rank[j] PROVE i = j
    <3>1. i \in Nat /\ j \in Nat /\ ~(i < j) /\ ~(j < i)
      BY <1>4, <2>2
    <3> QED
      BY <3>1
  <2> HIDE DEF rank
  <2> QED
    BY <2>1, <2>2 DEF Injection, IsInjective
<1>6. rank \in Surjection(places, 1..c)
  <2>1. PICK n \in Nat : n = c
    BY <1>2
  <2>2. IsFiniteSet(1..n) /\ Cardinality(1..n) = IF 1 > n THEN 0 ELSE n - 1 + 1
    BY FS_Interval
  <2>3. Cardinality(1..c) = c
    BY <2>1, <2>2
  <2> HIDE DEF rank
  <2> QED
    BY <1>5, <2>1, <2>2, <2>3, FS_Injection
<1>7. ASSUME NEW n \in 1..c PROVE \E i \in places : Cardinality(UpTo(i)) = n
  <2>1. PICK i \in places : rank[i] = n
    BY <1>6 DEF Surjection
  <2> QED
    BY <2>1
<1>8. ASSUME NEW n \in 1..c
      PROVE  s[CHOOSE i \in places : Cardinality({j \in places : j <= i}) = n] \in S
  BY <1>7 DEF UpTo
<1>9. Picked(s, places) = [n \in 1..c |-> s[CHOOSE i \in places : Cardinality({j \in places : j <= i}) = n]]
  BY DEF Picked
<1> HIDE DEF c
<1>10. Picked(s, places) \in [1..c -> S]
  BY <1>8, <1>9
<1> QED
  BY <1>2, <1>10

\* A track that update has not yet looked at: it may be one frame too old.
Aged == [at : Positions, prev : Positions \cup {None}, first : Positions,
         lastOutside : Positions, inside : BOOLEAN, seenOutside : BOOLEAN,
         streak : 0..Longest, triggered : BOOLEAN, age : 0..(MaxAge + 1)]

LEMMA Constants ==
  /\ MaxAge \in Nat /\ MaxTime \in Nat /\ MaxFrames \in Nat
  /\ Positions \subseteq Nat /\ Frames \subseteq Seq(Positions)
BY DetectorAssumption DEF DetectorAssumption

LEMMA AgedTracks ==
  /\ \A t \in Track, p \in Positions : Matched(t, p) \in Aged
  /\ \A t \in Track : Missed(t) \in Aged
  /\ \A p \in Positions : NewTrack(p) \in Aged
  /\ \A t \in Aged : ~Dropped(t) => t \in Track
<1>1. ASSUME NEW t \in Track, NEW p \in Positions PROVE Matched(t, p) \in Aged
  <2>1. PICK a \in Positions : a = t.at
    BY DEF Track
  <2>2. [t EXCEPT !.prev = a, !.at = p, !.age = 0] \in Aged
    <3>1. 0 \in 0..(MaxAge + 1)
      BY Constants
    <3> QED
      BY <3>1 DEF Track, Aged
  <2> QED
    BY <2>1, <2>2 DEF Matched
<1>2. ASSUME NEW t \in Track PROVE Missed(t) \in Aged
  BY Constants DEF Missed, Track, Aged
<1>3. ASSUME NEW p \in Positions PROVE NewTrack(p) \in Aged
  BY Constants DEF NewTrack, Aged, Longest
<1>4. ASSUME NEW t \in Aged, ~Dropped(t) PROVE t \in Track
  BY <1>4, Constants DEF Dropped, Stale, Track, Aged
<1> QED
  BY <1>1, <1>2, <1>3, <1>4

LEMMA JudgedTrack == \A t \in Track : Judge(t) \in Track
<1> SUFFICES ASSUME NEW t \in Track PROVE Judge(t) \in Track
  OBVIOUS
<1>1. CASE t.at >= Border
  <2> DEFINE n == IF ~t.inside THEN 1 ELSE IF t.streak < Longest THEN t.streak + 1 ELSE t.streak
  <2>1. n \in 0..Longest
    BY DEF Track, Longest
  <2>2. Judge(t) = [t EXCEPT !.streak = n, !.inside = TRUE]
    BY <1>1 DEF Judge
  <2> HIDE DEF n
  <2> QED
    BY <2>1, <2>2 DEF Track
<1>2. CASE ~(t.at >= Border)
  <2>1. PICK a \in Positions : a = t.at
    BY DEF Track
  <2>0. 0 \in 0..Longest
    BY DEF Longest
  <2>2. [t EXCEPT !.streak = 0, !.seenOutside = TRUE, !.triggered = FALSE,
                  !.lastOutside = a, !.inside = FALSE] \in Track
    BY <2>0 DEF Track
  <2> QED
    BY <1>2, <2>1, <2>2 DEF Judge
<1> QED
  BY <1>1, <1>2

\* update makes tracks of tracks.
LEMMA UpdateType ==
  ASSUME NEW ts \in Seq(Track), NEW frame \in Seq(Positions)
  PROVE  Update(ts, frame) \in Seq(Track)
<1> DEFINE taken == Assigned(ts, frame)
           moved == [i \in DOMAIN ts |->
                       IF \E d \in DOMAIN frame : <<i, d>> \in taken
                       THEN Matched(ts[i], frame[CHOOSE d \in DOMAIN frame : <<i, d>> \in taken])
                       ELSE Missed(ts[i])]
           unused == {d \in DOMAIN frame : ~\E i \in DOMAIN ts : <<i, d>> \in taken}
           new == Picked(frame, unused)
           fresh == [k \in DOMAIN new |-> NewTrack(new[k])]
           all == moved \o fresh
           kept == {i \in DOMAIN all : ~Dropped(all[i])}
<1>1. /\ Len(ts) \in Nat /\ DOMAIN ts = 1..Len(ts) /\ \A i \in 1..Len(ts) : ts[i] \in Track
      /\ Len(frame) \in Nat /\ DOMAIN frame = 1..Len(frame)
      /\ \A d \in 1..Len(frame) : frame[d] \in Positions
  OBVIOUS
<1> HIDE DEF taken
<1>2. moved \in Seq(Aged)
  <2>1. ASSUME NEW i \in 1..Len(ts) PROVE moved[i] \in Aged
    <3>1. CASE \E d \in DOMAIN frame : <<i, d>> \in taken
      <4>1. (CHOOSE d \in DOMAIN frame : <<i, d>> \in taken) \in DOMAIN frame
        BY <3>1
      <4>2. frame[CHOOSE d \in DOMAIN frame : <<i, d>> \in taken] \in Positions
        BY <1>1, <4>1
      <4>3. moved[i] = Matched(ts[i], frame[CHOOSE d \in DOMAIN frame : <<i, d>> \in taken])
        BY <1>1, <3>1
      <4> QED
        BY <1>1, <4>2, <4>3, AgedTracks
    <3>2. CASE ~\E d \in DOMAIN frame : <<i, d>> \in taken
      <4>1. moved[i] = Missed(ts[i])
        BY <1>1, <3>2
      <4> QED
        BY <1>1, <4>1, AgedTracks
    <3> QED
      BY <3>1, <3>2
  <2>2. moved = [i \in 1..Len(ts) |-> moved[i]]
    BY <1>1
  <2> HIDE DEF moved
  <2>3. moved \in [1..Len(ts) -> Aged]
    BY <2>1, <2>2
  <2> QED
    BY <1>1, <2>3
<1>3. new \in Seq(Positions)
  <2>1. unused \in SUBSET (1..Len(frame))
    BY <1>1
  <2> HIDE DEF unused
  <2> QED
    BY <1>1, <2>1, PickedFrom
<1> HIDE DEF moved, new
<1>4. fresh \in Seq(Aged)
  <2>1. Len(new) \in Nat /\ DOMAIN new = 1..Len(new) /\ \A k \in 1..Len(new) : new[k] \in Positions
    BY <1>3
  <2>2. fresh \in [1..Len(new) -> Aged]
    BY <2>1, AgedTracks
  <2> QED
    BY <2>1, <2>2
<1> HIDE DEF fresh
<1>5. all \in Seq(Aged)
  BY <1>2, <1>4, ConcatProperties
<1> HIDE DEF all
<1>6. Len(all) \in Nat /\ DOMAIN all = 1..Len(all) /\ \A i \in 1..Len(all) : all[i] \in Aged
  BY <1>5
<1>7. kept \in SUBSET (1..Len(all)) /\ \A i \in kept : all[i] \in Track
  BY <1>6, AgedTracks
<1> HIDE DEF kept
<1>8. Picked(all, kept) \in Seq(Track)
  BY <1>6, <1>7, PickedFrom
<1> QED
  BY <1>8 DEF Update, taken, moved, new, fresh, all, kept
-----------------------------------------------------------------------------
LEMMA TypeInit == Init => TypeOK
<1> SUFFICES ASSUME Init PROVE TypeOK
  OBVIOUS
<1>1. {} \in Offers /\ LongAgo \in {LongAgo} \cup 0..MaxTime /\ 0 \in 0..MaxTime /\ 0 \in 0..MaxFrames
  BY Constants DEF Offers
<1>2. <<>> \in Seq(Track) /\ <<>> \in Seq(Event) /\ Len(<<>>) <= 1
  OBVIOUS
<1> QED
  BY <1>1, <1>2 DEF Init, TypeOK

\* The tracks and the frame that update is called with
LEMMA UpdateArguments ==
  ASSUME TypeOK, NEW w \in Workers
  PROVE  tracks[w] \in Seq(Track) /\ seen[w] \in Seq(Positions)
<1>1. tracks[w] \in Seq(Track) /\ seen[w] \in Frames \cup {<<>>}
  BY DEF TypeOK
<1>2. \A frame \in Frames \cup {<<>>} : frame \in Seq(Positions)
  <2>1. <<>> \in Seq(Positions)
    OBVIOUS
  <2>2. \A frame \in Frames : frame \in Seq(Positions)
    BY Constants, Zenon
  <2> QED
    BY <2>1, <2>2, Zenon
<1> QED
  BY <1>1, <1>2, Zenon

LEMMA TypeStep ==
  ASSUME TypeOK, [Next]_vars
  PROVE  TypeOK'
<1>1. CASE RunLoop
  <2>1. /\ now' = now /\ cfg' = cfg /\ seen' = seen /\ tracks' = tracks /\ lastTrigger' = lastTrigger
        /\ alert' = alert /\ events' = events /\ frames' = frames
    BY <1>1 DEF RunLoop, worker
  <2>2. PICK items \in Offers : SyncActive(items) \/ SyncRemoved(items)
    BY <1>1 DEF RunLoop
  <2>3. /\ active' \in Workers \cup {None}
        /\ config' \in [Workers -> Offers]
        /\ stopped' \subseteq Workers
        /\ pc' \in [Workers -> {"unborn", "loop", "frame", "post", "end"}]
    BY <2>2, ZenonT(40) DEF TypeOK, SyncActive, SyncRemoved, Unborn, StopRemoved, StopActive
  <2> QED
    BY <2>1, <2>3 DEF TypeOK
<1>2. CASE Tick
  <2>1. now' \in 0..MaxTime
    BY <1>2, Constants DEF Tick, TypeOK
  <2> QED
    BY <1>2, <2>1 DEF Tick, TypeOK, manager, worker
<1>3. ASSUME NEW w \in Workers, GrabFrame(w) PROVE TypeOK'
  <2>1. UNCHANGED <<now, active, config, stopped, tracks, lastTrigger, alert, events>>
    BY <1>3 DEF GrabFrame, manager
  <2>2. /\ cfg' \in [Workers -> Offers]
        /\ seen' \in [Workers -> Frames \cup {<<>>}]
        /\ pc' \in [Workers -> {"unborn", "loop", "frame", "post", "end"}]
    BY <1>3 DEF GrabFrame, Goto, TypeOK
  <2>3. frames' \in 0..MaxFrames
    BY <1>3, Constants DEF GrabFrame, TypeOK
  <2> QED
    BY <2>1, <2>2, <2>3 DEF TypeOK
<1>4. ASSUME NEW w \in Workers, End(w) \/ Die(w) PROVE TypeOK'
  <2>1. UNCHANGED <<now, active, config, stopped, tracks, lastTrigger, events, frames>>
    BY <1>4 DEF End, Die, manager, worker
  <2>3. alert' \in [Workers -> Seq(Event)] /\ \A v \in Workers : Len(alert'[v]) <= 1
    <3>1. CASE alert' = alert
      BY <3>1 DEF TypeOK
    <3>2. CASE alert' = [alert EXCEPT ![w] = <<>>]
      <4>1. alert' \in [Workers -> Seq(Event)]
        BY <3>2 DEF TypeOK
      <4>2. \A v \in Workers : alert'[v] = IF v = w THEN <<>> ELSE alert[v]
        BY <3>2 DEF TypeOK
      <4> QED
        BY <4>1, <4>2 DEF TypeOK
    <3> QED
      BY <1>4, <3>1, <3>2 DEF End, Die, worker
  <2>2. /\ cfg' \in [Workers -> Offers]
        /\ seen' \in [Workers -> Frames \cup {<<>>}]
        /\ pc' \in [Workers -> {"unborn", "loop", "frame", "post", "end"}]
    BY <1>4 DEF End, Die, Goto, TypeOK, worker, Offers
  <2> QED
    BY <2>1, <2>2, <2>3 DEF TypeOK
<1>5. ASSUME NEW w \in Workers, ProcessFrame(w) PROVE TypeOK'
  <2>1. UNCHANGED <<now, active, config, stopped, events, frames>>
    BY <1>5 DEF ProcessFrame, manager
  <2>2. /\ cfg' \in [Workers -> Offers]
        /\ seen' \in [Workers -> Frames \cup {<<>>}]
    BY <1>5 DEF ProcessFrame, TypeOK, Offers
  <2> DEFINE new == Update(tracks[w], seen[w])
             judged == [i \in DOMAIN new |-> Judge(new[i])]
  <2>3. PICK c \in cfg[w] : Outcome(w, c, judged)
    BY <1>5 DEF ProcessFrame
  <2>4. new \in Seq(Track)
    <3>1. tracks[w] \in Seq(Track) /\ seen[w] \in Seq(Positions)
      BY UpdateArguments
    <3> QED
      BY <3>1, UpdateType
  <2> HIDE DEF new
  <2>5. judged \in Seq(Track)
    <3>1. Len(new) \in Nat /\ DOMAIN new = 1..Len(new) /\ \A i \in 1..Len(new) : new[i] \in Track
      BY <2>4
    <3>2. judged \in [1..Len(new) -> Track]
      BY <3>1, JudgedTrack
    <3> QED
      BY <3>1, <3>2
  <2> HIDE DEF judged
  <2>6. c \in Configs
    <3>1. cfg[w] \in Offers
      BY DEF TypeOK
    <3> QED
      BY <3>1 DEF Offers
  <2>7. CASE /\ tracks' = [tracks EXCEPT ![w] = judged]
             /\ Goto(w, "loop")
             /\ UNCHANGED <<lastTrigger, alert>>
    <3>1. tracks' \in [Workers -> Seq(Track)]
      BY <2>5, <2>7 DEF TypeOK
    <3>2. pc' \in [Workers -> {"unborn", "loop", "frame", "post", "end"}]
      BY <2>7 DEF TypeOK, Goto
    <3> QED
      BY <2>1, <2>2, <2>7, <3>1, <3>2 DEF TypeOK
  <2>8. ASSUME NEW i \in DOMAIN judged,
               tracks' = [tracks EXCEPT ![w] = [judged EXCEPT ![i].triggered = TRUE]],
               lastTrigger' = [lastTrigger EXCEPT ![w] = now],
               alert' = [alert EXCEPT ![w] = <<[worker |-> w, at |-> now, config |-> c,
                                                present |-> judged[i].age = 0,
                                                stopped |-> w \in stopped]>>],
               Goto(w, "post")
        PROVE  TypeOK'
    <3>1. PICK t \in Track : t = [judged[i] EXCEPT !.triggered = TRUE]
      <4>1. PICK u \in Track : u = judged[i]
        BY <2>5, <2>8
      <4>2. [u EXCEPT !.triggered = TRUE] \in Track
        BY DEF Track
      <4> QED
        BY <4>1, <4>2
    <3>2. [judged EXCEPT ![i].triggered = TRUE] = [judged EXCEPT ![i] = t]
      BY <3>1
    <3>3. [judged EXCEPT ![i] = t] \in Seq(Track)
      BY <2>5, <2>8
    <3>4. tracks' \in [Workers -> Seq(Track)]
      BY <2>8, <3>2, <3>3 DEF TypeOK
    <3> DEFINE e == [worker |-> w, at |-> now, config |-> c, present |-> judged[i].age = 0,
                     stopped |-> w \in stopped]
    <3>5. e \in Event
      BY <2>6 DEF Event, TypeOK
    <3>6. alert' = [alert EXCEPT ![w] = <<e>>]
      BY <2>8
    <3> HIDE DEF e
    <3>7. <<e>> \in Seq(Event) /\ Len(<<e>>) <= 1
      BY <3>5
    <3>8. alert' \in [Workers -> Seq(Event)] /\ \A v \in Workers : Len(alert'[v]) <= 1
      BY <3>6, <3>7 DEF TypeOK
    <3>9. /\ lastTrigger' \in [Workers -> {LongAgo} \cup 0..MaxTime]
          /\ pc' \in [Workers -> {"unborn", "loop", "frame", "post", "end"}]
      BY <2>8 DEF TypeOK, Goto
    <3> QED
      BY <2>1, <2>2, <3>4, <3>8, <3>9 DEF TypeOK
  <2> QED
    BY <2>3, <2>7, <2>8 DEF Outcome
<1>6. ASSUME NEW w \in Workers, SendEvent(w) PROVE TypeOK'
  <2>1. UNCHANGED <<now, active, config, stopped, cfg, seen, tracks, lastTrigger, frames>>
    BY <1>6 DEF SendEvent, manager
  <2>2. events' \in Seq(Event)
    <3>1. events \in Seq(Event) /\ alert[w] \in Seq(Event)
      BY DEF TypeOK
    <3>2. events' = events \o alert[w] \/ events' = events
      BY <1>6 DEF SendEvent
    <3> QED
      BY <3>1, <3>2, ConcatProperties
  <2>3. alert' \in [Workers -> Seq(Event)] /\ \A v \in Workers : Len(alert'[v]) <= 1
    <3>1. <<>> \in Seq(Event) /\ Len(<<>>) <= 1
      OBVIOUS
    <3> QED
      BY <1>6, <3>1 DEF SendEvent, TypeOK
  <2>4. pc' \in [Workers -> {"unborn", "loop", "frame", "post", "end"}]
    BY <1>6 DEF SendEvent, Goto, TypeOK
  <2> QED
    BY <2>1, <2>2, <2>3, <2>4 DEF TypeOK
<1>7. CASE UNCHANGED vars
  BY <1>7 DEF vars, manager, worker, TypeOK
<1> QED
  BY <1>1, <1>2, <1>3, <1>4, <1>5, <1>6, <1>7 DEF Next

(* Every variable of the detector keeps its type: the tracker, too, makes  *)
(* tracks of tracks, and no frame leaves one that is older than max_age.   *)
THEOREM TypeCorrect == Spec => []TypeOK
<1> QED
  BY TypeInit, TypeStep, PTL DEF Spec

(* In every frame the greedy loop of update ends in a stable matching of   *)
(* tracks and detections: none has two partners, and a near pair that was  *)
(* not taken lost its track or its detection to a pair that is as near.    *)
THEOREM StableAssignmentCorrect == Spec => []StableAssignment
<1>1. TypeOK => StableAssignment
  <2> SUFFICES ASSUME TypeOK, NEW w \in Workers
               PROVE  LET taken == Assigned(tracks[w], seen[w])
                          Far(p) == Distance(tracks[w][p[1]].at, seen[w][p[2]])
                      IN  /\ \A p, q \in taken : p # q => p[1] # q[1] /\ p[2] # q[2]
                          /\ \A p \in (DOMAIN tracks[w]) \X (DOMAIN seen[w]) :
                               Far(p) <= MaxDistance
                                 => \E q \in taken : (p[1] = q[1] \/ p[2] = q[2]) /\ Far(q) <= Far(p)
    BY DEF StableAssignment
  <2>1. PICK ts \in Seq(Track), frame \in Seq(Positions) : ts = tracks[w] /\ frame = seen[w]
    BY UpdateArguments
  <2>2. Placed(ts, frame)
    <3>1. DOMAIN ts \subseteq Nat /\ Len(frame) \in Nat /\ DOMAIN frame = 1..Len(frame)
      OBVIOUS
    <3>2. \A i \in DOMAIN ts : ts[i] \in Track
      OBVIOUS
    <3>3. \A t \in Track : t.at \in Nat
      BY Constants DEF Track
    <3>4. \A d \in DOMAIN frame : frame[d] \in Nat
      <4>1. \A d \in DOMAIN frame : frame[d] \in Positions
        OBVIOUS
      <4>2. \A p \in Positions : p \in Nat
        BY Constants, Zenon
      <4> QED
        BY <4>1, <4>2, Zenon
    <3> QED
      BY <3>1, <3>2, <3>3, <3>4 DEF Placed
  <2> DEFINE taken == Assigned(ts, frame)
  <2>3. /\ taken \subseteq Pairs(ts, frame)
        /\ Matching(taken)
        /\ \A p \in Pairs(ts, frame) :
             \E q \in taken : Clash(p, q) /\ Gap(ts, frame, q) <= Gap(ts, frame, p)
    BY <2>2, AssignedIsStable
  <2> HIDE DEF taken
  <2>4. \A p, q \in taken : p # q => p[1] # q[1] /\ p[2] # q[2]
    BY <2>3 DEF Matching, Clash
  <2>5. ASSUME NEW p \in (DOMAIN ts) \X (DOMAIN frame), Gap(ts, frame, p) <= MaxDistance
        PROVE  \E q \in taken : (p[1] = q[1] \/ p[2] = q[2]) /\ Gap(ts, frame, q) <= Gap(ts, frame, p)
    <3>1. p \in Pairs(ts, frame)
      BY <2>5 DEF Pairs
    <3> QED
      BY <2>3, <3>1 DEF Clash
  <2> QED
    BY <2>1, <2>4, <2>5 DEF taken, Gap
<1> QED
  BY <1>1, TypeCorrect, PTL
===========================================================================
