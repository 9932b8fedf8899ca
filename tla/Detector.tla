----------------------------- MODULE Detector -----------------------------
(* The detection service, services/detector/app.py, for one channel: the   *)
(* DetectorManager that polls CamLink for the configuration and starts,    *)
(* updates and stops DetectorWorkers; the thread of a worker, that grabs a *)
(* frame, tracks what is in it and posts an event when a vehicle enters;   *)
(* and the handlers of apiHTTPDetection.go it talks to.                    *)
(*                                                                         *)
(* A picture is a line of positions: what is at Border or beyond it is in  *)
(* the polygon, the entry line is a position, and "left_to_right" is up.   *)
(* What the model YOLO sees in a frame is external: any member of Frames.  *)
EXTENDS Integers, Sequences, FiniteSets

CONSTANTS
  Workers,      \* threads, numbered in the order they start in
  Configs,      \* what a user may save for the channel
  Positions,    \* where a centroid can be
  Frames,       \* what may be detected in one frame: sequences of positions
  Border,       \* the polygon
  MaxDistance,  \* max_distance: how far a track may move between two frames
  MaxAge,       \* max_age: frames that a track survives unseen
  MaxFrames,    \* bound: frames that all the workers grab
  MaxTime       \* bound: seconds

None == -1
NoLine == -1

\* What HTTPAPIUpdateDetectionConfig accepts
Settings == [frames : 1..10, cooldown : 1..3600, minMove : 0..1000,
             direction : {"any", "up", "down"}, line : Int]

ASSUME DetectorAssumption ==
  /\ Workers \subseteq Nat /\ None \notin Workers
  /\ Configs \subseteq Settings
  /\ Positions \subseteq Nat /\ Frames \subseteq Seq(Positions)
  /\ {Border, MaxDistance, MaxAge, MaxFrames, MaxTime} \subseteq Nat

VARIABLES
  now,          \* seconds
  active,       \* the worker in manager.workers
  config,       \* the config of a worker, as a set
  stopped,      \* workers whose stop_event is set
  pc,           \* where each worker is
  cfg,          \* the config that this iteration of its loop uses
  seen,         \* what was detected in the frame
  tracks,       \* its tracker: tracks in the order of the dictionary
  lastTrigger,  \* its last_trigger_time
  alert,        \* the event that it posts, or <<>>.  History: if the track was in the frame, and
                \* if the worker had been stopped
  events,       \* history: the events stored
  frames        \* history: how many frames were grabbed

manager == <<active, config, stopped>>
worker == <<cfg, seen, tracks, lastTrigger, alert>>
vars == <<now, manager, pc, worker, events, frames>>

\* As of the Unix epoch: longer ago than any cooldown
LongAgo == -3600
Longest == 10   \* trigger_consecutive_frames is at most 10: a streak is not counted further

\* The list that CamLink answers with: the config of the channel, if it is enabled
Offers == {{}} \cup {{c} : c \in Configs}

Track == [at : Positions, prev : Positions \cup {None}, first : Positions,
          lastOutside : Positions, inside : BOOLEAN, seenOutside : BOOLEAN,
          streak : 0..Longest, triggered : BOOLEAN, age : 0..MaxAge]
Event == [worker : Workers, at : 0..MaxTime, config : Configs,
          present : BOOLEAN, stopped : BOOLEAN]

TypeOK ==
  /\ now \in 0..MaxTime
  /\ active \in Workers \cup {None}
  /\ config \in [Workers -> Offers]
  /\ stopped \subseteq Workers
  /\ pc \in [Workers -> {"unborn", "loop", "frame", "post", "end"}]
  /\ cfg \in [Workers -> Offers]
  /\ seen \in [Workers -> Frames \cup {<<>>}]
  /\ tracks \in [Workers -> Seq(Track)]
  /\ lastTrigger \in [Workers -> {LongAgo} \cup 0..MaxTime]
  /\ alert \in [Workers -> Seq(Event)] /\ \A w \in Workers : Len(alert[w]) <= 1
  /\ events \in Seq(Event)
  /\ frames \in 0..MaxFrames
-----------------------------------------------------------------------------
(* SimpleTracker *)

Distance(p, q) == IF p < q THEN q - p ELSE p - q

Clash(p, q) == p[1] = q[1] \/ p[2] = q[2]
ClashOfTracks(p, q) == p[1] = q[1]  \* mutant: used_dets is forgotten
Excludes(p, q) == Clash(p, q)

\* The pairs of a track and a detection that are near each other, the nearest first, ties in
\* the order in which they are built
Gap(ts, frame, p) == Distance(ts[p[1]].at, frame[p[2]])
Pairs(ts, frame) == {p \in (DOMAIN ts) \X (DOMAIN frame) : Gap(ts, frame, p) <= MaxDistance}
Before(ts, frame, p, q) ==
  LET g == Gap(ts, frame, p)
      h == Gap(ts, frame, q)
  IN  g < h \/ (g = h /\ (p[1] < q[1] \/ (p[1] = q[1] /\ p[2] < q[2])))

\* A pair is assigned unless its track or its detection is.
Free(ts, frame, taken) == {p \in Pairs(ts, frame) : ~\E q \in taken : Excludes(p, q)}
OneMore(ts, frame, taken) ==
  LET free == Free(ts, frame, taken)
  IN  taken \cup {p \in free : \A q \in free : p = q \/ Before(ts, frame, p, q)}
Assigned(ts, frame) ==
  LET taken[k \in 0..Len(frame)] == IF k = 0 THEN {} ELSE OneMore(ts, frame, taken[k - 1])
  IN  taken[Len(frame)]

NewTrack(p) == [at |-> p, prev |-> None, first |-> p, lastOutside |-> p, inside |-> FALSE,
                seenOutside |-> FALSE, streak |-> 0, triggered |-> FALSE, age |-> 0]

Matched(t, p) == [t EXCEPT !.prev = t.at, !.at = p, !.age = 0]
Missed(t) == [t EXCEPT !.age = @ + 1]

NeverStale(t) == FALSE  \* mutant: the last loop is missing
Stale(t) == t.age > MaxAge
Dropped(t) == Stale(t)

\* What is at some places of a list, in its order
Picked(s, places) ==
  [n \in 1..Cardinality(places) |->
     s[CHOOSE i \in places : Cardinality({j \in places : j <= i}) = n]]

\* update: move the tracks that were matched, age the others, add the new, drop the stale
Update(ts, frame) ==
  LET taken == Assigned(ts, frame)
      moved == [i \in DOMAIN ts |->
                  IF \E d \in DOMAIN frame : <<i, d>> \in taken
                  THEN Matched(ts[i], frame[CHOOSE d \in DOMAIN frame : <<i, d>> \in taken])
                  ELSE Missed(ts[i])]
      new == Picked(frame, {d \in DOMAIN frame : ~\E i \in DOMAIN ts : <<i, d>> \in taken})
      all == moved \o [k \in DOMAIN new |-> NewTrack(new[k])]
  IN  Picked(all, {i \in DOMAIN all : ~Dropped(all[i])})
-----------------------------------------------------------------------------
(* What the loop of run makes of a track *)

\* Every track that update returns is judged, also one that was not seen in this frame.
Judge(t) ==
  IF t.at >= Border
  THEN [t EXCEPT !.streak = IF ~t.inside THEN 1 ELSE IF @ < Longest THEN @ + 1 ELSE @,
                 !.inside = TRUE]
  ELSE [t EXCEPT !.streak = 0, !.seenOutside = TRUE, !.triggered = FALSE,
                 !.lastOutside = t.at, !.inside = FALSE]

Displacement(c, t) ==
  IF c.minMove > 0 THEN t.at - (IF t.seenOutside THEN t.lastOutside ELSE t.first)
  ELSE IF t.prev # None THEN t.at - t.prev ELSE 0

MoveOk(c, t) == c.minMove > 0 =>
                  Distance(t.at, IF t.seenOutside THEN t.lastOutside ELSE t.first) >= c.minMove
DirectionOk(c, t) == CASE c.direction = "any" -> TRUE
                       [] c.direction = "up" -> Displacement(c, t) > 0
                       [] c.direction = "down" -> Displacement(c, t) < 0
LineCrossed(c, t) ==
  LET from == IF t.prev # None THEN t.prev ELSE t.lastOutside
  IN  \/ from <= c.line /\ c.line <= t.at
      \/ t.at <= c.line /\ c.line <= from
AllowFirstInside(c, t) == IF c.line = NoLine THEN c.direction = "any" ELSE t.prev # None

AtLeastOne(n) == IF n < 1 THEN 1 ELSE n
CoolEver(w, c) == TRUE  \* mutant: last_trigger_time is not looked at
Cool(w, c) == now - lastTrigger[w] >= AtLeastOne(c.cooldown)
Cooled(w, c) == Cool(w, c)

Triggers(w, c, t) ==
  /\ t.inside /\ ~t.triggered
  /\ c.line # NoLine => LineCrossed(c, t)
  /\ t.streak >= AtLeastOne(c.frames)
  /\ Cooled(w, c) /\ MoveOk(c, t) /\ DirectionOk(c, t)
  /\ t.seenOutside \/ AllowFirstInside(c, t)
-----------------------------------------------------------------------------
(* DetectorManager and CamLink *)

Unborn == {w \in Workers : pc[w] = "unborn"}

StopNone == stopped  \* mutant: deleted, but not stopped
StopActive == stopped \cup {active}
StopRemoved == StopActive

\* sync, for a list with the channel in it and for one without it
SyncActive(items) ==
  /\ items # {}
  /\ IF active = None
     THEN \E w \in Unborn :
            /\ \A v \in Unborn : w <= v
            /\ active' = w
            /\ config' = [config EXCEPT ![w] = items]
            /\ pc' = [pc EXCEPT ![w] = "loop"]
     ELSE /\ config' = [config EXCEPT ![active] = items]
          /\ UNCHANGED <<active, pc>>
  /\ UNCHANGED stopped
SyncRemoved(items) ==
  /\ items = {} /\ active # None
  /\ active' = None
  /\ stopped' = StopRemoved
  /\ UNCHANGED <<config, pc>>

\* One round of run_loop.  HTTPAPIDetectorConfig lists the channel if it is there and enabled, with
\* what HTTPAPIUpdateDetectionConfig accepted last.  An error gives the empty list, too: a CamLink
\* that restarts switches the detection off.
RunLoop ==
  /\ \E items \in Offers : SyncActive(items) \/ SyncRemoved(items)
  /\ UNCHANGED <<now, worker, events, frames>>
-----------------------------------------------------------------------------
(* DetectorWorker *)

Goto(w, place) == pc' = [pc EXCEPT ![w] = place]

NeverEnds(w) == FALSE  \* mutant: while True
StopIsSet(w) == w \in stopped
MustEnd(w) == StopIsSet(w)

\* The top of the loop.  A stream that cannot be opened or read is tried again: the worker stays here.
GrabFrame(w) ==
  /\ pc[w] = "loop" /\ ~MustEnd(w) /\ frames < MaxFrames
  /\ cfg' = [cfg EXCEPT ![w] = config[w]]
  /\ \E frame \in Frames : seen' = [seen EXCEPT ![w] = frame]
  /\ frames' = frames + 1
  /\ Goto(w, "frame")
  /\ UNCHANGED <<now, manager, tracks, lastTrigger, alert, events>>

End(w) ==
  /\ pc[w] = "loop" /\ MustEnd(w)
  /\ Goto(w, "end")
  /\ UNCHANGED <<now, manager, worker, events, frames>>

\* detect, and save_snapshot once the track has triggered, are called outside of any try: an exception
\* ends the thread, and nobody tells the manager, who goes on updating its config.
Die(w) ==
  /\ pc[w] \in {"frame", "post"}
  /\ Goto(w, "end")
  /\ cfg' = [cfg EXCEPT ![w] = {}]
  /\ seen' = [seen EXCEPT ![w] = <<>>]
  /\ alert' = [alert EXCEPT ![w] = <<>>]
  /\ UNCHANGED <<now, manager, tracks, lastTrigger, events, frames>>

\* The tracks of this frame.  One track triggers at most: after that the cooldown of at least 1 s
\* holds up the others, for `now' is read once before the loop.
Outcome(w, c, judged) ==
  LET ready == {i \in DOMAIN judged : Triggers(w, c, judged[i])}
  IN
  \/ /\ ready = {}
     /\ tracks' = [tracks EXCEPT ![w] = judged]
     /\ Goto(w, "loop")
     /\ UNCHANGED <<lastTrigger, alert>>
  \/ \E i \in ready :
       /\ \A j \in ready : i <= j
       /\ tracks' = [tracks EXCEPT ![w] = [judged EXCEPT ![i].triggered = TRUE]]
       /\ lastTrigger' = [lastTrigger EXCEPT ![w] = now]
       /\ alert' = [alert EXCEPT ![w] = <<[worker |-> w, at |-> now, config |-> c,
                                           present |-> judged[i].age = 0,
                                           stopped |-> w \in stopped]>>]
       /\ Goto(w, "post")
ProcessFrame(w) ==
  /\ pc[w] = "frame"
  /\ LET new == Update(tracks[w], seen[w])
         judged == [i \in DOMAIN new |-> Judge(new[i])]
     IN  \E c \in cfg[w] : Outcome(w, c, judged)
  /\ cfg' = [cfg EXCEPT ![w] = {}]
  /\ seen' = [seen EXCEPT ![w] = <<>>]
  /\ UNCHANGED <<now, manager, events, frames>>

\* send_event: one POST.  HTTPAPIDetectorEventIngest stores the event, or it is lost: a timeout, a
\* token that is not accepted, a stream that is gone, a database that is closed.
SendEvent(w) ==
  /\ pc[w] = "post"
  /\ events' \in {events \o alert[w], events}
  /\ alert' = [alert EXCEPT ![w] = <<>>]
  /\ Goto(w, "loop")
  /\ UNCHANGED <<now, manager, cfg, seen, tracks, lastTrigger, frames>>

Tick ==
  /\ now < MaxTime
  /\ now' = now + 1
  /\ UNCHANGED <<manager, pc, worker, events, frames>>

Init ==
  /\ now = 0
  /\ active = None
  /\ config = [w \in Workers |-> {}]
  /\ stopped = {}
  /\ pc = [w \in Workers |-> "unborn"]
  /\ cfg = [w \in Workers |-> {}]
  /\ seen = [w \in Workers |-> <<>>]
  /\ tracks = [w \in Workers |-> <<>>]
  /\ lastTrigger = [w \in Workers |-> LongAgo]
  /\ alert = [w \in Workers |-> <<>>]
  /\ events = <<>> /\ frames = 0

Next ==
  \/ RunLoop \/ Tick
  \/ \E w \in Workers : GrabFrame(w) \/ End(w) \/ Die(w) \/ ProcessFrame(w) \/ SendEvent(w)

Spec == Init /\ [][Next]_vars
-----------------------------------------------------------------------------
(* Two events of the channel are as far apart as the cooldown that was     *)
(* configured for the second, also when the configuration changed between  *)
(* them: last_trigger_time stays with the worker, the config does not.     *)
(* Only two workers can be closer, and then one of them was told to stop:  *)
(* the list came without the channel, or not at all, in between.           *)
WorkerCooldown ==
  \A i, j \in 1..Len(events) : i < j =>
    \/ events[j].at - events[i].at >= AtLeastOne(events[j].config.cooldown)
    \/ /\ events[i].worker # events[j].worker
       /\ {events[i].worker, events[j].worker} \cap stopped # {}

(* A thread that the manager has forgotten has been told to stop: sync     *)
(* never leaves two workers that go on watching the channel.               *)
OnlyActiveListens ==
  \A w \in Workers : pc[w] \notin {"unborn", "end"} /\ w \notin stopped => w = active

(* A worker finishes the frame it is in when it is stopped, and no other:  *)
(* one event at most is posted for a detection that was switched off.      *)
OneLastEvent ==
  \A i, j \in 1..Len(events) :
    events[i].worker = events[j].worker /\ events[i].stopped /\ events[j].stopped => i = j

(* The greedy assignment is a stable matching: no track and detection that *)
(* are near each other are both without a partner that is as near, and     *)
(* none has two.  Two vehicles never share a track, in any frame.          *)
StableAssignment ==
  \A w \in Workers : pc[w] = "frame" =>
    LET taken == Assigned(tracks[w], seen[w])
        Far(p) == Distance(tracks[w][p[1]].at, seen[w][p[2]])
    IN  /\ \A p, q \in taken : p # q => p[1] # q[1] /\ p[2] # q[2]
        /\ \A p \in (DOMAIN tracks[w]) \X (DOMAIN seen[w]) :
             Far(p) <= MaxDistance
               => \E q \in taken : (p[1] = q[1] \/ p[2] = q[2]) /\ Far(q) <= Far(p)

(* docs/vehicle-entry-detection-plan.zh-CN.md, 55: an alarm is given only  *)
(* when the vehicle is still in the region for at least two frames on end. *)
(* So it is there in the frame that triggers.                              *)
SeenWhenTriggered == \A i \in 1..Len(events) : events[i].present
===========================================================================
