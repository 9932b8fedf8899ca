--------------------------- MODULE ShareManager ---------------------------
(* Shared videos: the share table of shareManager.go, the HTTP calls of    *)
(* apiHTTPShare.go that work on it, and the watch page (share_watch.tmpl)  *)
(* that holds a viewer session and renews it by a heartbeat.               *)
(*                                                                         *)
(* Every method of ShareManager holds its mutex from beginning to end: one *)
(* action each.  Ids are random, so that an id is never given out twice.   *)
(* Time is relative: `left' counts down to the expiry of a share, `idle'   *)
(* counts up from the last sign of life of a viewer, and both saturate     *)
(* where no comparison of the code can tell the difference.                *)
EXTENDS Integers, FiniteSets

CONSTANTS
  Shares,      \* share ids
  ViewerIds,   \* viewer ids
  IdleLimit,   \* 45 s: a session idle for longer is cleaned up
  SweepPeriod, \* 15 s: the ticker of cleanupLoop
  Minutes,     \* lifetimes the administrator asks for
  Limits,      \* connection limits the administrator asks for
  DefaultMinutes, DefaultLimit   \* ServerShare()

ASSUME ShareAssumption ==
  /\ Shares # {}
  /\ IdleLimit \in Nat /\ SweepPeriod \in Nat \ {0}
  /\ Minutes \subseteq Int /\ Limits \subseteq Int
  /\ DefaultMinutes \in Int /\ DefaultLimit \in Int

VARIABLES
  created,   \* ids given out by Create
  stored,    \* keys of the shares map
  revoked,   \* entries with Revoked set
  left,      \* time until ExpiresAt; negative once it has passed
  max,       \* MaxConnections
  sessions,  \* keys of ViewerSessions
  idle,      \* time since LastSeen
  issued,    \* viewer ids given out
  of,        \* the share a viewer id belongs to
  page,      \* the watch page of that viewer id
  served,    \* viewers with an open media connection (MSE, WebRTC)
  due        \* time until the ticker of cleanupLoop fires

table == <<created, stored, revoked, left, max, sessions>>
pages == <<issued, of, page>>
vars == <<table, idle, pages, served, due>>

\* A request is taken as it is when it makes sense, else the default, else a constant.
EffectiveLimit(n) ==
  IF n \in 1..5 THEN n ELSE IF DefaultLimit \in 1..5 THEN DefaultLimit ELSE 1
EffectiveMinutes(n) ==
  IF n > 0 THEN n ELSE IF DefaultMinutes > 0 THEN DefaultMinutes ELSE 60

Expired(s) == left[s] < 0
Usable(s) == s \in stored /\ s \notin revoked /\ ~Expired(s)

\* cleanupShareSessions
StalestKept(s) == sessions[s]  \* mutant: the sessions are not cleaned up
FreshAtLimit(s) == {v \in sessions[s] : idle[v] < IdleLimit}  \* mutant: >= instead of >
Fresh(s) == {v \in sessions[s] : idle[v] <= IdleLimit}

TypeOK ==
  /\ created \subseteq Shares
  /\ stored \subseteq created
  /\ revoked \subseteq stored
  /\ left \in [Shares -> Int]
  /\ max \in [Shares -> 0..5]
  /\ \A s \in created : max[s] > 0
  /\ sessions \in [Shares -> SUBSET issued]
  /\ \A s \in Shares \ stored : sessions[s] = {}
  /\ idle \in [ViewerIds -> 0..IdleLimit + SweepPeriod + 1]
  /\ issued \subseteq ViewerIds
  /\ of \in [ViewerIds -> Shares]
  /\ \A s \in Shares : \A v \in sessions[s] : of[v] = s
  /\ page \in [ViewerIds -> {"none", "watching", "paused", "closed"}]
  /\ served \subseteq issued
  /\ due \in 0..SweepPeriod
-----------------------------------------------------------------------------
SetSessions(s, S) == sessions' = [sessions EXCEPT ![s] = S]
Seen(v) == idle' = [idle EXCEPT ![v] = 0]

\* delete(obj.shares, id)
Forget(S) ==
  /\ stored' = stored \ S
  /\ revoked' = revoked \ S

Create(s, minutes, limit) ==
  /\ s \notin created
  /\ created' = created \cup {s}
  /\ stored' = stored \cup {s}
  /\ left' = [left EXCEPT ![s] = EffectiveMinutes(minutes)]
  /\ max' = [max EXCEPT ![s] = EffectiveLimit(limit)]
  /\ UNCHANGED <<revoked, sessions, idle, pages, served, due>>

\* Get, StartViewer and ValidateAccessToken delete a share they find expired; so does
\* Heartbeat, below.
FindExpired(s) ==
  /\ s \in stored \ revoked /\ Expired(s)
  /\ Forget({s})
  /\ SetSessions(s, {})
  /\ UNCHANGED <<created, left, max, idle, pages, served, due>>

\* Get (the watch page is loaded) and Status (asked by the administrator)
CleanUp(s) ==
  /\ s \in stored
  /\ SetSessions(s, Fresh(s))
  /\ UNCHANGED <<created, stored, revoked, left, max, idle, pages, served, due>>

\* The watch page has the password in its link.  The cleanup stays when there is no room.
OneTooMany(s) == Cardinality(Fresh(s)) > max[s]  \* mutant: > instead of >=
NoRoom(s) == Cardinality(Fresh(s)) >= max[s]
StartViewer(s, v) ==
  /\ v \notin issued /\ Usable(s)
  /\ IF NoRoom(s)
     THEN SetSessions(s, Fresh(s)) /\ UNCHANGED <<idle, pages>>
     ELSE /\ SetSessions(s, Fresh(s) \cup {v})
          /\ Seen(v)
          /\ issued' = issued \cup {v}
          /\ of' = [of EXCEPT ![v] = s]
          /\ page' = [page EXCEPT ![v] = "watching"]
  /\ UNCHANGED <<created, stored, revoked, left, max, served, due>>

\* Every 15 s, or later when the browser or the network delays it.  There is no cleanup
\* here: a session idle for too long that is still there is fresh again.  The page pauses
\* its player on any error, and sends no more heartbeats; its media connection stays open.
Pauses(v) == page' = [page EXCEPT ![v] = "paused"]
Heartbeat(v) ==
  LET s == of[v]
  IN /\ page[v] = "watching"
     /\ \/ Usable(s) /\ v \in sessions[s] /\ Seen(v) /\ UNCHANGED <<table, page>>
        \/ Usable(s) /\ v \notin sessions[s] /\ Pauses(v) /\ UNCHANGED <<table, idle>>
        \/ s \notin stored \ revoked /\ Pauses(v) /\ UNCHANGED <<table, idle>>
        \/ /\ s \in stored \ revoked /\ Expired(s)
           /\ Forget({s}) /\ SetSessions(s, {}) /\ Pauses(v)
           /\ UNCHANGED <<created, left, max, idle>>
     /\ UNCHANGED <<issued, of, served, due>>

HeartbeatLost(v) ==
  /\ page[v] = "watching"
  /\ Pauses(v)
  /\ UNCHANGED <<table, idle, issued, of, served, due>>

\* AuthorizeStreamAccess with a share token, when a player opens a media connection or
\* asks for an HLS file.  A connection once open is not looked at again.
ValidateAccessToken(v) ==
  /\ page[v] \in {"watching", "paused"} /\ Usable(of[v])
  /\ SetSessions(of[v], Fresh(of[v]))
  /\ IF v \in Fresh(of[v])
     THEN Seen(v) /\ served' \in {served, served \cup {v}}
     ELSE UNCHANGED <<idle, served>>
  /\ UNCHANGED <<created, stored, revoked, left, max, pages, due>>

\* A media connection ends: the source is lost, or the player changes the protocol.
Disconnect(v) ==
  /\ v \in served
  /\ served' = served \ {v}
  /\ UNCHANGED <<table, idle, pages, due>>

\* The page goes away, and its call of StopViewer arrives, or not.
StopViewer(v) ==
  /\ SetSessions(of[v], sessions[of[v]] \ {v})
  /\ UNCHANGED <<created, stored, revoked, left, max>>

ClosePage(v) ==
  /\ page[v] \in {"watching", "paused"}
  /\ StopViewer(v) \/ UNCHANGED table
  /\ page' = [page EXCEPT ![v] = "closed"]
  /\ served' = served \ {v}
  /\ UNCHANGED <<idle, issued, of, due>>

RevokeKeepsSessions(s) == sessions[s]  \* mutant: the sessions stay
RevokedSessions(s) == {}
Revoke(s) ==
  /\ s \in stored
  /\ revoked' = revoked \cup {s}
  /\ SetSessions(s, RevokedSessions(s))
  /\ UNCHANGED <<created, stored, left, max, idle, pages, served, due>>

\* One round of cleanupLoop
SweepUnrevoked == {s \in stored \ revoked : Expired(s)}  \* mutant: revoked shares are skipped
SweepExpired == {s \in stored : Expired(s)}
Sweep ==
  /\ due = 0
  /\ due' = SweepPeriod
  /\ Forget(SweepExpired)
  /\ sessions' = [s \in Shares |-> IF s \in stored \ SweepExpired THEN Fresh(s) ELSE {}]
  /\ UNCHANGED <<created, left, max, idle, pages, served>>

\* Time passes, not beyond the moment when the ticker fires.
Tick ==
  /\ due > 0
  /\ due' = due - 1
  /\ left' = [s \in Shares |-> IF s \in stored /\ left[s] > -(SweepPeriod + 1)
                               THEN left[s] - 1 ELSE left[s]]
  /\ idle' = [v \in ViewerIds |-> IF v \in issued /\ idle[v] <= IdleLimit + SweepPeriod
                                  THEN idle[v] + 1 ELSE idle[v]]
  /\ UNCHANGED <<created, stored, revoked, max, sessions, pages, served>>

Init ==
  /\ created = {} /\ stored = {} /\ revoked = {}
  /\ left = [s \in Shares |-> 0]
  /\ max = [s \in Shares |-> 0]
  /\ sessions = [s \in Shares |-> {}]
  /\ idle = [v \in ViewerIds |-> 0]
  /\ issued = {} /\ served = {}
  /\ of = [v \in ViewerIds |-> CHOOSE s \in Shares : TRUE]
  /\ page = [v \in ViewerIds |-> "none"]
  /\ due = SweepPeriod

Next ==
  \/ \E s \in Shares :
       \/ \E minutes \in Minutes, limit \in Limits : Create(s, minutes, limit)
       \/ FindExpired(s) \/ CleanUp(s) \/ Revoke(s)
       \/ \E v \in ViewerIds : StartViewer(s, v)
  \/ \E v \in ViewerIds :
       \/ Heartbeat(v) \/ HeartbeatLost(v)
       \/ ValidateAccessToken(v) \/ Disconnect(v)
       \/ ClosePage(v)
  \/ Sweep
  \/ Tick

Spec == Init /\ [][Next]_vars
-----------------------------------------------------------------------------
\* Never more sessions than the share allows, however starts, late heartbeats, cleanups and
\* stops follow each other; a heartbeat that comes after 45 s revives only a session that
\* nobody has taken the place of.
WithinLimit ==
  \A s \in Shares : IsFiniteSet(sessions[s]) /\ Cardinality(sessions[s]) <= max[s]

\* A revoked share has no sessions, and no call gives it one.
RevokedEmpty == \A s \in revoked : sessions[s] = {}

\* The place of a viewer who is not heard of any more is free again after 60 s at the
\* latest: the 45 s of the cleanup and one period of its ticker.
NoStaleSlot ==
  \A s \in stored : \A v \in sessions[s] : idle[v] <= IdleLimit + SweepPeriod

\* An expired share is forgotten within one period, revoked or not, asked for or not.
ForgottenInTime == \A s \in stored : left[s] >= -SweepPeriod

\* A session ends only for a reason: the viewer was silent for more than 45 s, closed the
\* page, or the share was revoked or expired.
SlotKept ==
  [][\A s \in Shares : \A v \in sessions[s] \ sessions'[s] :
        idle[v] > IdleLimit \/ page'[v] = "closed" \/ s \in revoked' \/ Expired(s)]_vars

LeaseLife == [s \in Shares |-> IF s \notin created THEN "new"
                               ELSE IF s \notin stored THEN "gone"
                               ELSE IF s \in revoked THEN "revoked" ELSE "open"]
Lease == INSTANCE ShareLease WITH life <- LeaseLife, limit <- max, holders <- sessions

\* The share table implements the lease: whatever requests and clocks do to it, a share
\* goes from open to revoked to gone and never back, its limit never changes, and only a
\* start of a viewer on an open share that has room adds a holder.
ImplementsLease == Lease!LeaseSpec

\* "Max View Connections" (web/static/js/i18n.js:257), taken for what it says: no more media
\* connections than the share allows.  A page that loses one heartbeat keeps its connection
\* and loses its session, and the next viewer gets its place.
MaxViewConnections ==
  \A s \in Shares : Cardinality({v \in served : of[v] = s}) <= max[s]
=============================================================================
