----------------------------- MODULE MediaPlane -----------------------------
(* What a channel hands on of its camera: the segment window of classic    *)
(* HLS (storageStreamHLS.go), the codecs and the packet queues of its      *)
(* clients (storageStreamChannel.go), the sessions that fill them          *)
(* (streamCore.go), one request chain of an HLS player (apiHTTPHLS.go) and *)
(* the MSE handler of a viewer (apiHTTPMSE.go).                            *)
(*                                                                         *)
(* Sessions find the channel by its name.  Which workers serve a name, and *)
(* when there are two of them, is the matter of StreamLifecycle: here any  *)
(* worker may begin a session at any time.  A packet is a session, its     *)
(* number in it, and whether it is a key frame.                            *)
EXTENDS Integers, Sequences, FiniteSets

CONSTANTS
  Workers,      \* goroutines that run sessions on the channel's name
  Viewers,      \* MSE handlers
  Keep,         \* 5: segments in a playlist
  QueueCap,     \* 1000: packets waiting for a viewer
  MaxSessions,  \* bound: sessions
  MaxPackets,   \* bound: packets of a session
  MaxGen        \* bound: how often the channel is replaced

ASSUME MediaAssumption ==
  /\ Keep \in Nat \ {0} /\ QueueCap \in Nat \ {0}
  /\ MaxSessions \in Nat /\ MaxPackets \in Nat /\ MaxGen \in Nat

VARIABLES
  gen,      \* which incarnation of the channel the registry has
  segs,     \* hlsSegmentBuffer: number -> packet that ended the segment
  number,   \* hlsSegmentNumber
  seqno,    \* hlsSequence
  codecs,   \* the session that set codecs, 0 for nil
  run,      \* the session a worker is in, 0 for none
  waits,    \* workers whose WaitCodec is set
  keyed,    \* workers whose preKeyTS is set
  count,    \* packets a worker has got in its session
  nsess,    \* sessions so far
  mixed,    \* history: two sessions were on the name at once, or one had no codecs of its own
  clients,  \* viewers in the channel's clients
  queue,    \* outgoingAVPacket of a viewer
  vpc,      \* where its handler is
  vcodecs,  \* the codecs it told its player
  vstart,   \* viewers whose videoStart is set
  vlast,    \* history: the last packet it sent
  early,    \* history: viewers that had packets when codecs were set that they were not told yet
  renewed,  \* history: viewers for which codecs were set since they were told some
  lost,     \* history: viewers that were full when a packet came
  hpc,      \* where the HLS player is that is watched
  listed,   \* its playlist
  hseg,     \* the segment it asks for
  hcodecs,  \* the codecs with which that is packed
  hflushed, \* history: the window was flushed since it has the playlist
  hset      \* history: codecs were set since they were looked up for it

channel == <<gen, segs, number, seqno, codecs>>
sessions == <<run, waits, keyed, count, nsess, mixed>>
viewers == <<clients, queue, vpc, vcodecs, vstart, vlast, early, renewed, lost>>
player == <<hpc, listed, hseg, hcodecs, hflushed, hset>>
vars == <<channel, sessions, viewers, player>>

Sessions == 1..MaxSessions
Packets == [s : Sessions, n : 1..MaxPackets, key : BOOLEAN]
NoPacket == [s |-> 0, n |-> 0, key |-> FALSE]
Nothing == [n \in {} |-> NoPacket]
InSession == {w \in Workers : run[w] # 0}

TypeOK ==
  /\ gen \in 0..MaxGen
  /\ number \in Nat /\ seqno \in Nat
  /\ DOMAIN segs \subseteq 1..number /\ \A i \in DOMAIN segs : segs[i] \in Packets
  /\ codecs \in 0..nsess /\ nsess \in 0..MaxSessions
  /\ run \in [Workers -> 0..nsess] /\ count \in [Workers -> 0..MaxPackets]
  /\ waits \subseteq InSession /\ keyed \subseteq InSession
  /\ mixed \in BOOLEAN
  /\ clients \subseteq Viewers /\ vstart \subseteq Viewers
  /\ early \subseteq Viewers /\ renewed \subseteq Viewers /\ lost \subseteq Viewers
  /\ queue \in [Viewers -> Seq(Packets)]
  /\ \A v \in Viewers : Len(queue[v]) <= QueueCap
  /\ vpc \in [Viewers -> {"idle", "codecs", "stream"}]
  /\ vcodecs \in [Viewers -> 0..nsess]
  /\ vlast \in [Viewers -> Packets \cup {NoPacket}]
  /\ hpc \in {"idle", "listed", "packing"}
  /\ DOMAIN listed \subseteq Nat /\ \A i \in DOMAIN listed : listed[i] \in Packets
  /\ hseg \in Nat /\ hcodecs \in 0..nsess
  /\ hflushed \in BOOLEAN /\ hset \in BOOLEAN
-----------------------------------------------------------------------------
\* StreamHLSFlush.  A player that has a playlist goes on by it.
NoteFlush ==
  /\ hflushed' = (hflushed \/ hpc # "idle")
  /\ UNCHANGED <<hpc, listed, hseg, hcodecs, hset>>
FlushWindow == segs' = Nothing /\ number' = 0 /\ seqno' = 0
FlushSegments == segs' = Nothing /\ UNCHANGED <<number, seqno>>  \* mutant: the counters stay
FlushNumbers == UNCHANGED segs /\ number' = 0 /\ seqno' = 0  \* mutant: the segments stay
Flush == FlushWindow

\* StreamHLSAdd, with which of Keep + 1 segments leaves
Oldest == number + 1 - Keep
OneTooOld == number - Keep  \* mutant: off by one
Leaves == Oldest
StreamHLSAdd(p) ==
  LET all == [i \in DOMAIN segs \cup {number + 1} |-> IF i = number + 1 THEN p ELSE segs[i]]
      full == Cardinality(DOMAIN all) > Keep
  IN
  /\ number' = number + 1
  /\ segs' = IF full THEN [i \in DOMAIN all \ {Leaves} |-> all[i]] ELSE all
  /\ seqno' = IF full THEN seqno + 1 ELSE seqno

\* StreamChannelCast: a viewer that is full gets nothing, and is told so by a signal that
\* nobody reads.
HasRoom(v) == Len(queue[v]) < QueueCap
HasRoomToSpare(v) == Len(queue[v]) < QueueCap - 1  \* mutant: a smaller limit than the queue's
Room(v) == HasRoom(v)
Cast(p) ==
  /\ queue' = [v \in Viewers |-> IF v \in clients /\ Room(v) THEN Append(queue[v], p) ELSE queue[v]]
  /\ lost' = lost \cup {v \in clients : Len(queue[v]) >= QueueCap}

\* StreamChannelCodecsUpdate
CodecsUpdate(s) ==
  /\ codecs' = s
  /\ early' = early \cup {v \in Viewers : vpc[v] = "codecs" /\ queue[v] # <<>>}
  /\ renewed' = renewed \cup {v \in Viewers : vpc[v] = "stream"}
  /\ hset' = (hset \/ hpc = "packing")
  /\ UNCHANGED <<hpc, listed, hseg, hcodecs, hflushed>>
KeepCodecs == UNCHANGED <<codecs, early, renewed, player>>
-----------------------------------------------------------------------------
\* A session begins: Dial succeeds, and the codecs are known at once or come later, or there are
\* none and nobody waits for them, so that those of the last session stay.
Holds(w) == waits' = waits \cup {w}
HoldsNothing(w) == waits' = waits  \* mutant: packets are cast before their codecs are known
WaitCodec(w) == Holds(w)
Connect(w) ==
  /\ run[w] = 0 /\ nsess < MaxSessions
  /\ nsess' = nsess + 1
  /\ run' = [run EXCEPT ![w] = nsess + 1]
  /\ \/ CodecsUpdate(nsess + 1) /\ UNCHANGED waits /\ mixed' = (mixed \/ InSession # {})
     \/ WaitCodec(w) /\ KeepCodecs /\ mixed' = (mixed \/ InSession # {})
     \/ UNCHANGED waits /\ KeepCodecs /\ mixed' = TRUE
  /\ UNCHANGED <<gen, segs, number, seqno, keyed, count>>
  /\ UNCHANGED <<clients, queue, vpc, vcodecs, vstart, vlast, lost>>

\* SignalCodecUpdate.  It may come again; a session's codecs are taken to stay the same.
SignalCodecs(w) ==
  /\ run[w] # 0 /\ (w \in waits \/ codecs # run[w])
  /\ waits' = waits \ {w}
  /\ CodecsUpdate(run[w])
  /\ UNCHANGED <<gen, segs, number, seqno, run, keyed, count, nsess, mixed>>
  /\ UNCHANGED <<clients, queue, vpc, vcodecs, vstart, vlast, lost>>

\* The branch of OutgoingPacketQueue: a key frame ends a segment, then the packet is cast.
\* Before the codecs are known packets are thrown away.
Packet(w, key) ==
  LET p == [s |-> run[w], n |-> count[w] + 1, key |-> key] IN
  /\ run[w] # 0 /\ w \notin waits /\ count[w] < MaxPackets
  /\ count' = [count EXCEPT ![w] = @ + 1]
  /\ keyed' = IF key THEN keyed \cup {w} ELSE keyed
  /\ IF key /\ w \in keyed THEN StreamHLSAdd(p) ELSE UNCHANGED <<segs, number, seqno>>
  /\ Cast(p)
  /\ UNCHANGED <<gen, codecs, run, waits, nsess, mixed, player>>
  /\ UNCHANGED <<clients, vpc, vcodecs, vstart, vlast, early, renewed>>

\* The loop returns, for whatever reason, and its deferred calls flush what has the name.
EndSession(w) ==
  /\ run[w] # 0
  /\ run' = [run EXCEPT ![w] = 0]
  /\ count' = [count EXCEPT ![w] = 0]
  /\ waits' = waits \ {w} /\ keyed' = keyed \ {w}
  /\ Flush /\ NoteFlush
  /\ UNCHANGED <<gen, codecs, nsess, mixed, viewers>>

\* StreamChannelMake of an edit: a channel without clients, codecs or segments.  The sessions
\* on its name go on until their workers have read a Stop.
Replace ==
  /\ gen < MaxGen
  /\ gen' = gen + 1
  /\ segs' = Nothing /\ number' = 0 /\ seqno' = 0 /\ codecs' = 0
  /\ clients' = {}
  /\ NoteFlush
  /\ UNCHANGED <<sessions, queue, vpc, vcodecs, vstart, vlast, early, renewed, lost>>
-----------------------------------------------------------------------------
\* ClientAdd of HTTPAPIServerStreamMSE
Join(v) ==
  /\ vpc[v] = "idle"
  /\ vpc' = [vpc EXCEPT ![v] = "codecs"]
  /\ clients' = clients \cup {v}
  /\ UNCHANGED <<channel, sessions, player, queue, vcodecs, vstart, vlast, early, renewed, lost>>

\* StreamChannelCodecs polls until there are some; what it finds is told to the player.
TellCodecs(v) ==
  /\ vpc[v] = "codecs" /\ codecs # 0
  /\ vpc' = [vpc EXCEPT ![v] = "stream"]
  /\ vcodecs' = [vcodecs EXCEPT ![v] = codecs]
  /\ UNCHANGED <<channel, sessions, player, clients, queue, vstart, vlast, early, renewed, lost>>

\* The loop takes a packet, and sends it once a key frame has come.
Starts(v, p) == IF p.key THEN vstart \cup {v} ELSE vstart
Send(v) ==
  LET p == Head(queue[v]) IN
  /\ vpc[v] = "stream" /\ queue[v] # <<>>
  /\ queue' = [queue EXCEPT ![v] = Tail(@)]
  /\ vstart' = Starts(v, p)
  /\ vlast' = IF v \in vstart' THEN [vlast EXCEPT ![v] = p] ELSE vlast
  /\ UNCHANGED <<channel, sessions, player, clients, vpc, vcodecs, early, renewed, lost>>

\* No codecs in time, no key frame for 10 s, no pong, a write error, or the page is closed.
Leave(v) ==
  /\ vpc[v] # "idle"
  /\ vpc' = [vpc EXCEPT ![v] = "idle"]
  /\ clients' = clients \ {v}
  /\ queue' = [queue EXCEPT ![v] = <<>>]
  /\ vcodecs' = [vcodecs EXCEPT ![v] = 0]
  /\ vlast' = [vlast EXCEPT ![v] = NoPacket]
  /\ vstart' = vstart \ {v} /\ lost' = lost \ {v}
  /\ early' = early \ {v} /\ renewed' = renewed \ {v}
  /\ UNCHANGED <<channel, sessions, player>>
-----------------------------------------------------------------------------
\* HTTPAPIServerStreamHLSM3U8 answers when there are enough segments.
GetPlaylist ==
  /\ hpc = "idle" /\ Cardinality(DOMAIN segs) >= Keep
  /\ hpc' = "listed" /\ listed' = segs
  /\ UNCHANGED <<channel, sessions, viewers, hseg, hcodecs, hflushed, hset>>

\* HTTPAPIServerStreamHLSTS looks the codecs up first,
AskSegment(i) ==
  /\ hpc = "listed" /\ i \in DOMAIN listed /\ codecs # 0
  /\ hpc' = "packing" /\ hseg' = i /\ hcodecs' = codecs
  /\ UNCHANGED <<channel, sessions, viewers, listed, hflushed, hset>>

\* then the segment, segs[hseg] unless it is gone.  The player goes on by the same playlist,
GetSegment ==
  /\ hpc = "packing"
  /\ hpc' = "listed" /\ hseg' = 0 /\ hcodecs' = 0 /\ hset' = FALSE
  /\ UNCHANGED <<channel, sessions, viewers, listed, hflushed>>

\* until it asks for another.
ForgetPlaylist ==
  /\ hpc = "listed"
  /\ hpc' = "idle" /\ listed' = Nothing /\ hflushed' = FALSE
  /\ UNCHANGED <<channel, sessions, viewers, hseg, hcodecs, hset>>
-----------------------------------------------------------------------------
Init ==
  /\ gen = 0 /\ segs = Nothing /\ number = 0 /\ seqno = 0 /\ codecs = 0
  /\ run = [w \in Workers |-> 0] /\ count = [w \in Workers |-> 0]
  /\ waits = {} /\ keyed = {} /\ nsess = 0 /\ mixed = FALSE
  /\ clients = {} /\ vstart = {} /\ early = {} /\ renewed = {} /\ lost = {}
  /\ queue = [v \in Viewers |-> <<>>]
  /\ vpc = [v \in Viewers |-> "idle"]
  /\ vcodecs = [v \in Viewers |-> 0]
  /\ vlast = [v \in Viewers |-> NoPacket]
  /\ hpc = "idle" /\ listed = Nothing
  /\ hseg = 0 /\ hcodecs = 0 /\ hflushed = FALSE /\ hset = FALSE

Next ==
  \/ \E w \in Workers :
       Connect(w) \/ SignalCodecs(w) \/ EndSession(w) \/ \E key \in BOOLEAN : Packet(w, key)
  \/ Replace
  \/ \E v \in Viewers : Join(v) \/ TellCodecs(v) \/ Send(v) \/ Leave(v)
  \/ GetPlaylist \/ (\E i \in DOMAIN listed : AskSegment(i)) \/ GetSegment \/ ForgetPlaylist

Spec == Init /\ [][Next]_vars
-----------------------------------------------------------------------------
\* The window has no holes and at most Keep segments, and the playlist's MEDIA-SEQUENCE goes
\* with its first segment, although segments come from two sessions when two workers serve
\* the name, and either of them flushes.
WindowShape ==
  /\ DOMAIN segs = (seqno + 1)..number
  /\ number - seqno <= Keep

\* Every segment that can be listed belongs to a session that goes on, and those of a session
\* are in its order: nothing of an ended session, or of a replaced channel's, is left.
LiveSegments ==
  /\ \A i \in DOMAIN segs : \E w \in Workers : run[w] = segs[i].s
  /\ \A i, j \in DOMAIN segs : i < j /\ segs[i].s = segs[j].s => segs[i].n < segs[j].n

\* A player that asks gets under a number what its playlist meant by that number, unless the window was
\* flushed after the playlist and the number was given again: then it gets a later packet's
\* segment, never one that is over.  It is packed with the codecs of its session, or with older
\* ones when new ones were set between the look at the codecs and the look at the segment.  The
\* second and the third do not hold of sessions that mix.
Newer(p, q) == p.s > q.s \/ (p.s = q.s /\ p.n > q.n)
ServedAsListed ==
  hpc = "packing" /\ hseg \in DOMAIN segs =>
    LET got == segs[hseg] IN
    /\ got = listed[hseg] \/ hflushed
    /\ ~mixed => got = listed[hseg] \/ Newer(got, listed[hseg])
    /\ ~mixed => hcodecs = got.s \/ (hset /\ hcodecs < got.s)

\* Unless sessions mix, a viewer is sent packets of a session other than the one whose codecs its
\* player was told in two cases only.  A later session's, because codecs were set after the player
\* was told some (nobody tells it again); an earlier one's, because they were in its queue when
\* the codecs were set that the player was told.  Codecs outlive their session, and the queue is
\* filled before they are looked up.
CodecsFit ==
  ~mixed => \A v \in Viewers : vlast[v] # NoPacket =>
    /\ vlast[v].s > vcodecs[v] => v \in renewed
    /\ vlast[v].s < vcodecs[v] => v \in early

\* Between two packets of a session a viewer misses none, unless its queue was full; also when
\* sessions mix.
MissesOnlyWhenFull ==
  \A v \in Viewers \ lost :
    LET line == IF vlast[v] = NoPacket THEN queue[v] ELSE <<vlast[v]>> \o queue[v] IN
    \A i, j \in DOMAIN line :
      i < j /\ line[i].s = line[j].s =>
        /\ line[i].n < line[j].n
        /\ \A n \in (line[i].n + 1)..(line[j].n - 1) :
             \E k \in i..j : line[k].s = line[i].s /\ line[k].n = n
=============================================================================
