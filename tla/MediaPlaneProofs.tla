-------------------------- MODULE MediaPlaneProofs --------------------------
(* Proofs about MediaPlane, for any number of workers and viewers, any     *)
(* length of the playlist and any limit of a queue.                        *)
EXTENDS MediaPlane, FiniteSetTheorems, SequenceTheorems, TLAPS

\* A session is one worker's, and unless there were two at once it is the last one.
OwnSessions ==
  /\ \A w, x \in Workers : run[w] = run[x] /\ run[w] # 0 => w = x
  /\ ~mixed => \A w \in Workers : run[w] \in {0, nsess}

\* A session that is not waiting for its codecs has set them, unless the channel was replaced.
SetByOwner == \A w \in Workers : run[w] # 0 /\ w \notin waits /\ ~mixed => codecs \in {0, run[w]}

\* Segments are made of packets that their session has got, after it knew its codecs.
Made == \A i \in DOMAIN segs, w \in Workers :
          segs[i].s = run[w] => segs[i].n <= count[w] /\ w \notin waits

\* Until a flush what is listed is what is in the window, or has left it, under numbers that are
\* not used again.  Then all that comes to the window is newer.
Kept ==
  ~hflushed /\ hpc # "idle" =>
    /\ DOMAIN listed \subseteq 1..number
    /\ \A i \in DOMAIN listed : i \in DOMAIN segs => segs[i] = listed[i]
Older ==
  ~mixed /\ hpc # "idle" => \A i \in DOMAIN listed :
    /\ listed[i].s <= nsess
    /\ \A w \in Workers : run[w] = listed[i].s => listed[i].n <= count[w]
    /\ hflushed => \A j \in DOMAIN segs : Newer(segs[j], listed[i])
\* The codecs that were looked up are those of the session that has segments, or new ones were set.
Packed ==
  hpc = "packing" =>
    /\ hseg \in DOMAIN listed
    /\ ~mixed => \A w \in Workers : run[w] # 0 /\ w \notin waits => hcodecs = run[w] \/ hset
Rested == hpc = "idle" => ~hflushed
Watched == Kept /\ Older /\ Packed /\ Rested

\* A session of which a viewer may be sent a packet, having been told codecs.
Told(v, s) == (s > vcodecs[v] => v \in renewed) /\ (s < vcodecs[v] => v \in early)

\* Whom the channel casts to, and the packets on their way to a viewer.
Fits(v) ==
  /\ v \in clients => vpc[v] # "idle"
  /\ vpc[v] = "idle" => queue[v] = <<>>
  /\ vpc[v] # "stream" => vlast[v] = NoPacket
  /\ vpc[v] = "stream" => vcodecs[v] # 0
  /\ \A k \in 1..Len(queue[v]) : queue[v][k].s <= nsess
  /\ vpc[v] = "codecs" /\ ~mixed /\ codecs # 0 => \A k \in 1..Len(queue[v]) :
       queue[v][k].s <= codecs /\ (v \in early \/ queue[v][k].s = codecs)
  /\ vpc[v] = "stream" /\ ~mixed =>
       /\ \A k \in 1..Len(queue[v]) : Told(v, queue[v][k].s)
       /\ vlast[v] # NoPacket => Told(v, vlast[v].s)
       /\ v \in clients => codecs = vcodecs[v] \/ v \in renewed

\* What a viewer was sent last and what waits for it: the packets of each session without a gap,
\* and up to the packet that the session has got last, as long as the viewer is a client.
Line(v) == IF vlast[v] = NoPacket THEN queue[v] ELSE <<vlast[v]>> \o queue[v]
Gapless(line) ==
  \A i, j \in DOMAIN line :
    i < j /\ line[i].s = line[j].s =>
      /\ line[i].n < line[j].n
      /\ \A n \in (line[i].n + 1)..(line[j].n - 1) :
           \E k \in i..j : line[k].s = line[i].s /\ line[k].n = n
UpTo(line, s, last) ==
  \A i \in DOMAIN line : line[i].s = s =>
    /\ line[i].n <= last
    /\ \A n \in (line[i].n + 1)..last : \E k \in i..Len(line) : line[k].s = s /\ line[k].n = n
Whole(v) ==
  /\ vlast[v] # NoPacket => v \in vstart
  /\ \A i \in DOMAIN Line(v) : Line(v)[i].s <= nsess
  /\ v \notin lost => Gapless(Line(v))
  /\ v \in clients \ lost => \A w \in Workers : run[w] # 0 => UpTo(Line(v), run[w], count[w])

SessionInv == OwnSessions /\ SetByOwner
WindowInv == seqno <= number /\ WindowShape /\ LiveSegments /\ Made
AllFit == \A v \in Viewers : Fits(v)
AllWhole == \A v \in Viewers : Whole(v)
-----------------------------------------------------------------------------
LEMMA Bounds ==
  /\ Keep \in Nat /\ Keep > 0 /\ QueueCap \in Nat /\ QueueCap > 0
  /\ MaxSessions \in Nat /\ MaxPackets \in Nat /\ MaxGen \in Nat
BY MediaAssumption

LEMMA NoPacketIsNone == NoPacket \notin Packets
BY Bounds DEF NoPacket, Packets, Sessions

LEMMA EmptyWindow == DOMAIN Nothing = {}
BY DEF Nothing

LEMMA Zeros == TypeOK => 0 \in Nat /\ 0 \in 0..nsess /\ FALSE \in BOOLEAN
BY DEF TypeOK

\* The packet that a worker has got is one.
LEMMA PacketType ==
  ASSUME TypeOK, NEW w \in Workers, NEW key \in BOOLEAN, Packet(w, key)
  PROVE  [s |-> run[w], n |-> count[w] + 1, key |-> key] \in Packets
<1>1. run[w] \in 1..MaxSessions /\ count[w] + 1 \in 1..MaxPackets
  BY Bounds DEF TypeOK, Packet
<1> QED
  BY <1>1 DEF Packets, Sessions

\* TypeOK holds initially and is kept by every step.
LEMMA TypeInit == Init => TypeOK
<1> SUFFICES ASSUME Init PROVE TypeOK
  OBVIOUS
<1>1. <<>> \in Seq(Packets) /\ Len(<<>>) = 0
  OBVIOUS
<1>2. queue \in [Viewers -> Seq(Packets)] /\ \A v \in Viewers : Len(queue[v]) <= QueueCap
  BY <1>1, Bounds DEF Init
<1>3. run \in [Workers -> 0..nsess] /\ count \in [Workers -> 0..MaxPackets]
  BY Bounds DEF Init
<1>4. vpc \in [Viewers -> {"idle", "codecs", "stream"}] /\ vcodecs \in [Viewers -> 0..nsess]
      /\ vlast \in [Viewers -> Packets \cup {NoPacket}]
  BY Bounds DEF Init
<1>5. DOMAIN segs = {} /\ DOMAIN listed = {}
  BY EmptyWindow DEF Init
<1>6. /\ gen \in 0..MaxGen /\ number \in Nat /\ seqno \in Nat
      /\ codecs \in 0..nsess /\ nsess \in 0..MaxSessions
      /\ hpc = "idle" /\ hseg \in Nat /\ hcodecs \in 0..nsess
  BY Bounds DEF Init
<1>7. /\ mixed \in BOOLEAN /\ hflushed \in BOOLEAN /\ hset \in BOOLEAN
      /\ waits \subseteq InSession /\ keyed \subseteq InSession
      /\ clients \subseteq Viewers /\ vstart \subseteq Viewers
      /\ early \subseteq Viewers /\ renewed \subseteq Viewers /\ lost \subseteq Viewers
  BY DEF Init
<1> QED
  BY <1>2, <1>3, <1>4, <1>5, <1>6, <1>7 DEF TypeOK

LEMMA TypeStep == TypeOK /\ [Next]_vars => TypeOK'
<1> SUFFICES ASSUME TypeOK, [Next]_vars PROVE TypeOK'
  OBVIOUS
<1> USE Bounds
<1>1. ASSUME NEW w \in Workers, Connect(w) PROVE TypeOK'
  <2>1. /\ UNCHANGED <<gen, segs, number, seqno, keyed, count, clients, queue, vpc, vcodecs, vstart, vlast, lost>>
        /\ UNCHANGED <<hpc, listed, hseg, hcodecs, hflushed>>
        /\ run' = [run EXCEPT ![w] = nsess + 1] /\ nsess' = nsess + 1 /\ nsess < MaxSessions
        /\ waits' \subseteq waits \cup {w} /\ codecs' \in {codecs, nsess + 1}
    BY <1>1 DEF Connect, CodecsUpdate, KeepCodecs, WaitCodec, Holds, player
  <2>2. mixed' \in BOOLEAN /\ hset' \in BOOLEAN
    BY <1>1 DEF Connect, CodecsUpdate, KeepCodecs, player, TypeOK
  <2>3. early' \subseteq Viewers /\ renewed' \subseteq Viewers
    BY <1>1 DEF Connect, CodecsUpdate, KeepCodecs, TypeOK
  <2> QED
    BY <2>1, <2>2, <2>3 DEF TypeOK, InSession
<1>2. ASSUME NEW w \in Workers, SignalCodecs(w) PROVE TypeOK'
  BY <1>2, EmptyWindow DEF TypeOK, SignalCodecs, CodecsUpdate, InSession
<1>3. ASSUME NEW w \in Workers, NEW key \in BOOLEAN, Packet(w, key) PROVE TypeOK'
  <2> DEFINE p == [s |-> run[w], n |-> count[w] + 1, key |-> key]
  <2>1. p \in Packets
    BY <1>3, PacketType
  <2>2. /\ number' \in Nat /\ seqno' \in Nat
        /\ DOMAIN segs' \subseteq 1..number' /\ \A i \in DOMAIN segs' : segs'[i] \in Packets
    <3>1. CASE key /\ w \in keyed
      <4> DEFINE all == [i \in DOMAIN segs \cup {number + 1} |-> IF i = number + 1 THEN p ELSE segs[i]]
      <4>1. /\ number' = number + 1
            /\ seqno' \in {seqno, seqno + 1}
            /\ segs' = all \/ segs' = [i \in DOMAIN all \ {Leaves} |-> all[i]]
        BY <1>3, <3>1 DEF Packet, StreamHLSAdd
      <4>2. DOMAIN all \subseteq 1..(number + 1) /\ \A i \in DOMAIN all : all[i] \in Packets
        BY <2>1 DEF TypeOK
      <4> HIDE DEF all
      <4>3. DOMAIN segs' \subseteq DOMAIN all /\ \A i \in DOMAIN segs' : segs'[i] = all[i]
        BY <4>1
      <4> QED
        BY <4>1, <4>2, <4>3, SMTT(30) DEF TypeOK
    <3>2. CASE ~(key /\ w \in keyed)
      BY <1>3, <3>2 DEF TypeOK, Packet
    <3> QED
      BY <3>1, <3>2
  <2>3. /\ queue' \in [Viewers -> Seq(Packets)]
        /\ \A v \in Viewers : Len(queue'[v]) <= QueueCap
        /\ lost' \subseteq Viewers
    BY <1>3, <2>1 DEF TypeOK, Packet, Cast, Room, HasRoom
  <2> HIDE DEF p
  <2> QED
    BY <1>3, <2>2, <2>3, SMTT(30) DEF TypeOK, Packet, InSession, player
<1>4. ASSUME NEW w \in Workers, EndSession(w) PROVE TypeOK'
  BY <1>4, EmptyWindow DEF TypeOK, EndSession, Flush, FlushWindow, NoteFlush, InSession, viewers
<1>5. CASE Replace
  BY <1>5, EmptyWindow DEF TypeOK, Replace, NoteFlush, InSession, sessions
<1>6. ASSUME NEW v \in Viewers, Join(v) \/ TellCodecs(v) \/ Leave(v) PROVE TypeOK'
  <2>1. CASE Join(v)
    BY <2>1 DEF TypeOK, Join, InSession, channel, sessions, player
  <2>2. CASE TellCodecs(v)
    BY <2>2 DEF TypeOK, TellCodecs, InSession, channel, sessions, player
  <2>3. CASE Leave(v)
    <3>1. <<>> \in Seq(Packets) /\ Len(<<>>) = 0
      OBVIOUS
    <3>2. /\ queue' \in [Viewers -> Seq(Packets)]
          /\ \A x \in Viewers : Len(queue'[x]) <= QueueCap
      BY <2>3, <3>1 DEF TypeOK, Leave
    <3> QED
      BY <2>3, <3>2 DEF TypeOK, Leave, InSession, channel, sessions, player
  <2> QED
    BY <1>6, <2>1, <2>2, <2>3
<1>7. ASSUME NEW v \in Viewers, Send(v) PROVE TypeOK'
  <2>1. Head(queue[v]) \in Packets /\ Tail(queue[v]) \in Seq(Packets)
        /\ Len(Tail(queue[v])) <= QueueCap
    BY <1>7 DEF TypeOK, Send
  <2> QED
    BY <1>7, <2>1 DEF TypeOK, Send, Starts, InSession, channel, sessions, player
<1>8. CASE GetPlaylist \/ (\E i \in DOMAIN listed : AskSegment(i)) \/ GetSegment \/ ForgetPlaylist
  <2>1. CASE GetPlaylist
    BY <2>1 DEF TypeOK, GetPlaylist, InSession, channel, sessions, viewers
  <2>2. ASSUME NEW i \in DOMAIN listed, AskSegment(i) PROVE TypeOK'
    BY <2>2 DEF TypeOK, AskSegment, InSession, channel, sessions, viewers
  <2>3. CASE GetSegment
    BY <2>3, Zeros DEF TypeOK, GetSegment, InSession, channel, sessions, viewers
  <2>4. CASE ForgetPlaylist
    BY <2>4, EmptyWindow DEF TypeOK, ForgetPlaylist, InSession, channel, sessions, viewers
  <2> QED
    BY <1>8, <2>1, <2>2, <2>3, <2>4
<1>9. CASE UNCHANGED vars
  BY <1>9 DEF TypeOK, InSession, vars, channel, sessions, viewers, player
<1> QED
  BY <1>1, <1>2, <1>3, <1>4, <1>5, <1>6, <1>7, <1>8, <1>9 DEF Next

\* Every state of a channel, its sessions, its viewers and a watched player is well formed.
THEOREM TypeCorrect == Spec => []TypeOK
<1> QED
  BY TypeInit, TypeStep, PTL DEF Spec
-----------------------------------------------------------------------------
\* Which worker is in which session, and whose codecs the channel has.
LEMMA SessionStep == TypeOK /\ SessionInv /\ [Next]_vars => SessionInv'
<1> SUFFICES ASSUME TypeOK, SessionInv, [Next]_vars PROVE SessionInv'
  OBVIOUS
<1> USE Bounds
<1>1. ASSUME NEW w \in Workers, Connect(w) PROVE SessionInv'
  <2>1. /\ run' = [run EXCEPT ![w] = nsess + 1] /\ nsess' = nsess + 1
        /\ \A x \in Workers : run[x] \in 0..nsess
        /\ nsess \in Nat
        /\ mixed' = (mixed \/ InSession # {}) \/ mixed'
    BY <1>1 DEF Connect, TypeOK
  <2>2. \A x \in Workers : run'[x] = IF x = w THEN nsess + 1 ELSE run[x]
    BY <2>1 DEF TypeOK
  <2>3. ASSUME ~mixed', NEW x \in Workers, x # w PROVE run'[x] = 0
    BY <2>1, <2>2, <2>3 DEF InSession
  <2>4. OwnSessions'
    <3>1. \A x \in Workers : run[x] # nsess + 1
      BY <2>1
    <3>2. \A x, y \in Workers : run'[x] = run'[y] /\ run'[x] # 0 => x = y
      BY <2>2, <3>1 DEF SessionInv, OwnSessions
    <3>3. ASSUME ~mixed', NEW x \in Workers PROVE run'[x] \in {0, nsess'}
      BY <2>1, <2>2, <2>3, <3>3
    <3> QED
      BY <3>2, <3>3 DEF OwnSessions
  <2>5. mixed' \/ w \in waits' \/ codecs' = run'[w]
    BY <1>1, <2>1, <2>2 DEF Connect, CodecsUpdate, WaitCodec, Holds
  <2>6. SetByOwner'
    BY <2>3, <2>5 DEF SetByOwner
  <2> QED
    BY <2>4, <2>6 DEF SessionInv
<1>2. ASSUME NEW w \in Workers, SignalCodecs(w) PROVE SessionInv'
  BY <1>2 DEF SessionInv, OwnSessions, SetByOwner, SignalCodecs, CodecsUpdate, TypeOK
<1>3. ASSUME NEW w \in Workers, EndSession(w) PROVE SessionInv'
  BY <1>3 DEF SessionInv, OwnSessions, SetByOwner, EndSession, TypeOK
<1>4. CASE Replace
  BY <1>4 DEF SessionInv, OwnSessions, SetByOwner, Replace, sessions
<1>5. CASE UNCHANGED <<run, waits, mixed, codecs, nsess>>
  BY <1>5 DEF SessionInv, OwnSessions, SetByOwner
<1>6. ASSUME NEW w \in Workers, NEW key \in BOOLEAN, Packet(w, key) PROVE SessionInv'
  BY <1>5, <1>6 DEF Packet
<1>7. ASSUME NEW v \in Viewers, Join(v) \/ TellCodecs(v) \/ Send(v) \/ Leave(v) PROVE SessionInv'
  BY <1>5, <1>7 DEF Join, TellCodecs, Send, Leave, channel, sessions
<1>8. ASSUME GetPlaylist \/ (\E i \in DOMAIN listed : AskSegment(i)) \/ GetSegment \/ ForgetPlaylist PROVE SessionInv'
  BY <1>5, <1>8 DEF GetPlaylist, AskSegment, GetSegment, ForgetPlaylist, channel, sessions
<1>9. CASE UNCHANGED vars
  BY <1>5, <1>9 DEF vars, channel, sessions
<1> QED
  BY <1>1, <1>2, <1>3, <1>4, <1>6, <1>7, <1>8, <1>9 DEF Next

\* A segment comes to the window, and one leaves when it is full.
LEMMA AddedSegment ==
  ASSUME TypeOK, WindowInv, NEW p, StreamHLSAdd(p)
  PROVE  /\ number' = number + 1 /\ seqno' \in {seqno, seqno + 1}
         /\ DOMAIN segs' = (seqno' + 1)..number' /\ number' - seqno' <= Keep /\ seqno' <= number'
         /\ \A i \in DOMAIN segs' : segs'[i] = IF i = number + 1 THEN p ELSE segs[i]
         /\ \A i \in DOMAIN segs' : i = number + 1 \/ i \in DOMAIN segs
<1> DEFINE all == [i \in DOMAIN segs \cup {number + 1} |-> IF i = number + 1 THEN p ELSE segs[i]]
           full == Cardinality(DOMAIN all) > Keep
<1> USE Bounds
<1>1. /\ number \in Nat /\ seqno \in Nat /\ seqno <= number
      /\ DOMAIN segs = (seqno + 1)..number /\ number - seqno <= Keep
  BY DEF TypeOK, WindowInv, WindowShape
<1>2. DOMAIN all = (seqno + 1)..(number + 1)
  BY <1>1
<1>3. Cardinality(DOMAIN all) = number + 1 - seqno
  <2>1. Cardinality((seqno + 1)..(number + 1)) = (number + 1) - (seqno + 1) + 1
    BY <1>1, FS_Interval
  <2> HIDE DEF all
  <2> QED
    BY <1>1, <1>2, <2>1
<1>4. /\ number' = number + 1
      /\ segs' = IF full THEN [i \in DOMAIN all \ {Leaves} |-> all[i]] ELSE all
      /\ seqno' = IF full THEN seqno + 1 ELSE seqno
  BY DEF StreamHLSAdd
<1>5. \A i \in DOMAIN all : all[i] = IF i = number + 1 THEN p ELSE segs[i]
  OBVIOUS
<1>6. \A i \in DOMAIN all : i = number + 1 \/ i \in DOMAIN segs
  OBVIOUS
<1>7. full <=> number - seqno = Keep
  BY <1>1, <1>3
<1> HIDE DEF all, full
<1>8. CASE full
  <2>1. Leaves = seqno + 1
    BY <1>1, <1>7, <1>8 DEF Leaves, Oldest
  <2>2. DOMAIN segs' = DOMAIN all \ {seqno + 1} /\ \A i \in DOMAIN segs' : segs'[i] = all[i]
    BY <1>4, <1>8, <2>1
  <2>3. seqno' = seqno + 1 /\ number' = number + 1
    BY <1>4, <1>8
  <2>4. DOMAIN segs' = (seqno' + 1)..number'
    BY <1>1, <1>2, <2>2, <2>3
  <2>5. number' - seqno' <= Keep /\ seqno' <= number'
    BY <1>1, <2>3
  <2> QED
    BY <1>5, <1>6, <2>2, <2>3, <2>4, <2>5
<1>9. CASE ~full
  BY <1>1, <1>2, <1>4, <1>5, <1>6, <1>7, <1>9, SMTT(30)
<1> QED
  BY <1>8, <1>9

\* The window is well shaped, and made of what the sessions that go on have got.
LEMMA WindowStep == TypeOK /\ SessionInv /\ WindowInv /\ [Next]_vars => WindowInv'
<1> SUFFICES ASSUME TypeOK, SessionInv, WindowInv, [Next]_vars PROVE WindowInv'
  OBVIOUS
<1> USE Bounds
<1>0. \A i \in DOMAIN segs : segs[i].s \in Nat /\ segs[i].n \in Nat /\ segs[i].s # 0
  BY DEF TypeOK, Packets, Sessions
<1>1. ASSUME segs' = Nothing, number' = 0, seqno' = 0 PROVE WindowInv'
  <2>1. DOMAIN segs' = {}
    BY <1>1, EmptyWindow
  <2>2. DOMAIN segs' = (seqno' + 1)..number'
    BY <1>1, <2>1
  <2> QED
    BY <1>1, <2>1, <2>2 DEF WindowInv, WindowShape, LiveSegments, Made
<1>2. CASE UNCHANGED <<segs, number, seqno, run, count, waits>>
  BY <1>2 DEF WindowInv, WindowShape, LiveSegments, Made
<1>3. ASSUME NEW w \in Workers, Connect(w) PROVE WindowInv'
  <2>1. /\ UNCHANGED <<segs, number, seqno, count>>
        /\ run[w] = 0 /\ run' = [run EXCEPT ![w] = nsess + 1]
        /\ waits' \subseteq waits \cup {w}
    BY <1>3 DEF Connect, WaitCodec, Holds
  <2>2. \A x \in Workers : run'[x] = IF x = w THEN nsess + 1 ELSE run[x]
    BY <2>1 DEF TypeOK
  <2>3. \A i \in DOMAIN segs : \E x \in Workers : run[x] = segs[i].s
    BY DEF WindowInv, LiveSegments
  <2>4. \A i \in DOMAIN segs : segs[i].s # nsess + 1
    BY <2>3 DEF TypeOK
  <2>5. LiveSegments'
    BY <1>0, <2>1, <2>2, <2>3 DEF WindowInv, LiveSegments
  <2>6. Made'
    BY <1>0, <2>1, <2>2, <2>4 DEF WindowInv, Made
  <2> QED
    BY <2>1, <2>5, <2>6 DEF WindowInv, WindowShape
<1>4. ASSUME NEW w \in Workers, SignalCodecs(w) PROVE WindowInv'
  BY <1>4 DEF WindowInv, WindowShape, LiveSegments, Made, SignalCodecs
<1>5. ASSUME NEW w \in Workers, NEW key \in BOOLEAN, Packet(w, key) PROVE WindowInv'
  <2> DEFINE p == [s |-> run[w], n |-> count[w] + 1, key |-> key]
  <2>1. /\ w \notin waits /\ run[w] # 0 /\ UNCHANGED <<run, waits>>
        /\ \A x \in Workers : count'[x] = IF x = w THEN count[w] + 1 ELSE count[x]
        /\ \A x \in Workers : count[x] \in Nat
    BY <1>5 DEF Packet, TypeOK
  <2>2. CASE key /\ w \in keyed
    <3>1. StreamHLSAdd(p)
      BY <1>5, <2>2 DEF Packet
    <3>2. p.s = run[w] /\ p.n = count[w] + 1
      OBVIOUS
    <3> HIDE DEF p
    <3>3. /\ number' = number + 1 /\ seqno' \in {seqno, seqno + 1}
          /\ DOMAIN segs' = (seqno' + 1)..number' /\ number' - seqno' <= Keep /\ seqno' <= number'
          /\ \A i \in DOMAIN segs' : segs'[i] = IF i = number + 1 THEN p ELSE segs[i]
          /\ \A i \in DOMAIN segs' : i = number + 1 \/ i \in DOMAIN segs
      BY <3>1, AddedSegment
    <3>4. ASSUME NEW i \in DOMAIN segs' PROVE \E x \in Workers : run'[x] = segs'[i].s
      BY <2>1, <3>2, <3>3 DEF WindowInv, LiveSegments
    <3>5. ASSUME NEW i \in DOMAIN segs', NEW j \in DOMAIN segs', i < j, segs'[i].s = segs'[j].s
          PROVE  segs'[i].n < segs'[j].n
      <4>1. number \in Nat /\ i \in Int /\ j \in Int /\ i <= number + 1 /\ j <= number + 1
        BY <3>3 DEF TypeOK
      <4>2. i # number + 1 /\ i \in DOMAIN segs /\ segs'[i] = segs[i]
        BY <3>3, <3>5, <4>1
      <4>3. CASE j = number + 1
        <5>1. segs[i].s = run[w] /\ segs'[j].n = count[w] + 1
          BY <3>2, <3>3, <3>5, <4>2, <4>3
        <5>2. segs[i].n <= count[w]
          BY <4>2, <5>1 DEF WindowInv, Made
        <5> QED
          BY <1>0, <2>1, <4>2, <5>1, <5>2
      <4>4. CASE j # number + 1
        BY <3>3, <3>5, <4>2, <4>4 DEF WindowInv, LiveSegments
      <4> QED
        BY <4>3, <4>4
    <3>6. ASSUME NEW i \in DOMAIN segs', NEW x \in Workers, segs'[i].s = run'[x]
          PROVE  segs'[i].n <= count'[x] /\ x \notin waits'
      <4>1. CASE i = number + 1
        <5>1. run[x] = run[w]
          BY <2>1, <3>2, <3>3, <3>6, <4>1
        <5>2. x = w
          BY <2>1, <5>1 DEF SessionInv, OwnSessions
        <5> QED
          BY <2>1, <3>2, <3>3, <4>1, <5>2
      <4>2. CASE i # number + 1
        <5>1. segs[i].n <= count[x] /\ x \notin waits
          BY <2>1, <3>3, <3>6, <4>2 DEF WindowInv, Made
        <5> QED
          BY <1>0, <2>1, <3>3, <4>2, <5>1
      <4> QED
        BY <4>1, <4>2
    <3> QED
      BY <3>3, <3>4, <3>5, <3>6 DEF WindowInv, WindowShape, LiveSegments, Made
  <2>3. CASE ~(key /\ w \in keyed)
    <3>1. UNCHANGED <<segs, number, seqno>>
      BY <1>5, <2>3 DEF Packet
    <3>2. Made'
      BY <1>0, <2>1, <3>1 DEF WindowInv, Made
    <3> QED
      BY <2>1, <3>1, <3>2 DEF WindowInv, WindowShape, LiveSegments
  <2> QED
    BY <2>2, <2>3
<1>6. ASSUME NEW w \in Workers, EndSession(w) PROVE WindowInv'
  BY <1>1, <1>6 DEF EndSession, Flush, FlushWindow
<1>7. CASE Replace
  BY <1>1, <1>7 DEF Replace
<1>8. ASSUME NEW v \in Viewers, Join(v) \/ TellCodecs(v) \/ Send(v) \/ Leave(v) PROVE WindowInv'
  BY <1>2, <1>8 DEF Join, TellCodecs, Send, Leave, channel, sessions
<1>9. ASSUME GetPlaylist \/ (\E i \in DOMAIN listed : AskSegment(i)) \/ GetSegment \/ ForgetPlaylist PROVE WindowInv'
  BY <1>2, <1>9 DEF GetPlaylist, AskSegment, GetSegment, ForgetPlaylist, channel, sessions
<1>10. CASE UNCHANGED vars
  BY <1>2, <1>10 DEF vars, channel, sessions
<1> QED
  BY <1>3, <1>4, <1>5, <1>6, <1>7, <1>8, <1>9, <1>10 DEF Next

\* A player's playlist against what comes to the window, one conjunct at a time.
LEMMA WatchedStep == TypeOK /\ SessionInv /\ WindowInv /\ Watched /\ [Next]_vars => Watched'
<1> SUFFICES ASSUME TypeOK, SessionInv, WindowInv, Watched, [Next]_vars PROVE Watched'
  OBVIOUS
<1> USE Bounds
<1>0. /\ nsess \in Nat /\ number \in Nat
      /\ \A w \in Workers : run[w] \in Nat /\ run[w] <= nsess /\ count[w] \in Nat
      /\ \A i \in DOMAIN listed : listed[i].s \in Nat /\ listed[i].s # 0 /\ listed[i].n \in Nat
      /\ \A i \in DOMAIN segs : segs[i].s \in Nat /\ segs[i].s # 0 /\ segs[i].n \in Nat
      /\ hcodecs \in Nat /\ hcodecs <= nsess
  BY DEF TypeOK, Packets, Sessions
<1>1. CASE /\ UNCHANGED <<segs, number, run, count, waits, nsess, hpc, listed, hseg, hcodecs, hflushed>>
           /\ (mixed => mixed') /\ (hset => hset')
  BY <1>1 DEF Watched, Kept, Older, Packed, Rested
<1>2. ASSUME NEW w \in Workers, Connect(w) PROVE Watched'
  <2>1. /\ UNCHANGED <<segs, number, count, hpc, listed, hseg, hcodecs, hflushed>> /\ nsess' = nsess + 1
        /\ run' = [run EXCEPT ![w] = nsess + 1]
        /\ \A x \in Workers : run'[x] = IF x = w THEN nsess + 1 ELSE run[x]
    BY <1>2 DEF Connect, CodecsUpdate, KeepCodecs, player, TypeOK
  <2>2. mixed => mixed'
    BY <1>2 DEF Connect
  <2>3. hset => hset'
    BY <1>2 DEF Connect, CodecsUpdate, KeepCodecs, player
  <2>4. Kept'
    BY <2>1 DEF Watched, Kept
  <2>5. Older'
    BY <1>0, <2>1, <2>2 DEF Watched, Older
  <2>6. ASSUME hpc = "packing", ~mixed', NEW x \in Workers, run'[x] # 0, x \notin waits'
        PROVE  hcodecs = run'[x] \/ hset'
    <3>1. CASE CodecsUpdate(nsess + 1)
      BY <2>6, <3>1 DEF CodecsUpdate
    <3>2. CASE ~CodecsUpdate(nsess + 1)
      <4>1. w \in waits' /\ waits' = waits \cup {w}
        BY <1>2, <2>6, <3>2 DEF Connect, WaitCodec, Holds
      <4> QED
        BY <2>1, <2>2, <2>3, <2>6, <4>1 DEF Watched, Packed
    <3> QED
      BY <3>1, <3>2
  <2> QED
    BY <2>1, <2>4, <2>5, <2>6 DEF Watched, Packed, Rested
<1>3. ASSUME NEW w \in Workers, SignalCodecs(w) PROVE Watched'
  <2>1. /\ UNCHANGED <<segs, number, run, count, nsess, mixed, hpc, listed, hseg, hcodecs, hflushed>>
        /\ hset' = (hset \/ hpc = "packing")
    BY <1>3 DEF SignalCodecs, CodecsUpdate
  <2> QED
    BY <2>1 DEF Watched, Kept, Older, Packed, Rested
<1>4. ASSUME segs' = Nothing, NoteFlush, UNCHANGED <<nsess, mixed>>, waits' \subseteq waits,
             \A x \in Workers : run'[x] = 0 \/ (run'[x] = run[x] /\ count'[x] = count[x] /\ (x \in waits => x \in waits'))
      PROVE  Watched'
  <2>1. /\ DOMAIN segs' = {} /\ UNCHANGED <<hpc, listed, hseg, hcodecs, hset>>
        /\ hflushed' = (hflushed \/ hpc # "idle")
    BY <1>4, EmptyWindow DEF NoteFlush
  <2>2. Kept'
    BY <2>1 DEF Kept
  <2>3. Older'
    BY <1>0, <1>4, <2>1 DEF Watched, Older
  <2>4. Packed'
    BY <1>4, <2>1 DEF Watched, Packed
  <2> QED
    BY <2>1, <2>2, <2>3, <2>4 DEF Watched, Rested
<1>5. ASSUME NEW w \in Workers, EndSession(w) PROVE Watched'
  <2>1. /\ segs' = Nothing /\ NoteFlush /\ UNCHANGED <<nsess, mixed>> /\ waits' = waits \ {w}
        /\ run' = [run EXCEPT ![w] = 0] /\ count' = [count EXCEPT ![w] = 0]
    BY <1>5 DEF EndSession, Flush, FlushWindow
  <2>2. \A x \in Workers : run'[x] = 0 \/ (run'[x] = run[x] /\ count'[x] = count[x] /\ (x \in waits => x \in waits'))
    BY <2>1 DEF TypeOK
  <2> QED
    BY <1>4, <2>1, <2>2
<1>6. CASE Replace
  BY <1>4, <1>6 DEF Replace, sessions
<1>7. ASSUME NEW w \in Workers, NEW key \in BOOLEAN, Packet(w, key) PROVE Watched'
  <2> DEFINE p == [s |-> run[w], n |-> count[w] + 1, key |-> key]
  <2>1. /\ UNCHANGED <<run, waits, nsess, mixed, hpc, listed, hseg, hcodecs, hflushed, hset>>
        /\ run[w] # 0 /\ w \notin waits
        /\ \A x \in Workers : count'[x] = IF x = w THEN count[w] + 1 ELSE count[x]
    BY <1>7 DEF Packet, player, TypeOK
  <2>2. Packed'
    BY <2>1 DEF Watched, Packed
  <2>3. ASSUME ~mixed, hpc # "idle", NEW i \in DOMAIN listed
        PROVE  /\ listed[i].s <= nsess
               /\ \A x \in Workers : run[x] = listed[i].s => listed[i].n <= count'[x]
               /\ hflushed => \A j \in DOMAIN segs : Newer(segs[j], listed[i])
    BY <1>0, <2>1, <2>3 DEF Watched, Older
  <2>4. CASE key /\ w \in keyed
    <3>1. StreamHLSAdd(p) /\ p.s = run[w] /\ p.n = count[w] + 1
      BY <1>7, <2>4 DEF Packet
    <3> HIDE DEF p
    <3>2. /\ number' = number + 1
          /\ \A i \in DOMAIN segs' : segs'[i] = IF i = number + 1 THEN p ELSE segs[i]
          /\ \A i \in DOMAIN segs' : i = number + 1 \/ i \in DOMAIN segs
      BY <3>1, AddedSegment
    <3>3. ASSUME hpc # "idle", ~hflushed
          PROVE  /\ DOMAIN listed \subseteq 1..number'
                 /\ \A i \in DOMAIN listed : i \in DOMAIN segs' => segs'[i] = listed[i]
      <4>1. DOMAIN listed \subseteq 1..number
        BY <3>3 DEF Watched, Kept
      <4>2. \A i \in DOMAIN listed : i # number + 1
        BY <1>0, <4>1
      <4> QED
        BY <1>0, <3>2, <3>3, <4>1, <4>2 DEF Watched, Kept
    <3>4. ASSUME ~mixed, hpc # "idle", hflushed, NEW i \in DOMAIN listed, NEW j \in DOMAIN segs'
          PROVE  Newer(segs'[j], listed[i])
      <4>1. CASE j = number + 1
        <5>1. segs'[j].s = nsess /\ segs'[j].n = count[w] + 1
          BY <2>1, <3>1, <3>2, <3>4, <4>1 DEF SessionInv, OwnSessions
        <5>2. /\ listed[i].s <= nsess
              /\ run[w] = listed[i].s => listed[i].n <= count[w]
          BY <3>4 DEF Watched, Older
        <5>3. run[w] = nsess
          BY <2>1, <3>4 DEF SessionInv, OwnSessions
        <5> QED
          BY <1>0, <5>1, <5>2, <5>3 DEF Newer
      <4>2. CASE j # number + 1
        BY <2>3, <3>2, <3>4, <4>2
      <4> QED
        BY <4>1, <4>2
    <3>5. Kept'
      BY <2>1, <3>3 DEF Kept
    <3>6. Older'
      BY <2>1, <2>3, <3>4 DEF Older
    <3> QED
      BY <2>1, <2>2, <3>5, <3>6 DEF Watched, Rested
  <2>5. CASE ~(key /\ w \in keyed)
    <3>1. UNCHANGED <<segs, number>>
      BY <1>7, <2>5 DEF Packet
    <3>2. Kept'
      BY <2>1, <3>1 DEF Watched, Kept
    <3>3. Older'
      BY <2>1, <2>3, <3>1 DEF Older
    <3> QED
      BY <2>1, <2>2, <3>2, <3>3 DEF Watched, Rested
  <2> QED
    BY <2>4, <2>5
<1>8. ASSUME NEW v \in Viewers, Join(v) \/ TellCodecs(v) \/ Send(v) \/ Leave(v) PROVE Watched'
  BY <1>1, <1>8 DEF Join, TellCodecs, Send, Leave, channel, sessions, player
<1>9. CASE GetPlaylist
  <2>1. /\ hpc' = "listed" /\ listed' = segs
        /\ UNCHANGED <<segs, number, run, count, waits, nsess, mixed, hflushed>>
    BY <1>9 DEF GetPlaylist, channel, sessions
  <2>2. ~hflushed
    BY <1>9 DEF GetPlaylist, Watched, Rested
  <2>3. Kept'
    BY <1>0, <2>1 DEF Kept, TypeOK
  <2>4. ASSUME ~mixed, NEW i \in DOMAIN segs
        PROVE  segs[i].s <= nsess /\ \A w \in Workers : run[w] = segs[i].s => segs[i].n <= count[w]
    BY <1>0 DEF WindowInv, LiveSegments, Made
  <2>5. Older'
    BY <2>1, <2>2, <2>4 DEF Older
  <2> QED
    BY <2>1, <2>3, <2>5 DEF Watched, Packed, Rested
<1>10. ASSUME NEW i \in DOMAIN listed, AskSegment(i) PROVE Watched'
  <2>1. /\ hpc = "listed" /\ hpc' = "packing" /\ hseg' = i /\ hcodecs' = codecs /\ codecs # 0
        /\ UNCHANGED <<segs, number, codecs, run, count, waits, nsess, mixed, listed, hflushed, hset>>
    BY <1>10 DEF AskSegment, channel, sessions
  <2>2. \A w \in Workers : ~mixed /\ run[w] # 0 /\ w \notin waits => codecs = run[w]
    BY <2>1 DEF SessionInv, SetByOwner
  <2> QED
    BY <2>1, <2>2 DEF Watched, Kept, Older, Packed, Rested
<1>11. CASE GetSegment \/ ForgetPlaylist
  BY <1>11 DEF GetSegment, ForgetPlaylist, Watched, Kept, Older, Packed, Rested, channel, sessions
<1>12. CASE UNCHANGED vars
  BY <1>1, <1>12 DEF vars, channel, sessions, player
<1> QED
  BY <1>2, <1>3, <1>5, <1>6, <1>7, <1>8, <1>9, <1>10, <1>11, <1>12 DEF Next

\* A watched player gets what Watched says.
LEMMA WatchedIsServed == TypeOK /\ SessionInv /\ WindowInv /\ Watched => ServedAsListed
<1> SUFFICES ASSUME TypeOK, SessionInv, WindowInv, Watched, hpc = "packing", hseg \in DOMAIN segs
             PROVE  /\ segs[hseg] = listed[hseg] \/ hflushed
                    /\ ~mixed => segs[hseg] = listed[hseg] \/ Newer(segs[hseg], listed[hseg])
                    /\ ~mixed => hcodecs = segs[hseg].s \/ (hset /\ hcodecs < segs[hseg].s)
  BY DEF ServedAsListed
<1>1. hseg \in DOMAIN listed
  BY DEF Watched, Packed
<1>2. segs[hseg] = listed[hseg] \/ hflushed
  BY <1>1 DEF Watched, Kept
<1>3. ASSUME ~mixed PROVE segs[hseg] = listed[hseg] \/ Newer(segs[hseg], listed[hseg])
  BY <1>1, <1>2, <1>3 DEF Watched, Older
<1>4. ASSUME ~mixed PROVE hcodecs = segs[hseg].s \/ (hset /\ hcodecs < segs[hseg].s)
  <2>1. PICK w \in Workers : run[w] = segs[hseg].s
    BY DEF WindowInv, LiveSegments
  <2>2. w \notin waits /\ run[w] # 0
    BY <2>1 DEF WindowInv, Made, TypeOK, Packets, Sessions
  <2>3. run[w] = nsess /\ hcodecs \in Nat /\ hcodecs <= nsess
    BY <1>4, <2>2, Bounds DEF SessionInv, OwnSessions, TypeOK
  <2>4. hcodecs = run[w] \/ hset
    BY <1>4, <2>2 DEF Watched, Packed
  <2> QED
    BY <2>1, <2>3, <2>4, Bounds DEF TypeOK
<1> QED
  BY <1>2, <1>3, <1>4

LEMMA QueuedSessions ==
  ASSUME TypeOK, NEW v \in Viewers
  PROVE  \A k \in 1..Len(queue[v]) : queue[v][k].s \in Nat
<1>1. queue[v] \in Seq(Packets)
  BY DEF TypeOK
<1>2. \A k \in 1..Len(queue[v]) : queue[v][k] \in Packets
  BY <1>1
<1> QED
  BY <1>2, Bounds DEF Packets, Sessions

\* What is on its way to a viewer fits what its player was told or will be told.
LEMMA FitsStep == TypeOK /\ SessionInv /\ AllFit /\ [Next]_vars => AllFit'
<1> SUFFICES ASSUME TypeOK, SessionInv, AllFit, [Next]_vars, NEW v \in Viewers PROVE Fits(v)'
  BY DEF AllFit
<1> USE Bounds
<1>0. /\ Fits(v) /\ queue[v] \in Seq(Packets) /\ nsess \in Nat
      /\ \A k \in 1..Len(queue[v]) : queue[v][k].s \in Nat
  BY QueuedSessions, SMTT(30) DEF AllFit, TypeOK
<1>1. CASE /\ UNCHANGED <<codecs, clients, queue, vpc, vcodecs, vlast, early, renewed>>
           /\ (mixed => mixed') /\ nsess' \in {nsess, nsess + 1}
  BY <1>0, <1>1 DEF Fits, Told
<1>2. ASSUME NEW s \in Nat, CodecsUpdate(s), UNCHANGED <<clients, queue, vpc, vcodecs, vlast>>,
             mixed => mixed', nsess' \in {nsess, nsess + 1}, ~mixed' => nsess <= s
      PROVE  Fits(v)'
  <2>1. /\ codecs' = s /\ renewed' = renewed \cup {x \in Viewers : vpc[x] = "stream"}
        /\ early' = early \cup {x \in Viewers : vpc[x] = "codecs" /\ queue[x] # <<>>}
    BY <1>2 DEF CodecsUpdate
  <2>2. ASSUME vpc[v] = "codecs", ~mixed', NEW k \in 1..Len(queue[v])
        PROVE  queue[v][k].s <= s /\ v \in early'
    BY <1>0, <1>2, <2>1, <2>2 DEF Fits
  <2>3. ASSUME vpc[v] = "stream", ~mixed' PROVE Fits(v)'
    BY <1>0, <1>2, <2>1, <2>3 DEF Fits, Told
  <2> QED
    BY <1>0, <1>2, <2>1, <2>2, <2>3 DEF Fits
<1>3. ASSUME NEW w \in Workers, Connect(w) PROVE Fits(v)'
  <2>1. CASE CodecsUpdate(nsess + 1)
    <3>1. /\ UNCHANGED <<clients, queue, vpc, vcodecs, vlast>> /\ nsess' = nsess + 1
          /\ mixed => mixed'
      BY <1>3 DEF Connect
    <3> QED
      BY <1>0, <1>2, <2>1, <3>1
  <2>2. CASE ~CodecsUpdate(nsess + 1)
    BY <1>1, <1>3, <2>2 DEF Connect, KeepCodecs
  <2> QED
    BY <2>1, <2>2
<1>4. ASSUME NEW w \in Workers, SignalCodecs(w) PROVE Fits(v)'
  <2>1. run[w] \in Nat /\ (~mixed => run[w] = nsess)
    BY <1>4 DEF SignalCodecs, SessionInv, OwnSessions, TypeOK
  <2> QED
    BY <1>0, <1>2, <1>4, <2>1 DEF SignalCodecs
<1>5. ASSUME NEW w \in Workers, EndSession(w) PROVE Fits(v)'
  BY <1>1, <1>5 DEF EndSession, viewers
<1>6. CASE Replace
  BY <1>0, <1>6 DEF Replace, Fits, Told, sessions
<1>7. ASSUME NEW w \in Workers, NEW key \in BOOLEAN, Packet(w, key) PROVE Fits(v)'
  <2> DEFINE p == [s |-> run[w], n |-> count[w] + 1, key |-> key]
  <2>1. /\ UNCHANGED <<codecs, mixed, nsess, clients, vpc, vcodecs, vlast, early, renewed>>
        /\ run[w] # 0 /\ w \notin waits
        /\ \/ queue'[v] = queue[v]
           \/ v \in clients /\ queue'[v] = Append(queue[v], p)
    BY <1>7 DEF Packet, Cast
  <2>2. p \in Packets /\ p.s = run[w] /\ run[w] \in Nat /\ run[w] <= nsess
    BY <1>7, PacketType, SMTT(30) DEF TypeOK
  <2> HIDE DEF p
  <2>3. CASE queue'[v] = queue[v]
    BY <1>0, <2>1, <2>3 DEF Fits, Told
  <2>4. CASE v \in clients /\ queue'[v] = Append(queue[v], p)
    <3>1. /\ Len(queue'[v]) = Len(queue[v]) + 1
          /\ \A k \in 1..Len(queue'[v]) :
               queue'[v][k] = IF k = Len(queue[v]) + 1 THEN p ELSE queue[v][k]
      BY <1>0, <2>2, <2>4
    <3>2. Len(queue[v]) \in Nat
      BY <1>0
    <3>3. ASSUME ~mixed PROVE codecs \in {0, run[w]} /\ run[w] = nsess
      BY <2>1, <3>3 DEF SessionInv, SetByOwner, OwnSessions
    <3>4. \A k \in 1..Len(queue'[v]) : queue'[v][k] = p \/ (k \in 1..Len(queue[v]) /\ queue'[v][k] = queue[v][k])
      BY <3>1, <3>2
    <3>5. vpc[v] # "idle"
      BY <1>0, <2>4 DEF Fits
    <3>6. ASSUME vpc[v] = "codecs", ~mixed, codecs # 0, NEW k \in 1..Len(queue'[v])
          PROVE  queue'[v][k].s <= codecs /\ (v \in early \/ queue'[v][k].s = codecs)
      BY <1>0, <2>2, <3>3, <3>4, <3>6 DEF Fits
    <3>7. ASSUME vpc[v] = "stream", ~mixed
          PROVE  Told(v, run[w])
      <4>1. vcodecs[v] \in Nat /\ vcodecs[v] <= nsess /\ vcodecs[v] # 0
        BY <1>0, <3>7 DEF Fits, TypeOK
      <4>2. codecs = vcodecs[v] \/ v \in renewed
        BY <1>0, <2>4, <3>7 DEF Fits
      <4> QED
        BY <2>2, <3>3, <3>7, <4>1, <4>2 DEF Told
    <3>8. ASSUME vpc[v] = "stream", ~mixed, NEW k \in 1..Len(queue'[v])
          PROVE  Told(v, queue'[v][k].s)
      BY <1>0, <2>2, <3>4, <3>7, <3>8 DEF Fits
    <3>9. \A k \in 1..Len(queue'[v]) : queue'[v][k].s <= nsess
      BY <1>0, <2>2, <3>4 DEF Fits
    <3> QED
      BY <1>0, <2>1, <3>5, <3>6, <3>8, <3>9 DEF Fits, Told
  <2> QED
    BY <2>1, <2>3, <2>4
<1>8. ASSUME NEW x \in Viewers, Join(x) PROVE Fits(v)'
  BY <1>0, <1>8 DEF Join, Fits, Told, channel, sessions, TypeOK
<1>9. ASSUME NEW x \in Viewers, TellCodecs(x) PROVE Fits(v)'
  <2>1. CASE x # v
    BY <1>0, <1>9, <2>1 DEF TellCodecs, Fits, Told, channel, sessions, TypeOK
  <2>2. CASE x = v
    <3>1. /\ vpc[v] = "codecs" /\ codecs # 0 /\ vpc'[v] = "stream" /\ vcodecs'[v] = codecs
          /\ UNCHANGED <<codecs, mixed, nsess, clients, queue, vlast, early, renewed>>
      BY <1>9, <2>2 DEF TellCodecs, channel, sessions, TypeOK
    <3>2. codecs \in Nat /\ \A k \in 1..Len(queue[v]) : queue[v][k].s \in Nat
      <4>1. \A k \in 1..Len(queue[v]) : queue[v][k] \in Packets
        BY <1>0
      <4> QED
        BY <4>1, SMTT(30) DEF TypeOK, Packets, Sessions
    <3>3. ASSUME ~mixed, NEW k \in 1..Len(queue[v]) PROVE Told(v, queue[v][k].s)'
      BY <1>0, <3>1, <3>2, <3>3 DEF Fits, Told
    <3> QED
      BY <1>0, <3>1, <3>3 DEF Fits, Told
  <2> QED
    BY <2>1, <2>2
<1>10. ASSUME NEW x \in Viewers, Send(x) PROVE Fits(v)'
  <2>1. CASE x # v
    BY <1>0, <1>10, <2>1 DEF Send, Fits, Told, channel, sessions, TypeOK
  <2>2. CASE x = v
    <3>1. /\ vpc[v] = "stream" /\ queue[v] # <<>> /\ queue'[v] = Tail(queue[v])
          /\ vlast'[v] \in {vlast[v], Head(queue[v])}
          /\ UNCHANGED <<codecs, mixed, nsess, clients, vpc, vcodecs, early, renewed>>
      BY <1>10, <2>2 DEF Send, channel, sessions, TypeOK
    <3>2. /\ 1 \in 1..Len(queue[v]) /\ Head(queue[v]) = queue[v][1]
          /\ \A k \in 1..Len(queue'[v]) : k + 1 \in 1..Len(queue[v]) /\ queue'[v][k] = queue[v][k + 1]
      BY <1>0, <3>1
    <3> QED
      BY <1>0, <3>1, <3>2 DEF Fits, Told
  <2> QED
    BY <2>1, <2>2
<1>11. ASSUME NEW x \in Viewers, Leave(x) PROVE Fits(v)'
  BY <1>0, <1>11 DEF Leave, Fits, Told, channel, sessions, TypeOK
<1>12. ASSUME GetPlaylist \/ (\E i \in DOMAIN listed : AskSegment(i)) \/ GetSegment \/ ForgetPlaylist PROVE Fits(v)'
  BY <1>0, <1>1, <1>12 DEF GetPlaylist, AskSegment, GetSegment, ForgetPlaylist, channel, sessions, viewers
<1>13. CASE UNCHANGED vars
  BY <1>0, <1>1, <1>13 DEF vars, channel, sessions, viewers
<1> QED
  BY <1>3, <1>4, <1>5, <1>6, <1>7, <1>8, <1>9, <1>10, <1>11, <1>12, <1>13 DEF Next

LEMMA FittingIsSent == TypeOK /\ AllFit => CodecsFit
<1> SUFFICES ASSUME TypeOK, AllFit, ~mixed, NEW v \in Viewers, vlast[v] # NoPacket
             PROVE  Told(v, vlast[v].s)
  BY DEF CodecsFit, Told
<1>1. vpc[v] = "stream"
  BY DEF AllFit, Fits
<1> QED
  BY <1>1 DEF AllFit, Fits
-----------------------------------------------------------------------------
(* Lines of packets.                                                       *)

\* A line of a viewer, and its length.
LEMMA LineType ==
  ASSUME TypeOK, NEW v \in Viewers
  PROVE  /\ Line(v) \in Seq(Packets)
         /\ vlast[v] # NoPacket => /\ Len(Line(v)) = Len(queue[v]) + 1
                                   /\ Line(v)[1] = vlast[v]
                                   /\ \A i \in 1..Len(queue[v]) : Line(v)[i + 1] = queue[v][i]
<1>1. queue[v] \in Seq(Packets) /\ vlast[v] \in Packets \cup {NoPacket}
  BY DEF TypeOK
<1>2. CASE vlast[v] = NoPacket
  BY <1>1, <1>2 DEF Line
<1>3. CASE vlast[v] # NoPacket
  <2>1. <<vlast[v]>> \in Seq(Packets) /\ Len(<<vlast[v]>>) = 1 /\ <<vlast[v]>>[1] = vlast[v]
    BY <1>1, <1>3
  <2>2. Line(v) = <<vlast[v]>> \o queue[v]
    BY <1>3 DEF Line
  <2>3. /\ Line(v) \in Seq(Packets) /\ Len(Line(v)) = 1 + Len(queue[v])
        /\ \A i \in 1..(1 + Len(queue[v])) :
             Line(v)[i] = IF i <= 1 THEN <<vlast[v]>>[i] ELSE queue[v][i - 1]
    BY <1>1, <2>1, <2>2, ConcatProperties
  <2>4. Len(queue[v]) \in Nat
    BY <1>1
  <2> QED
    BY <2>1, <2>3, <2>4
<1> QED
  BY <1>2, <1>3

LEMMA PacketFields ==
  ASSUME NEW line \in Seq(Packets)
  PROVE  /\ Len(line) \in Nat /\ DOMAIN line = 1..Len(line)
         /\ \A i \in 1..Len(line) : line[i].n \in Int /\ line[i].s \in Int
<1>1. \A i \in 1..Len(line) : line[i] \in Packets
  BY ElementOfSeq
<1> QED
  BY <1>1, LenProperties, Bounds DEF Packets, Sessions

\* The first packet leaves.
LEMMA LineTail ==
  ASSUME NEW line \in Seq(Packets), line # <<>>, NEW rest \in Seq(Packets), rest = Tail(line)
  PROVE  /\ Gapless(line) => Gapless(rest)
         /\ \A s, last : UpTo(line, s, last) => UpTo(rest, s, last)
         /\ \A i \in DOMAIN rest : i + 1 \in DOMAIN line /\ rest[i] = line[i + 1]
<1>1. /\ Len(line) \in Nat /\ Len(rest) = Len(line) - 1 /\ Len(rest) \in Nat
      /\ DOMAIN line = 1..Len(line) /\ DOMAIN rest = 1..Len(rest)
      /\ \A i \in 1..Len(rest) : rest[i] = line[i + 1]
  BY HeadTailProperties, PacketFields
<1>2. ASSUME Gapless(line) PROVE Gapless(rest)
  <2>1. SUFFICES ASSUME NEW i \in DOMAIN rest, NEW j \in DOMAIN rest, i < j, rest[i].s = rest[j].s
                 PROVE  /\ rest[i].n < rest[j].n
                        /\ \A n \in (rest[i].n + 1)..(rest[j].n - 1) :
                             \E k \in i..j : rest[k].s = rest[i].s /\ rest[k].n = n
    BY Zenon DEF Gapless
  <2>2. i + 1 \in DOMAIN line /\ j + 1 \in DOMAIN line /\ i + 1 < j + 1
    BY <1>1, <2>1
  <2>3. rest[i] = line[i + 1] /\ rest[j] = line[j + 1]
    BY <1>1
  <2>4. /\ rest[i].n < rest[j].n
        /\ \A n \in (rest[i].n + 1)..(rest[j].n - 1) :
             \E k \in (i + 1)..(j + 1) : line[k].s = rest[i].s /\ line[k].n = n
    BY <1>2, <2>1, <2>2, <2>3 DEF Gapless
  <2>5. ASSUME NEW n \in (rest[i].n + 1)..(rest[j].n - 1)
        PROVE  \E k \in i..j : rest[k].s = rest[i].s /\ rest[k].n = n
    <3>1. PICK k \in (i + 1)..(j + 1) : line[k].s = rest[i].s /\ line[k].n = n
      BY <2>4
    <3>2. k - 1 \in i..j /\ k - 1 \in 1..Len(rest) /\ (k - 1) + 1 = k
      BY <1>1
    <3>3. rest[k - 1] = line[k]
      BY <1>1, <3>2
    <3> QED
      BY <3>1, <3>2, <3>3
  <2> QED
    BY <2>4, <2>5
<1>3. ASSUME NEW s, NEW last, UpTo(line, s, last) PROVE UpTo(rest, s, last)
  <2>1. SUFFICES ASSUME NEW i \in 1..Len(rest), rest[i].s = s
                 PROVE  /\ rest[i].n <= last
                        /\ \A n \in (rest[i].n + 1)..last :
                             \E k \in i..Len(rest) : rest[k].s = s /\ rest[k].n = n
    BY <1>1 DEF UpTo
  <2>2. i + 1 \in DOMAIN line /\ rest[i] = line[i + 1]
    BY <1>1
  <2>3. /\ rest[i].n <= last
        /\ \A n \in (rest[i].n + 1)..last :
             \E k \in (i + 1)..Len(line) : line[k].s = s /\ line[k].n = n
    BY <1>3, <2>1, <2>2 DEF UpTo
  <2>4. ASSUME NEW n \in (rest[i].n + 1)..last
        PROVE  \E k \in i..Len(rest) : rest[k].s = s /\ rest[k].n = n
    <3>1. PICK k \in (i + 1)..Len(line) : line[k].s = s /\ line[k].n = n
      BY <2>3
    <3>2. k - 1 \in i..Len(rest) /\ k - 1 \in 1..Len(rest) /\ (k - 1) + 1 = k
      BY <1>1
    <3>3. rest[k - 1] = line[k]
      BY <1>1, <3>2
    <3> QED
      BY <3>1, <3>2, <3>3
  <2> QED
    BY <2>3, <2>4
<1> QED
  BY <1>1, <1>2, <1>3

\* The next packet of a session comes.
LEMMA LineAppend ==
  ASSUME NEW line \in Seq(Packets), NEW p \in Packets, NEW longer \in Seq(Packets),
         longer = Append(line, p), NEW m \in Int, p.n = m + 1
  PROVE  /\ Gapless(line) /\ UpTo(line, p.s, m) => Gapless(longer)
         /\ UpTo(line, p.s, m) => UpTo(longer, p.s, p.n)
         /\ \A s, last : s # p.s /\ UpTo(line, s, last) => UpTo(longer, s, last)
<1>1. /\ Len(line) \in Nat /\ Len(longer) = Len(line) + 1
      /\ DOMAIN line = 1..Len(line) /\ DOMAIN longer = 1..(Len(line) + 1)
      /\ \A i \in 1..Len(line) : longer[i] = line[i]
      /\ longer[Len(line) + 1] = p
  BY PacketFields
<1>2. /\ p.n \in Int /\ \A i \in 1..Len(line) : line[i].n \in Int
  BY PacketFields
<1>3. \A s, last : UpTo(line, s, last) =>
        \A i \in 1..Len(line) : line[i].s = s =>
          /\ longer[i].n <= last
          /\ \A n \in (longer[i].n + 1)..last :
               \E k \in i..Len(line) : longer[k].s = s /\ longer[k].n = n
  <2>0. SUFFICES ASSUME NEW s, NEW last, UpTo(line, s, last), NEW i \in 1..Len(line), line[i].s = s
                 PROVE  /\ longer[i].n <= last
                        /\ \A n \in (longer[i].n + 1)..last :
                             \E k \in i..Len(line) : longer[k].s = s /\ longer[k].n = n
    BY Zenon
  <2>1. /\ line[i].n <= last
        /\ \A n \in (line[i].n + 1)..last : \E k \in i..Len(line) : line[k].s = s /\ line[k].n = n
    BY <1>1, <2>0 DEF UpTo
  <2>2. \A k \in i..Len(line) : longer[k] = line[k]
    BY <1>1
  <2>3. longer[i] = line[i]
    BY <1>1
  <2> QED
    BY <2>1, <2>2, <2>3
<1>4. ASSUME Gapless(line), UpTo(line, p.s, m) PROVE Gapless(longer)
  <2>1. SUFFICES ASSUME NEW i \in DOMAIN longer, NEW j \in DOMAIN longer, i < j,
                        longer[i].s = longer[j].s
                 PROVE  /\ longer[i].n < longer[j].n
                        /\ \A n \in (longer[i].n + 1)..(longer[j].n - 1) :
                             \E k \in i..j : longer[k].s = longer[i].s /\ longer[k].n = n
    BY Zenon DEF Gapless
  <2>2. i \in 1..Len(line) /\ longer[i] = line[i]
    BY <1>1, <2>1
  <2>3. CASE j \in 1..Len(line)
    <3>1. longer[j] = line[j] /\ \A k \in i..j : longer[k] = line[k]
      BY <1>1, <2>3
    <3>2. /\ line[i].n < line[j].n
          /\ \A n \in (line[i].n + 1)..(line[j].n - 1) :
               \E k \in i..j : line[k].s = line[i].s /\ line[k].n = n
      BY <1>1, <1>4, <2>1, <2>2, <2>3, <3>1 DEF Gapless
    <3> QED
      BY <2>2, <3>1, <3>2
  <2>4. CASE j = Len(line) + 1
    <3>1. longer[j] = p /\ line[i].s = p.s
      BY <1>1, <2>1, <2>2, <2>4
    <3>2. /\ longer[i].n <= m
          /\ \A n \in (longer[i].n + 1)..m :
               \E k \in i..Len(line) : longer[k].s = p.s /\ longer[k].n = n
      BY <1>3, <1>4, <2>2, <3>1, SMTT(30)
    <3>3. \A k \in i..Len(line) : k \in i..j
      BY <1>1, <2>4
    <3>4. longer[i].n < longer[j].n
      BY <1>2, <2>2, <3>1, <3>2
    <3> QED
      BY <2>1, <3>1, <3>2, <3>3, <3>4
  <2> QED
    BY <1>1, <2>3, <2>4, SMTT(30)
<1>5. ASSUME UpTo(line, p.s, m) PROVE UpTo(longer, p.s, p.n)
  <2>1. SUFFICES ASSUME NEW i \in 1..(Len(line) + 1), longer[i].s = p.s
                 PROVE  /\ longer[i].n <= p.n
                        /\ \A n \in (longer[i].n + 1)..p.n :
                             \E k \in i..(Len(line) + 1) : longer[k].s = p.s /\ longer[k].n = n
    BY <1>1 DEF UpTo
  <2>0. \A h \in 1..Len(line) : line[h].s = p.s =>
          /\ longer[h].n <= m
          /\ \A n \in (longer[h].n + 1)..m :
               \E k \in h..Len(line) : longer[k].s = p.s /\ longer[k].n = n
    <3>1. UpTo(line, p.s, m)
      BY <1>5
    <3> QED
      BY <1>3, <3>1, SMTT(30)
  <2>2. CASE i = Len(line) + 1
    BY <1>1, <1>2, <2>2
  <2>3. CASE i \in 1..Len(line)
    <3>1. longer[i] = line[i] /\ longer[i].n \in Int /\ line[i].s = p.s
      BY <1>1, <1>2, <2>1, <2>3
    <3>2. /\ longer[i].n <= m
          /\ \A n \in (longer[i].n + 1)..m :
               \E k \in i..Len(line) : longer[k].s = p.s /\ longer[k].n = n
      BY <2>0, <2>3, <3>1
    <3>3. /\ Len(line) + 1 \in i..(Len(line) + 1)
          /\ \A k \in i..Len(line) : k \in i..(Len(line) + 1)
      BY <1>1, <2>3
    <3>4. \A n \in (longer[i].n + 1)..p.n : n \in (longer[i].n + 1)..m \/ n = p.n
      BY <1>2, <3>1
    <3>5. longer[i].n <= p.n
      BY <1>2, <3>1, <3>2
    <3> QED
      BY <1>1, <3>2, <3>3, <3>4, <3>5
  <2> QED
    BY <1>1, <2>2, <2>3
<1>6. ASSUME NEW s, NEW last, s # p.s, UpTo(line, s, last) PROVE UpTo(longer, s, last)
  <2>1. SUFFICES ASSUME NEW i \in 1..(Len(line) + 1), longer[i].s = s
                 PROVE  /\ longer[i].n <= last
                        /\ \A n \in (longer[i].n + 1)..last :
                             \E k \in i..(Len(line) + 1) : longer[k].s = s /\ longer[k].n = n
    BY <1>1 DEF UpTo
  <2>2. i \in 1..Len(line) /\ line[i].s = s
    BY <1>1, <1>6, <2>1
  <2>3. \A k \in i..Len(line) : k \in i..(Len(line) + 1)
    BY <1>1
  <2> QED
    BY <1>3, <1>6, <2>2, <2>3
<1> QED
  BY <1>4, <1>5, <1>6

\* Sequences with one packet before them.
LEMMA HeadCons ==
  ASSUME NEW q \in Seq(Packets), q # <<>>
  PROVE  <<Head(q)>> \o Tail(q) = q
<1>1. /\ Len(q) \in Nat \ {0} /\ Head(q) = q[1] /\ Head(q) \in Packets
      /\ Tail(q) \in Seq(Packets) /\ Len(Tail(q)) = Len(q) - 1
      /\ \A i \in 1..Len(Tail(q)) : Tail(q)[i] = q[i + 1]
  BY HeadTailProperties, EmptySeq
<1>2. <<Head(q)>> \in Seq(Packets) /\ Len(<<Head(q)>>) = 1 /\ <<Head(q)>>[1] = Head(q)
  BY <1>1
<1>3. /\ <<Head(q)>> \o Tail(q) \in Seq(Packets) /\ Len(<<Head(q)>> \o Tail(q)) = 1 + Len(Tail(q))
      /\ \A i \in 1..(1 + Len(Tail(q))) :
           (<<Head(q)>> \o Tail(q))[i] = IF i <= 1 THEN <<Head(q)>>[i] ELSE Tail(q)[i - 1]
  BY <1>1, <1>2, ConcatProperties
<1>4. \A i \in 1..Len(q) : (<<Head(q)>> \o Tail(q))[i] = q[i]
  BY <1>1, <1>2, <1>3
<1> QED
  BY <1>1, <1>3, <1>4, SeqEqual

LEMMA TailOfCons ==
  ASSUME NEW x \in Packets, NEW q \in Seq(Packets)
  PROVE  Tail(<<x>> \o q) = q /\ <<x>> \o q # <<>>
<1> DEFINE all == <<x>> \o q
<1>1. Len(q) \in Nat /\ <<x>> \in Seq(Packets) /\ Len(<<x>>) = 1
  OBVIOUS
<1>2. /\ all \in Seq(Packets) /\ Len(all) = 1 + Len(q)
      /\ \A i \in 1..(1 + Len(q)) : all[i] = IF i <= 1 THEN <<x>>[i] ELSE q[i - 1]
  BY <1>1, ConcatProperties
<1> HIDE DEF all
<1>3. all # <<>>
  BY <1>1, <1>2
<1>4. /\ Tail(all) \in Seq(Packets) /\ Len(Tail(all)) = Len(q)
      /\ \A i \in 1..Len(q) : Tail(all)[i] = all[i + 1]
  BY <1>1, <1>2, <1>3, HeadTailProperties
<1>5. \A i \in 1..Len(q) : Tail(all)[i] = q[i]
  BY <1>1, <1>2, <1>4
<1>6. Tail(all) = q
  BY <1>4, <1>5, SeqEqual
<1> QED
  BY <1>3, <1>6 DEF all

LEMMA ConsAppend ==
  ASSUME NEW x \in Packets, NEW q \in Seq(Packets), NEW p \in Packets
  PROVE  <<x>> \o Append(q, p) = Append(<<x>> \o q, p)
<1>1. <<x>> \in Seq(Packets) /\ <<p>> \in Seq(Packets) /\ <<x>> \o q \in Seq(Packets)
  BY ConcatProperties
<1>2. Append(q, p) = q \o <<p>> /\ Append(<<x>> \o q, p) = (<<x>> \o q) \o <<p>>
  BY <1>1, AppendIsConcat
<1> QED
  BY <1>1, <1>2, ConcatAssociative

\* A line that stays as it is, while no session goes on to its viewer.
LEMMA SameLine ==
  ASSUME TypeOK, NEW v \in Viewers, Whole(v), queue'[v] = queue[v], vlast'[v] = vlast[v],
         v \in vstart => v \in vstart', v \in lost => v \in lost', nsess <= nsess', nsess' \in Int,
         v \in clients' => v \in clients,
         \A w \in Workers : run'[w] # 0 =>
           (run'[w] = run[w] /\ count'[w] = count[w]) \/ run'[w] > nsess
  PROVE  Whole(v)'
<1>1. Line(v)' = Line(v)
  BY DEF Line
<1>2. \A i \in DOMAIN Line(v) : Line(v)[i].s \in Int /\ Line(v)[i].s <= nsess /\ nsess \in Int
  BY LineType, PacketFields, SMTT(30) DEF Whole, TypeOK
<1>3. \A s, last : s > nsess => UpTo(Line(v), s, last)
  BY <1>2 DEF UpTo
<1>4. ASSUME v \in clients' \ lost', NEW w \in Workers, run'[w] # 0
      PROVE  UpTo(Line(v), run'[w], count'[w])
  BY <1>3, <1>4 DEF Whole
<1>5. \A i \in DOMAIN Line(v) : Line(v)[i].s <= nsess'
  BY <1>2
<1>6. v \notin lost' => Gapless(Line(v))
  BY DEF Whole
<1>7. vlast'[v] # NoPacket => v \in vstart'
  BY DEF Whole
<1>8. (v \notin lost => Gapless(Line(v)))' /\ (\A i \in DOMAIN Line(v) : Line(v)[i].s <= nsess)'
  BY <1>1, <1>5, <1>6 DEF Gapless
<1>9. (v \in clients \ lost => \A w \in Workers : run[w] # 0 => UpTo(Line(v), run[w], count[w]))'
  BY <1>1, <1>4 DEF UpTo
<1> QED
  BY <1>7, <1>8, <1>9 DEF Whole

\* A packet comes: to a client that is not full it is the next of its session.
LEMMA PacketKeepsWhole ==
  ASSUME TypeOK, SessionInv, NEW v \in Viewers, Whole(v),
         NEW w \in Workers, NEW key \in BOOLEAN, Packet(w, key)
  PROVE  Whole(v)'
<1> DEFINE p == [s |-> run[w], n |-> count[w] + 1, key |-> key]
<1>1. /\ UNCHANGED <<run, nsess, clients, vlast, vstart>> /\ run[w] # 0
      /\ count' = [count EXCEPT ![w] = @ + 1]
      /\ lost' = lost \cup {x \in clients : Len(queue[x]) >= QueueCap}
      /\ queue'[v] = IF v \in clients /\ Len(queue[v]) < QueueCap THEN Append(queue[v], p) ELSE queue[v]
  BY DEF Packet, Cast, Room, HasRoom
<1>2. p \in Packets /\ p.s = run[w] /\ p.n = count[w] + 1
  BY PacketType
<1>3. /\ count'[w] = count[w] + 1 /\ \A x \in Workers \ {w} : count'[x] = count[x]
      /\ count[w] \in Int /\ nsess \in Int /\ run[w] <= nsess
  BY <1>1, Bounds DEF TypeOK
<1> HIDE DEF p
<1>4. CASE v \in clients /\ Len(queue[v]) < QueueCap
  <2>1. queue[v] \in Seq(Packets) /\ queue'[v] = Append(queue[v], p)
    BY <1>1, <1>4 DEF TypeOK
  <2>2. Line(v)' = Append(Line(v), p)
    <3>1. CASE vlast[v] = NoPacket
      BY <1>1, <2>1, <3>1 DEF Line
    <3>2. CASE vlast[v] # NoPacket
      <4>1. vlast[v] \in Packets
        BY <3>2 DEF TypeOK
      <4> QED
        BY <1>1, <1>2, <2>1, <3>2, <4>1, ConsAppend DEF Line
    <3> QED
      BY <3>1, <3>2
  <2>3. Line(v) \in Seq(Packets) /\ Line(v)' \in Seq(Packets)
    BY <1>2, <2>2, LineType
  <2>4. v \notin lost' => v \notin lost
    BY <1>1
  <2>5. \A x \in Workers : run[x] # 0 /\ run[x] = run[w] => x = w
    BY DEF SessionInv, OwnSessions
  <2>6. PICK line \in Seq(Packets), longer \in Seq(Packets), m \in Int, s \in Int :
          line = Line(v) /\ longer = Line(v)' /\ m = count[w] /\ s = run[w]
    BY <1>3, <2>3 DEF TypeOK
  <2>7. /\ Gapless(line) /\ UpTo(line, p.s, m) => Gapless(longer)
        /\ UpTo(line, p.s, m) => UpTo(longer, p.s, p.n)
        /\ \A t, last : t # p.s /\ UpTo(line, t, last) => UpTo(longer, t, last)
    BY <1>2, <2>2, <2>6, LineAppend
  <2>8. ASSUME v \notin lost' PROVE Gapless(line) /\ UpTo(line, p.s, m)
    BY <1>1, <1>2, <1>4, <2>4, <2>6, <2>8 DEF Whole
  <2>9. ASSUME v \notin lost', NEW x \in Workers, run[x] # 0 PROVE UpTo(longer, run'[x], count'[x])
    <3>1. CASE x = w
      BY <1>1, <1>2, <1>3, <2>7, <2>8, <2>9, <3>1
    <3>2. CASE x # w
      <4>1. run[x] # p.s /\ count'[x] = count[x] /\ run'[x] = run[x]
        BY <1>1, <1>2, <1>3, <2>5, <2>9, <3>2
      <4>2. UpTo(line, run[x], count[x])
        BY <1>4, <2>4, <2>6, <2>9 DEF Whole
      <4> QED
        BY <2>7, <4>1, <4>2
    <3> QED
      BY <3>1, <3>2
  <2>10. ASSUME NEW i \in DOMAIN longer PROVE longer[i].s <= nsess
    <3>1. longer[i] = p \/ (i \in DOMAIN line /\ longer[i] = line[i])
      BY <1>2, <2>2, <2>6
    <3> QED
      BY <1>2, <1>3, <2>6, <3>1 DEF Whole
  <2>11. (v \notin lost => Gapless(Line(v)))' /\ (\A i \in DOMAIN Line(v) : Line(v)[i].s <= nsess)'
    BY <1>1, <2>6, <2>7, <2>8, <2>10, SMTT(30) DEF Gapless
  <2>12. (v \in clients \ lost => \A x \in Workers : run[x] # 0 => UpTo(Line(v), run[x], count[x]))'
    BY <1>1, <2>6, <2>9, SMTT(30) DEF UpTo
  <2> QED
    BY <1>1, <2>11, <2>12 DEF Whole
<1>5. CASE v \notin clients \/ Len(queue[v]) >= QueueCap
  <2>1. queue'[v] = queue[v] /\ (v \notin clients' \/ v \in lost')
    BY <1>1, <1>5, Bounds DEF TypeOK
  <2>2. Line(v)' = Line(v)
    BY <1>1, <2>1 DEF Line
  <2>3. (v \notin lost => Gapless(Line(v)))'
    BY <1>1, <2>2 DEF Whole, Gapless
  <2> QED
    BY <1>1, <2>1, <2>2, <2>3 DEF Whole
<1>6. Len(queue[v]) \in Nat
  BY DEF TypeOK
<1> QED
  BY <1>4, <1>5, <1>6, Bounds

\* A viewer takes the first packet that waits.
LEMMA SendKeepsWhole ==
  ASSUME TypeOK, NEW v \in Viewers, Whole(v), Send(v)
  PROVE  Whole(v)'
<1>1. /\ queue[v] \in Seq(Packets) /\ queue[v] # <<>>
      /\ queue' = [queue EXCEPT ![v] = Tail(queue[v])]
      /\ vstart' = Starts(v, Head(queue[v]))
      /\ vlast' = IF v \in vstart' THEN [vlast EXCEPT ![v] = Head(queue[v])] ELSE vlast
      /\ UNCHANGED <<clients, lost, nsess, run, count>>
  BY DEF Send, sessions, TypeOK
<1>2. /\ queue'[v] = Tail(queue[v]) /\ vlast'[v] = IF v \in vstart' THEN Head(queue[v]) ELSE vlast[v]
      /\ v \in vstart => v \in vstart'
  BY <1>1 DEF TypeOK, Starts
<1>3. Head(queue[v]) \in Packets /\ Tail(queue[v]) \in Seq(Packets)
  BY <1>1, HeadTailProperties
<1>4. Line(v)' \in {Line(v), Tail(Line(v))} /\ Line(v) # <<>>
  <2>1. CASE vlast[v] = NoPacket /\ v \notin vstart'
    BY <1>1, <1>2, <2>1 DEF Line
  <2>2. CASE vlast[v] = NoPacket /\ v \in vstart'
    <3>1. Line(v)' = <<Head(queue[v])>> \o Tail(queue[v])
      BY <1>2, <1>3, <2>2, NoPacketIsNone DEF Line
    <3>2. <<Head(queue[v])>> \o Tail(queue[v]) = queue[v]
      BY <1>1, HeadCons
    <3> QED
      BY <1>1, <2>2, <3>1, <3>2 DEF Line
  <2>3. CASE vlast[v] # NoPacket
    <3>1. Line(v)' = <<Head(queue[v])>> \o Tail(queue[v])
      BY <1>2, <1>3, <2>3, NoPacketIsNone DEF Line, Whole
    <3>2. <<Head(queue[v])>> \o Tail(queue[v]) = queue[v]
      BY <1>1, HeadCons
    <3>3. vlast[v] \in Packets
      BY <2>3 DEF TypeOK
    <3>4. Tail(<<vlast[v]>> \o queue[v]) = queue[v] /\ <<vlast[v]>> \o queue[v] # <<>>
      BY <1>1, <3>3, TailOfCons
    <3> QED
      BY <2>3, <3>1, <3>2, <3>4 DEF Line
  <2> QED
    BY <2>1, <2>2, <2>3
<1>5. PICK line \in Seq(Packets), rest \in Seq(Packets) :
        line = Line(v) /\ rest = Line(v)' /\ (rest = line \/ rest = Tail(line)) /\ line # <<>>
  BY <1>1, <1>4, LineType, HeadTailProperties
<1>6. /\ Gapless(line) => Gapless(rest)
      /\ \A s, last : UpTo(line, s, last) => UpTo(rest, s, last)
      /\ \A i \in DOMAIN rest : \E j \in DOMAIN line : rest[i] = line[j]
  BY <1>5, LineTail
<1>7. /\ v \notin lost => Gapless(rest)
      /\ \A i \in DOMAIN rest : rest[i].s <= nsess
      /\ v \in clients \ lost => \A w \in Workers : run[w] # 0 => UpTo(rest, run[w], count[w])
  BY <1>5, <1>6 DEF Whole
<1>8. (v \notin lost => Gapless(Line(v)))' /\ (\A i \in DOMAIN Line(v) : Line(v)[i].s <= nsess)'
  BY <1>1, <1>5, <1>7 DEF Gapless
<1>9. (v \in clients \ lost => \A w \in Workers : run[w] # 0 => UpTo(Line(v), run[w], count[w]))'
  BY <1>1, <1>5, <1>7, SMTT(30) DEF UpTo
<1>10. vlast'[v] # NoPacket => v \in vstart'
  BY <1>2 DEF Whole
<1> QED
  BY <1>8, <1>9, <1>10 DEF Whole

\* Every step keeps the lines whole.
LEMMA WholeStep == TypeOK /\ SessionInv /\ AllFit /\ AllWhole /\ [Next]_vars => AllWhole'
<1> SUFFICES ASSUME TypeOK, SessionInv, AllFit, AllWhole, [Next]_vars, NEW v \in Viewers PROVE Whole(v)'
  BY DEF AllWhole
<1> USE Bounds
<1>0. Whole(v) /\ nsess \in Int /\ queue[v] \in Seq(Packets)
  BY DEF AllWhole, TypeOK
<1>1. CASE /\ queue'[v] = queue[v] /\ vlast'[v] = vlast[v] /\ clients' \subseteq clients
           /\ UNCHANGED <<vstart, lost, nsess, run, count>>
  BY <1>0, <1>1, SameLine
<1>2. ASSUME NEW w \in Workers, Connect(w) PROVE Whole(v)'
  <2>1. /\ UNCHANGED <<queue, vlast, clients, vstart, lost, count>> /\ nsess' = nsess + 1
        /\ run' = [run EXCEPT ![w] = nsess + 1]
    BY <1>2 DEF Connect
  <2>2. \A x \in Workers : run'[x] = run[x] \/ run'[x] = nsess + 1
    BY <2>1 DEF TypeOK
  <2> QED
    BY <1>0, <2>1, <2>2, SameLine
<1>3. ASSUME NEW w \in Workers, SignalCodecs(w) PROVE Whole(v)'
  BY <1>1, <1>3 DEF SignalCodecs
<1>4. ASSUME NEW w \in Workers, EndSession(w) PROVE Whole(v)'
  <2>1. /\ UNCHANGED <<queue, vlast, clients, vstart, lost, nsess>>
        /\ run' = [run EXCEPT ![w] = 0] /\ count' = [count EXCEPT ![w] = 0]
    BY <1>4 DEF EndSession, viewers
  <2>2. \A x \in Workers : run'[x] # 0 => run'[x] = run[x] /\ count'[x] = count[x]
    BY <2>1 DEF TypeOK
  <2> QED
    BY <1>0, <2>1, <2>2, SameLine
<1>5. CASE Replace
  BY <1>1, <1>5 DEF Replace, sessions
<1>6. ASSUME NEW w \in Workers, NEW key \in BOOLEAN, Packet(w, key) PROVE Whole(v)'
  BY <1>0, <1>6, PacketKeepsWhole
<1>7. CASE queue'[v] = <<>> /\ vlast'[v] = NoPacket
  <2>1. Line(v)' = <<>>
    BY <1>7 DEF Line
  <2>2. DOMAIN Line(v)' = {} /\ Line(v)' = (Line(v))'
    BY <2>1
  <2> QED
    BY <1>7, <2>2 DEF Whole, Gapless, UpTo
<1>8. ASSUME NEW x \in Viewers, Join(x) PROVE Whole(v)'
  <2>1. CASE x = v
    <3>1. queue[v] = <<>> /\ vlast[v] = NoPacket
      BY <1>8, <2>1 DEF Join, AllFit, Fits
    <3> QED
      BY <1>7, <1>8, <3>1 DEF Join
  <2>2. CASE x # v
    <3>1. v \in clients' => v \in clients
      BY <1>8, <2>2 DEF Join
    <3> QED
      BY <1>0, <1>8, <3>1, SameLine DEF Join, sessions
  <2> QED
    BY <2>1, <2>2
<1>9. ASSUME NEW x \in Viewers, TellCodecs(x) PROVE Whole(v)'
  BY <1>1, <1>9 DEF TellCodecs, sessions
<1>10. ASSUME NEW x \in Viewers, Send(x) PROVE Whole(v)'
  <2>1. CASE x = v
    BY <1>0, <1>10, <2>1, SendKeepsWhole
  <2>2. CASE x # v
    <3>1. /\ queue'[v] = queue[v] /\ vlast'[v] = vlast[v] /\ vstart \subseteq vstart'
          /\ UNCHANGED <<clients, lost, nsess, run, count>>
      BY <1>10, <2>2 DEF Send, Starts, sessions, TypeOK
    <3> QED
      BY <1>0, <3>1, SameLine
  <2> QED
    BY <2>1, <2>2
<1>11. ASSUME NEW x \in Viewers, Leave(x) PROVE Whole(v)'
  <2>1. CASE x = v
    BY <1>7, <1>11, <2>1 DEF Leave, TypeOK
  <2>2. CASE x # v
    <3>1. /\ queue'[v] = queue[v] /\ vlast'[v] = vlast[v] /\ clients' \subseteq clients
          /\ v \in vstart => v \in vstart'
          /\ v \in lost => v \in lost'
          /\ UNCHANGED <<nsess, run, count>>
      BY <1>11, <2>2 DEF Leave, sessions, TypeOK
    <3> QED
      BY <1>0, <3>1, SameLine
  <2> QED
    BY <2>1, <2>2
<1>12. ASSUME GetPlaylist \/ (\E i \in DOMAIN listed : AskSegment(i)) \/ GetSegment \/ ForgetPlaylist PROVE Whole(v)'
  BY <1>1, <1>12 DEF GetPlaylist, AskSegment, GetSegment, ForgetPlaylist, sessions, viewers
<1>13. CASE UNCHANGED vars
  BY <1>1, <1>13 DEF vars, sessions, viewers
<1> QED
  BY <1>2, <1>3, <1>4, <1>5, <1>6, <1>8, <1>9, <1>10, <1>11, <1>12, <1>13 DEF Next
-----------------------------------------------------------------------------
\* The inductive invariant.
IInv == TypeOK /\ SessionInv /\ WindowInv /\ Watched /\ AllFit /\ AllWhole

\* It holds initially, and every step keeps it.
LEMMA InvInit == Init => IInv
<1> SUFFICES ASSUME Init PROVE IInv
  OBVIOUS
<1>1. DOMAIN segs = {}
  BY EmptyWindow DEF Init
<1>2. number = 0 /\ seqno = 0 /\ (seqno + 1)..number = {}
  BY DEF Init
<1>3. SessionInv
  BY DEF Init, SessionInv, OwnSessions, SetByOwner
<1>4. WindowInv
  BY <1>1, <1>2, Bounds DEF WindowInv, WindowShape, LiveSegments, Made
<1>5. Watched
  BY DEF Init, Watched, Kept, Older, Packed, Rested
<1>6. AllFit
  BY DEF Init, AllFit, Fits
<1>7. ASSUME NEW v \in Viewers PROVE Whole(v)
  <2>1. Line(v) = <<>> /\ vlast[v] = NoPacket
    BY DEF Init, Line
  <2>2. DOMAIN Line(v) = {}
    BY <2>1
  <2> QED
    BY <2>1, <2>2 DEF Whole, Gapless, UpTo
<1> QED
  BY <1>3, <1>4, <1>5, <1>6, <1>7, TypeInit DEF IInv, AllWhole

LEMMA InvStep == IInv /\ [Next]_vars => IInv'
BY TypeStep, SessionStep, WindowStep, WatchedStep, FitsStep, WholeStep DEF IInv

LEMMA InvCorrect == Spec => []IInv
BY InvInit, InvStep, PTL DEF Spec

\* The window of a playlist has no holes and at most Keep segments, whoever adds and flushes.
THEOREM WindowShapeCorrect == Spec => []WindowShape
<1>1. IInv => WindowShape
  BY DEF IInv, WindowInv
<1> QED
  BY <1>1, InvCorrect, PTL

\* Nothing of a session that has ended can be listed, and a session's segments are in order.
THEOREM LiveSegmentsCorrect == Spec => []LiveSegments
<1>1. IInv => LiveSegments
  BY DEF IInv, WindowInv
<1> QED
  BY <1>1, InvCorrect, PTL

\* A player that asks gets what its playlist listed, packed with the codecs of its session; after a
\* flush it gets a later segment, never an earlier one, and the codecs are older only if new ones
\* were set between its two looks.  (The codecs, and what comes after a flush, unless sessions mix.)
THEOREM ServedAsListedCorrect == Spec => []ServedAsListed
<1>1. IInv => ServedAsListed
  BY WatchedIsServed DEF IInv
<1> QED
  BY <1>1, InvCorrect, PTL

\* Unless sessions mix, a viewer is sent packets of the session whose codecs its player was told,
\* with two exceptions: of a later one if codecs were set after it was told, of an earlier one if
\* they were in its queue when the codecs it was told were set.
THEOREM CodecsFitCorrect == Spec => []CodecsFit
<1>1. IInv => CodecsFit
  BY FittingIsSent DEF IInv
<1> QED
  BY <1>1, InvCorrect, PTL

\* Between two packets of a session a viewer misses none unless its queue was full, also when
\* two sessions fill the queue, or the channel is replaced while packets wait in it.
THEOREM MissesOnlyWhenFullCorrect == Spec => []MissesOnlyWhenFull
<1>1. ASSUME IInv, NEW v \in Viewers \ lost PROVE Gapless(Line(v))
  BY <1>1 DEF IInv, AllWhole, Whole
<1>2. IInv => MissesOnlyWhenFull
  BY <1>1 DEF MissesOnlyWhenFull, Gapless, Line
<1> QED
  BY <1>2, InvCorrect, PTL
=============================================================================
