------------------------------ MODULE MuxerLL ------------------------------
(* The low-latency HLS muxer of one camera session: hlsMuxer.go,           *)
(* hlsSegment.go, hlsFragment.go, and the requests for a playlist or a     *)
(* part that block until there is something new (apiHTTPHLSLL.go).         *)
(*                                                                         *)
(* The worker writes packets, the requests read; a mutex guards both, but  *)
(* a request reads the playlist, and the context it waits for, after it    *)
(* has given the mutex back.  Durations are counted in packets: the worker *)
(* gives every packet the duration of one frame (streamCore.go).           *)
EXTENDS Integers, FiniteSets

CONSTANTS
  Requests,        \* HTTP requests that may be open at once
  Retention,       \* hlsSegmentRetention, 18
  FragmentPackets, \* packets that fill a fragment (FragmentMS, at most 1 s)
  SegmentPackets,  \* packets after which a key frame begins a segment (4 s)
  MaxMSN, MaxPart  \* bounds: segments, and parts of a segment

ASSUME MuxerAssumption ==
  /\ Retention \in Nat \ {0}
  /\ FragmentPackets \in Nat \ {0} /\ SegmentPackets \in Nat
  /\ FragmentPackets < SegmentPackets
  /\ MaxMSN \in Nat /\ MaxPart \in Nat

VARIABLES
  msn,         \* MSN: the segment being written, or -1
  segments,    \* keys of Segments
  part,        \* part[m]: CurrentFragmentID of segment m
  closed,      \* segments with Finish set
  inFragment,  \* packets in the fragment being written
  inSegment,   \* packets in the segment being written
  sequence,    \* MediaSequence
  current,     \* the muxer's CurrentFragmentID
  cache,       \* CacheM3U8
  epoch,       \* how often FragmentCtx was cancelled and made anew
  pc,          \* where a request is
  need,        \* the segment and the part it asks for
  seen,        \* the epoch of the context it waits for
  asked,       \* MSN when it asked
  got          \* the playlist it is answered with

muxer == <<msn, segments, part, closed, inFragment, inSegment, sequence, current, cache, epoch>>
requests == <<pc, need, seen, asked, got>>
vars == <<muxer, requests>>

MSNs == 0..MaxMSN
Parts == 0..MaxPart
Playlists == [seq : MSNs \cup {-1}, segs : SUBSET MSNs,
              part : [MSNs -> Parts \cup {-1}], closed : SUBSET MSNs]
NoPlaylist == [seq |-> -1, segs |-> {}, part |-> [m \in MSNs |-> -1], closed |-> {}]

TypeOK ==
  /\ msn \in MSNs \cup {-1}
  /\ segments \subseteq MSNs /\ closed \subseteq MSNs
  /\ part \in [MSNs -> Parts \cup {-1}]
  /\ inFragment \in 0..FragmentPackets
  /\ inSegment \in 0..SegmentPackets
  /\ sequence \in MSNs
  /\ current \in Parts
  /\ cache \in Playlists
  /\ epoch \in Nat
  /\ pc \in [Requests -> {"idle", "index", "indexWait", "read", "fragment", "fragmentWait",
                          "answered", "failed"}]
  /\ need \in [Requests -> (MSNs \cup {-1}) \X (Parts \cup {-1})]
  /\ seen \in [Requests -> Nat]
  /\ asked \in [Requests -> MSNs \cup {-1}]
  /\ got \in [Requests -> Playlists]
-----------------------------------------------------------------------------
(* The worker's side: WritePacket.                                         *)

AtLeast(n, limit) == IF n < limit THEN n ELSE limit   \* a count, up to where it matters

\* A key frame ends the segment when there is none or when it is long enough.
Rolls(keyFrame) == keyFrame /\ (msn = -1 \/ inSegment >= SegmentPackets)

\* The oldest segment leaves the window before the next one enters it.
DropOneLate(S) == IF Cardinality(S) > Retention THEN {msn - Retention + 1} ELSE {}  \* mutant: off by one
Dropped(S) == IF Cardinality(S) > Retention THEN {msn - Retention} ELSE {}

OnlyForward(id) == id > current  \* mutant: a new segment begins at part 0
EveryPacket(id) == TRUE    \* mutant: an update with every packet
IndexChanges(id) == id # current

SameSegment == IF msn = -1 THEN 0 ELSE msn  \* mutant: counted up only once
NewSegment == msn + 1

UpdateIndexM3u8 ==
  /\ cache' = [seq |-> sequence', segs |-> segments', part |-> part', closed |-> closed']
  /\ epoch' = epoch + 1

\* The packet goes to a new fragment when there is none or when it is full.
WriteTo(m, id, full) ==
  /\ part' = [part EXCEPT ![m] = IF full THEN id + 1 ELSE id]
  /\ inFragment' = IF full THEN 1 ELSE AtLeast(inFragment + 1, FragmentPackets)

BeginSegment ==
  /\ msn < MaxMSN
  /\ msn' = NewSegment
  /\ closed' = closed \cup ({msn} \ {-1})
  /\ segments' = (segments \ Dropped(segments)) \cup {NewSegment}
  /\ sequence' = sequence + Cardinality(Dropped(segments))
  /\ inSegment' = 1
  /\ WriteTo(NewSegment, -1, TRUE)

ContinueSegment ==
  /\ msn >= 0 /\ part[msn] < MaxPart
  /\ inSegment' = AtLeast(inSegment + 1, SegmentPackets)
  /\ WriteTo(msn, part[msn], inFragment >= FragmentPackets)
  /\ UNCHANGED <<msn, closed, segments, sequence>>

\* Packets before the first key frame are thrown away.
WritePacket(keyFrame) ==
  /\ IF Rolls(keyFrame) THEN BeginSegment ELSE ContinueSegment
  /\ current' = part'[msn']
  /\ IF IndexChanges(current') THEN UpdateIndexM3u8 ELSE UNCHANGED <<cache, epoch>>
  /\ UNCHANGED requests
-----------------------------------------------------------------------------
(* The requests.                                                           *)

Goes(q, to) == pc' = [pc EXCEPT ![q] = to]

\* GetIndexM3u8: what can be answered at once.  A request for a segment that is already
\* complete is not among it.
AnswerAtOnce(m, p) ==
  /\ cache # NoPlaylist
  /\ m = -1 \/ p = -1 \/ m - msn > 1 \/ (m = msn /\ p < current)

GetIndexM3u8(q, m, p) ==
  /\ pc[q] = "idle"
  /\ need' = [need EXCEPT ![q] = <<m, p>>]
  /\ asked' = [asked EXCEPT ![q] = msn]
  /\ Goes(q, IF AnswerAtOnce(m, p) THEN "read" ELSE "index")
  /\ UNCHANGED <<muxer, seen, got>>

\* select on FragmentCtx, read without the mutex
Wait(q) ==
  /\ pc[q] \in {"index", "fragment"}
  /\ Goes(q, IF pc[q] = "index" THEN "indexWait" ELSE "fragmentWait")
  /\ seen' = [seen EXCEPT ![q] = epoch]
  /\ UNCHANGED <<muxer, need, asked, got>>

Woken(q) == seen[q] < epoch

WaitsNot(m, p) == FALSE  \* mutant: the first update will do
TooEarly(m, p) == msn < m \/ (msn = m /\ current < p)
WakeIndex(q) ==
  /\ pc[q] = "indexWait" /\ Woken(q)
  /\ Goes(q, IF TooEarly(need[q][1], need[q][2]) THEN "index" ELSE "read")
  /\ UNCHANGED <<muxer, need, seen, asked, got>>

\* return element.CacheM3U8, after the mutex was given back
ReadIndex(q) ==
  /\ pc[q] = "read"
  /\ got' = [got EXCEPT ![q] = cache]
  /\ Goes(q, "answered")
  /\ UNCHANGED <<muxer, need, seen, asked>>

Finished(m, p) == m \in segments /\ p >= 0 /\ (p < part[m] \/ (m \in closed /\ p = part[m]))

GetFragment(q, m, p) ==
  /\ pc[q] = "idle" /\ m \in MSNs
  /\ need' = [need EXCEPT ![q] = <<m, p>>]
  /\ Goes(q, IF Finished(m, p) THEN "answered"
             ELSE IF m \in segments /\ p = part[m] THEN "fragment" ELSE "failed")
  /\ UNCHANGED <<muxer, seen, asked, got>>

WakeFragment(q) ==
  /\ pc[q] = "fragmentWait" /\ Woken(q)
  /\ Goes(q, IF Finished(need[q][1], need[q][2]) THEN "answered" ELSE "failed")
  /\ UNCHANGED <<muxer, need, seen, asked, got>>

\* 3 s for a playlist, anew for every round of the loop, and 1 s for a part
TimeOut(q) ==
  /\ pc[q] \in {"indexWait", "fragmentWait"}
  /\ Goes(q, "failed")
  /\ UNCHANGED <<muxer, need, seen, asked, got>>

Done(q) ==
  /\ pc[q] \in {"answered", "failed"}
  /\ Goes(q, "idle")
  /\ need' = [need EXCEPT ![q] = <<-1, 0>>]
  /\ seen' = [seen EXCEPT ![q] = 0]
  /\ asked' = [asked EXCEPT ![q] = -1]
  /\ got' = [got EXCEPT ![q] = NoPlaylist]
  /\ UNCHANGED muxer
-----------------------------------------------------------------------------
\* NewHLSMuxer
Init ==
  /\ msn = -1 /\ segments = {} /\ closed = {}
  /\ part = [m \in MSNs |-> -1]
  /\ inFragment = 0 /\ inSegment = 0
  /\ sequence = 0 /\ current = 0
  /\ cache = NoPlaylist
  /\ epoch = 0
  /\ pc = [q \in Requests |-> "idle"]
  /\ need = [q \in Requests |-> <<-1, 0>>]
  /\ seen = [q \in Requests |-> 0]
  /\ asked = [q \in Requests |-> -1]
  /\ got = [q \in Requests |-> NoPlaylist]

Next ==
  \/ \E keyFrame \in BOOLEAN : WritePacket(keyFrame)
  \/ \E q \in Requests :
       \/ \E m \in MSNs \cup {-1}, p \in Parts \cup {-1} : GetIndexM3u8(q, m, p) \/ GetFragment(q, m, p)
       \/ Wait(q) \/ WakeIndex(q) \/ ReadIndex(q) \/ WakeFragment(q) \/ TimeOut(q) \/ Done(q)

Spec == Init /\ [][Next]_vars
-----------------------------------------------------------------------------
Listed(list, m, p) ==
  m \in list.segs /\ p >= 0 /\ (p < list.part[m] \/ (m \in list.closed /\ p = list.part[m]))

\* The header of a playlist fits its body: MEDIA-SEQUENCE is the number of the first segment
\* listed, the numbers have no gap, and the window never holds more than it is meant to.
HeaderFitsBody ==
  cache # NoPlaylist =>
    /\ cache.segs = cache.seq .. (cache.seq + Cardinality(cache.segs) - 1)
    /\ cache.seq \in cache.segs
    /\ Cardinality(cache.segs) <= Retention + 1

\* The playlist is never behind the muxer: it lists the parts that are finished, all of them
\* and no others, although it is made anew only when the number of the part changes.
IndexIsCurrent ==
  \A m \in MSNs, p \in Parts : Listed(cache, m, p) <=> Finished(m, p)

\* A client can rely on what it was told: MEDIA-SEQUENCE never goes back, a part that was
\* listed stays listed as long as its segment is in the window, and a closed segment gets no
\* more parts.
PlaylistGrows ==
  [][cache # NoPlaylist =>
       /\ cache'.seq >= cache.seq
       /\ \A m \in cache.segs :
            m >= cache'.seq =>
              /\ \A p \in Parts : Listed(cache, m, p) => Listed(cache', m, p)
              /\ m \in cache.closed => m \in cache'.closed /\ cache'.part[m] = cache.part[m]]_vars

\* A blocking request is not answered before its time: the answer has the part that was asked
\* for, or names it as the next one; unless it named none, or one of a segment so far ahead of
\* the current one, when it came, that it is not waited for.
Reached(list, m, p) ==
  \E n \in list.segs : m < n \/ (m = n /\ p <= list.part[n])
AnswerIsInTime ==
  \A q \in Requests :
    LET m == need[q][1]
        p == need[q][2]
    IN  got[q] # NoPlaylist =>
          m = -1 \/ p = -1 \/ m - asked[q] > 1 \/ Reached(got[q], m, p)

\* One wake-up is enough for a part: whenever the context a part request waits for is done,
\* the part is finished, or its segment has left the window.  (It does not try again.)
WakeIsEnough ==
  \A q \in Requests :
    pc[q] = "fragmentWait" /\ Woken(q) =>
      Finished(need[q][1], need[q][2]) \/ need[q][1] \notin segments
=============================================================================
