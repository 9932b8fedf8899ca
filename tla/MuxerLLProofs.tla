--------------------------- MODULE MuxerLLProofs ---------------------------
(* Proofs about MuxerLL, for any requests, any retention and any number of *)
(* packets in a fragment that is smaller than that of a segment.           *)
EXTENDS MuxerLL, FiniteSetTheorems, TLAPS

\* The muxer's own state: Segments is the window that ends with MSN, all but the last segment
\* are closed, and a segment whose first fragment is being written is as long as that fragment.
Window ==
  /\ msn = -1 => /\ segments = {} /\ closed = {} /\ sequence = 0
                 /\ current = 0 /\ cache = NoPlaylist
  /\ msn >= 0 => /\ segments = sequence..msn /\ closed = 0..(msn - 1)
                 /\ sequence <= msn /\ msn - sequence <= Retention
                 /\ current = part[msn]
                 /\ \A m \in 0..msn : part[m] >= 0
                 /\ part[msn] = 0 => inSegment = inFragment

\* The playlist is the muxer's state, or there is none and nothing to list.
Latest == [seq |-> sequence, segs |-> segments, part |-> part, closed |-> closed]
Cached ==
  \/ cache = NoPlaylist /\ msn <= 0 /\ current = 0
  \/ cache = Latest /\ msn >= 0

\* A part that a request waits for was there, and is finished as soon as the context is done.
PartRequest(q) ==
  pc[q] \in {"fragment", "fragmentWait"} =>
    LET m == need[q][1]
        p == need[q][2]
    IN  /\ 0 <= m /\ m <= msn /\ 0 <= p
        /\ m \in segments => p <= part[m]
        /\ pc[q] = "fragmentWait" /\ Woken(q) => Finished(m, p) \/ m \notin segments

\* A request that is about to read may read, and what it has read is in time.
MayRead(q) ==
  LET m == need[q][1]
      p == need[q][2]
  IN  m = -1 \/ p = -1 \/ m - asked[q] > 1 \/ m < msn \/ (m = msn /\ p <= current)
InTime(q) ==
  LET m == need[q][1]
      p == need[q][2]
  IN  got[q] # NoPlaylist =>
        m = -1 \/ p = -1 \/ m - asked[q] > 1 \/ Reached(got[q], m, p)
IndexRequest(q) ==
  /\ pc[q] = "read" => MayRead(q)
  /\ pc[q] # "answered" => got[q] = NoPlaylist
  /\ InTime(q)

MuxerInv == TypeOK /\ Window /\ Cached
-----------------------------------------------------------------------------
LEMMA RetentionNat == Retention \in Nat /\ Retention >= 1
BY MuxerAssumption

LEMMA BoundsNat ==
  /\ MaxMSN \in Nat /\ MaxPart \in Nat /\ SegmentPackets \in Nat
  /\ FragmentPackets \in Nat /\ FragmentPackets >= 1 /\ FragmentPackets < SegmentPackets
BY MuxerAssumption

LEMMA NoPlaylistType == NoPlaylist \in Playlists
BY BoundsNat DEF NoPlaylist, Playlists, MSNs, Parts

\* How many segments a window has.
LEMMA WindowSize ==
  ASSUME NEW a \in Int, NEW b \in Int, a <= b
  PROVE  Cardinality(a..b) = b - a + 1
BY FS_Interval

\* When the window is full, its first segment is the one to go.
LEMMA DroppedIsFirst ==
  ASSUME TypeOK, Window, msn >= 0
  PROVE  /\ msn - sequence < Retention =>
              Dropped(segments) = {} /\ Cardinality(Dropped(segments)) = 0
         /\ msn - sequence = Retention =>
              Dropped(segments) = {sequence} /\ Cardinality(Dropped(segments)) = 1
<1>1. msn \in Int /\ sequence \in Int /\ sequence <= msn
  BY BoundsNat DEF TypeOK, MSNs, Window
<1>2. Cardinality(segments) = msn - sequence + 1
  BY <1>1, WindowSize DEF Window
<1>3. CASE msn - sequence < Retention
  <2>1. ~(Cardinality(segments) > Retention)
    BY <1>1, <1>2, <1>3, RetentionNat
  <2>2. Dropped(segments) = {}
    BY <2>1 DEF Dropped
  <2>. QED BY <1>1, <1>3, <2>2, FS_EmptySet, RetentionNat
<1>4. CASE msn - sequence = Retention
  <2>1. Cardinality(segments) > Retention
    BY <1>1, <1>2, <1>4, RetentionNat
  <2>2. msn - Retention = sequence
    BY <1>1, <1>4, RetentionNat
  <2>3. Dropped(segments) = {sequence}
    BY <2>1, <2>2 DEF Dropped
  <2>. QED BY <1>1, <1>4, <2>3, FS_Singleton, RetentionNat
<1>. QED BY <1>1, <1>3, <1>4, RetentionNat
-----------------------------------------------------------------------------
\* The type of the muxer's own state, without the playlist and the requests.
MuxerType ==
  /\ msn \in MSNs \cup {-1}
  /\ segments \subseteq MSNs /\ closed \subseteq MSNs
  /\ part \in [MSNs -> Parts \cup {-1}]
  /\ inFragment \in 0..FragmentPackets
  /\ inSegment \in 0..SegmentPackets
  /\ sequence \in MSNs
  /\ current \in Parts

\* What a packet does to the muxer before the playlist is looked at.
NewWindow ==
  /\ msn >= 0 /\ segments = sequence..msn /\ closed = 0..(msn - 1)
  /\ sequence <= msn /\ msn - sequence <= Retention
  /\ \A m \in 0..msn : part[m] >= 0
  /\ part[msn] = 0 => inSegment = inFragment

LEMMA WriteToType ==
  ASSUME TypeOK, NEW m \in MSNs, NEW id \in Parts \cup {-1}, NEW full \in BOOLEAN,
         full => id < MaxPart, WriteTo(m, id, full)
  PROVE  /\ part' \in [MSNs -> Parts \cup {-1}]
         /\ part'[m] = IF full THEN id + 1 ELSE id
         /\ \A n \in MSNs \ {m} : part'[n] = part[n]
         /\ inFragment' \in 0..FragmentPackets
<1>1. id \in Int /\ (full => id + 1 \in Parts)
  BY BoundsNat DEF Parts
<1>2. part \in [MSNs -> Parts \cup {-1}] /\ inFragment \in 0..FragmentPackets
  BY DEF TypeOK
<1>3. part' = [part EXCEPT ![m] = IF full THEN id + 1 ELSE id]
  BY DEF WriteTo
<1>4. inFragment' = IF full THEN 1 ELSE AtLeast(inFragment + 1, FragmentPackets)
  BY DEF WriteTo
<1>5. inFragment' \in 0..FragmentPackets
  BY <1>2, <1>4, BoundsNat DEF AtLeast
<1>. QED BY <1>1, <1>2, <1>3, <1>5

\* A key frame closes the segment and begins one.
LEMMA BeginWindow ==
  ASSUME TypeOK, Window, Cached, BeginSegment, current' = part'[msn']
  PROVE  /\ MuxerType' /\ NewWindow' /\ part'[msn'] = 0
         /\ \A m \in 0..msn : part'[m] = part[m]
         /\ sequence' >= sequence
<1>1. msn \in Int /\ -1 <= msn /\ msn < MaxMSN /\ msn' = msn + 1 /\ msn' \in MSNs
  BY BoundsNat DEF TypeOK, MSNs, BeginSegment, NewSegment
<1>2. WriteTo(msn', -1, TRUE)
  BY DEF BeginSegment
<1>3. /\ part' \in [MSNs -> Parts \cup {-1}] /\ part'[msn'] = 0
      /\ \A n \in MSNs \ {msn'} : part'[n] = part[n]
      /\ inFragment' \in 0..FragmentPackets
  <2>1. -1 < MaxPart /\ -1 \in Parts \cup {-1} /\ TRUE \in BOOLEAN
    BY BoundsNat
  <2>. DEFINE id == -1
  <2>2. /\ part' \in [MSNs -> Parts \cup {-1}]
        /\ part'[msn'] = IF TRUE THEN id + 1 ELSE id
        /\ \A n \in MSNs \ {msn'} : part'[n] = part[n]
        /\ inFragment' \in 0..FragmentPackets
    <3>1. id \in Parts \cup {-1} /\ (TRUE => id < MaxPart) /\ WriteTo(msn', id, TRUE)
      BY <1>2, <2>1
    <3>. HIDE DEF id
    <3>. QED BY <1>1, <2>1, <3>1, WriteToType
  <2>. QED BY <2>2
<1>4. inFragment' = 1 /\ inSegment' = 1
  BY <1>2 DEF BeginSegment, WriteTo
<1>5. current' = 0 /\ current' \in Parts
  BY <1>3, BoundsNat DEF Parts
<1>6. closed' = 0..(msn' - 1)
  <2>1. closed' = closed \cup ({msn} \ {-1})
    BY DEF BeginSegment
  <2>2. CASE msn = -1
    BY <1>1, <2>1, <2>2 DEF Window
  <2>3. CASE msn >= 0
    BY <1>1, <2>1, <2>3 DEF Window
  <2>. QED BY <1>1, <2>2, <2>3
<1>7. /\ segments' = sequence'..msn' /\ sequence' \in MSNs
      /\ sequence' <= msn' /\ msn' - sequence' <= Retention
      /\ sequence' >= sequence
  <2>1. /\ segments' = (segments \ Dropped(segments)) \cup {msn'}
        /\ sequence' = sequence + Cardinality(Dropped(segments))
        /\ sequence \in Nat /\ sequence <= MaxMSN
    BY <1>1, BoundsNat DEF BeginSegment, TypeOK, MSNs
  <2>2. CASE msn = -1
    <3>1. segments = {} /\ sequence = 0
      BY <2>2 DEF Window
    <3>2. Dropped(segments) = {}
      BY <3>1, FS_EmptySet, RetentionNat DEF Dropped
    <3>3. sequence' = 0 /\ segments' = {msn'} /\ msn' = 0
      BY <1>1, <2>1, <2>2, <3>1, <3>2, FS_EmptySet
    <3>. QED BY <3>1, <3>3, RetentionNat, BoundsNat DEF MSNs
  <2>3. CASE msn >= 0 /\ msn - sequence < Retention
    <3>1. segments = sequence..msn /\ sequence <= msn
      BY <2>3 DEF Window
    <3>2. Dropped(segments) = {} /\ Cardinality(Dropped(segments)) = 0
      BY <2>3, DroppedIsFirst
    <3>3. sequence' = sequence /\ segments' = segments \cup {msn'}
      BY <2>1, <3>2
    <3>. QED BY <1>1, <2>1, <2>3, <3>1, <3>3, RetentionNat, BoundsNat DEF MSNs
  <2>4. CASE msn >= 0 /\ msn - sequence = Retention
    <3>1. segments = sequence..msn /\ sequence <= msn
      BY <2>4 DEF Window
    <3>2. Dropped(segments) = {sequence} /\ Cardinality(Dropped(segments)) = 1
      BY <2>4, DroppedIsFirst
    <3>3. sequence' = sequence + 1 /\ segments' = (segments \ {sequence}) \cup {msn'}
      BY <2>1, <3>2
    <3>. QED BY <1>1, <2>1, <2>4, <3>1, <3>3, RetentionNat, BoundsNat DEF MSNs
  <2>5. msn = -1 \/ (msn >= 0 /\ msn - sequence <= Retention)
    BY <1>1 DEF Window
  <2>. QED BY <1>1, <2>1, <2>2, <2>3, <2>4, <2>5, RetentionNat
<1>8. segments' \subseteq MSNs /\ closed' \subseteq MSNs
  BY <1>1, <1>6, <1>7, BoundsNat DEF MSNs
<1>9. \A m \in 0..msn' : part'[m] >= 0
  <2>1. \A m \in 0..msn : m \in MSNs \ {msn'} /\ part[m] >= 0
    <3>1. ASSUME NEW m \in 0..msn PROVE m \in MSNs \ {msn'} /\ msn >= 0
      BY <1>1, <3>1, BoundsNat DEF MSNs
    <3>. QED BY <3>1 DEF Window
  <2>. QED BY <1>1, <1>3, <2>1
<1>10. inSegment' \in 0..SegmentPackets
  BY <1>4, BoundsNat
<1>11. \A m \in 0..msn : part'[m] = part[m]
  <2>1. \A m \in 0..msn : m \in MSNs \ {msn'}
    BY <1>1, BoundsNat DEF MSNs
  <2>. QED BY <1>3, <2>1
<1>. QED
  BY <1>11, <1>1, <1>3, <1>4, <1>5, <1>6, <1>7, <1>8, <1>9, <1>10 DEF MuxerType, NewWindow

\* Any other packet goes to the segment that is being written.
LEMMA ContinueWindow ==
  ASSUME TypeOK, Window, Cached, ContinueSegment, current' = part'[msn']
  PROVE  /\ MuxerType' /\ NewWindow'
         /\ part' = part \/ current' # current
         /\ part'[msn] >= part[msn]
         /\ current' # current => part'[msn] > part[msn]
         /\ \A m \in 0..msn : m # msn => part'[m] = part[m]
<1>1. /\ msn \in 0..MaxMSN /\ msn \in MSNs /\ msn' = msn
      /\ UNCHANGED <<closed, segments, sequence>>
  BY BoundsNat DEF TypeOK, MSNs, ContinueSegment
<1>2. part[msn] \in Parts /\ part[msn] < MaxPart /\ part \in [MSNs -> Parts \cup {-1}]
  BY <1>1, BoundsNat DEF Window, TypeOK, ContinueSegment, Parts, MSNs
<1>. DEFINE full == inFragment >= FragmentPackets
<1>3. WriteTo(msn, part[msn], full)
  BY DEF ContinueSegment
<1>4. /\ part' \in [MSNs -> Parts \cup {-1}]
      /\ part'[msn] = IF full THEN part[msn] + 1 ELSE part[msn]
      /\ \A n \in MSNs \ {msn} : part'[n] = part[n]
      /\ inFragment' \in 0..FragmentPackets
  <2>. HIDE DEF full
  <2>1. full \in BOOLEAN
    BY DEF full
  <2>. QED BY <1>1, <1>2, <1>3, <2>1, WriteToType
<1>5. inFragment' = IF full THEN 1 ELSE AtLeast(inFragment + 1, FragmentPackets)
  BY <1>3 DEF WriteTo
<1>6. inSegment' = AtLeast(inSegment + 1, SegmentPackets) /\ inSegment \in 0..SegmentPackets
  BY DEF ContinueSegment, TypeOK
<1>7. inSegment' \in 0..SegmentPackets
  BY <1>6, BoundsNat DEF AtLeast
<1>8. /\ segments = sequence..msn /\ closed = 0..(msn - 1)
      /\ sequence <= msn /\ msn - sequence <= Retention
      /\ current = part[msn]
      /\ \A m \in 0..msn : part[m] >= 0
      /\ part[msn] = 0 => inSegment = inFragment
  BY <1>1 DEF Window
<1>9. part'[msn] = 0 => inSegment' = inFragment'
  <2>. HAVE part'[msn] = 0
  <2>1. ~full /\ part[msn] = 0
    BY <1>2, <1>4, BoundsNat DEF Parts
  <2>2. inFragment \in 0..FragmentPackets /\ inFragment < FragmentPackets
    BY <2>1, BoundsNat DEF TypeOK
  <2>. QED BY <1>5, <1>6, <1>8, <2>1, <2>2, BoundsNat DEF AtLeast
<1>10. current' \in Parts
  BY <1>1, <1>2, <1>4, BoundsNat DEF Parts
<1>11. \A m \in 0..msn' : part'[m] >= 0
  <2>1. \A m \in 0..msn : m \in MSNs
    BY <1>1, BoundsNat DEF MSNs
  <2>. QED BY <1>1, <1>2, <1>4, <1>8, <2>1, BoundsNat DEF Parts
<1>12. part' = part \/ current' # current
  <2>1. CASE full
    BY <1>1, <1>2, <1>4, <1>8, <2>1, BoundsNat DEF Parts
  <2>2. CASE ~full
    <3>1. part' = [part EXCEPT ![msn] = part[msn]]
      BY <1>3, <2>2 DEF WriteTo
    <3>. QED BY <1>2, <3>1
  <2>. QED BY <2>1, <2>2
<1>13. part'[msn] >= part[msn]
  BY <1>2, <1>4, BoundsNat DEF Parts
<1>14. MuxerType'
  BY <1>1, <1>4, <1>7, <1>10 DEF MuxerType, TypeOK
<1>15. NewWindow'
  BY <1>1, <1>8, <1>9, <1>11 DEF NewWindow
<1>16. current' # current => part'[msn] > part[msn]
  BY <1>1, <1>2, <1>4, <1>8, BoundsNat DEF Parts
<1>17. \A m \in 0..msn : m # msn => part'[m] = part[m]
  <2>1. \A m \in 0..msn : m \in MSNs
    BY <1>1, BoundsNat DEF MSNs
  <2>. QED BY <1>4, <2>1
<1>. QED BY <1>16, <1>17,  <1>12, <1>13, <1>14, <1>15
-----------------------------------------------------------------------------
\* The packet that begins a segment begins part 0, and it is never alone in its fragment with
\* the last packet of the segment before: the number of the part changes, except for the
\* very first packet.
LEMMA RollChanges ==
  ASSUME TypeOK, Window, NEW keyFrame, Rolls(keyFrame), msn # -1
  PROVE  current # 0
<1>1. inSegment >= SegmentPackets /\ inSegment \in 0..SegmentPackets
  BY DEF Rolls, TypeOK
<1>2. inFragment \in 0..FragmentPackets
  BY DEF TypeOK
<1>3. msn >= 0
  BY BoundsNat DEF TypeOK, MSNs
<1>4. current = part[msn] /\ (part[msn] = 0 => inSegment = inFragment)
  BY <1>3 DEF Window
<1>. QED BY <1>1, <1>2, <1>4, BoundsNat

LEMMA PacketWindow ==
  ASSUME MuxerInv, NEW keyFrame \in BOOLEAN, WritePacket(keyFrame)
  PROVE  /\ MuxerType' /\ Window'
         /\ msn' >= 0 /\ current' = part'[msn']
         /\ (current' = current => \/ msn = -1 /\ msn' = 0 /\ current' = 0
                                   \/ UNCHANGED <<msn, segments, part, closed, sequence>>)
<1>. USE DEF MuxerInv
<1>1. current' = part'[msn']
  BY DEF WritePacket
<1>2. CASE Rolls(keyFrame)
  <2>1. BeginSegment
    BY <1>2 DEF WritePacket
  <2>2. MuxerType' /\ NewWindow' /\ part'[msn'] = 0
    BY <1>1, <2>1, BeginWindow
  <2>3. msn' = msn + 1 /\ msn \in Int
    BY <2>1, BoundsNat DEF BeginSegment, NewSegment, TypeOK, MSNs
  <2>4. current' = current => msn = -1
    BY <1>1, <1>2, <2>2, RollChanges
  <2>5. msn' >= 0
    BY <2>2 DEF NewWindow
  <2>6. Window'
    BY <1>1, <2>2, <2>5 DEF NewWindow, Window
  <2>. QED BY <1>1, <2>2, <2>3, <2>4, <2>5, <2>6
<1>3. CASE ~Rolls(keyFrame)
  <2>1. ContinueSegment
    BY <1>3 DEF WritePacket
  <2>2. MuxerType' /\ NewWindow' /\ (part' = part \/ current' # current)
    BY <1>1, <2>1, ContinueWindow
  <2>3. UNCHANGED <<msn, closed, segments, sequence>>
    BY <2>1 DEF ContinueSegment
  <2>4. msn' >= 0
    BY <2>2 DEF NewWindow
  <2>5. Window'
    BY <1>1, <2>2, <2>4 DEF NewWindow, Window
  <2>. QED BY <1>1, <2>2, <2>3, <2>4, <2>5
<1>. QED BY <1>2, <1>3

\* After a packet the playlist is the muxer's state, whether it was made anew or not.
LEMMA PacketCached ==
  ASSUME MuxerInv, NEW keyFrame \in BOOLEAN, WritePacket(keyFrame)
  PROVE  Cached'
<1>1. /\ msn' >= 0
      /\ (current' = current => \/ msn = -1 /\ msn' = 0 /\ current' = 0
                                \/ UNCHANGED <<msn, segments, part, closed, sequence>>)
  BY PacketWindow
<1>2. CASE IndexChanges(current')
  <2>1. cache' = [seq |-> sequence', segs |-> segments', part |-> part', closed |-> closed']
    BY <1>2 DEF WritePacket, UpdateIndexM3u8
  <2>2. cache' = Latest'
    BY <2>1 DEF Latest
  <2>. QED BY <1>1, <2>2 DEF Cached
<1>3. CASE ~IndexChanges(current')
  <2>1. cache' = cache /\ current' = current
    BY <1>3 DEF WritePacket, IndexChanges
  <2>2. CASE msn = -1 /\ msn' = 0 /\ current' = 0
    <3>1. cache = NoPlaylist
      BY <2>2 DEF MuxerInv, Window
    <3>2. cache' = NoPlaylist
      BY <2>1, <3>1
    <3>. QED BY <2>2, <3>2 DEF Cached, NoPlaylist
  <2>3. CASE UNCHANGED <<msn, segments, part, closed, sequence>>
    BY <2>1, <2>3 DEF MuxerInv, Cached, Latest, NoPlaylist
  <2>. QED BY <1>1, <2>1, <2>2, <2>3
<1>. QED BY <1>2, <1>3

LEMMA PacketType ==
  ASSUME MuxerInv, NEW keyFrame \in BOOLEAN, WritePacket(keyFrame)
  PROVE  TypeOK'
<1>1. MuxerType'
  BY PacketWindow
<1>2. cache' \in Playlists
  <2>1. CASE IndexChanges(current')
    BY <1>1, <2>1 DEF WritePacket, UpdateIndexM3u8, Playlists, MuxerType
  <2>2. CASE ~IndexChanges(current')
    BY <2>2 DEF WritePacket, MuxerInv, TypeOK
  <2>. QED BY <2>1, <2>2
<1>3. epoch' \in Nat
  BY DEF WritePacket, UpdateIndexM3u8, MuxerInv, TypeOK
<1>4. UNCHANGED requests
  BY DEF WritePacket
<1>. QED BY <1>1, <1>2, <1>3, <1>4 DEF TypeOK, MuxerType, requests, MuxerInv
-----------------------------------------------------------------------------
\* The steps of a request leave the muxer alone.
RequestStep ==
  \E q \in Requests :
    \/ \E m \in MSNs \cup {-1}, p \in Parts \cup {-1} : GetIndexM3u8(q, m, p) \/ GetFragment(q, m, p)
    \/ Wait(q) \/ WakeIndex(q) \/ ReadIndex(q) \/ WakeFragment(q) \/ TimeOut(q) \/ Done(q)

LEMMA NextSplits == Next <=> (\E keyFrame \in BOOLEAN : WritePacket(keyFrame)) \/ RequestStep
BY DEF Next, RequestStep

LEMMA RequestType ==
  ASSUME TypeOK, RequestStep
  PROVE  TypeOK' /\ UNCHANGED muxer
<1>. PICK q \in Requests :
       \/ \E m \in MSNs \cup {-1}, p \in Parts \cup {-1} : GetIndexM3u8(q, m, p) \/ GetFragment(q, m, p)
       \/ Wait(q) \/ WakeIndex(q) \/ ReadIndex(q) \/ WakeFragment(q) \/ TimeOut(q) \/ Done(q)
  BY DEF RequestStep
<1>. USE DEF TypeOK, Goes, muxer
<1>1. ASSUME NEW m \in MSNs \cup {-1}, NEW p \in Parts \cup {-1}, GetIndexM3u8(q, m, p)
      PROVE  TypeOK' /\ UNCHANGED muxer
  BY <1>1 DEF GetIndexM3u8
<1>2. ASSUME NEW m \in MSNs \cup {-1}, NEW p \in Parts \cup {-1}, GetFragment(q, m, p)
      PROVE  TypeOK' /\ UNCHANGED muxer
  BY <1>2 DEF GetFragment
<1>3. CASE Wait(q)
  BY <1>3 DEF Wait
<1>4. CASE WakeIndex(q)
  BY <1>4 DEF WakeIndex
<1>5. CASE ReadIndex(q)
  BY <1>5 DEF ReadIndex
<1>6. CASE WakeFragment(q)
  BY <1>6 DEF WakeFragment
<1>7. CASE TimeOut(q)
  BY <1>7 DEF TimeOut
<1>8. CASE Done(q)
  <2>1. <<-1, 0>> \in (MSNs \cup {-1}) \X (Parts \cup {-1})
    BY BoundsNat DEF Parts
  <2>. QED BY <1>8, <2>1, NoPlaylistType DEF Done
<1>. QED BY <1>1, <1>2, <1>3, <1>4, <1>5, <1>6, <1>7, <1>8
-----------------------------------------------------------------------------
LEMMA MuxerInit == Init => MuxerInv
<1>. SUFFICES ASSUME Init PROVE MuxerInv
  OBVIOUS
<1>. USE DEF Init
<1>1. TypeOK
  <2>1. <<-1, 0>> \in (MSNs \cup {-1}) \X (Parts \cup {-1})
    BY BoundsNat DEF Parts
  <2>. QED BY <2>1, NoPlaylistType, BoundsNat DEF TypeOK, MSNs, Parts
<1>2. Window
  BY DEF Window
<1>3. Cached
  BY DEF Cached
<1>. QED BY <1>1, <1>2, <1>3 DEF MuxerInv

LEMMA MuxerStep == MuxerInv /\ [Next]_vars => MuxerInv'
<1>. SUFFICES ASSUME MuxerInv, [Next]_vars PROVE MuxerInv'
  OBVIOUS
<1>1. ASSUME NEW keyFrame \in BOOLEAN, WritePacket(keyFrame) PROVE MuxerInv'
  BY <1>1, PacketType, PacketWindow, PacketCached DEF MuxerInv
<1>2. CASE RequestStep
  <2>1. TypeOK' /\ UNCHANGED muxer
    BY <1>2, RequestType DEF MuxerInv
  <2>. QED BY <2>1 DEF MuxerInv, muxer, Window, Cached, Latest, NoPlaylist
<1>3. CASE UNCHANGED vars
  BY <1>3 DEF vars, muxer, requests, MuxerInv, TypeOK, Window, Cached, Latest, NoPlaylist
<1>. QED BY <1>1, <1>2, <1>3, NextSplits

\* The invariant of the muxer holds whatever the worker writes and whoever waits.
THEOREM MuxerInvariant == Spec => []MuxerInv
BY MuxerInit, MuxerStep, PTL DEF Spec

\* Every state of the muxer and its requests is well formed.
THEOREM TypeCorrect == Spec => []TypeOK
<1>1. MuxerInv => TypeOK
  BY DEF MuxerInv
<1>. QED BY <1>1, MuxerInvariant, PTL

LEMMA HeaderFits == MuxerInv => HeaderFitsBody
<1>. SUFFICES ASSUME MuxerInv, cache # NoPlaylist PROVE HeaderFitsBody
  BY DEF HeaderFitsBody
<1>1. cache = Latest /\ msn >= 0
  BY DEF MuxerInv, Cached
<1>2. /\ segments = sequence..msn /\ sequence <= msn /\ msn - sequence <= Retention
      /\ msn \in Int /\ sequence \in Int
  BY <1>1, BoundsNat DEF MuxerInv, Window, TypeOK, MSNs
<1>3. Cardinality(segments) = msn - sequence + 1
  BY <1>2, WindowSize
<1>4. cache.segs = segments /\ cache.seq = sequence
  BY <1>1 DEF Latest
<1>5. sequence + Cardinality(segments) - 1 = msn /\ Cardinality(segments) <= Retention + 1
  BY <1>2, <1>3, RetentionNat
<1>6. sequence \in segments
  BY <1>2
<1>. QED BY <1>2, <1>4, <1>5, <1>6 DEF HeaderFitsBody

\* MEDIA-SEQUENCE names the first segment of every playlist, for any retention.
THEOREM HeaderFitsBodyCorrect == Spec => []HeaderFitsBody
BY HeaderFits, MuxerInvariant, PTL

LEMMA IndexCurrent == MuxerInv => IndexIsCurrent
<1>. SUFFICES ASSUME MuxerInv, NEW m \in MSNs, NEW p \in Parts
              PROVE  Listed(cache, m, p) <=> Finished(m, p)
  BY DEF IndexIsCurrent
<1>1. CASE cache = Latest
  <2>1. cache.segs = segments /\ cache.part = part /\ cache.closed = closed
    BY <1>1 DEF Latest
  <2>. QED BY <2>1 DEF Listed, Finished
<1>2. CASE cache = NoPlaylist /\ msn <= 0 /\ current = 0
  <2>1. ~Listed(cache, m, p)
    BY <1>2 DEF Listed, NoPlaylist
  <2>2. CASE msn = -1
    BY <2>1, <2>2 DEF MuxerInv, Window, Finished
  <2>3. CASE msn = 0
    <3>1. /\ segments = sequence..0 /\ closed = 0..(-1) /\ part[0] = 0
          /\ sequence \in Nat
      BY <1>2, <2>3, BoundsNat DEF MuxerInv, Window, TypeOK, MSNs
    <3>2. m \in segments => m = 0
      BY <3>1
    <3>3. p \in Nat
      BY BoundsNat DEF Parts
    <3>. QED BY <2>1, <3>1, <3>2, <3>3 DEF Finished
  <2>. QED BY <1>2, <2>2, <2>3, BoundsNat DEF MuxerInv, TypeOK, MSNs
<1>. QED BY <1>1, <1>2 DEF MuxerInv, Cached

\* The playlist lists the finished parts, all of them and no others, at every moment.
THEOREM IndexIsCurrentCorrect == Spec => []IndexIsCurrent
BY IndexCurrent, MuxerInvariant, PTL
-----------------------------------------------------------------------------
\* What a packet does to the segments that were there: nothing is taken back.
Grown ==
  /\ msn' >= msn /\ sequence' >= sequence
  /\ segments' = sequence'..msn' /\ closed' = 0..(msn' - 1)
  /\ \A m \in 0..msn : part'[m] >= part[m]
  /\ \A m \in 0..msn : m < msn => part'[m] = part[m]

LEMMA PacketGrows ==
  ASSUME MuxerInv, NEW keyFrame \in BOOLEAN, WritePacket(keyFrame), msn >= 0
  PROVE  /\ Grown
         /\ current' # current => msn' > msn \/ part'[msn] > part[msn]
<1>. USE DEF MuxerInv
<1>1. current' = part'[msn'] /\ msn \in 0..MaxMSN
  BY BoundsNat DEF WritePacket, TypeOK, MSNs
<1>2. \A m \in 0..msn : part[m] \in Int
  <2>1. \A m \in 0..msn : m \in MSNs
    BY <1>1, BoundsNat DEF MSNs
  <2>. QED BY <2>1, BoundsNat DEF TypeOK, Parts
<1>3. CASE Rolls(keyFrame)
  <2>1. BeginSegment
    BY <1>3 DEF WritePacket
  <2>2. /\ NewWindow' /\ sequence' >= sequence
        /\ \A m \in 0..msn : part'[m] = part[m]
    BY <1>1, <2>1, BeginWindow
  <2>3. msn' = msn + 1
    BY <2>1 DEF BeginSegment, NewSegment
  <2>. QED BY <1>1, <1>2, <2>2, <2>3 DEF NewWindow, Grown
<1>4. CASE ~Rolls(keyFrame)
  <2>1. ContinueSegment
    BY <1>4 DEF WritePacket
  <2>2. /\ NewWindow' /\ part'[msn] >= part[msn]
        /\ current' # current => part'[msn] > part[msn]
        /\ \A m \in 0..msn : m # msn => part'[m] = part[m]
    BY <1>1, <2>1, ContinueWindow
  <2>3. msn' = msn /\ sequence' = sequence
    BY <2>1 DEF ContinueSegment
  <2>4. sequence' >= sequence
    BY <2>3, BoundsNat DEF TypeOK, MSNs
  <2>5. \A m \in 0..msn : part'[m] >= part[m]
    BY <1>1, <1>2, <2>2
  <2>. QED BY <1>1, <2>2, <2>3, <2>4, <2>5 DEF NewWindow, Grown
<1>. QED BY <1>3, <1>4

\* What was finished, or belongs to a segment that is no longer written, is finished as long
\* as its segment is in the window.
LEMMA FinishedStays ==
  ASSUME MuxerInv, TypeOK', msn >= 0, Grown, NEW m \in MSNs, NEW p \in Parts,
         m \in segments, m \in segments'
  PROVE  /\ Finished(m, p) => Finished(m, p)'
         /\ p <= part[m] /\ msn' > m => Finished(m, p)'
         /\ p < part'[m] => Finished(m, p)'
<1>1. /\ segments = sequence..msn /\ closed = 0..(msn - 1)
      /\ sequence \in Nat /\ msn \in Int
  BY BoundsNat DEF MuxerInv, Window, TypeOK, MSNs
<1>2. m \in 0..msn /\ p \in Nat
  BY <1>1, BoundsNat DEF MSNs, Parts
<1>3. part[m] \in Int /\ part'[m] \in Int /\ part'[m] >= part[m]
  BY <1>2, BoundsNat DEF MuxerInv, TypeOK, Parts, Grown
<1>4. m \in 0..(msn' - 1) => m \in closed'
  BY DEF Grown
<1>5. msn' \in Int /\ msn' >= msn
  BY BoundsNat DEF Grown, TypeOK, MSNs
<1>6. p < part'[m] => Finished(m, p)'
  BY <1>2 DEF Finished
<1>7. ASSUME p <= part[m], msn' > m
      PROVE  Finished(m, p)'
  <2>1. m \in closed'
    <3>. DEFINE new == msn'
    <3>1. new \in Int /\ new > m /\ m \in 0..msn /\ msn \in Int
      BY <1>1, <1>2, <1>5, <1>7
    <3>2. m \in 0..(new - 1) => m \in closed'
      BY <1>4
    <3>. HIDE DEF new
    <3>3. m \in 0..(new - 1)
      BY <3>1
    <3>. QED BY <3>2, <3>3
  <2>2. p < part'[m] \/ p = part'[m]
    BY <1>2, <1>3, <1>7
  <2>. QED BY <1>2, <2>1, <2>2 DEF Finished
<1>8. ASSUME Finished(m, p) PROVE Finished(m, p)'
  <2>1. CASE p < part[m]
    BY <1>2, <1>3, <1>6, <2>1
  <2>2. CASE m \in closed /\ p = part[m]
    <3>1. m < msn
      BY <1>1, <2>2
    <3>2. msn' > m /\ p <= part[m]
      BY <1>1, <1>2, <1>3, <1>5, <2>2, <3>1
    <3>. QED BY <1>7, <3>2
  <2>. QED BY <1>8, <2>1, <2>2 DEF Finished
<1>. QED BY <1>6, <1>7, <1>8
-----------------------------------------------------------------------------
LEMMA PartRequestPacket ==
  ASSUME MuxerInv, MuxerInv', NEW keyFrame \in BOOLEAN, WritePacket(keyFrame),
         NEW q \in Requests, PartRequest(q)
  PROVE  PartRequest(q)'
<1>1. UNCHANGED <<pc, need, seen>>
  BY DEF WritePacket, requests
<1>. SUFFICES ASSUME pc[q] \in {"fragment", "fragmentWait"}
              PROVE  PartRequest(q)'
  BY <1>1 DEF PartRequest
<1>. PICK m \in MSNs \cup {-1}, p \in Parts \cup {-1} : m = need[q][1] /\ p = need[q][2]
  BY DEF MuxerInv, TypeOK
<1>2. /\ 0 <= m /\ m <= msn /\ 0 <= p
      /\ m \in segments => p <= part[m]
      /\ pc[q] = "fragmentWait" /\ Woken(q) => Finished(m, p) \/ m \notin segments
  BY DEF PartRequest
<1>. SUFFICES /\ m <= msn'
              /\ m \in segments' => p <= part'[m]
              /\ (pc[q] = "fragmentWait" /\ seen[q] < epoch') =>
                   Finished(m, p)' \/ m \notin segments'
  BY <1>1, <1>2 DEF PartRequest, Woken, Finished
<1>3. m \in MSNs /\ p \in Parts /\ msn \in MSNs /\ msn \in Int /\ m \in Int /\ msn >= 0
  <2>1. msn \in MSNs \cup {-1}
    BY DEF MuxerInv, TypeOK
  <2>. QED BY <1>2, <2>1, BoundsNat DEF MSNs, Parts
<1>4. Grown /\ (current' # current => msn' > msn \/ part'[msn] > part[msn])
  BY <1>3, PacketGrows
<1>5. msn' \in Int /\ msn' >= msn /\ sequence' \in Int /\ sequence \in Int /\ sequence' >= sequence
  BY <1>4, BoundsNat DEF Grown, MuxerInv, TypeOK, MSNs
<1>6. m <= msn'
  BY <1>2, <1>3, <1>5
<1>. SUFFICES ASSUME m \in segments'
              PROVE  /\ p <= part'[m]
                     /\ pc[q] = "fragmentWait" /\ seen[q] < epoch' => Finished(m, p)'
  BY <1>6
<1>7. m \in segments
  <2>1. segments = sequence..msn /\ segments' = sequence'..msn'
    BY <1>3, <1>4 DEF MuxerInv, Window, Grown
  <2>2. sequence' <= m
    BY <2>1, <1>5
  <2>. QED BY <1>2, <1>3, <1>5, <2>1, <2>2
<1>8. /\ Finished(m, p) => Finished(m, p)'
      /\ p <= part[m] /\ msn' > m => Finished(m, p)'
      /\ p < part'[m] => Finished(m, p)'
  <2>1. TypeOK' /\ MuxerInv /\ msn >= 0 /\ Grown
    BY <1>3, <1>4 DEF MuxerInv
  <2>. QED BY <1>3, <1>7, <2>1, FinishedStays
<1>9. part[m] \in Int /\ part'[m] \in Int /\ p \in Int /\ part'[m] >= part[m] /\ p <= part[m]
  BY <1>2, <1>3, <1>4, <1>7, BoundsNat, SMTT(30) DEF MuxerInv, TypeOK, Parts, Grown
<1>10. p <= part'[m]
  BY <1>9
<1>11. ASSUME pc[q] = "fragmentWait", seen[q] < epoch'
       PROVE  Finished(m, p)'
  <2>1. CASE IndexChanges(current')
    <3>1. msn' > msn \/ part'[msn] > part[msn]
      BY <1>4, <2>1 DEF IndexChanges
    <3>2. CASE msn' > m
      BY <1>8, <1>9, <3>2
    <3>3. CASE m = msn /\ part'[msn] > part[msn]
      BY <1>8, <1>9, <3>3
    <3>. QED BY <1>2, <1>3, <1>5, <3>1, <3>2, <3>3
  <2>2. CASE ~IndexChanges(current')
    <3>1. epoch' = epoch
      BY <2>2 DEF WritePacket
    <3>2. Woken(q)
      BY <1>11, <3>1 DEF Woken
    <3>. QED BY <1>2, <1>7, <1>8, <1>11, <3>2
  <2>. QED BY <2>1, <2>2
<1>. QED BY <1>10, <1>11

LEMMA IndexRequestPacket ==
  ASSUME MuxerInv, MuxerInv', NEW keyFrame \in BOOLEAN, WritePacket(keyFrame),
         NEW q \in Requests, IndexRequest(q)
  PROVE  IndexRequest(q)'
<1>. DEFINE m == need[q][1]
            p == need[q][2]
<1>1. UNCHANGED <<pc, need, asked, got>>
  BY DEF WritePacket, requests
<1>2. m \in MSNs \cup {-1} /\ p \in Parts \cup {-1}
  BY DEF MuxerInv, TypeOK
<1>3. InTime(q)'
  BY <1>1 DEF IndexRequest, InTime, Reached
<1>4. ASSUME pc[q] = "read" PROVE MayRead(q)'
  <2>1. m = -1 \/ p = -1 \/ m - asked[q] > 1 \/ m < msn \/ (m = msn /\ p <= current)
    BY <1>4 DEF IndexRequest, MayRead
  <2>2. CASE m = -1 \/ p = -1 \/ m - asked[q] > 1
    BY <1>1, <2>2 DEF MayRead
  <2>3. CASE m # -1 /\ (m < msn \/ (m = msn /\ p <= current))
    <3>1. m \in Int /\ m >= 0 /\ msn \in Int /\ msn >= 0 /\ msn >= m
      BY <1>2, <2>3, BoundsNat DEF MSNs, MuxerInv, TypeOK
    <3>2. Grown
      BY <3>1, PacketGrows
    <3>3. msn' \in Int /\ msn' >= msn
      BY <3>2, BoundsNat DEF Grown, MuxerInv, TypeOK, MSNs
    <3>4. CASE msn' > m
      BY <1>1, <3>4 DEF MayRead
    <3>5. CASE msn' = m
      <4>1. msn = m /\ p <= current /\ msn' = msn
        BY <2>3, <3>1, <3>3, <3>5
      <4>2. current = part[msn] /\ current' = part'[msn'] /\ part'[msn] >= part[msn]
        BY <3>1, <3>2, <4>1, PacketWindow DEF MuxerInv, Window, Grown
      <4>3. p \in Int /\ current \in Int /\ current' \in Int
        BY <1>2, BoundsNat DEF Parts, MuxerInv, TypeOK
      <4>4. p <= current'
        BY <4>1, <4>2, <4>3
      <4>. QED BY <1>1, <4>1, <4>4 DEF MayRead
    <3>. QED BY <3>1, <3>3, <3>4, <3>5
  <2>. QED BY <2>1, <2>2, <2>3
<1>. QED BY <1>1, <1>3, <1>4 DEF IndexRequest
-----------------------------------------------------------------------------
\* The steps of a request that reads a playlist.
LEMMA IndexRequestStep ==
  ASSUME MuxerInv, RequestStep, NEW r \in Requests, IndexRequest(r)
  PROVE  IndexRequest(r)'
<1>. PICK q \in Requests :
       \/ \E m \in MSNs \cup {-1}, p \in Parts \cup {-1} : GetIndexM3u8(q, m, p) \/ GetFragment(q, m, p)
       \/ Wait(q) \/ WakeIndex(q) \/ ReadIndex(q) \/ WakeFragment(q) \/ TimeOut(q) \/ Done(q)
  BY DEF RequestStep
<1>1. UNCHANGED muxer
  BY RequestType DEF MuxerInv
<1>2. MayRead(r) /\ UNCHANGED <<need[r], asked[r]>> => MayRead(r)'
  BY <1>1 DEF MayRead, muxer
<1>3. UNCHANGED <<need[r], asked[r], got[r]>> => InTime(r)'
  BY DEF IndexRequest, InTime, Reached
<1>4. /\ pc \in [Requests -> {"idle", "index", "indexWait", "read", "fragment", "fragmentWait",
                          "answered", "failed"}]
      /\ need \in [Requests -> (MSNs \cup {-1}) \X (Parts \cup {-1})]
      /\ asked \in [Requests -> MSNs \cup {-1}]
      /\ got \in [Requests -> Playlists]
  BY DEF MuxerInv, TypeOK
<1>. USE DEF Goes
<1>5. ASSUME NEW m \in MSNs \cup {-1}, NEW p \in Parts \cup {-1}, GetIndexM3u8(q, m, p)
      PROVE  IndexRequest(r)'
  <2>1. CASE r = q
    <3>1. got'[r] = NoPlaylist /\ pc[q] = "idle" /\ need'[q] = <<m, p>> /\ asked'[q] = msn
      BY <1>4, <1>5, <2>1 DEF GetIndexM3u8, IndexRequest
    <3>2. InTime(r)'
      BY <3>1 DEF InTime
    <3>3. pc'[r] = "read" => AnswerAtOnce(m, p)
      BY <1>4, <1>5, <2>1 DEF GetIndexM3u8
    <3>4. AnswerAtOnce(m, p) => MayRead(r)'
      <4>. HAVE AnswerAtOnce(m, p)
      <4>1. m = -1 \/ p = -1 \/ m - msn > 1 \/ (m = msn /\ p <= current)
        BY BoundsNat DEF AnswerAtOnce, Parts, MuxerInv, TypeOK
      <4>2. need'[r][1] = m /\ need'[r][2] = p /\ asked'[r] = msn /\ msn' = msn /\ current' = current
        BY <1>1, <2>1, <3>1 DEF muxer
      <4>. QED BY <4>1, <4>2 DEF MayRead
    <3>. QED BY <3>1, <3>2, <3>3, <3>4 DEF IndexRequest
  <2>2. CASE r # q
    <3>1. UNCHANGED <<pc[r], need[r], asked[r], got[r]>>
      BY <1>4, <1>5, <2>2 DEF GetIndexM3u8
    <3>. QED BY <1>2, <1>3, <3>1 DEF IndexRequest
  <2>. QED BY <2>1, <2>2
<1>6. ASSUME NEW m \in MSNs \cup {-1}, NEW p \in Parts \cup {-1}, GetFragment(q, m, p)
      PROVE  IndexRequest(r)'
  <2>1. CASE r = q
    <3>1. got'[r] = NoPlaylist /\ pc'[r] # "read"
      BY <1>4, <1>6, <2>1 DEF GetFragment, IndexRequest
    <3>. QED BY <3>1 DEF IndexRequest, InTime
  <2>2. CASE r # q
    <3>1. UNCHANGED <<pc[r], need[r], asked[r], got[r]>>
      BY <1>4, <1>6, <2>2 DEF GetFragment
    <3>. QED BY <1>2, <1>3, <3>1 DEF IndexRequest
  <2>. QED BY <2>1, <2>2
<1>7. CASE Wait(q) \/ WakeFragment(q) \/ TimeOut(q)
  <2>1. UNCHANGED <<need[r], asked[r], got[r]>>
    BY <1>7 DEF Wait, WakeFragment, TimeOut
  <2>2. pc'[r] = pc[r] \/ (pc'[r] # "read" /\ pc[r] # "answered")
    BY <1>4, <1>7 DEF Wait, WakeFragment, TimeOut
  <2>. QED BY <1>2, <1>3, <2>1, <2>2 DEF IndexRequest
<1>8. CASE WakeIndex(q)
  <2>1. UNCHANGED <<need[r], asked[r], got[r]>>
    BY <1>8 DEF WakeIndex
  <2>2. CASE r = q
    <3>1. pc[r] # "answered" /\ pc'[r] # "answered" /\ (pc'[r] = "read" => ~TooEarly(need[r][1], need[r][2]))
      BY <1>4, <1>8, <2>2 DEF WakeIndex
    <3>2. ~TooEarly(need[r][1], need[r][2]) => MayRead(r)
      <4>1. /\ need[r][1] \in Int /\ need[r][2] \in Int /\ msn \in Int /\ current \in Int
        BY <1>4, BoundsNat DEF MuxerInv, TypeOK, MSNs, Parts
      <4>. QED BY <4>1 DEF TooEarly, MayRead
    <3>. QED BY <1>2, <1>3, <2>1, <3>1, <3>2 DEF IndexRequest
  <2>3. CASE r # q
    <3>1. pc'[r] = pc[r]
      BY <1>4, <1>8, <2>3 DEF WakeIndex
    <3>. QED BY <1>2, <1>3, <2>1, <3>1 DEF IndexRequest
  <2>. QED BY <2>2, <2>3
<1>9. CASE ReadIndex(q)
  <2>1. UNCHANGED <<need[r], asked[r]>>
    BY <1>9 DEF ReadIndex
  <2>2. CASE r = q
    <3>1. pc'[r] = "answered" /\ got'[r] = cache /\ MayRead(r)
      BY <1>4, <1>9, <2>2 DEF ReadIndex, IndexRequest
    <3>2. InTime(r)'
      <4>. DEFINE m == need[r][1]
                  p == need[r][2]
      <4>1. m = -1 \/ p = -1 \/ m - asked[r] > 1 \/ m < msn \/ (m = msn /\ p <= current)
        BY <3>1 DEF MayRead
      <4>. SUFFICES ASSUME cache # NoPlaylist, m < msn \/ (m = msn /\ p <= current)
                    PROVE  Reached(cache, m, p)
        BY <2>1, <3>1, <4>1 DEF InTime, Reached
      <4>2. cache = Latest /\ msn >= 0
        BY DEF MuxerInv, Cached
      <4>3. msn \in segments /\ current = part[msn]
        BY <4>2, BoundsNat DEF MuxerInv, Window, TypeOK, MSNs
      <4>4. cache.segs = segments /\ cache.part = part
        BY <4>2 DEF Latest
      <4>. QED BY <4>3, <4>4 DEF Reached
    <3>. QED BY <3>1, <3>2 DEF IndexRequest
  <2>3. CASE r # q
    <3>1. pc'[r] = pc[r] /\ got'[r] = got[r]
      BY <1>4, <1>9, <2>3 DEF ReadIndex
    <3>. QED BY <1>2, <1>3, <2>1, <3>1 DEF IndexRequest
  <2>. QED BY <2>2, <2>3
<1>10. CASE Done(q)
  <2>1. CASE r = q
    <3>1. got'[r] = NoPlaylist /\ pc'[r] = "idle"
      BY <1>4, <1>10, <2>1 DEF Done
    <3>. QED BY <3>1 DEF IndexRequest, InTime
  <2>2. CASE r # q
    <3>1. UNCHANGED <<pc[r], need[r], asked[r], got[r]>>
      BY <1>4, <1>10, <2>2 DEF Done
    <3>. QED BY <1>2, <1>3, <3>1 DEF IndexRequest
  <2>. QED BY <2>1, <2>2
<1>. QED BY <1>5, <1>6, <1>7, <1>8, <1>9, <1>10
-----------------------------------------------------------------------------
\* The steps of a request that reads a part.
LEMMA PartRequestStep ==
  ASSUME MuxerInv, RequestStep, NEW r \in Requests, PartRequest(r)
  PROVE  PartRequest(r)'
<1>. PICK q \in Requests :
       \/ \E m \in MSNs \cup {-1}, p \in Parts \cup {-1} : GetIndexM3u8(q, m, p) \/ GetFragment(q, m, p)
       \/ Wait(q) \/ WakeIndex(q) \/ ReadIndex(q) \/ WakeFragment(q) \/ TimeOut(q) \/ Done(q)
  BY DEF RequestStep
<1>1. UNCHANGED muxer
  BY RequestType DEF MuxerInv
<1>2. /\ pc \in [Requests -> {"idle", "index", "indexWait", "read", "fragment", "fragmentWait",
                          "answered", "failed"}]
      /\ need \in [Requests -> (MSNs \cup {-1}) \X (Parts \cup {-1})]
      /\ seen \in [Requests -> Nat] /\ epoch \in Nat
  BY DEF MuxerInv, TypeOK
<1>3. UNCHANGED <<pc[r], need[r], seen[r]>> => PartRequest(r)'
  BY <1>1 DEF PartRequest, Woken, Finished, muxer
<1>4. pc'[r] \notin {"fragment", "fragmentWait"} => PartRequest(r)'
  BY DEF PartRequest
<1>. USE DEF Goes
<1>5. ASSUME NEW m \in MSNs \cup {-1}, NEW p \in Parts \cup {-1}, GetIndexM3u8(q, m, p)
      PROVE  PartRequest(r)'
  <2>1. CASE r = q
    BY <1>2, <1>4, <1>5, <2>1 DEF GetIndexM3u8
  <2>2. CASE r # q
    BY <1>2, <1>3, <1>5, <2>2 DEF GetIndexM3u8
  <2>. QED BY <2>1, <2>2
<1>6. ASSUME NEW m \in MSNs \cup {-1}, NEW p \in Parts \cup {-1}, GetFragment(q, m, p)
      PROVE  PartRequest(r)'
  <2>1. CASE r = q
    <3>1. need'[r] = <<m, p>> /\ pc'[r] # "fragmentWait" /\ m \in MSNs
          /\ (pc'[r] = "fragment" => m \in segments /\ p = part[m])
      BY <1>2, <1>6, <2>1 DEF GetFragment
    <3>2. m \in segments /\ p = part[m] => 0 <= m /\ m <= msn /\ 0 <= p /\ p <= part[m]
      <4>. HAVE m \in segments /\ p = part[m]
      <4>1. msn >= 0 /\ msn \in Int /\ sequence \in Nat
        BY BoundsNat DEF MuxerInv, Window, TypeOK, MSNs
      <4>2. m \in sequence..msn /\ p \in Int
        BY <4>1, BoundsNat DEF MuxerInv, Window, Parts
      <4>3. m \in 0..msn
        BY <4>1, <4>2
      <4>4. part[m] >= 0
        BY <4>1, <4>3 DEF MuxerInv, Window
      <4>. QED BY <4>2, <4>3, <4>4
    <3>. QED BY <1>1, <3>1, <3>2 DEF PartRequest, muxer
  <2>2. CASE r # q
    BY <1>2, <1>3, <1>6, <2>2 DEF GetFragment
  <2>. QED BY <2>1, <2>2
<1>7. CASE Wait(q)
  <2>1. CASE r = q /\ pc[r] = "fragment"
    <3>1. pc'[r] = "fragmentWait" /\ need' = need /\ seen'[r] = epoch
      BY <1>2, <1>7, <2>1 DEF Wait
    <3>2. ~(seen'[r] < epoch') /\ segments' = segments /\ part' = part /\ msn' = msn
      BY <1>1, <1>2, <3>1 DEF muxer
    <3>. QED BY <2>1, <3>1, <3>2 DEF PartRequest, Woken
  <2>2. CASE r = q /\ pc[r] # "fragment"
    BY <1>2, <1>4, <1>7, <2>2 DEF Wait
  <2>3. CASE r # q
    BY <1>2, <1>3, <1>7, <2>3 DEF Wait
  <2>. QED BY <2>1, <2>2, <2>3
<1>8. CASE WakeIndex(q) \/ ReadIndex(q) \/ WakeFragment(q) \/ TimeOut(q) \/ Done(q)
  <2>1. CASE r = q
    <3>1. pc'[r] \notin {"fragment", "fragmentWait"}
      BY <1>2, <1>8, <2>1 DEF WakeIndex, ReadIndex, WakeFragment, TimeOut, Done
    <3>. QED BY <1>4, <3>1
  <2>2. CASE r # q
    <3>1. UNCHANGED <<pc[r], need[r], seen[r]>>
      BY <1>2, <1>8, <2>2 DEF WakeIndex, ReadIndex, WakeFragment, TimeOut, Done
    <3>. QED BY <1>3, <3>1
  <2>. QED BY <2>1, <2>2
<1>. QED BY <1>5, <1>6, <1>7, <1>8
-----------------------------------------------------------------------------
RequestInv == \A q \in Requests : PartRequest(q) /\ IndexRequest(q)

LEMMA RequestInit == Init => RequestInv
<1>. SUFFICES ASSUME Init, NEW q \in Requests PROVE PartRequest(q) /\ IndexRequest(q)
  BY DEF RequestInv
<1>1. pc[q] = "idle" /\ got[q] = NoPlaylist
  BY DEF Init
<1>. QED BY <1>1 DEF PartRequest, IndexRequest, InTime

LEMMA RequestStepInv == MuxerInv /\ RequestInv /\ [Next]_vars => RequestInv'
<1>. SUFFICES ASSUME MuxerInv, RequestInv, [Next]_vars, NEW q \in Requests
              PROVE  PartRequest(q)' /\ IndexRequest(q)'
  BY DEF RequestInv
<1>1. MuxerInv' /\ PartRequest(q) /\ IndexRequest(q)
  BY MuxerStep DEF RequestInv
<1>2. ASSUME NEW keyFrame \in BOOLEAN, WritePacket(keyFrame)
      PROVE  PartRequest(q)' /\ IndexRequest(q)'
  BY <1>1, <1>2, PartRequestPacket, IndexRequestPacket
<1>3. CASE RequestStep
  BY <1>1, <1>3, PartRequestStep, IndexRequestStep
<1>4. CASE UNCHANGED vars
  BY <1>1, <1>4 DEF vars, muxer, requests, PartRequest, IndexRequest, InTime, MayRead, Woken,
     Finished, Reached, NoPlaylist
<1>. QED BY <1>2, <1>3, <1>4, NextSplits

THEOREM RequestInvariant == Spec => []RequestInv
BY MuxerInvariant, RequestInit, RequestStepInv, PTL DEF Spec

\* A blocking request is never answered before its time.
THEOREM AnswerIsInTimeCorrect == Spec => []AnswerIsInTime
<1>1. RequestInv => AnswerIsInTime
  BY DEF RequestInv, IndexRequest, InTime, AnswerIsInTime
<1>. QED BY <1>1, RequestInvariant, PTL

\* One wake-up is enough for a request that waits for a part.
THEOREM WakeIsEnoughCorrect == Spec => []WakeIsEnough
<1>1. RequestInv => WakeIsEnough
  BY DEF RequestInv, PartRequest, WakeIsEnough
<1>. QED BY <1>1, RequestInvariant, PTL
-----------------------------------------------------------------------------
LEMMA GrowsStep ==
  MuxerInv /\ MuxerInv' /\ [Next]_vars =>
    (cache # NoPlaylist =>
       /\ cache'.seq >= cache.seq
       /\ \A m \in cache.segs :
            m >= cache'.seq =>
              /\ \A p \in Parts : Listed(cache, m, p) => Listed(cache', m, p)
              /\ m \in cache.closed => m \in cache'.closed /\ cache'.part[m] = cache.part[m])
<1>. SUFFICES ASSUME MuxerInv, MuxerInv', [Next]_vars, cache # NoPlaylist
              PROVE  /\ cache'.seq >= cache.seq
                     /\ \A m \in cache.segs :
                          m >= cache'.seq =>
                            /\ \A p \in Parts : Listed(cache, m, p) => Listed(cache', m, p)
                            /\ m \in cache.closed => /\ m \in cache'.closed
                                                     /\ cache'.part[m] = cache.part[m]
  OBVIOUS
<1>1. cache = Latest /\ msn >= 0
  BY DEF MuxerInv, Cached
<1>2. sequence \in Nat /\ msn \in Int /\ segments = sequence..msn /\ closed = 0..(msn - 1)
  BY <1>1, BoundsNat DEF MuxerInv, TypeOK, MSNs, Window
<1>3. CASE cache' = cache
  BY <1>1, <1>2, <1>3 DEF Latest, Listed
<1>4. ASSUME NEW keyFrame \in BOOLEAN, WritePacket(keyFrame), cache' # cache
      PROVE  /\ cache'.seq >= cache.seq
             /\ \A m \in cache.segs :
                  m >= cache'.seq =>
                    /\ \A p \in Parts : Listed(cache, m, p) => Listed(cache', m, p)
                    /\ m \in cache.closed => /\ m \in cache'.closed
                                             /\ cache'.part[m] = cache.part[m]
  <2>1. cache' = [seq |-> sequence', segs |-> segments', part |-> part', closed |-> closed']
    BY <1>4 DEF WritePacket, UpdateIndexM3u8
  <2>2. Grown /\ TypeOK'
    BY <1>1, <1>4, PacketGrows DEF MuxerInv
  <2>3. cache'.seq = sequence' /\ cache'.segs = segments' /\ cache'.part = part' /\ cache'.closed = closed'
    BY <2>1
  <2>4. cache.seq = sequence /\ cache.segs = segments /\ cache.part = part /\ cache.closed = closed
    BY <1>1 DEF Latest
  <2>5. cache'.seq >= cache.seq
    BY <2>2, <2>3, <2>4 DEF Grown
  <2>6. ASSUME NEW m \in segments, m >= sequence'
        PROVE  /\ \A p \in Parts : Listed(cache, m, p) => Listed(cache', m, p)
               /\ m \in closed => m \in closed' /\ part'[m] = part[m]
    <3>1. m \in MSNs /\ m \in segments'
      <4>1. sequence' \in Int /\ msn' \in Int /\ msn' >= msn /\ segments' = sequence'..msn'
        BY <2>2, BoundsNat DEF Grown, TypeOK, MSNs
      <4>2. m \in sequence..msn /\ m \in MSNs
        BY <1>2, <2>6 DEF MuxerInv, TypeOK
      <4>. QED BY <1>2, <2>6, <4>1, <4>2
    <3>2. ASSUME NEW p \in Parts, Listed(cache, m, p) PROVE Listed(cache', m, p)
      <4>1. Finished(m, p)
        BY <2>4, <3>2 DEF Listed, Finished
      <4>2. Finished(m, p) => Finished(m, p)'
        BY <1>1, <2>2, <3>1, FinishedStays
      <4>3. m \in segments' /\ p >= 0 /\ (p < part'[m] \/ (m \in closed' /\ p = part'[m]))
        BY <4>1, <4>2 DEF Finished
      <4>. QED BY <2>3, <4>3 DEF Listed
    <3>3. ASSUME m \in closed PROVE m \in closed' /\ part'[m] = part[m]
      <4>1. m \in 0..msn /\ m < msn
        BY <1>2, <3>3
      <4>2. part'[m] = part[m]
        BY <2>2, <4>1 DEF Grown
      <4>3. m \in closed'
        <5>. DEFINE new == msn'
        <5>1. new \in Int /\ new >= msn /\ closed' = 0..(new - 1)
          BY <2>2, BoundsNat DEF Grown, TypeOK, MSNs
        <5>. HIDE DEF new
        <5>. QED BY <1>2, <4>1, <5>1
      <4>. QED BY <4>2, <4>3
    <3>. QED BY <3>2, <3>3
  <2>. QED BY <2>3, <2>4, <2>5, <2>6
<1>5. CASE RequestStep
  BY <1>3, <1>5, RequestType DEF MuxerInv, muxer
<1>6. CASE UNCHANGED vars
  BY <1>3, <1>6 DEF vars, muxer
<1>. QED BY <1>3, <1>4, <1>5, <1>6, NextSplits

\* What a playlist promised, the next one keeps.
THEOREM PlaylistGrowsCorrect == Spec => PlaylistGrows
<1>1. MuxerInv /\ MuxerInv' /\ [Next]_vars =>
        [cache # NoPlaylist =>
           /\ cache'.seq >= cache.seq
           /\ \A m \in cache.segs :
                m >= cache'.seq =>
                  /\ \A p \in Parts : Listed(cache, m, p) => Listed(cache', m, p)
                  /\ m \in cache.closed => m \in cache'.closed /\ cache'.part[m] = cache.part[m]]_vars
  BY GrowsStep
<1>. QED BY <1>1, MuxerInvariant, PTL DEF Spec, PlaylistGrows
=============================================================================
