-------------------------- MODULE RecorderProofs --------------------------
(* Theorems about Recorder and, from them, about RecordPage: for any       *)
(* channels, recordings and callers, and for any pages.                    *)
EXTENDS RecordPage, TLAPS

Ended(r) == rpc[r] \in Leaving \cup {"done"}

\* A recording is in the table exactly while it runs; its clock goes from start to finish;
\* and one that has ended did so before its running successor began.
Clocks ==
  \A r \in Recordings :
    /\ started[r] <= now
    /\ Ended(r) => started[r] <= finished[r] /\ finished[r] <= now
Successors ==
  \A r, q \in Recordings :
    Ended(r) /\ rpc[q] \in Running /\ key[r] = key[q] => finished[r] <= started[q]

RecInv == TypeOK /\ TableIsLive /\ Clocks /\ Successors /\ WritesOwnFile /\ StrayTrailerIsShort

USE DEF Running, Leaving

\* Two recordings of one channel never run at the same time.
LEMMA OneRuns ==
  ASSUME RecInv, NEW r \in Recordings, NEW q \in Recordings,
         rpc[r] \in Running, rpc[q] \in Running, key[r] = key[q]
  PROVE  r = q
<1>1. key[r] \in Keys
  BY DEF RecInv, TypeOK
<1>2. sessions[key[r]] = r /\ sessions[key[r]] = q
  BY <1>1 DEF RecInv, TableIsLive
<1> QED
  BY <1>2

LEMMA RecInit == Init => RecInv
<1> SUFFICES ASSUME Init PROVE RecInv
  OBVIOUS
<1>1. (CHOOSE k \in Keys : TRUE) \in Keys
  BY RecorderAssumption
<1>2. 0 \in 0..MaxTime /\ (-1) \in -1..MaxTime /\ 0 \in 0..StopTimeout
  BY RecorderAssumption
<1>3. /\ started \in [Recordings -> 0..MaxTime] /\ finished \in [Recordings -> -1..MaxTime]
      /\ waited \in [Callers -> 0..StopTimeout] /\ key \in [Recordings -> Keys]
  BY <1>1, <1>2, Zenon DEF Init
<1>4. TypeOK
  BY <1>2, <1>3 DEF Init, TypeOK
<1> QED
  BY <1>4, RecorderAssumption
  DEF Init, RecInv, TableIsLive, Clocks, Ended, Successors, WritesOwnFile, StrayTrailerIsShort

LEMMA RecStart ==
  ASSUME RecInv, NEW k \in Keys, NEW r \in Recordings, Start(k, r)
  PROVE  RecInv'
<1>1. /\ rpc[r] = "unborn" /\ sessions[k] = None /\ now < MaxTime
      /\ sessions' = [sessions EXCEPT ![k] = r] /\ key' = [key EXCEPT ![r] = k]
      /\ started' = [started EXCEPT ![r] = now] /\ rpc' = [rpc EXCEPT ![r] = "create"]
      /\ UNCHANGED <<now, told, finished, owner, cpc, target, waited>>
  BY DEF Start, Occupied, Busy, calls
<1>2. TypeOK'
  BY <1>1, RecorderAssumption DEF RecInv, TypeOK
<1>3. /\ rpc'[r] = "create" /\ key'[r] = k /\ started'[r] = now
      /\ \A q \in Recordings \ {r} : rpc'[q] = rpc[q] /\ key'[q] = key[q] /\ started'[q] = started[q]
  BY <1>1 DEF RecInv, TypeOK
<1>4. TableIsLive'
  <2>1. SUFFICES ASSUME NEW l \in Keys, NEW q \in Recordings
                 PROVE  sessions'[l] = q <=> key'[q] = l /\ rpc'[q] \in Running
    BY DEF TableIsLive
  <2>2. sessions'[l] = IF l = k THEN r ELSE sessions[l]
    BY <1>1 DEF RecInv, TypeOK
  <2>3. sessions[l] = q <=> key[q] = l /\ rpc[q] \in Running
    BY DEF RecInv, TableIsLive
  <2>4. sessions[k] # q
    BY <1>1, RecorderAssumption
  <2> QED
    BY <1>1, <1>3, <2>2, <2>3, <2>4
<1>5. ~Ended(r)' /\ \A q \in Recordings \ {r} : Ended(q)' <=> Ended(q)
  BY <1>3 DEF Ended
<1>6. Clocks'
  <2>1. now \in Int
    BY RecorderAssumption DEF RecInv, TypeOK
  <2> QED
    BY <1>1, <1>3, <1>5, <2>1 DEF RecInv, Clocks
<1>7. Successors'
  BY <1>1, <1>3, <1>5 DEF RecInv, Clocks, Successors
<1>8. WritesOwnFile' /\ StrayTrailerIsShort'
  BY <1>1, <1>3 DEF RecInv, WritesOwnFile, StrayTrailerIsShort, Path
<1> QED
  BY <1>2, <1>4, <1>6, <1>7, <1>8 DEF RecInv

LEMMA RecFinish ==
  ASSUME RecInv, NEW r \in Recordings, NEW pc \in Leaving, Finish(r, pc), rpc[r] \in Running,
         pc = "trailer" => rpc[r] = "loop",
         UNCHANGED <<now, key, started, told, owner, cpc, target, waited>>
  PROVE  RecInv'
<1>1. /\ rpc' = [rpc EXCEPT ![r] = pc] /\ sessions' = [sessions EXCEPT ![key[r]] = None]
      /\ finished' = [finished EXCEPT ![r] = now]
  BY DEF Finish, MoveTo, Without
<1>2. key[r] \in Keys /\ sessions[key[r]] = r /\ now \in 0..MaxTime
  BY DEF RecInv, TypeOK, TableIsLive
<1>3. TypeOK'
  BY <1>1, <1>2, RecorderAssumption DEF RecInv, TypeOK
<1>4. /\ rpc'[r] = pc /\ finished'[r] = now
      /\ \A q \in Recordings \ {r} : rpc'[q] = rpc[q] /\ finished'[q] = finished[q]
  BY <1>1 DEF RecInv, TypeOK
<1>5. TableIsLive'
  <2>1. SUFFICES ASSUME NEW l \in Keys, NEW q \in Recordings
                 PROVE  sessions'[l] = q <=> key[q] = l /\ rpc'[q] \in Running
    BY DEF TableIsLive
  <2>2. sessions'[l] = IF l = key[r] THEN None ELSE sessions[l]
    BY <1>1 DEF RecInv, TypeOK
  <2>3. sessions[l] = q <=> key[q] = l /\ rpc[q] \in Running
    BY DEF RecInv, TableIsLive
  <2>4. q # None
    BY RecorderAssumption
  <2> QED
    BY <1>2, <1>4, <2>2, <2>3, <2>4
<1>6. /\ Ended(r)' /\ ~Ended(r)
      /\ \A q \in Recordings \ {r} : Ended(q)' <=> Ended(q)
  BY <1>4 DEF Ended
<1>7. Clocks'
  <2>1. now \in Int /\ started[r] <= now
    BY <1>2, RecorderAssumption DEF RecInv, Clocks
  <2> QED
    BY <1>4, <1>6, <2>1 DEF RecInv, Clocks
<1>8. Successors'
  <2>1. \A q \in Recordings : rpc'[q] \in Running => q # r /\ key[q] # key[r]
    BY <1>4, OneRuns
  <2> QED
    BY <1>4, <1>6, <2>1 DEF RecInv, Successors
<1>9. WritesOwnFile' /\ StrayTrailerIsShort'
  BY <1>4 DEF RecInv, WritesOwnFile, StrayTrailerIsShort, Path
<1> QED
  BY <1>3, <1>5, <1>7, <1>8, <1>9 DEF RecInv

\* A step of the goroutine within the table.
LEMMA RecProceed ==
  ASSUME RecInv, NEW r \in Recordings, NEW pc,
         rpc[r] \in Running => pc \in Running, rpc[r] \in Leaving => pc \in {"close", "done"},
         rpc[r] \in Running \cup Leaving, MoveTo(r, pc),
         pc \in {"client", "codecs", "loop"} => owner'[Path(r)] = r,
         \A q \in Recordings : rpc[q] \in {"client", "codecs", "loop"} => owner'[Path(q)] = owner[Path(q)],
         \A q \in Recordings : rpc[q] = "trailer" /\ owner'[Path(q)] # owner[Path(q)] => finished[q] = started[q],
         owner' \in [Keys \X (0..MaxTime) -> Recordings \cup {None}],
         UNCHANGED <<now, sessions, key, started, told, finished, cpc, target, waited>>
  PROVE  RecInv'
<1>1. rpc' = [rpc EXCEPT ![r] = pc]
  BY DEF MoveTo
<1>2. TypeOK'
  BY <1>1 DEF RecInv, TypeOK
<1>3. rpc'[r] = pc /\ \A q \in Recordings \ {r} : rpc'[q] = rpc[q]
  BY <1>1 DEF RecInv, TypeOK
<1>4. \A q \in Recordings : rpc'[q] \in Running <=> rpc[q] \in Running
  BY <1>3
<1>5. \A q \in Recordings : Ended(q)' <=> Ended(q)
  BY <1>3 DEF Ended
<1>6. TableIsLive' /\ Clocks' /\ Successors'
  BY <1>4, <1>5 DEF RecInv, TableIsLive, Clocks, Successors
<1>7. WritesOwnFile' /\ StrayTrailerIsShort'
  BY <1>3 DEF RecInv, WritesOwnFile, StrayTrailerIsShort, Path
<1> QED
  BY <1>2, <1>6, <1>7 DEF RecInv

LEMMA RecRun ==
  ASSUME RecInv, NEW r \in Recordings, Run(r)
  PROVE  RecInv'
<1>1. CASE Open(r)
  <2>0. UNCHANGED <<now, key, started, told, cpc, target, waited>> /\ rpc[r] = "create"
    BY <1>1 DEF Open, calls
  <2>1. CASE Finish(r, "close") /\ UNCHANGED owner
    BY <2>0, <2>1, RecFinish
  <2>2. CASE owner' = [owner EXCEPT ![Path(r)] = r] /\ MoveTo(r, "client") /\ UNCHANGED <<sessions, finished>>
    <3>1. Path(r) \in Keys \X (0..MaxTime)
      BY DEF RecInv, TypeOK, Path
    <3>2. owner' \in [Keys \X (0..MaxTime) -> Recordings \cup {None}] /\ owner'[Path(r)] = r
      BY <2>2, <3>1 DEF RecInv, TypeOK
    <3>3. \A q \in Recordings : owner'[Path(q)] # owner[Path(q)] => Path(q) = Path(r)
      BY <2>2, <3>1 DEF RecInv, TypeOK
    <3>4. ASSUME NEW q \in Recordings, rpc[q] \in {"client", "codecs", "loop"}
          PROVE  owner'[Path(q)] = owner[Path(q)]
      BY <2>0, <3>3, <3>4, OneRuns DEF Path
    <3>5. ASSUME NEW q \in Recordings, rpc[q] = "trailer", owner'[Path(q)] # owner[Path(q)]
          PROVE  finished[q] = started[q]
      <4>1. key[q] = key[r] /\ started[q] = started[r] /\ Ended(q)
        BY <3>3, <3>5 DEF Path, Ended
      <4>2. started[q] <= finished[q] /\ finished[q] <= started[r]
        BY <2>0, <4>1 DEF RecInv, Clocks, Successors
      <4>3. finished[q] \in Int /\ started[q] \in Int
        BY RecorderAssumption DEF RecInv, TypeOK
      <4> QED
        BY <4>1, <4>2, <4>3
    <3> QED
      BY <2>0, <2>2, <3>2, <3>4, <3>5, RecProceed
  <2> QED
    BY <1>1, <2>1, <2>2 DEF Open
<1>2. CASE Prepare(r)
  <2>0. /\ UNCHANGED <<now, key, started, told, owner, cpc, target, waited>>
        /\ rpc[r] \in {"client", "codecs"}
    BY <1>2 DEF Prepare, calls
  <2>1. CASE Finish(r, "close")
    BY <2>0, <2>1, RecFinish
  <2>2. CASE MoveTo(r, IF rpc[r] = "client" THEN "codecs" ELSE "loop") /\ UNCHANGED <<sessions, finished>>
    <3>1. PICK pc \in {"codecs", "loop"} : MoveTo(r, pc)
      BY <2>2
    <3>2. owner[Path(r)] = r /\ owner \in [Keys \X (0..MaxTime) -> Recordings \cup {None}]
      BY <2>0 DEF RecInv, WritesOwnFile, TypeOK
    <3> QED
      BY <2>0, <2>2, <3>1, <3>2, RecProceed
  <2> QED
    BY <1>2, <2>1, <2>2 DEF Prepare
<1>3. CASE ObeyStop(r) \/ RunOut(r)
  <2>1. /\ Finish(r, "trailer") /\ rpc[r] = "loop"
        /\ UNCHANGED <<now, key, started, told, owner, cpc, target, waited>>
    BY <1>3 DEF ObeyStop, RunOut, ToldTo, Leave, calls
  <2> QED
    BY <2>1, RecFinish
<1>4. CASE Defer(r)
  <2>1. PICK pc \in {"close", "done"} : MoveTo(r, pc)
    BY <1>4 DEF Defer
  <2>2. /\ UNCHANGED <<now, sessions, key, started, told, finished, owner, cpc, target, waited>>
        /\ rpc[r] \in Leaving /\ owner \in [Keys \X (0..MaxTime) -> Recordings \cup {None}]
    BY <1>4 DEF Defer, calls, RecInv, TypeOK
  <2> QED
    BY <2>1, <2>2, RecProceed
<1> QED
  BY <1>1, <1>2, <1>3, <1>4 DEF Run

\* The calls of Stop and the clock.
LEMMA RecOther ==
  ASSUME RecInv, Tick \/ \E c \in Callers : Call(c) \/ \E k \in Keys : Stop(c, k)
  PROVE  RecInv'
<1>1. UNCHANGED <<sessions, key, started, rpc, finished, owner>>
  BY DEF Tick, Call, Check, Close, Answer, Hangup, Stop, recordings
<1>2. /\ now \in 0..MaxTime /\ now' \in 0..MaxTime /\ now <= now'
      /\ now \in Int /\ now' \in Int
  BY RecorderAssumption DEF RecInv, TypeOK, Tick, Call, Check, Close, Answer, Hangup, Stop
<1>3. TypeOK'
  <2>1. CASE Tick
    <3>1. waited' \in [Callers -> 0..StopTimeout]
      BY <2>1, RecorderAssumption DEF Tick, RecInv, TypeOK
    <3> QED
      BY <1>1, <1>2, <2>1, <3>1 DEF Tick, RecInv, TypeOK
  <2>2. ASSUME NEW c \in Callers, Call(c) PROVE TypeOK'
    <3>1. told' \subseteq Recordings /\ target' \in [Callers -> Recordings \cup {None}]
      BY <2>2 DEF Call, Check, Close, Heard, Answer, Hangup, RecInv, TypeOK
    <3>2. cpc' \in [Callers -> {"idle", "check", "close", "wait", "panic", "answered"}]
      BY <2>2 DEF Call, Check, Close, Answer, Hangup, Calls, RecInv, TypeOK
    <3>3. waited' \in [Callers -> 0..StopTimeout]
      BY <2>2, RecorderAssumption DEF Call, Check, Close, Answer, Hangup, RecInv, TypeOK
    <3>4. \A d \in Callers : cpc'[d] # "idle" => target'[d] # None
      BY <2>2 DEF Call, Check, Close, Answer, Hangup, Calls, RecInv, TypeOK
    <3> QED
      BY <1>1, <1>2, <3>1, <3>2, <3>3, <3>4 DEF RecInv, TypeOK
  <2>3. ASSUME NEW c \in Callers, NEW k \in Keys, Stop(c, k) PROVE TypeOK'
    BY <1>1, <1>2, <2>3 DEF Stop, Busy, Calls, RecInv, TypeOK
  <2> QED
    BY <2>1, <2>2, <2>3
<1>4. Clocks'
  BY <1>1, <1>2, RecorderAssumption DEF RecInv, TypeOK, Clocks, Ended
<1>5. TableIsLive' /\ Successors' /\ WritesOwnFile' /\ StrayTrailerIsShort'
  BY <1>1 DEF RecInv, TableIsLive, Successors, Ended, WritesOwnFile, StrayTrailerIsShort, Path
<1> QED
  BY <1>3, <1>4, <1>5 DEF RecInv

LEMMA RecNext == RecInv /\ [Next]_vars => RecInv'
<1> SUFFICES ASSUME RecInv, [Next]_vars PROVE RecInv'
  OBVIOUS
<1>1. CASE UNCHANGED vars
  <2>1. UNCHANGED <<now, sessions, key, started, rpc, finished, owner, told, cpc, target, waited>>
    BY <1>1 DEF vars, recordings, calls
  <2> QED
    BY <2>1 DEF RecInv, TypeOK, TableIsLive, Clocks, Successors, Ended, WritesOwnFile,
                StrayTrailerIsShort, Path
<1>2. CASE Next
  BY <1>2, RecStart, RecRun, RecOther DEF Next
<1> QED
  BY <1>1, <1>2

LEMMA RecInvariant == Spec => []RecInv
  BY RecInit, RecNext, PTL DEF Spec

\* The recordings, their files and the calls of Stop are always well formed.
THEOREM TypeCorrect == Spec => []TypeOK
<1>1. RecInv => TypeOK
  BY DEF RecInv
<1> QED
  BY <1>1, RecInvariant, PTL

\* finish deletes the entry of its own recording and never that of a successor, although it
\* deletes by channel; and no recording leaves its entry behind.
THEOREM TableIsLiveCorrect == Spec => []TableIsLive
<1>1. RecInv => TableIsLive
  BY DEF RecInv
<1> QED
  BY <1>1, RecInvariant, PTL

\* A file that is being recorded is never truncated by another recording, although the name
\* has only seconds in it.
THEOREM WritesOwnFileCorrect == Spec => []WritesOwnFile
<1>1. RecInv => WritesOwnFile
  BY DEF RecInv
<1> QED
  BY <1>1, RecInvariant, PTL

\* A trailer lands in a successor's file only when the recording lasted less than a second.
THEOREM StrayTrailerIsShortCorrect == Spec => []StrayTrailerIsShort
<1>1. RecInv => StrayTrailerIsShort
  BY DEF RecInv
<1> QED
  BY <1>1, RecInvariant, PTL
-----------------------------------------------------------------------------
(* The page.  A request to Start or Stop is a step of the recordings, so   *)
(* that all of the above holds below the pages.                            *)

LEMMA PageBounds == Pages # {} /\ KeyOf \in [Pages -> Keys]
  BY PageAssumption

LEMMA FreshIsFree == SomeFree => Fresh \in Callers /\ rat[Fresh] = "free"
  BY DEF SomeFree, Fresh

LEMMA StartNextStarts ==
  ASSUME NEW k, StartNext(k)
  PROVE  \E r \in Recordings : Start(k, r)
  BY DEF StartNext

\* What the steps of a page do to the recordings: nothing, or one step of theirs.
LEMMA PageStep == RecInv /\ PageTypeOK /\ [PageNext]_pageVars => [Next]_vars
<1> SUFFICES ASSUME PageTypeOK, [PageNext]_pageVars PROVE [Next]_vars
  OBVIOUS
<1>1. CASE UNCHANGED pageVars
  BY <1>1 DEF pageVars
<1>2. ASSUME NEW p \in Pages, Load(p) \/ Click(p) PROVE UNCHANGED vars
  BY <1>2 DEF Load, Click, Send
<1>3. ASSUME NEW c \in Callers, ServeStatus(c) \/ Receive(c) \/ Lose(c) PROVE UNCHANGED vars
  BY <1>3 DEF ServeStatus, Receive, Lose, Over
<1>4. ASSUME NEW c \in Callers, ServeStart(c) PROVE [Next]_vars
  <2>1. KeyOf[rpage[c]] \in Keys
    BY PageBounds DEF PageTypeOK
  <2>2. CASE UNCHANGED vars
    BY <2>2
  <2>3. CASE StartNext(KeyOf[rpage[c]])
    BY <2>1, <2>3, StartNextStarts DEF Next
  <2> QED
    BY <1>4, <2>2, <2>3 DEF ServeStart
<1>5. ASSUME NEW c \in Callers, ServeStop(c) PROVE [Next]_vars
  <2>1. KeyOf[rpage[c]] \in Keys
    BY PageBounds DEF PageTypeOK
  <2> QED
    BY <1>5, <2>1 DEF ServeStop, Next
<1>6. ASSUME NEW c \in Callers, StopReturns(c) \/ InCall(c) \/ ReturnsElsewhere(c) PROVE Next
  BY <1>6 DEF StopReturns, InCall, ReturnsElsewhere, Call, Next
<1>7. ASSUME NEW k \in Keys, StartElsewhere(k) PROVE Next
  BY <1>7, StartNextStarts DEF StartElsewhere, Next
<1>8. ASSUME NEW k \in Keys, StopElsewhere(k) PROVE Next
  BY <1>8, FreshIsFree DEF StopElsewhere, Next
<1>9. ASSUME NEW r \in Recordings, RunAndTell(r) PROVE Next
  BY <1>9 DEF RunAndTell, Next
<1>10. CASE Tick /\ UNCHANGED page
  BY <1>10 DEF Next
<1> QED
  BY <1>1, <1>2, <1>3, <1>4, <1>5, <1>6, <1>7, <1>8, <1>9, <1>10 DEF PageNext

\* What makes a page right in the end.  It has at most one request, and the answer of that one
\* will set the flag to what is so: a request that is not served yet finds the channel as the
\* page shows it; a Stop that is being served stops the recording of this channel; and an
\* answer on its way is not overtaken by the server.
Agrees(p) == p \in shown <=> Busy(KeyOf[p])
StopWorks(c, k) ==
  LET r == target[c] IN
  /\ r \in Recordings /\ key[r] = k /\ rpc[r] # "unborn"
  /\ Busy(k) <=> rpc[r] \in Running
WillBeRight(p, c) ==
  /\ rat[c] = "sent" /\ rwhat[c] # "status" => Agrees(p)
  /\ rat[c] = "served" => rwhat[c] = "stop" /\ StopWorks(c, KeyOf[p])
  /\ rat[c] = "answered" => (p \in SetRecordState(p, rwhat[c], answer[c]) <=> Busy(KeyOf[p]))
Fine(p) ==
  /\ \A c, d \in RequestsOf(p) : c = d
  /\ \A c \in RequestsOf(p) : WillBeRight(p, c)
  /\ RequestsOf(p) = {} => Agrees(p)

\* A page that has sent something is open.
Senders == \A p \in Pages : RequestsOf(p) # {} => p \in loaded

\* Only a stop is served in more than one step.
Served == \A c \in Callers : rat[c] = "served" => rwhat[c] = "stop"

PageInv == RecInv /\ PageTypeOK /\ Senders /\ Served /\ \A p \in loaded \ upset : Fine(p)

\* What an answer does to the flag.
LEMMA Flag ==
  ASSUME NEW p, NEW what, NEW text \in {"active", "inactive", "ok", "error"}
  PROVE  /\ p \in SetRecordState(p, what, text) <=>
              \/ text = "active"
              \/ text = "ok" /\ what = "start"
              \/ text = "error" /\ p \in shown
         /\ \A q : q # p => (q \in SetRecordState(p, what, text) <=> q \in shown)
         /\ SetRecordState(p, what, text) \subseteq shown \cup {p}
  BY DEF SetRecordState, NewFlag

LEMMA ServedNext ==
  ASSUME PageTypeOK, Served, [PageNext]_pageVars
  PROVE  Served'
<1>1. ASSUME UNCHANGED <<rat, rwhat>> PROVE Served'
  BY <1>1 DEF Served
<1>2. ASSUME NEW c \in Callers, NEW to \in {"free", "answered", "elsewhere"},
             rat' = [rat EXCEPT ![c] = to],
             rwhat' = rwhat \/ rwhat' = [rwhat EXCEPT ![c] = "status"]
      PROVE  Served'
  BY <1>2 DEF Served, PageTypeOK
<1>3. ASSUME NEW p \in Pages, Load(p) \/ Click(p) PROVE Served'
  <2>1. PICK c \in Callers, what \in {"status", "start", "stop"} :
          rat' = [rat EXCEPT ![c] = "sent"] /\ rwhat' = [rwhat EXCEPT ![c] = what]
    BY <1>3, FreshIsFree DEF Load, Click, Action, Send
  <2> QED
    BY <2>1 DEF Served, PageTypeOK
<1>4. ASSUME NEW c \in Callers, ServeStop(c), rat' = [rat EXCEPT ![c] = "served"], rwhat' = rwhat
      PROVE  Served'
  BY <1>4 DEF ServeStop, Sent, Served, PageTypeOK
<1>5. ASSUME NEW c \in Callers,
             ServeStatus(c) \/ ServeStart(c) \/ ServeStop(c) \/ StopReturns(c) \/ Receive(c) \/ Lose(c)
      PROVE  Served'
  BY <1>2, <1>4, <1>5 DEF ServeStatus, ServeStart, ServeStop, StopReturns, Receive, Lose, Answers, Over
<1>6. ASSUME NEW c \in Callers, InCall(c) \/ ReturnsElsewhere(c) PROVE Served'
  BY <1>1, <1>2, <1>6 DEF InCall, ReturnsElsewhere, page
<1>7. ASSUME NEW k \in Keys, StartElsewhere(k) \/ StopElsewhere(k) PROVE Served'
  BY <1>1, <1>2, <1>7, FreshIsFree DEF StartElsewhere, StopElsewhere
<1>8. ASSUME NEW r \in Recordings, RunAndTell(r) PROVE Served'
  BY <1>1, <1>8 DEF RunAndTell
<1>9. UNCHANGED page => Served'
  BY <1>1 DEF page
<1> QED
  BY <1>3, <1>5, <1>6, <1>7, <1>8, <1>9 DEF PageNext, pageVars

LEMMA PageTypeNext ==
  ASSUME PageTypeOK, Senders, TypeOK', [PageNext]_pageVars
  PROVE  PageTypeOK' /\ Senders'
<1> DEFINE Where == {"free", "sent", "served", "answered", "elsewhere"}
           What == {"status", "start", "stop"}
           Text == {"active", "inactive", "ok", "error"}
<1>1. CASE UNCHANGED page
  BY <1>1 DEF page, PageTypeOK, Senders, RequestsOf
<1>2. ASSUME NEW p \in Pages, Load(p) \/ Click(p) PROVE PageTypeOK' /\ Senders'
  <2>1. PICK what \in What, c \in Callers : Send(c, p, what)
    BY <1>2, FreshIsFree DEF Load, Click, Action, Send
  <2>2. /\ rat' \in [Callers -> Where] /\ rpage' \in [Callers -> Pages]
        /\ rwhat' \in [Callers -> What] /\ answer' \in [Callers -> Text] /\ upset' \subseteq Pages
    BY <2>1 DEF Send, PageTypeOK
  <2>3. loaded' \subseteq Pages /\ shown' \subseteq loaded'
    BY <1>2 DEF Load, Click, PageTypeOK
  <2>4. \A q \in Pages : RequestsOf(q)' # {} => q \in loaded'
    <3>1. SUFFICES ASSUME NEW q \in Pages, NEW d \in RequestsOf(q)' PROVE q \in loaded'
      OBVIOUS
    <3>2. q = p \/ d \in RequestsOf(q)
      BY <1>2, <3>1, FreshIsFree DEF Load, Click, Send, RequestsOf, PageTypeOK
    <3> QED
      BY <1>2, <3>2 DEF Load, Click, Senders
  <2> QED
    BY <2>2, <2>3, <2>4 DEF PageTypeOK, Senders
<1>3. ASSUME NEW c \in Callers, NEW text \in Text, Answers(c, text), upset' \subseteq Pages,
             rat[c] \in {"sent", "served"}
      PROVE  PageTypeOK' /\ Senders'
  <2>1. PageTypeOK'
    BY <1>3 DEF Answers, PageTypeOK
  <2>2. \A q \in Pages : RequestsOf(q)' \subseteq RequestsOf(q)
    BY <1>3 DEF Answers, PageTypeOK, RequestsOf
  <2> QED
    BY <1>3, <2>1, <2>2 DEF Senders, Answers
<1>4. ASSUME NEW c \in Callers, Over(c), upset' \subseteq Pages, shown' \subseteq loaded
      PROVE  PageTypeOK' /\ Senders'
  <2>1. PageTypeOK'
    BY <1>4 DEF Over, PageTypeOK
  <2>2. \A q \in Pages : RequestsOf(q)' \subseteq RequestsOf(q)
    BY <1>4 DEF Over, PageTypeOK, RequestsOf
  <2> QED
    BY <1>4, <2>1, <2>2 DEF Senders, Over
<1>5. ASSUME NEW c \in Callers, NEW to \in Where, rat' = [rat EXCEPT ![c] = to],
             UNCHANGED <<loaded, shown, rpage, rwhat, answer, upset>>,
             to \in {"free", "elsewhere"} \/ (to = "served" /\ rat[c] = "sent")
      PROVE  PageTypeOK' /\ Senders'
  <2>1. PageTypeOK'
    BY <1>5 DEF PageTypeOK
  <2>2. \A q \in Pages : RequestsOf(q)' \subseteq RequestsOf(q)
    BY <1>5 DEF PageTypeOK, RequestsOf
  <2> QED
    BY <1>5, <2>1, <2>2 DEF Senders
<1>6. ASSUME upset' \subseteq Pages, UNCHANGED <<loaded, shown, rat, rpage, rwhat, answer>>
      PROVE  PageTypeOK' /\ Senders'
  BY <1>6 DEF PageTypeOK, Senders, RequestsOf
<1>7. \A c \in Callers : rpage[c] \in Pages /\ rat[c] \in Where /\ answer[c] \in Text
  BY DEF PageTypeOK
<1>8. loaded \subseteq Pages /\ upset \subseteq Pages
  BY DEF PageTypeOK
<1>9. ASSUME NEW c \in Callers, ServeStatus(c) \/ ServeStart(c) \/ ServeStop(c) \/ StopReturns(c)
      PROVE  PageTypeOK' /\ Senders'
  <2>1. CASE ServeStatus(c)
    BY <2>1, <1>3, <1>8 DEF ServeStatus, Sent
  <2>2. CASE ServeStart(c)
    BY <2>2, <1>3, <1>8 DEF ServeStart, Sent
  <2>3. CASE ServeStop(c)
    BY <2>3, <1>3, <1>5, <1>8 DEF ServeStop, Sent
  <2>4. CASE StopReturns(c)
    BY <2>4, <1>3, <1>7, <1>8 DEF StopReturns
  <2> QED
    BY <1>9, <2>1, <2>2, <2>3, <2>4
<1>10. ASSUME NEW c \in Callers, Receive(c) \/ Lose(c) PROVE PageTypeOK' /\ Senders'
  <2>1. CASE Receive(c)
    <3>1. c \in RequestsOf(rpage[c])
      BY <2>1 DEF Receive, RequestsOf
    <3>2. rpage[c] \in loaded /\ shown \subseteq loaded
      BY <1>7, <3>1 DEF Senders, PageTypeOK
    <3>3. shown' \subseteq loaded
      BY <2>1, <1>7, <3>2, Flag DEF Receive
    <3> QED
      BY <2>1, <3>3, <1>4, <1>8 DEF Receive
  <2>2. CASE Lose(c)
    BY <2>2, <1>4, <1>7, <1>8 DEF Lose, PageTypeOK
  <2> QED
    BY <1>10, <2>1, <2>2
<1>11. ASSUME NEW c \in Callers, ReturnsElsewhere(c) PROVE PageTypeOK' /\ Senders'
  BY <1>11, <1>5 DEF ReturnsElsewhere
<1>12. ASSUME NEW k \in Keys, StartElsewhere(k) \/ StopElsewhere(k) PROVE PageTypeOK' /\ Senders'
  BY <1>12, <1>5, <1>6, <1>8, FreshIsFree DEF StartElsewhere, StopElsewhere
<1>13. ASSUME NEW r \in Recordings, RunAndTell(r) PROVE PageTypeOK' /\ Senders'
  BY <1>13, <1>6, <1>8 DEF RunAndTell
<1> QED
  BY <1>1, <1>2, <1>9, <1>10, <1>11, <1>12, <1>13 DEF PageNext, pageVars, InCall

\* A step that touches neither the page, nor its requests, nor the recording of its channel.
LEMMA Undisturbed ==
  ASSUME PageTypeOK, NEW p \in Pages, Fine(p),
         p \in shown' <=> p \in shown, Busy(KeyOf[p])' <=> Busy(KeyOf[p]),
         \A c \in Callers : c \in RequestsOf(p)' <=> c \in RequestsOf(p),
         \A c \in RequestsOf(p) :
           /\ rat'[c] = rat[c] /\ rwhat'[c] = rwhat[c] /\ answer'[c] = answer[c]
           /\ StopWorks(c, KeyOf[p]) => StopWorks(c, KeyOf[p])'
  PROVE  Fine(p)'
<1>1. RequestsOf(p) \subseteq Callers /\ RequestsOf(p)' \subseteq Callers
  BY DEF RequestsOf
<1>2. RequestsOf(p)' = RequestsOf(p)
  BY <1>1
<1>3. Agrees(p)' <=> Agrees(p)
  BY DEF Agrees
<1>4. ASSUME NEW c \in RequestsOf(p) PROVE WillBeRight(p, c)'
  <2>1. WillBeRight(p, c)
    BY DEF Fine
  <2>2. answer[c] \in {"active", "inactive", "ok", "error"}
    BY <1>1 DEF PageTypeOK
  <2>3. p \in SetRecordState(p, rwhat[c], answer[c])' <=> p \in SetRecordState(p, rwhat[c], answer[c])
    BY <2>2 DEF SetRecordState, NewFlag
  <2>4. p \in SetRecordState(p, rwhat[c], answer[c])' <=> (p \in SetRecordState(p, rwhat[c], answer[c]))'
    OBVIOUS
  <2> QED
    BY <1>3, <2>1, <2>3, <2>4 DEF WillBeRight
<1> QED
  BY <1>2, <1>3, <1>4 DEF Fine

\* A step that leaves the recordings as they are.
LEMMA SameRecordings ==
  ASSUME NEW k, UNCHANGED <<sessions, key, rpc>>
  PROVE  /\ Busy(k)' <=> Busy(k)
         /\ \A c : target'[c] = target[c] => (StopWorks(c, k)' <=> StopWorks(c, k))
  BY DEF Busy, StopWorks

\* A start changes nothing for another channel,
LEMMA StartApart ==
  ASSUME RecInv, NEW k \in Keys, NEW l \in Keys, k # l, StartNext(k)
  PROVE  /\ Busy(l)' <=> Busy(l)
         /\ \A c \in Callers : StopWorks(c, l) => StopWorks(c, l)'
<1>1. PICK r \in Recordings : Start(k, r)
  BY StartNextStarts
<1>2. /\ rpc[r] = "unborn" /\ sessions' = [sessions EXCEPT ![k] = r] /\ key' = [key EXCEPT ![r] = k]
      /\ rpc' = [rpc EXCEPT ![r] = "create"] /\ target' = target
  BY <1>1 DEF Start, calls
<1>3. sessions'[l] = sessions[l] /\ \A q \in Recordings \ {r} : key'[q] = key[q] /\ rpc'[q] = rpc[q]
  BY <1>2 DEF RecInv, TypeOK
<1> QED
  BY <1>2, <1>3 DEF Busy, StopWorks

\* and makes its own busy.
LEMMA StartMakesBusy ==
  ASSUME RecInv, NEW k \in Keys, StartNext(k)
  PROVE  Busy(k)'
<1>1. PICK r \in Recordings : Start(k, r)
  BY StartNextStarts
<1>2. sessions'[k] = r
  BY <1>1 DEF Start, RecInv, TypeOK
<1> QED
  BY <1>2, RecorderAssumption DEF Busy

\* A recording that proceeds and stays in the table, or leaves it, changes nothing for another
\* channel, nor for a Stop that stops it.
LEMMA RunApart ==
  ASSUME RecInv, NEW r \in Recordings, Run(r), NEW l \in Keys, key[r] # l \/ sessions' = sessions
  PROVE  /\ Busy(l)' <=> Busy(l)
         /\ \A c : StopWorks(c, l) => StopWorks(c, l)'
<1>1. sessions'[l] = sessions[l]
  BY DEF Run, Open, Prepare, ObeyStop, RunOut, Leave, Finish, Without, Defer, RecInv, TypeOK
<1>2. Busy(l)' <=> Busy(l)
  BY <1>1 DEF Busy
<1>3. UNCHANGED <<key, target>>
  BY DEF Run, Open, Prepare, ObeyStop, RunOut, Leave, Defer, calls
<1>4. ASSUME NEW c, StopWorks(c, l) PROVE StopWorks(c, l)'
  <2>1. RecInv'
    BY RecRun
  <2>2. target[c] \in Recordings /\ key[target[c]] = l
    BY <1>4 DEF StopWorks
  <2>3. sessions[l] = target[c] <=> rpc[target[c]] \in Running
    BY <2>2 DEF RecInv, TableIsLive
  <2>4. sessions'[l] = target[c] <=> rpc'[target[c]] \in Running
    BY <1>3, <2>1, <2>2 DEF RecInv, TableIsLive
  <2>5. rpc'[target[c]] # "unborn"
    BY <1>4 DEF Run, Open, Prepare, ObeyStop, RunOut, Leave, Finish, MoveTo, Defer, StopWorks,
                RecInv, TypeOK
  <2> QED
    BY <1>1, <1>2, <1>3, <1>4, <2>2, <2>3, <2>4, <2>5 DEF StopWorks
<1> QED
  BY <1>2, <1>4

\* A request leaves: the page is right when it waits for nothing else.
LEMMA FineSend ==
  ASSUME PageInv, NEW p \in Pages, Load(p) \/ Click(p), NEW q \in loaded' \ upset'
  PROVE  Fine(q)'
<1>1. PICK c \in Callers, what \in {"status", "start", "stop"} :
        /\ Send(c, p, what) /\ rat[c] = "free"
        /\ what = "status" \/ p \in loaded
  BY FreshIsFree DEF Load, Click, Action, Send
<1>2. /\ rat' = [rat EXCEPT ![c] = "sent"] /\ rpage' = [rpage EXCEPT ![c] = p]
      /\ rwhat' = [rwhat EXCEPT ![c] = what] /\ UNCHANGED <<sessions, key, rpc, target, answer, shown>>
  BY <1>1 DEF Load, Click, Send, vars, recordings, calls
<1>3. /\ rat'[c] = "sent" /\ rpage'[c] = p /\ rwhat'[c] = what
      /\ \A d \in Callers \ {c} : rat'[d] = rat[d] /\ rpage'[d] = rpage[d] /\ rwhat'[d] = rwhat[d]
  BY <1>2 DEF PageInv, PageTypeOK
<1>4. q \in Pages /\ q \notin upset /\ (q # p => q \in loaded)
  BY <1>1 DEF Load, Click, Send, PageInv, PageTypeOK
<1>5. CASE q # p
  <2>1. Fine(q) /\ PageTypeOK
    BY <1>4, <1>5 DEF PageInv
  <2>2. \A d \in Callers : d \in RequestsOf(q)' <=> d \in RequestsOf(q)
    BY <1>1, <1>3, <1>5 DEF RequestsOf
  <2>3. \A d \in RequestsOf(q) : d \in Callers \ {c}
    BY <1>1 DEF RequestsOf
  <2>4. \A d \in RequestsOf(q) :
          /\ rat'[d] = rat[d] /\ rwhat'[d] = rwhat[d] /\ answer'[d] = answer[d]
          /\ StopWorks(d, KeyOf[q]) => StopWorks(d, KeyOf[q])'
    BY <1>2, <1>3, <2>3, SameRecordings
  <2>5. (q \in shown' <=> q \in shown) /\ (Busy(KeyOf[q])' <=> Busy(KeyOf[q]))
    BY <1>2, SameRecordings
  <2> QED
    BY <1>4, <2>1, <2>2, <2>4, <2>5, Undisturbed
<1>6. CASE q = p
  <2>1. RequestsOf(p) = {}
    BY <1>1, <1>6 DEF Send
  <2>2. RequestsOf(p)' = {c}
    BY <1>3, <2>1 DEF RequestsOf
  <2>3. what # "status" => Agrees(p)
    BY <1>1, <1>4, <1>6, <2>1 DEF PageInv, Fine
  <2>4. Agrees(p)' <=> Agrees(p)
    BY <1>2, SameRecordings DEF Agrees
  <2>5. WillBeRight(p, c)'
    BY <1>3, <2>3, <2>4 DEF WillBeRight
  <2> QED
    BY <1>6, <2>2, <2>5 DEF Fine
<1> QED
  BY <1>5, <1>6

\* A page's only request is answered with the truth: then the page is right, whatever it showed.
LEMMA FineSettled ==
  ASSUME PageInv, NEW c \in Callers, NEW text \in {"active", "inactive", "ok", "error"},
         Answers(c, text), RequestsOf(rpage[c]) = {c},
         rpage[c] \in SetRecordState(rpage[c], rwhat[c], text) <=> Busy(KeyOf[rpage[c]])'
  PROVE  Fine(rpage[c])'
<1>1. /\ rat' = [rat EXCEPT ![c] = "answered"] /\ answer' = [answer EXCEPT ![c] = text]
      /\ UNCHANGED <<loaded, shown, rpage, rwhat>>
  BY DEF Answers
<1>2. /\ rat'[c] = "answered" /\ answer'[c] = text
      /\ \A d \in Callers \ {c} : rat'[d] = rat[d]
  BY <1>1 DEF PageInv, PageTypeOK
<1> DEFINE q == rpage[c]
<1>3. RequestsOf(q)' = {c}
  <2>1. \A d \in Callers : d \in RequestsOf(q)' <=> d = c
    BY <1>1, <1>2 DEF RequestsOf
  <2> QED
    BY <2>1 DEF RequestsOf
<1>4. (q \in SetRecordState(q, rwhat[c], answer[c]))' <=> q \in SetRecordState(q, rwhat[c], text)
  BY <1>1, <1>2 DEF SetRecordState, NewFlag
<1>5. q' = q
  BY <1>1
<1>6. WillBeRight(q, c)'
  BY <1>2, <1>4, <1>5 DEF WillBeRight
<1> QED
  BY <1>3, <1>6 DEF Fine

\* A request is answered.  For its page what counts is that the answer tells the truth; for
\* the others, that the recording of their channel is left alone.
LEMMA FineAnswer ==
  ASSUME PageInv, NEW c \in Callers, NEW text \in {"active", "inactive", "ok", "error"},
         Answers(c, text), rat[c] \in {"sent", "served"},
         NEW q \in loaded, q \notin upset \/ q \in Settles(c),
         target' = target \/ target' = [target EXCEPT ![c] = None],
         q = rpage[c] => (q \in SetRecordState(q, rwhat[c], text) <=> Busy(KeyOf[q])'),
         q # rpage[c] => /\ Busy(KeyOf[q])' <=> Busy(KeyOf[q])
                         /\ \A d \in Callers :
                              target'[d] = target[d] /\ StopWorks(d, KeyOf[q]) => StopWorks(d, KeyOf[q])'
  PROVE  Fine(q)'
<1>1. /\ rat' = [rat EXCEPT ![c] = "answered"] /\ answer' = [answer EXCEPT ![c] = text]
      /\ UNCHANGED <<loaded, shown, rpage, rwhat>>
  BY DEF Answers
<1>2. /\ rat'[c] = "answered" /\ answer'[c] = text
      /\ \A d \in Callers \ {c} : rat'[d] = rat[d] /\ answer'[d] = answer[d] /\ target'[d] = target[d]
  BY <1>1 DEF PageInv, PageTypeOK, TypeOK
<1>3. q \in Pages /\ PageTypeOK /\ (q \notin upset => Fine(q))
  BY DEF PageInv, PageTypeOK
<1>4. \A d \in Callers : d \in RequestsOf(q)' <=> d \in RequestsOf(q)
  BY <1>1, <1>2 DEF RequestsOf
<1>5. CASE q # rpage[c]
  <2>1. \A d \in RequestsOf(q) : d \in Callers \ {c}
    BY <1>5 DEF RequestsOf
  <2>2. Fine(q)
    BY <1>3, <1>5 DEF Settles
  <2> QED
    BY <1>1, <1>2, <1>3, <1>4, <1>5, <2>1, <2>2, Undisturbed
<1>6. CASE q = rpage[c]
  <2>1. c \in RequestsOf(q)
    BY <1>6 DEF RequestsOf
  <2>2. RequestsOf(q) = {c}
    <3>1. CASE q \notin upset
      BY <1>3, <2>1, <3>1 DEF Fine
    <3>2. CASE q \in Settles(c)
      BY <1>6, <3>2 DEF Settles
    <3> QED
      BY <3>1, <3>2
  <2>3. rpage[c] \in SetRecordState(rpage[c], rwhat[c], text) <=> Busy(KeyOf[rpage[c]])'
    <3>1. Busy(KeyOf[rpage[c]])' <=> Busy(KeyOf[q])'
      BY <1>1, <1>6
    <3> QED
      BY <1>6, <3>1
  <2>4. Fine(rpage[c])'
    BY <1>6, <2>2, <2>3, FineSettled
  <2>5. Fine(rpage[c])' <=> Fine(q)'
    BY <1>1, <1>6
  <2> QED
    BY <2>4, <2>5
<1> QED
  BY <1>5, <1>6

LEMMA FineServe ==
  ASSUME PageInv, NEW c \in Callers, ServeStatus(c) \/ ServeStart(c), NEW q \in loaded' \ upset'
  PROVE  Fine(q)'
<1>1. PICK k \in Keys : k = KeyOf[rpage[c]] /\ rpage[c] \in Pages
  BY PageBounds DEF PageInv, PageTypeOK
<1>2. /\ rat[c] = "sent" /\ target' = target
      /\ q \in loaded /\ (q \notin upset \/ q \in Settles(c)) /\ q \in Pages
  BY DEF ServeStatus, ServeStart, Sent, Answers, vars, calls, StartNext, Start, PageInv, PageTypeOK
<1>3. KeyOf[q] \in Keys
  BY <1>2, PageBounds
<1>4. ASSUME q = rpage[c], rwhat[c] # "status", q \notin upset PROVE q \in shown <=> Busy(k)
  <2>1. c \in RequestsOf(q) /\ Fine(q)
    BY <1>2, <1>4 DEF RequestsOf, PageInv
  <2> QED
    BY <1>1, <1>2, <1>4, <2>1 DEF Fine, WillBeRight, Agrees
<1>5. ASSUME UNCHANGED vars PROVE /\ \A l : Busy(l)' <=> Busy(l)
                                  /\ \A d, l : StopWorks(d, l) => StopWorks(d, l)'
  BY <1>5 DEF vars, recordings, calls, Busy, StopWorks
<1>6. CASE ServeStatus(c)
  <2>1. PICK text \in {"active", "inactive"} : Answers(c, text) /\ (text = "active" <=> Busy(k))
    BY <1>1, <1>6 DEF ServeStatus
  <2>2. Busy(k)' <=> Busy(k)
    BY <1>5, <1>6 DEF ServeStatus
  <2>3. q \in SetRecordState(q, rwhat[c], text) <=> Busy(k)'
    BY <2>1, <2>2, Flag
  <2> QED
    BY <1>1, <1>2, <1>5, <1>6, <2>1, <2>3, FineAnswer DEF ServeStatus
<1>7. CASE ServeStart(c) /\ Answers(c, "error") /\ UNCHANGED <<vars, upset>>
  <2>1. rwhat[c] # "status" /\ q \notin upset
    BY <1>7 DEF ServeStart, Sent
  <2>2. q = rpage[c] => (q \in SetRecordState(q, rwhat[c], "error") <=> Busy(KeyOf[q])')
    BY <1>1, <1>4, <1>5, <1>7, <2>1, Flag
  <2> QED
    BY <1>2, <1>5, <1>7, <2>2, FineAnswer
<1>8. CASE /\ rwhat[c] = "start" /\ StartNext(k) /\ Answers(c, "ok")
           /\ upset' = (upset \cup {p \in loaded : KeyOf[p] = k /\ p # rpage[c]}) \ Settles(c)
  <2>1. q = rpage[c] => (q \in SetRecordState(q, rwhat[c], "ok") <=> Busy(KeyOf[q])')
    BY <1>1, <1>8, Flag, StartMakesBusy DEF PageInv
  <2>2. q # rpage[c] => KeyOf[q] # k
    BY <1>2, <1>8 DEF Settles
  <2>3. q # rpage[c] => /\ Busy(KeyOf[q])' <=> Busy(KeyOf[q])
                        /\ \A d \in Callers : StopWorks(d, KeyOf[q]) => StopWorks(d, KeyOf[q])'
    BY <1>1, <1>3, <1>8, <2>2, StartApart DEF PageInv
  <2> QED
    BY <1>2, <1>8, <2>1, <2>3, FineAnswer
<1> QED
  BY <1>1, <1>6, <1>7, <1>8 DEF ServeStart, Sent

\* Stop is called: the recording that it has found is the one of the channel.
LEMMA FineStop ==
  ASSUME PageInv, NEW c \in Callers, NEW k \in Keys, Stop(c, k),
         NEW to \in {"served", "elsewhere"}, rat' = [rat EXCEPT ![c] = to],
         to = "served" => rat[c] = "sent" /\ rwhat[c] = "stop" /\ k = KeyOf[rpage[c]],
         to = "elsewhere" => rat[c] = "free",
         UNCHANGED <<loaded, shown, rpage, rwhat, answer, upset>>, NEW q \in loaded \ upset
  PROVE  Fine(q)'
<1>1. /\ target' = [target EXCEPT ![c] = sessions[k]] /\ Busy(k)
      /\ UNCHANGED <<sessions, key, rpc>>
  BY DEF Stop, recordings
<1>2. /\ rat'[c] = to /\ target'[c] = sessions[k]
      /\ \A d \in Callers \ {c} : rat'[d] = rat[d] /\ target'[d] = target[d]
  BY <1>1 DEF PageInv, PageTypeOK, TypeOK
<1>3. q \in Pages /\ Fine(q) /\ PageTypeOK
  BY DEF PageInv, PageTypeOK
<1>4. \A d \in Callers : d \in RequestsOf(q)' <=> d \in RequestsOf(q)
  BY <1>2 DEF RequestsOf
<1>5. CASE c \notin RequestsOf(q)
  <2>1. \A d \in RequestsOf(q) : d \in Callers \ {c}
    BY <1>5 DEF RequestsOf
  <2>2. \A d \in RequestsOf(q) :
          /\ rat'[d] = rat[d] /\ rwhat'[d] = rwhat[d] /\ answer'[d] = answer[d]
          /\ StopWorks(d, KeyOf[q]) => StopWorks(d, KeyOf[q])'
    BY <1>1, <1>2, <2>1, SameRecordings
  <2>3. (q \in shown' <=> q \in shown) /\ (Busy(KeyOf[q])' <=> Busy(KeyOf[q]))
    BY <1>1, SameRecordings
  <2> QED
    BY <1>3, <1>4, <2>2, <2>3, Undisturbed
<1>6. CASE c \in RequestsOf(q)
  <2>1. to = "served" /\ rpage[c] = q /\ rwhat[c] = "stop" /\ k = KeyOf[q]
    BY <1>6 DEF RequestsOf
  <2>2. RequestsOf(q)' = {c}
    BY <1>3, <1>4, <1>6 DEF Fine, RequestsOf
  <2>3. sessions[k] \in Recordings
    BY <1>1 DEF Busy, PageInv, RecInv, TypeOK
  <2>4. key[sessions[k]] = k /\ rpc[sessions[k]] \in Running
    BY <2>3 DEF PageInv, RecInv, TableIsLive
  <2>5. StopWorks(c, k)'
    BY <1>1, <1>2, <2>3, <2>4, SameRecordings DEF StopWorks
  <2>6. WillBeRight(q, c)'
    BY <1>2, <2>1, <2>5 DEF WillBeRight
  <2> QED
    BY <2>2, <2>6 DEF Fine
<1> QED
  BY <1>5, <1>6

LEMMA FineServeStop ==
  ASSUME PageInv, NEW c \in Callers, ServeStop(c), NEW q \in loaded' \ upset'
  PROVE  Fine(q)'
<1>1. PICK k \in Keys : k = KeyOf[rpage[c]] /\ rpage[c] \in Pages
  BY PageBounds DEF PageInv, PageTypeOK
<1>2. CASE /\ Stop(c, k) /\ rat' = [rat EXCEPT ![c] = "served"]
           /\ UNCHANGED <<loaded, shown, rpage, rwhat, answer, upset>>
  <2>1. rat[c] = "sent" /\ rwhat[c] = "stop" /\ q \in loaded \ upset
    BY <1>2 DEF ServeStop, Sent
  <2> QED
    BY <1>1, <1>2, <2>1, FineStop
<1>3. CASE Answers(c, "error") /\ UNCHANGED <<vars, upset>>
  <2>1. rat[c] = "sent" /\ rwhat[c] = "stop" /\ q \in loaded \ upset /\ q \in Pages
    BY <1>3 DEF ServeStop, Sent, Answers, PageInv, PageTypeOK
  <2>2. UNCHANGED <<sessions, key, rpc, target>>
    BY <1>3 DEF vars, recordings, calls
  <2>3. q = rpage[c] => (q \in shown <=> Busy(k))
    <3>1. q = rpage[c] => c \in RequestsOf(q)
      BY <2>1 DEF RequestsOf
    <3> QED
      BY <1>1, <2>1, <3>1 DEF PageInv, Fine, WillBeRight, Agrees
  <2>4. q = rpage[c] => (q \in SetRecordState(q, rwhat[c], "error") <=> Busy(KeyOf[q])')
    BY <1>1, <2>2, <2>3, Flag, SameRecordings
  <2>5. /\ Busy(KeyOf[q])' <=> Busy(KeyOf[q])
        /\ \A d \in Callers : StopWorks(d, KeyOf[q]) => StopWorks(d, KeyOf[q])'
    BY <2>2, SameRecordings
  <2> QED
    BY <1>3, <2>1, <2>2, <2>4, <2>5, FineAnswer
<1> QED
  BY <1>1, <1>2, <1>3 DEF ServeStop

\* Stop comes back with an OK: when it has not given up, the channel is free.
LEMMA FineReturn ==
  ASSUME PageInv, NEW c \in Callers, StopReturns(c), NEW q \in loaded' \ upset'
  PROVE  Fine(q)'
<1>1. PICK text \in {"error", "ok"} : Answers(c, text) /\ (text = "error" <=> cpc[c] = "panic")
  BY DEF StopReturns
<1>2. /\ rat[c] = "served" /\ UNCHANGED <<sessions, key, rpc>>
      /\ target' = [target EXCEPT ![c] = None]
      /\ q \in loaded /\ (q \notin upset \/ q \in Settles(c))
  BY DEF StopReturns, Hangup, Answers, recordings
<1>3. q = rpage[c] => (q \in SetRecordState(q, rwhat[c], text) <=> Busy(KeyOf[q])')
  <2>1. SUFFICES ASSUME q = rpage[c]
                 PROVE  q \in SetRecordState(q, rwhat[c], text) <=> Busy(KeyOf[q])'
    OBVIOUS
  <2>2. cpc[c] # "panic" /\ rpc[target[c]] \notin Running
        /\ (q \in upset => ~Busy(KeyOf[q]))
    BY <1>2, <2>1 DEF StopReturns
  <2>3. c \in RequestsOf(q) /\ (q \notin upset => Fine(q))
    BY <1>2, <2>1 DEF RequestsOf, PageInv
  <2>4. rwhat[c] = "stop"
    BY <1>2 DEF PageInv, Served
  <2>5. ~Busy(KeyOf[q])
    BY <1>2, <2>1, <2>2, <2>3 DEF Fine, WillBeRight, StopWorks
  <2> QED
    BY <1>1, <1>2, <2>2, <2>4, <2>5, Flag, SameRecordings
<1>4. /\ Busy(KeyOf[q])' <=> Busy(KeyOf[q])
      /\ \A d \in Callers : target'[d] = target[d] /\ StopWorks(d, KeyOf[q]) => StopWorks(d, KeyOf[q])'
  BY <1>2, SameRecordings
<1> QED
  BY <1>1, <1>2, <1>3, <1>4, FineAnswer

\* A request is over: its answer is taken, or never comes.
LEMMA FineOver ==
  ASSUME PageInv, NEW c \in Callers, Receive(c) \/ Lose(c), NEW q \in loaded' \ upset'
  PROVE  Fine(q)'
<1>1. /\ rat' = [rat EXCEPT ![c] = "free"] /\ rwhat' = [rwhat EXCEPT ![c] = "status"]
      /\ answer' = [answer EXCEPT ![c] = "error"]
      /\ UNCHANGED <<sessions, key, rpc, target, loaded, rpage>>
  BY DEF Receive, Lose, Over, vars, recordings, calls
<1>2. /\ rat'[c] = "free"
      /\ \A d \in Callers \ {c} : rat'[d] = rat[d] /\ rwhat'[d] = rwhat[d] /\ answer'[d] = answer[d]
  BY <1>1 DEF PageInv, PageTypeOK
<1>3. q \in loaded \ upset /\ q \in Pages /\ Fine(q) /\ PageTypeOK
  BY <1>1 DEF Receive, Lose, PageInv, PageTypeOK
<1>4. answer[c] \in {"active", "inactive", "ok", "error"} /\ rat[c] \in {"sent", "answered"}
  BY <1>3 DEF Receive, Lose, PageTypeOK
<1>5. CASE q # rpage[c]
  <2>1. \A d \in Callers : d \in RequestsOf(q)' <=> d \in RequestsOf(q)
    BY <1>1, <1>2, <1>5 DEF RequestsOf
  <2>2. \A d \in RequestsOf(q) : d \in Callers \ {c}
    BY <1>5 DEF RequestsOf
  <2>3. \A d \in RequestsOf(q) :
          /\ rat'[d] = rat[d] /\ rwhat'[d] = rwhat[d] /\ answer'[d] = answer[d]
          /\ StopWorks(d, KeyOf[q]) => StopWorks(d, KeyOf[q])'
    BY <1>1, <1>2, <2>2, SameRecordings
  <2>4. q \in shown' <=> q \in shown
    BY <1>4, <1>5, Flag DEF Receive, Lose
  <2>5. Busy(KeyOf[q])' <=> Busy(KeyOf[q])
    BY <1>1, SameRecordings
  <2> QED
    BY <1>3, <2>1, <2>3, <2>4, <2>5, Undisturbed
<1>6. CASE q = rpage[c]
  <2>1. Receive(c)
    BY <1>6 DEF Lose
  <2>2. rat[c] = "answered" /\ shown' = SetRecordState(q, rwhat[c], answer[c])
    BY <1>6, <2>1 DEF Receive
  <2>3. c \in RequestsOf(q)
    BY <1>6, <2>2 DEF RequestsOf
  <2>4. RequestsOf(q) = {c}
    BY <1>3, <2>3 DEF Fine
  <2>5. RequestsOf(q)' = {}
    BY <1>1, <1>2, <2>4 DEF RequestsOf
  <2>6. q \in shown' <=> Busy(KeyOf[q])
    BY <1>3, <2>2, <2>3 DEF Fine, WillBeRight
  <2>7. Agrees(q)'
    BY <1>1, <2>6, SameRecordings DEF Agrees
  <2> QED
    BY <2>5, <2>7 DEF Fine
<1> QED
  BY <1>5, <1>6

\* The page does not take part.
LEMMA FineApart ==
  ASSUME PageInv, UNCHANGED <<loaded, shown, rpage, rwhat, answer>>, upset \subseteq upset',
         NEW q \in loaded' \ upset',
         Busy(KeyOf[q])' <=> Busy(KeyOf[q]),
         \A d \in RequestsOf(q) : StopWorks(d, KeyOf[q]) => StopWorks(d, KeyOf[q])',
         \/ rat' = rat
         \/ \E c \in Callers : /\ rat' = [rat EXCEPT ![c] = "free"] /\ rat[c] = "elsewhere"
  PROVE  Fine(q)'
<1>1. q \in Pages /\ Fine(q) /\ PageTypeOK
  BY DEF PageInv, PageTypeOK
<1>2. \A d \in Callers : d \in RequestsOf(q)' <=> d \in RequestsOf(q)
  BY <1>1 DEF RequestsOf, PageTypeOK
<1>3. \A d \in RequestsOf(q) : d \in Callers /\ rat'[d] = rat[d]
  BY <1>1 DEF RequestsOf, PageTypeOK
<1> QED
  BY <1>1, <1>2, <1>3, Undisturbed

LEMMA FineElsewhere ==
  ASSUME PageInv, NEW q \in loaded' \ upset',
         \/ \E c \in Callers : ReturnsElsewhere(c)
         \/ \E k \in Keys : StartElsewhere(k) \/ StopElsewhere(k)
  PROVE  Fine(q)'
<1>1. ASSUME NEW c \in Callers, ReturnsElsewhere(c) PROVE Fine(q)'
  <2>1. /\ UNCHANGED <<sessions, key, rpc>> /\ target' = [target EXCEPT ![c] = None]
        /\ rat[c] = "elsewhere" /\ rat' = [rat EXCEPT ![c] = "free"]
        /\ UNCHANGED <<loaded, shown, rpage, rwhat, answer, upset>>
    BY <1>1 DEF ReturnsElsewhere, Hangup, recordings
  <2>2. \A d \in RequestsOf(q) : target'[d] = target[d]
    BY <2>1 DEF RequestsOf, PageInv, PageTypeOK, TypeOK
  <2>3. \A d \in RequestsOf(q) : StopWorks(d, KeyOf[q]) => StopWorks(d, KeyOf[q])'
    BY <2>1, <2>2, SameRecordings
  <2> QED
    BY <2>1, <2>3, FineApart, SameRecordings
<1>2. ASSUME NEW k \in Keys, StartElsewhere(k) PROVE Fine(q)'
  <2>1. q \in loaded /\ KeyOf[q] # k /\ KeyOf[q] \in Keys /\ upset \subseteq upset'
    BY <1>2, PageBounds DEF StartElsewhere, PageInv, PageTypeOK
  <2>2. /\ Busy(KeyOf[q])' <=> Busy(KeyOf[q])
        /\ \A d \in Callers : StopWorks(d, KeyOf[q]) => StopWorks(d, KeyOf[q])'
    BY <1>2, <2>1, StartApart DEF StartElsewhere, PageInv
  <2>3. RequestsOf(q) \subseteq Callers
    BY DEF RequestsOf
  <2> QED
    BY <1>2, <2>1, <2>2, <2>3, FineApart DEF StartElsewhere
<1>3. ASSUME NEW k \in Keys, StopElsewhere(k) PROVE Fine(q)'
  <2>1. PICK c \in Callers : Stop(c, k) /\ rat' = [rat EXCEPT ![c] = "elsewhere"] /\ rat[c] = "free"
    BY <1>3, FreshIsFree DEF StopElsewhere
  <2>2. UNCHANGED <<loaded, shown, rpage, rwhat, answer, upset>> /\ q \in loaded \ upset
    BY <1>3 DEF StopElsewhere
  <2> QED
    BY <2>1, <2>2, FineStop
<1> QED
  BY <1>1, <1>2, <1>3

\* A recording proceeds: when it leaves the table, the pages that have not asked for it are upset.
LEMMA FineRun ==
  ASSUME PageInv, NEW r \in Recordings, RunAndTell(r), NEW q \in loaded' \ upset'
  PROVE  Fine(q)'
<1>1. /\ Run(r) /\ upset \subseteq upset' /\ q \in loaded \ upset /\ q \in Pages
      /\ UNCHANGED <<loaded, shown, rat, rpage, rwhat, answer>>
  BY DEF RunAndTell, PageInv, PageTypeOK
<1>2. KeyOf[q] \in Keys
  BY <1>1, PageBounds
<1>3. CASE sessions' = sessions \/ key[r] # KeyOf[q]
  <2>1. /\ Busy(KeyOf[q])' <=> Busy(KeyOf[q])
        /\ \A d : StopWorks(d, KeyOf[q]) => StopWorks(d, KeyOf[q])'
    BY <1>1, <1>2, <1>3, RunApart DEF PageInv
  <2> QED
    BY <1>1, <2>1, FineApart
<1>4. CASE sessions' # sessions /\ key[r] = KeyOf[q]
  <2>1. PICK c \in RequestsOf(q) : rat[c] = "served" /\ target[c] = r
    BY <1>1, <1>4 DEF RunAndTell, Awaits
  <2>2. /\ sessions' = [sessions EXCEPT ![key[r]] = None] /\ UNCHANGED <<key, target>>
        /\ \E pc \in Leaving : rpc' = [rpc EXCEPT ![r] = pc]
    BY <1>1, <1>4 DEF Run, Open, Prepare, ObeyStop, RunOut, Leave, Finish, MoveTo, Without, Defer, calls
  <2>3. sessions'[KeyOf[q]] = None /\ key'[r] = KeyOf[q] /\ target'[c] = r /\ rpc'[r] \in Leaving
    BY <1>2, <1>4, <2>1, <2>2 DEF PageInv, RecInv, TypeOK
  <2>4. StopWorks(c, KeyOf[q])'
    BY <2>3 DEF StopWorks, Busy
  <2>5. RequestsOf(q)' = RequestsOf(q)
    BY <1>1 DEF RequestsOf
  <2>6. Fine(q)
    BY <1>1 DEF PageInv
  <2>7. RequestsOf(q) = {c} /\ rwhat[c] = "stop"
    BY <2>1, <2>6 DEF Fine, WillBeRight
  <2>8. WillBeRight(q, c)'
    BY <1>1, <2>1, <2>4, <2>7 DEF WillBeRight
  <2> QED
    BY <2>5, <2>7, <2>8 DEF Fine
<1> QED
  BY <1>3, <1>4

\* The calls that are being served, and the clock, change nothing that a page depends on.
LEMMA FineInCall ==
  ASSUME PageInv, NEW q \in loaded' \ upset', UNCHANGED page,
         UNCHANGED vars \/ Tick \/ \E c \in Callers : InCall(c)
  PROVE  Fine(q)'
<1>1. UNCHANGED <<sessions, key, rpc, target>>
  BY DEF Tick, InCall, Check, Close, Answer, recordings, vars, calls
<1>2. UNCHANGED <<loaded, shown, rat, rpage, rwhat, answer, upset>>
  BY DEF page
<1>3. /\ Busy(KeyOf[q])' <=> Busy(KeyOf[q])
      /\ \A d : StopWorks(d, KeyOf[q]) => StopWorks(d, KeyOf[q])'
  BY <1>1, SameRecordings
<1> QED
  BY <1>2, <1>3, FineApart

LEMMA PageNextInv == PageInv /\ [PageNext]_pageVars => PageInv'
<1> SUFFICES ASSUME PageInv, [PageNext]_pageVars PROVE PageInv'
  OBVIOUS
<1>1. RecInv'
  BY PageStep, RecNext DEF PageInv
<1>2. PageTypeOK' /\ Senders' /\ Served'
  BY <1>1, PageTypeNext, ServedNext DEF PageInv, RecInv
<1>3. ASSUME NEW q \in loaded' \ upset' PROVE Fine(q)'
  <2>1. CASE UNCHANGED pageVars
    <3>1. UNCHANGED vars /\ UNCHANGED page
      BY <2>1 DEF pageVars
    <3> QED
      BY <1>3, <3>1, FineInCall
  <2>2. CASE PageNext
    <3>1. ASSUME NEW c \in Callers, InCall(c) PROVE UNCHANGED page
      BY <3>1 DEF InCall
    <3> QED
      BY <1>3, <2>2, <3>1, FineSend, FineServe, FineServeStop, FineReturn, FineOver, FineElsewhere, FineRun,
         FineInCall DEF PageNext
  <2> QED
    BY <2>1, <2>2
<1> QED
  BY <1>1, <1>2, <1>3 DEF PageInv

LEMMA PageInitInv == PageInit => PageInv
<1> SUFFICES ASSUME PageInit PROVE PageInv
  OBVIOUS
<1>1. RecInv
  BY RecInit DEF PageInit
<1>2. (CHOOSE p \in Pages : TRUE) \in Pages
  BY PageBounds
<1>3. PageTypeOK
  BY <1>1, <1>2 DEF PageInit, RecInv, PageTypeOK
<1>4. \A p \in Pages : RequestsOf(p) = {}
  BY DEF PageInit, RequestsOf
<1> QED
  BY <1>1, <1>3, <1>4 DEF PageInit, PageInv, Senders, Served

LEMMA PageInvariant == PageSpec => []PageInv
  BY PageInitInv, PageNextInv, PTL DEF PageSpec

\* The pages drive the recordings as any other program may: what is proved of the recordings
\* alone holds below the pages as well.
THEOREM PageImplementsRecorder == PageSpec => Spec
<1>1. PageInit => Init
  BY DEF PageInit
<1>2. PageInv /\ [PageNext]_pageVars => [Next]_vars
  BY PageStep DEF PageInv
<1> QED
  BY <1>1, <1>2, PageInvariant, PTL DEF PageSpec, Spec

\* Pages, their flags and their requests are always well formed.
THEOREM PageTypeCorrect == PageSpec => []PageTypeOK
<1>1. PageInv => PageTypeOK
  BY DEF PageInv
<1> QED
  BY <1>1, PageInvariant, PTL

\* A page that waits for nothing shows whether its channel is recorded, unless one of the six
\* things happened to it that no answer tells: a request that is served late, or refused, or
\* answered while the requests of other pages are served, does not mislead it.  What did mislead
\* it is over once a request that it sent alone has been carried out.
THEOREM RestingPageIsRightCorrect == PageSpec => []RestingPageIsRight
<1>1. PageInv => RestingPageIsRight
  BY DEF PageInv, RestingPageIsRight, Fine, Agrees
<1> QED
  BY <1>1, PageInvariant, PTL
===========================================================================
