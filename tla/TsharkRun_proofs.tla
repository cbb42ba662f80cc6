--------------------------- MODULE TsharkRun_proofs ---------------------------
(***************************************************************************)
(* What becomes of each line of the tshark program, for every number of    *)
(* workers and lines, every size of its queues and in every mode: one      *)
(* place each, nothing lost at the end of a capture, a writer that keeps   *)
(* up.                                                                     *)
(***************************************************************************)
EXTENDS TsharkRun, SequenceTheorems, FiniteSetTheorems, TLAPS

(***************************************************************************)
(* A worker has a packet exactly while it works on one.                    *)
(***************************************************************************)
Working == {"taken", "processing"}

HandsFull == \A w \in Workers : item[w] # NoItem <=> worker[w] \in Working

(***************************************************************************)
(* A packet is queued once; an output strands nothing before it stops and  *)
(* holds nothing afterwards.                                               *)
(***************************************************************************)
QueuedOnce == IsInjective(parsedQueue)

StrandedAtTheEnd ==
    /\ outPhase # "stopped" => outStranded = {}
    /\ outPhase = "stopped" => outHeld = <<>>

(***************************************************************************)
(* run starts the threads once, and joins them in this order.              *)
(***************************************************************************)
NotStarted ==
    main = "intel" => /\ receiver = "unborn" /\ outPhase = "running"
                      /\ \A w \in Workers : worker[w] = "unborn"

LeftInOrder ==
    /\ ~ParsedConnected => receiver = "done"
    /\ ~OutConnected => \A w \in Workers : worker[w] = "done"
    /\ main \in {"updater", "merger", "done"} => outPhase = "stopped"

(***************************************************************************)
(* Without a signal a worker leaves only an empty queue that nobody fills, *)
(* and so does the output.                                                 *)
(***************************************************************************)
LeavesDrained ==
    ~shutdown =>
        /\ \A w \in Workers : worker[w] \in {"exiting", "done"} =>
                                  ~ParsedConnected /\ parsedQueue = <<>>
        /\ outPhase # "running" => ~OutConnected /\ outQueue = <<>>

(***************************************************************************)
(* Who can still queue a packet after the stdout writer left; each worker  *)
(* can do so once, since its loop looks at the shutdown flag.              *)
(***************************************************************************)
Pending == {w \in Workers : worker[w] \in {"waiting", "taken", "processing"}}

WriterGone ==
    StdoutMode /\ outPhase = "stopped" =>
        Len(outQueue) + Cardinality(Pending) <= Cardinality(Workers)

NothingLostByWriter == StdoutMode => outLost = {} /\ outHeld = <<>> /\ outStranded = {}

GoneNever == ~shutdown => dropped["out_gone"] = {} /\ outStranded = {}

Places == HandsFull /\ QueuedOnce /\ EachPacketOnce

Ordered == StrandedAtTheEnd /\ NotStarted /\ LeftInOrder /\ LeavesDrained /\ GoneNever

Writer == NothingLostByWriter /\ WriterGone

IInv == TypeOK /\ Places /\ Ordered /\ Writer

LEMMA Sizes ==
    /\ MaxLines \in Nat /\ NoItem \notin Lines /\ Lines \subseteq Nat
    /\ ParsedCap \in Nat /\ OutCap \in Nat /\ IsFiniteSet(Workers) /\ Workers # {}
<1>1. {ParsedCap, MonitorCap, OutCap} \subseteq Nat \ {0}
  BY TsharkAssumption DEF TsharkAssumption
<1> QED BY <1>1, TsharkAssumption DEF TsharkAssumption, Lines, NoItem

-----------------------------------------------------------------------------
(* Queues and the sets of their elements.                                  *)

(***************************************************************************)
(* The elements of a sequence by their places.                             *)
(***************************************************************************)
LEMMA RangeByIndex ==
    ASSUME NEW S, NEW s \in Seq(S)
    PROVE  /\ Len(s) \in Nat /\ DOMAIN s = 1..Len(s)
           /\ \A i \in 1..Len(s) : s[i] \in S
           /\ Range(s) = {s[i] : i \in 1..Len(s)} /\ Range(s) \subseteq S
<1>1. Len(s) \in Nat /\ DOMAIN s = 1..Len(s) /\ \A i \in 1..Len(s) : s[i] \in S
  BY LenProperties, ElementOfSeq
<1> QED BY <1>1 DEF Range

LEMMA EmptyRange == Range(<<>>) = {}
BY DEF Range

LEMMA AppendRange ==
    ASSUME NEW S, NEW s \in Seq(S), NEW e \in S
    PROVE  /\ Append(s, e) \in Seq(S) /\ Len(Append(s, e)) = Len(s) + 1
           /\ Range(Append(s, e)) = Range(s) \cup {e}
<1>1. /\ Append(s, e) \in Seq(S) /\ Len(Append(s, e)) = Len(s) + 1
      /\ \A i \in 1..Len(s) : Append(s, e)[i] = s[i]
      /\ Append(s, e)[Len(s) + 1] = e
  BY AppendProperties
<1>2. Len(s) \in Nat /\ Range(s) = {s[i] : i \in 1..Len(s)}
  BY RangeByIndex
<1>3. Range(Append(s, e)) = {Append(s, e)[i] : i \in 1..(Len(s) + 1)}
  BY <1>1, RangeByIndex
<1>4. 1..(Len(s) + 1) = 1..Len(s) \cup {Len(s) + 1}
  BY <1>2
<1> QED BY <1>1, <1>2, <1>3, <1>4

LEMMA TakeRange ==
    ASSUME NEW S, NEW s \in Seq(S), s # <<>>
    PROVE  /\ Head(s) \in S /\ Tail(s) \in Seq(S) /\ Len(Tail(s)) = Len(s) - 1
           /\ Range(s) = Range(Tail(s)) \cup {Head(s)}
<1>1. /\ Head(s) \in S /\ Tail(s) \in Seq(S) /\ Len(Tail(s)) = Len(s) - 1
      /\ \A i \in 1..Len(Tail(s)) : Tail(s)[i] = s[i + 1]
  BY HeadTailProperties
<1>2. Len(s) \in Nat /\ Len(s) >= 1 /\ Range(s) = {s[i] : i \in 1..Len(s)}
  BY RangeByIndex, EmptySeq
<1>3. Range(Tail(s)) = {Tail(s)[i] : i \in 1..(Len(s) - 1)}
  BY <1>1, RangeByIndex
<1>4. Head(s) = s[1]
  OBVIOUS
<1>5. ASSUME NEW i \in 1..Len(s), i # 1 PROVE s[i] \in Range(Tail(s))
  <2>1. i - 1 \in 1..(Len(s) - 1) /\ (i - 1) + 1 = i
    BY <1>2, <1>5
  <2>2. Tail(s)[i - 1] = s[i]
    BY <1>1, <2>1
  <2> QED BY <1>3, <2>1, <2>2
<1>6. ASSUME NEW i \in 1..(Len(s) - 1) PROVE Tail(s)[i] \in Range(s)
  <2>1. i + 1 \in 1..Len(s) /\ Tail(s)[i] = s[i + 1]
    BY <1>1, <1>2
  <2> QED BY <1>2, <2>1
<1>7. 1 \in 1..Len(s)
  BY <1>2
<1> QED BY <1>1, <1>2, <1>3, <1>4, <1>5, <1>6, <1>7

(***************************************************************************)
(* A settled batch is divided between what is received and what is lost.   *)
(***************************************************************************)
LEMMA SettleRange ==
    ASSUME NEW S, NEW r \in Seq(S), NEW h \in Seq(S), NEW k \in 0..Len(h)
    PROVE  /\ r \o SubSeq(h, 1, k) \in Seq(S)
           /\ Range(r \o SubSeq(h, 1, k)) \cup {h[i] : i \in (k + 1)..Len(h)}
                 = Range(r) \cup Range(h)
           /\ {h[i] : i \in (k + 1)..Len(h)} \subseteq S
<1>1. Len(h) \in Nat /\ Range(h) = {h[i] : i \in 1..Len(h)} /\ Range(h) \subseteq S
  BY RangeByIndex
<1>2. k \in Nat /\ 1..Len(h) = 1..k \cup (k + 1)..Len(h)
  BY <1>1
<1>3. \A i \in 1..k : h[i] \in S
  BY <1>2, RangeByIndex
<1>4. /\ SubSeq(h, 1, k) \in Seq(S) /\ Len(SubSeq(h, 1, k)) = k
      /\ \A i \in 1..k : SubSeq(h, 1, k)[i] = h[i]
  BY <1>2, <1>3, SubSeqProperties
<1>5. Range(SubSeq(h, 1, k)) = {h[i] : i \in 1..k}
  <2>1. Range(SubSeq(h, 1, k)) = {SubSeq(h, 1, k)[i] : i \in 1..k}
    BY <1>4, RangeByIndex
  <2> QED BY <1>4, <2>1
<1>6. /\ r \o SubSeq(h, 1, k) \in Seq(S)
      /\ Range(r \o SubSeq(h, 1, k)) = Range(r) \cup Range(SubSeq(h, 1, k))
  BY <1>4, ConcatProperties, RangeConcatenation
<1>7. Range(h) = {h[i] : i \in 1..k} \cup {h[i] : i \in (k + 1)..Len(h)}
  BY <1>1, <1>2
<1> QED BY <1>1, <1>5, <1>6, <1>7

(***************************************************************************)
(* A queue without duplicates stays one.                                   *)
(***************************************************************************)
LEMMA AppendOnce ==
    ASSUME NEW S, NEW s \in Seq(S), NEW e \in S, IsInjective(s), e \notin Range(s)
    PROVE  IsInjective(Append(s, e))
<1>1. /\ Append(s, e) \in Seq(S) /\ Len(Append(s, e)) = Len(s) + 1
      /\ \A i \in 1..Len(s) : Append(s, e)[i] = s[i]
      /\ Append(s, e)[Len(s) + 1] = e
  BY AppendProperties
<1>2. /\ Len(s) \in Nat /\ DOMAIN s = 1..Len(s) /\ Range(s) = {s[i] : i \in 1..Len(s)}
      /\ DOMAIN Append(s, e) = 1..(Len(s) + 1)
  BY <1>1, RangeByIndex
<1>3. 1..(Len(s) + 1) = 1..Len(s) \cup {Len(s) + 1}
  BY <1>2
<1>4. \A i, j \in 1..Len(s) : s[i] = s[j] => i = j
  BY <1>2 DEF IsInjective
<1> QED BY <1>1, <1>2, <1>3, <1>4 DEF IsInjective

LEMMA TakeOnce ==
    ASSUME NEW S, NEW s \in Seq(S), s # <<>>, IsInjective(s)
    PROVE  IsInjective(Tail(s)) /\ Head(s) \notin Range(Tail(s))
<1>1. /\ Tail(s) \in Seq(S) /\ Len(Tail(s)) = Len(s) - 1
      /\ \A i \in 1..Len(Tail(s)) : Tail(s)[i] = s[i + 1]
  BY HeadTailProperties
<1>2. /\ Len(s) \in Nat /\ Len(s) >= 1 /\ DOMAIN s = 1..Len(s)
      /\ DOMAIN Tail(s) = 1..(Len(s) - 1)
      /\ Range(Tail(s)) = {Tail(s)[i] : i \in 1..(Len(s) - 1)}
  <2>1. Len(s) \in Nat /\ Len(s) >= 1 /\ DOMAIN s = 1..Len(s)
    BY RangeByIndex, EmptySeq
  <2> QED BY <1>1, <2>1, RangeByIndex
<1>3. \A i, j \in 1..Len(s) : s[i] = s[j] => i = j
  BY <1>2 DEF IsInjective
<1>4. \A i \in 1..(Len(s) - 1) : i + 1 \in 1..Len(s) /\ Tail(s)[i] = s[i + 1]
  BY <1>1, <1>2
<1>5. \A i, j \in 1..(Len(s) - 1) : Tail(s)[i] = Tail(s)[j] => i = j
  <2> TAKE i, j \in 1..(Len(s) - 1)
  <2>1. Tail(s)[i] = Tail(s)[j] => i + 1 = j + 1
    BY <1>3, <1>4
  <2> QED BY <1>2, <2>1
<1>6. Head(s) = s[1] /\ 1 \in 1..Len(s)
  BY <1>2
<1>7. \A i \in 1..(Len(s) - 1) : Tail(s)[i] # Head(s)
  <2> TAKE i \in 1..(Len(s) - 1)
  <2>1. i + 1 # 1
    BY <1>2
  <2> QED BY <1>3, <1>4, <1>6, <2>1
<1> QED BY <1>2, <1>5, <1>7 DEF IsInjective

-----------------------------------------------------------------------------
(* What the output does to the packets on its side: it keeps them.         *)

LEMMA OutAppends ==
    ASSUME OutOK, NEW m \in Lines, Len(outQueue) < OutCap, outQueue' = Append(outQueue, m),
           UNCHANGED <<outHeld, outReceived, outLost, outStranded, outPhase>>
    PROVE  /\ OutOK' /\ OnOutSide' = OnOutSide \cup {m}
           /\ Len(outQueue') = Len(outQueue) + 1
<1>1. /\ outQueue' \in Seq(Lines) /\ Len(outQueue') = Len(outQueue) + 1
      /\ Range(outQueue') = Range(outQueue) \cup {m}
  BY AppendRange DEF OutOK
<1>2. Len(outQueue) \in Nat /\ OutCap \in Nat
  BY Sizes, RangeByIndex DEF OutOK
<1>3. OutOK'
  BY <1>1, <1>2 DEF OutOK
<1>4. OnOutSide' = OnOutSide \cup {m}
  BY <1>1 DEF OnOutSide
<1> QED BY <1>1, <1>3, <1>4

LEMMA OutSteps ==
    ASSUME OutOK, StrandedAtTheEnd, NothingLostByWriter, Output
    PROVE  /\ OutOK' /\ StrandedAtTheEnd' /\ NothingLostByWriter' /\ OnOutSide' = OnOutSide
           /\ UNCHANGED beforeOut /\ main # "intel"
           /\ outStranded' = outStranded \/ (outPhase = "leaving" /\ outStranded' = Range(outQueue))
           /\ outQueue = <<>> => outQueue' = <<>>
           /\ \/ outPhase' = outPhase /\ (StdoutMode => outPhase = "running")
              \/ outPhase # "running" /\ ~StdoutMode
              \/ outPhase = "running" /\ (shutdown \/ (~OutConnected /\ outQueue = <<>>))
                    /\ outQueue' = outQueue /\ (StdoutMode => outQueue = <<>>)
<1>1. CASE ElkTakes
  <2>1. /\ outPhase = "running" /\ outQueue # <<>> /\ ~StdoutMode
        /\ outHeld' = Append(outHeld, Head(outQueue)) /\ outQueue' = Tail(outQueue)
        /\ UNCHANGED <<outReceived, outLost, outStranded, outPhase, beforeOut>> /\ main # "intel"
    BY <1>1 DEF ElkTakes, ElkActs, Elk!Take, Started
  <2>2. /\ Head(outQueue) \in Lines /\ outQueue' \in Seq(Lines) /\ Len(outQueue') = Len(outQueue) - 1
        /\ Range(outQueue) = Range(outQueue') \cup {Head(outQueue)}
    BY <2>1, TakeRange DEF OutOK
  <2>3. outHeld' \in Seq(Lines) /\ Range(outHeld') = Range(outHeld) \cup {Head(outQueue)}
    BY <2>1, <2>2, AppendRange DEF OutOK
  <2>4. Len(outQueue) \in Nat /\ OutCap \in Nat
    BY Sizes, RangeByIndex DEF OutOK
  <2>5. OutOK'
    BY <2>1, <2>2, <2>3, <2>4 DEF OutOK
  <2>6. OnOutSide' = OnOutSide
    BY <2>1, <2>2, <2>3 DEF OnOutSide
  <2>7. StrandedAtTheEnd' /\ NothingLostByWriter'
    BY <2>1 DEF StrandedAtTheEnd, NothingLostByWriter, StdoutMode, beforeOut, helpers
  <2> QED BY <2>1, <2>5, <2>6, <2>7
<1>2. CASE ElkSettles
  <2>1. PICK k \in 0..Len(outHeld) :
            /\ outReceived' = outReceived \o SubSeq(outHeld, 1, k)
            /\ outLost' = outLost \cup {outHeld[i] : i \in (k + 1)..Len(outHeld)}
    BY <1>2 DEF ElkSettles, ElkActs, Elk!Settle
  <2>2. /\ outHeld # <<>> /\ outHeld' = <<>> /\ ~StdoutMode
        /\ UNCHANGED <<outQueue, outStranded, outPhase, beforeOut>> /\ main # "intel"
    BY <1>2 DEF ElkSettles, ElkActs, Elk!Settle, Started
  <2>3. /\ outReceived' \in Seq(Lines) /\ {outHeld[i] : i \in (k + 1)..Len(outHeld)} \subseteq Lines
        /\ Range(outReceived') \cup {outHeld[i] : i \in (k + 1)..Len(outHeld)}
              = Range(outReceived) \cup Range(outHeld)
    <3>1. outReceived \in Seq(Lines) /\ outHeld \in Seq(Lines)
      BY DEF OutOK
    <3>2. /\ outReceived \o SubSeq(outHeld, 1, k) \in Seq(Lines)
          /\ Range(outReceived \o SubSeq(outHeld, 1, k)) \cup {outHeld[i] : i \in (k + 1)..Len(outHeld)}
                = Range(outReceived) \cup Range(outHeld)
          /\ {outHeld[i] : i \in (k + 1)..Len(outHeld)} \subseteq Lines
      BY <3>1, SettleRange
    <3> QED BY <2>1, <3>2
  <2>4. Range(outHeld') = {}
    BY <2>2, EmptyRange
  <2>5. OutOK'
    BY <2>1, <2>2, <2>3 DEF OutOK
  <2>6. OnOutSide' = OnOutSide
    BY <2>1, <2>2, <2>3, <2>4 DEF OnOutSide
  <2>7. StrandedAtTheEnd' /\ NothingLostByWriter'
    BY <2>2 DEF StrandedAtTheEnd, NothingLostByWriter, StdoutMode, beforeOut, helpers
  <2>8. outPhase # "stopped"
    BY <2>2 DEF StrandedAtTheEnd
  <2> QED BY <2>2, <2>5, <2>6, <2>7, <2>8
<1>3. CASE ElkLeaves
  <2>1. /\ outPhase = "running" /\ outPhase' = "leaving"
        /\ shutdown \/ (~OutConnected /\ outQueue = <<>>)
        /\ ~StdoutMode /\ main # "intel"
        /\ UNCHANGED <<outQueue, outHeld, outReceived, outLost, outStranded, beforeOut>>
    BY <1>3 DEF ElkLeaves, ElkActs, Elk!Leave, Started
  <2>2. OutOK' /\ OnOutSide' = OnOutSide
    BY <2>1 DEF OutOK, OnOutSide
  <2>3. StrandedAtTheEnd' /\ NothingLostByWriter'
    BY <2>1 DEF StrandedAtTheEnd, NothingLostByWriter, StdoutMode, beforeOut, helpers
  <2> QED BY <2>1, <2>2, <2>3
<1>4. CASE ElkStops
  <2>1. /\ outPhase = "leaving" /\ outPhase' = "stopped" /\ outHeld = <<>>
        /\ outStranded' = Range(outQueue) /\ outQueue' = <<>>
        /\ ~StdoutMode /\ main # "intel"
        /\ UNCHANGED <<outHeld, outReceived, outLost, beforeOut>>
    BY <1>4 DEF ElkStops, ElkActs, Elk!Stop, Range, Elk!Range, Started
  <2>2. Range(outQueue) \subseteq Lines /\ Range(outQueue') = {}
    BY <2>1, EmptyRange, RangeByIndex DEF OutOK
  <2>3. OutOK'
    BY <2>1, <2>2, Sizes DEF OutOK
  <2>4. outStranded = {}
    BY <2>1 DEF StrandedAtTheEnd
  <2>5. OnOutSide' = OnOutSide
    BY <2>1, <2>2, <2>4 DEF OnOutSide
  <2>6. StrandedAtTheEnd' /\ NothingLostByWriter'
    BY <2>1 DEF StrandedAtTheEnd, NothingLostByWriter, StdoutMode, beforeOut, helpers
  <2> QED BY <2>1, <2>3, <2>5, <2>6
<1>5. CASE StdoutWrites
  <2>1. /\ outPhase = "running" /\ outQueue # <<>> /\ main # "intel"
        /\ outReceived' = Append(outReceived, Head(outQueue)) /\ outQueue' = Tail(outQueue)
        /\ UNCHANGED <<outHeld, outLost, outStranded, outPhase, beforeOut>>
    BY <1>5 DEF StdoutWrites, Started
  <2>2. /\ Head(outQueue) \in Lines /\ outQueue' \in Seq(Lines) /\ Len(outQueue') = Len(outQueue) - 1
        /\ Range(outQueue) = Range(outQueue') \cup {Head(outQueue)}
    BY <2>1, TakeRange DEF OutOK
  <2>3. outReceived' \in Seq(Lines) /\ Range(outReceived') = Range(outReceived) \cup {Head(outQueue)}
    BY <2>1, <2>2, AppendRange DEF OutOK
  <2>4. Len(outQueue) \in Nat /\ OutCap \in Nat
    BY Sizes, RangeByIndex DEF OutOK
  <2>5. OutOK'
    BY <2>1, <2>2, <2>3, <2>4 DEF OutOK
  <2>6. OnOutSide' = OnOutSide
    BY <2>1, <2>2, <2>3 DEF OnOutSide
  <2>7. StrandedAtTheEnd' /\ NothingLostByWriter'
    BY <2>1 DEF StrandedAtTheEnd, NothingLostByWriter, StdoutMode, beforeOut, helpers
  <2> QED BY <2>1, <2>5, <2>6, <2>7
<1>6. CASE StdoutLeaves
  <2>1. /\ outPhase = "running" /\ outPhase' = "stopped" /\ outQueue = <<>>
        /\ shutdown \/ ~OutConnected
        /\ StdoutMode /\ main # "intel"
        /\ UNCHANGED <<outQueue, outHeld, outReceived, outLost, outStranded, beforeOut>>
    BY <1>6 DEF StdoutLeaves, Started
  <2>2. OutOK' /\ OnOutSide' = OnOutSide
    BY <2>1 DEF OutOK, OnOutSide
  <2>3. StrandedAtTheEnd' /\ NothingLostByWriter'
    BY <2>1 DEF StrandedAtTheEnd, NothingLostByWriter, StdoutMode, beforeOut, helpers
  <2> QED BY <2>1, <2>2, <2>3
<1> QED BY <1>1, <1>2, <1>3, <1>4, <1>5, <1>6 DEF Output

-----------------------------------------------------------------------------
(* Where a packet is.                                                      *)

LEMMA HandTakes ==
    ASSUME CrewOK, NEW w \in Workers, item[w] = NoItem,
           NEW m \in Lines, item' = [item EXCEPT ![w] = m]
    PROVE  InHand' = InHand \cup {m}
<1>1. item'[w] = m /\ m # NoItem /\ \A v \in Workers : v # w => item'[v] = item[v]
  BY Sizes DEF CrewOK
<1> QED BY <1>1 DEF InHand

LEMMA HandEmpties ==
    ASSUME CrewOK, NEW w \in Workers, item[w] # NoItem, EachPacketOnce,
           item' = [item EXCEPT ![w] = NoItem]
    PROVE  item[w] \in InHand /\ InHand' = InHand \ {item[w]}
<1>1. item'[w] = NoItem /\ \A v \in Workers : v # w => item'[v] = item[v]
  BY DEF CrewOK
<1>2. \A v \in Workers : v # w => item[v] # item[w]
  BY DEF EachPacketOnce
<1> QED BY <1>1, <1>2 DEF InHand

LEMMA Dropping ==
    ASSUME IntakeOK, NEW m \in Lines, NEW c \in Causes, Drop(m, c)
    PROVE  /\ dropped' \in [Causes -> SUBSET Lines]
           /\ DroppedAnyhow' = DroppedAnyhow \cup {m}
           /\ \A d \in Causes : d # c => dropped'[d] = dropped[d]
<1>1. /\ dropped' \in [Causes -> SUBSET Lines]
      /\ dropped'[c] = dropped[c] \cup {m}
      /\ \A d \in Causes : d # c => dropped'[d] = dropped[d]
  BY DEF IntakeOK, Drop
<1> QED BY <1>1 DEF DroppedAnyhow

(***************************************************************************)
(* A step that moves no packet.                                            *)
(***************************************************************************)
LEMMA NoMove ==
    ASSUME Places, UNCHANGED <<arrived, parsedQueue, item, dropped, outVars>>,
           BeingEnqueued' = BeingEnqueued,
           \A w \in Workers : worker'[w] \in Working <=> worker[w] \in Working
    PROVE  Places'
<1>1. HandsFull'
  BY DEF Places, HandsFull
<1>2. QueuedOnce'
  BY DEF Places, QueuedOnce
<1>3. /\ InHand' = InHand /\ Range(parsedQueue)' = Range(parsedQueue)
      /\ OnOutSide' = OnOutSide /\ DroppedAnyhow' = DroppedAnyhow
  BY DEF InHand, OnOutSide, DroppedAnyhow, outVars
<1>4. EachPacketOnce'
  BY <1>3 DEF Places, EachPacketOnce
<1> QED BY <1>1, <1>2, <1>4 DEF Places

(***************************************************************************)
(* A line is read, and skipped, enqueued or dropped.                       *)
(***************************************************************************)
LEMMA ReceiverPlaces ==
    ASSUME TypeOK, Places, Receiver
    PROVE  Places'
<1>1. CASE ReceiverLoop \/ ReadTimeout \/ EndOfStdin
  <2>1. /\ UNCHANGED <<arrived, parsedQueue, worker, item, dropped, outVars>>
        /\ receiver # "enqueueing" /\ receiver' # "enqueueing"
    BY <1>1 DEF ReceiverLoop, ReadTimeout, EndOfStdin, crew, afterIntake
  <2> QED BY <2>1, NoMove DEF BeingEnqueued
<1>2. CASE ReadLine
  <2>1. /\ UNCHANGED <<parsedQueue, worker, item, outVars>>
        /\ receiver = "waiting" /\ arrived' = arrived + 1 /\ arrived < MaxLines
        /\ \/ Drop(arrived', "skipped") /\ receiver' = "loop"
           \/ UNCHANGED dropped /\ receiver' = "enqueueing"
    BY <1>2 DEF ReadLine, crew, afterIntake
  <2>2. BeingEnqueued = {}
    BY <2>1 DEF BeingEnqueued
  <2>3. InHand' = InHand /\ Range(parsedQueue)' = Range(parsedQueue) /\ OnOutSide' = OnOutSide
    BY <2>1 DEF InHand, OnOutSide, outVars
  <2>4. /\ 1..arrived' = 1..arrived \cup {arrived + 1} /\ arrived + 1 \notin 1..arrived
        /\ arrived' \in Lines
    BY <2>1, Sizes DEF TypeOK, IntakeOK, Lines
  <2>5. EachPacketOnce'
    <3>1. CASE Drop(arrived', "skipped") /\ receiver' = "loop"
      <4>1. DroppedAnyhow' = DroppedAnyhow \cup {arrived + 1}
        BY <2>1, <2>4, <3>1, Dropping DEF TypeOK, Causes
      <4>2. BeingEnqueued' = {}
        BY <3>1 DEF BeingEnqueued
      <4> QED BY <2>1, <2>2, <2>3, <2>4, <4>1, <4>2 DEF Places, EachPacketOnce
    <3>2. CASE UNCHANGED dropped /\ receiver' = "enqueueing"
      <4>1. DroppedAnyhow' = DroppedAnyhow
        BY <3>2 DEF DroppedAnyhow
      <4>2. BeingEnqueued' = {arrived + 1}
        BY <2>1, <3>2 DEF BeingEnqueued
      <4> QED BY <2>1, <2>2, <2>3, <2>4, <4>1, <4>2 DEF Places, EachPacketOnce
    <3> QED BY <2>1, <3>1, <3>2
  <2> QED BY <2>1, <2>5 DEF Places, HandsFull, QueuedOnce
<1>3. CASE EnqueuePacket
  <2>1. /\ UNCHANGED <<arrived, worker, item, outVars>>
        /\ receiver = "enqueueing" /\ receiver' = "loop"
    BY <1>3 DEF EnqueuePacket, crew, afterIntake
  <2>2. BeingEnqueued = {arrived} /\ BeingEnqueued' = {}
    BY <2>1 DEF BeingEnqueued
  <2>3. InHand' = InHand /\ OnOutSide' = OnOutSide
    BY <2>1 DEF InHand, OnOutSide, outVars
  <2>4. arrived \in Lines
    <3>1. arrived \in 1..arrived
      BY <2>2 DEF Places, EachPacketOnce
    <3> QED BY <3>1, Sizes DEF TypeOK, IntakeOK, Lines
  <2>5. HandsFull'
    BY <2>1 DEF Places, HandsFull
  <2>6. CASE parsedQueue' = Append(parsedQueue, arrived) /\ UNCHANGED dropped
    <3>1. Range(parsedQueue') = Range(parsedQueue) \cup {arrived}
      BY <2>4, <2>6, AppendRange DEF TypeOK, IntakeOK
    <3>2. arrived \notin Range(parsedQueue)
      BY <2>2 DEF Places, EachPacketOnce
    <3>3. QueuedOnce'
      <4>1. parsedQueue \in Seq(Lines) /\ IsInjective(parsedQueue)
        BY DEF TypeOK, IntakeOK, Places, QueuedOnce
      <4> QED BY <2>4, <2>6, <3>2, <4>1, AppendOnce DEF QueuedOnce
    <3>4. DroppedAnyhow' = DroppedAnyhow
      BY <2>6 DEF DroppedAnyhow
    <3>5. EachPacketOnce'
      BY <2>1, <2>2, <2>3, <3>1, <3>4 DEF Places, EachPacketOnce
    <3> QED BY <2>5, <3>3, <3>5 DEF Places
  <2>7. CASE Drop(arrived, "parsed_full") /\ UNCHANGED parsedQueue
    <3>1. DroppedAnyhow' = DroppedAnyhow \cup {arrived}
      BY <2>4, <2>7, Dropping DEF TypeOK, Causes
    <3>2. EachPacketOnce'
      BY <2>1, <2>2, <2>3, <2>7, <3>1 DEF Places, EachPacketOnce
    <3>3. QueuedOnce'
      BY <2>7 DEF Places, QueuedOnce
    <3> QED BY <2>5, <3>2, <3>3 DEF Places
  <2> QED BY <1>3, <2>6, <2>7 DEF EnqueuePacket
<1> QED BY <1>1, <1>2, <1>3 DEF Receiver

(***************************************************************************)
(* A worker has handed its packet to the output, or dropped it.            *)
(***************************************************************************)
LEMMA PacketProcessed ==
    ASSUME TypeOK, HandsFull, NEW w \in Workers, ProcessPacket(w)
    PROVE  /\ item[w] \in Lines /\ OutOK' /\ dropped' \in [Causes -> SUBSET Lines]
           /\ \/ /\ OnOutSide' = OnOutSide \cup {item[w]} /\ UNCHANGED dropped
                 /\ Len(outQueue') = Len(outQueue) + 1
                 /\ StdoutMode \/ outPhase # "stopped"
              \/ /\ OnOutSide' = OnOutSide /\ UNCHANGED outQueue
                 /\ DroppedAnyhow' = DroppedAnyhow \cup {item[w]}
                 /\ \/ ~StdoutMode /\ outPhase = "stopped"
                    \/ dropped'["out_gone"] = dropped["out_gone"]
<1>1. /\ worker[w] = "processing"
      /\ UNCHANGED <<outHeld, outReceived, outLost, outStranded, outPhase>>
  BY DEF ProcessPacket
<1>2. item[w] \in Lines
  BY <1>1 DEF TypeOK, CrewOK, HandsFull, Working
<1>3. CASE OutAccepts /\ outQueue' = Append(outQueue, item[w]) /\ UNCHANGED dropped
  <2>1. Len(outQueue) < OutCap /\ (StdoutMode \/ outPhase # "stopped")
    BY <1>3 DEF OutAccepts, Elk!Accepts
  <2>2. OutOK' /\ OnOutSide' = OnOutSide \cup {item[w]} /\ Len(outQueue') = Len(outQueue) + 1
    BY <1>1, <1>2, <1>3, <2>1, OutAppends DEF TypeOK
  <2> QED BY <1>2, <1>3, <2>1, <2>2 DEF TypeOK, IntakeOK
<1>4. ASSUME NEW c \in {"out_gone", "out_full"}, Drop(item[w], c), UNCHANGED outQueue,
             c = "out_gone" => ~StdoutMode /\ outPhase = "stopped"
      PROVE  /\ OutOK' /\ dropped' \in [Causes -> SUBSET Lines]
             /\ OnOutSide' = OnOutSide /\ DroppedAnyhow' = DroppedAnyhow \cup {item[w]}
             /\ \/ ~StdoutMode /\ outPhase = "stopped"
                \/ dropped'["out_gone"] = dropped["out_gone"]
  <2>1. OutOK' /\ OnOutSide' = OnOutSide
    BY <1>1, <1>4 DEF TypeOK, OutOK, OnOutSide
  <2>2. c \in Causes /\ "out_gone" \in Causes
    BY <1>4 DEF Causes
  <2>3. /\ dropped' \in [Causes -> SUBSET Lines]
        /\ DroppedAnyhow' = DroppedAnyhow \cup {item[w]}
        /\ \A d \in Causes : d # c => dropped'[d] = dropped[d]
    BY <1>2, <1>4, <2>2, Dropping DEF TypeOK
  <2> QED BY <1>4, <2>1, <2>2, <2>3
<1>5. \/ OutAccepts /\ outQueue' = Append(outQueue, item[w]) /\ UNCHANGED dropped
      \/ /\ UNCHANGED outQueue
         /\ \/ Drop(item[w], "out_gone") /\ ~StdoutMode /\ outPhase = "stopped"
            \/ Drop(item[w], "out_full")
  BY DEF ProcessPacket
<1>6. CASE UNCHANGED outQueue /\ Drop(item[w], "out_gone") /\ ~StdoutMode /\ outPhase = "stopped"
  BY <1>2, <1>4, <1>6
<1>7. CASE UNCHANGED outQueue /\ Drop(item[w], "out_full")
  BY <1>2, <1>4, <1>7
<1> QED BY <1>2, <1>3, <1>5, <1>6, <1>7

(***************************************************************************)
(* A worker takes a packet from the queue and processes it.                *)
(***************************************************************************)
LEMMA WorkerPlaces ==
    ASSUME TypeOK, Places, NEW w \in Workers, WorkerStep(w)
    PROVE  Places'
<1>1. CASE WorkerLoop(w) \/ TakeNothing(w) \/ ReadLoad(w) \/ WorkerExit(w)
  <2>1. /\ UNCHANGED <<receiver, arrived, parsedQueue, item, dropped, outVars>>
        /\ \E l \in {"loop", "waiting", "exiting", "done", "processing"} :
              /\ worker' = [worker EXCEPT ![w] = l]
              /\ l \in Working <=> worker[w] \in Working
    BY <1>1 DEF WorkerLoop, TakeNothing, ReadLoad, WorkerExit, Goto, Working, intake
  <2>2. \A v \in Workers : worker'[v] \in Working <=> worker[v] \in Working
    BY <2>1 DEF TypeOK, CrewOK
  <2> QED BY <2>1, <2>2, NoMove DEF BeingEnqueued
<1>2. CASE TakePacket(w)
  <2> DEFINE m == Head(parsedQueue)
  <2>1. /\ UNCHANGED <<receiver, arrived, dropped, outVars>>
        /\ worker[w] = "waiting" /\ parsedQueue # <<>> /\ parsedQueue' = Tail(parsedQueue)
        /\ item' = [item EXCEPT ![w] = m] /\ worker' = [worker EXCEPT ![w] = "taken"]
    BY <1>2 DEF TakePacket, Goto
  <2>2. m \in Lines /\ Range(parsedQueue) = Range(parsedQueue') \cup {m}
    BY <2>1, TakeRange DEF TypeOK, IntakeOK
  <2>3. QueuedOnce' /\ m \notin Range(parsedQueue')
    <3>1. parsedQueue \in Seq(Lines) /\ IsInjective(parsedQueue)
      BY DEF TypeOK, IntakeOK, Places, QueuedOnce
    <3> QED BY <2>1, <3>1, TakeOnce DEF QueuedOnce
  <2>4. item[w] = NoItem
    BY <2>1 DEF Places, HandsFull, Working
  <2> HIDE DEF m
  <2>5. InHand' = InHand \cup {m}
    BY <2>1, <2>2, <2>4, HandTakes DEF TypeOK
  <2>6. /\ BeingEnqueued' = BeingEnqueued /\ OnOutSide' = OnOutSide
        /\ DroppedAnyhow' = DroppedAnyhow
    BY <2>1 DEF BeingEnqueued, OnOutSide, DroppedAnyhow, outVars
  <2>7. \A v \in Workers : v # w => item'[v] = item[v] /\ worker'[v] = worker[v]
    BY <2>1 DEF TypeOK, CrewOK
  <2>8. item'[w] = m /\ m # NoItem /\ worker'[w] = "taken"
    BY <2>1, <2>2, Sizes DEF TypeOK, CrewOK
  <2>9. HandsFull'
    BY <2>7, <2>8 DEF Places, HandsFull, Working
  <2>10. \A v \in Workers : item[v] # m
    <3>1. m \notin InHand
      BY <2>2 DEF Places, EachPacketOnce
    <3> QED BY <2>8, <3>1 DEF InHand
  <2>11. \A u, v \in Workers : u # v /\ item'[u] = item'[v] => item'[u] = NoItem
    BY <2>7, <2>8, <2>10 DEF Places, EachPacketOnce
  <2>12. EachPacketOnce'
    BY <2>1, <2>2, <2>3, <2>5, <2>6, <2>11 DEF Places, EachPacketOnce
  <2> QED BY <2>3, <2>9, <2>12 DEF Places
<1>3. CASE ProcessPacket(w)
  <2>1. /\ UNCHANGED <<receiver, arrived, parsedQueue>>
        /\ worker[w] = "processing" /\ worker' = [worker EXCEPT ![w] = "loop"]
        /\ item' = [item EXCEPT ![w] = NoItem]
    BY <1>3 DEF ProcessPacket, Goto, intake
  <2>2. /\ item[w] \in Lines
        /\ \/ OnOutSide' = OnOutSide \cup {item[w]} /\ DroppedAnyhow' = DroppedAnyhow
           \/ OnOutSide' = OnOutSide /\ DroppedAnyhow' = DroppedAnyhow \cup {item[w]}
    BY <1>3, PacketProcessed DEF Places, DroppedAnyhow
  <2>3. item[w] \in InHand /\ InHand' = InHand \ {item[w]}
    BY <2>1, <2>2, Sizes, HandEmpties DEF TypeOK, Places
  <2>4. BeingEnqueued' = BeingEnqueued
    BY <2>1 DEF BeingEnqueued
  <2>5. /\ \A v \in Workers : v # w => item'[v] = item[v] /\ worker'[v] = worker[v]
        /\ item'[w] = NoItem /\ worker'[w] = "loop"
    BY <2>1 DEF TypeOK, CrewOK
  <2>6. HandsFull'
    BY <2>5 DEF Places, HandsFull, Working
  <2>7. \A u, v \in Workers : u # v /\ item'[u] = item'[v] => item'[u] = NoItem
    BY <2>5 DEF Places, EachPacketOnce
  <2>8. EachPacketOnce'
    BY <2>1, <2>2, <2>3, <2>4, <2>7 DEF Places, EachPacketOnce
  <2>9. QueuedOnce'
    BY <2>1 DEF Places, QueuedOnce
  <2> QED BY <2>6, <2>8, <2>9 DEF Places
<1> QED BY <1>1, <1>2, <1>3 DEF WorkerStep

(***************************************************************************)
(* The output keeps what is its own, and nobody else moves a packet.       *)
(***************************************************************************)
Helper == UpdaterTop \/ UpdaterLoads \/ UpdaterWakes \/ MergerEnds \/ Signal \/ TsharkExits

LEMMA HelperKeeps ==
    ASSUME Helper
    PROVE  /\ UNCHANGED <<mode, main, receiver, arrived, parsedQueue, highLoad, crew, dropped, outVars>>
           /\ shutdown => shutdown'
BY DEF Helper, UpdaterTop, UpdaterLoads, UpdaterWakes, MergerEnds, Signal, TsharkExits, intake, helpers

LEMMA MainKeeps ==
    ASSUME Main
    PROVE  /\ UNCHANGED <<shutdown, helpers, arrived, parsedQueue, highLoad, item, dropped, outVars>>
           /\ \/ StartPipeline
              \/ UNCHANGED <<receiver, worker>>
BY DEF Main, StartPipeline, JoinReceiver, JoinWorkers, JoinOutput, JoinUpdater, JoinMerger,
       Joined, intake, crew

LEMMA OtherPlaces ==
    ASSUME TypeOK, Places, StrandedAtTheEnd, NothingLostByWriter, NotStarted,
           Output \/ Helper \/ Main
    PROVE  Places'
<1>1. CASE Helper
  <2>1. UNCHANGED <<receiver, arrived, parsedQueue, worker, item, dropped, outVars>>
    BY <1>1, HelperKeeps DEF crew
  <2> QED BY <2>1, NoMove DEF BeingEnqueued
<1>2. CASE Main
  <2>1. /\ UNCHANGED <<arrived, parsedQueue, item, dropped, outVars>>
        /\ \/ StartPipeline
           \/ UNCHANGED <<receiver, worker>>
    BY <1>2, MainKeeps
  <2>2. CASE StartPipeline
    <3>1. receiver = "unborn" /\ receiver' = "loop" /\ worker' = [w \in Workers |-> "loop"]
          /\ \A w \in Workers : worker[w] = "unborn"
      BY <2>2 DEF StartPipeline, NotStarted
    <3> QED BY <2>1, <3>1, NoMove DEF BeingEnqueued, Working
  <2>3. CASE UNCHANGED <<receiver, worker>>
    BY <2>1, <2>3, NoMove DEF BeingEnqueued
  <2> QED BY <2>1, <2>2, <2>3
<1>3. CASE Output
  <2>1. OnOutSide' = OnOutSide /\ UNCHANGED beforeOut
    BY <1>3, OutSteps DEF TypeOK
  <2>2. UNCHANGED <<receiver, arrived, parsedQueue, worker, item, dropped>>
    BY <2>1 DEF beforeOut, intake, crew
  <2>3. BeingEnqueued' = BeingEnqueued /\ InHand' = InHand /\ DroppedAnyhow' = DroppedAnyhow
    BY <2>2 DEF BeingEnqueued, InHand, DroppedAnyhow
  <2>4. EachPacketOnce'
    BY <2>1, <2>2, <2>3 DEF Places, EachPacketOnce
  <2> QED BY <2>2, <2>4 DEF Places, HandsFull, QueuedOnce
<1> QED BY <1>1, <1>2, <1>3

-----------------------------------------------------------------------------
(* Types and the order of the threads.                                     *)

LEMMA TypesStep == IInv /\ Next => TypeOK'
<1> SUFFICES ASSUME IInv, Next PROVE TypeOK'
  OBVIOUS
<1>1. ThreadsOK /\ CrewOK /\ IntakeOK /\ OutOK
  BY DEF IInv, TypeOK
<1>2. CASE Receiver
  <2>1. /\ UNCHANGED <<mode, shutdown, main, ready, updater, merger, stdinOpen, worker, item, skip, outVars>>
        /\ receiver' \in {"loop", "waiting", "enqueueing", "done"}
    BY <1>2 DEF Receiver, ReceiverLoop, ReadLine, EnqueuePacket, ReadTimeout, EndOfStdin,
           crew, helpers, afterIntake
  <2>2. ThreadsOK' /\ CrewOK' /\ OutOK'
    BY <1>1, <2>1 DEF ThreadsOK, CrewOK, OutOK, outVars
  <2>3. CASE ReadLine
    <3>1. /\ arrived < MaxLines /\ arrived' = arrived + 1
          /\ UNCHANGED dropped \/ Drop(arrived', "skipped")
          /\ UNCHANGED parsedQueue
      BY <2>3 DEF ReadLine, afterIntake
    <3>2. arrived' \in 0..MaxLines /\ arrived' \in Lines
      BY <1>1, <3>1, Sizes DEF IntakeOK, Lines
    <3>3. dropped' \in [Causes -> SUBSET Lines]
      BY <1>1, <3>1, <3>2, Dropping DEF IntakeOK, Causes
    <3>4. highLoad' \in BOOLEAN
      <4>1. CASE UNCHANGED highLoad
        BY <1>1, <4>1 DEF IntakeOK
      <4>2. CASE highLoad' = (5 * Len(parsedQueue) >= 4 * MonitorCap)
        BY <4>2
      <4> QED BY <2>3, <4>1, <4>2 DEF ReadLine
    <3>5. IntakeOK'
      BY <1>1, <3>1, <3>2, <3>3, <3>4 DEF IntakeOK
    <3> QED BY <2>2, <3>5 DEF TypeOK
  <2>4. CASE EnqueuePacket
    <3>1. arrived \in Lines
      <4>1. arrived \in 1..arrived
        BY <2>4 DEF IInv, Places, EachPacketOnce, BeingEnqueued, EnqueuePacket
      <4> QED BY <1>1, <4>1, Sizes DEF IntakeOK, Lines
    <3>2. UNCHANGED <<arrived, highLoad>>
      BY <2>4 DEF EnqueuePacket
    <3>3. CASE parsedQueue' = Append(parsedQueue, arrived) /\ UNCHANGED dropped /\ Len(parsedQueue) < ParsedCap
      <4>1. parsedQueue' \in Seq(Lines) /\ Len(parsedQueue') = Len(parsedQueue) + 1
        BY <1>1, <3>1, <3>3, AppendRange DEF IntakeOK
      <4>2. Len(parsedQueue) \in Nat
        BY <1>1, RangeByIndex DEF IntakeOK
      <4>3. Len(parsedQueue') <= ParsedCap
        BY <3>3, <4>1, <4>2, Sizes
      <4>4. IntakeOK'
        BY <1>1, <3>2, <3>3, <4>1, <4>3 DEF IntakeOK
      <4> QED BY <2>2, <4>4 DEF TypeOK
    <3>4. CASE Drop(arrived, "parsed_full") /\ UNCHANGED parsedQueue
      <4>1. dropped' \in [Causes -> SUBSET Lines]
        BY <1>1, <3>1, <3>4, Dropping DEF Causes
      <4>2. IntakeOK'
        BY <1>1, <3>2, <3>4, <4>1 DEF IntakeOK
      <4> QED BY <2>2, <4>2 DEF TypeOK
    <3> QED BY <2>4, <3>3, <3>4 DEF EnqueuePacket
  <2>5. CASE ReceiverLoop \/ ReadTimeout \/ EndOfStdin
    <3>1. UNCHANGED <<arrived, parsedQueue, highLoad, dropped>>
      BY <2>5 DEF ReceiverLoop, ReadTimeout, EndOfStdin
    <3> QED BY <1>1, <2>2, <3>1 DEF TypeOK, IntakeOK
  <2> QED BY <1>2, <2>3, <2>4, <2>5 DEF Receiver
<1>3. ASSUME NEW w \in Workers, WorkerStep(w) PROVE TypeOK'
  <2>1. UNCHANGED <<shutdown, main, helpers, receiver, arrived, stdinOpen, highLoad>>
    BY <1>3 DEF WorkerStep, WorkerLoop, TakePacket, TakeNothing, ReadLoad, ProcessPacket, WorkerExit, intake
  <2>2. ThreadsOK'
    BY <1>1, <2>1 DEF ThreadsOK, helpers
  <2>3. worker' \in [Workers -> {"unborn", "loop", "waiting", "taken", "processing", "exiting", "done"}]
    <3>1. \E l \in {"loop", "waiting", "taken", "processing", "exiting", "done"} : Goto(w, l)
      BY <1>3 DEF WorkerStep, WorkerLoop, TakePacket, TakeNothing, ReadLoad, ProcessPacket, WorkerExit
    <3> QED BY <1>1, <3>1 DEF Goto, CrewOK
  <2>4. CASE WorkerLoop(w) \/ TakeNothing(w) \/ ReadLoad(w) \/ WorkerExit(w)
    <3>1. /\ UNCHANGED <<item, parsedQueue, dropped, outVars>>
          /\ skip' = skip \/ skip' = [skip EXCEPT ![w] = highLoad]
      BY <2>4 DEF WorkerLoop, TakeNothing, ReadLoad, WorkerExit, intake
    <3>2. skip' \in [Workers -> BOOLEAN]
      BY <1>1, <3>1 DEF CrewOK, IntakeOK
    <3>3. CrewOK' /\ IntakeOK'
      BY <1>1, <2>1, <2>3, <3>1, <3>2 DEF CrewOK, IntakeOK
    <3>4. OutOK'
      BY <1>1, <3>1 DEF OutOK, outVars
    <3> QED BY <2>2, <3>3, <3>4 DEF TypeOK
  <2>5. CASE TakePacket(w)
    <3>1. /\ parsedQueue # <<>> /\ item' = [item EXCEPT ![w] = Head(parsedQueue)]
          /\ parsedQueue' = Tail(parsedQueue)
          /\ UNCHANGED <<skip, dropped, outVars>>
      BY <2>5 DEF TakePacket
    <3>2. Head(parsedQueue) \in Lines /\ parsedQueue' \in Seq(Lines) /\ Len(parsedQueue') = Len(parsedQueue) - 1
      BY <1>1, <3>1, TakeRange DEF IntakeOK
    <3>3. Len(parsedQueue') <= ParsedCap
      <4>1. Len(parsedQueue) \in Nat
        BY <1>1, RangeByIndex DEF IntakeOK
      <4> QED BY <1>1, <3>2, <4>1, Sizes DEF IntakeOK
    <3>4. CrewOK' /\ IntakeOK'
      BY <1>1, <2>1, <2>3, <3>1, <3>2, <3>3 DEF CrewOK, IntakeOK
    <3>5. OutOK'
      BY <1>1, <3>1 DEF OutOK, outVars
    <3> QED BY <2>2, <3>4, <3>5 DEF TypeOK
  <2>6. CASE ProcessPacket(w)
    <3>1. UNCHANGED <<skip, parsedQueue>> /\ item' = [item EXCEPT ![w] = NoItem]
      BY <2>6 DEF ProcessPacket, intake
    <3>2. OutOK' /\ dropped' \in [Causes -> SUBSET Lines]
      BY <2>6, PacketProcessed DEF IInv, Places
    <3>3. CrewOK' /\ IntakeOK'
      BY <1>1, <2>1, <2>3, <3>1, <3>2 DEF CrewOK, IntakeOK
    <3> QED BY <2>2, <3>2, <3>3 DEF TypeOK
  <2> QED BY <1>3, <2>4, <2>5, <2>6 DEF WorkerStep
<1>4. CASE Output
  <2>1. OutOK' /\ UNCHANGED beforeOut
    BY <1>1, <1>4, OutSteps DEF IInv, Ordered, Writer
  <2> QED BY <1>1, <2>1 DEF TypeOK, ThreadsOK, CrewOK, IntakeOK, beforeOut, intake, crew, helpers
<1>5. CASE Helper
  <2>1. UNCHANGED <<mode, main, receiver, arrived, parsedQueue, highLoad, crew, dropped, outVars>>
    BY <1>5, HelperKeeps
  <2>2. CrewOK' /\ IntakeOK' /\ OutOK'
    BY <1>1, <2>1 DEF CrewOK, IntakeOK, OutOK, crew, outVars
  <2>3. ThreadsOK'
    <3>1. shutdown' \in BOOLEAN /\ ready' \in BOOLEAN /\ stdinOpen' \in BOOLEAN
      BY <1>1, <1>5 DEF ThreadsOK, Helper, UpdaterTop, UpdaterLoads, UpdaterWakes, MergerEnds, Signal,
             TsharkExits, helpers, intake
    <3>2. /\ updater' = updater \/ updater' \in {"top", "refreshing", "sleeping", "done"}
          /\ merger' = merger \/ merger' = "done"
      BY <1>5 DEF Helper, UpdaterTop, UpdaterLoads, UpdaterWakes, MergerEnds, Signal, TsharkExits, helpers
    <3> QED BY <1>1, <2>1, <3>1, <3>2 DEF ThreadsOK
  <2> QED BY <2>2, <2>3 DEF TypeOK
<1>6. CASE Main
  <2>1. UNCHANGED <<shutdown, helpers, arrived, parsedQueue, highLoad, item, dropped, outVars>>
    BY <1>6, MainKeeps
  <2>2. UNCHANGED <<stdinOpen, skip>> /\ (worker' = worker \/ worker' = [w \in Workers |-> "loop"])
        /\ (receiver' = receiver \/ receiver' = "loop")
        /\ main' \in {"receiver", "workers", "output", "updater", "merger", "done"}
    BY <1>6 DEF Main, StartPipeline, JoinReceiver, JoinWorkers, JoinOutput, JoinUpdater, JoinMerger,
           Joined, intake, crew
  <2>3. CrewOK' /\ IntakeOK' /\ OutOK'
    BY <1>1, <2>1, <2>2 DEF CrewOK, IntakeOK, OutOK, outVars
  <2>4. ThreadsOK'
    BY <1>1, <2>1, <2>2 DEF ThreadsOK, helpers
  <2> QED BY <2>3, <2>4 DEF TypeOK
<1> QED BY <1>2, <1>3, <1>4, <1>5, <1>6 DEF Next, Helper

(***************************************************************************)
(* The threads leave in order: the receiver before the workers, the        *)
(* workers before the output, and unless a signal came each behind a queue *)
(* that is empty and stays so.                                             *)
(***************************************************************************)
LEMMA OrderStep == IInv /\ Next => Ordered'
<1> SUFFICES ASSUME IInv, Next PROVE Ordered'
  OBVIOUS
<1>1. /\ TypeOK /\ Places /\ StrandedAtTheEnd /\ NothingLostByWriter
      /\ NotStarted /\ LeftInOrder /\ LeavesDrained /\ GoneNever
  BY DEF IInv, Ordered, Writer
<1>2. "out_gone" \in Causes /\ "parsed_full" \in Causes /\ "skipped" \in Causes
  BY DEF Causes
<1>3. CASE Receiver
  <2>1. UNCHANGED <<shutdown, main, worker, outVars>>
    BY <1>3 DEF Receiver, ReceiverLoop, ReadLine, EnqueuePacket, ReadTimeout, EndOfStdin, crew, afterIntake
  <2>2. receiver \notin {"done", "unborn"}
    BY <1>3 DEF Receiver, ReceiverLoop, ReadLine, EnqueuePacket, ReadTimeout, EndOfStdin
  <2>3. main = "receiver"
    BY <1>1, <2>2 DEF LeftInOrder, NotStarted, ParsedConnected
  <2>4. dropped'["out_gone"] = dropped["out_gone"]
    <3>1. dropped' = dropped \/ (\E n : Drop(n, "parsed_full") \/ Drop(n, "skipped"))
      BY <1>3 DEF Receiver, ReceiverLoop, ReadLine, EnqueuePacket, ReadTimeout, EndOfStdin
    <3> QED BY <1>1, <1>2, <3>1 DEF Drop, TypeOK, IntakeOK
  <2>5. LeavesDrained'
    BY <1>1, <2>1, <2>3 DEF LeavesDrained, ParsedConnected, OutConnected, outVars
  <2> QED BY <1>1, <2>1, <2>3, <2>4, <2>5 DEF Ordered, StrandedAtTheEnd, NotStarted, LeftInOrder, GoneNever,
             ParsedConnected, OutConnected, outVars
<1>4. ASSUME NEW w \in Workers, WorkerStep(w) PROVE Ordered'
  <2>1. UNCHANGED <<shutdown, main, receiver, outHeld, outStranded, outPhase>>
    BY <1>4 DEF WorkerStep, WorkerLoop, TakePacket, TakeNothing, ReadLoad, ProcessPacket, WorkerExit,
           intake, outVars
  <2>2. worker[w] \notin {"done", "unborn"}
    BY <1>4 DEF WorkerStep, WorkerLoop, TakePacket, TakeNothing, ReadLoad, ProcessPacket, WorkerExit
  <2>3. main \in {"receiver", "workers"}
    BY <1>1, <2>2 DEF LeftInOrder, NotStarted, OutConnected
  <2>4. ~shutdown => outPhase = "running"
    BY <1>1, <2>3 DEF LeavesDrained, OutConnected, TypeOK, OutOK
  <2>5. ~shutdown => dropped'["out_gone"] = dropped["out_gone"]
    <3>1. CASE ProcessPacket(w)
      <4>1. \/ UNCHANGED dropped
            \/ ~StdoutMode /\ outPhase = "stopped"
            \/ dropped'["out_gone"] = dropped["out_gone"]
        BY <1>1, <3>1, PacketProcessed DEF Places
      <4> QED BY <2>4, <4>1
    <3> QED BY <1>4, <3>1 DEF WorkerStep, WorkerLoop, TakePacket, TakeNothing, ReadLoad, WorkerExit
  <2>6. parsedQueue = <<>> => parsedQueue' = <<>>
    BY <1>4 DEF WorkerStep, WorkerLoop, TakePacket, TakeNothing, ReadLoad, ProcessPacket, WorkerExit, intake
  <2>7. /\ \A v \in Workers : v # w => worker'[v] = worker[v]
        /\ ~shutdown /\ worker'[w] \in {"exiting", "done"} => ~ParsedConnected /\ parsedQueue = <<>>
    <3>1. \E l \in {"loop", "waiting", "taken", "processing", "exiting", "done"} :
              /\ Goto(w, l)
              /\ ~shutdown /\ l \in {"exiting", "done"} =>
                    worker[w] = "exiting" \/ (~ParsedConnected /\ parsedQueue = <<>>)
      BY <1>4 DEF WorkerStep, WorkerLoop, TakePacket, TakeNothing, ReadLoad, ProcessPacket, WorkerExit
    <3> QED BY <1>1, <3>1 DEF Goto, TypeOK, CrewOK, LeavesDrained
  <2>8. LeavesDrained'
    BY <1>1, <2>1, <2>4, <2>6, <2>7 DEF LeavesDrained, ParsedConnected, OutConnected
  <2> QED BY <1>1, <2>1, <2>3, <2>5, <2>8 DEF Ordered, StrandedAtTheEnd, NotStarted, LeftInOrder, GoneNever,
             ParsedConnected, OutConnected
<1>5. CASE Output
  <2>1. /\ StrandedAtTheEnd' /\ UNCHANGED <<shutdown, main, receiver, parsedQueue, worker, dropped>>
        /\ main # "intel"
    BY <1>1, <1>5, OutSteps DEF TypeOK, beforeOut, intake, crew
  <2>2. /\ outStranded' = outStranded \/ (outPhase = "leaving" /\ outStranded' = Range(outQueue))
        /\ outQueue = <<>> => outQueue' = <<>>
        /\ \/ outPhase' = outPhase
           \/ outPhase # "running"
           \/ outPhase = "running" /\ (shutdown \/ (~OutConnected /\ outQueue = <<>>))
    BY <1>1, <1>5, OutSteps DEF TypeOK
  <2>3. LeavesDrained'
    BY <1>1, <2>1, <2>2 DEF LeavesDrained, ParsedConnected, OutConnected
  <2>4. ~shutdown => outStranded' = {}
    <3>1. ~shutdown /\ outPhase = "leaving" => Range(outQueue) = {}
      BY <1>1, EmptyRange DEF LeavesDrained
    <3> QED BY <1>1, <2>2, <3>1 DEF GoneNever
  <2>5. outPhase = "stopped" => outPhase' = "stopped"
    BY <1>5 DEF Output, ElkTakes, ElkSettles, ElkLeaves, ElkStops, ElkActs, Elk!Take, Elk!Settle, Elk!Leave,
           Elk!Stop, StdoutWrites, StdoutLeaves
  <2> QED BY <1>1, <2>1, <2>3, <2>4, <2>5 DEF Ordered, NotStarted, LeftInOrder, GoneNever,
             ParsedConnected, OutConnected
<1>6. CASE Helper
  <2>1. /\ UNCHANGED <<main, receiver, parsedQueue, worker, dropped, outVars>>
        /\ shutdown => shutdown'
    BY <1>6, HelperKeeps DEF crew
  <2> QED BY <1>1, <2>1 DEF Ordered, StrandedAtTheEnd, NotStarted, LeftInOrder, LeavesDrained, GoneNever,
             ParsedConnected, OutConnected, outVars
<1>7. CASE Main
  <2>1. /\ UNCHANGED <<shutdown, parsedQueue, dropped, outVars>>
        /\ \/ StartPipeline
           \/ UNCHANGED <<receiver, worker>>
    BY <1>7, MainKeeps
  <2>2. CASE StartPipeline
    <3>1. main' = "receiver" /\ \A w \in Workers : worker'[w] = "loop"
      BY <2>2 DEF StartPipeline
    <3>2. main = "intel"
      BY <2>2 DEF StartPipeline
    <3> QED BY <1>1, <2>1, <3>1, <3>2 DEF Ordered, StrandedAtTheEnd, NotStarted, LeftInOrder, LeavesDrained,
               GoneNever, ParsedConnected, OutConnected, outVars
  <2>3. CASE UNCHANGED <<receiver, worker>> /\ ~StartPipeline
    <3>1. \/ main = "receiver" /\ main' = "workers" /\ receiver = "done"
          \/ main = "workers" /\ main' = "output" /\ \A w \in Workers : worker[w] = "done"
          \/ main = "output" /\ main' = "updater" /\ outPhase = "stopped"
          \/ main \in {"updater", "merger"} /\ main' \in {"merger", "done"}
      BY <1>7, <2>3 DEF Main, JoinReceiver, JoinWorkers, JoinOutput, JoinUpdater, JoinMerger, Joined
    <3> QED BY <1>1, <2>1, <2>3, <3>1 DEF Ordered, StrandedAtTheEnd, NotStarted, LeftInOrder, LeavesDrained,
               GoneNever, ParsedConnected, OutConnected, outVars
  <2> QED BY <2>1, <2>2, <2>3
<1> QED BY <1>3, <1>4, <1>5, <1>6, <1>7 DEF Next, Helper

-----------------------------------------------------------------------------
(* What the stdout writer leaves behind.                                   *)

LEMMA ModeKept == Next => UNCHANGED mode
BY DEF Next, Main, StartPipeline, JoinReceiver, JoinWorkers, JoinOutput, JoinUpdater, JoinMerger, Joined,
       UpdaterTop, UpdaterLoads, UpdaterWakes, MergerEnds, Receiver, ReceiverLoop, ReadLine, EnqueuePacket,
       ReadTimeout, EndOfStdin, WorkerStep, WorkerLoop, TakePacket, TakeNothing, ReadLoad, ProcessPacket,
       WorkerExit, Output, ElkTakes, ElkSettles, ElkLeaves, ElkStops, ElkActs, StdoutWrites, StdoutLeaves,
       Signal, TsharkExits, helpers, afterIntake, beforeOut

LEMMA FewWorkers ==
    ASSUME NEW S \in SUBSET Workers
    PROVE  /\ IsFiniteSet(S) /\ Cardinality(S) \in Nat
           /\ Cardinality(Workers) \in Nat /\ Cardinality(S) <= Cardinality(Workers)
BY Sizes, FS_Subset, FS_CardinalityType

LEMMA WriterStep == IInv /\ Next => Writer'
<1> SUFFICES ASSUME IInv, Next PROVE Writer'
  OBVIOUS
<1>1. /\ TypeOK /\ HandsFull /\ StrandedAtTheEnd /\ NotStarted /\ LeftInOrder /\ LeavesDrained
      /\ NothingLostByWriter /\ WriterGone
  BY DEF IInv, Places, Ordered, Writer
<1>2. UNCHANGED mode
  BY ModeKept
<1>3. /\ Pending \in SUBSET Workers /\ Cardinality(Pending) \in Nat
      /\ Cardinality(Workers) \in Nat /\ Len(outQueue) \in Nat
  <2>1. Pending \in SUBSET Workers
    BY DEF Pending
  <2> QED BY <1>1, <2>1, FewWorkers, RangeByIndex DEF TypeOK, OutOK
<1>4. ASSUME UNCHANGED <<outVars, worker>> PROVE Writer'
  BY <1>1, <1>2, <1>4 DEF Writer, NothingLostByWriter, WriterGone, Pending, StdoutMode, outVars
<1>5. CASE Receiver \/ Helper
  <2>1. UNCHANGED <<outVars, worker>>
    BY <1>5, HelperKeeps DEF Receiver, ReceiverLoop, ReadLine, EnqueuePacket, ReadTimeout, EndOfStdin,
           crew, afterIntake
  <2> QED BY <1>4, <2>1
<1>6. CASE Main
  <2>1. UNCHANGED outVars /\ (StartPipeline \/ UNCHANGED <<receiver, worker>>)
    BY <1>6, MainKeeps
  <2>2. CASE StartPipeline
    <3>1. outPhase = "running"
      BY <1>1, <2>2 DEF StartPipeline, NotStarted
    <3> QED BY <1>1, <1>2, <2>1, <3>1 DEF Writer, NothingLostByWriter, WriterGone, StdoutMode, outVars
  <2>3. CASE UNCHANGED <<receiver, worker>>
    BY <1>4, <2>1, <2>3
  <2> QED BY <2>1, <2>2, <2>3
<1>7. CASE Output
  <2>1. NothingLostByWriter' /\ UNCHANGED beforeOut
    BY <1>1, <1>7, OutSteps DEF TypeOK
  <2>2. SUFFICES ASSUME StdoutMode', outPhase' = "stopped"
                 PROVE  Len(outQueue') + Cardinality(Pending') <= Cardinality(Workers)
    BY <2>1 DEF Writer, WriterGone
  <2>3. StdoutMode
    BY <1>2, <2>2 DEF StdoutMode
  <2>4. outQueue' = <<>>
    <3>1. \/ outPhase' = outPhase /\ (StdoutMode => outPhase = "running")
          \/ outPhase # "running" /\ ~StdoutMode
          \/ outPhase = "running" /\ outQueue' = outQueue /\ (StdoutMode => outQueue = <<>>)
      BY <1>1, <1>7, OutSteps DEF TypeOK
    <3> QED BY <2>2, <2>3, <3>1
  <2>5. Len(outQueue') = 0
    BY <2>4
  <2>6. Pending' = Pending
    BY <2>1 DEF Pending, beforeOut, crew
  <2> QED BY <1>3, <2>5, <2>6, FewWorkers
<1>8. ASSUME NEW w \in Workers, WorkerStep(w) PROVE Writer'
  <2>1. UNCHANGED <<outHeld, outLost, outStranded, outPhase, shutdown>> /\ worker[w] # "done"
    BY <1>8 DEF WorkerStep, WorkerLoop, TakePacket, TakeNothing, ReadLoad, ProcessPacket, WorkerExit, outVars
  <2>2. NothingLostByWriter'
    BY <1>1, <1>2, <2>1 DEF NothingLostByWriter, StdoutMode
  <2>3. SUFFICES ASSUME StdoutMode, outPhase = "stopped"
                 PROVE  Len(outQueue') + Cardinality(Pending') <= Cardinality(Workers)
    BY <1>2, <2>1, <2>2 DEF Writer, WriterGone, StdoutMode
  <2>4. shutdown
    BY <1>1, <2>1, <2>3 DEF LeavesDrained, LeftInOrder
  <2>5. Len(outQueue) + Cardinality(Pending) <= Cardinality(Workers)
    BY <1>1, <2>3 DEF WriterGone
  <2>6. CASE ~ProcessPacket(w)
    <3>1. outQueue' = outQueue
      BY <1>8, <2>6 DEF WorkerStep, WorkerLoop, TakePacket, TakeNothing, ReadLoad, WorkerExit, outVars
    <3>2. \E l \in {"waiting", "taken", "processing", "loop", "exiting", "done"} :
              /\ worker' = [worker EXCEPT ![w] = l]
              /\ l \in {"waiting", "taken", "processing"} =>
                    worker[w] \in {"waiting", "taken", "processing"}
      BY <1>8, <2>4, <2>6 DEF WorkerStep, WorkerLoop, TakePacket, TakeNothing, ReadLoad, WorkerExit, Goto
    <3>3. Pending' \in SUBSET Pending
      BY <1>1, <3>2 DEF Pending, TypeOK, CrewOK
    <3>4. IsFiniteSet(Pending)
      BY <1>3, FewWorkers
    <3>5. Cardinality(Pending') \in Nat /\ Cardinality(Pending') <= Cardinality(Pending)
      BY <3>3, <3>4, FS_Subset, FS_CardinalityType
    <3> QED BY <1>3, <2>5, <3>1, <3>5
  <2>7. CASE ProcessPacket(w)
    <3>1. worker[w] = "processing" /\ worker' = [worker EXCEPT ![w] = "loop"]
      BY <2>7 DEF ProcessPacket, Goto
    <3>2. w \in Pending /\ Pending' = Pending \ {w}
      BY <1>1, <3>1 DEF Pending, TypeOK, CrewOK
    <3>3. IsFiniteSet(Pending)
      BY <1>3, FewWorkers
    <3>4. Cardinality(Pending') = Cardinality(Pending) - 1
      BY <3>2, <3>3, FS_RemoveElement
    <3>5. outQueue' = outQueue \/ Len(outQueue') = Len(outQueue) + 1
      BY <1>1, <2>7, PacketProcessed
    <3> QED BY <1>3, <2>5, <3>4, <3>5
  <2> QED BY <2>6, <2>7
<1> QED BY <1>5, <1>6, <1>7, <1>8 DEF Next, Helper

-----------------------------------------------------------------------------
(* The invariant and what follows from it.                                 *)

LEMMA Initially == Init => IInv
<1> SUFFICES ASSUME Init PROVE IInv
  OBVIOUS
<1>1. <<>> \in Seq(Lines) /\ Len(<<>>) = 0
  BY EmptySeq
<1>2. OutOK /\ IntakeOK
  <2>1. OutOK
    BY <1>1, Sizes DEF Init, Elk!SinkInit, OutOK
  <2>2. 0 \in 0..MaxLines /\ 0 <= ParsedCap /\ dropped \in [Causes -> SUBSET Lines]
    BY Sizes DEF Init
  <2>3. IntakeOK
    BY <1>1, <2>2 DEF Init, IntakeOK
  <2> QED BY <2>1, <2>3
<1>3. ThreadsOK /\ CrewOK
  <2>1. mode.feeds \in BOOLEAN
    BY TsharkAssumption DEF Init, TsharkAssumption
  <2>2. ready \in BOOLEAN
    BY <2>1 DEF Init, FeedsEnabled
  <2> QED BY <2>2 DEF Init, ThreadsOK, CrewOK
<1>4. /\ InHand = {} /\ BeingEnqueued = {} /\ DroppedAnyhow = {}
      /\ \A w \in Workers : item[w] = NoItem /\ worker[w] = "unborn"
  BY DEF Init, InHand, BeingEnqueued, DroppedAnyhow
<1>5. OnOutSide = {} /\ Range(parsedQueue) = {}
  BY EmptyRange DEF Init, Elk!SinkInit, OnOutSide
<1>6. EachPacketOnce
  <2>1. 1..arrived = {}
    BY DEF Init
  <2> QED BY <1>4, <1>5, <2>1 DEF EachPacketOnce
<1>7. HandsFull
  BY <1>4 DEF HandsFull, Working
<1>8. QueuedOnce
  <2>1. DOMAIN parsedQueue = {}
    BY DEF Init
  <2> QED BY <2>1 DEF QueuedOnce, IsInjective
<1>9. Ordered /\ Writer
  BY <1>4 DEF Init, Elk!SinkInit, Ordered, StrandedAtTheEnd, NotStarted, LeftInOrder, LeavesDrained, GoneNever,
         Writer, NothingLostByWriter, WriterGone, ParsedConnected, OutConnected, Causes
<1> QED BY <1>2, <1>3, <1>6, <1>7, <1>8, <1>9 DEF IInv, TypeOK, Places

LEMMA Step == IInv /\ [Next]_vars => IInv'
<1> SUFFICES ASSUME IInv, [Next]_vars PROVE IInv'
  OBVIOUS
<1>1. TypeOK /\ Places /\ StrandedAtTheEnd /\ NotStarted /\ NothingLostByWriter /\ Ordered /\ Writer
  BY DEF IInv, Ordered, Writer
<1>2. CASE Next
  <2>1. Places'
    BY <1>1, <1>2, ReceiverPlaces, WorkerPlaces, OtherPlaces DEF Next, Helper
  <2> QED BY <1>2, <2>1, TypesStep, OrderStep, WriterStep DEF IInv
<1>3. CASE UNCHANGED vars
  <2>1. UNCHANGED <<mode, shutdown, main, ready, updater, merger, receiver, arrived, stdinOpen, parsedQueue,
                    highLoad, worker, item, skip, dropped, outVars>>
    BY <1>3 DEF vars, intake, crew, helpers
  <2>2. Places'
    BY <1>1, <2>1, NoMove DEF BeingEnqueued
  <2>3. TypeOK'
    BY <1>1, <2>1 DEF TypeOK, ThreadsOK, CrewOK, IntakeOK, OutOK, outVars
  <2>4. Ordered' /\ Writer'
    BY <1>1, <2>1 DEF Ordered, StrandedAtTheEnd, NotStarted, LeftInOrder, LeavesDrained, GoneNever, Writer,
           NothingLostByWriter, WriterGone, Pending, StdoutMode, ParsedConnected, OutConnected, outVars
  <2> QED BY <2>2, <2>3, <2>4 DEF IInv
<1> QED BY <1>2, <1>3

LEMMA Invariance == Spec => []IInv
<1> QED BY Initially, Step, PTL DEF Spec

(***************************************************************************)
(* Every line that was read is in one place.                               *)
(***************************************************************************)
THEOREM OnePlaceEach == Spec => []EachPacketOnce
<1>1. IInv => EachPacketOnce
  BY DEF IInv, Places
<1> QED BY <1>1, Invariance, PTL

(***************************************************************************)
(* Without a signal the end of a capture drains every queue before run     *)
(* joins the next thread.                                                  *)
(***************************************************************************)
THEOREM CaptureEndsDrained == Spec => []EofLosesNothing
<1>1. IInv => EofLosesNothing
  <2> SUFFICES ASSUME IInv, ~shutdown PROVE EofLosesNothing
    BY DEF EofLosesNothing
  <2>1. /\ StrandedAtTheEnd /\ LeftInOrder /\ LeavesDrained /\ GoneNever /\ HandsFull
    BY DEF IInv, Places, Ordered
  <2>2. ~OutConnected => parsedQueue = <<>> /\ InHand = {}
    <3> SUFFICES ASSUME ~OutConnected PROVE parsedQueue = <<>> /\ InHand = {}
      OBVIOUS
    <3>1. \A w \in Workers : worker[w] = "done"
      BY <2>1 DEF LeftInOrder
    <3>2. \A w \in Workers : item[w] = NoItem
      BY <2>1, <3>1 DEF HandsFull, Working
    <3>3. parsedQueue = <<>>
      BY <2>1, <3>1, Sizes DEF LeavesDrained
    <3> QED BY <3>2, <3>3 DEF InHand
  <2>3. main \in {"updater", "merger", "done"} => outQueue = <<>> /\ outHeld = <<>>
    BY <2>1 DEF LeftInOrder, LeavesDrained, StrandedAtTheEnd
  <2> QED BY <2>1, <2>2, <2>3 DEF EofLosesNothing, GoneNever, OutConnected
<1> QED BY <1>1, Invariance, PTL

(***************************************************************************)
(* The stdout writer loses nothing it took, and when it has left after a   *)
(* signal each worker can leave one packet unprinted.                      *)
(***************************************************************************)
THEOREM WriterKeepsUp == Spec => []StdoutKeepsUp
<1>1. IInv => StdoutKeepsUp
  <2> SUFFICES ASSUME IInv, StdoutMode PROVE StdoutKeepsUp
    BY DEF StdoutKeepsUp
  <2>1. TypeOK /\ HandsFull /\ NothingLostByWriter /\ WriterGone
    BY DEF IInv, Places, Writer
  <2> DEFINE Hands == {w \in Workers : item[w] # NoItem}
  <2>2. Hands \in SUBSET Pending /\ Pending \in SUBSET Workers
    BY <2>1 DEF HandsFull, Working, Pending
  <2>3. IsFiniteSet(Pending) /\ IsFiniteSet(Hands)
    BY <2>2, FewWorkers
  <2>4. Cardinality(Hands) <= Cardinality(Pending)
    BY <2>2, <2>3, FS_Subset
  <2>5. [w \in Hands |-> item[w]] \in Surjection(Hands, InHand)
    BY DEF Surjection, InHand
  <2>6. IsFiniteSet(InHand) /\ Cardinality(InHand) <= Cardinality(Hands)
    BY <2>3, <2>5, FS_Surjection
  <2>7. /\ Cardinality(Hands) \in Nat /\ Cardinality(Pending) \in Nat /\ Cardinality(InHand) \in Nat
        /\ Cardinality(Workers) \in Nat
    BY <2>3, <2>6, Sizes, FS_CardinalityType
  <2>8. Len(outQueue) \in Nat
    BY <2>1, RangeByIndex DEF TypeOK, OutOK
  <2>9. outPhase = "stopped" => Len(outQueue) + Cardinality(InHand) <= Cardinality(Workers)
    BY <2>1, <2>4, <2>6, <2>7, <2>8 DEF WriterGone
  <2> QED BY <2>1, <2>9 DEF StdoutKeepsUp, NothingLostByWriter
<1> QED BY <1>1, Invariance, PTL

(***************************************************************************)
(* With ELK as its output the program treats the sender as BestEffortSink  *)
(* supposes: workers fill its queue only while it is connected, a channel  *)
(* once closed stays closed, and a shutdown is not taken back.             *)
(***************************************************************************)
THEOREM ElkUsedAsPromised == Spec /\ ~StdoutMode => Elk!Safety
<1>1. Init => Elk!Init
  BY DEF Init, Elk!Init, OutConnected
<1>2. IInv /\ ~StdoutMode /\ [Next]_vars => ~StdoutMode'
  BY ModeKept DEF StdoutMode, vars, helpers
<1>3. IInv /\ ~StdoutMode /\ [Next]_vars => [Elk!Next]_<<Elk!inputs, Elk!sinkVars>>
  <2> SUFFICES ASSUME IInv, ~StdoutMode, [Next]_vars PROVE [Elk!Next]_<<Elk!inputs, Elk!sinkVars>>
    OBVIOUS
  <2>1. CASE UNCHANGED vars
    BY <2>1 DEF vars, outVars, OutConnected, Elk!inputs, Elk!sinkVars
  <2>2. ASSUME UNCHANGED outVars, OutConnected' => OutConnected, shutdown => shutdown'
        PROVE  Elk!Outside
    BY <2>2 DEF outVars, Elk!Outside, Elk!sinkVars
  <2>3. CASE Receiver
    <3>1. UNCHANGED <<outVars, main, shutdown>>
      BY <2>3 DEF Receiver, ReceiverLoop, ReadLine, EnqueuePacket, ReadTimeout, EndOfStdin, afterIntake
    <3> QED BY <2>2, <3>1 DEF OutConnected, Elk!Next
  <2>4. ASSUME NEW w \in Workers, WorkerStep(w) PROVE Elk!Next
    <3>1. UNCHANGED <<main, shutdown>> /\ worker[w] # "done"
      BY <2>4 DEF WorkerStep, WorkerLoop, TakePacket, TakeNothing, ReadLoad, ProcessPacket, WorkerExit
    <3>2. CASE UNCHANGED outVars
      BY <2>2, <3>1, <3>2 DEF OutConnected, Elk!Next
    <3>3. CASE ProcessPacket(w) /\ OutAccepts
      <4>1. item[w] \in Lines
        BY <3>3, PacketProcessed DEF IInv, Places
      <4>2. OutConnected
        BY <3>1 DEF IInv, Ordered, LeftInOrder
      <4>3. UNCHANGED Elk!inputs
        BY <3>1 DEF Elk!inputs, OutConnected
      <4>4. Elk!Accept(item[w])
        BY <3>3 DEF ProcessPacket, OutAccepts, Elk!Accept
      <4> QED BY <4>1, <4>2, <4>3, <4>4 DEF Elk!Worker, Elk!Next
    <3> QED BY <2>4, <3>2, <3>3 DEF WorkerStep, WorkerLoop, TakePacket, TakeNothing, ReadLoad, ProcessPacket,
               WorkerExit, outVars
  <2>5. CASE Output
    <3>1. Elk!Sink /\ UNCHANGED <<main, shutdown>>
      BY <2>5 DEF Output, ElkTakes, ElkSettles, ElkLeaves, ElkStops, ElkActs, StdoutWrites, StdoutLeaves,
             beforeOut, Elk!Sink
    <3>2. UNCHANGED Elk!inputs
      BY <3>1 DEF Elk!inputs, OutConnected
    <3> QED BY <3>1, <3>2 DEF Elk!Next
  <2>6. CASE Helper
    <3>1. UNCHANGED <<outVars, main>> /\ (shutdown => shutdown')
      BY <2>6, HelperKeeps
    <3> QED BY <2>2, <3>1 DEF OutConnected, Elk!Next
  <2>7. CASE Main
    <3>1. UNCHANGED <<outVars, shutdown>> /\ (OutConnected' => OutConnected)
      BY <2>7 DEF Main, StartPipeline, JoinReceiver, JoinWorkers, JoinOutput, JoinUpdater, JoinMerger, Joined,
             OutConnected
    <3> QED BY <2>2, <3>1 DEF Elk!Next
  <2> QED BY <2>1, <2>3, <2>4, <2>5, <2>6, <2>7 DEF Next, Helper
<1> QED BY <1>1, <1>2, <1>3, Invariance, PTL DEF Spec, Elk!Safety

=============================================================================
