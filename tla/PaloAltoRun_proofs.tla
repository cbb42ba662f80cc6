-------------------------- MODULE PaloAltoRun_proofs --------------------------
(***************************************************************************)
(* What becomes of each message of the Palo Alto program, for every number *)
(* of workers and messages and every size of its queues: one place each,   *)
(* no alert without enrichment, one loss per worker on a closed channel.   *)
(***************************************************************************)
EXTENDS PaloAltoRun, SequenceTheorems, FiniteSetTheorems, TLAPS

(***************************************************************************)
(* A worker has a message exactly while it works on one.                   *)
(***************************************************************************)
Working == {"taken", "processing", "sending"}

HandsFull == \A w \in Workers : item[w] # NoItem <=> worker[w] \in Working

(***************************************************************************)
(* A message is queued once, and a sender strands nothing before it stops. *)
(***************************************************************************)
QueuedOnce == IsInjective(rawQueue)

StrandedAtTheEnd == elkPhase # "stopped" => elkStranded = {}

(***************************************************************************)
(* What does not parse is never enriched.                                  *)
(***************************************************************************)
ParsedFirst == enriched \cap Unparsable = {}

(***************************************************************************)
(* The ELK sender leaves at a shutdown or after the workers: run joins them*)
(* before it drops its end of the queue.  Until it has stopped no message  *)
(* finds it gone.                                                          *)
(***************************************************************************)
LeavesForAReason == elkPhase # "running" => shutdown \/ ~ElkConnected

CrewLeftFirst == ~ElkConnected => \A w \in Workers : worker[w] = "done"

NoneGoneBefore == elkPhase # "stopped" => dropped["elk_gone"] = {}

IInv ==
    /\ TypeOK
    /\ HandsFull /\ QueuedOnce /\ StrandedAtTheEnd
    /\ EachMessageOnce
    /\ ParsedFirst /\ WazuhOnlyEnriched
    /\ LeavesForAReason /\ CrewLeftFirst /\ NoneGoneBefore
    /\ OneLostPerWorker

LEMMA Sizes ==
    /\ MaxMessages \in Nat /\ NoItem \notin Messages /\ Messages \subseteq Nat
    /\ RawCap \in Nat /\ ElkCap \in Nat /\ WazuhCap \in Nat
    /\ Unparsable \subseteq Messages /\ Notable \subseteq Messages
<1>1. {RawCap, MonitorCap, ElkCap, WazuhCap} \subseteq Nat \ {0}
  BY RunAssumption DEF RunAssumption
<1> QED BY <1>1, RunAssumption DEF RunAssumption, Messages, NoItem

-----------------------------------------------------------------------------
(* Queues and the sets of their elements.                                  *)

(***************************************************************************)
(* The elements of a sequence by their places.                             *)
(***************************************************************************)
LEMMA RangeByIndex ==
    ASSUME NEW S, NEW s \in Seq(S)
    PROVE  /\ Len(s) \in Nat /\ DOMAIN s = 1..Len(s)
           /\ \A i \in 1..Len(s) : s[i] \in S
           /\ Range(s) = {s[i] : i \in 1..Len(s)} /\ Range(s) \subseteq S
<1>1. Len(s) \in Nat /\ DOMAIN s = 1..Len(s) /\ \A i \in 1..Len(s) : s[i] \in S
  BY LenProperties, ElementOfSeq
<1> QED BY <1>1 DEF Range

LEMMA EmptyRange == Range(<<>>) = {}
BY DEF Range

LEMMA AppendRange ==
    ASSUME NEW S, NEW s \in Seq(S), NEW e \in S
    PROVE  /\ Append(s, e) \in Seq(S) /\ Len(Append(s, e)) = Len(s) + 1
           /\ Range(Append(s, e)) = Range(s) \cup {e}
<1>1. /\ Append(s, e) \in Seq(S) /\ Len(Append(s, e)) = Len(s) + 1
      /\ \A i \in 1..Len(s) : Append(s, e)[i] = s[i]
      /\ Append(s, e)[Len(s) + 1] = e
  BY AppendProperties
<1>2. Len(s) \in Nat /\ Range(s) = {s[i] : i \in 1..Len(s)}
  BY RangeByIndex
<1>3. Range(Append(s, e)) = {Append(s, e)[i] : i \in 1..(Len(s) + 1)}
  BY <1>1, RangeByIndex
<1>4. 1..(Len(s) + 1) = 1..Len(s) \cup {Len(s) + 1}
  BY <1>2
<1> QED BY <1>1, <1>2, <1>3, <1>4

LEMMA TakeRange ==
    ASSUME NEW S, NEW s \in Seq(S), s # <<>>
    PROVE  /\ Head(s) \in S /\ Tail(s) \in Seq(S) /\ Len(Tail(s)) = Len(s) - 1
           /\ Range(s) = Range(Tail(s)) \cup {Head(s)}
<1>1. /\ Head(s) \in S /\ Tail(s) \in Seq(S) /\ Len(Tail(s)) = Len(s) - 1
      /\ \A i \in 1..Len(Tail(s)) : Tail(s)[i] = s[i + 1]
  BY HeadTailProperties
<1>2. Len(s) \in Nat /\ Len(s) >= 1 /\ Range(s) = {s[i] : i \in 1..Len(s)}
  BY RangeByIndex, EmptySeq
<1>3. Range(Tail(s)) = {Tail(s)[i] : i \in 1..(Len(s) - 1)}
  BY <1>1, RangeByIndex
<1>4. Head(s) = s[1]
  OBVIOUS
<1>5. ASSUME NEW i \in 1..Len(s), i # 1 PROVE s[i] \in Range(Tail(s))
  <2>1. i - 1 \in 1..(Len(s) - 1) /\ (i - 1) + 1 = i
    BY <1>2, <1>5
  <2>2. Tail(s)[i - 1] = s[i]
    BY <1>1, <2>1
  <2> QED BY <1>3, <2>1, <2>2
<1>6. ASSUME NEW i \in 1..(Len(s) - 1) PROVE Tail(s)[i] \in Range(s)
  <2>1. i + 1 \in 1..Len(s) /\ Tail(s)[i] = s[i + 1]
    BY <1>1, <1>2
  <2> QED BY <1>2, <2>1
<1>7. 1 \in 1..Len(s)
  BY <1>2
<1> QED BY <1>1, <1>2, <1>3, <1>4, <1>5, <1>6, <1>7

(***************************************************************************)
(* A settled batch is divided between what is received and what is lost.   *)
(***************************************************************************)
LEMMA SettleRange ==
    ASSUME NEW S, NEW r \in Seq(S), NEW h \in Seq(S), NEW k \in 0..Len(h)
    PROVE  /\ r \o SubSeq(h, 1, k) \in Seq(S)
           /\ Range(r \o SubSeq(h, 1, k)) \cup {h[i] : i \in (k + 1)..Len(h)}
                 = Range(r) \cup Range(h)
           /\ {h[i] : i \in (k + 1)..Len(h)} \subseteq S
<1>1. Len(h) \in Nat /\ Range(h) = {h[i] : i \in 1..Len(h)} /\ Range(h) \subseteq S
  BY RangeByIndex
<1>2. k \in Nat /\ 1..Len(h) = 1..k \cup (k + 1)..Len(h)
  BY <1>1
<1>3. \A i \in 1..k : h[i] \in S
  BY <1>2, RangeByIndex
<1>4. /\ SubSeq(h, 1, k) \in Seq(S) /\ Len(SubSeq(h, 1, k)) = k
      /\ \A i \in 1..k : SubSeq(h, 1, k)[i] = h[i]
  BY <1>2, <1>3, SubSeqProperties
<1>5. Range(SubSeq(h, 1, k)) = {h[i] : i \in 1..k}
  <2>1. Range(SubSeq(h, 1, k)) = {SubSeq(h, 1, k)[i] : i \in 1..k}
    BY <1>4, RangeByIndex
  <2> QED BY <1>4, <2>1
<1>6. /\ r \o SubSeq(h, 1, k) \in Seq(S)
      /\ Range(r \o SubSeq(h, 1, k)) = Range(r) \cup Range(SubSeq(h, 1, k))
  BY <1>4, ConcatProperties, RangeConcatenation
<1>7. Range(h) = {h[i] : i \in 1..k} \cup {h[i] : i \in (k + 1)..Len(h)}
  BY <1>1, <1>2
<1> QED BY <1>1, <1>5, <1>6, <1>7

(***************************************************************************)
(* A queue without duplicates stays one.                                   *)
(***************************************************************************)
LEMMA AppendOnce ==
    ASSUME NEW S, NEW s \in Seq(S), NEW e \in S, IsInjective(s), e \notin Range(s)
    PROVE  IsInjective(Append(s, e))
<1>1. /\ Append(s, e) \in Seq(S) /\ Len(Append(s, e)) = Len(s) + 1
      /\ \A i \in 1..Len(s) : Append(s, e)[i] = s[i]
      /\ Append(s, e)[Len(s) + 1] = e
  BY AppendProperties
<1>2. /\ Len(s) \in Nat /\ DOMAIN s = 1..Len(s) /\ Range(s) = {s[i] : i \in 1..Len(s)}
      /\ DOMAIN Append(s, e) = 1..(Len(s) + 1)
  BY <1>1, RangeByIndex
<1>3. 1..(Len(s) + 1) = 1..Len(s) \cup {Len(s) + 1}
  BY <1>2
<1>4. \A i, j \in 1..Len(s) : s[i] = s[j] => i = j
  BY <1>2 DEF IsInjective
<1> QED BY <1>1, <1>2, <1>3, <1>4 DEF IsInjective

LEMMA TakeOnce ==
    ASSUME NEW S, NEW s \in Seq(S), s # <<>>, IsInjective(s)
    PROVE  IsInjective(Tail(s)) /\ Head(s) \notin Range(Tail(s))
<1>1. /\ Tail(s) \in Seq(S) /\ Len(Tail(s)) = Len(s) - 1
      /\ \A i \in 1..Len(Tail(s)) : Tail(s)[i] = s[i + 1]
  BY HeadTailProperties
<1>2. /\ Len(s) \in Nat /\ Len(s) >= 1 /\ DOMAIN s = 1..Len(s)
      /\ DOMAIN Tail(s) = 1..(Len(s) - 1)
      /\ Range(Tail(s)) = {Tail(s)[i] : i \in 1..(Len(s) - 1)}
  <2>1. Len(s) \in Nat /\ Len(s) >= 1 /\ DOMAIN s = 1..Len(s)
    BY RangeByIndex, EmptySeq
  <2> QED BY <1>1, <2>1, RangeByIndex
<1>3. \A i, j \in 1..Len(s) : s[i] = s[j] => i = j
  BY <1>2 DEF IsInjective
<1>4. \A i \in 1..(Len(s) - 1) : i + 1 \in 1..Len(s) /\ Tail(s)[i] = s[i + 1]
  BY <1>1, <1>2
<1>5. \A i, j \in 1..(Len(s) - 1) : Tail(s)[i] = Tail(s)[j] => i = j
  <2> TAKE i, j \in 1..(Len(s) - 1)
  <2>1. Tail(s)[i] = Tail(s)[j] => i + 1 = j + 1
    BY <1>3, <1>4
  <2> QED BY <1>2, <2>1
<1>6. Head(s) = s[1] /\ 1 \in 1..Len(s)
  BY <1>2
<1>7. \A i \in 1..(Len(s) - 1) : Tail(s)[i] # Head(s)
  <2> TAKE i \in 1..(Len(s) - 1)
  <2>1. i + 1 # 1
    BY <1>2
  <2> QED BY <1>3, <1>4, <1>6, <2>1
<1> QED BY <1>2, <1>5, <1>7 DEF IsInjective

-----------------------------------------------------------------------------
(* What the senders do to the events on their side: they keep them.        *)

LEMMA ElkAccepted ==
    ASSUME ElkOK, NEW m \in Messages, Elk!Accept(m)
    PROVE  /\ ElkOK' /\ OnElkSide' = OnElkSide \cup {m}
           /\ UNCHANGED <<elkStranded, elkPhase>>
<1>1. /\ Len(elkQueue) < ElkCap /\ elkQueue' = Append(elkQueue, m)
      /\ UNCHANGED <<elkHeld, elkReceived, elkLost, elkStranded, elkPhase>>
  BY DEF Elk!Accept, Elk!Accepts
<1>2. /\ elkQueue' \in Seq(Messages) /\ Len(elkQueue') = Len(elkQueue) + 1
      /\ Range(elkQueue') = Range(elkQueue) \cup {m}
  BY <1>1, AppendRange DEF ElkOK
<1>3. Len(elkQueue) \in Nat /\ ElkCap \in Nat
  BY Sizes, RangeByIndex DEF ElkOK
<1>4. ElkOK'
  BY <1>1, <1>2, <1>3 DEF ElkOK
<1>5. OnElkSide' = OnElkSide \cup {m}
  BY <1>1, <1>2 DEF OnElkSide
<1> QED BY <1>1, <1>4, <1>5

LEMMA ElkSteps ==
    ASSUME ElkOK, StrandedAtTheEnd, ElkTakes \/ ElkSettles \/ ElkLeaves \/ ElkStops
    PROVE  /\ ElkOK' /\ StrandedAtTheEnd' /\ OnElkSide' = OnElkSide
           /\ elkStranded' = elkStranded \/ (elkPhase = "leaving" /\ elkStranded' = Range(elkQueue))
           /\ \/ elkPhase' = elkPhase
              \/ elkPhase # "running" /\ elkPhase' # "running"
              \/ elkPhase = "running" /\ (shutdown \/ ~ElkConnected)
<1>1. CASE ElkTakes
  <2>1. /\ elkPhase = "running" /\ elkQueue # <<>>
        /\ elkHeld' = Append(elkHeld, Head(elkQueue)) /\ elkQueue' = Tail(elkQueue)
        /\ UNCHANGED <<elkReceived, elkLost, elkStranded, elkPhase>>
    BY <1>1 DEF ElkTakes, Elk!Take
  <2>2. /\ Head(elkQueue) \in Messages /\ elkQueue' \in Seq(Messages) /\ Len(elkQueue') = Len(elkQueue) - 1
        /\ Range(elkQueue) = Range(elkQueue') \cup {Head(elkQueue)}
    BY <2>1, TakeRange DEF ElkOK
  <2>3. elkHeld' \in Seq(Messages) /\ Range(elkHeld') = Range(elkHeld) \cup {Head(elkQueue)}
    BY <2>1, <2>2, AppendRange DEF ElkOK
  <2>4. Len(elkQueue) \in Nat /\ ElkCap \in Nat
    BY Sizes, RangeByIndex DEF ElkOK
  <2>5. ElkOK'
    BY <2>1, <2>2, <2>3, <2>4 DEF ElkOK
  <2>6. OnElkSide' = OnElkSide
    BY <2>1, <2>2, <2>3 DEF OnElkSide
  <2>7. StrandedAtTheEnd'
    BY <2>1 DEF StrandedAtTheEnd
  <2> QED BY <2>1, <2>5, <2>6, <2>7
<1>2. CASE ElkSettles
  <2>1. PICK k \in 0..Len(elkHeld) :
            /\ elkReceived' = elkReceived \o SubSeq(elkHeld, 1, k)
            /\ elkLost' = elkLost \cup {elkHeld[i] : i \in (k + 1)..Len(elkHeld)}
    BY <1>2 DEF ElkSettles, Elk!Settle
  <2>2. elkHeld' = <<>> /\ UNCHANGED <<elkQueue, elkStranded, elkPhase>>
    BY <1>2 DEF ElkSettles, Elk!Settle
  <2>3. /\ elkReceived' \in Seq(Messages) /\ {elkHeld[i] : i \in (k + 1)..Len(elkHeld)} \subseteq Messages
        /\ Range(elkReceived') \cup {elkHeld[i] : i \in (k + 1)..Len(elkHeld)}
              = Range(elkReceived) \cup Range(elkHeld)
    <3>1. elkReceived \in Seq(Messages) /\ elkHeld \in Seq(Messages)
      BY DEF ElkOK
    <3>2. /\ elkReceived \o SubSeq(elkHeld, 1, k) \in Seq(Messages)
          /\ Range(elkReceived \o SubSeq(elkHeld, 1, k)) \cup {elkHeld[i] : i \in (k + 1)..Len(elkHeld)}
                = Range(elkReceived) \cup Range(elkHeld)
          /\ {elkHeld[i] : i \in (k + 1)..Len(elkHeld)} \subseteq Messages
      BY <3>1, SettleRange
    <3> QED BY <2>1, <3>2
  <2>4. Range(elkHeld') = {}
    BY <2>2, EmptyRange
  <2>5. ElkOK'
    BY <2>1, <2>2, <2>3 DEF ElkOK
  <2>6. OnElkSide' = OnElkSide
    BY <2>1, <2>2, <2>3, <2>4 DEF OnElkSide
  <2>7. StrandedAtTheEnd'
    BY <2>2 DEF StrandedAtTheEnd
  <2> QED BY <2>2, <2>5, <2>6, <2>7
<1>3. CASE ElkLeaves
  <2>1. /\ elkPhase = "running" /\ elkPhase' = "leaving" /\ (shutdown \/ ~ElkConnected)
        /\ UNCHANGED <<elkQueue, elkHeld, elkReceived, elkLost, elkStranded>>
    BY <1>3 DEF ElkLeaves, Elk!Leave
  <2>2. ElkOK' /\ OnElkSide' = OnElkSide
    BY <2>1 DEF ElkOK, OnElkSide
  <2>7. StrandedAtTheEnd'
    BY <2>1 DEF StrandedAtTheEnd
  <2> QED BY <2>1, <2>2, <2>7
<1>4. CASE ElkStops
  <2>1. /\ elkPhase = "leaving" /\ elkPhase' = "stopped" /\ elkStranded' = Range(elkQueue) /\ elkQueue' = <<>>
        /\ UNCHANGED <<elkHeld, elkReceived, elkLost>>
    BY <1>4 DEF ElkStops, Elk!Stop, Range, Elk!Range
  <2>2. Range(elkQueue) \subseteq Messages /\ Range(elkQueue') = {}
    BY <2>1, EmptyRange, RangeByIndex DEF ElkOK
  <2>3. ElkOK'
    BY <2>1, <2>2, Sizes DEF ElkOK
  <2>4. elkStranded = {}
    BY <2>1 DEF StrandedAtTheEnd
  <2>6. OnElkSide' = OnElkSide
    BY <2>1, <2>2, <2>4 DEF OnElkSide
  <2>7. StrandedAtTheEnd'
    BY <2>1 DEF StrandedAtTheEnd
  <2> QED BY <2>1, <2>3, <2>6, <2>7
<1> QED BY <1>1, <1>2, <1>3, <1>4

LEMMA WazuhAccepted ==
    ASSUME WazuhOK, NEW m \in Messages, Wazuh!Accept(m), UNCHANGED wazuhSocket
    PROVE  /\ WazuhOK' /\ OnWazuhSide' = OnWazuhSide \cup {m}
           /\ UNCHANGED <<wazuhStranded, wazuhPhase>>
<1>1. /\ Len(wazuhQueue) < WazuhCap /\ wazuhQueue' = Append(wazuhQueue, m)
      /\ UNCHANGED <<wazuhHeld, wazuhReceived, wazuhLost, wazuhStranded, wazuhPhase>>
  BY DEF Wazuh!Accept, Wazuh!Accepts
<1>2. /\ wazuhQueue' \in Seq(Messages) /\ Len(wazuhQueue') = Len(wazuhQueue) + 1
      /\ Range(wazuhQueue') = Range(wazuhQueue) \cup {m}
  BY <1>1, AppendRange DEF WazuhOK
<1>3. Len(wazuhQueue) \in Nat /\ WazuhCap \in Nat
  BY Sizes, RangeByIndex DEF WazuhOK
<1>4. WazuhOK'
  BY <1>1, <1>2, <1>3 DEF WazuhOK
<1>5. OnWazuhSide' = OnWazuhSide \cup {m}
  BY <1>1, <1>2 DEF OnWazuhSide
<1> QED BY <1>1, <1>4, <1>5

LEMMA WazuhSteps ==
    ASSUME WazuhOK, WazuhTakes \/ WazuhSettles \/ WazuhLeaves \/ WazuhStops \/ WazuhGivesUp
    PROVE  /\ WazuhOK' /\ OnWazuhSide' \subseteq OnWazuhSide
           /\ \/ wazuhSocket' = wazuhSocket
              \/ wazuhSocket' = "failed"
           /\ \/ wazuhStranded' = wazuhStranded \/ wazuhSocket' = "failed"
              \/ wazuhPhase = "leaving" /\ wazuhStranded' = Range(wazuhQueue)
           /\ \/ wazuhPhase' = wazuhPhase \/ wazuhSocket' = "failed"
              \/ wazuhPhase # "running" /\ wazuhPhase' # "running"
              \/ wazuhPhase = "running" /\ (shutdown \/ ~WazuhConnected)
<1>1. CASE WazuhTakes
  <2>1. /\ wazuhPhase = "running" /\ wazuhQueue # <<>>
        /\ wazuhHeld' = Append(wazuhHeld, Head(wazuhQueue)) /\ wazuhQueue' = Tail(wazuhQueue)
        /\ UNCHANGED <<wazuhReceived, wazuhLost, wazuhStranded, wazuhPhase, wazuhSocket>>
    BY <1>1 DEF WazuhTakes, WazuhActs, Wazuh!Take
  <2>2. /\ Head(wazuhQueue) \in Messages /\ wazuhQueue' \in Seq(Messages) /\ Len(wazuhQueue') = Len(wazuhQueue) - 1
        /\ Range(wazuhQueue) = Range(wazuhQueue') \cup {Head(wazuhQueue)}
    BY <2>1, TakeRange DEF WazuhOK
  <2>3. wazuhHeld' \in Seq(Messages) /\ Range(wazuhHeld') = Range(wazuhHeld) \cup {Head(wazuhQueue)}
    BY <2>1, <2>2, AppendRange DEF WazuhOK
  <2>4. Len(wazuhQueue) \in Nat /\ WazuhCap \in Nat
    BY Sizes, RangeByIndex DEF WazuhOK
  <2>5. WazuhOK'
    BY <2>1, <2>2, <2>3, <2>4 DEF WazuhOK
  <2>6. OnWazuhSide' \subseteq OnWazuhSide
    BY <2>1, <2>2, <2>3 DEF OnWazuhSide
  <2> QED BY <2>1, <2>5, <2>6
<1>2. CASE WazuhSettles
  <2>1. PICK k \in 0..Len(wazuhHeld) :
            /\ wazuhReceived' = wazuhReceived \o SubSeq(wazuhHeld, 1, k)
            /\ wazuhLost' = wazuhLost \cup {wazuhHeld[i] : i \in (k + 1)..Len(wazuhHeld)}
    BY <1>2 DEF WazuhSettles, WazuhActs, Wazuh!Settle
  <2>2. wazuhHeld' = <<>> /\ UNCHANGED <<wazuhQueue, wazuhStranded, wazuhPhase, wazuhSocket>>
    BY <1>2 DEF WazuhSettles, WazuhActs, Wazuh!Settle
  <2>3. /\ wazuhReceived' \in Seq(Messages) /\ {wazuhHeld[i] : i \in (k + 1)..Len(wazuhHeld)} \subseteq Messages
        /\ Range(wazuhReceived') \cup {wazuhHeld[i] : i \in (k + 1)..Len(wazuhHeld)}
              = Range(wazuhReceived) \cup Range(wazuhHeld)
    <3>1. wazuhReceived \in Seq(Messages) /\ wazuhHeld \in Seq(Messages)
      BY DEF WazuhOK
    <3>2. /\ wazuhReceived \o SubSeq(wazuhHeld, 1, k) \in Seq(Messages)
          /\ Range(wazuhReceived \o SubSeq(wazuhHeld, 1, k)) \cup {wazuhHeld[i] : i \in (k + 1)..Len(wazuhHeld)}
                = Range(wazuhReceived) \cup Range(wazuhHeld)
          /\ {wazuhHeld[i] : i \in (k + 1)..Len(wazuhHeld)} \subseteq Messages
      BY <3>1, SettleRange
    <3> QED BY <2>1, <3>2
  <2>4. Range(wazuhHeld') = {}
    BY <2>2, EmptyRange
  <2>5. WazuhOK'
    BY <2>1, <2>2, <2>3 DEF WazuhOK
  <2>6. OnWazuhSide' \subseteq OnWazuhSide
    BY <2>1, <2>2, <2>3, <2>4 DEF OnWazuhSide
  <2> QED BY <2>2, <2>5, <2>6
<1>3. CASE WazuhLeaves
  <2>1. /\ wazuhPhase = "running" /\ wazuhPhase' = "leaving" /\ (shutdown \/ ~WazuhConnected)
        /\ UNCHANGED <<wazuhQueue, wazuhHeld, wazuhReceived, wazuhLost, wazuhStranded, wazuhSocket>>
    BY <1>3 DEF WazuhLeaves, WazuhActs, Wazuh!Leave
  <2>2. WazuhOK' /\ OnWazuhSide' \subseteq OnWazuhSide
    BY <2>1 DEF WazuhOK, OnWazuhSide
  <2> QED BY <2>1, <2>2
<1>4. CASE WazuhStops
  <2>1. /\ wazuhPhase = "leaving" /\ wazuhPhase' = "stopped" /\ wazuhStranded' = Range(wazuhQueue) /\ wazuhQueue' = <<>>
        /\ UNCHANGED <<wazuhHeld, wazuhReceived, wazuhLost, wazuhSocket>>
    BY <1>4 DEF WazuhStops, WazuhActs, Wazuh!Stop, Range, Wazuh!Range
  <2>2. Range(wazuhQueue) \subseteq Messages /\ Range(wazuhQueue') = {}
    BY <2>1, EmptyRange, RangeByIndex DEF WazuhOK
  <2>3. WazuhOK'
    BY <2>1, <2>2, Sizes DEF WazuhOK
  <2>6. OnWazuhSide' \subseteq OnWazuhSide
    BY <2>1, <2>2 DEF OnWazuhSide
  <2> QED BY <2>1, <2>3, <2>6
<1>5. CASE WazuhGivesUp
  <2>1. /\ wazuhSocket' = "failed" /\ wazuhPhase' = "stopped"
        /\ wazuhStranded' = Range(wazuhQueue) /\ wazuhQueue' = <<>>
        /\ UNCHANGED <<wazuhHeld, wazuhReceived, wazuhLost>>
    BY <1>5 DEF WazuhGivesUp
  <2>2. Range(wazuhQueue) \subseteq Messages /\ Range(wazuhQueue') = {}
    BY <2>1, EmptyRange, RangeByIndex DEF WazuhOK
  <2>3. WazuhOK'
    BY <2>1, <2>2, Sizes DEF WazuhOK
  <2>4. OnWazuhSide' \subseteq OnWazuhSide
    BY <2>1, <2>2 DEF OnWazuhSide
  <2> QED BY <2>1, <2>3, <2>4
<1> QED BY <1>1, <1>2, <1>3, <1>4, <1>5

-----------------------------------------------------------------------------
(* Where a message is.                                                     *)

LEMMA HandTakes ==
    ASSUME CrewOK, NEW w \in Workers, item[w] = NoItem,
           NEW m \in Messages, item' = [item EXCEPT ![w] = m]
    PROVE  InHand' = InHand \cup {m}
<1>1. item'[w] = m /\ m # NoItem /\ \A v \in Workers : v # w => item'[v] = item[v]
  BY Sizes DEF CrewOK
<1> QED BY <1>1 DEF InHand

LEMMA HandEmpties ==
    ASSUME CrewOK, NEW w \in Workers, item[w] # NoItem, EachMessageOnce,
           item' = [item EXCEPT ![w] = NoItem]
    PROVE  item[w] \in InHand /\ InHand' = InHand \ {item[w]}
<1>1. item'[w] = NoItem /\ \A v \in Workers : v # w => item'[v] = item[v]
  BY DEF CrewOK
<1>2. \A v \in Workers : v # w => item[v] # item[w]
  BY DEF EachMessageOnce
<1> QED BY <1>1, <1>2 DEF InHand

LEMMA Dropping ==
    ASSUME IntakeOK, NEW m \in Messages, NEW c \in Causes, Drop(m, c)
    PROVE  /\ dropped' \in [Causes -> SUBSET Messages]
           /\ DroppedAnyhow' = DroppedAnyhow \cup {m}
           /\ dropped'[c] = dropped[c] \cup {m}
           /\ \A d \in Causes : d # c => dropped'[d] = dropped[d]
<1>1. /\ dropped' \in [Causes -> SUBSET Messages]
      /\ dropped'[c] = dropped[c] \cup {m}
      /\ \A d \in Causes : d # c => dropped'[d] = dropped[d]
  BY DEF IntakeOK, Drop
<1> QED BY <1>1 DEF DroppedAnyhow

\* What the invariant says of messages, without the order of the threads.
Places == HandsFull /\ QueuedOnce /\ EachMessageOnce /\ ParsedFirst /\ WazuhOnlyEnriched

(***************************************************************************)
(* A step that moves no message.                                           *)
(***************************************************************************)
LEMMA NoMove ==
    ASSUME Places, UNCHANGED <<arrived, rawQueue, item, dropped, enriched, elkVars, wazuhVars>>,
           BeingEnqueued' = BeingEnqueued,
           \A w \in Workers : worker'[w] \in Working <=> worker[w] \in Working
    PROVE  Places'
<1>1. HandsFull'
  BY DEF Places, HandsFull
<1>2. QueuedOnce' /\ ParsedFirst'
  BY DEF Places, QueuedOnce, ParsedFirst
<1>3. /\ InHand' = InHand /\ Range(rawQueue)' = Range(rawQueue)
      /\ OnElkSide' = OnElkSide /\ OnWazuhSide' = OnWazuhSide
      /\ DroppedAnyhow' = DroppedAnyhow
  BY DEF InHand, OnElkSide, OnWazuhSide, DroppedAnyhow, elkVars, wazuhVars
<1>4. EachMessageOnce' /\ WazuhOnlyEnriched'
  BY <1>3 DEF Places, EachMessageOnce, WazuhOnlyEnriched
<1> QED BY <1>1, <1>2, <1>4 DEF Places

(***************************************************************************)
(* A datagram arrives, and is enqueued or dropped.                         *)
(***************************************************************************)
LEMMA ReceiverPlaces ==
    ASSUME TypeOK, Places, Receiver
    PROVE  Places'
<1>1. CASE Bind \/ ReceiverLoop \/ ReceiveNothing
  <2>1. /\ UNCHANGED <<arrived, rawQueue, worker, item, dropped, enriched, elkVars, wazuhVars>>
        /\ receiver # "enqueueing" /\ receiver' # "enqueueing"
    BY <1>1 DEF Bind, ReceiverLoop, ReceiveNothing, crew, past, sinks
  <2> QED BY <2>1, NoMove DEF BeingEnqueued
<1>2. CASE Receive
  <2>1. /\ UNCHANGED <<rawQueue, worker, item, dropped, enriched, elkVars, wazuhVars>>
        /\ receiver = "waiting" /\ receiver' = "enqueueing" /\ arrived' = arrived + 1
    BY <1>2 DEF Receive, crew, past, sinks
  <2>2. BeingEnqueued = {} /\ BeingEnqueued' = {arrived + 1}
    BY <2>1 DEF BeingEnqueued
  <2>3. /\ InHand' = InHand /\ Range(rawQueue)' = Range(rawQueue)
        /\ OnElkSide' = OnElkSide /\ OnWazuhSide' = OnWazuhSide
        /\ DroppedAnyhow' = DroppedAnyhow
    BY <2>1 DEF InHand, OnElkSide, OnWazuhSide, DroppedAnyhow, elkVars, wazuhVars
  <2>4. 1..arrived' = 1..arrived \cup {arrived + 1} /\ arrived + 1 \notin 1..arrived
    BY <2>1, Sizes DEF TypeOK, IntakeOK
  <2>5. EachMessageOnce'
    BY <2>1, <2>2, <2>3, <2>4 DEF Places, EachMessageOnce
  <2> QED BY <2>1, <2>3, <2>5 DEF Places, HandsFull, QueuedOnce, ParsedFirst, WazuhOnlyEnriched
<1>3. CASE EnqueueLog
  <2>1. /\ UNCHANGED <<arrived, worker, item, enriched, elkVars, wazuhVars>>
        /\ receiver = "enqueueing" /\ receiver' = "loop"
    BY <1>3 DEF EnqueueLog, crew, sinks
  <2>2. BeingEnqueued = {arrived} /\ BeingEnqueued' = {}
    BY <2>1 DEF BeingEnqueued
  <2>3. /\ InHand' = InHand /\ OnElkSide' = OnElkSide /\ OnWazuhSide' = OnWazuhSide
    BY <2>1 DEF InHand, OnElkSide, OnWazuhSide, elkVars, wazuhVars
  <2>4. arrived \in Messages
    <3>1. arrived \in 1..arrived
      BY <2>2 DEF Places, EachMessageOnce
    <3> QED BY <3>1, Sizes DEF TypeOK, IntakeOK, Messages
  <2>5. HandsFull' /\ ParsedFirst'
    BY <2>1 DEF Places, HandsFull, ParsedFirst
  <2>6. CASE rawQueue' = Append(rawQueue, arrived) /\ UNCHANGED dropped
    <3>1. Range(rawQueue') = Range(rawQueue) \cup {arrived}
      BY <2>4, <2>6, AppendRange DEF TypeOK, IntakeOK
    <3>2. arrived \notin Range(rawQueue)
      BY <2>2 DEF Places, EachMessageOnce
    <3>3. QueuedOnce'
      <4>1. rawQueue \in Seq(Messages) /\ IsInjective(rawQueue)
        BY DEF TypeOK, IntakeOK, Places, QueuedOnce
      <4> QED BY <2>4, <2>6, <3>2, <4>1, AppendOnce DEF QueuedOnce
    <3>4. DroppedAnyhow' = DroppedAnyhow
      BY <2>6 DEF DroppedAnyhow
    <3>5. EachMessageOnce'
      BY <2>1, <2>2, <2>3, <3>1, <3>4 DEF Places, EachMessageOnce
    <3>6. WazuhOnlyEnriched'
      BY <2>1, <2>3, <2>6 DEF Places, WazuhOnlyEnriched
    <3> QED BY <2>5, <3>3, <3>5, <3>6 DEF Places
  <2>7. CASE Drop(arrived, "raw_full") /\ UNCHANGED rawQueue
    <3>0. "raw_full" \in Causes
      BY DEF Causes
    <3>1. /\ DroppedAnyhow' = DroppedAnyhow \cup {arrived}
          /\ \A d \in Causes : d # "raw_full" => dropped'[d] = dropped[d]
      BY <2>4, <2>7, <3>0, Dropping DEF TypeOK
    <3>2. dropped'["elk_full"] = dropped["elk_full"] /\ dropped'["elk_gone"] = dropped["elk_gone"]
      BY <3>1 DEF Causes
    <3>3. EachMessageOnce'
      BY <2>1, <2>2, <2>3, <2>7, <3>1 DEF Places, EachMessageOnce
    <3>4. WazuhOnlyEnriched'
      BY <2>1, <2>3, <3>2 DEF Places, WazuhOnlyEnriched
    <3>5. QueuedOnce'
      BY <2>7 DEF Places, QueuedOnce
    <3> QED BY <2>5, <3>3, <3>4, <3>5 DEF Places
  <2> QED BY <1>3, <2>6, <2>7 DEF EnqueueLog
<1> QED BY <1>1, <1>2, <1>3 DEF Receiver

(***************************************************************************)
(* A worker takes a message from the queue, rejects it, enriches it or     *)
(* hands it to the ELK queue.                                              *)
(***************************************************************************)
LEMMA WorkerPlaces ==
    ASSUME TypeOK, Places, NEW w \in Workers, WorkerStep(w)
    PROVE  Places'
<1>1. CASE WorkerLoop(w) \/ TakeNothing(w) \/ ReadLoad(w) \/ WorkerExit(w)
  <2>1. /\ UNCHANGED <<receiver, arrived, rawQueue, item, dropped, enriched, elkVars, wazuhVars>>
        /\ \E l \in {"loop", "waiting", "exiting", "done", "processing"} :
              /\ worker' = [worker EXCEPT ![w] = l]
              /\ l \in Working <=> worker[w] \in Working
    BY <1>1 DEF WorkerLoop, TakeNothing, ReadLoad, WorkerExit, Goto, Working, intake, past, sinks
  <2>2. \A v \in Workers : worker'[v] \in Working <=> worker[v] \in Working
    BY <2>1 DEF TypeOK, CrewOK
  <2> QED BY <2>1, <2>2, NoMove DEF BeingEnqueued
<1>2. CASE TakeLog(w)
  <2> DEFINE m == Head(rawQueue)
  <2>1. /\ UNCHANGED <<receiver, arrived, dropped, enriched, elkVars, wazuhVars>>
        /\ worker[w] = "waiting" /\ rawQueue # <<>> /\ rawQueue' = Tail(rawQueue)
        /\ item' = [item EXCEPT ![w] = m] /\ worker' = [worker EXCEPT ![w] = "taken"]
    BY <1>2 DEF TakeLog, Goto, intake, past, sinks
  <2>2. m \in Messages /\ Range(rawQueue) = Range(rawQueue') \cup {m}
    BY <2>1, TakeRange DEF TypeOK, IntakeOK
  <2>3. QueuedOnce' /\ m \notin Range(rawQueue')
    <3>1. rawQueue \in Seq(Messages) /\ IsInjective(rawQueue)
      BY DEF TypeOK, IntakeOK, Places, QueuedOnce
    <3> QED BY <2>1, <3>1, TakeOnce DEF QueuedOnce
  <2>4. item[w] = NoItem
    BY <2>1 DEF Places, HandsFull, Working
  <2> HIDE DEF m
  <2>5. InHand' = InHand \cup {m}
    BY <2>1, <2>2, <2>4, HandTakes DEF TypeOK
  <2>6. /\ BeingEnqueued' = BeingEnqueued /\ OnElkSide' = OnElkSide
        /\ OnWazuhSide' = OnWazuhSide /\ DroppedAnyhow' = DroppedAnyhow
    BY <2>1 DEF BeingEnqueued, OnElkSide, OnWazuhSide, DroppedAnyhow, elkVars, wazuhVars
  <2>7. \A v \in Workers : v # w => item'[v] = item[v] /\ worker'[v] = worker[v]
    BY <2>1 DEF TypeOK, CrewOK
  <2>8. item'[w] = m /\ m # NoItem /\ worker'[w] = "taken"
    BY <2>1, <2>2, Sizes DEF TypeOK, CrewOK
  <2>9. HandsFull'
    BY <2>7, <2>8 DEF Places, HandsFull, Working
  <2>10. \A v \in Workers : item[v] # m
    <3>1. m \notin InHand
      BY <2>2 DEF Places, EachMessageOnce
    <3> QED BY <2>8, <3>1 DEF InHand
  <2>11. \A u, v \in Workers : u # v /\ item'[u] = item'[v] => item'[u] = NoItem
    BY <2>7, <2>8, <2>10 DEF Places, EachMessageOnce
  <2>12. EachMessageOnce'
    BY <2>1, <2>2, <2>3, <2>5, <2>6, <2>11 DEF Places, EachMessageOnce
  <2>13. ParsedFirst' /\ WazuhOnlyEnriched'
    BY <2>1, <2>5, <2>6 DEF Places, ParsedFirst, WazuhOnlyEnriched
  <2> QED BY <2>3, <2>9, <2>12, <2>13 DEF Places
<1>3. CASE EnrichLog(w)
  <2>1. /\ UNCHANGED <<receiver, arrived, rawQueue, item, dropped, elkVars>>
        /\ worker[w] = "processing" /\ worker' = [worker EXCEPT ![w] = "sending"]
        /\ item[w] \notin Unparsable
    BY <1>3 DEF EnrichLog, Goto, intake
  <2>2. /\ BeingEnqueued' = BeingEnqueued /\ OnElkSide' = OnElkSide /\ InHand' = InHand
        /\ DroppedAnyhow' = DroppedAnyhow
    BY <2>1 DEF BeingEnqueued, OnElkSide, InHand, DroppedAnyhow, elkVars
  <2>3. item[w] # NoItem /\ item[w] \in Messages /\ item[w] \in InHand
    BY <2>1 DEF TypeOK, CrewOK, Places, HandsFull, Working, InHand
  <2>4. HandsFull'
    BY <2>1 DEF TypeOK, CrewOK, Places, HandsFull, Working
  <2>5. QueuedOnce' /\ EachMessageOnce'
    BY <2>1, <2>2 DEF Places, QueuedOnce, EachMessageOnce
  <2>6. \/ enriched' = enriched /\ OnWazuhSide' = OnWazuhSide
        \/ /\ item[w] \in Notable /\ enriched' = enriched \cup {item[w]}
           /\ \/ OnWazuhSide' = OnWazuhSide
              \/ OnWazuhSide' = OnWazuhSide \cup {item[w]}
    <3>1. CASE UNCHANGED wazuhVars
      <4>1. OnWazuhSide' = OnWazuhSide
        BY <3>1 DEF OnWazuhSide, wazuhVars
      <4>2. enriched' = enriched \/ (item[w] \in Notable /\ enriched' = enriched \cup {item[w]})
        BY <1>3 DEF EnrichLog
      <4> QED BY <4>1, <4>2
    <3>2. CASE Wazuh!Accept(item[w]) /\ item[w] \in Notable /\ ~skip[w]
      <4>1. UNCHANGED wazuhSocket /\ enriched' = enriched \cup {item[w]}
        BY <1>3, <3>2 DEF EnrichLog
      <4>2. OnWazuhSide' = OnWazuhSide \cup {item[w]}
        BY <2>3, <3>2, <4>1, WazuhAccepted DEF TypeOK
      <4> QED BY <3>2, <4>1, <4>2
    <3> QED BY <1>3, <3>1, <3>2 DEF EnrichLog
  <2>7. ParsedFirst'
    BY <2>1, <2>6 DEF Places, ParsedFirst
  <2>8. WazuhOnlyEnriched'
    BY <2>1, <2>2, <2>3, <2>6 DEF Places, WazuhOnlyEnriched
  <2> QED BY <2>4, <2>5, <2>7, <2>8 DEF Places
<1>4. CASE RejectLog(w) \/ SendElk(w)
  <2>1. /\ UNCHANGED <<receiver, arrived, rawQueue, enriched, wazuhVars>>
        /\ worker[w] \in Working /\ worker' = [worker EXCEPT ![w] = "loop"]
        /\ item' = [item EXCEPT ![w] = NoItem]
    BY <1>4 DEF RejectLog, SendElk, Goto, Working, intake, sinks
  <2>2. item[w] # NoItem /\ item[w] \in Messages
    BY <2>1 DEF TypeOK, CrewOK, Places, HandsFull
  <2>3. item[w] \in InHand /\ InHand' = InHand \ {item[w]}
    BY <2>1, <2>2, HandEmpties DEF TypeOK, Places
  <2>4. BeingEnqueued' = BeingEnqueued /\ OnWazuhSide' = OnWazuhSide
    BY <2>1 DEF BeingEnqueued, OnWazuhSide, wazuhVars
  <2>5. /\ \A v \in Workers : v # w => item'[v] = item[v] /\ worker'[v] = worker[v]
        /\ item'[w] = NoItem /\ worker'[w] = "loop"
    BY <2>1 DEF TypeOK, CrewOK
  <2>6. HandsFull'
    BY <2>5 DEF Places, HandsFull, Working
  <2>7. \A u, v \in Workers : u # v /\ item'[u] = item'[v] => item'[u] = NoItem
    BY <2>5 DEF Places, EachMessageOnce
  <2>8. QueuedOnce' /\ ParsedFirst'
    BY <2>1 DEF Places, QueuedOnce, ParsedFirst
  <2>9. \/ /\ OnElkSide' = OnElkSide \cup {item[w]} /\ DroppedAnyhow' = DroppedAnyhow
           /\ dropped' = dropped
        \/ /\ OnElkSide' = OnElkSide /\ DroppedAnyhow' = DroppedAnyhow \cup {item[w]}
           /\ \/ item[w] \in Unparsable /\ dropped'["elk_full"] = dropped["elk_full"]
                 /\ dropped'["elk_gone"] = dropped["elk_gone"]
              \/ dropped'["elk_full"] = dropped["elk_full"]
                 /\ dropped'["elk_gone"] = dropped["elk_gone"] \cup {item[w]}
              \/ dropped'["elk_full"] = dropped["elk_full"] \cup {item[w]}
                 /\ dropped'["elk_gone"] = dropped["elk_gone"]
    <3>1. CASE Elk!Accept(item[w]) /\ UNCHANGED dropped
      BY <2>2, <3>1, ElkAccepted DEF TypeOK, DroppedAnyhow
    <3>2. ASSUME NEW c \in Causes, Drop(item[w], c), UNCHANGED elkVars
          PROVE  /\ OnElkSide' = OnElkSide /\ DroppedAnyhow' = DroppedAnyhow \cup {item[w]}
                 /\ dropped'[c] = dropped[c] \cup {item[w]}
                 /\ \A d \in Causes : d # c => dropped'[d] = dropped[d]
      <4>1. /\ DroppedAnyhow' = DroppedAnyhow \cup {item[w]}
            /\ dropped'[c] = dropped[c] \cup {item[w]}
            /\ \A d \in Causes : d # c => dropped'[d] = dropped[d]
        BY <2>2, <3>2, Dropping DEF TypeOK
      <4>2. OnElkSide' = OnElkSide
        BY <3>2 DEF OnElkSide, elkVars
      <4> QED BY <4>1, <4>2
    <3>3. CASE RejectLog(w)
      <4>1. Drop(item[w], "unparsed") /\ UNCHANGED elkVars /\ item[w] \in Unparsable
        BY <3>3 DEF RejectLog, sinks
      <4> QED BY <3>2, <4>1 DEF Causes
    <3>4. CASE \E c \in {"elk_full", "elk_gone"} : Drop(item[w], c) /\ UNCHANGED elkVars
      <4>1. CASE Drop(item[w], "elk_full") /\ UNCHANGED elkVars
        BY <3>2, <4>1 DEF Causes
      <4>2. CASE Drop(item[w], "elk_gone") /\ UNCHANGED elkVars
        BY <3>2, <4>2 DEF Causes
      <4> QED BY <3>4, <4>1, <4>2
    <3> QED BY <1>4, <3>1, <3>3, <3>4 DEF SendElk
  <2>10. EachMessageOnce'
    BY <2>1, <2>3, <2>4, <2>7, <2>9 DEF Places, EachMessageOnce
  <2>11. item[w] \in Unparsable => item[w] \notin OnWazuhSide
    BY DEF Places, ParsedFirst, WazuhOnlyEnriched
  <2>12. WazuhOnlyEnriched'
    BY <2>1, <2>3, <2>4, <2>9, <2>11 DEF Places, WazuhOnlyEnriched
  <2> QED BY <2>6, <2>8, <2>10, <2>12 DEF Places
<1> QED BY <1>1, <1>2, <1>3, <1>4 DEF WorkerStep

(***************************************************************************)
(* The senders keep what is theirs, and nobody else moves a message.       *)
(***************************************************************************)
LEMMA OtherPlaces ==
    ASSUME TypeOK, Places, StrandedAtTheEnd,
           Senders \/ UpdaterEnds \/ MergerEnds \/ Signal \/ Main
    PROVE  Places'
<1>1. CASE UpdaterEnds \/ MergerEnds \/ Signal \/ Main \/ WazuhOpens
  <2>1. UNCHANGED <<receiver, arrived, rawQueue, worker, item, dropped, enriched, elkVars, wazuhVars>>
    <3>1. CASE Main
      BY <3>1 DEF Main, JoinReceiver, JoinWorkers, JoinElk, JoinWazuh, JoinUpdater, JoinMerger,
             Joined, intake, crew, past, sinks
    <3> QED BY <1>1, <3>1 DEF UpdaterEnds, MergerEnds, Signal, WazuhOpens, beforeSinks, intake, crew, past, sinks
  <2> QED BY <2>1, NoMove DEF BeingEnqueued
<1>2. CASE ElkTakes \/ ElkSettles \/ ElkLeaves \/ ElkStops
  <2>1. UNCHANGED <<receiver, arrived, rawQueue, worker, item, dropped, enriched, wazuhVars>>
    BY <1>2 DEF ElkTakes, ElkSettles, ElkLeaves, ElkStops, beforeSinks, intake, crew, past
  <2>2. OnElkSide' = OnElkSide
    BY <1>2, ElkSteps DEF TypeOK
  <2>3. /\ BeingEnqueued' = BeingEnqueued /\ InHand' = InHand /\ OnWazuhSide' = OnWazuhSide
        /\ DroppedAnyhow' = DroppedAnyhow
    BY <2>1 DEF BeingEnqueued, InHand, OnWazuhSide, DroppedAnyhow, wazuhVars
  <2>4. EachMessageOnce' /\ WazuhOnlyEnriched'
    BY <2>1, <2>2, <2>3 DEF Places, EachMessageOnce, WazuhOnlyEnriched
  <2> QED BY <2>1, <2>4 DEF Places, HandsFull, QueuedOnce, ParsedFirst
<1>3. CASE WazuhTakes \/ WazuhSettles \/ WazuhLeaves \/ WazuhStops \/ WazuhGivesUp
  <2>1. UNCHANGED <<receiver, arrived, rawQueue, worker, item, dropped, enriched, elkVars>>
    BY <1>3 DEF WazuhTakes, WazuhSettles, WazuhLeaves, WazuhStops, WazuhGivesUp, WazuhActs,
           beforeSinks, intake, crew, past
  <2>2. OnWazuhSide' \subseteq OnWazuhSide
    BY <1>3, WazuhSteps DEF TypeOK
  <2>3. /\ BeingEnqueued' = BeingEnqueued /\ InHand' = InHand /\ OnElkSide' = OnElkSide
        /\ DroppedAnyhow' = DroppedAnyhow
    BY <2>1 DEF BeingEnqueued, InHand, OnElkSide, DroppedAnyhow, elkVars
  <2>4. EachMessageOnce' /\ WazuhOnlyEnriched'
    BY <2>1, <2>2, <2>3 DEF Places, EachMessageOnce, WazuhOnlyEnriched
  <2> QED BY <2>1, <2>4 DEF Places, HandsFull, QueuedOnce, ParsedFirst
<1> QED BY <1>1, <1>2, <1>3 DEF Senders

-----------------------------------------------------------------------------
(* Types and the order of the threads.                                     *)

LEMMA TypesStep == IInv /\ Next => TypeOK'
<1> SUFFICES ASSUME IInv, Next PROVE TypeOK'
  OBVIOUS
<1>1. ThreadsOK /\ CrewOK /\ IntakeOK /\ ElkOK /\ WazuhOK /\ StrandedAtTheEnd
  BY DEF IInv, TypeOK
<1>2. CASE Receiver
  <2>1. /\ UNCHANGED <<shutdown, main, worker, item, skip, updater, merger, enriched, elkVars, wazuhVars, wazuhSocket>>
        /\ receiver' \in {"loop", "waiting", "enqueueing", "done"}
    BY <1>2 DEF Receiver, Bind, ReceiverLoop, Receive, EnqueueLog, ReceiveNothing,
           crew, helpers, past, sinks
  <2>2. ThreadsOK' /\ CrewOK' /\ ElkOK' /\ WazuhOK'
    BY <1>1, <2>1 DEF ThreadsOK, CrewOK, ElkOK, WazuhOK, elkVars, wazuhVars
  <2>3. CASE Receive
    <3>1. /\ arrived < MaxMessages /\ arrived' = arrived + 1 /\ highLoad' \in BOOLEAN
          /\ UNCHANGED <<rawQueue, dropped, enriched>>
      BY <2>3 DEF Receive, check_queue_health, past
    <3>2. arrived' \in 0..MaxMessages
      BY <1>1, <3>1, Sizes DEF IntakeOK
    <3>3. IntakeOK'
      BY <1>1, <3>1, <3>2 DEF IntakeOK
    <3> QED BY <2>2, <3>3 DEF TypeOK
  <2>4. CASE EnqueueLog
    <3>1. arrived \in Messages
      <4>1. arrived \in 1..arrived
        BY <2>4 DEF IInv, EachMessageOnce, BeingEnqueued, EnqueueLog
      <4> QED BY <1>1, <4>1, Sizes DEF IntakeOK, Messages
    <3>2. UNCHANGED <<arrived, highLoad, enriched>>
      BY <2>4 DEF EnqueueLog
    <3>3. CASE rawQueue' = Append(rawQueue, arrived) /\ UNCHANGED dropped /\ Len(rawQueue) < RawCap
      <4>1. rawQueue' \in Seq(Messages) /\ Len(rawQueue') = Len(rawQueue) + 1
        BY <1>1, <3>1, <3>3, AppendRange DEF IntakeOK
      <4>2. Len(rawQueue) \in Nat
        BY <1>1, RangeByIndex DEF IntakeOK
      <4>3. Len(rawQueue') <= RawCap
        BY <3>3, <4>1, <4>2, Sizes
      <4>4. IntakeOK'
        BY <1>1, <3>2, <3>3, <4>1, <4>3 DEF IntakeOK
      <4> QED BY <2>2, <4>4 DEF TypeOK
    <3>4. CASE Drop(arrived, "raw_full") /\ UNCHANGED rawQueue
      <4>1. dropped' \in [Causes -> SUBSET Messages]
        BY <1>1, <3>1, <3>4, Dropping DEF Causes
      <4>2. IntakeOK'
        BY <1>1, <3>2, <3>4, <4>1 DEF IntakeOK
      <4> QED BY <2>2, <4>2 DEF TypeOK
    <3> QED BY <2>4, <3>3, <3>4 DEF EnqueueLog
  <2>5. CASE Bind \/ ReceiverLoop \/ ReceiveNothing
    <3>1. UNCHANGED <<arrived, rawQueue, highLoad, dropped, enriched>>
      BY <2>5 DEF Bind, ReceiverLoop, ReceiveNothing, past
    <3> QED BY <1>1, <2>2, <3>1 DEF TypeOK, IntakeOK
  <2> QED BY <1>2, <2>3, <2>4, <2>5 DEF Receiver
<1>3. ASSUME NEW w \in Workers, WorkerStep(w) PROVE TypeOK'
  <2>1. UNCHANGED <<shutdown, main, receiver, arrived, highLoad, updater, merger, wazuhSocket>>
    BY <1>3 DEF WorkerStep, WorkerLoop, TakeLog, TakeNothing, ReadLoad, RejectLog, EnrichLog, SendElk,
           WorkerExit, intake, helpers, sinks
  <2>2. ThreadsOK'
    BY <1>1, <2>1 DEF ThreadsOK
  <2>3. worker' \in [Workers -> {"loop", "waiting", "taken", "processing", "sending", "exiting", "done"}]
    <3>1. \E l \in {"loop", "waiting", "taken", "processing", "sending", "exiting", "done"} : Goto(w, l)
      BY <1>3 DEF WorkerStep, WorkerLoop, TakeLog, TakeNothing, ReadLoad, RejectLog, EnrichLog, SendElk,
             WorkerExit
    <3> QED BY <1>1, <3>1 DEF Goto, CrewOK
  <2>4. CASE WorkerLoop(w) \/ TakeNothing(w) \/ ReadLoad(w) \/ WorkerExit(w)
    <3>1. /\ UNCHANGED <<item, rawQueue, dropped, enriched, elkVars, wazuhVars>>
          /\ skip' = skip \/ skip' = [skip EXCEPT ![w] = highLoad]
      BY <2>4 DEF WorkerLoop, TakeNothing, ReadLoad, WorkerExit, past, sinks
    <3>2. skip' \in [Workers -> BOOLEAN]
      BY <1>1, <3>1 DEF CrewOK, IntakeOK
    <3>3. CrewOK' /\ IntakeOK'
      BY <1>1, <2>1, <2>3, <3>1, <3>2 DEF CrewOK, IntakeOK
    <3>4. ElkOK' /\ WazuhOK'
      BY <1>1, <2>1, <3>1 DEF ElkOK, WazuhOK, elkVars, wazuhVars
    <3> QED BY <2>2, <3>3, <3>4 DEF TypeOK
  <2>5. CASE TakeLog(w)
    <3>1. /\ rawQueue # <<>> /\ item' = [item EXCEPT ![w] = Head(rawQueue)] /\ rawQueue' = Tail(rawQueue)
          /\ UNCHANGED <<skip, dropped, enriched, elkVars, wazuhVars>>
      BY <2>5 DEF TakeLog, past, sinks
    <3>2. Head(rawQueue) \in Messages /\ rawQueue' \in Seq(Messages) /\ Len(rawQueue') = Len(rawQueue) - 1
      BY <1>1, <3>1, TakeRange DEF IntakeOK
    <3>3. Len(rawQueue') <= RawCap
      <4>1. Len(rawQueue) \in Nat
        BY <1>1, RangeByIndex DEF IntakeOK
      <4> QED BY <1>1, <3>2, <4>1, Sizes DEF IntakeOK
    <3>4. CrewOK' /\ IntakeOK'
      BY <1>1, <2>1, <2>3, <3>1, <3>2, <3>3 DEF CrewOK, IntakeOK
    <3>5. ElkOK' /\ WazuhOK'
      BY <1>1, <2>1, <3>1 DEF ElkOK, WazuhOK, elkVars, wazuhVars
    <3> QED BY <2>2, <3>4, <3>5 DEF TypeOK
  <2>6. CASE RejectLog(w) \/ EnrichLog(w) \/ SendElk(w)
    <3>1. /\ UNCHANGED <<skip, rawQueue>>
          /\ item' = item \/ item' = [item EXCEPT ![w] = NoItem]
          /\ worker[w] \in Working
      BY <2>6 DEF RejectLog, EnrichLog, SendElk, Working
    <3>2. item[w] \in Messages
      BY <1>1, <3>1 DEF IInv, CrewOK, HandsFull
    <3>3. CrewOK'
      BY <1>1, <2>3, <3>1 DEF CrewOK
    <3>4. dropped' \in [Causes -> SUBSET Messages]
      <4>1. dropped' = dropped \/ (\E c \in Causes : Drop(item[w], c))
        BY <2>6 DEF RejectLog, EnrichLog, SendElk, Causes
      <4> QED BY <1>1, <3>2, <4>1, Dropping DEF IntakeOK
    <3>5. enriched' \subseteq Messages
      <4>1. enriched' = enriched \/ enriched' = enriched \cup {item[w]}
        BY <2>6 DEF RejectLog, EnrichLog, SendElk
      <4> QED BY <1>1, <3>2, <4>1 DEF IntakeOK
    <3>6. IntakeOK'
      BY <1>1, <2>1, <3>1, <3>4, <3>5 DEF IntakeOK
    <3>7. ElkOK'
      <4>1. UNCHANGED elkVars \/ Elk!Accept(item[w])
        BY <2>6 DEF RejectLog, EnrichLog, SendElk, sinks
      <4>2. CASE UNCHANGED elkVars
        BY <1>1, <4>2 DEF ElkOK, elkVars
      <4> QED BY <1>1, <3>2, <4>1, <4>2, ElkAccepted
    <3>8. WazuhOK'
      <4>1. UNCHANGED wazuhVars \/ Wazuh!Accept(item[w])
        BY <2>6 DEF RejectLog, EnrichLog, SendElk, sinks
      <4>2. CASE UNCHANGED wazuhVars
        BY <1>1, <2>1, <4>2 DEF WazuhOK, wazuhVars
      <4>3. CASE Wazuh!Accept(item[w])
        BY <1>1, <2>1, <3>2, <4>3, WazuhAccepted
      <4> QED BY <4>1, <4>2, <4>3
    <3> QED BY <2>2, <3>3, <3>6, <3>7, <3>8 DEF TypeOK
  <2> QED BY <1>3, <2>4, <2>5, <2>6 DEF WorkerStep
<1>4. CASE Senders
  <2>1. UNCHANGED beforeSinks
    BY <1>4 DEF Senders, ElkTakes, ElkSettles, ElkLeaves, ElkStops, WazuhOpens, WazuhGivesUp,
           WazuhTakes, WazuhSettles, WazuhLeaves, WazuhStops, WazuhActs
  <2>2. ThreadsOK' /\ CrewOK' /\ IntakeOK'
    BY <1>1, <2>1 DEF ThreadsOK, CrewOK, IntakeOK, beforeSinks, intake, crew, helpers, past
  <2>3. CASE ElkTakes \/ ElkSettles \/ ElkLeaves \/ ElkStops
    <3>1. UNCHANGED <<wazuhVars, wazuhSocket>>
      BY <2>3 DEF ElkTakes, ElkSettles, ElkLeaves, ElkStops
    <3>2. ElkOK'
      BY <1>1, <2>3, ElkSteps
    <3> QED BY <1>1, <2>2, <3>1, <3>2 DEF TypeOK, WazuhOK, wazuhVars
  <2>4. CASE WazuhTakes \/ WazuhSettles \/ WazuhLeaves \/ WazuhStops \/ WazuhGivesUp
    <3>1. UNCHANGED elkVars
      BY <2>4 DEF WazuhTakes, WazuhSettles, WazuhLeaves, WazuhStops, WazuhGivesUp, WazuhActs
    <3>2. WazuhOK'
      BY <1>1, <2>4, WazuhSteps
    <3> QED BY <1>1, <2>2, <3>1, <3>2 DEF TypeOK, ElkOK, elkVars
  <2>5. CASE WazuhOpens
    <3>1. UNCHANGED <<elkVars, wazuhVars>> /\ wazuhSocket' = "open"
      BY <2>5 DEF WazuhOpens
    <3> QED BY <1>1, <2>2, <3>1 DEF TypeOK, ElkOK, WazuhOK, elkVars, wazuhVars
  <2> QED BY <1>4, <2>3, <2>4, <2>5 DEF Senders
<1>5. CASE UpdaterEnds \/ MergerEnds \/ Signal \/ Main
  <2>1. UNCHANGED <<receiver, arrived, rawQueue, highLoad, worker, item, skip, dropped,
                    enriched, elkVars, wazuhVars, wazuhSocket>>
    <3>1. CASE Main
      BY <3>1 DEF Main, JoinReceiver, JoinWorkers, JoinElk, JoinWazuh, JoinUpdater, JoinMerger,
             Joined, intake, crew, past, sinks
    <3> QED BY <1>5, <3>1 DEF UpdaterEnds, MergerEnds, Signal, intake, crew, past, sinks
  <2>2. CrewOK' /\ IntakeOK' /\ ElkOK' /\ WazuhOK'
    BY <1>1, <2>1 DEF CrewOK, IntakeOK, ElkOK, WazuhOK, elkVars, wazuhVars
  <2>3. ThreadsOK'
    <3>1. CASE Main
      BY <1>1, <2>1, <3>1 DEF ThreadsOK, Main, JoinReceiver, JoinWorkers, JoinElk, JoinWazuh, JoinUpdater,
             JoinMerger, Joined, helpers, Stages
    <3> QED BY <1>1, <1>5, <2>1, <3>1 DEF ThreadsOK, UpdaterEnds, MergerEnds, Signal, helpers
  <2> QED BY <2>2, <2>3 DEF TypeOK
<1> QED BY <1>2, <1>3, <1>4, <1>5 DEF Next

(***************************************************************************)
(* Messages lost to a sender that has gone, and the workers that may still *)
(* lose one, are finitely many.                                            *)
(***************************************************************************)
LEMMA Counts ==
    ASSUME TypeOK
    PROVE  /\ IsFiniteSet(dropped["elk_gone"]) /\ Cardinality(dropped["elk_gone"]) \in Nat
           /\ IsFiniteSet(StillAtWork) /\ Cardinality(StillAtWork) \in Nat
           /\ Cardinality(Workers) \in Nat /\ Cardinality(StillAtWork) <= Cardinality(Workers)
<1>1. dropped["elk_gone"] \subseteq Messages
  BY DEF TypeOK, IntakeOK, Causes
<1>2. IsFiniteSet(Messages)
  BY Sizes, FS_Interval DEF Messages
<1>3. IsFiniteSet(dropped["elk_gone"]) /\ Cardinality(dropped["elk_gone"]) \in Nat
  BY <1>1, <1>2, FS_Subset, FS_CardinalityType
<1>4. StillAtWork \subseteq Workers /\ IsFiniteSet(Workers)
  BY RunAssumption DEF StillAtWork, RunAssumption
<1> QED BY <1>3, <1>4, FS_Subset, FS_CardinalityType

(***************************************************************************)
(* A step by which no further message finds the sender gone and no worker  *)
(* comes back to work.                                                     *)
(***************************************************************************)
LEMMA NoFurtherLoss ==
    ASSUME TypeOK, TypeOK', OneLostPerWorker, elkPhase' = elkPhase,
           dropped'["elk_gone"] = dropped["elk_gone"],
           elkPhase = "stopped" => StillAtWork' \subseteq StillAtWork
    PROVE  OneLostPerWorker'
<1> SUFFICES ASSUME elkPhase = "stopped"
             PROVE  Cardinality(dropped'["elk_gone"]) + Cardinality(StillAtWork')
                       <= Cardinality(Workers)
  BY DEF OneLostPerWorker
<1>1. Cardinality(StillAtWork') \in Nat /\ Cardinality(StillAtWork') <= Cardinality(StillAtWork)
  BY Counts, FS_Subset, FS_CardinalityType
<1>2. Cardinality(dropped["elk_gone"]) + Cardinality(StillAtWork) <= Cardinality(Workers)
  BY DEF OneLostPerWorker
<1>3. /\ Cardinality(dropped["elk_gone"]) \in Nat /\ Cardinality(StillAtWork) \in Nat
      /\ Cardinality(Workers) \in Nat
  BY Counts
<1> QED BY <1>1, <1>2, <1>3

(***************************************************************************)
(* The sender goes at a shutdown or behind the workers, and after it each  *)
(* worker loses a message at most once: it looks at the flag before it     *)
(* takes another.                                                          *)
(***************************************************************************)
Ordered ==
    /\ LeavesForAReason /\ CrewLeftFirst /\ NoneGoneBefore
    /\ OneLostPerWorker /\ StrandedAtTheEnd

LEMMA OrderStep == IInv /\ Next => Ordered'
<1> SUFFICES ASSUME IInv, Next PROVE Ordered'
  OBVIOUS
<1>1. /\ TypeOK /\ HandsFull /\ Ordered /\ TypeOK'
  BY TypesStep DEF IInv, Ordered
<1>2. ASSUME UNCHANGED <<main, worker, elkVars, dropped>>, shutdown => shutdown'
      PROVE  Ordered'
  <2>1. StillAtWork' = StillAtWork /\ elkPhase' = elkPhase /\ elkStranded' = elkStranded
    BY <1>2 DEF StillAtWork, elkVars
  <2>2. OneLostPerWorker'
    BY <1>1, <1>2, <2>1, NoFurtherLoss DEF Ordered
  <2> QED BY <1>1, <1>2, <2>1, <2>2 DEF Ordered, LeavesForAReason, CrewLeftFirst, NoneGoneBefore,
             StrandedAtTheEnd, ElkConnected
<1>3. CASE Receiver
  <2>1. UNCHANGED <<shutdown, main, worker, elkVars>>
    BY <1>3 DEF Receiver, Bind, ReceiverLoop, Receive, EnqueueLog, ReceiveNothing, crew, sinks
  <2>2. dropped'["elk_gone"] = dropped["elk_gone"]
    <3>1. dropped' = dropped \/ Drop(arrived, "raw_full")
      BY <1>3 DEF Receiver, Bind, ReceiverLoop, Receive, EnqueueLog, ReceiveNothing, past
    <3> QED BY <1>1, <3>1 DEF Drop, TypeOK, IntakeOK, Causes
  <2>3. StillAtWork' = StillAtWork /\ elkPhase' = elkPhase /\ elkStranded' = elkStranded
    BY <2>1 DEF StillAtWork, elkVars
  <2>4. OneLostPerWorker'
    BY <1>1, <2>2, <2>3, NoFurtherLoss DEF Ordered
  <2> QED BY <1>1, <2>1, <2>2, <2>3, <2>4 DEF Ordered, LeavesForAReason, CrewLeftFirst, NoneGoneBefore,
             StrandedAtTheEnd, ElkConnected
<1>4. ASSUME NEW w \in Workers, WorkerStep(w) PROVE Ordered'
  <2>1. /\ UNCHANGED <<shutdown, main>> /\ worker[w] # "done"
        /\ worker' = [worker EXCEPT ![w] = worker'[w]]
    BY <1>1, <1>4 DEF WorkerStep, WorkerLoop, TakeLog, TakeNothing, ReadLoad, RejectLog, EnrichLog, SendElk,
           WorkerExit, Goto, TypeOK, CrewOK
  <2>2. UNCHANGED <<elkStranded, elkPhase>>
    <3>1. UNCHANGED elkVars \/ Elk!Accept(item[w])
      BY <1>4 DEF WorkerStep, WorkerLoop, TakeLog, TakeNothing, ReadLoad, RejectLog, EnrichLog, SendElk,
             WorkerExit, sinks
    <3> QED BY <3>1 DEF elkVars, Elk!Accept
  <2>3. ElkConnected
    BY <1>1, <2>1 DEF Ordered, CrewLeftFirst
  <2>4. LeavesForAReason' /\ CrewLeftFirst' /\ StrandedAtTheEnd'
    BY <1>1, <2>1, <2>2, <2>3 DEF Ordered, LeavesForAReason, CrewLeftFirst, StrandedAtTheEnd, ElkConnected
  <2>5. elkPhase = "stopped" => shutdown
    BY <1>1, <2>3 DEF Ordered, LeavesForAReason
  <2>6. CASE SendElk(w) /\ elkPhase = "stopped"
    <3>1. /\ w \in StillAtWork /\ dropped' = [dropped EXCEPT !["elk_gone"] = @ \cup {item[w]}]
          /\ worker'[w] = "loop"
      BY <1>1, <2>6 DEF SendElk, StillAtWork, Drop, Elk!Accepts, Goto, TypeOK, CrewOK
    <3>2. dropped'["elk_gone"] = dropped["elk_gone"] \cup {item[w]}
      BY <1>1, <3>1 DEF TypeOK, IntakeOK, Causes
    <3>3. StillAtWork' = StillAtWork \ {w}
      BY <1>1, <2>1, <3>1 DEF StillAtWork, TypeOK, CrewOK
    <3>4. /\ Cardinality(dropped'["elk_gone"]) \in Nat
          /\ Cardinality(dropped'["elk_gone"]) <= Cardinality(dropped["elk_gone"]) + 1
      <4>1. IsFiniteSet(dropped["elk_gone"]) /\ Cardinality(dropped["elk_gone"]) \in Nat
        BY <1>1, Counts
      <4>2. Cardinality(dropped["elk_gone"] \cup {item[w]}) =
               IF item[w] \in dropped["elk_gone"] THEN Cardinality(dropped["elk_gone"])
               ELSE Cardinality(dropped["elk_gone"]) + 1
        BY <4>1, FS_AddElement
      <4> QED BY <3>2, <4>1, <4>2
    <3>5. Cardinality(StillAtWork') = Cardinality(StillAtWork) - 1
      BY <1>1, <3>1, <3>3, Counts, FS_RemoveElement
    <3>6. Cardinality(dropped["elk_gone"]) + Cardinality(StillAtWork) <= Cardinality(Workers)
      BY <1>1, <2>6 DEF Ordered, OneLostPerWorker
    <3>7. /\ Cardinality(dropped["elk_gone"]) \in Nat /\ Cardinality(StillAtWork) \in Nat
          /\ Cardinality(Workers) \in Nat
      BY <1>1, Counts
    <3>8. Cardinality(dropped'["elk_gone"]) + Cardinality(StillAtWork') <= Cardinality(Workers)
      BY <3>4, <3>5, <3>6, <3>7
    <3>9. OneLostPerWorker' /\ NoneGoneBefore'
      BY <2>2, <2>6, <3>8 DEF OneLostPerWorker, NoneGoneBefore
    <3> QED BY <2>4, <3>9 DEF Ordered
  <2>7. CASE ~(SendElk(w) /\ elkPhase = "stopped")
    <3>1. dropped'["elk_gone"] = dropped["elk_gone"]
      <4>1. dropped' = dropped \/ Drop(item[w], "unparsed") \/ Drop(item[w], "elk_full")
        BY <1>4, <2>7 DEF WorkerStep, WorkerLoop, TakeLog, TakeNothing, ReadLoad, RejectLog, EnrichLog, SendElk,
               WorkerExit, past
      <4> QED BY <1>1, <4>1 DEF Drop, TypeOK, IntakeOK, Causes
    <3>2. elkPhase = "stopped" => StillAtWork' \subseteq StillAtWork
      <4>1. ASSUME elkPhase = "stopped", w \in StillAtWork' PROVE w \in StillAtWork
        BY <1>1, <1>4, <2>5, <4>1 DEF WorkerStep, WorkerLoop, TakeLog, TakeNothing, ReadLoad, RejectLog, EnrichLog,
               SendElk, WorkerExit, Goto, StillAtWork, TypeOK, CrewOK
      <4>2. \A v \in Workers \ {w} : worker'[v] = worker[v]
        BY <1>1, <2>1 DEF TypeOK, CrewOK
      <4> QED BY <4>1, <4>2 DEF StillAtWork
    <3>3. OneLostPerWorker'
      BY <1>1, <2>2, <3>1, <3>2, NoFurtherLoss DEF Ordered
    <3> QED BY <1>1, <2>2, <2>4, <3>1, <3>3 DEF Ordered, NoneGoneBefore
  <2> QED BY <2>6, <2>7
<1>5. CASE Senders
  <2>1. UNCHANGED <<shutdown, main, worker, dropped>>
    BY <1>5 DEF Senders, ElkTakes, ElkSettles, ElkLeaves, ElkStops, WazuhOpens, WazuhGivesUp,
           WazuhTakes, WazuhSettles, WazuhLeaves, WazuhStops, WazuhActs, beforeSinks, crew, past
  <2>2. CASE ElkTakes \/ ElkSettles \/ ElkLeaves \/ ElkStops
    <3>1. /\ StrandedAtTheEnd'
          /\ \/ elkPhase' = elkPhase
             \/ elkPhase # "running" /\ elkPhase' # "running"
             \/ elkPhase = "running" /\ (shutdown \/ ~ElkConnected)
      BY <1>1, <2>2, ElkSteps DEF TypeOK, Ordered
    <3>2. elkPhase = "stopped" => elkPhase' = "stopped"
      BY <1>1, <2>2 DEF ElkTakes, ElkSettles, ElkLeaves, ElkStops, Elk!Take, Elk!Settle, Elk!Leave, Elk!Stop
    <3>3. StillAtWork' = StillAtWork
      BY <2>1 DEF StillAtWork
    <3>4. OneLostPerWorker'
      <4>1. CASE elkPhase = "stopped"
        BY <1>1, <2>1, <3>2, <3>3, <4>1, NoFurtherLoss DEF Ordered
      <4>2. CASE elkPhase # "stopped"
        <5>1. dropped'["elk_gone"] = {}
          BY <1>1, <2>1, <4>2 DEF Ordered, NoneGoneBefore
        <5>2. Cardinality(dropped'["elk_gone"]) = 0
          BY <5>1, FS_EmptySet
        <5>3. /\ Cardinality(StillAtWork') \in Nat /\ Cardinality(Workers) \in Nat
              /\ Cardinality(StillAtWork') <= Cardinality(Workers)
          BY <1>1, <3>3, Counts
        <5> QED BY <5>2, <5>3 DEF OneLostPerWorker
      <4> QED BY <4>1, <4>2
    <3> QED BY <1>1, <2>1, <3>1, <3>2, <3>4 DEF Ordered, LeavesForAReason, CrewLeftFirst, NoneGoneBefore, ElkConnected
  <2>3. CASE WazuhOpens \/ WazuhGivesUp \/ WazuhTakes \/ WazuhSettles \/ WazuhLeaves \/ WazuhStops
    <3>1. UNCHANGED elkVars
      BY <2>3 DEF WazuhOpens, WazuhGivesUp, WazuhTakes, WazuhSettles, WazuhLeaves, WazuhStops, WazuhActs
    <3> QED BY <1>2, <2>1, <3>1
  <2> QED BY <1>5, <2>2, <2>3 DEF Senders
<1>6. CASE UpdaterEnds \/ MergerEnds \/ Signal
  <2>1. UNCHANGED <<main, worker, dropped, elkVars>> /\ (shutdown => shutdown')
    BY <1>6 DEF UpdaterEnds, MergerEnds, Signal, crew, past, sinks
  <2> QED BY <1>2, <2>1
<1>7. CASE Main
  <2>1. UNCHANGED <<shutdown, worker, dropped, elkVars>>
    BY <1>7 DEF Main, JoinReceiver, JoinWorkers, JoinElk, JoinWazuh, JoinUpdater, JoinMerger,
           Joined, crew, past, sinks
  <2>2. /\ ~ElkConnected => ~ElkConnected'
        /\ ElkConnected /\ ~ElkConnected' => \A w \in Workers : worker[w] = "done"
    BY <1>7 DEF Main, JoinReceiver, JoinWorkers, JoinElk, JoinWazuh, JoinUpdater, JoinMerger, Joined, ElkConnected
  <2>3. StillAtWork' = StillAtWork /\ elkPhase' = elkPhase /\ elkStranded' = elkStranded
    BY <2>1 DEF StillAtWork, elkVars
  <2>4. OneLostPerWorker'
    BY <1>1, <2>1, <2>3, NoFurtherLoss DEF Ordered
  <2> QED BY <1>1, <2>1, <2>2, <2>3, <2>4 DEF Ordered, LeavesForAReason, CrewLeftFirst, NoneGoneBefore,
             StrandedAtTheEnd
<1> QED BY <1>3, <1>4, <1>5, <1>6, <1>7 DEF Next

-----------------------------------------------------------------------------
(* The invariant and what follows from it.                                 *)

LEMMA Initially == Init => IInv
<1> SUFFICES ASSUME Init PROVE IInv
  OBVIOUS
<1>1. ElkOK /\ WazuhOK
  <2>1. <<>> \in Seq(Messages) /\ Len(<<>>) = 0
    BY EmptySeq
  <2> QED BY <2>1, Sizes DEF Init, Elk!SinkInit, Wazuh!SinkInit, ElkOK, WazuhOK
<1>2. ThreadsOK /\ CrewOK
  BY DEF Init, ThreadsOK, CrewOK, Stages
<1>3. IntakeOK
  <2>1. <<>> \in Seq(Messages) /\ Len(<<>>) = 0
    BY EmptySeq
  <2>2. 0 \in 0..MaxMessages /\ 0 <= RawCap
    BY Sizes
  <2>3. dropped \in [Causes -> SUBSET Messages]
    BY DEF Init
  <2> QED BY <2>1, <2>2, <2>3 DEF Init, IntakeOK
<1>4. /\ InHand = {} /\ BeingEnqueued = {} /\ DroppedAnyhow = {}
      /\ \A w \in Workers : item[w] = NoItem /\ worker[w] = "loop"
  BY DEF Init, InHand, BeingEnqueued, DroppedAnyhow
<1>5. OnElkSide = {} /\ OnWazuhSide = {} /\ Range(rawQueue) = {}
  BY EmptyRange DEF Init, Elk!SinkInit, Wazuh!SinkInit, OnElkSide, OnWazuhSide
<1>6. EachMessageOnce
  <2>1. 1..arrived = {}
    BY DEF Init
  <2> QED BY <1>4, <1>5, <2>1 DEF EachMessageOnce
<1>7. HandsFull /\ WazuhOnlyEnriched
  BY <1>4, <1>5 DEF Init, HandsFull, WazuhOnlyEnriched, Working
<1>8. QueuedOnce
  <2>1. DOMAIN rawQueue = {}
    BY DEF Init
  <2> QED BY <2>1 DEF QueuedOnce, IsInjective
<1>9. ParsedFirst /\ Ordered
  BY DEF Init, Elk!SinkInit, ParsedFirst, Ordered, LeavesForAReason, CrewLeftFirst, NoneGoneBefore,
         OneLostPerWorker, StrandedAtTheEnd, Causes, ElkConnected
<1> QED BY <1>1, <1>2, <1>3, <1>6, <1>7, <1>8, <1>9 DEF IInv, TypeOK, Ordered

LEMMA Step == IInv /\ [Next]_vars => IInv'
<1> SUFFICES ASSUME IInv, [Next]_vars PROVE IInv'
  OBVIOUS
<1>1. TypeOK /\ Places /\ StrandedAtTheEnd /\ Ordered
  BY DEF IInv, Places, Ordered
<1>2. CASE Next
  <2>1. Places'
    BY <1>1, <1>2, ReceiverPlaces, WorkerPlaces, OtherPlaces DEF Next
  <2> QED BY <1>2, <2>1, TypesStep, OrderStep DEF IInv, Places, Ordered
<1>3. CASE UNCHANGED vars
  <2>1. UNCHANGED <<shutdown, main, receiver, arrived, rawQueue, highLoad, worker, item, skip, updater,
                    merger, dropped, enriched, elkVars, wazuhVars, wazuhSocket>>
    BY <1>3 DEF vars, intake, crew, helpers, past, sinks
  <2>2. Places'
    BY <1>1, <2>1, NoMove DEF BeingEnqueued
  <2>3. TypeOK'
    BY <1>1, <2>1 DEF TypeOK, ThreadsOK, CrewOK, IntakeOK, ElkOK, WazuhOK, elkVars, wazuhVars
  <2>4. Ordered'
    BY <1>1, <2>1 DEF Ordered, LeavesForAReason, CrewLeftFirst, NoneGoneBefore, OneLostPerWorker,
           StillAtWork, StrandedAtTheEnd, ElkConnected, elkVars
  <2> QED BY <2>2, <2>3, <2>4 DEF IInv, Places, Ordered
<1> QED BY <1>2, <1>3

LEMMA Invariance == Spec => []IInv
<1> QED BY Initially, Step, PTL DEF Spec

(***************************************************************************)
(* Every datagram is in one place on its way to the ELK sender.            *)
(***************************************************************************)
THEOREM OnePlaceEach == Spec => []EachMessageOnce
<1>1. IInv => EachMessageOnce
  BY DEF IInv
<1> QED BY <1>1, Invariance, PTL

(***************************************************************************)
(* Wazuh gets what was enriched and nothing else.                          *)
(***************************************************************************)
THEOREM AlertsAreEnriched == Spec => []WazuhOnlyEnriched
<1>1. IInv => WazuhOnlyEnriched
  BY DEF IInv
<1> QED BY <1>1, Invariance, PTL

(***************************************************************************)
(* Whenever a signal comes and however many workers there are, a worker    *)
(* loses at most one message to an ELK sender that has gone.               *)
(***************************************************************************)
THEOREM OneLossEach == Spec => []OneLostPerWorker
<1>1. IInv => OneLostPerWorker
  BY DEF IInv
<1> QED BY <1>1, Invariance, PTL

(***************************************************************************)
(* The program treats its ELK sender as BestEffortSink supposes: workers   *)
(* fill its queue only while it is connected, a channel once closed stays  *)
(* closed, and a shutdown is not taken back.                               *)
(***************************************************************************)
THEOREM ElkUsedAsPromised == Spec => Elk!Safety
<1>1. Init => Elk!Init
  BY DEF Init, Elk!Init, ElkConnected
<1>2. IInv /\ [Next]_vars => [Elk!Next]_<<Elk!inputs, Elk!sinkVars>>
  <2> SUFFICES ASSUME IInv, [Next]_vars PROVE [Elk!Next]_<<Elk!inputs, Elk!sinkVars>>
    OBVIOUS
  <2>1. CASE UNCHANGED vars
    BY <2>1 DEF vars, sinks, elkVars, ElkConnected, Elk!inputs, Elk!sinkVars
  <2>2. ASSUME UNCHANGED elkVars, ElkConnected' => ElkConnected, shutdown => shutdown'
        PROVE  Elk!Outside
    BY <2>2 DEF elkVars, Elk!Outside, Elk!sinkVars
  <2>3. CASE Receiver
    <3>1. UNCHANGED <<elkVars, main, shutdown>>
      BY <2>3 DEF Receiver, Bind, ReceiverLoop, Receive, EnqueueLog, ReceiveNothing, sinks
    <3> QED BY <2>2, <3>1 DEF ElkConnected, Elk!Next
  <2>4. ASSUME NEW w \in Workers, WorkerStep(w) PROVE Elk!Next
    <3>1. UNCHANGED <<main, shutdown>> /\ worker[w] # "done"
      BY <2>4 DEF WorkerStep, WorkerLoop, TakeLog, TakeNothing, ReadLoad, RejectLog, EnrichLog, SendElk, WorkerExit
    <3>2. CASE UNCHANGED elkVars
      BY <2>2, <3>1, <3>2 DEF ElkConnected, Elk!Next
    <3>3. CASE SendElk(w) /\ Elk!Accept(item[w])
      <4>1. item[w] \in Messages
        BY <3>3 DEF SendElk, IInv, TypeOK, CrewOK, HandsFull, Working
      <4>2. ElkConnected
        BY <3>1 DEF IInv, CrewLeftFirst, ElkConnected
      <4>3. UNCHANGED Elk!inputs
        BY <3>1 DEF Elk!inputs, ElkConnected
      <4> QED BY <3>3, <4>1, <4>2, <4>3 DEF Elk!Worker, Elk!Next
    <3> QED BY <2>4, <3>2, <3>3 DEF WorkerStep, WorkerLoop, TakeLog, TakeNothing, ReadLoad, RejectLog, EnrichLog,
               SendElk, WorkerExit, sinks
  <2>5. CASE ElkTakes \/ ElkSettles \/ ElkLeaves \/ ElkStops
    <3>1. UNCHANGED Elk!inputs
      BY <2>5 DEF ElkTakes, ElkSettles, ElkLeaves, ElkStops, beforeSinks, Elk!inputs, ElkConnected
    <3>2. Elk!Sink
      BY <2>5 DEF ElkTakes, ElkSettles, ElkLeaves, ElkStops, Elk!Sink
    <3> QED BY <3>1, <3>2 DEF Elk!Next
  <2>6. CASE WazuhOpens \/ WazuhGivesUp \/ WazuhTakes \/ WazuhSettles \/ WazuhLeaves \/ WazuhStops
    <3>1. UNCHANGED <<elkVars, main, shutdown>>
      BY <2>6 DEF WazuhOpens, WazuhGivesUp, WazuhTakes, WazuhSettles, WazuhLeaves, WazuhStops, WazuhActs, beforeSinks
    <3> QED BY <2>2, <3>1 DEF ElkConnected, Elk!Next
  <2>7. CASE UpdaterEnds \/ MergerEnds \/ Signal
    <3>1. UNCHANGED <<elkVars, main>> /\ (shutdown => shutdown')
      BY <2>7 DEF UpdaterEnds, MergerEnds, Signal, sinks
    <3> QED BY <2>2, <3>1 DEF ElkConnected, Elk!Next
  <2>8. CASE Main
    <3>1. UNCHANGED <<elkVars, shutdown>> /\ (ElkConnected' => ElkConnected)
      BY <2>8 DEF Main, JoinReceiver, JoinWorkers, JoinElk, JoinWazuh, JoinUpdater, JoinMerger, Joined,
             sinks, ElkConnected
    <3> QED BY <2>2, <3>1 DEF Elk!Next
  <2> QED BY <2>1, <2>3, <2>4, <2>5, <2>6, <2>7, <2>8 DEF Next, Senders
<1> QED BY <1>1, <1>2, Invariance, PTL DEF Spec, Elk!Safety
=============================================================================
