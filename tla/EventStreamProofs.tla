------------------------- MODULE EventStreamProofs -------------------------
(* Proofs that the evidence stream resumes where the browser stands and     *)
(* that the page's ledger has no gap, for any number of events, any batch   *)
(* size and any number of failures.                                         *)
EXTENDS EventStream, FiniteSetTheorems, SequenceTheorems, TLAPS

-----------------------------------------------------------------------------
(* The inductive invariant.                                                 *)

(* What a batch holds from the cursor on is stored, and a batch that is not *)
(* full reaches what was stored when the stream was opened.                 *)
BatchTrue ==
    /\ batch.after = cursor /\ cursor <= batch.last /\ batch.last <= stored
    /\ batch.last - batch.after <= BatchSize
    /\ batch.last - batch.after # BatchSize => opened <= batch.last

\* The handler's replay, and whether it has said run.complete.
ReplayTrue ==
    /\ opened <= stored
    /\ handler = "opening" => wire = <<>> /\ completeSent = FALSE
    /\ handler = "writing" => BatchTrue
    /\ handler = "complete" => completeSent = FALSE
    /\ handler \in {"complete", "idle"} => opened <= cursor
    /\ handler # "none" /\ completeSent => opened <= cursor
    /\ handler # "none" /\ ~completeSent => \A i \in DOMAIN wire : wire[i].kind # "complete"

\* The page shows what it has acknowledged, and no frame runs ahead of the table.
PageTrue ==
    /\ 1..lastId \subseteq shown
    /\ handler # "none" \/ wire # <<>> => cursor <= stored

IInv ==
    /\ TypeOK /\ ReplayTrue /\ PageTrue
    /\ ResumesExactly /\ LedgerPrefix /\ CompleteAfterReplay

-----------------------------------------------------------------------------
(* The wire, as a sequence of frames.                                       *)

Events(s) == {i \in 1..Len(s) : s[i].kind = "event"}

\* The event frames of s are those after a up to b, in order.
Carries(s, a, b) ==
    /\ a <= b
    /\ {s[i].seq : i \in Events(s)} = (a + 1)..b
    /\ \A i, j \in Events(s) : i < j => s[i].seq < s[j].seq

\* Where s says run.complete, once, it has carried all after a up to o.
Completes(s, a, o) ==
    \A i \in 1..Len(s) : s[i].kind = "complete" =>
        /\ \A n \in (a + 1)..o : \E k \in Events(s) : k < i /\ s[k].seq = n
        /\ \A j \in 1..Len(s) : s[j].kind = "complete" => i = j

(* The properties of the wire are those of the sequence.                    *)
LEMMA OnTheWire ==
  ASSUME wire \in Seq(Frames)
  PROVE  /\ DOMAIN wire = 1..Len(wire) /\ Len(wire) \in Nat
         /\ ResumesExactly <=> (handler # "none" \/ wire # <<>> => Carries(wire, lastId, cursor))
         /\ CompleteAfterReplay <=> Completes(wire, lastId, opened)
<1>1. DOMAIN wire = 1..Len(wire) /\ Len(wire) \in Nat
  BY LenProperties
<1>2. EventFrames = Events(wire)
  BY <1>1 DEF EventFrames, Events
<1> QED
  BY <1>1, <1>2 DEF ResumesExactly, CompleteAfterReplay, Carries, Completes

(* And so they are in the next state.                                       *)
LEMMA OnTheWireNext ==
  ASSUME wire' \in Seq(Frames)
  PROVE  /\ DOMAIN wire' = 1..Len(wire') /\ Len(wire') \in Nat
         /\ ResumesExactly' <=> (handler' # "none" \/ wire' # <<>> => Carries(wire', lastId', cursor'))
         /\ CompleteAfterReplay' <=> Completes(wire', lastId', opened')
<1>1. DOMAIN wire' = 1..Len(wire') /\ Len(wire') \in Nat
  BY LenProperties
<1>2. EventFrames' = Events(wire')
  BY <1>1 DEF EventFrames, Events
<1> QED
  BY <1>1, <1>2 DEF ResumesExactly, CompleteAfterReplay, Carries, Completes

(* A wire without event frames, up to a cursor that has not moved.          *)
LEMMA CarriesNothing ==
  ASSUME NEW s, Events(s) = {}, NEW a \in Nat
  PROVE  Carries(s, a, a)
<1>1. {s[i].seq : i \in Events(s)} = {} /\ (a + 1)..a = {}
  OBVIOUS
<1> QED
  BY <1>1 DEF Carries

(* A frame that is no event follows.                                        *)
LEMMA CarriesAppend ==
  ASSUME NEW s \in Seq(Frames), NEW f \in Frames, f.kind # "event", NEW a, NEW b, Carries(s, a, b)
  PROVE  Carries(Append(s, f), a, b)
<1> DEFINE t == Append(s, f)
<1>1. /\ Len(s) \in Nat /\ Len(t) = Len(s) + 1 /\ t[Len(s) + 1] = f
      /\ \A i \in 1..Len(s) : t[i] = s[i]
  BY AppendProperties, LenProperties
<1> HIDE DEF t
<1>2. Events(t) = Events(s)
  BY <1>1 DEF Events
<1>3. \A i \in Events(s) : t[i] = s[i]
  BY <1>1 DEF Events
<1>4. {t[i].seq : i \in Events(t)} = {s[i].seq : i \in Events(s)}
  BY <1>2, <1>3
<1>5. Carries(t, a, b)
  BY <1>2, <1>3, <1>4 DEF Carries
<1> QED
  BY <1>5 DEF t

(* A batch is a sequence of event frames.                                   *)
LEMMA BatchFrames ==
  ASSUME NEW b \in 0..MaxEvents, NEW c \in 0..MaxEvents, b <= c
  PROVE  /\ Upto(b, c) \in Seq(Frames) /\ Len(Upto(b, c)) = c - b
         /\ \A i \in 1..(c - b) : Upto(b, c)[i] = Event(b + i) /\ Event(b + i) \in Frames
<1> USE StreamConstants
<1>1. c - b \in Nat /\ \A i \in 1..(c - b) : b + i \in 0..MaxEvents
  OBVIOUS
<1>2. \A i \in 1..(c - b) : Event(b + i) \in Frames
  BY <1>1 DEF Event, Frames
<1>3. Upto(b, c) \in [1..(c - b) -> Frames]
  BY <1>2 DEF Upto
<1>4. Upto(b, c) \in Seq(Frames) /\ Len(Upto(b, c)) = c - b
  <2>1. Upto(b, c) \in Seq(Frames)
    BY <1>1, <1>3, SeqDef
  <2>2. DOMAIN Upto(b, c) = 1..(c - b)
    BY DEF Upto
  <2> QED
    BY <1>1, <2>1, <2>2, LenProperties
<1> QED
  BY <1>2, <1>4 DEF Upto

(* A batch follows from the cursor on.                                      *)
LEMMA CarriesBatch ==
  ASSUME NEW s \in Seq(Frames), NEW a \in Nat, NEW b \in 0..MaxEvents, NEW c \in 0..MaxEvents, b <= c,
         Carries(s, a, b)
  PROVE  Carries(s \o Upto(b, c), a, c)
<1> USE StreamConstants
<1> DEFINE t == s \o Upto(b, c)
           m == Len(s)
<1>1. Upto(b, c) \in Seq(Frames) /\ Len(Upto(b, c)) = c - b
      /\ \A i \in 1..(c - b) : Upto(b, c)[i] = Event(b + i)
  BY BatchFrames
<1>2. m \in Nat /\ Len(t) = m + (c - b) /\ \A i \in 1..Len(t) : t[i] = IF i <= m THEN s[i] ELSE Upto(b, c)[i - m]
  BY <1>1, ConcatProperties, LenProperties
<1>3. \A i \in 1..m : t[i] = s[i]
  BY <1>2
<1>4. \A i \in (m + 1)..(m + (c - b)) : t[i].kind = "event" /\ t[i].seq = b + (i - m)
  <2> TAKE i \in (m + 1)..(m + (c - b))
  <2>1. i - m \in 1..(c - b) /\ i \in 1..Len(t) /\ ~(i <= m)
    BY <1>2
  <2>2. t[i] = Event(b + (i - m))
    BY <1>1, <1>2, <2>1
  <2> QED
    BY <2>2 DEF Event
<1> HIDE DEF t, m
<1>5. Events(t) = Events(s) \cup (m + 1)..(m + (c - b)) /\ Events(s) \subseteq 1..m
  BY <1>2, <1>3, <1>4 DEF Events, m
<1>6. {t[i].seq : i \in Events(t)} = (a + 1)..c
  <2>1. \A i \in Events(t) : t[i].seq \in (a + 1)..c
    <3>1. \A i \in Events(s) : t[i].seq \in (a + 1)..b
      BY <1>3, <1>5 DEF Carries
    <3>2. \A i \in (m + 1)..(m + (c - b)) : t[i].seq \in (a + 1)..c
      BY <1>2, <1>4 DEF Carries
    <3> QED
      BY <1>5, <3>1, <3>2
  <2>2. ASSUME NEW n \in (a + 1)..c PROVE \E i \in Events(t) : t[i].seq = n
    <3>1. CASE n <= b
      <4>1. n \in {s[i].seq : i \in Events(s)}
        BY <3>1 DEF Carries
      <4>2. PICK i \in Events(s) : s[i].seq = n
        BY <4>1
      <4> QED
        BY <1>3, <1>5, <4>2
    <3>2. CASE n > b
      <4>1. m + (n - b) \in (m + 1)..(m + (c - b)) /\ b + ((m + (n - b)) - m) = n
        BY <1>2, <3>2
      <4> QED
        BY <1>4, <1>5, <4>1
    <3> QED
      BY <3>1, <3>2
  <2> QED
    BY <2>1, <2>2
<1>7. ASSUME NEW i \in Events(t), NEW j \in Events(t), i < j PROVE t[i].seq < t[j].seq
  <2>1. CASE j \in Events(s)
    <3>1. i \in Events(s)
      BY <1>2, <1>5, <1>7, <2>1
    <3> QED
      BY <1>3, <1>5, <1>7, <2>1, <3>1 DEF Carries
  <2>2. CASE j \in (m + 1)..(m + (c - b)) /\ i \in Events(s)
    <3>1. s[i].seq \in (a + 1)..b /\ t[i] = s[i]
      BY <1>3, <1>5, <2>2 DEF Carries
    <3> QED
      BY <1>2, <1>4, <2>2, <3>1
  <2>3. CASE j \in (m + 1)..(m + (c - b)) /\ i \in (m + 1)..(m + (c - b))
    BY <1>2, <1>4, <1>7, <2>3
  <2> QED
    BY <1>5, <2>1, <2>2, <2>3
<1>8. Carries(t, a, c)
  BY <1>6, <1>7 DEF Carries
<1> QED
  BY <1>8 DEF t

(* The frames after the first one move up by one place.                     *)
LEMMA TailFrames ==
  ASSUME NEW s \in Seq(Frames), s # <<>>
  PROVE  /\ Tail(s) \in Seq(Frames) /\ Head(s) \in Frames /\ Len(Tail(s)) \in Nat
         /\ Len(s) = Len(Tail(s)) + 1 /\ s[1] = Head(s)
         /\ \A i \in 1..Len(Tail(s)) : Tail(s)[i] = s[i + 1]
         /\ \A i \in Events(Tail(s)) :
              i + 1 \in Events(s) /\ Tail(s)[i] = s[i + 1] /\ i \in Nat /\ i > 0
         /\ \A i \in Events(s) :
              i = 1 \/ (i - 1 \in Events(Tail(s)) /\ s[i] = Tail(s)[i - 1] /\ i \in Nat /\ i > 1)
<1> DEFINE t == Tail(s)
           m == Len(t)
<1>1. /\ t \in Seq(Frames) /\ Head(s) \in Frames
      /\ m \in Nat /\ Len(s) = m + 1 /\ s[1] = Head(s) /\ \A i \in 1..m : t[i] = s[i + 1]
  <2>1. t \in Seq(Frames) /\ Len(t) = Len(s) - 1 /\ (\A i \in 1..Len(t) : t[i] = s[i + 1])
        /\ Len(t) \in Nat /\ Len(s) \in Nat /\ Head(s) \in Frames
    BY HeadTailProperties, LenProperties
  <2>2. s[1] = Head(s)
    OBVIOUS
  <2> QED
    BY <2>1, <2>2
<1> HIDE DEF t, m
<1>2. \A i \in 1..m : i \in Events(t) <=> i + 1 \in Events(s)
  BY <1>1 DEF Events, m
<1>3. Events(t) \subseteq 1..m
  BY DEF Events, m
<1>4. ASSUME NEW i \in Events(s), i # 1 PROVE i - 1 \in Events(t) /\ s[i] = t[i - 1] /\ i \in Nat /\ i > 1
  <2>1. i \in 1..(m + 1) /\ i - 1 \in 1..m /\ (i - 1) + 1 = i
    BY <1>1, <1>4 DEF Events
  <2> QED
    BY <1>1, <1>2, <1>4, <2>1
<1>5. \A i \in Events(t) : i + 1 \in Events(s) /\ t[i] = s[i + 1] /\ i \in Nat /\ i > 0
  BY <1>1, <1>2, <1>3
<1> QED
  BY <1>1, <1>4, <1>5 DEF t, m

(* The browser receives the first frame: an event is the one after a.       *)
LEMMA CarriesTail ==
  ASSUME NEW s \in Seq(Frames), s # <<>>, NEW a \in Nat, NEW b \in Nat, Carries(s, a, b)
  PROVE  /\ Head(s).kind = "event" => Head(s).seq = a + 1 /\ a < b /\ Carries(Tail(s), a + 1, b)
         /\ Head(s).kind # "event" => Carries(Tail(s), a, b)
<1> DEFINE t == Tail(s)
<1>1. s[1] = Head(s) /\ Len(s) \in Nat /\ Len(s) >= 1
  BY TailFrames
<1>3. \A i \in Events(s) : i = 1 \/ (i - 1 \in Events(t) /\ s[i] = t[i - 1] /\ i > 1)
  BY TailFrames
<1>4. \A i \in Events(t) : i + 1 \in Events(s) /\ t[i] = s[i + 1] /\ i \in Nat /\ i > 0
  BY TailFrames
<1> HIDE DEF t
<1>5. \A i, j \in Events(t) : i < j => t[i].seq < t[j].seq
  BY <1>4 DEF Carries
<1>6. CASE Head(s).kind = "event"
  <2>1. 1 \in Events(s)
    BY <1>1, <1>6 DEF Events
  <2>2. s[1].seq \in (a + 1)..b
    BY <2>1 DEF Carries
  <2>3. s[1].seq = a + 1
    <3>1. a + 1 \in {s[i].seq : i \in Events(s)}
      BY <2>2 DEF Carries
    <3>2. PICK j \in Events(s) : s[j].seq = a + 1
      BY <3>1
    <3>3. j = 1 \/ 1 < j
      BY <1>3, <3>2
    <3> QED
      BY <2>1, <2>2, <3>2, <3>3 DEF Carries
  <2>4. {t[i].seq : i \in Events(t)} = (a + 2)..b
    <3>1. ASSUME NEW i \in Events(t) PROVE t[i].seq \in (a + 2)..b
      <4>1. i + 1 \in Events(s) /\ 1 < i + 1 /\ t[i] = s[i + 1]
        BY <1>4
      <4>2. s[i + 1].seq \in (a + 1)..b /\ s[1].seq < s[i + 1].seq
        BY <2>1, <4>1 DEF Carries
      <4> QED
        BY <2>3, <4>1, <4>2
    <3>2. ASSUME NEW n \in (a + 2)..b PROVE \E i \in Events(t) : t[i].seq = n
      <4>0. n \in (a + 1)..b /\ n # a + 1
        OBVIOUS
      <4>1. n \in {s[i].seq : i \in Events(s)} /\ n # a + 1
        BY <4>0 DEF Carries
      <4>2. PICK i \in Events(s) : s[i].seq = n
        BY <4>1
      <4> QED
        BY <1>3, <2>3, <4>1, <4>2
    <3> QED
      BY <3>1, <3>2
  <2>5. Carries(t, a + 1, b)
    <3>1. (a + 1) + 1 = a + 2 /\ a + 1 <= b
      BY <2>2
    <3> QED
      BY <1>5, <2>4, <3>1 DEF Carries
  <2> QED
    BY <1>1, <1>6, <2>2, <2>3, <2>5 DEF t
<1>7. CASE Head(s).kind # "event"
  <2>1. 1 \notin Events(s)
    BY <1>1, <1>7 DEF Events
  <2>2. {t[i].seq : i \in Events(t)} = {s[i].seq : i \in Events(s)}
    BY <1>3, <1>4, <2>1
  <2>3. Carries(t, a, b)
    BY <1>5, <2>2 DEF Carries
  <2> QED
    BY <1>7, <2>3 DEF t
<1> QED
  BY <1>6, <1>7

\* No run.complete yet.
Silent(s) == \A i \in 1..Len(s) : s[i].kind # "complete"

(* More frames follow, none of them run.complete.                           *)
LEMMA CompletesLonger ==
  ASSUME NEW s \in Seq(Frames), NEW t \in Seq(Frames), Len(s) <= Len(t),
         \A i \in 1..Len(s) : t[i] = s[i],
         \A i \in (Len(s) + 1)..Len(t) : t[i].kind # "complete",
         NEW a, NEW o
  PROVE  (Completes(s, a, o) => Completes(t, a, o)) /\ (Silent(s) => Silent(t))
<1>1. Len(s) \in Nat /\ Len(t) \in Nat
  BY LenProperties
<1>2. \A i \in 1..Len(t) : i \in 1..Len(s) \/ i \in (Len(s) + 1)..Len(t)
  BY <1>1
<1>3. Silent(s) => Silent(t)
  BY <1>2 DEF Silent
<1>4. \A k \in Events(s) : k \in Events(t) /\ t[k] = s[k]
  BY <1>1 DEF Events
<1>5. ASSUME Completes(s, a, o), NEW i \in 1..Len(t), t[i].kind = "complete"
      PROVE  /\ \A n \in (a + 1)..o : \E k \in Events(t) : k < i /\ t[k].seq = n
             /\ \A j \in 1..Len(t) : t[j].kind = "complete" => i = j
  <2>1. i \in 1..Len(s) /\ s[i].kind = "complete"
    BY <1>2, <1>5
  <2>2. /\ \A n \in (a + 1)..o : \E k \in Events(s) : k < i /\ s[k].seq = n
        /\ \A j \in 1..Len(s) : s[j].kind = "complete" => i = j
    BY <1>5, <2>1 DEF Completes
  <2>3. \A n \in (a + 1)..o : \E k \in Events(t) : k < i /\ t[k].seq = n
    BY <1>4, <2>2
  <2>4. \A j \in 1..Len(t) : t[j].kind = "complete" => i = j
    BY <1>2, <2>2
  <2> QED
    BY <2>3, <2>4
<1> QED
  BY <1>3, <1>5 DEF Completes

(* run.complete is said first, when the cursor has passed o.                *)
LEMMA CompletesSaid ==
  ASSUME NEW s \in Seq(Frames), Silent(s), NEW f \in Frames, NEW a \in Nat, NEW b \in Nat,
         Carries(s, a, b), NEW o \in Nat, o <= b
  PROVE  Completes(Append(s, f), a, o)
<1> DEFINE t == Append(s, f)
           m == Len(s)
<1>1. /\ m \in Nat /\ Len(t) = m + 1 /\ \A i \in 1..m : t[i] = s[i]
  BY AppendProperties, LenProperties
<1> HIDE DEF t, m
<1>2. \A i \in 1..(m + 1) : t[i].kind = "complete" => i = m + 1
  <2>1. \A i \in 1..m : t[i].kind # "complete"
    BY <1>1 DEF Silent, m
  <2> QED
    BY <1>1, <2>1
<1>3. \A n \in (a + 1)..o : \E k \in Events(t) : k < m + 1 /\ t[k].seq = n
  <2> TAKE n \in (a + 1)..o
  <2>1. n \in (a + 1)..b
    OBVIOUS
  <2>2. PICK k \in Events(s) : s[k].seq = n
    BY <2>1 DEF Carries
  <2>3. k \in 1..m /\ t[k] = s[k] /\ s[k].kind = "event"
    BY <1>1 DEF Events, m
  <2>4. k \in Events(t) /\ k < m + 1
    BY <1>1, <2>3 DEF Events
  <2> QED
    BY <2>2, <2>3, <2>4
<1>4. Completes(t, a, o)
  BY <1>1, <1>2, <1>3 DEF Completes
<1> QED
  BY <1>4 DEF t

(* The browser receives the first frame: the rest still completes.          *)
LEMMA CompletesTail ==
  ASSUME NEW s \in Seq(Frames), s # <<>>, NEW a \in Nat, NEW o \in Nat, Completes(s, a, o)
  PROVE  /\ Head(s).kind = "event" /\ Head(s).seq = a + 1 => Completes(Tail(s), a + 1, o)
         /\ Head(s).kind # "event" => Completes(Tail(s), a, o)
         /\ Silent(s) => Silent(Tail(s))
<1> DEFINE t == Tail(s)
           m == Len(t)
<1>1. m \in Nat /\ Len(s) = m + 1 /\ s[1] = Head(s) /\ \A i \in 1..m : t[i] = s[i + 1]
  BY TailFrames
<1>2. \A i \in Events(s) : i = 1 \/ (i - 1 \in Events(t) /\ s[i] = t[i - 1] /\ i \in Nat /\ i > 1)
  BY TailFrames
<1>3. Len(t) = m
  OBVIOUS
<1> HIDE DEF t, m
<1>4. \A i \in 1..m : i + 1 \in 1..Len(s) /\ t[i] = s[i + 1]
  BY <1>1
<1>5. ASSUME NEW c \in Nat, \A n \in (c + 1)..o : n \in (a + 1)..o /\ (1 \in Events(s) => s[1].seq # n)
      PROVE  Completes(t, c, o)
  <2> SUFFICES ASSUME NEW i \in 1..m, t[i].kind = "complete"
               PROVE  /\ \A n \in (c + 1)..o : \E k \in Events(t) : k < i /\ t[k].seq = n
                      /\ \A j \in 1..m : t[j].kind = "complete" => i = j
    BY <1>3 DEF Completes
  <2>1. i + 1 \in 1..Len(s) /\ s[i + 1].kind = "complete"
    BY <1>4
  <2>2. /\ \A n \in (a + 1)..o : \E k \in Events(s) : k < i + 1 /\ s[k].seq = n
        /\ \A j \in 1..Len(s) : s[j].kind = "complete" => i + 1 = j
    BY <2>1 DEF Completes
  <2>3. ASSUME NEW n \in (c + 1)..o PROVE \E k \in Events(t) : k < i /\ t[k].seq = n
    <3>1. PICK k \in Events(s) : k < i + 1 /\ s[k].seq = n
      BY <1>5, <2>2
    <3>2. k # 1
      BY <1>5, <3>1
    <3>3. k - 1 \in Events(t) /\ s[k] = t[k - 1] /\ k \in Nat
      BY <1>2, <3>2
    <3>4. k - 1 < i
      BY <3>1, <3>3
    <3> QED
      BY <3>1, <3>3, <3>4
  <2>4. ASSUME NEW j \in 1..m, t[j].kind = "complete" PROVE i = j
    <3>1. i + 1 = j + 1
      BY <1>4, <2>2, <2>4
    <3> QED
      BY <3>1
  <2> QED
    BY <2>3, <2>4
<1>6. Head(s).kind = "event" /\ Head(s).seq = a + 1 => Completes(t, a + 1, o)
  <2>1. a + 1 \in Nat /\ \A n \in ((a + 1) + 1)..o : n \in (a + 1)..o /\ n # a + 1
    OBVIOUS
  <2> QED
    BY <1>1, <1>5, <2>1
<1>7. Head(s).kind # "event" => Completes(t, a, o)
  <2>1. Head(s).kind # "event" => 1 \notin Events(s)
    BY <1>1 DEF Events
  <2> QED
    BY <1>5, <2>1
<1>8. Silent(s) => Silent(t)
  BY <1>3, <1>4 DEF Silent
<1> QED
  BY <1>6, <1>7, <1>8 DEF t

-----------------------------------------------------------------------------
(* The invariant is inductive.                                              *)

(* The invariant with the wire as a sequence.                               *)
WireTrue ==
    /\ handler # "none" \/ wire # <<>> => Carries(wire, lastId, cursor)
    /\ Completes(wire, lastId, opened)
    /\ handler # "none" /\ ~completeSent => Silent(wire)

\* ReplayTrue without the frames on the wire.
CursorTrue ==
    /\ opened <= stored
    /\ handler = "opening" => wire = <<>> /\ completeSent = FALSE
    /\ handler = "writing" => BatchTrue
    /\ handler = "complete" => completeSent = FALSE
    /\ handler \in {"complete", "idle"} => opened <= cursor
    /\ handler # "none" /\ completeSent => opened <= cursor

(* The invariant, in these parts.                                           *)
LEMMA Parts ==
  /\ IInv => TypeOK /\ WireTrue /\ CursorTrue /\ PageTrue /\ LedgerPrefix
  /\ TypeOK' /\ WireTrue' /\ CursorTrue' /\ PageTrue' /\ LedgerPrefix' => IInv'
<1>1. ASSUME IInv PROVE TypeOK /\ WireTrue /\ CursorTrue /\ PageTrue /\ LedgerPrefix
  <2>1. wire \in Seq(Frames)
    BY <1>1 DEF IInv, TypeOK
  <2> QED
    BY <1>1, <2>1, OnTheWire DEF IInv, ReplayTrue, WireTrue, CursorTrue, Silent
<1>2. ASSUME TypeOK', WireTrue', CursorTrue', PageTrue', LedgerPrefix' PROVE IInv'
  <2>1. wire' \in Seq(Frames)
    BY <1>2 DEF TypeOK
  <2> QED
    BY <1>2, <2>1, OnTheWireNext DEF IInv, ReplayTrue, WireTrue, CursorTrue, Silent
<1> QED
  BY <1>1, <1>2

(* Frames are frames.                                                       *)
LEMMA FrameTypes == \A k \in {"event", "open", "complete", "error"} : Frame(k) \in Frames /\ Frame(k).kind = k
  BY StreamConstants DEF Frame, Frames

(* An empty wire, and one with the open frame, carry nothing.               *)
LEMMA QuietWire ==
  ASSUME NEW s \in {<<>>, <<Frame("open")>>}
  PROVE  /\ s \in Seq(Frames) /\ Silent(s) /\ \A a \in Nat : Carries(s, a, a)
         /\ \A a, o : Completes(s, a, o)
<1>1. s \in Seq(Frames)
  <2>1. Frame("open") \in Frames
    BY FrameTypes
  <2>2. \A f \in Frames : <<f>> \in Seq(Frames)
    OBVIOUS
  <2> QED
    BY <2>1, <2>2, EmptySeq
<1>2. \A i \in 1..Len(s) : s[i].kind = "open"
  BY FrameTypes
<1>3. Events(s) = {} /\ Silent(s)
  BY <1>2 DEF Events, Silent
<1>4. \A a, o : Completes(s, a, o)
  BY <1>2 DEF Completes
<1> QED
  BY <1>1, <1>3, <1>4, CarriesNothing

(* A stream that nobody follows.                                            *)
LEMMA InitIInv == Init => IInv
<1> SUFFICES ASSUME Init PROVE IInv
  OBVIOUS
<1> USE StreamConstants DEF Init
<1>1. wire \in Seq(Frames) /\ Completes(wire, lastId, opened)
  BY QuietWire
<1>2. TypeOK
  <2>1. NoBatch \in [after : 0..MaxEvents, last : 0..MaxEvents, highWater : 0..MaxEvents]
    BY DEF NoBatch
  <2>2. stored \in 0..MaxEvents /\ 0 \in 0..MaxEvents /\ 0 \in 0..MaxFailures
    OBVIOUS
  <2> QED
    BY <1>1, <2>1, <2>2 DEF TypeOK
<1>3. ResumesExactly /\ CompleteAfterReplay
  BY <1>1, OnTheWire
<1>4. ReplayTrue /\ PageTrue
  BY DEF ReplayTrue, PageTrue
<1>5. LedgerPrefix
  BY FS_EmptySet DEF LedgerPrefix
<1> QED
  BY <1>2, <1>3, <1>4, <1>5 DEF IInv

(* One more event is stored.                                                *)
LEMMA AppendEventStep ==
  ASSUME IInv, AppendEvent
  PROVE  IInv'
<1> USE StreamConstants DEF AppendEvent, server, page
<1>1. TypeOK /\ WireTrue /\ CursorTrue /\ PageTrue /\ LedgerPrefix
  BY Parts
<1>2. TypeOK' /\ WireTrue' /\ PageTrue'
  BY <1>1 DEF TypeOK, WireTrue, PageTrue
<1>3. CursorTrue'
  BY <1>1 DEF TypeOK, CursorTrue, BatchTrue
<1>4. LedgerPrefix'
  <2>1. Cardinality(shown) \in Nat
    <3>1. shown \subseteq 1..MaxEvents /\ IsFiniteSet(1..MaxEvents)
      BY <1>1, FS_Interval DEF TypeOK
    <3> QED
      BY <3>1, FS_Subset, FS_CardinalityType
  <2> QED
    BY <1>1, <2>1 DEF LedgerPrefix, TypeOK
<1> QED
  BY <1>2, <1>3, <1>4, Parts

(* The page loads the ledger, or cannot.                                    *)
LEMMA LoadStep ==
  ASSUME IInv, Load \/ LoadFails
  PROVE  IInv'
<1> USE StreamConstants DEF Load, LoadFails, server, page
<1>1. TypeOK /\ WireTrue /\ CursorTrue /\ PageTrue /\ LedgerPrefix
  BY Parts
<1>2. TypeOK'
  <2>1. handler = "none" /\ 1..stored \subseteq 1..MaxEvents
    BY <1>1 DEF TypeOK
  <2> QED
    BY <1>1, <2>1 DEF TypeOK
<1>5. WireTrue' /\ CursorTrue'
  BY <1>1 DEF WireTrue, CursorTrue, BatchTrue
<1>3. PageTrue'
  BY <1>1 DEF PageTrue, LedgerPrefix, TypeOK
<1>4. LedgerPrefix'
  <2>1. Cardinality(1..stored) = stored
    <3>1. stored \in Nat
      BY <1>1 DEF TypeOK
    <3>2. Cardinality(1..stored) = IF 1 > stored THEN 0 ELSE stored - 1 + 1
      BY <3>1, FS_Interval
    <3> QED
      BY <3>1, <3>2
  <2> QED
    BY <1>1, <2>1 DEF LedgerPrefix, TypeOK
<1> QED
  BY <1>2, <1>3, <1>4, <1>5, Parts

(* The browser connects with its last event ID.                             *)
LEMMA ConnectStep ==
  ASSUME IInv, Connect
  PROVE  IInv'
<1> USE StreamConstants DEF Connect, page
<1>1. TypeOK /\ WireTrue /\ CursorTrue /\ PageTrue /\ LedgerPrefix
  BY Parts
<1>2. TypeOK' /\ CursorTrue' /\ PageTrue' /\ LedgerPrefix'
  BY <1>1 DEF TypeOK, CursorTrue, PageTrue, LedgerPrefix
<1>3. WireTrue'
  <2>1. wire' = <<>> /\ lastId \in Nat
    BY <1>1 DEF TypeOK
  <2> QED
    BY <2>1, QuietWire DEF WireTrue
<1> QED
  BY <1>2, <1>3, Parts

(* The handler reads a batch: the first one starts the response.            *)
LEMMA ReadStep ==
  ASSUME IInv, Read
  PROVE  IInv'
<1> USE StreamConstants DEF Read, page
<1>1. TypeOK /\ WireTrue /\ CursorTrue /\ PageTrue /\ LedgerPrefix
  BY Parts
<1>2. cursor <= stored /\ handler # "none"
  BY <1>1 DEF PageTrue
<1>3. /\ batch'.after = cursor /\ batch'.highWater = stored
      /\ batch'.last = (IF stored < cursor + BatchSize THEN stored ELSE cursor + BatchSize)
      /\ batch' \in [after : 0..MaxEvents, last : 0..MaxEvents, highWater : 0..MaxEvents]
  BY <1>1, <1>2 DEF TypeOK, Batch
<1>4. handler = "opening" => wire = <<>> /\ cursor = lastId /\ completeSent = FALSE
  <2> SUFFICES ASSUME handler = "opening" PROVE wire = <<>> /\ cursor = lastId /\ completeSent = FALSE
    OBVIOUS
  <2>1. wire = <<>> /\ completeSent = FALSE /\ Carries(wire, lastId, cursor)
    BY <1>1 DEF CursorTrue, WireTrue
  <2>2. {} = (lastId + 1)..cursor /\ lastId <= cursor
    BY <2>1 DEF Carries, Events
  <2> QED
    BY <1>1, <2>1, <2>2 DEF TypeOK
<1>5. TypeOK'
  BY <1>1, <1>3, QuietWire DEF TypeOK
<1>6. CursorTrue'
  BY <1>1, <1>2, <1>3, <1>4 DEF CursorTrue, BatchTrue, TypeOK
<1>7. PageTrue' /\ LedgerPrefix'
  BY <1>1, <1>2 DEF PageTrue, LedgerPrefix
<1>8. WireTrue'
  <2>1. CASE handler = "opening"
    <3>1. wire' = <<Frame("open")>> /\ lastId' \in Nat /\ cursor' = lastId'
      BY <1>1, <1>4, <2>1 DEF TypeOK
    <3> QED
      BY <3>1, QuietWire DEF WireTrue
  <2>2. CASE handler # "opening"
    BY <1>1, <2>2 DEF WireTrue
  <2> QED
    BY <2>1, <2>2
<1> QED
  BY <1>5, <1>6, <1>7, <1>8, Parts

(* The handler writes its batch: the cursor moves to the end of it.         *)
LEMMA WriteStep ==
  ASSUME IInv, WriteBatch
  PROVE  IInv'
<1> USE StreamConstants DEF WriteBatch, page
<1>1. TypeOK /\ WireTrue /\ CursorTrue /\ PageTrue /\ LedgerPrefix
  BY Parts
<1>2. /\ batch.after = cursor /\ cursor <= batch.last /\ batch.last <= stored
      /\ batch.last - batch.after # BatchSize => opened <= batch.last
      /\ cursor \in 0..MaxEvents /\ batch.last \in 0..MaxEvents /\ lastId \in Nat
      /\ wire \in Seq(Frames) /\ opened \in 0..MaxEvents
  BY <1>1 DEF TypeOK, CursorTrue, BatchTrue
<1> DEFINE new == Upto(cursor, batch.last)
<1>3. wire' = wire \o new /\ cursor' = batch.last
  BY <1>2
<1>4. /\ new \in Seq(Frames) /\ Len(new) = batch.last - cursor
      /\ \A i \in 1..(batch.last - cursor) : new[i].kind = "event"
  <2>1. /\ new \in Seq(Frames) /\ Len(new) = batch.last - cursor
        /\ \A i \in 1..(batch.last - cursor) : new[i] = Event(cursor + i)
    BY <1>2, BatchFrames
  <2>2. \A n : Event(n).kind = "event"
    BY DEF Event
  <2> HIDE DEF new
  <2> QED
    BY <2>1, <2>2
<1>5. /\ wire' \in Seq(Frames) /\ Len(wire') = Len(wire) + Len(new) /\ Len(wire) \in Nat
      /\ \A i \in 1..Len(wire) + Len(new) :
           wire'[i] = IF i <= Len(wire) THEN wire[i] ELSE new[i - Len(wire)]
  <2> HIDE DEF new, WriteBatch
  <2>1. /\ wire \o new \in Seq(Frames) /\ Len(wire \o new) = Len(wire) + Len(new)
        /\ \A i \in 1..Len(wire) + Len(new) :
             (wire \o new)[i] = IF i <= Len(wire) THEN wire[i] ELSE new[i - Len(wire)]
    BY <1>2, <1>4, ConcatProperties
  <2> QED
    BY <1>2, <1>3, <2>1, LenProperties
<1>6. Carries(wire', lastId, cursor')
  BY <1>1, <1>2, <1>3, CarriesBatch DEF WireTrue
<1> HIDE DEF new
<1>7. Completes(wire', lastId, opened) /\ (~completeSent => Silent(wire'))
  <2>1. Len(wire) <= Len(wire') /\ \A i \in 1..Len(wire) : wire'[i] = wire[i]
    BY <1>2, <1>4, <1>5
  <2>2. \A i \in (Len(wire) + 1)..Len(wire') : wire'[i].kind # "complete"
    <3> HIDE DEF WriteBatch
    <3> SUFFICES ASSUME NEW i \in (Len(wire) + 1)..Len(wire') PROVE wire'[i].kind # "complete"
      OBVIOUS
    <3>1. i - Len(wire) \in 1..(batch.last - cursor) /\ i \in 1..Len(wire) + Len(new) /\ ~(i <= Len(wire))
      BY <1>2, <1>4, <1>5
    <3>2. wire'[i] = new[i - Len(wire)]
      BY <1>5, <3>1
    <3> QED
      BY <1>4, <3>1, <3>2
  <2> QED
    BY <1>1, <1>2, <1>5, <2>1, <2>2, CompletesLonger DEF WireTrue
<1>8. WireTrue'
  BY <1>6, <1>7 DEF WireTrue
<1>9. TypeOK'
  BY <1>1, <1>2, <1>5 DEF TypeOK
<1>10. CursorTrue'
  <2>1. handler' \in {"reading", "complete", "idle"} /\ cursor' = batch.last
        /\ UNCHANGED <<stored, opened, completeSent>>
    OBVIOUS
  <2>2. handler' \in {"complete", "idle"} => opened <= batch.last
    BY <1>2
  <2>3. handler' = "complete" => completeSent = FALSE
    BY <1>1 DEF TypeOK
  <2>4. completeSent => opened <= batch.last
    BY <1>1, <1>2 DEF CursorTrue, TypeOK
  <2> QED
    BY <1>1, <2>1, <2>2, <2>3, <2>4 DEF CursorTrue
<1>11. PageTrue' /\ LedgerPrefix'
  BY <1>1, <1>2 DEF PageTrue, LedgerPrefix
<1> QED
  BY <1>8, <1>9, <1>10, <1>11, Parts

(* A frame that is no event follows, run.complete when it is due.           *)
LEMMA SignalStep ==
  ASSUME IInv, SendComplete \/ ReadFails
  PROVE  IInv'
<1> USE StreamConstants DEF SendComplete, ReadFails, Fails, page
<1>1. TypeOK /\ WireTrue /\ CursorTrue /\ PageTrue /\ LedgerPrefix
  BY Parts
<1>2. /\ wire \in Seq(Frames) /\ lastId \in Nat /\ cursor \in Nat /\ opened \in Nat
      /\ Frame("complete") \in Frames /\ Frame("error") \in Frames
      /\ Frame("complete").kind = "complete" /\ Frame("error").kind = "error"
  BY <1>1, FrameTypes DEF TypeOK
<1>3. Carries(wire, lastId, cursor) /\ Completes(wire, lastId, opened)
  BY <1>1 DEF WireTrue
<1>4. CASE SendComplete
  <2>1. Silent(wire) /\ opened <= cursor
    BY <1>1, <1>4 DEF WireTrue, CursorTrue
  <2>2. wire' = Append(wire, Frame("complete"))
    BY <1>4
  <2>3. wire' \in Seq(Frames) /\ Carries(wire', lastId, cursor) /\ Completes(wire', lastId, opened)
    BY <1>2, <1>3, <2>1, <2>2, CarriesAppend, CompletesSaid, AppendProperties
  <2>4. WireTrue'
    BY <1>4, <2>3 DEF WireTrue
  <2>5. TypeOK' /\ CursorTrue'
    BY <1>1, <1>4, <2>1, <2>3 DEF TypeOK, CursorTrue
  <2>6. PageTrue' /\ LedgerPrefix'
    BY <1>1, <1>4 DEF PageTrue, LedgerPrefix
  <2> QED
    BY <2>4, <2>5, <2>6, Parts
<1>5. CASE ReadFails
  <2>1. wire' = Append(wire, Frame("error")) /\ handler' = "none"
    BY <1>5
  <2>2. /\ wire' \in Seq(Frames) /\ Len(wire') = Len(wire) + 1 /\ Len(wire) \in Nat
        /\ (\A i \in 1..Len(wire) : wire'[i] = wire[i]) /\ wire'[Len(wire) + 1].kind = "error"
        /\ Carries(wire', lastId, cursor)
    BY <1>2, <1>3, <2>1, CarriesAppend, AppendProperties, LenProperties
  <2>3. Completes(wire', lastId, opened)
    <3>1. Len(wire) <= Len(wire') /\ \A i \in (Len(wire) + 1)..Len(wire') : wire'[i].kind # "complete"
      BY <2>2
    <3> QED
      BY <1>2, <1>3, <2>2, <3>1, CompletesLonger
  <2>4. WireTrue'
    BY <1>5, <2>2, <2>3 DEF WireTrue
  <2>5. TypeOK' /\ CursorTrue'
    BY <1>1, <1>5, <2>2 DEF TypeOK, CursorTrue
  <2>6. PageTrue' /\ LedgerPrefix'
    BY <1>1, <1>5 DEF PageTrue, LedgerPrefix
  <2> QED
    BY <2>4, <2>5, <2>6, Parts
<1> QED
  BY <1>4, <1>5

(* The stream ends, is refused or breaks.                                   *)
LEMMA LossStep ==
  ASSUME IInv, EndOfStream \/ OpenFails \/ Drop
  PROVE  IInv'
<1> USE StreamConstants DEF EndOfStream, OpenFails, Drop, Fails, Reconnecting, server
<1>1. TypeOK /\ WireTrue /\ CursorTrue /\ PageTrue /\ LedgerPrefix
  BY Parts
<1>2. handler' = "none" /\ wire' = <<>> /\ UNCHANGED <<stored, cursor, opened, completeSent, lastId, shown>>
  BY <1>1 DEF CursorTrue
<1>3. wire' \in Seq(Frames) /\ WireTrue'
  BY <1>2, QuietWire DEF WireTrue
<1>4. TypeOK' /\ CursorTrue'
  BY <1>1, <1>2, <1>3 DEF TypeOK, CursorTrue
<1>5. PageTrue' /\ LedgerPrefix'
  BY <1>1, <1>2 DEF PageTrue, LedgerPrefix
<1> QED
  BY <1>3, <1>4, <1>5, Parts

(* The page receives a frame: an event is the next one, or there already.   *)
LEMMA DeliverStep ==
  ASSUME IInv, Deliver
  PROVE  IInv'
<1> USE StreamConstants DEF Deliver, server
<1>1. TypeOK /\ WireTrue /\ CursorTrue /\ PageTrue /\ LedgerPrefix
  BY Parts
<1>2. /\ wire \in Seq(Frames) /\ wire # <<>> /\ lastId \in Nat /\ cursor \in Nat /\ opened \in Nat
      /\ stored \in Nat /\ stored <= MaxEvents
  BY <1>1 DEF TypeOK
<1>3. Carries(wire, lastId, cursor) /\ Completes(wire, lastId, opened) /\ cursor <= stored
  BY <1>1, <1>2 DEF WireTrue, PageTrue
<1>4. wire' = Tail(wire) /\ wire' \in Seq(Frames) /\ Head(wire) \in Frames
  BY <1>2, TailFrames
<1>5. Silent(wire) => Silent(wire')
  BY <1>2, <1>3, <1>4, CompletesTail
<1>6. CursorTrue'
  <2>1. handler # "opening"
    BY <1>1, <1>2 DEF CursorTrue
  <2> QED
    BY <1>1, <2>1 DEF CursorTrue, BatchTrue
<1>7. CASE Head(wire).kind # "event"
  <2>1. lastId' = lastId /\ shown' = shown
    BY <1>7 DEF page
  <2>2. Carries(wire', lastId, cursor) /\ Completes(wire', lastId, opened)
    BY <1>2, <1>3, <1>4, <1>7, CarriesTail, CompletesTail
  <2>3. WireTrue'
    BY <1>1, <1>5, <2>1, <2>2 DEF WireTrue
  <2>4. TypeOK'
    BY <1>1, <1>4, <1>7 DEF TypeOK, page
  <2>5. PageTrue' /\ LedgerPrefix'
    BY <1>1, <1>3, <2>1 DEF PageTrue, LedgerPrefix
  <2> QED
    BY <1>6, <2>3, <2>4, <2>5, Parts
<1>8. CASE Head(wire).kind = "event"
  <2>1. Head(wire).seq = lastId + 1 /\ lastId < cursor /\ Carries(wire', lastId + 1, cursor)
    BY <1>2, <1>3, <1>4, <1>8, CarriesTail
  <2>2. /\ lastId' = lastId + 1 /\ shown' = shown \cup {lastId + 1}
        /\ UNCHANGED <<source, streamState>>
    BY <1>8, <2>1
  <2>3. Completes(wire', lastId + 1, opened)
    BY <1>2, <1>3, <1>4, <1>8, <2>1, CompletesTail
  <2>4. WireTrue'
    BY <1>1, <1>5, <2>1, <2>2, <2>3 DEF WireTrue
  <2>5. TypeOK'
    <3>1. lastId + 1 \in 0..MaxEvents /\ lastId + 1 \in 1..MaxEvents
      BY <1>2, <1>3, <2>1
    <3> QED
      BY <1>1, <1>4, <2>2, <3>1 DEF TypeOK
  <2>6. PageTrue'
    <3>1. 1..(lastId + 1) = 1..lastId \cup {lastId + 1}
      BY <1>2
    <3> QED
      BY <1>1, <1>3, <2>2, <3>1 DEF PageTrue
  <2>7. LedgerPrefix'
    <3> DEFINE m == Cardinality(shown)
    <3>1. m \in Nat /\ shown = 1..m /\ m <= stored
      <4>1. shown \subseteq 1..MaxEvents /\ IsFiniteSet(1..MaxEvents)
        BY <1>1, FS_Interval DEF TypeOK
      <4> QED
        BY <1>1, <4>1, FS_Subset, FS_CardinalityType DEF LedgerPrefix
    <3>2. lastId <= m
      BY <1>1, <1>2, <3>1 DEF PageTrue
    <3> HIDE DEF m
    <3>3. \E n \in Nat : shown' = 1..n /\ n <= stored
      <4>1. CASE lastId = m
        <5>1. 1..(m + 1) = 1..m \cup {m + 1}
          BY <3>1
        <5>2. shown' = 1..(m + 1) /\ m + 1 <= stored /\ m + 1 \in Nat
          BY <1>2, <1>3, <2>1, <2>2, <3>1, <4>1, <5>1
        <5> QED
          BY <5>2
      <4>2. CASE lastId < m
        BY <1>2, <2>2, <3>1, <4>2
      <4> QED
        BY <1>2, <3>1, <3>2, <4>1, <4>2
    <3>4. PICK n \in Nat : shown' = 1..n /\ n <= stored
      BY <3>3
    <3>5. Cardinality(1..n) = n
      <4>1. Cardinality(1..n) = IF 1 > n THEN 0 ELSE n - 1 + 1
        BY FS_Interval
      <4> QED
        BY <4>1
    <3>6. shown' = 1..Cardinality(shown') /\ Cardinality(shown') <= stored' /\ stored' = stored
      BY <3>4, <3>5
    <3>7. lastId' <= stored
      BY <1>2, <1>3, <2>1, <2>2
    <3> QED
      BY <3>6, <3>7 DEF LedgerPrefix
  <2> QED
    BY <1>6, <2>4, <2>5, <2>6, <2>7, Parts
<1> QED
  BY <1>7, <1>8

-----------------------------------------------------------------------------
(* The theorems.                                                            *)

(* The invariant holds in every state of the stream.                        *)
THEOREM Inductive == Spec => []IInv
<1>1. Init => IInv
  BY InitIInv
<1>2. IInv /\ [Next]_vars => IInv'
  <2>1. ASSUME IInv, Next PROVE IInv'
    BY <2>1, AppendEventStep, LoadStep, ConnectStep, ReadStep, WriteStep, SignalStep, LossStep,
       DeliverStep DEF Next, Handler, Page, Failure
  <2>2. ASSUME IInv, UNCHANGED vars PROVE IInv'
    <3> USE <2>2 DEF vars, server, page
    <3>1. TypeOK' /\ ReplayTrue' /\ PageTrue'
      BY DEF IInv, TypeOK, ReplayTrue, BatchTrue, PageTrue
    <3>2. ResumesExactly' /\ LedgerPrefix' /\ CompleteAfterReplay'
      BY DEF IInv, ResumesExactly, LedgerPrefix, CompleteAfterReplay, EventFrames
    <3> QED
      BY <3>1, <3>2 DEF IInv
  <2> QED
    BY <2>1, <2>2
<1> QED
  BY <1>1, <1>2, PTL DEF Spec

(* Handler, wire and page have their types, and a handler has a reader.     *)
THEOREM TypeCorrect == Spec => []TypeOK
  BY Inductive, PTL DEF IInv

(* eventStream resumes at Last-Event-ID: no event is replayed to a browser  *)
(* that acknowledged it and none is skipped, through any losses.            *)
THEOREM Resumes == Spec => []ResumesExactly
  BY Inductive, PTL DEF IInv

(* The run page's ledger is a prefix of run_events at all times.            *)
THEOREM PrefixShown == Spec => []LedgerPrefix
  BY Inductive, PTL DEF IInv

(* run.complete is sent once, after the evidence of the opening's snapshot. *)
THEOREM CompleteLast == Spec => []CompleteAfterReplay
  BY Inductive, PTL DEF IInv
=============================================================================
