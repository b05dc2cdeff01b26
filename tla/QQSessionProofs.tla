-------------------------- MODULE QQSessionProofs --------------------------
(***************************************************************************)
(* Proofs about QQSession: the session and the sequence a Resume would name *)
(* are those of the frames under way, and nothing up to the sequence is     *)
(* missing from the inbox.                                                  *)
(***************************************************************************)
EXTENDS QQSession, TLAPS

\* A frame that carries the number of a dispatch.
Numbered(f) == f.op \in {"ready", "message"}

\* A dispatch with number n is on its way.
Awaited(n) == \E i \in 1..Len(frames) : Numbered(frames[i]) /\ frames[i].s = n

\* The commands and the lock.
LockInv ==
  /\ saved <= commands
  /\ lock = "connect" => saved > 0

\* The session the runtime knows is QQ's last one, and its sequence is one of
\* the dispatches of that session.
SessionInv ==
  /\ session = NoSession <=> sequence = NoSequence
  /\ session # NoSession => session = qqSession
  /\ sequence <= qqCount
  /\ qqSession = NoSession => qqCount = 0 /\ ~qqValid
  /\ qqValid => qqCount > 0

\* Only a session has frames, but for the Hello that opens it, unless the
\* connection has gone silent.
PhaseInv ==
  /\ phase \in {"stopped", "dial"} => frames = <<>>
  /\ phase = "hello" => frames = IF silent THEN <<>> ELSE <<Frame("hello", 0)>>

\* READY is dispatch 1, messages are the later ones.
Marks ==
  \A i \in 1..Len(frames) : /\ frames[i].op = "ready" => frames[i].s = 1
                            /\ frames[i].op = "message" => frames[i].s > 1

Ahead == \A i \in 1..Len(frames) :
           Numbered(frames[i]) => sequence < frames[i].s /\ frames[i].s <= qqCount
Ascends == \A i, j \in 1..Len(frames) :
             i < j /\ Numbered(frames[i]) /\ Numbered(frames[j]) => frames[i].s < frames[j].s
Gapless == \A i \in 1..Len(frames) :
             Numbered(frames[i]) => \A n \in Nat : sequence < n /\ n < frames[i].s => Awaited(n)
UpToDate == phase = "session" /\ qqValid /\ ~silent =>
              \A n \in Nat : sequence < n /\ n <= qqCount => Awaited(n)

FramesInv == Marks /\ Ahead /\ Ascends /\ Gapless /\ UpToDate

SeenInv == TypeOK /\ LockInv /\ SessionInv /\ PhaseInv /\ FramesInv /\ SequenceIsSeen

LEMMA FrameTypes ==
  /\ \A n \in 0..MaxMessages : \A op \in {"hello", "ready", "resumed", "message"} :
       Frame(op, n) \in Frames
  /\ \A op \in {"ack", "heartbeat", "reconnect", "invalid", "invalid_resumable"} :
       Frame(op, 0) \in Frames
  /\ \A f \in Frames : /\ f.s \in 0..MaxMessages /\ f.s \in Nat
                       /\ f.op \in {"hello", "ready", "resumed", "message", "ack", "heartbeat",
                                    "reconnect", "invalid", "invalid_resumable"}
BY BoundsAssumption DEF Frames, Frame

LEMMA FramesTyped ==
  TypeOK => /\ frames \in Seq(Frames) /\ Len(frames) \in Nat
            /\ sequence \in Nat /\ qqCount \in Nat /\ qqSession \in Nat /\ MaxMessages \in Nat
            /\ \A i \in 1..Len(frames) : frames[i] \in Frames /\ frames[i].s \in Nat
BY FrameTypes, BoundsAssumption DEF TypeOK

----------------------------------------------------------------------------
(* What happens to the frames under way *)

\* Nothing is on its way.
LEMMA NoFrames ==
  ASSUME frames' = <<>>, phase' # "session" \/ silent' \/ ~qqValid'
  PROVE  FramesInv'
BY DEF FramesInv, Marks, Ahead, Ascends, Gapless, UpToDate

\* Frames without a number come and go: the numbered ones stay, k places further
\* to the front.
LEMMA QuietFrames ==
  ASSUME TypeOK, FramesInv, NEW k \in Nat, Len(frames') \in Nat, UNCHANGED <<sequence, qqCount>>,
         \A i \in 1..Len(frames') :
           \/ ~Numbered(frames'[i])
           \/ i + k \in 1..Len(frames) /\ frames'[i] = frames[i + k],
         \A i \in 1..Len(frames) :
           Numbered(frames[i]) => i - k \in 1..Len(frames') /\ frames'[i - k] = frames[i],
         phase' = "session" /\ qqValid' /\ ~silent' => phase = "session" /\ qqValid /\ ~silent
  PROVE  FramesInv'
<1>0. Len(frames) \in Nat /\ \A i \in 1..Len(frames) : frames[i].s \in Nat
  BY FramesTyped
<1>1. \A n \in Nat : Awaited(n) => Awaited(n)'
  <2> SUFFICES ASSUME NEW n \in Nat, NEW i \in 1..Len(frames), Numbered(frames[i]), frames[i].s = n
      PROVE  \E j \in 1..Len(frames') : Numbered(frames'[j]) /\ frames'[j].s = n
    BY DEF Awaited
  <2>1. i - k \in 1..Len(frames') /\ frames'[i - k] = frames[i]
    OBVIOUS
  <2> QED  BY <2>1
<1>2. Marks'
  BY DEF FramesInv, Marks, Numbered
<1>3. Ahead'
  BY DEF FramesInv, Ahead
<1>4. Ascends'
  <2> SUFFICES ASSUME NEW i \in 1..Len(frames'), NEW j \in 1..Len(frames'), i < j,
                      Numbered(frames'[i]), Numbered(frames'[j])
      PROVE  frames'[i].s < frames'[j].s
    BY DEF Ascends
  <2>1. i + k \in 1..Len(frames) /\ j + k \in 1..Len(frames) /\ i + k < j + k
        /\ frames'[i] = frames[i + k] /\ frames'[j] = frames[j + k]
    OBVIOUS
  <2> QED  BY <2>1 DEF FramesInv, Ascends
<1>5. Gapless'
  <2> SUFFICES ASSUME NEW i \in 1..Len(frames'), Numbered(frames'[i]), NEW n \in Nat,
                      sequence < n, n < frames'[i].s
      PROVE  Awaited(n)'
    BY DEF Gapless
  <2>1. i + k \in 1..Len(frames) /\ frames'[i] = frames[i + k]
    OBVIOUS
  <2> QED  BY <1>1, <2>1 DEF FramesInv, Gapless
<1>6. UpToDate'
  BY <1>1 DEF FramesInv, UpToDate
<1> QED  BY <1>2, <1>3, <1>4, <1>5, <1>6 DEF FramesInv

\* The next number under way is the one that follows the sequence.
LEMMA HeadIsNext ==
  ASSUME TypeOK, FramesInv, frames # <<>>, Numbered(Head(frames))
  PROVE  Head(frames).s = sequence + 1 /\ sequence + 1 <= qqCount
<1>0. /\ sequence \in Nat /\ qqCount \in Nat /\ Len(frames) \in Nat
      /\ \A i \in 1..Len(frames) : frames[i].s \in Nat
  BY FramesTyped
<1>1. 1 \in 1..Len(frames) /\ Head(frames) = frames[1]
  BY FramesTyped
<1>2. sequence < frames[1].s /\ frames[1].s <= qqCount
  BY <1>1 DEF FramesInv, Ahead
<1>3. ASSUME sequence + 1 < frames[1].s  PROVE FALSE
  <2>1. Awaited(sequence + 1)
    BY <1>0, <1>1, <1>3 DEF FramesInv, Gapless
  <2>2. PICK i \in 1..Len(frames) : Numbered(frames[i]) /\ frames[i].s = sequence + 1
    BY <2>1 DEF Awaited
  <2>3. i # 1 /\ 1 < i
    BY <1>0, <1>3, <2>2
  <2>4. frames[1].s < frames[i].s
    BY <1>1, <2>2, <2>3 DEF FramesInv, Ascends
  <2> QED  BY <1>0, <1>1, <1>3, <2>2, <2>4
<1> QED  BY <1>0, <1>1, <1>2, <1>3

\* The head is taken and its number kept.
LEMMA NumberKept ==
  ASSUME TypeOK, FramesInv, frames # <<>>, Numbered(Head(frames)),
         frames' = Tail(frames), sequence' = Head(frames).s,
         UNCHANGED <<qqCount, phase, qqValid, silent>>
  PROVE  FramesInv'
<1>0. /\ sequence \in Nat /\ qqCount \in Nat /\ Len(frames) \in Nat
      /\ \A i \in 1..Len(frames) : frames[i].s \in Nat
  BY FramesTyped
<1>1. Head(frames) = frames[1] /\ 1 \in 1..Len(frames)
  BY FramesTyped
<1>2. sequence' = sequence + 1 /\ sequence' = frames[1].s
  BY HeadIsNext, <1>1
<1>3. /\ Len(frames') = Len(frames) - 1
      /\ \A i \in 1..Len(frames') : i + 1 \in 1..Len(frames) /\ frames'[i] = frames[i + 1]
  BY FramesTyped
<1>4. \A n \in Nat : sequence' < n /\ Awaited(n) => Awaited(n)'
  <2> SUFFICES ASSUME NEW n \in Nat, sequence' < n, NEW i \in 1..Len(frames),
                      Numbered(frames[i]), frames[i].s = n
      PROVE  \E j \in 1..Len(frames') : Numbered(frames'[j]) /\ frames'[j].s = n
    BY DEF Awaited
  <2>1. i # 1
    BY <1>0, <1>2
  <2>2. i - 1 \in 1..Len(frames') /\ frames'[i - 1] = frames[i]
    BY <1>0, <1>3, <2>1
  <2> QED  BY <2>2
<1>5. Marks'
  BY <1>3 DEF FramesInv, Marks
<1>6. Ahead'
  <2> SUFFICES ASSUME NEW i \in 1..Len(frames'), Numbered(frames'[i])
      PROVE  sequence' < frames'[i].s /\ frames'[i].s <= qqCount'
    BY DEF Ahead
  <2>1. i + 1 \in 1..Len(frames) /\ frames'[i] = frames[i + 1] /\ 1 < i + 1
    BY <1>3
  <2>2. frames[1].s < frames[i + 1].s
    BY <1>1, <2>1 DEF FramesInv, Ascends
  <2> QED  BY <1>2, <2>1, <2>2 DEF FramesInv, Ahead
<1>7. Ascends'
  <2> SUFFICES ASSUME NEW i \in 1..Len(frames'), NEW j \in 1..Len(frames'), i < j,
                      Numbered(frames'[i]), Numbered(frames'[j])
      PROVE  frames'[i].s < frames'[j].s
    BY DEF Ascends
  <2>1. /\ i + 1 \in 1..Len(frames) /\ j + 1 \in 1..Len(frames) /\ i + 1 < j + 1
        /\ frames'[i] = frames[i + 1] /\ frames'[j] = frames[j + 1]
    BY <1>3
  <2> QED  BY <2>1 DEF FramesInv, Ascends
<1>8. Gapless'
  <2> SUFFICES ASSUME NEW i \in 1..Len(frames'), Numbered(frames'[i]), NEW n \in Nat,
                      sequence' < n, n < frames'[i].s
      PROVE  Awaited(n)'
    BY DEF Gapless
  <2>1. i + 1 \in 1..Len(frames) /\ frames'[i] = frames[i + 1] /\ sequence < n
    BY <1>0, <1>2, <1>3
  <2>2. Awaited(n)
    BY <2>1 DEF FramesInv, Gapless
  <2> QED  BY <1>4, <2>2
<1>9. UpToDate'
  <2> SUFFICES ASSUME phase = "session", qqValid, ~silent, NEW n \in Nat, sequence' < n, n <= qqCount
      PROVE  Awaited(n)'
    BY DEF UpToDate
  <2>1. Awaited(n)
    BY <1>0, <1>2 DEF FramesInv, UpToDate
  <2> QED  BY <1>4, <2>1
<1> QED  BY <1>5, <1>6, <1>7, <1>8, <1>9 DEF FramesInv

\* A message is dispatched while nothing can be appended to the open connection.
LEMMA OnlyCounted ==
  ASSUME TypeOK, FramesInv, qqCount' = qqCount + 1, phase # "session" \/ silent,
         UNCHANGED <<frames, sequence, phase, silent>>
  PROVE  FramesInv'
<1>1. Marks' /\ Ahead' /\ Ascends'
  BY FramesTyped DEF FramesInv, Marks, Ahead, Ascends
<1>2. Gapless' /\ UpToDate'
  BY FramesTyped DEF FramesInv, Gapless, UpToDate, Awaited
<1> QED  BY <1>1, <1>2 DEF FramesInv

LEMMA Dispatched ==
  ASSUME TypeOK, FramesInv, qqValid, phase = "session", ~silent, 0 < qqCount, sequence <= qqCount,
         qqCount < MaxMessages, qqCount' = qqCount + 1,
         frames' = Append(frames, Frame("message", qqCount + 1)),
         UNCHANGED <<sequence, phase, qqValid, silent>>
  PROVE  FramesInv'
<1>0. /\ sequence \in Nat /\ qqCount \in Nat /\ Len(frames) \in Nat
      /\ \A i \in 1..Len(frames) : frames[i].s \in Nat
  BY FramesTyped
<1> DEFINE last == Len(frames) + 1
<1>1. /\ Len(frames') = last /\ last \in 1..Len(frames')
      /\ \A i \in 1..Len(frames') : i = last \/ (i \in 1..Len(frames) /\ frames'[i] = frames[i])
      /\ \A i \in 1..Len(frames) : i \in 1..Len(frames') /\ frames'[i] = frames[i] /\ i < last
      /\ frames'[last] = Frame("message", qqCount + 1)
  <2>1. frames \in Seq(Frames) /\ Frame("message", qqCount + 1) \in Frames
    BY FramesTyped, FrameTypes
  <2> DEFINE m == Frame("message", qqCount + 1)
  <2>2. frames' = Append(frames, m) /\ m \in Frames
    BY <2>1
  <2> HIDE DEF m, Frames
  <2>3. Len(frames') = last /\ frames'[last] = m
    BY <2>1, <2>2
  <2>4. \A i \in 1..Len(frames) : frames'[i] = frames[i]
    BY <2>1, <2>2
  <2>5. last \in 1..Len(frames') /\ \A i \in 1..Len(frames) : i \in 1..Len(frames') /\ i < last
    BY <1>0, <2>3
  <2>6. \A i \in 1..Len(frames') : i = last \/ i \in 1..Len(frames)
    BY <1>0, <2>3
  <2> QED  BY <2>3, <2>4, <2>5, <2>6 DEF m
<1>2. /\ Numbered(frames'[last]) /\ frames'[last].s = qqCount + 1
      /\ frames'[last].op = "message"
  BY <1>1 DEF Frame, Numbered
<1>3. \A n \in Nat : n = qqCount + 1 \/ Awaited(n) => Awaited(n)'
  BY <1>1, <1>2 DEF Awaited
<1> HIDE DEF last
<1>4. Marks'
  BY <1>0, <1>1, <1>2 DEF FramesInv, Marks
<1>5. Ahead'
  BY <1>0, <1>1, <1>2 DEF FramesInv, Ahead
<1>6. Ascends'
  <2> SUFFICES ASSUME NEW i \in 1..Len(frames'), NEW j \in 1..Len(frames'), i < j,
                      Numbered(frames'[i]), Numbered(frames'[j])
      PROVE  frames'[i].s < frames'[j].s
    BY DEF Ascends
  <2>1. i \in 1..Len(frames) /\ frames'[i] = frames[i]
    BY <1>0, <1>1
  <2>2. CASE j = last
    <3>1. frames[i].s <= qqCount
      BY <2>1 DEF FramesInv, Ahead
    <3>2. frames'[j].s = qqCount + 1
      BY <1>2, <2>2
    <3>3. frames[i].s \in Nat /\ frames'[i].s = frames[i].s
      BY <1>0, <2>1
    <3>4. frames[i].s < qqCount + 1
      BY <1>0, <3>1, <3>3
    <3> QED  BY <3>2, <3>3, <3>4
  <2>3. CASE j # last
    BY <1>1, <2>1, <2>3 DEF FramesInv, Ascends
  <2> QED  BY <2>2, <2>3
<1>7. UpToDate'
  <2> SUFFICES ASSUME NEW n \in Nat, sequence < n, n <= qqCount + 1
      PROVE  Awaited(n)'
    BY DEF UpToDate
  <2> QED  BY <1>0, <1>3 DEF FramesInv, UpToDate
<1>8. Gapless'
  <2> SUFFICES ASSUME NEW i \in 1..Len(frames'), Numbered(frames'[i]), NEW n \in Nat,
                      sequence < n, n < frames'[i].s
      PROVE  Awaited(n)'
    BY DEF Gapless
  <2>1. frames'[i].s \in Nat
    BY <1>0, <1>1, <1>2
  <2>2. frames'[i].s <= qqCount + 1
    BY <1>5 DEF Ahead
  <2>3. n <= qqCount + 1
    BY <1>0, <2>1, <2>2
  <2> QED  BY <1>7, <2>3 DEF UpToDate
<1> QED  BY <1>4, <1>5, <1>6, <1>7, <1>8 DEF FramesInv

\* What QQ answers to an Identify and to a Resume.
LEMMA Identification ==
  ASSUME TypeOK, frames' = <<Frame("ready", 1)>>, sequence' = 0, qqCount' = 1
  PROVE  FramesInv'
<1>1. Len(frames') = 1 /\ frames'[1] = [op |-> "ready", s |-> 1]
  BY DEF Frame
<1>2. Numbered(frames'[1]) /\ frames'[1].s = 1 /\ frames'[1].op = "ready"
  BY <1>1 DEF Numbered
<1>3. \A i \in 1..Len(frames') : i = 1
  BY <1>1
<1>4. Marks' /\ Ahead' /\ Ascends'
  BY <1>2, <1>3 DEF Marks, Ahead, Ascends
<1>5. \A n \in Nat : 0 < n /\ n <= 1 => Awaited(n)'
  BY <1>1, <1>2 DEF Awaited
<1>6. Gapless' /\ UpToDate'
  BY <1>2, <1>3, <1>5 DEF Gapless, UpToDate
<1> QED  BY <1>4, <1>6 DEF FramesInv

Repeated == [i \in 1..(qqCount - sequence) |-> Frame("message", sequence + i)]

LEMMA RepeatedFacts ==
  ASSUME TypeOK, 0 < sequence, sequence <= qqCount
  PROVE  /\ Repeated \in Seq(Frames) /\ Len(Repeated) = qqCount - sequence
         /\ Repeated \o <<Frame("resumed", 0)>> \in Seq(Frames)
         /\ Len(Repeated \o <<Frame("resumed", 0)>>) = qqCount - sequence + 1
         /\ \A i \in 1..(qqCount - sequence) :
              (Repeated \o <<Frame("resumed", 0)>>)[i] = Frame("message", sequence + i)
         /\ (Repeated \o <<Frame("resumed", 0)>>)[qqCount - sequence + 1] = Frame("resumed", 0)
<1>0. sequence \in Nat /\ qqCount \in Nat /\ qqCount <= MaxMessages /\ qqCount - sequence \in Nat
      /\ MaxMessages \in Nat
  BY FramesTyped DEF TypeOK
<1>1. \A i \in 1..(qqCount - sequence) : Frame("message", sequence + i) \in Frames
  BY <1>0, FrameTypes
<1>2. Repeated \in Seq(Frames) /\ Len(Repeated) = qqCount - sequence
  BY <1>0, <1>1 DEF Repeated
<1>3. \A i \in 1..(qqCount - sequence) : Repeated[i] = Frame("message", sequence + i)
  BY <1>0 DEF Repeated
<1>4. Frame("resumed", 0) \in Frames /\ <<Frame("resumed", 0)>> \in Seq(Frames)
      /\ Len(<<Frame("resumed", 0)>>) = 1 /\ <<Frame("resumed", 0)>>[1] = Frame("resumed", 0)
  BY <1>0, FrameTypes
<1> HIDE DEF Repeated, Frame, Frames
<1> QED  BY <1>0, <1>2, <1>3, <1>4

LEMMA Resumption ==
  ASSUME TypeOK, 0 < sequence, sequence <= qqCount,
         frames' = Repeated \o <<Frame("resumed", 0)>>, UNCHANGED <<sequence, qqCount>>
  PROVE  FramesInv'
<1>0. sequence \in Nat /\ qqCount \in Nat
  BY FramesTyped
<1>1. /\ Len(frames') = qqCount - sequence + 1
      /\ \A i \in 1..(qqCount - sequence) : frames'[i] = Frame("message", sequence + i)
      /\ frames'[qqCount - sequence + 1] = Frame("resumed", 0)
  BY RepeatedFacts
<1>2. \A i \in 1..Len(frames') :
        \/ ~Numbered(frames'[i]) /\ frames'[i].op = "resumed"
        \/ i <= qqCount - sequence /\ frames'[i].s = sequence + i /\ frames'[i].op = "message"
  <2> SUFFICES ASSUME NEW i \in 1..Len(frames')
      PROVE  \/ ~Numbered(frames'[i]) /\ frames'[i].op = "resumed"
             \/ i <= qqCount - sequence /\ frames'[i].s = sequence + i /\ frames'[i].op = "message"
    OBVIOUS
  <2>1. CASE i <= qqCount - sequence
    <3>1. frames'[i] = [op |-> "message", s |-> sequence + i]
      BY <1>0, <1>1, <2>1 DEF Frame
    <3> QED  BY <2>1, <3>1
  <2>2. CASE ~(i <= qqCount - sequence)
    <3>1. i = qqCount - sequence + 1
      BY <1>0, <1>1, <2>2
    <3>2. frames'[i] = [op |-> "resumed", s |-> 0]
      BY <1>1, <3>1 DEF Frame
    <3> QED  BY <3>2 DEF Numbered
  <2> QED  BY <2>1, <2>2
<1>3. \A n \in Nat : sequence < n /\ n <= qqCount => Awaited(n)'
  <2> SUFFICES ASSUME NEW n \in Nat, sequence < n, n <= qqCount
      PROVE  \E i \in 1..Len(frames') : Numbered(frames'[i]) /\ frames'[i].s = n
    BY DEF Awaited
  <2>1. n - sequence \in 1..(qqCount - sequence) /\ n - sequence \in 1..Len(frames')
        /\ sequence + (n - sequence) = n
    BY <1>0, <1>1
  <2>2. frames'[n - sequence] = Frame("message", n)
    BY <1>1, <2>1
  <2> QED  BY <2>1, <2>2 DEF Frame, Numbered
<1>4. \A i \in 1..Len(frames') : i \in Nat /\ 0 < i
  BY <1>0, <1>1
<1>5. Marks' /\ Ahead'
  BY <1>0, <1>2, <1>4 DEF Marks, Ahead, Numbered
<1>6. Ascends'
  BY <1>0, <1>2, <1>4 DEF Ascends, Numbered
<1>7. Gapless'
  BY <1>0, <1>2, <1>3, <1>4 DEF Gapless, Numbered
<1>8. UpToDate'
  BY <1>3 DEF UpToDate
<1> QED  BY <1>5, <1>6, <1>7, <1>8 DEF FramesInv

----------------------------------------------------------------------------
(* Every step, and the frames it leaves *)

Kept == <<sequence, qqCount, phase, qqValid, silent>>

\* A frame without a number is taken and perhaps answered with another one.
LEMMA Taken ==
  ASSUME TypeOK, FramesInv, NEW op \in {"hello", "resumed", "ack", "heartbeat", "reconnect"},
         Received(op), UNCHANGED Kept,
         frames' = Tail(frames) \/ frames' = Tail(frames) \o <<Frame("ack", 0)>>
  PROVE  FramesInv' /\ frames' \in Seq(Frames)
<1>0. /\ frames \in Seq(Frames) /\ frames # <<>> /\ Head(frames).op = op /\ Head(frames) = frames[1]
      /\ Len(frames) \in Nat
  BY FramesTyped DEF Received
<1>1. Frame("ack", 0) \in Frames /\ ~Numbered(Frame("ack", 0))
  BY FrameTypes DEF Frame, Numbered
<1>2. /\ Tail(frames) \in Seq(Frames) /\ Len(Tail(frames)) = Len(frames) - 1
      /\ \A i \in 1..Len(Tail(frames)) : i + 1 \in 1..Len(frames) /\ Tail(frames)[i] = frames[i + 1]
      /\ \A i \in 2..Len(frames) : i - 1 \in 1..Len(Tail(frames)) /\ Tail(frames)[i - 1] = frames[i]
  BY <1>0
<1>3. ~Numbered(frames[1])
  BY <1>0 DEF Numbered
<1>4. \A i \in 1..Len(frames) : Numbered(frames[i]) => i \in 2..Len(frames)
  BY <1>0, <1>3
<1>5. CASE frames' = Tail(frames)
  <2>1. Len(frames') \in Nat
    BY <1>0, <1>2, <1>5
  <2> QED  BY <1>2, <1>4, <1>5, <2>1, QuietFrames DEF Kept
<1>6. CASE frames' = Tail(frames) \o <<Frame("ack", 0)>>
  <2> DEFINE t == Tail(frames)
             a == Frame("ack", 0)
  <2>1. t \in Seq(Frames) /\ a \in Frames /\ frames' = t \o <<a>>
    BY <1>1, <1>2, <1>6
  <2> HIDE DEF t, a, Frames
  <2>2. frames' \in Seq(Frames) /\ Len(frames') = Len(t) + 1 /\ Len(t) \in Nat
    BY <2>1
  <2>3. \A i \in 1..Len(t) : frames'[i] = t[i]
    BY <2>1
  <2>4. frames'[Len(t) + 1] = a
    BY <2>1
  <2>5. \A i \in 1..Len(frames') :
          ~Numbered(frames'[i]) \/ (i + 1 \in 1..Len(frames) /\ frames'[i] = frames[i + 1])
    <3> SUFFICES ASSUME NEW i \in 1..Len(frames')
        PROVE  ~Numbered(frames'[i]) \/ (i + 1 \in 1..Len(frames) /\ frames'[i] = frames[i + 1])
      OBVIOUS
    <3>1. CASE i = Len(t) + 1
      BY <1>1, <2>4, <3>1 DEF a
    <3>2. CASE i # Len(t) + 1
      <4>1. i \in 1..Len(t)
        BY <2>2, <3>2
      <4> QED  BY <1>2, <2>3, <4>1 DEF t
    <3> QED  BY <3>1, <3>2
  <2>6. \A i \in 1..Len(frames) :
          Numbered(frames[i]) => i - 1 \in 1..Len(frames') /\ frames'[i - 1] = frames[i]
    <3> SUFFICES ASSUME NEW i \in 1..Len(frames), Numbered(frames[i])
        PROVE  i - 1 \in 1..Len(frames') /\ frames'[i - 1] = frames[i]
      OBVIOUS
    <3>1. i - 1 \in 1..Len(t) /\ t[i - 1] = frames[i]
      BY <1>2, <1>4 DEF t
    <3> QED  BY <2>2, <2>3, <3>1
  <2> QED  BY <2>2, <2>5, <2>6, QuietFrames DEF Kept
<1> QED  BY <1>5, <1>6

\* A frame without a number is added.
LEMMA Added ==
  ASSUME TypeOK, FramesInv, NEW f \in Frames, ~Numbered(f), UNCHANGED Kept, frames' = Append(frames, f)
  PROVE  FramesInv' /\ frames' \in Seq(Frames)
<1> HIDE DEF Frames
<1>1. frames \in Seq(Frames) /\ Len(frames) \in Nat
  BY FramesTyped
<1>2. frames' \in Seq(Frames) /\ Len(frames') = Len(frames) + 1 /\ frames'[Len(frames) + 1] = f
  BY <1>1
<1>3. \A i \in 1..Len(frames) : frames'[i] = frames[i] /\ i + 0 = i /\ i - 0 = i
  BY <1>1
<1>4. \A i \in 1..Len(frames') :
        ~Numbered(frames'[i]) \/ (i + 0 \in 1..Len(frames) /\ frames'[i] = frames[i + 0])
  <2> SUFFICES ASSUME NEW i \in 1..Len(frames')
      PROVE  ~Numbered(frames'[i]) \/ (i + 0 \in 1..Len(frames) /\ frames'[i] = frames[i + 0])
    OBVIOUS
  <2>1. CASE i = Len(frames) + 1
    BY <1>2, <2>1
  <2>2. CASE i # Len(frames) + 1
    <3>1. i \in 1..Len(frames)
      BY <1>1, <1>2, <2>2
    <3> QED  BY <1>3, <3>1
  <2> QED  BY <2>1, <2>2
<1>5. \A i \in 1..Len(frames) :
        Numbered(frames[i]) => i - 0 \in 1..Len(frames') /\ frames'[i - 0] = frames[i]
  BY <1>1, <1>2, <1>3
<1> QED  BY <1>1, <1>2, <1>4, <1>5, QuietFrames DEF Kept

\* The frames are left alone.
LEMMA FramesKept ==
  ASSUME TypeOK, FramesInv, UNCHANGED <<frames, sequence, qqCount>>,
         phase' = "session" /\ qqValid' /\ ~silent' => phase = "session" /\ qqValid /\ ~silent
  PROVE  FramesInv' /\ frames' \in Seq(Frames)
<1>1. frames' \in Seq(Frames) /\ Len(frames') \in Nat
  BY FramesTyped
<1>2. \A i \in 1..Len(frames) : i + 0 = i /\ i - 0 = i
  BY FramesTyped
<1> QED  BY <1>1, <1>2, QuietFrames

\* The end of a connection, and a runtime that is not connected.
LEMMA Disconnected ==
  ASSUME frames' = <<>>, phase' \in {"stopped", "dial"}
  PROVE  FramesInv' /\ PhaseInv' /\ frames' \in Seq(Frames)
BY NoFrames DEF PhaseInv

\* One frame without a number on a connection that owes no dispatch.
LEMMA OneFrame ==
  ASSUME NEW f \in Frames, ~Numbered(f), f.op \notin {"ready", "message"}, frames' = <<f>>,
         phase' # "session" \/ silent' \/ ~qqValid'
  PROVE  FramesInv' /\ frames' \in Seq(Frames)
<1> HIDE DEF Frames
<1>1. /\ frames' \in Seq(Frames) /\ Len(frames') = 1
      /\ \A i \in 1..Len(frames') : frames'[i] = f
  OBVIOUS
<1>2. Marks' /\ Ahead' /\ Ascends' /\ Gapless'
  BY <1>1 DEF Marks, Ahead, Ascends, Gapless
<1>3. UpToDate'
  BY DEF UpToDate
<1> QED  BY <1>1, <1>2, <1>3 DEF FramesInv

LEMMA HelloFrames ==
  ASSUME SeenInv, Hello
  PROVE  FramesInv' /\ PhaseInv' /\ frames' \in Seq(Frames)
<1>0. /\ TypeOK /\ SessionInv /\ ~silent /\ phase' = "session" /\ silent' = silent
      /\ sequence' = sequence /\ Tail(frames) = <<>>
      /\ sequence \in Nat /\ qqCount \in Nat /\ qqSession \in Nat /\ qqValid \in BOOLEAN
  <2>1. TypeOK /\ SessionInv /\ PhaseInv
    BY DEF SeenInv
  <2>2. phase = "hello" /\ frames # <<>> /\ phase' = "session" /\ silent' = silent
        /\ sequence' = sequence
    BY DEF Hello
  <2>3. frames = <<Frame("hello", 0)>> /\ ~silent
    BY <2>1, <2>2 DEF PhaseInv
  <2>4. Tail(frames) = <<>>
    <3> HIDE DEF Frame
    <3> QED  BY <2>3
  <2>5. sequence \in Nat /\ qqCount \in Nat /\ qqSession \in Nat
    BY <2>1, FramesTyped
  <2>6. qqValid \in BOOLEAN
    BY <2>1 DEF TypeOK
  <2> QED  BY <2>1, <2>2, <2>3, <2>4, <2>5, <2>6
<1> DEFINE Sent(f) == frames' = Tail(frames) \o <<f>>
<1>4. ASSUME NEW f \in Frames, Sent(f)  PROVE frames' = <<f>>
  <2> HIDE DEF Frames
  <2>1. frames' = <<>> \o <<f>>
    BY <1>0, <1>4
  <2> QED  BY <2>1
<1> HIDE DEF Sent
<1>1. PhaseInv'
  BY <1>0 DEF PhaseInv
<1>2. CASE session # NoSession /\ sequence # NoSequence
  <2>1. 0 < sequence /\ sequence <= qqCount /\ session = qqSession
    BY <1>0, <1>2 DEF SessionInv, NoSequence
  <2>2. CASE qqValid
    <3>1. Arrives(Repeated \o <<Frame("resumed", 0)>>) /\ qqCount' = qqCount
      BY <1>2, <2>1, <2>2 DEF Hello, Resumed, Repeated, qqVars
    <3>2. Repeated \o <<Frame("resumed", 0)>> \in Seq(Frames)
      BY <1>0, <2>1, RepeatedFacts
    <3>3. frames' = Repeated \o <<Frame("resumed", 0)>>
      <4> DEFINE r == Repeated \o <<Frame("resumed", 0)>>
      <4>1. frames' = <<>> \o r /\ r \in Seq(Frames)
        BY <1>0, <3>1, <3>2 DEF Arrives
      <4> HIDE DEF r, Frames
      <4>2. <<>> \o r = r
        BY <4>1
      <4> QED  BY <4>1, <4>2 DEF r
    <3> QED  BY <1>0, <1>1, <2>1, <3>1, <3>2, <3>3, Resumption
  <2>3. CASE ~qqValid
    <3>0. Resumed
      BY <1>2 DEF Hello
    <3>1. Sent(Frame("invalid", 0)) /\ ~qqValid'
      BY <1>0, <2>3, <3>0 DEF Resumed, Arrives, qqVars, Sent
    <3>2. /\ Frame("invalid", 0) \in Frames /\ ~Numbered(Frame("invalid", 0))
          /\ Frame("invalid", 0).op \notin {"ready", "message"}
      BY FrameTypes DEF Frame, Numbered
    <3> QED  BY <1>1, <1>4, <3>1, <3>2, OneFrame
  <2> QED  BY <1>0, <2>2, <2>3
<1>3. CASE ~(session # NoSession /\ sequence # NoSequence)
  <2>1. sequence' = 0
    BY <1>0, <1>3 DEF SessionInv, NoSequence
  <2>0. Identified
    BY <1>3 DEF Hello
  <2>2. Sent(Frame("ready", 1)) /\ qqCount' = 1
    BY <1>0, <2>0 DEF Identified, Arrives, Sent
  <2>3. Frame("ready", 1) \in Frames
    BY FrameTypes, BoundsAssumption
  <2>4. frames' = <<Frame("ready", 1)>>
    BY <1>4, <2>2, <2>3
  <2>5. frames' \in Seq(Frames)
    BY <2>3, <2>4
  <2> QED  BY <1>0, <1>1, <2>1, <2>2, <2>4, <2>5, Identification
<1> QED  BY <1>2, <1>3

\* A numbered frame is handled in an open session.
LEMMA NumberTaken ==
  ASSUME SeenInv, NEW op \in {"ready", "message"}, Received(op),
         sequence' = Sequenced(Head(frames).s), frames' = Tail(frames),
         UNCHANGED <<phase, silent, qqCount, qqValid>>
  PROVE  FramesInv' /\ PhaseInv' /\ frames' \in Seq(Frames)
<1>1. TypeOK /\ FramesInv /\ frames \in Seq(Frames) /\ frames # <<>> /\ phase = "session"
  BY FramesTyped DEF SeenInv, Received
<1>2. Numbered(Head(frames))
  BY DEF Received, Numbered
<1>3. Head(frames).s = sequence + 1 /\ sequence \in Nat
  BY <1>1, <1>2, HeadIsNext, FramesTyped
<1>4. sequence' = Head(frames).s
  BY <1>3 DEF Sequenced
<1>5. FramesInv'
  BY <1>1, <1>2, <1>4, NumberKept
<1>6. frames' \in Seq(Frames)
  BY <1>1
<1> QED  BY <1>1, <1>5, <1>6 DEF PhaseInv

LEMMA FramesStep ==
  ASSUME SeenInv, [Next]_vars
  PROVE  FramesInv' /\ PhaseInv' /\ frames' \in Seq(Frames)
<1> DEFINE Goal == FramesInv' /\ PhaseInv' /\ frames' \in Seq(Frames)
<1>0. TypeOK /\ FramesInv /\ PhaseInv /\ SessionInv /\ frames \in Seq(Frames)
  BY FramesTyped DEF SeenInv
<1>1. ASSUME Dial  PROVE Goal
  <2>1. frames' = <<Frame("hello", 0)>> /\ phase' = "hello" /\ ~silent'
    BY <1>1 DEF Dial
  <2>2. /\ Frame("hello", 0) \in Frames /\ ~Numbered(Frame("hello", 0))
        /\ Frame("hello", 0).op \notin {"ready", "message"}
    BY FrameTypes, FramesTyped, <1>0 DEF Frame, Numbered
  <2> QED  BY <2>1, <2>2, OneFrame DEF PhaseInv
<1>2. ASSUME Hello  PROVE Goal
  BY <1>2, HelloFrames
<1>3. ASSUME Ready  PROVE Goal
  BY <1>3, NumberTaken DEF Ready, qqVars
<1>4. ASSUME ResumedDispatch  PROVE Goal
  <2>1. Received("resumed") /\ UNCHANGED Kept /\ frames' = Tail(frames) /\ phase' = "session"
    BY <1>4 DEF ResumedDispatch, Received, Kept, runtimeVars, qqVars
  <2> QED  BY <1>0, <2>1, Taken DEF PhaseInv
<1>5. ASSUME Message  PROVE Goal
  BY <1>5, NumberTaken DEF Message, qqVars
<1>6. ASSUME HeartbeatAsked  PROVE Goal
  <2>1. /\ Received("heartbeat") /\ UNCHANGED Kept /\ phase' = "session"
        /\ frames' = Tail(frames) \/ frames' = Tail(frames) \o <<Frame("ack", 0)>>
    BY <1>6 DEF HeartbeatAsked, Received, Kept, Arrives, qqVars
  <2> QED  BY <1>0, <2>1, Taken DEF PhaseInv
<1>7. ASSUME Acknowledged  PROVE Goal
  <2>1. Received("ack") /\ UNCHANGED Kept /\ frames' = Tail(frames) /\ phase' = "session"
    BY <1>7 DEF Acknowledged, Received, Kept, qqVars
  <2> QED  BY <1>0, <2>1, Taken DEF PhaseInv
<1>8. ASSUME ProtocolClose \/ MessageFails \/ ConnectionBreaks  PROVE Goal
  <2>1. frames' = <<>> /\ phase' = "dial"
    BY <1>8 DEF ProtocolClose, MessageFails, ConnectionBreaks, Broken
  <2> QED  BY <2>1, Disconnected
<1>9. ASSUME HeartbeatDue \/ HeartbeatOverdue  PROVE Goal
  <2>0. Heartbeat
    BY <1>9 DEF HeartbeatDue, HeartbeatOverdue
  <2>1. CASE awaitingAck
    <3>1. frames' = <<>> /\ phase' = "dial"
      BY <2>0, <2>1 DEF Heartbeat, Broken
    <3> QED  BY <3>1, Disconnected
  <2>2. CASE ~awaitingAck
    <3>1. /\ UNCHANGED Kept /\ phase' = "session"
          /\ frames' = IF silent THEN <<>> ELSE Append(frames, Frame("ack", 0))
      BY <2>0, <2>2 DEF Heartbeat, Kept, qqVars, commandVars
    <3>2. CASE silent
      <4>1. frames' = <<>> /\ silent'
        BY <3>1, <3>2 DEF Kept
      <4> QED  BY <3>1, <4>1, NoFrames DEF PhaseInv
    <3>3. CASE ~silent
      <4>1. Frame("ack", 0) \in Frames /\ ~Numbered(Frame("ack", 0))
        BY FrameTypes DEF Frame, Numbered
      <4> QED  BY <1>0, <3>1, <3>3, <4>1, Added DEF PhaseInv
    <3> QED  BY <3>2, <3>3
  <2> QED  BY <2>1, <2>2
<1>10. ASSUME QQDispatches  PROVE Goal
  <2>1. /\ qqValid /\ qqValid' = qqValid /\ qqCount < MaxMessages /\ qqCount' = qqCount + 1
        /\ UNCHANGED <<sequence, phase, silent>> /\ 0 < qqCount /\ sequence <= qqCount
    BY <1>0, <1>10 DEF QQDispatches, runtimeVars, SessionInv
  <2>2. CASE phase = "session" /\ ~silent
    <3>1. frames' = Append(frames, Frame("message", qqCount + 1))
      BY <1>10, <2>2 DEF QQDispatches
    <3>2. Frame("message", qqCount + 1) \in Frames
      BY <1>0, <2>1, FramesTyped, FrameTypes
    <3>3. frames' \in Seq(Frames)
      BY <1>0, <3>1, <3>2
    <3> QED  BY <1>0, <2>1, <2>2, <3>1, <3>3, Dispatched DEF PhaseInv
  <2>3. CASE ~(phase = "session" /\ ~silent)
    <3>1. frames' = frames
      BY <1>10, <2>3 DEF QQDispatches
    <3> QED  BY <1>0, <2>1, <2>3, <3>1, OnlyCounted DEF PhaseInv
  <2> QED  BY <2>2, <2>3
<1>11. ASSUME QQExpires  PROVE Goal
  <2>1. UNCHANGED <<frames, sequence, qqCount, phase, silent>> /\ ~qqValid'
    BY <1>11 DEF QQExpires, runtimeVars
  <2> QED  BY <1>0, <2>1, FramesKept DEF PhaseInv
<1>12. ASSUME GoesSilent  PROVE Goal
  <2>1. frames' = <<>> /\ silent' /\ phase' \in {"hello", "session"}
    BY <1>12 DEF GoesSilent, runtimeVars
  <2> QED  BY <2>1, NoFrames DEF PhaseInv
<1>13. ASSUME NEW op \in {"heartbeat", "reconnect", "invalid_resumable"}, QQAsks(op)  PROVE Goal
  <2>1. /\ frames' = <<Frame(op, 0)>> /\ UNCHANGED Kept /\ frames = <<>>
        /\ phase' = "session"
    BY <1>13 DEF QQAsks, Kept, runtimeVars, qqVars
  <2>2. Frame(op, 0) \in Frames /\ ~Numbered(Frame(op, 0))
    BY FrameTypes DEF Frame, Numbered
  <2>3. frames' = Append(frames, Frame(op, 0))
    <3> HIDE DEF Frame
    <3> QED  BY <2>1
  <2> QED  BY <1>0, <2>1, <2>2, <2>3, Added DEF PhaseInv
<1>14. ASSUME \/ UNCHANGED vars \/ SaveConnection \/ DeleteConnection  PROVE Goal
  <2>1. UNCHANGED <<frames, sequence, qqCount, phase, silent, qqValid>>
    BY <1>14 DEF SaveConnection, DeleteConnection, vars, runtimeVars, qqVars
  <2> QED  BY <1>0, <2>1, FramesKept DEF PhaseInv
<1>15. ASSUME ReplaceRuntime \/ PopRuntime  PROVE Goal
  <2>1. frames' = <<>> /\ phase' = "stopped"
    BY <1>15 DEF ReplaceRuntime, PopRuntime, Stop
  <2> QED  BY <2>1, Disconnected
<1>16. ASSUME StartRuntime \/ Restart  PROVE Goal
  <2>1. frames' = <<>> /\ phase' \in {"stopped", "dial"}
    BY <1>16 DEF StartRuntime, Restart, Launch
  <2> QED  BY <2>1, Disconnected
<1> QED
  BY <1>1, <1>2, <1>3, <1>4, <1>5, <1>6, <1>7, <1>8, <1>9, <1>10, <1>11, <1>12, <1>13, <1>14,
     <1>15, <1>16, Zenon DEF Next, Receive

----------------------------------------------------------------------------
(* Every step, and the other variables *)

CommandsOK ==
  /\ row \in {"none", "connecting", "connected", "error"} /\ runtime \in BOOLEAN
  /\ lock \in {"free", "connect", "disconnect"} /\ saved \in 0..MaxCommands
  /\ faults \in 0..MaxFaults /\ commands \in 0..MaxCommands
  /\ LockInv

SessionOK ==
  /\ phase \in {"stopped", "dial", "hello", "session"}
  /\ session \in 0..MaxSessions /\ sequence \in 0..MaxMessages /\ awaitingAck \in BOOLEAN
  /\ silent \in BOOLEAN
  /\ qqSession \in 0..MaxSessions /\ qqValid \in BOOLEAN /\ qqCount \in 0..MaxMessages
  /\ SessionInv

InboxOK ==
  claimed \in SUBSET Dispatches /\ failed \in SUBSET Dispatches /\ SequenceIsSeen

LEMMA Parts ==
  SeenInv <=> CommandsOK /\ SessionOK /\ InboxOK /\ frames \in Seq(Frames) /\ PhaseInv /\ FramesInv
BY DEF SeenInv, CommandsOK, SessionOK, InboxOK, TypeOK

\* The runtime's own steps touch the row's status, and count a fault at most.
LEMMA CommandsStep ==
  ASSUME SeenInv, [Next]_vars
  PROVE  CommandsOK'
<1>0. /\ CommandsOK /\ MaxFaults \in Nat /\ MaxCommands \in Nat
      /\ saved \in Nat /\ commands \in Nat /\ faults \in Nat
  BY Parts, BoundsAssumption DEF CommandsOK
<1>1. ASSUME UNCHANGED <<lock, saved, commands>>, row' = row \/ row' \in {"connecting", "connected", "error"},
             runtime' \in BOOLEAN, faults' = faults \/ Fault
      PROVE  CommandsOK'
  <2>1. faults' \in 0..MaxFaults
    BY <1>0, <1>1 DEF Fault, CommandsOK
  <2> QED  BY <1>0, <1>1, <2>1 DEF CommandsOK, LockInv
<1>2. ASSUME \/ Dial \/ Hello \/ Receive \/ MessageFails \/ ConnectionBreaks
             \/ HeartbeatDue \/ HeartbeatOverdue
      PROVE  CommandsOK'
  <2>1. UNCHANGED <<lock, saved, commands, runtime>>
    BY <1>2 DEF Dial, Hello, Receive, Ready, ResumedDispatch, Message, HeartbeatAsked, Acknowledged,
                ProtocolClose, MessageFails, ConnectionBreaks, HeartbeatDue, HeartbeatOverdue,
                Heartbeat, Broken, commandVars
  <2>2. row' = row \/ row' \in {"connecting", "connected", "error"}
    BY <1>2 DEF Dial, Hello, Receive, Ready, ResumedDispatch, Message, HeartbeatAsked, Acknowledged,
                ProtocolClose, MessageFails, ConnectionBreaks, HeartbeatDue, HeartbeatOverdue,
                Heartbeat, Broken, SetStatus, commandVars
  <2>3. faults' = faults \/ Fault
    BY <1>2 DEF Dial, Hello, Receive, Ready, ResumedDispatch, Message, HeartbeatAsked, Acknowledged,
                ProtocolClose, MessageFails, ConnectionBreaks, HeartbeatDue, HeartbeatOverdue
  <2> QED  BY <1>0, <1>1, <2>1, <2>2, <2>3 DEF CommandsOK
<1>3. ASSUME \/ QQDispatches \/ QQExpires \/ GoesSilent \/ UNCHANGED vars
             \/ \E op \in {"heartbeat", "reconnect", "invalid_resumable"} : QQAsks(op)
      PROVE  CommandsOK'
  <2>1. UNCHANGED commandVars /\ (faults' = faults \/ Fault)
    BY <1>3 DEF QQDispatches, QQExpires, GoesSilent, QQAsks, vars
  <2> QED  BY <1>0, <1>1, <2>1 DEF CommandsOK, commandVars
<1>4. ASSUME SaveConnection  PROVE CommandsOK'
  <2>1. /\ row' = "connecting" /\ saved' = saved + 1 /\ commands < MaxCommands
        /\ commands' = commands + 1 /\ UNCHANGED <<runtime, lock, faults>>
    BY <1>4 DEF SaveConnection
  <2>2. saved' <= commands' /\ saved' \in 0..MaxCommands /\ commands' \in 0..MaxCommands /\ saved' > 0
    BY <1>0, <2>1 DEF CommandsOK, LockInv
  <2> QED  BY <1>0, <2>1, <2>2 DEF CommandsOK, LockInv
<1>5. ASSUME ReplaceRuntime  PROVE CommandsOK'
  BY <1>0, <1>5 DEF ReplaceRuntime, Stop, CommandsOK, LockInv
<1>6. ASSUME StartRuntime  PROVE CommandsOK'
  <2>1. saved > 0 /\ saved' = saved - 1 /\ lock' = "free" /\ runtime' /\ UNCHANGED <<row, commands, faults>>
    BY <1>0, <1>6 DEF StartRuntime, Launch, CommandsOK, LockInv
  <2>2. saved' \in 0..MaxCommands /\ saved' <= commands'
    BY <1>0, <2>1 DEF CommandsOK, LockInv
  <2>3. runtime' \in BOOLEAN
    BY <1>6 DEF StartRuntime, Launch
  <2> QED  BY <1>0, <2>1, <2>2, <2>3 DEF CommandsOK, LockInv
<1>7. ASSUME PopRuntime  PROVE CommandsOK'
  <2>1. /\ commands < MaxCommands /\ commands' = commands + 1 /\ lock' = "disconnect"
        /\ runtime' = FALSE /\ UNCHANGED <<row, saved, faults>>
    BY <1>7 DEF PopRuntime, Stop
  <2>2. commands' \in 0..MaxCommands /\ saved' <= commands'
    BY <1>0, <2>1 DEF CommandsOK, LockInv
  <2> QED  BY <1>0, <2>1, <2>2 DEF CommandsOK, LockInv
<1>8. ASSUME DeleteConnection  PROVE CommandsOK'
  BY <1>0, <1>8 DEF DeleteConnection, CommandsOK, LockInv
<1>9. ASSUME Restart  PROVE CommandsOK'
  <2>1. lock' = "free" /\ saved' = 0 /\ UNCHANGED commands /\ Fault /\ runtime' \in BOOLEAN
    BY <1>9 DEF Restart, Launch
  <2>2. row' \in {"none", "connecting"}
    BY <1>9 DEF Restart
  <2>3. faults' \in 0..MaxFaults /\ saved' \in 0..MaxCommands /\ saved' <= commands'
    BY <1>0, <2>1 DEF Fault
  <2> QED  BY <1>0, <2>1, <2>2, <2>3 DEF CommandsOK, LockInv
<1> QED
  BY <1>2, <1>3, <1>4, <1>5, <1>6, <1>7, <1>8, <1>9, Zenon DEF Next

\* A message belongs to the session the runtime knows and follows its sequence.
LEMMA MessageFacts ==
  ASSUME SeenInv, Received("message")
  PROVE  /\ Sequenced(Head(frames).s) = sequence + 1 /\ Head(frames).s = sequence + 1
         /\ sequence + 1 <= qqCount /\ session # NoSession
         /\ <<session, sequence + 1>> \in Dispatches
<1>1. TypeOK /\ SessionInv /\ FramesInv /\ frames # <<>> /\ Head(frames).op = "message"
      /\ 1 \in 1..Len(frames) /\ Head(frames) = frames[1]
  BY FramesTyped DEF SeenInv, Received
<1>2. Head(frames).s = sequence + 1 /\ sequence + 1 <= qqCount
  BY <1>1, HeadIsNext DEF Numbered
<1>3. Head(frames).s > 1
  BY <1>1 DEF FramesInv, Marks
<1>4. sequence # NoSequence /\ sequence \in Nat /\ qqCount \in Nat
  BY <1>1, <1>2, <1>3, FramesTyped DEF NoSequence
<1>5. session # NoSession
  BY <1>1, <1>4 DEF SessionInv
<1>6. session \in Sessions /\ sequence + 1 \in 1..MaxMessages
  BY <1>1, <1>2, <1>4, <1>5, BoundsAssumption DEF TypeOK, Sessions, NoSession
<1> QED  BY <1>2, <1>4, <1>5, <1>6 DEF Sequenced, Dispatches

LEMMA ReadyFacts ==
  ASSUME SeenInv, Received("ready")
  PROVE  Sequenced(Head(frames).s) = 1 /\ 1 <= qqCount /\ qqSession # NoSession
<1>1. TypeOK /\ SessionInv /\ FramesInv /\ frames # <<>> /\ Head(frames).op = "ready"
      /\ 1 \in 1..Len(frames) /\ Head(frames) = frames[1]
  BY FramesTyped DEF SeenInv, Received
<1>2. Head(frames).s = 1
  BY <1>1 DEF FramesInv, Marks
<1>3. Head(frames).s <= qqCount
  BY <1>1 DEF FramesInv, Ahead, Numbered
<1> QED  BY <1>1, <1>2, <1>3 DEF SessionInv, Sequenced

LEMMA SessionStep ==
  ASSUME SeenInv, [Next]_vars
  PROVE  SessionOK'
<1> DEFINE Known == <<session, sequence>>
<1>0. /\ SessionOK /\ TypeOK /\ sequence \in Nat /\ qqCount \in Nat /\ qqSession \in Nat
      /\ MaxMessages \in Nat \ {0} /\ MaxSessions \in Nat
  BY Parts, FramesTyped, BoundsAssumption DEF SeenInv
\* The session is kept or forgotten, and QQ's side is left alone.
<1>1. ASSUME UNCHANGED qqVars, UNCHANGED Known \/ (session' = NoSession /\ sequence' = NoSequence),
             phase' \in {"stopped", "dial", "hello", "session"},
             awaitingAck' \in BOOLEAN, silent' \in BOOLEAN
      PROVE  SessionOK'
  BY <1>0, <1>1 DEF SessionOK, SessionInv, qqVars, NoSession, NoSequence
<1>2. ASSUME Dial \/ ProtocolClose \/ ConnectionBreaks  PROVE SessionOK'
  <2>1. /\ UNCHANGED qqVars /\ (UNCHANGED Known \/ (session' = NoSession /\ sequence' = NoSequence))
        /\ phase' \in {"hello", "dial"} /\ awaitingAck' = awaitingAck
    BY <1>2 DEF Dial, ProtocolClose, ConnectionBreaks, Broken
  <2>2. silent' \in BOOLEAN
    BY <1>0, <1>2 DEF Dial, ProtocolClose, ConnectionBreaks, Broken, SessionOK
  <2> QED  BY <1>0, <1>1, <2>1, <2>2 DEF SessionOK
<1>3. ASSUME ResumedDispatch \/ HeartbeatAsked \/ Acknowledged  PROVE SessionOK'
  <2>1. UNCHANGED qqVars /\ UNCHANGED Known /\ UNCHANGED <<phase, silent>>
    BY <1>3 DEF ResumedDispatch, HeartbeatAsked, Acknowledged, runtimeVars
  <2>2. awaitingAck' \in BOOLEAN
    BY <1>0, <1>3 DEF ResumedDispatch, HeartbeatAsked, Acknowledged, runtimeVars, SessionOK
  <2> QED  BY <1>0, <1>1, <2>1, <2>2 DEF SessionOK
<1>4. ASSUME HeartbeatDue \/ HeartbeatOverdue  PROVE SessionOK'
  <2>1. Heartbeat
    BY <1>4 DEF HeartbeatDue, HeartbeatOverdue
  <2>2. UNCHANGED qqVars /\ UNCHANGED Known /\ silent' = silent /\ phase' \in {phase, "dial"}
    BY <2>1 DEF Heartbeat, Broken
  <2>3. awaitingAck' \in BOOLEAN
    BY <1>0, <2>1 DEF Heartbeat, SessionOK
  <2> QED  BY <1>0, <1>1, <2>2, <2>3 DEF SessionOK
<1>5. ASSUME GoesSilent  PROVE SessionOK'
  <2>1. UNCHANGED qqVars /\ UNCHANGED runtimeVars /\ silent' = TRUE
    BY <1>5 DEF GoesSilent
  <2> QED  BY <1>0, <1>1, <2>1 DEF SessionOK, runtimeVars
<1>6. ASSUME \/ SaveConnection \/ DeleteConnection \/ UNCHANGED vars
             \/ \E op \in {"heartbeat", "reconnect", "invalid_resumable"} : QQAsks(op)
      PROVE  SessionOK'
  <2>1. UNCHANGED qqVars /\ UNCHANGED runtimeVars /\ silent' = silent
    BY <1>6 DEF SaveConnection, DeleteConnection, QQAsks, vars
  <2> QED  BY <1>0, <1>1, <2>1 DEF SessionOK, runtimeVars
<1>7. ASSUME ReplaceRuntime \/ PopRuntime  PROVE SessionOK'
  <2>1. UNCHANGED qqVars /\ UNCHANGED Known /\ UNCHANGED <<awaitingAck, silent>> /\ phase' = "stopped"
    BY <1>7 DEF ReplaceRuntime, PopRuntime, Stop
  <2> QED  BY <1>0, <1>1, <2>1 DEF SessionOK
<1>8. ASSUME StartRuntime \/ Restart  PROVE SessionOK'
  <2>1. /\ UNCHANGED qqVars /\ session' = NoSession /\ sequence' = NoSequence
        /\ phase' \in {"stopped", "dial"}
    BY <1>8 DEF StartRuntime, Restart, Launch
  <2>2. awaitingAck' = FALSE /\ silent' = FALSE
    BY <1>8 DEF StartRuntime, Restart, Launch
  <2> QED  BY <1>1, <2>1, <2>2
<1>9. ASSUME QQDispatches  PROVE SessionOK'
  <2>1. /\ UNCHANGED <<phase, session, sequence, silent, qqSession>> /\ awaitingAck' = awaitingAck
        /\ qqCount < MaxMessages /\ qqCount' = qqCount + 1 /\ qqValid' = qqValid /\ qqValid
    BY <1>9 DEF QQDispatches, runtimeVars
  <2>2. qqCount' \in 0..MaxMessages /\ sequence' <= qqCount' /\ qqCount' > 0
    BY <1>0, <2>1 DEF SessionOK, SessionInv
  <2>3. SessionInv'
    BY <1>0, <2>1, <2>2 DEF SessionOK, SessionInv
  <2> QED  BY <1>0, <2>1, <2>2, <2>3 DEF SessionOK
<1>10. ASSUME QQExpires  PROVE SessionOK'
  <2>1. UNCHANGED <<runtimeVars, silent, qqSession, qqCount>> /\ qqValid' = FALSE
    BY <1>10 DEF QQExpires
  <2> QED  BY <1>0, <2>1 DEF SessionOK, SessionInv, runtimeVars
<1>11. ASSUME Hello  PROVE SessionOK'
  <2>1. UNCHANGED <<session, sequence, silent>> /\ phase' = "session" /\ awaitingAck' = FALSE
    BY <1>11 DEF Hello
  <2>2. CASE session # NoSession /\ sequence # NoSequence
    <3>1. UNCHANGED qqVars
      BY <1>11, <2>2 DEF Hello, Resumed
    <3> QED  BY <1>0, <1>1, <2>1, <3>1 DEF SessionOK
  <2>3. CASE ~(session # NoSession /\ sequence # NoSequence)
    <3>0. Identified
      BY <1>11, <2>3 DEF Hello
    <3>1. qqSession < MaxSessions /\ qqSession' = qqSession + 1 /\ qqValid' = TRUE /\ qqCount' = 1
      BY <3>0 DEF Identified
    <3>2. session = NoSession /\ sequence = NoSequence
      BY <1>0, <2>3 DEF SessionOK, SessionInv
    <3>3. qqSession' \in 0..MaxSessions /\ qqSession' # NoSession /\ qqCount' \in 0..MaxMessages
      BY <1>0, <3>1 DEF NoSession
    <3>4. SessionInv'
      BY <2>1, <3>1, <3>2, <3>3 DEF SessionInv, NoSession, NoSequence
    <3> QED  BY <1>0, <2>1, <3>1, <3>3, <3>4 DEF SessionOK
  <2> QED  BY <2>2, <2>3
<1>12. ASSUME Ready  PROVE SessionOK'
  <2>1. /\ sequence' = 1 /\ session' = qqSession /\ 1 <= qqCount /\ qqSession # NoSession
        /\ UNCHANGED qqVars /\ UNCHANGED <<phase, silent>> /\ awaitingAck' = awaitingAck
    BY <1>12, ReadyFacts DEF Ready
  <2>2. SessionInv'
    BY <1>0, <2>1 DEF SessionOK, SessionInv, qqVars, NoSequence
  <2> QED  BY <1>0, <2>1, <2>2 DEF SessionOK, qqVars
<1>13. ASSUME Message \/ MessageFails  PROVE SessionOK'
  <2>1. Received("message") /\ sequence' = Sequenced(Head(frames).s)
    BY <1>13 DEF Message, MessageFails
  <2>2. sequence' = sequence + 1 /\ sequence' <= qqCount /\ session # NoSession
    BY <2>1, MessageFacts
  <2>3. UNCHANGED qqVars /\ session' = session /\ phase' \in {phase, "dial"}
    BY <1>13 DEF Message, MessageFails, Broken
  <2>4. UNCHANGED <<awaitingAck, silent>>
    BY <1>13 DEF Message, MessageFails, Broken
  <2>5. sequence' \in 0..MaxMessages /\ sequence' # NoSequence
    BY <1>0, <2>2 DEF SessionOK, NoSequence
  <2>6. SessionInv'
    BY <1>0, <2>2, <2>3, <2>5 DEF SessionOK, SessionInv, qqVars
  <2> QED  BY <1>0, <2>3, <2>4, <2>5, <2>6 DEF SessionOK, qqVars
<1> QED
  BY <1>2, <1>3, <1>4, <1>5, <1>6, <1>7, <1>8, <1>9, <1>10, <1>11, <1>12, <1>13, Zenon
  DEF Next, Receive

\* The inbox only grows, and the sequence only moves over a dispatch that is
\* claimed, or whose handler raised.
LEMMA InboxStep ==
  ASSUME SeenInv, [Next]_vars
  PROVE  InboxOK'
<1>0. InboxOK /\ SessionOK /\ sequence \in Nat
  BY Parts, FramesTyped DEF SeenInv
<1>1. ASSUME UNCHANGED <<claimed, failed>>, UNCHANGED <<session, sequence>> \/ session' = NoSession
      PROVE  InboxOK'
  BY <1>0, <1>1 DEF InboxOK, SequenceIsSeen
<1>2. ASSUME Ready  PROVE InboxOK'
  <2>1. sequence' = 1 /\ UNCHANGED <<claimed, failed>>
    BY <1>2, ReadyFacts DEF Ready
  <2> QED  BY <1>0, <2>1 DEF InboxOK, SequenceIsSeen
<1>3. ASSUME Message \/ MessageFails  PROVE InboxOK'
  <2>1. Received("message") /\ sequence' = Sequenced(Head(frames).s) /\ session' = session
    BY <1>3 DEF Message, MessageFails
  <2>2. sequence' = sequence + 1 /\ <<session, sequence + 1>> \in Dispatches
        /\ Head(frames).s = sequence + 1
    BY <2>1, MessageFacts
  <2>3. /\ claimed' \cup failed' = claimed \cup failed \cup {<<session, sequence + 1>>}
        /\ claimed' \in SUBSET Dispatches /\ failed' \in SUBSET Dispatches
    BY <1>0, <1>3, <2>2 DEF Message, MessageFails, InboxOK
  <2>4. \A s \in 2..(sequence + 1) : s \in 2..sequence \/ s = sequence + 1
    BY <1>0
  <2>5. SequenceIsSeen'
    BY <1>0, <2>1, <2>2, <2>3, <2>4 DEF InboxOK, SequenceIsSeen
  <2> QED  BY <2>3, <2>5 DEF InboxOK
<1>4. ASSUME \/ Dial \/ Hello \/ ResumedDispatch \/ HeartbeatAsked \/ Acknowledged \/ ProtocolClose
             \/ ConnectionBreaks \/ HeartbeatDue \/ HeartbeatOverdue
      PROVE  InboxOK'
  <2>1. UNCHANGED <<claimed, failed>>
    BY <1>4 DEF Dial, Hello, ResumedDispatch, HeartbeatAsked, Acknowledged, ProtocolClose,
                ConnectionBreaks, HeartbeatDue, HeartbeatOverdue, Heartbeat
  <2>2. UNCHANGED <<session, sequence>> \/ session' = NoSession
    BY <1>4 DEF Dial, Hello, ResumedDispatch, HeartbeatAsked, Acknowledged, ProtocolClose,
                ConnectionBreaks, HeartbeatDue, HeartbeatOverdue, Heartbeat, runtimeVars
  <2> QED  BY <1>1, <2>1, <2>2
<1>5. ASSUME \/ QQDispatches \/ QQExpires \/ GoesSilent \/ SaveConnection \/ DeleteConnection
             \/ \E op \in {"heartbeat", "reconnect", "invalid_resumable"} : QQAsks(op)
      PROVE  InboxOK'
  <2>1. UNCHANGED <<claimed, failed, session, sequence>>
    BY <1>5 DEF QQDispatches, QQExpires, GoesSilent, SaveConnection, DeleteConnection, QQAsks, runtimeVars
  <2> QED  BY <1>1, <2>1
<1>6. ASSUME ReplaceRuntime \/ StartRuntime \/ PopRuntime \/ Restart \/ UNCHANGED vars
      PROVE  InboxOK'
  <2>1. UNCHANGED <<claimed, failed>>
    BY <1>6 DEF ReplaceRuntime, StartRuntime, PopRuntime, Restart, vars
  <2>2. UNCHANGED <<session, sequence>> \/ session' = NoSession
    BY <1>6 DEF ReplaceRuntime, StartRuntime, PopRuntime, Restart, Stop, Launch, vars, runtimeVars
  <2> QED  BY <1>1, <2>1, <2>2
<1> QED
  BY <1>2, <1>3, <1>4, <1>5, <1>6, Zenon DEF Next, Receive

LEMMA SeenInvInit == Init => SeenInv
<1> SUFFICES ASSUME Init  PROVE SeenInv
  OBVIOUS
<1>0. /\ runtime \in BOOLEAN /\ awaitingAck \in BOOLEAN /\ silent \in BOOLEAN /\ qqValid \in BOOLEAN
      /\ ~qqValid
  BY Zenon DEF Init
<1>1. CommandsOK
  <2>1. row = "none" /\ lock = "free" /\ saved = 0 /\ commands = 0 /\ faults = 0
    BY DEF Init
  <2> QED  BY <1>0, <2>1, BoundsAssumption DEF CommandsOK, LockInv
<1>2. SessionOK
  <2>1. /\ phase = "stopped" /\ session = 0 /\ sequence = 0 /\ qqSession = 0 /\ qqCount = 0
    BY DEF Init, NoSession, NoSequence
  <2> QED  BY <1>0, <2>1, BoundsAssumption DEF SessionOK, SessionInv, NoSession, NoSequence
<1>3. InboxOK
  BY DEF Init, InboxOK, SequenceIsSeen
<1>4. frames \in Seq(Frames) /\ PhaseInv
  BY DEF Init, PhaseInv
<1>5. FramesInv
  BY DEF Init, FramesInv, Marks, Ahead, Ascends, Gapless, UpToDate
<1> QED  BY <1>1, <1>2, <1>3, <1>4, <1>5, Parts

LEMMA SeenInvHolds == Spec => []SeenInv
<1>1. SeenInv /\ [Next]_vars => SeenInv'
  <2> SUFFICES ASSUME SeenInv, [Next]_vars  PROVE SeenInv'
    OBVIOUS
  <2>1. CommandsOK' /\ SessionOK' /\ InboxOK'
    BY CommandsStep, SessionStep, InboxStep
  <2>2. FramesInv' /\ PhaseInv' /\ frames' \in Seq(Frames)
    BY FramesStep
  <2> QED  BY <2>1, <2>2 DEF SeenInv, CommandsOK, SessionOK, InboxOK, TypeOK
<1> QED  BY <1>1, SeenInvInit, PTL DEF Spec

\* Every variable keeps its type: no frame, sequence or inbox entry names a
\* dispatch QQ has not made.
THEOREM TypeCorrect == Spec => []TypeOK
<1>1. SeenInv => TypeOK
  BY DEF SeenInv
<1> QED  BY <1>1, SeenInvHolds, PTL

\* The sequence a Resume would name has nothing before it that the inbox misses,
\* over any number of sessions, broken and silent connections, replaced runtimes
\* and restarts, but for messages whose handler raised.
THEOREM ResumeSkipsNothing == Spec => []SequenceIsSeen
<1>1. SeenInv => SequenceIsSeen
  BY DEF SeenInv
<1> QED  BY <1>1, SeenInvHolds, PTL
=============================================================================
