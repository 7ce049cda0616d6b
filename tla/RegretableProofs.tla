-------------------------- MODULE RegretableProofs --------------------------
(***************************************************************************)
(* Proof that RegretableReader implements ReplayStream, for a buffer of    *)
(* any size and a source of any length.                                    *)
(***************************************************************************)
EXTENDS RegretableReader, TLAPS

\* Until it overflows, the buffer holds the last w bytes taken from the source.
Inv ==
  /\ made \in BOOLEAN /\ overflow \in BOOLEAN
  /\ taken \in 0..SourceLen
  /\ w \in 0..Size
  /\ r \in Nat
  /\ buf \in [1..Size -> Nat]
  /\ ~made => r = 0 /\ w = 0 /\ ~overflow
  /\ ~overflow => /\ r <= w /\ w <= taken
                  /\ \A i \in 1..w : buf[i] = taken - w + i

\* A new source has been read to nowhere and nothing is kept.
LEMMA InitInv == Init => Inv
<1> SUFFICES ASSUME Init PROVE Inv
  OBVIOUS
<1>1. ~made /\ ~overflow /\ made \in BOOLEAN /\ overflow \in BOOLEAN
  BY Zenon DEF Init
<1>2. taken = 0 /\ r = 0 /\ w = 0 /\ buf = [i \in 1..Size |-> 0]
  BY DEF Init
<1> QED
  BY <1>1, <1>2, ReaderAssumption DEF Inv

\* Every call leaves the last w bytes of the source in the buffer.
LEMMA StepInv == Inv /\ [Next]_vars => Inv'
<1> SUFFICES ASSUME Inv, [Next]_vars PROVE Inv'
  OBVIOUS
<1> USE ReaderAssumption DEF Inv
<1>1. CASE NewRegretableReader
  BY <1>1 DEF NewRegretableReader
<1>2. CASE Regret
  BY <1>2 DEF Regret
<1>3. CASE Forget
  BY <1>3 DEF Forget
<1>4. ASSUME NEW k \in 0..SourceLen, ReadBuffered(k) PROVE Inv'
  BY <1>4 DEF ReadBuffered, Smaller
<1>5. ASSUME NEW k \in 0..SourceLen, NEW n \in 0..k, ReadDirect(n) PROVE Inv'
  BY <1>5 DEF ReadDirect, Source
<1>6. ASSUME NEW k \in 0..SourceLen, NEW n \in 0..k, ReadSource(n) PROVE Inv'
  <2> DEFINE bn == Smaller(n, Size - w)
  <2>1. bn \in 0..n /\ w + bn \in 0..Size
    BY DEF Smaller
  <2>2. made' = made /\ made /\ ~overflow /\ r = w
    BY <1>6 DEF ReadSource
  <2>3. /\ taken' = taken + n /\ n <= SourceLen - taken
        /\ w' = w + bn /\ r' = w + n
        /\ buf' = [i \in 1..Size |-> IF w < i /\ i <= w + bn THEN taken + (i - w) ELSE buf[i]]
    BY <1>6 DEF ReadSource, Source
  <2>a. overflow' = IF bn < n THEN TRUE ELSE overflow
    BY <1>6 DEF ReadSource
  <2>b. overflow' \in BOOLEAN /\ (overflow' <=> bn < n)
    <3>1. CASE bn < n
      <4>1. overflow' = TRUE
        BY <2>a, <3>1
      <4> QED
        BY <3>1, <4>1
    <3>2. CASE ~(bn < n)
      <4>1. ~overflow' /\ overflow' \in BOOLEAN
        BY <2>a, <2>2, <3>2
      <4> QED
        BY <3>2, <4>1
    <3> QED
      BY <3>1, <3>2
  <2> HIDE DEF bn
  <2>4. buf' \in [1..Size -> Nat]
    BY <2>1, <2>3
  <2>5. ASSUME ~overflow', NEW i \in 1..w' PROVE buf'[i] = taken' - w' + i
    <3>1. bn = n
      BY <2>1, <2>b, <2>5
    <3>2. i \in 1..Size
      BY <2>1, <2>3
    <3> QED
      BY <2>1, <2>2, <2>3, <3>1, <3>2
  <2>6. made' /\ made' \in BOOLEAN
    BY <1>6, Zenon DEF ReadSource
  <2>7. ~overflow' => r' <= w' /\ w' <= taken'
    BY <2>1, <2>2, <2>3, <2>b
  <2> QED
    BY <2>1, <2>2, <2>3, <2>b, <2>4, <2>5, <2>6, <2>7
<1>7. CASE UNCHANGED vars
  BY <1>7 DEF vars
<1> QED
  BY <1>1, <1>2, <1>3, <1>4, <1>5, <1>6, <1>7 DEF Next, Read

\* The inductive invariant of the reader.
LEMMA Invariant == Spec => []Inv
<1>1. Init => Inv
  BY InitInv
<1>2. Inv /\ [Next]_vars => Inv'
  BY StepInv
<1> QED
  BY <1>1, <1>2, PTL DEF Spec

\* Every call of the reader is a step of the stream, or changes nothing there.
LEMMA StepStream == Inv /\ Inv' /\ [Next]_vars => [Stream!Next]_(Stream!vars)
<1> SUFFICES ASSUME Inv, Inv', [Next]_vars PROVE [Stream!Next]_(Stream!vars)
  OBVIOUS
<1> DEFINE Direct == ~made \/ overflow
           Mode == IF Direct THEN "direct" ELSE "replay"
           Cur == IF Direct THEN taken ELSE taken - (w - r)
           Mark == IF Direct THEN taken ELSE taken - w
<1> USE ReaderAssumption DEF Inv
<1>1. CASE NewRegretableReader
  <2>1. Stream!Open
    BY <1>1 DEF NewRegretableReader, Stream!Open
  <2> QED
    BY <2>1 DEF Stream!Next
<1>2. CASE Regret
  <2>1. Stream!Regret
    BY <1>2 DEF Regret, Stream!Regret
  <2> QED
    BY <2>1 DEF Stream!Next
<1>3. CASE Forget
  <2>1. Stream!Forget
    BY <1>3 DEF Forget, Stream!Forget
  <2> QED
    BY <2>1 DEF Stream!Next
<1>4. ASSUME NEW k \in 0..SourceLen, ReadBuffered(k) PROVE Stream!Next
  <2> DEFINE n == Smaller(k, w - r)
  <2>1. n \in 0..SourceLen /\ n <= w - r /\ made /\ ~overflow
    BY <1>4 DEF ReadBuffered, Smaller
  <2>2. /\ out' = [i \in 1..n |-> buf[r + i]] /\ r' = r + n
        /\ UNCHANGED <<made, taken, buf, w, overflow>>
    BY <1>4 DEF ReadBuffered
  <2> HIDE DEF n
  <2>3. out' = [i \in 1..n |-> Cur + i]
    <3>1. ASSUME NEW i \in 1..n PROVE buf[r + i] = Cur + i
      BY <2>1
    <3> QED
      BY <2>2, <3>1
  <2>4. Cur' = Cur + n /\ Mark' = Mark /\ Mode' = "replay" /\ Mode = "replay"
    BY <2>1, <2>2
  <2>5. Stream!Larger(taken, Cur + n) = taken /\ Cur + n <= SourceLen /\ taken - Mark <= Size
    BY <2>1 DEF Stream!Larger
  <2>6. Stream!Read(n)
    BY <2>2, <2>3, <2>4, <2>5 DEF Stream!Read
  <2> QED
    BY <2>1, <2>6 DEF Stream!Next
<1>5. ASSUME NEW k \in 0..SourceLen, NEW n \in 0..k, ReadDirect(n) PROVE Stream!Next
  <2>1. Stream!Read(n)
    BY <1>5 DEF ReadDirect, Source, Stream!Read, Stream!Larger
  <2> QED
    BY <2>1 DEF Stream!Next
<1>6. ASSUME NEW k \in 0..SourceLen, NEW n \in 0..k, ReadSource(n) PROVE Stream!Next
  <2> DEFINE bn == Smaller(n, Size - w)
  <2>1. made /\ made' /\ ~overflow /\ (overflow' <=> bn < n)
    BY <1>6, Zenon DEF ReadSource
  <2>2. /\ taken' = taken + n /\ n <= SourceLen - taken /\ w' = w + bn /\ r' = w + n /\ r = w
        /\ out' = [i \in 1..n |-> taken + i]
    BY <1>6 DEF ReadSource, Source
  <2>3. bn < n <=> w + n > Size
    BY DEF Smaller
  <2>4. ~(bn < n) => bn = n
    BY DEF Smaller
  <2> HIDE DEF bn
  <2>5. Mode = "replay" /\ Cur = taken /\ Mark = taken - w
    BY <2>1, <2>2
  <2>6. Mode' = IF w + n <= Size THEN "replay" ELSE "direct"
    BY <2>1, <2>3, <2>2
  <2>7. Cur' = taken + n /\ Mark' = IF w + n <= Size THEN taken - w ELSE taken + n
    BY <2>1, <2>2, <2>3, <2>4
  <2>8. Stream!Larger(taken, Cur + n) = taken + n
    BY <2>5 DEF Stream!Larger
  <2>9. (Stream!Larger(taken, Cur + n) - Mark <= Size) <=> (w + n <= Size)
    BY <2>5, <2>8
  <2>10. Stream!Read(n)
    BY <2>2, <2>5, <2>6, <2>7, <2>8, <2>9 DEF Stream!Read
  <2> QED
    BY <2>10 DEF Stream!Next
<1>7. CASE UNCHANGED vars
  BY <1>7 DEF vars, Stream!vars
<1> QED
  BY <1>1, <1>2, <1>3, <1>4, <1>5, <1>6, <1>7 DEF Next, Read

\* However a handler reads, regrets and forgets, what it is given is the
\* source's stream replayed from the mark.
THEOREM RegretableImplementsReplay == Spec => ReplaysStream
<1>1. Init => Stream!Init
  BY ReaderAssumption DEF Init, Stream!Init
<1>2. Inv /\ Inv' /\ [Next]_vars => [Stream!Next]_(Stream!vars)
  BY StepStream
<1> QED
  BY <1>1, <1>2, Invariant, PTL DEF Spec, ReplaysStream, Stream!Spec
=============================================================================
