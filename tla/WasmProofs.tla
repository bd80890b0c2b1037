------------------------------ MODULE WasmProofs ------------------------------
(***************************************************************************)
(* Proofs about the WASM binding.                                          *)
(*                                                                         *)
(* RingBuffer, for any capacity that divides the wrap of the indices: the  *)
(* ring is a bounded queue, and with calls for floats only no side ever    *)
(* stops inside one.  Both indices are positions in the stream modulo the  *)
(* wrap, and the bytes from the first unread position to the end of what a *)
(* push has copied so far are where the offsets say.                       *)
(*                                                                         *)
(* WasmWorklet and WamModule, for any number of nodes, parameters and      *)
(* calls: what waits for the module is applied as if it had not waited.    *)
(***************************************************************************)
EXTENDS RingBuffer, WasmWorklet, WamModule, SequenceTheorems, TLAPS

\* The stream from one position up to another.
Stretch(first, end) == [i \in 1..end - first |-> first + i - 1]

\* The indices and the contents, when the bytes before `first' are removed.
Layout(first) ==
  /\ first \in 0..sent /\ sent \in 0..MaxBytes /\ sent - first <= Cap
  /\ read_index = first % Wrap
  /\ write_index = sent % Wrap
  /\ data \in [0..Cap - 1 -> 0..MaxBytes]
  /\ \A k \in first..sent + push.done - 1 : data[k % Cap] = k

\* A push has settled on bytes that fit behind the unread ones.
PushFits(first) ==
  /\ push \in [at : {"idle", "checked", "copy"}, len : Nat, n : Nat, done : Nat]
  /\ push.done <= push.n /\ push.n <= push.len
  /\ sent + push.len <= MaxBytes
  /\ push.at = "copy" => push.n > 0 /\ sent - first + push.n <= Cap
  /\ push.at # "copy" => push.n = 0

\* A pop has settled on bytes that are there, a clear on a position up to which
\* everything was read or is still unread.
PopFits(first) ==
  /\ pop \in [at : {"idle", "checked", "copy", "clear"}, len : Nat, n : Nat, done : Nat]
  /\ pop.at = "copy" =>
       /\ pop.n > 0 /\ pop.n <= sent - first /\ pop.done <= pop.n
       /\ got = Stretch(first, first + pop.done)
  /\ pop.at = "clear" => 
       /\ got = <<>>
       /\ \E end \in first..sent : pop.n = end % Wrap /\ (framed => end % Unit = 0)
  /\ got \in Seq(0..MaxBytes)

\* With float calls only, every count is one of whole floats.
Floats(first) ==
  framed =>
    /\ first % Unit = 0 /\ sent % Unit = 0
    /\ push.at = "checked" => push.len % Unit = 0 /\ sent - first + push.len <= Cap
    /\ push.at = "copy" => push.n % Unit = 0
    /\ pop.at = "checked" => pop.len % Unit = 0 /\ pop.len <= sent - first
    /\ pop.at = "copy" => pop.n % Unit = 0

Held(first) ==
  framed \in BOOLEAN /\ Layout(first) /\ PushFits(first) /\ PopFits(first) /\ Floats(first)
RingInv == \E first \in 0..sent : Held(first)

-----------------------------------------------------------------------------
(* Remainders                                                              *)

\* Division with remainder has one solution.
LEMMA Remainder ==
  ASSUME NEW m \in Nat \ {0}, NEW q \in Int, NEW r \in 0..m - 1
  PROVE  (m * q + r) % m = r
<1> DEFINE n == m * q + r
           d == n \div m
           s == n % m
<1>1. n \in Int
  OBVIOUS
<1>2. d \in Int /\ s \in 0..m - 1 /\ n = m * d + s
  BY <1>1
<1>3. m * (q - d) = s - r
  BY <1>2
<1> HIDE DEF d, s
<1>4. CASE q - d >= 1
  <2>1. m * (q - d) >= m
    BY <1>2, <1>4
  <2> QED
    BY <1>2, <1>3, <2>1
<1>5. CASE q - d <= -1
  <2>1. m * (q - d) <= -m
    BY <1>2, <1>5
  <2> QED
    BY <1>2, <1>3, <2>1
<1>6. q = d
  BY <1>2, <1>4, <1>5
<1>7. s = r
  BY <1>2, <1>3, <1>6
<1> QED
  BY <1>7 DEF s

\* A number is a multiple and its remainder.
LEMMA Division ==
  ASSUME NEW m \in Nat \ {0}, NEW n \in Int
  PROVE  n % m \in 0..m - 1 /\ \E q \in Int : n = m * q + (n % m)
<1>1. n \div m \in Int /\ n % m \in 0..m - 1 /\ n = m * (n \div m) + (n % m)
  OBVIOUS
<1> QED
  BY <1>1

\* The remainder by a divisor does not see what was taken modulo a multiple.
LEMMA SumOfRemainder ==
  ASSUME NEW m \in Nat \ {0}, NEW w \in Nat \ {0}, w % m = 0, NEW a \in Int, NEW b \in Int
  PROVE  ((a % w) + b) % m = (a + b) % m
<1>0. w \in Int /\ a + b \in Int
  OBVIOUS
<1>1. PICK k \in Int : w = m * k + (w % m)
  BY <1>0, Division
<1>2. PICK q \in Int : a = w * q + (a % w)
  BY <1>0, Division
<1>3. PICK p \in Int : a + b = m * p + ((a + b) % m)
  BY <1>0, Division
<1>4. (a + b) % m \in 0..m - 1 /\ a % w \in Int
  BY Division
<1> DEFINE s == (a + b) % m
           r == a % w
<1>5. r + b = m * (p - k * q) + s
  <2>1. w = m * k /\ a = w * q + r /\ a + b = m * p + s
    BY <1>1, <1>2, <1>3
  <2> HIDE DEF s, r
  <2>2. a = (m * k) * q + r
    BY <2>1
  <2>3. (m * k) * q = m * (k * q)
    OBVIOUS
  <2>4. m * (p - k * q) = m * p - m * (k * q)
    OBVIOUS
  <2>5. r \in Int /\ s \in Int
    BY <1>4 DEF r, s
  <2>6. k * q \in Int /\ m * (k * q) \in Int /\ m * p \in Int /\ m * (p - k * q) \in Int
    OBVIOUS
  <2>7. a = m * (k * q) + r
    BY <2>2, <2>3
  <2> HIDE <2>1
  <2> QED
    BY <2>1, <2>4, <2>5, <2>6, <2>7
<1>6. p - k * q \in Int
  OBVIOUS
<1>7. (m * (p - k * q) + s) % m = s
  <2> HIDE DEF s
  <2> QED
    BY <1>4, <1>6, Remainder DEF s
<1> QED
  BY <1>5, <1>7

\* Numbers less than m apart have the same remainder only when they are equal.
LEMMA Apart ==
  ASSUME NEW m \in Nat \ {0}, NEW x \in Int, NEW y \in Int, x < y, y < x + m
  PROVE  x % m # y % m
<1> SUFFICES ASSUME x % m = y % m PROVE FALSE
  OBVIOUS
<1>1. PICK p \in Int : x = m * p + (x % m)
  BY Division
<1>2. PICK q \in Int : y = m * q + (y % m)
  BY Division
<1>3. x % m \in Int
  BY Division
<1>4. m * (q - p) = y - x
  <2>1. m * (q - p) = m * q - m * p
    OBVIOUS
  <2>2. m * q \in Int /\ m * p \in Int
    OBVIOUS
  <2> QED
    BY <1>1, <1>2, <1>3, <2>1, <2>2
<1>5. CASE q - p >= 1
  <2>1. m * (q - p) >= m
    BY <1>5
  <2> QED
    BY <1>4, <2>1
<1>6. CASE q - p <= 0
  <2>1. m * (q - p) <= 0
    BY <1>6
  <2> QED
    BY <1>4, <2>1
<1> QED
  BY <1>5, <1>6

\* A multiple plus a multiple, or minus one, is one.
LEMMA Multiples ==
  ASSUME NEW m \in Nat \ {0}, NEW a \in Int, NEW b \in Int, a % m = 0, b % m = 0
  PROVE  (a + b) % m = 0 /\ (a - b) % m = 0
<1>1. PICK p \in Int : a = m * p + (a % m)
  BY Division
<1>2. PICK q \in Int : b = m * q + (b % m)
  BY Division
<1>3. a + b = m * (p + q) + 0 /\ a - b = m * (p - q) + 0
  <2>1. m * (p + q) = m * p + m * q /\ m * (p - q) = m * p - m * q
    OBVIOUS
  <2>2. m * q \in Int /\ m * p \in Int
    OBVIOUS
  <2> QED
    BY <1>1, <1>2, <2>1, <2>2
<1>4. p + q \in Int /\ p - q \in Int /\ 0 \in 0..m - 1
  OBVIOUS
<1> QED
  BY <1>3, <1>4, Remainder

-----------------------------------------------------------------------------
(* The ring                                                                *)

LEMMA Sizes == Cap \in Nat \ {0} /\ Wrap \in Nat \ {0} /\ Unit \in Nat \ {0}
BY CapAssumption, UnitAssumption

\* An index and a count lead to the place of a position of the stream.
LEMMA Places ==
  ASSUME NEW x \in Nat, NEW d \in Nat
  PROVE  /\ Offset((x % Wrap) + d) = (x + d) % Cap /\ (x + d) % Cap \in 0..Cap - 1
         /\ ((x % Wrap) + d) % Wrap = (x + d) % Wrap
<1>1. Wrap % Wrap = 0
  <2>1. Wrap * 1 + 0 = Wrap /\ 1 \in Int /\ 0 \in 0..Wrap - 1
    BY Sizes
  <2> QED
    BY <2>1, Sizes, Remainder
<1>. x \in Int /\ d \in Int
  OBVIOUS
<1>2. ((x % Wrap) + d) % Wrap = (x + d) % Wrap
  BY <1>1, Sizes, SumOfRemainder
<1>3. ((x % Wrap) + d) % Cap = (x + d) % Cap
  BY CapAssumption, Sizes, SumOfRemainder
<1>4. (x + d) % Cap \in 0..Cap - 1
  <2>1. x + d \in Int
    OBVIOUS
  <2> QED
    BY <2>1, Sizes, Division
<1> QED
  BY <1>2, <1>3, <1>4 DEF Offset

\* The fill level is the distance of two positions.
LEMMA Distance ==
  ASSUME NEW x \in Nat, NEW y \in Nat, x <= y, y - x <= Cap
  PROVE  Filled(y % Wrap, x % Wrap) = y - x
<1> DEFINE r == x % Wrap
           s == y % Wrap
<1>. x \in Int /\ y \in Int
  OBVIOUS
<1>1. PICK q \in Int : x = Wrap * q + r
  BY Sizes, Division
<1>2. PICK p \in Int : y = Wrap * p + s
  BY Sizes, Division
<1>3. r \in Int /\ s \in Int
  BY Sizes, Division
<1> HIDE DEF r, s
<1>4. s + Wrap - r = Wrap * (q - p + 1) + (y - x)
  <2>1. Wrap * (q - p + 1) = Wrap * q - Wrap * p + Wrap
    BY Sizes
  <2>2. Wrap * q \in Int /\ Wrap * p \in Int
    BY Sizes
  <2> QED
    BY <1>1, <1>2, <1>3, <2>1, <2>2, Sizes
<1>5. q - p + 1 \in Int /\ y - x \in 0..Wrap - 1
  BY CapAssumption
<1>6. (s + Wrap - r) % Wrap = y - x
  BY <1>4, <1>5, Sizes, Remainder
<1> QED
  BY <1>6 DEF Filled, r, s

\* What the indices and the offsets show of a layout.
LEMMA Contents ==
  ASSUME NEW first \in Nat, Layout(first), PushFits(first)
  PROVE  /\ Filled(write_index, read_index) = sent - first
         /\ [i \in 1..Filled(write_index, read_index) |-> data[Offset(read_index + i - 1)]]
              = Stretch(first, sent)
<1>1. first \in Nat /\ sent \in Nat /\ first <= sent /\ sent - first <= Cap
  BY UnitAssumption DEF Layout
<1>2. Filled(write_index, read_index) = sent - first
  BY <1>1, Distance DEF Layout
<1>3. ASSUME NEW i \in 1..sent - first
      PROVE  data[Offset(read_index + i - 1)] = first + i - 1
  <2>1. i - 1 \in Nat /\ first + (i - 1) \in first..sent + push.done - 1
    BY <1>1 DEF PushFits
  <2>2. read_index \in Nat /\ read_index + i - 1 = read_index + (i - 1)
    BY <1>1, Sizes, Division DEF Layout
  <2>3. Offset(read_index + i - 1) = (first + (i - 1)) % Cap
    BY <2>1, <2>2, <1>1, Places DEF Layout
  <2>4. data[(first + (i - 1)) % Cap] = first + (i - 1)
    BY <2>1 DEF Layout
  <2> QED
    BY <2>3, <2>4, <1>1
<1> QED
  BY <1>2, <1>3 DEF Stretch

\* Rounding down to whole floats.
LEMMA Rounded ==
  ASSUME NEW n \in Nat
  PROVE  WholeFloatsOf(n) \in 0..n /\ WholeFloatsOf(n) % Unit = 0
<1> DEFINE d == n \div Unit
<1>1. d \in Int /\ n = Unit * d + (n % Unit) /\ n % Unit \in 0..Unit - 1
  BY Sizes
<1> HIDE DEF d
<1>2. d * Unit = Unit * d + 0 /\ Unit * d \in Int
  BY <1>1, Sizes
<1>3. (Unit * d + 0) % Unit = 0
  BY <1>1, Sizes, Remainder
<1>4. Unit * d >= 0
  <2>1. CASE d >= 0
    BY <2>1, <1>1, Sizes
  <2>2. CASE d <= -1
    <3>1. Unit * d <= -Unit
      BY <2>2, <1>1, Sizes
    <3> QED
      BY <3>1, <1>1, <1>2, Sizes
  <2> QED
    BY <2>1, <2>2, <1>1
<1> QED
  BY <1>1, <1>2, <1>3, <1>4, Sizes DEF WholeFloatsOf, d

-----------------------------------------------------------------------------
(* The invariant                                                           *)

LEMMA InitHeld == RingInit => Held(0)
<1> SUFFICES ASSUME RingInit PROVE Held(0)
  OBVIOUS
<1>1. ASSUME NEW m \in Nat \ {0} PROVE 0 % m = 0
  <2>1. m * 0 + 0 = 0 /\ 0 \in Int /\ 0 \in 0..m - 1
    OBVIOUS
  <2> QED
    BY <2>1, Remainder
<1>2. 0 % Wrap = 0 /\ 0 % Unit = 0
  BY <1>1, Sizes
<1>3. Layout(0)
  BY <1>2, Sizes, UnitAssumption DEF RingInit, Layout, Idle
<1>4. PushFits(0) /\ PopFits(0)
  BY UnitAssumption DEF RingInit, PushFits, PopFits, Idle
<1> QED
  BY <1>2, <1>3, <1>4 DEF RingInit, Held, Floats, Idle

\* Loading the indices: the push takes what is free, all of it for floats.
LEMMA PushLoadKeeps ==
  ASSUME NEW first \in Nat, Held(first), NEW len \in Nat, PushLoad(len),
         push.at # "copy", sent + len <= MaxBytes,
         framed => len % Unit = 0 /\ sent - first + len <= Cap
  PROVE  Held(first)'
<1>1. Layout(first) /\ PushFits(first) /\ PopFits(first) /\ Floats(first)
  BY DEF Held
<1>2. sent \in Nat /\ sent - first \in 0..Cap
  BY <1>1, UnitAssumption DEF Layout
<1> DEFINE n == Lesser(len, Cap - (sent - first))
<1>3. n \in Nat /\ n <= len /\ n <= Cap - (sent - first)
  BY <1>2, Sizes DEF Lesser
<1>4. framed => n = len
  BY <1>2, Sizes DEF Lesser
<1>5. push' = IF n = 0 THEN Idle ELSE Copying(len, n)
  BY <1>1, Contents DEF PushLoad
<1>6. UNCHANGED <<framed, read_index, write_index, data, pop, sent, got>>
  BY DEF PushLoad
<1> HIDE DEF n
<1>7. push'.done = 0 /\ push.done = 0
  BY <1>1, <1>5 DEF PushFits, Idle, Copying
<1>8. Layout(first)'
  BY <1>1, <1>6, <1>7 DEF Layout
<1>9. PushFits(first)'
  BY <1>1, <1>2, <1>3, <1>5, <1>6, Sizes DEF PushFits, Idle, Copying, Layout
<1>10. PopFits(first)'
  BY <1>1, <1>6 DEF PopFits
<1>11. Floats(first)'
  BY <1>1, <1>4, <1>5, <1>6 DEF Floats, Idle, Copying
<1> QED
  BY <1>6, <1>8, <1>9, <1>10, <1>11 DEF Held

\* A byte goes behind the unread ones, to an offset none of them has.
LEMMA PushByteKeeps ==
  ASSUME NEW first \in Nat, Held(first), PushByte PROVE Held(first)'
<1>1. Layout(first) /\ PushFits(first) /\ PopFits(first) /\ Floats(first)
  BY DEF Held
<1>2. /\ sent \in Nat /\ sent - first \in 0..Cap
      /\ push.done \in Nat /\ push.n \in Nat /\ push.len \in Nat
  BY <1>1, UnitAssumption DEF Layout, PushFits
<1> DEFINE x == sent + push.done
<1>3. x \in Nat /\ x < first + Cap /\ x < MaxBytes
  BY <1>1, <1>2, Sizes, UnitAssumption DEF PushByte, PushFits
<1>4. Offset(write_index + push.done) = x % Cap /\ x % Cap \in 0..Cap - 1
  BY <1>1, <1>2, Places DEF Layout
<1>5. data' = [data EXCEPT ![x % Cap] = x]
  BY <1>4 DEF PushByte
<1>6. push' = [push EXCEPT !.done = @ + 1] /\ push.done < push.n
  BY DEF PushByte
<1>7. UNCHANGED <<framed, read_index, write_index, pop, sent, got>>
  BY DEF PushByte
<1>8. /\ push' \in [at : {"idle", "checked", "copy"}, len : Nat, n : Nat, done : Nat]
      /\ push'.at = push.at /\ push'.len = push.len
      /\ push'.n = push.n /\ push'.done = push.done + 1
  BY <1>1, <1>6 DEF PushFits
<1>9. Layout(first)'
  <2>1. data' \in [0..Cap - 1 -> 0..MaxBytes] /\ data'[x % Cap] = x
    BY <1>1, <1>3, <1>4, <1>5, UnitAssumption DEF Layout
  <2>2. ASSUME NEW k \in first..x - 1 PROVE data'[k % Cap] = k
    <3>1. k \in Int /\ x \in Int /\ k < x /\ x < k + Cap
      BY <1>3, Sizes
    <3>2. k % Cap # x % Cap
      BY <3>1, Sizes, Apart
    <3>3. k % Cap \in 0..Cap - 1
      BY <3>1, Sizes, Division
    <3>4. data[k % Cap] = k
      BY <1>1, <1>2 DEF Layout
    <3> QED
      BY <1>1, <1>5, <3>2, <3>3, <3>4 DEF Layout
  <2>3. \A k \in first..x : data'[k % Cap] = k
    BY <1>3, <2>1, <2>2
  <2>4. sent' + push'.done - 1 = x
    BY <1>2, <1>7, <1>8
  <2> QED
    BY <1>1, <1>7, <2>1, <2>3, <2>4 DEF Layout
<1>10. PushFits(first)'
  BY <1>1, <1>2, <1>6, <1>7, <1>8 DEF PushFits
<1>11. PopFits(first)'
  BY <1>1, <1>7 DEF PopFits
<1>12. Floats(first)'
  BY <1>1, <1>7, <1>8 DEF Floats
<1> QED
  BY <1>7, <1>9, <1>10, <1>11, <1>12 DEF Held

\* The bytes that were copied become unread ones.
LEMMA PushCommitKeeps ==
  ASSUME NEW first \in Nat, Held(first), PushCommit PROVE Held(first)'
<1>1. Layout(first) /\ PushFits(first) /\ PopFits(first) /\ Floats(first)
  BY DEF Held
<1>2. sent \in Nat /\ first <= sent /\ push.n \in Nat /\ push.len \in Nat /\ MaxBytes \in Nat
  BY <1>1, UnitAssumption DEF Layout, PushFits
<1>3. write_index' = (sent + push.n) % Wrap
  BY <1>1, <1>2, Places DEF PushCommit, Layout
<1>4. /\ sent' = sent + push.n /\ push' = Idle /\ push.at = "copy" /\ push.done = push.n
      /\ UNCHANGED <<framed, read_index, data, pop, got>>
  BY DEF PushCommit
<1>5. Layout(first)'
  <2>1. sent' + push'.done - 1 = sent + push.done - 1
    BY <1>2, <1>4 DEF Idle
  <2>2. sent' \in 0..MaxBytes /\ first \in 0..sent' /\ sent' - first <= Cap
    BY <1>1, <1>2, <1>4 DEF PushFits
  <2> QED
    BY <1>1, <1>3, <1>4, <2>1, <2>2 DEF Layout
<1>6. PushFits(first)'
  <2>1. sent' + 0 <= MaxBytes
    BY <1>1, <1>2, <1>4 DEF PushFits
  <2> QED
    BY <1>4, <2>1 DEF PushFits, Idle
<1>7. PopFits(first)'
  <2>1. first..sent \subseteq first..sent' /\ sent - first <= sent' - first
    BY <1>2, <1>4
  <2> QED
    BY <1>1, <1>2, <1>4, <2>1 DEF PopFits
<1>8. Floats(first)'
  <2>1. framed => sent' % Unit = 0
    BY <1>1, <1>2, <1>4, Sizes, Multiples DEF Floats
  <2> QED
    BY <1>1, <1>2, <1>4, <2>1 DEF Floats, Idle, PopFits
<1> QED
  BY <1>4, <1>5, <1>6, <1>7, <1>8 DEF Held

\* What the producer does leaves the unread bytes and their places alone.
LEMMA ProduceKeeps ==
  ASSUME NEW first \in Nat, Held(first), Produce PROVE Held(first)'
<1>1. Layout(first) /\ PushFits(first) /\ PopFits(first) /\ Floats(first)
  BY DEF Held
<1>2. sent - first \in 0..Cap /\ Filled(write_index, read_index) = sent - first
  BY <1>1, Contents, UnitAssumption DEF Layout
<1>3. ASSUME NEW len \in 1..Cap + 1, Push(len) PROVE Held(first)'
  BY <1>3, PushLoadKeeps DEF Push
<1>4. ASSUME NEW len \in 1..Cap + 1, PushFloats(len) PROVE Held(first)'
  <2>1. push' = [Idle EXCEPT !.at = "checked", !.len = len]
    BY <1>4 DEF PushFloats
  <2>2. UNCHANGED <<framed, read_index, write_index, data, pop, sent, got>>
    BY <1>4 DEF PushFloats
  <2>3. sent + len <= MaxBytes /\ len % Unit = 0 /\ sent - first + len <= Cap
    BY <1>2, <1>4, Sizes DEF PushFloats
  <2>4. push' = [at |-> "checked", len |-> len, n |-> 0, done |-> 0]
    BY <2>1 DEF Idle
  <2>5. push'.done = 0 /\ push.done = 0
    <3>1. push.at = "idle"
      BY <1>4 DEF PushFloats
    <3> QED
      BY <1>1, <3>1, <2>4 DEF PushFits
  <2>6. Layout(first)'
    BY <1>1, <2>2, <2>5 DEF Layout
  <2>7. PushFits(first)'
    BY <2>2, <2>3, <2>4, Sizes DEF PushFits
  <2>8. PopFits(first)' /\ Floats(first)'
    BY <1>1, <2>2, <2>3, <2>4 DEF PopFits, Floats
  <2> QED
    BY <2>2, <2>6, <2>7, <2>8 DEF Held
<1>5. CASE PushChecked
  BY <1>1, <1>5, PushLoadKeeps DEF PushChecked, PushFits, Floats
<1> QED
  BY <1>3, <1>4, <1>5, PushByteKeeps, PushCommitKeeps DEF Produce

-----------------------------------------------------------------------------
\* A stretch grows by its next position.
LEMMA StretchGrows ==
  ASSUME NEW first \in Nat, NEW end \in Nat, first <= end
  PROVE  /\ Stretch(first, first) = <<>>
         /\ Append(Stretch(first, end), end) = Stretch(first, end + 1)
<1>1. Stretch(first, end) \in Seq(Nat) /\ Len(Stretch(first, end)) = end - first
  BY DEF Stretch
<1>2. Stretch(first, end + 1) \in Seq(Nat) /\ Len(Stretch(first, end + 1)) = end - first + 1
  BY DEF Stretch
<1>3. Append(Stretch(first, end), end) \in Seq(Nat)
      /\ Len(Append(Stretch(first, end), end)) = end - first + 1
  BY <1>1, AppendProperties
<1>4. ASSUME NEW i \in 1..end - first + 1
      PROVE  Append(Stretch(first, end), end)[i] = Stretch(first, end + 1)[i]
  <2>1. CASE i = end - first + 1
    BY <1>1, <2>1, AppendProperties DEF Stretch
  <2>2. CASE i \in 1..end - first
    BY <1>1, <2>2, AppendProperties DEF Stretch
  <2>3. i = end - first + 1 \/ i \in 1..end - first
    OBVIOUS
  <2> QED
    BY <2>1, <2>2, <2>3
<1>5. Append(Stretch(first, end), end) = Stretch(first, end + 1)
  BY <1>2, <1>3, <1>4, SeqEqual
<1>6. Stretch(first, first) = <<>>
  BY EmptySeq DEF Stretch
<1> QED
  BY <1>5, <1>6

\* Loading the indices: the pop takes what is there, all of it for floats.
LEMMA PopLoadKeeps ==
  ASSUME NEW first \in Nat, Held(first), NEW len \in Nat, PopLoad(len),
         framed => len % Unit = 0 /\ len <= sent - first
  PROVE  Held(first)'
<1>1. Layout(first) /\ PushFits(first) /\ PopFits(first) /\ Floats(first)
  BY DEF Held
<1>2. sent \in Nat /\ sent - first \in 0..Cap
  BY <1>1, UnitAssumption DEF Layout
<1> DEFINE n == Lesser(len, sent - first)
<1>3. n \in Nat /\ n <= sent - first /\ (framed => n = len)
  BY <1>2, Sizes DEF Lesser
<1>4. pop' = IF n = 0 THEN Idle ELSE Copying(len, n)
  BY <1>1, Contents DEF PopLoad
<1>5. got' = <<>> /\ UNCHANGED <<framed, read_index, write_index, data, push, sent>>
  BY DEF PopLoad
<1> HIDE DEF n
<1>6. got' = Stretch(first, first + 0) /\ got' \in Seq(0..MaxBytes)
  BY <1>5, StretchGrows, EmptySeq
<1>7. Layout(first)' /\ PushFits(first)'
  BY <1>1, <1>5 DEF Layout, PushFits
<1>8. PopFits(first)'
  BY <1>2, <1>3, <1>4, <1>5, <1>6 DEF PopFits, Idle, Copying
<1>9. Floats(first)'
  BY <1>1, <1>3, <1>4, <1>5 DEF Floats, Idle, Copying
<1> QED
  BY <1>5, <1>7, <1>8, <1>9 DEF Held

\* The byte that is read is the next position.
LEMMA PopByteKeeps ==
  ASSUME NEW first \in Nat, Held(first), PopByte PROVE Held(first)'
<1>1. Layout(first) /\ PushFits(first) /\ PopFits(first) /\ Floats(first)
  BY DEF Held
<1>2. /\ pop.at = "copy" /\ pop.done < pop.n /\ pop' = [pop EXCEPT !.done = @ + 1]
      /\ UNCHANGED <<framed, read_index, write_index, data, push, sent>>
  BY DEF PopByte
<1>3. /\ sent \in 0..MaxBytes /\ pop.done \in Nat /\ pop.n \in Nat /\ pop.n <= sent - first
      /\ MaxBytes \in Nat
  BY <1>1, <1>2, UnitAssumption DEF Layout, PopFits
<1> DEFINE x == first + pop.done
<1>4. x \in first..sent + push.done - 1 /\ x \in 0..MaxBytes /\ first <= x /\ x \in Nat
  BY <1>1, <1>2, <1>3 DEF PushFits
<1>5. data[Offset(read_index + pop.done)] = x
  BY <1>1, <1>3, <1>4, Places DEF Layout
<1>6. got' = Append(got, x)
  BY <1>5 DEF PopByte
<1>7. got' \in Seq(0..MaxBytes)
  BY <1>1, <1>4, <1>6, AppendProperties DEF PopFits
<1>8. got' = Stretch(first, first + (pop.done + 1))
  <2>1. got' = Stretch(first, x + 1)
    BY <1>1, <1>2, <1>4, <1>6, StretchGrows DEF PopFits
  <2> QED
    BY <2>1, <1>3
<1>9. /\ pop' \in [at : {"idle", "checked", "copy", "clear"}, len : Nat, n : Nat, done : Nat]
      /\ pop'.at = pop.at /\ pop'.n = pop.n /\ pop'.done = pop.done + 1
  <2>1. pop \in [at : {"idle", "checked", "copy", "clear"}, len : Nat, n : Nat, done : Nat]
    BY <1>1 DEF PopFits
  <2> QED
    BY <1>2, <2>1
<1>10. Layout(first)' /\ PushFits(first)'
  BY <1>1, <1>2 DEF Layout, PushFits
<1>11. PopFits(first)'
  BY <1>1, <1>2, <1>3, <1>7, <1>8, <1>9 DEF PopFits
<1>12. Floats(first)'
  BY <1>1, <1>2, <1>9 DEF Floats
<1> QED
  BY <1>2, <1>10, <1>11, <1>12 DEF Held

\* Storing the read index removes what comes before it.
LEMMA Removes ==
  ASSUME NEW first \in Nat, Held(first), NEW end \in first..sent, framed => end % Unit = 0,
         read_index' = end % Wrap, pop' = Idle,
         UNCHANGED <<framed, write_index, data, push, sent, got>>
  PROVE  Held(end)'
<1>1. Layout(first) /\ PushFits(first) /\ PopFits(first) /\ Floats(first)
  BY DEF Held
<1>2. sent \in Nat /\ sent - first \in 0..Cap /\ push.n \in Nat /\ push.len \in Nat /\ end \in Nat
  BY <1>1, UnitAssumption DEF Layout, PushFits
<1>3. Layout(end)'
  <2>1. end \in 0..sent /\ sent - end <= Cap
    BY <1>2, Sizes
  <2>2. end..sent + push.done - 1 \subseteq first..sent + push.done - 1
    BY <1>1, <1>2 DEF PushFits
  <2> QED
    BY <1>1, <2>1, <2>2 DEF Layout
<1>4. PushFits(end)'
  BY <1>1, <1>2, Sizes DEF PushFits
<1>5. PopFits(end)'
  BY <1>1 DEF PopFits, Idle
<1>6. Floats(end)'
  BY <1>1, <1>2, Sizes DEF Floats, Idle
<1> QED
  BY <1>3, <1>4, <1>5, <1>6 DEF Held

LEMMA PopCommitRemoves ==
  ASSUME NEW first \in Nat, Held(first), PopCommit
  PROVE  \E end \in first..sent : end = first + pop.n /\ Held(end)'
<1>1. Layout(first) /\ PushFits(first) /\ PopFits(first) /\ Floats(first)
  BY DEF Held
<1>2. pop.at = "copy" /\ pop.n \in Nat /\ sent \in Nat /\ pop.n <= sent - first
  BY <1>1, UnitAssumption DEF PopCommit, PopFits, Layout
<1>3. PICK end \in first..sent : end = first + pop.n
  BY <1>2
<1>4. framed => end % Unit = 0
  BY <1>1, <1>2, <1>3, Sizes, Multiples DEF Floats
<1>5. read_index' = end % Wrap
  BY <1>1, <1>2, <1>3, Places DEF PopCommit, Layout
<1>6. pop' = Idle /\ UNCHANGED <<framed, write_index, data, push, sent, got>>
  BY DEF PopCommit
<1>7. Held(end)'
  BY <1>4, <1>5, <1>6, Removes
<1> QED
  BY <1>3, <1>7

LEMMA ClearRemoves ==
  ASSUME NEW first \in Nat, Held(first), ClearStore
  PROVE  \E end \in first..sent : Held(end)'
<1>1. PICK end \in first..sent : pop.n = end % Wrap /\ (framed => end % Unit = 0)
  BY DEF Held, PopFits, ClearStore
<1>2. Held(end)'
  BY <1>1, Removes DEF ClearStore
<1> QED
  BY <1>2

\* What the consumer does, except for storing the read index.
LEMMA ConsumeKeeps ==
  ASSUME NEW first \in Nat, Held(first), Consume, ~PopCommit, ~ClearStore
  PROVE  Held(first)'
<1>1. Layout(first) /\ PushFits(first) /\ PopFits(first) /\ Floats(first)
  BY DEF Held
<1>2. sent \in Nat /\ sent - first \in 0..Cap /\ Filled(write_index, read_index) = sent - first
  BY <1>1, Contents, UnitAssumption DEF Layout
<1>3. ASSUME NEW len \in 1..Cap + 1, Pop(len) PROVE Held(first)'
  BY <1>3, PopLoadKeeps DEF Pop
<1>4. ASSUME NEW len \in 1..Cap + 1, PopFloats(len) PROVE Held(first)'
  <2> DEFINE n == Lesser(len, WholeFloatsOf(sent - first))
  <2>1. pop' = [Idle EXCEPT !.at = "checked", !.len = n] /\ len % Unit = 0
    BY <1>2, <1>4 DEF PopFloats
  <2>2. UNCHANGED <<framed, read_index, write_index, data, push, sent, got>>
    BY <1>4 DEF PopFloats
  <2>3. n \in Nat /\ n <= sent - first /\ n % Unit = 0
    BY <1>2, <2>1, Rounded, Sizes DEF Lesser
  <2> HIDE DEF n
  <2>4. pop' = [at |-> "checked", len |-> n, n |-> 0, done |-> 0]
    BY <2>1 DEF Idle
  <2>5. Layout(first)' /\ PushFits(first)'
    BY <1>1, <2>2 DEF Layout, PushFits
  <2>6. PopFits(first)' /\ Floats(first)'
    BY <1>1, <2>2, <2>3, <2>4 DEF PopFits, Floats
  <2> QED
    BY <2>2, <2>5, <2>6 DEF Held
<1>5. CASE PopChecked
  BY <1>1, <1>5, PopLoadKeeps DEF PopChecked, PopFits, Floats
<1>6. CASE ClearLoad
  <2>1. /\ pop' = [at |-> "clear", len |-> 0, n |-> write_index, done |-> 0] /\ got' = <<>>
        /\ UNCHANGED <<framed, read_index, write_index, data, push, sent>>
    BY <1>6 DEF ClearLoad, Idle
  <2>2. write_index = sent % Wrap /\ write_index \in Nat /\ sent \in first..sent
    BY <1>1, <1>2, Sizes, Division DEF Layout
  <2>3. framed => sent % Unit = 0
    BY <1>1 DEF Floats
  <2>4. Layout(first)' /\ PushFits(first)'
    BY <1>1, <2>1 DEF Layout, PushFits
  <2>5. got' \in Seq(0..MaxBytes)
    BY <2>1, EmptySeq
  <2>6. PopFits(first)'
    BY <2>1, <2>2, <2>3, <2>5 DEF PopFits
  <2>7. Floats(first)'
    BY <1>1, <2>1 DEF Floats
  <2> QED
    BY <2>1, <2>4, <2>6, <2>7 DEF Held
<1> QED
  BY <1>3, <1>4, <1>5, <1>6, PopByteKeeps DEF Consume

-----------------------------------------------------------------------------
LEMMA RingInvInit == RingInit => RingInv
<1> SUFFICES ASSUME RingInit PROVE RingInv
  OBVIOUS
<1>1. Held(0) /\ sent = 0
  BY InitHeld DEF RingInit
<1> QED
  BY <1>1 DEF RingInv

LEMMA RingInvKept == RingInv /\ [RingNext]_ringVars => RingInv'
<1> SUFFICES ASSUME RingInv, [RingNext]_ringVars PROVE RingInv'
  OBVIOUS
<1>1. PICK first \in 0..sent : Held(first)
  BY DEF RingInv
<1>2. first \in Nat
  OBVIOUS
<1>3. ASSUME NEW end \in Nat, Held(end)' PROVE RingInv'
  BY <1>3 DEF RingInv, Held, Layout
<1>4. CASE Produce
  BY <1>1, <1>2, <1>3, <1>4, ProduceKeeps
<1>5. CASE PopCommit
  <2>1. PICK end \in first..sent : Held(end)'
    BY <1>1, <1>2, <1>5, PopCommitRemoves
  <2> QED
    BY <1>2, <1>3, <2>1
<1>6. CASE ClearStore
  <2>1. PICK end \in first..sent : Held(end)'
    BY <1>1, <1>2, <1>6, ClearRemoves
  <2> QED
    BY <1>2, <1>3, <2>1
<1>7. CASE Consume /\ ~PopCommit /\ ~ClearStore
  BY <1>1, <1>2, <1>3, <1>7, ConsumeKeeps
<1>8. CASE UNCHANGED ringVars
  BY <1>1, <1>2, <1>3, <1>8 DEF ringVars, Held, Layout, PushFits, PopFits, Floats
<1> QED
  BY <1>4, <1>5, <1>6, <1>7, <1>8 DEF RingNext

\* The invariant holds in every state of every behaviour.
LEMMA RingAlwaysInv == RingSpec => []RingInv
BY RingInvInit, RingInvKept, PTL DEF RingSpec

\* Type correctness of both sides of the ring.
THEOREM TypeCorrect == RingSpec => []RingTypeOK
<1>1. RingInv => RingTypeOK
  <2> SUFFICES ASSUME NEW first \in 0..sent, Held(first) PROVE RingTypeOK
    BY DEF RingInv
  <2>1. sent \in Nat /\ read_index \in 0..Wrap - 1 /\ write_index \in 0..Wrap - 1
    BY Sizes, Division, UnitAssumption DEF Held, Layout
  <2> QED
    BY <2>1 DEF RingTypeOK, Held, Layout, PushFits, PopFits
<1> QED
  BY <1>1, RingAlwaysInv, PTL

\* When only floats are pushed and popped, pushFloats() and popFloats() leave
\* both indices between two floats, also across the wrap.
THEOREM StopsBetweenFloats == RingSpec => []WholeFloats
<1>1. RingInv => WholeFloats
  <2> SUFFICES ASSUME NEW first \in 0..sent, Held(first), framed
               PROVE  read_index % Unit = 0 /\ write_index % Unit = 0
    BY DEF RingInv, WholeFloats
  <2>1. first \in Int /\ sent \in Int /\ first % Unit = 0 /\ sent % Unit = 0
        /\ read_index = first % Wrap /\ write_index = sent % Wrap
    BY UnitAssumption DEF Held, Layout, Floats
  <2>2. ASSUME NEW x \in Int, x % Unit = 0 PROVE (x % Wrap) % Unit = 0
    <3>1. ((x % Wrap) + 0) % Unit = (x + 0) % Unit
      <4>1. Wrap % Unit = 0 /\ 0 \in Int
        BY UnitAssumption
      <4> QED
        BY <4>1, Sizes, SumOfRemainder
    <3>2. (x % Wrap) + 0 = x % Wrap /\ x + 0 = x
      BY Sizes, Division
    <3> QED
      BY <2>2, <3>1, <3>2
  <2> QED
    BY <2>1, <2>2
<1> QED
  BY <1>1, RingAlwaysInv, PTL

-----------------------------------------------------------------------------
(* The ring implements the queue                                           *)

\* Taking a prefix off a stretch, and appending to it.
LEMMA StretchParts ==
  ASSUME NEW first \in Nat, NEW mid \in Nat, NEW end \in Nat, first <= mid, mid <= end
  PROVE  /\ Len(Stretch(first, end)) = end - first
         /\ SubSeq(Stretch(first, end), 1, mid - first) = Stretch(first, mid)
         /\ SubSeq(Stretch(first, end), mid - first + 1, end - first) = Stretch(mid, end)
         /\ Stretch(first, mid) \o [i \in 1..end - mid |-> mid + i - 1] = Stretch(first, end)
<1> DEFINE s == Stretch(first, end)
           t == Stretch(first, mid)
           u == Stretch(mid, end)
<1>1. /\ s \in Seq(Nat) /\ Len(s) = end - first /\ \A i \in 1..end - first : s[i] = first + i - 1
      /\ t \in Seq(Nat) /\ Len(t) = mid - first /\ \A i \in 1..mid - first : t[i] = first + i - 1
      /\ u \in Seq(Nat) /\ Len(u) = end - mid /\ \A i \in 1..end - mid : u[i] = mid + i - 1
  BY DEF Stretch
<1> HIDE DEF s, t, u
<1>2. SubSeq(s, 1, mid - first) = t
  <2> DEFINE a == SubSeq(s, 1, mid - first)
  <2>1. a \in Seq(Nat) /\ Len(a) = mid - first /\ \A i \in 1..mid - first : a[i] = s[1 + i - 1]
    <3>1. mid - first \in Int /\ 1 \in Int /\ mid - first - 1 + 1 = mid - first
      OBVIOUS
    <3>2. \A i \in 1..mid - first : s[i] \in Nat
      BY <1>1
    <3>3. /\ a \in Seq(Nat)
          /\ Len(a) = IF 1 <= mid - first THEN mid - first - 1 + 1 ELSE 0
          /\ \A i \in 1..mid - first - 1 + 1 : a[i] = s[1 + i - 1]
      BY <3>1, <3>2, SubSeqProperties
    <3> HIDE DEF a
    <3> QED
      BY <3>1, <3>3
  <2> HIDE DEF a
  <2>2. \A i \in 1..mid - first : a[i] = t[i]
    BY <1>1, <2>1
  <2>3. a = t
    BY <1>1, <2>1, <2>2, SeqEqual
  <2> QED
    BY <2>3 DEF a
<1>3. SubSeq(s, mid - first + 1, end - first) = u
  <2> DEFINE a == SubSeq(s, mid - first + 1, end - first)
  <2>1. a \in Seq(Nat) /\ Len(a) = end - mid
        /\ \A i \in 1..end - mid : a[i] = s[(mid - first + 1) + i - 1]
    <3> DEFINE m == mid - first + 1
    <3>1. m \in Int /\ end - first \in Int /\ end - first - m + 1 = end - mid
      OBVIOUS
    <3>2. \A i \in m..end - first : s[i] \in Nat
      BY <1>1
    <3> HIDE DEF m
    <3>3. /\ SubSeq(s, m, end - first) \in Seq(Nat)
          /\ Len(SubSeq(s, m, end - first)) = IF m <= end - first THEN end - first - m + 1 ELSE 0
          /\ \A i \in 1..end - first - m + 1 : SubSeq(s, m, end - first)[i] = s[m + i - 1]
      BY <3>1, <3>2, SubSeqProperties
    <3>4. m <= end - first \/ end - mid = 0
      BY DEF m
    <3>5. a = SubSeq(s, m, end - first)
      BY DEF m
    <3> HIDE DEF a
    <3>6. a \in Seq(Nat) /\ Len(a) = end - mid /\ \A i \in 1..end - mid : a[i] = s[m + i - 1]
      BY <3>1, <3>3, <3>4, <3>5
    <3> QED
      BY <3>6 DEF m
  <2> HIDE DEF a
  <2>2. ASSUME NEW i \in 1..end - mid PROVE a[i] = u[i]
    <3>1. (mid - first + 1) + i - 1 \in 1..end - first
      OBVIOUS
    <3> QED
      BY <1>1, <2>1, <3>1
  <2>3. a = u
    BY <1>1, <2>1, <2>2, SeqEqual
  <2> QED
    BY <2>3 DEF a
<1>4. t \o u = s
  <2> DEFINE a == t \o u
  <2>1. a \in Seq(Nat) /\ Len(a) = Len(t) + Len(u)
        /\ \A i \in 1..Len(t) + Len(u) : a[i] = IF i <= Len(t) THEN t[i] ELSE u[i - Len(t)]
    BY <1>1, ConcatProperties
  <2> HIDE DEF a
  <2>2. ASSUME NEW i \in 1..end - first PROVE a[i] = s[i]
    <3>1. CASE i <= mid - first
      BY <1>1, <2>1, <3>1
    <3>2. CASE i > mid - first
      <4>1. i - (mid - first) \in 1..end - mid
        BY <3>2
      <4> QED
        BY <1>1, <2>1, <3>2, <4>1
    <3> QED
      BY <3>1, <3>2
  <2>3. Len(a) = end - first
    BY <1>1, <2>1
  <2>4. a = s
    BY <1>1, <2>1, <2>2, <2>3, SeqEqual
  <2> QED
    BY <2>4 DEF a
<1> QED
  BY <1>1, <1>2, <1>3, <1>4 DEF s, t, u, Stretch

\* What the queue sees of the ring.
Unread == [i \in 1..Filled(write_index, read_index) |-> data[Offset(read_index + i - 1)]]
Taken == IF pop.at = "idle" THEN got ELSE <<>>

LEMMA UnreadIs == \A first \in Nat : Held(first) => Unread = Stretch(first, sent)
BY Contents DEF Held, Unread

\* ... before and after a step.
LEMMA UnreadBecomes == (\A first \in Nat : Held(first) => Unread = Stretch(first, sent))'
BY UnreadIs, PTL

\* Storing the write index appends; nothing else the producer does shows.
LEMMA ProduceQueue ==
  ASSUME NEW first \in Nat, Held(first), Produce PROVE [Queue!Next]_(Queue!vars)
<1>1. Layout(first) /\ PushFits(first) /\ Held(first)' /\ UNCHANGED <<pop, got>>
  BY ProduceKeeps DEF Held, Produce, Push, PushFloats, PushChecked, PushLoad, PushByte, PushCommit
<1>2. Unread = Stretch(first, sent) /\ Unread' = Stretch(first, sent')
  BY <1>1, UnreadIs, UnreadBecomes
<1>3. UNCHANGED Taken
  BY <1>1 DEF Taken
<1>4. CASE PushCommit
  <2>1. /\ sent \in Nat /\ first <= sent /\ push.n \in 1..Cap /\ sent' = sent + push.n
        /\ sent - first + push.n <= Cap
    <3>1. sent \in Nat /\ first <= sent
      BY <1>1, UnitAssumption DEF Layout
    <3>2. push.at = "copy" /\ sent' = sent + push.n
      BY <1>4 DEF PushCommit
    <3>3. push.n \in Nat /\ push.n > 0 /\ sent - first + push.n <= Cap
      BY <1>1, <3>2 DEF PushFits
    <3>4. Cap \in Nat
      BY Sizes
    <3> QED
      BY <3>1, <3>2, <3>3, <3>4
  <2>2. PICK end \in Nat : end = sent + push.n
    BY <2>1
  <2>3. Len(Unread) = sent - first
        /\ Unread' = Unread \o [i \in 1..push.n |-> sent + i - 1]
    <3>1. end - sent = push.n /\ sent <= end
      BY <2>1, <2>2
    <3>2. Len(Stretch(first, sent)) = sent - first
      BY <2>1, StretchParts
    <3>3. Stretch(first, sent) \o [i \in 1..end - sent |-> sent + i - 1] = Stretch(first, end)
      BY <2>1, <3>1, StretchParts
    <3> QED
      BY <1>2, <2>1, <2>2, <3>1, <3>2, <3>3
  <2>4. Queue!Append_(push.n)
    BY <1>3, <2>1, <2>3 DEF Queue!Append_, Unread, Taken
  <2> QED
    BY <2>1, <2>4 DEF Queue!Next
<1>5. CASE ~PushCommit
  <2>1. sent' = sent
    BY <1>5 DEF Produce, Push, PushFloats, PushChecked, PushLoad, PushByte
  <2> QED
    BY <1>2, <1>3, <2>1 DEF Queue!vars, Unread, Taken
<1> QED
  BY <1>4, <1>5

\* Removing bytes from the front.
LEMMA RemovedFront ==
  ASSUME NEW first \in Nat, Held(first), NEW end \in first..sent, Held(end)', sent' = sent
  PROVE  /\ end - first <= Len(Unread) /\ end - first <= Cap
         /\ Unread' = SubSeq(Unread, end - first + 1, Len(Unread))
         /\ SubSeq(Unread, 1, end - first) = Stretch(first, end)
<1>1. sent \in Nat /\ end \in Nat /\ first <= end /\ end <= sent /\ sent - first <= Cap
  BY UnitAssumption DEF Held, Layout
<1>2. Unread = Stretch(first, sent) /\ Unread' = Stretch(end, sent')
  BY <1>1, UnreadIs, UnreadBecomes
<1>3. /\ Len(Stretch(first, sent)) = sent - first
      /\ SubSeq(Stretch(first, sent), 1, end - first) = Stretch(first, end)
      /\ SubSeq(Stretch(first, sent), end - first + 1, sent - first) = Stretch(end, sent)
  BY <1>1, StretchParts
<1> QED
  BY <1>1, <1>2, <1>3, Sizes

\* Storing the read index takes or discards, a call begins by asking again.
LEMMA ConsumeQueue ==
  ASSUME NEW first \in Nat, Held(first), Consume PROVE [Queue!Next]_(Queue!vars)
<1>1. sent' = sent /\ PopFits(first) /\ Layout(first)
  BY DEF Held, Consume, Pop, PopFloats, PopChecked, PopLoad, PopByte, PopCommit, ClearLoad,
         ClearStore
<1>2. CASE PopCommit
  <2>1. PICK end \in first..sent : end = first + pop.n /\ Held(end)'
    BY <1>2, PopCommitRemoves
  <2>2. pop.n \in Nat /\ pop.n > 0 /\ pop.done = pop.n /\ pop.at = "copy" /\ sent \in Nat
        /\ got = Stretch(first, first + pop.done)
    BY <1>1, <1>2, UnitAssumption DEF PopCommit, PopFits, Layout
  <2>3. pop'.at = "idle" /\ got' = got
    BY <1>2 DEF PopCommit, Idle
  <2>4. end - first = pop.n
    BY <2>1, <2>2
  <2>5. pop.n \in 1..Cap /\ pop.n <= Len(Unread)
        /\ Unread' = SubSeq(Unread, pop.n + 1, Len(Unread))
        /\ Taken' = SubSeq(Unread, 1, pop.n)
    <3>1. /\ pop.n <= Len(Unread) /\ pop.n <= Cap
          /\ Unread' = SubSeq(Unread, pop.n + 1, Len(Unread))
          /\ SubSeq(Unread, 1, pop.n) = Stretch(first, end)
      BY <1>1, <2>1, <2>4, RemovedFront
    <3>2. Taken' = got
      BY <2>2, <2>3 DEF Taken
    <3>3. got = Stretch(first, end)
      BY <2>1, <2>2
    <3> QED
      BY <2>2, <3>1, <3>2, <3>3, Sizes
  <2>6. Queue!Take(pop.n)
    BY <1>1, <2>5 DEF Queue!Take, Unread, Taken
  <2> QED
    BY <2>5, <2>6 DEF Queue!Next
<1>3. CASE ClearStore
  <2>1. PICK end \in first..sent : Held(end)'
    BY <1>3, ClearRemoves
  <2>2. pop.at = "clear" /\ got = <<>> /\ pop'.at = "idle" /\ got' = got
    BY <1>1, <1>3 DEF ClearStore, PopFits, Idle
  <2>3. UNCHANGED Taken
    BY <2>2 DEF Taken
  <2>4. CASE end = first
    <3>1. Unread' = Unread
      BY <1>1, <2>1, <2>4, UnreadIs, UnreadBecomes
    <3> QED
      BY <1>1, <2>3, <3>1 DEF Queue!vars, Unread, Taken
  <2>5. CASE end > first
    <3>1. PICK k \in 1..Cap : k = end - first
      BY <1>1, <2>1, <2>5, Sizes, RemovedFront
    <3>2. k <= Len(Unread) /\ Unread' = SubSeq(Unread, k + 1, Len(Unread))
      BY <1>1, <2>1, <3>1, RemovedFront
    <3>3. Queue!Discard(k)
      BY <1>1, <2>3, <3>2 DEF Queue!Discard, Unread, Taken
    <3> QED
      BY <3>3 DEF Queue!Next
  <2> QED
    BY <2>1, <2>4, <2>5
<1>4. CASE ~PopCommit /\ ~ClearStore
  <2>1. Held(first)'
    BY <1>4, ConsumeKeeps
  <2>2. Unread' = Unread
    BY <1>1, <2>1, UnreadIs, UnreadBecomes
  <2>3. Taken' = Taken \/ Taken' = <<>>
    <3>1. got' = <<>> \/ pop'.at # "idle"
      <4>1. ASSUME NEW len \in 1..Cap + 1, PopFloats(len) PROVE pop'.at # "idle"
        BY <4>1 DEF PopFloats, Idle
      <4>2. CASE PopByte
        BY <1>1, <4>2 DEF PopByte, PopFits
      <4> QED
        BY <1>4, <4>1, <4>2 DEF Consume, Pop, PopChecked, PopLoad, ClearLoad
    <3> QED
      BY <3>1 DEF Taken
  <2>4. CASE Taken' = Taken
    BY <1>1, <2>2, <2>4 DEF Queue!vars, Unread, Taken
  <2>5. CASE Taken' = <<>>
    <3>1. Queue!AskAgain
      BY <1>1, <2>2, <2>5 DEF Queue!AskAgain, Unread, Taken
    <3> QED
      BY <3>1 DEF Queue!Next
  <2> QED
    BY <2>3, <2>4, <2>5
<1> QED
  BY <1>2, <1>3, <1>4

LEMMA StepQueue == RingInv /\ [RingNext]_ringVars => [Queue!Next]_(Queue!vars)
<1> SUFFICES ASSUME RingInv, [RingNext]_ringVars PROVE [Queue!Next]_(Queue!vars)
  OBVIOUS
<1>1. PICK first \in Nat : Held(first)
  BY DEF RingInv
<1>2. CASE UNCHANGED ringVars
  BY <1>2 DEF ringVars, Queue!vars, Unread, Taken, Filled, Offset
<1> QED
  BY <1>1, <1>2, ProduceQueue, ConsumeQueue DEF RingNext

\* Every step of the producer and the consumer is a step of the bounded queue, or
\* leaves it alone: for every capacity, no byte is lost, overwritten before it is
\* read, or read twice.
THEOREM Refinement == RingSpec => ImplementsQueue
<1>1. RingInit => Queue!Init
  <2> SUFFICES ASSUME RingInit PROVE Queue!Init
    OBVIOUS
  <2>1. Unread = Stretch(0, sent) /\ sent = 0
    BY InitHeld, UnreadIs DEF RingInit
  <2>2. Unread = <<>>
    BY <2>1, StretchGrows
  <2> QED
    BY <2>2 DEF RingInit, Idle, Queue!Init, Unread
<1> QED
  BY <1>1, StepQueue, RingAlwaysInv, PTL DEF RingSpec, ImplementsQueue, Queue!Spec

-----------------------------------------------------------------------------
(* The worklet.  What a node was sent and has not applied is one queue,     *)
(* whether it waits in _pendingParams or in the port: a page step appends   *)
(* to it, an applied message is its head, and nothing else changes it.      *)

Mail == [type : {"init", "setParam", "message"}, value : Nat]

\* The numbers posted are increasing and below the next one.
Numbered(p, next) ==
  /\ \A i \in DOMAIN p : p[i] < next
  /\ \A i, j \in DOMAIN p : i < j => p[i] < p[j]

\* The plug-in has a prefix of what was posted, and the messages in the queue
\* are the others, in order.
InStep(u, l, p) ==
  /\ Len(l) <= Len(p) /\ \A i \in DOMAIN l : l[i] = p[i]
  /\ \A k \in DOMAIN u : u[k].type = "message" =>
       \E i \in DOMAIN p : i > Len(l) /\ p[i] = u[k].value
  /\ \A i \in DOMAIN p : i > Len(l) =>
       \E k \in DOMAIN u : u[k].type = "message" /\ u[k].value = p[i]
  /\ \A j, k \in DOMAIN u :
       j < k /\ u[j].type = "message" /\ u[k].type = "message" => u[j].value < u[k].value

\* The values in the queue never decrease, from that of the plug-in to that of
\* the page.
Rising(u, d, v) ==
  /\ d <= v
  /\ \A k \in DOMAIN u : u[k].type = "setParam" => d <= u[k].value /\ u[k].value <= v
  /\ \A j, k \in DOMAIN u :
       j < k /\ u[j].type = "setParam" /\ u[k].type = "setParam" => u[j].value <= u[k].value

WorkletTypeOK ==
  /\ created \in 0..MaxNodes /\ node \in {None, created}
  /\ paramValue \in Nat /\ nextMessage \in Nat
  /\ toWorklet \in [Node -> Seq(Mail)]
  /\ pendingParams \in [Node -> Seq(Mail)]
  /\ state \in [Node -> {"absent", "waiting", "loading", "draining", "ready", "failed"}]
  /\ dsp \in [Node -> Nat]
  /\ log \in [Node -> Seq(Nat)]
  /\ posted \in [Node -> Seq(Nat)]
  /\ DOMAIN toMain = Node

\* One node in state s, with q waiting and t in the port.
\* The bytes come first, and nothing waits any more when the worklet is ready.
Line(s, q, t, l, p, d, next, v) ==
  /\ s = "absent" => t = <<>> /\ l = <<>> /\ p = <<>> /\ d = None
  /\ s \in {"absent", "waiting", "ready"} => q = <<>>
  /\ s = "waiting" => t # <<>> /\ t[1].type = "init"
  /\ \A k \in DOMAIN t : t[k].type = "init" => k = 1 /\ s = "waiting"
  /\ \A k \in DOMAIN q : q[k].type # "init"
  /\ Numbered(p, next)
  /\ InStep(q \o t, l, p)
  /\ Rising(q \o t, d, v)

Kept(n) ==
  /\ n <= created <=> state[n] # "absent"
  /\ Line(state[n], pendingParams[n], toWorklet[n], log[n], posted[n], dsp[n], nextMessage, paramValue)

WorkletInv == WorkletTypeOK /\ \A n \in Node : Kept(n)

\* A sequence that one element was appended to.
Grown(a, u, m) ==
  /\ Len(a) \in Nat /\ Len(a) = Len(u) + 1
  /\ DOMAIN u \subseteq Nat
  /\ DOMAIN a = DOMAIN u \cup {Len(a)} /\ a[Len(a)] = m
  /\ \A k \in DOMAIN u : k < Len(a) /\ a[k] = u[k]

LEMMA Appended ==
  ASSUME NEW S, NEW u \in Seq(S), NEW m \in S
  PROVE  Grown(Append(u, m), u, m)
<1> DEFINE a == Append(u, m)
<1>1. /\ a \in Seq(S) /\ Len(u) \in Nat /\ DOMAIN u = 1..Len(u) /\ DOMAIN a = 1..Len(a)
      /\ (\A k \in 1..Len(u) : a[k] = u[k]) /\ a[Len(u) + 1] = m /\ Len(a) = Len(u) + 1
  BY AppendProperties, LenProperties
<1> HIDE DEF a
<1>2. Grown(a, u, m)
  BY <1>1 DEF Grown
<1> QED
  BY <1>2 DEF a

\* What is appended to the queue.
LEMMA Posted ==
  ASSUME NEW u \in Seq(Mail), NEW m \in Mail, NEW l \in Seq(Nat), NEW p \in Seq(Nat),
         NEW d \in Nat, NEW v \in Nat, NEW w \in Nat, NEW next \in Nat,
         Numbered(p, next), InStep(u, l, p), Rising(u, d, v), v <= w
  PROVE  /\ m.type = "message" /\ m.value = next =>
              /\ Numbered(Append(p, next), next + 1)
              /\ InStep(Append(u, m), l, Append(p, next))
              /\ Rising(Append(u, m), d, v)
         /\ m.type = "setParam" /\ m.value = w =>
              InStep(Append(u, m), l, p) /\ Rising(Append(u, m), d, w)
         /\ Rising(u, d, w)
         /\ Numbered(p, next + 1)
<1> DEFINE a == Append(u, m)
           b == Append(p, next)
<1>1. Grown(a, u, m)
  BY Appended
<1>2. Grown(b, p, next)
  BY Appended
<1>3. Len(l) \in Nat /\ DOMAIN l \subseteq 1..Len(l) /\ \A k \in DOMAIN p : p[k] \in Nat
  BY LenProperties, ElementOfSeq
<1>4. \A k \in DOMAIN u : u[k].value \in Nat
  <2>1. \A k \in DOMAIN u : u[k] \in Mail
    BY LenProperties, ElementOfSeq
  <2> QED
    BY <2>1 DEF Mail
<1> HIDE DEF a, b
<1>5. Rising(u, d, w) /\ Numbered(p, next + 1)
  BY <1>2, <1>3, <1>4 DEF Rising, Numbered, Grown
<1>6. ASSUME m.type = "message", m.value = next
      PROVE  Numbered(b, next + 1) /\ InStep(a, l, b) /\ Rising(a, d, v)
  <2>1. Numbered(b, next + 1)
    BY <1>2, <1>3 DEF Numbered, Grown
  <2>2. Rising(a, d, v)
    BY <1>1, <1>6 DEF Rising, Grown
  <2>3. Len(l) <= Len(b) /\ \A i \in DOMAIN l : l[i] = b[i]
    BY <1>2, <1>3 DEF InStep, Grown
  <2>4. ASSUME NEW k \in DOMAIN a, a[k].type = "message"
        PROVE  \E i \in DOMAIN b : i > Len(l) /\ b[i] = a[k].value
    <3>1. CASE k = Len(a)
      <4>1. Len(b) \in DOMAIN b /\ b[Len(b)] = a[k].value
        BY <1>1, <1>2, <1>6, <3>1 DEF Grown
      <4>2. Len(p) \in Nat /\ Len(b) = Len(p) + 1 /\ Len(l) <= Len(p)
        BY <1>2, LenProperties DEF InStep, Grown
      <4>3. Len(b) > Len(l)
        BY <1>3, <4>2
      <4> QED
        BY <4>1, <4>3
    <3>2. CASE k # Len(a)
      <4>1. PICK i \in DOMAIN p : i > Len(l) /\ p[i] = u[k].value
        BY <1>1, <2>4, <3>2 DEF InStep, Grown
      <4> QED
        BY <1>1, <1>2, <3>2, <4>1 DEF Grown
    <3> QED
      BY <3>1, <3>2
  <2>5. ASSUME NEW i \in DOMAIN b, i > Len(l)
        PROVE  \E k \in DOMAIN a : a[k].type = "message" /\ a[k].value = b[i]
    <3>1. CASE i = Len(b)
      BY <1>1, <1>2, <1>6, <3>1 DEF Grown
    <3>2. CASE i # Len(b)
      <4>1. PICK k \in DOMAIN u : u[k].type = "message" /\ u[k].value = p[i]
        BY <1>2, <2>5, <3>2 DEF InStep, Grown
      <4> QED
        BY <1>1, <1>2, <3>2, <4>1 DEF Grown
    <3> QED
      BY <3>1, <3>2
  <2>6. ASSUME NEW k \in DOMAIN u, u[k].type = "message"
        PROVE  u[k].value < next
    BY <2>6 DEF InStep, Numbered
  <2>7. ASSUME NEW j \in DOMAIN a, NEW k \in DOMAIN a,
               j < k, a[j].type = "message", a[k].type = "message"
        PROVE  a[j].value < a[k].value
    <3>1. CASE k = Len(a)
      BY <1>1, <1>6, <2>6, <2>7, <3>1 DEF Grown
    <3>2. CASE k # Len(a)
      <4>1. k \in DOMAIN u /\ j \in DOMAIN u /\ a[k] = u[k] /\ a[j] = u[j]
        BY <1>1, <2>7, <3>2 DEF Grown
      <4> QED
        BY <2>7, <4>1 DEF InStep
    <3> QED
      BY <3>1, <3>2
  <2> QED
    BY <2>1, <2>2, <2>3, <2>4, <2>5, <2>7 DEF InStep
<1>7. ASSUME m.type = "setParam", m.value = w
      PROVE  InStep(a, l, p) /\ Rising(a, d, w)
  <2>1. Rising(a, d, w)
    <3>1. d <= w /\ \A k \in DOMAIN u : u[k].type = "setParam" =>
                       d <= u[k].value /\ u[k].value <= w
      BY <1>5 DEF Rising
    <3>2. ASSUME NEW k \in DOMAIN a, a[k].type = "setParam"
          PROVE  d <= a[k].value /\ a[k].value <= w
      BY <1>1, <1>7, <3>1, <3>2 DEF Grown
    <3>3. ASSUME NEW j \in DOMAIN a, NEW k \in DOMAIN a,
                 j < k, a[j].type = "setParam", a[k].type = "setParam"
          PROVE  a[j].value <= a[k].value
      BY <1>1, <1>7, <3>1, <3>3 DEF Rising, Grown
    <3> QED
      BY <3>1, <3>2, <3>3 DEF Rising
  <2>2. \A k \in DOMAIN a : a[k].type = "message" => k \in DOMAIN u /\ a[k] = u[k]
    BY <1>1, <1>7 DEF Grown
  <2>3. \A i \in DOMAIN p : i > Len(l) =>
          \E k \in DOMAIN a : a[k].type = "message" /\ a[k].value = p[i]
    <3>1. DOMAIN u \subseteq DOMAIN a /\ \A k \in DOMAIN u : a[k] = u[k]
      BY <1>1 DEF Grown
    <3> QED
      BY <3>1 DEF InStep
  <2>4. \A k \in DOMAIN a : a[k].type = "message" =>
          \E i \in DOMAIN p : i > Len(l) /\ p[i] = a[k].value
    BY <2>2 DEF InStep
  <2>5. \A j, k \in DOMAIN a :
          j < k /\ a[j].type = "message" /\ a[k].type = "message" => a[j].value < a[k].value
    BY <2>2 DEF InStep
  <2> QED
    BY <2>1, <2>3, <2>4, <2>5 DEF InStep
<1> QED
  BY <1>5, <1>6, <1>7 DEF a, b

\* A sequence without its head.
Shrunk(a, u) ==
  /\ Len(u) \in Nat \ {0} /\ DOMAIN u = 1..Len(u)
  /\ 1 \in DOMAIN u /\ Head(u) = u[1]
  /\ \A k \in DOMAIN a : k \in Nat \ {0} /\ k + 1 \in DOMAIN u /\ a[k] = u[k + 1]
  /\ \A k \in DOMAIN u : k \in Nat \ {0} /\ (k # 1 => k - 1 \in DOMAIN a /\ a[k - 1] = u[k])

LEMMA HeadDropped ==
  ASSUME NEW S, NEW u \in Seq(S), u # <<>>
  PROVE  Shrunk(Tail(u), u)
<1> DEFINE a == Tail(u)
<1>1. /\ a \in Seq(S) /\ Len(u) \in Nat /\ Len(a) \in Nat /\ Len(a) = Len(u) - 1
      /\ DOMAIN u = 1..Len(u) /\ DOMAIN a = 1..Len(a)
      /\ Head(u) = u[1]
      /\ \A k \in 1..Len(a) : a[k] = u[k + 1]
  BY HeadTailProperties, LenProperties
<1> HIDE DEF a
<1>2. Shrunk(a, u)
  BY <1>1 DEF Shrunk
<1> QED
  BY <1>2 DEF a

\* The head of the queue is applied, or is no message for the plug-in.
LEMMA HeadApplied ==
  ASSUME NEW u \in Seq(Mail), u # <<>>, NEW l \in Seq(Nat), NEW p \in Seq(Nat),
         NEW d \in Nat, NEW v \in Nat, NEW next \in Nat,
         Numbered(p, next), InStep(u, l, p), Rising(u, d, v)
  PROVE  /\ Head(u).type = "message" =>
              InStep(Tail(u), Append(l, Head(u).value), p) /\ Rising(Tail(u), d, v)
         /\ Head(u).type = "setParam" =>
              /\ InStep(Tail(u), l, p) /\ Rising(Tail(u), Head(u).value, v)
              /\ d <= Head(u).value
         /\ Head(u).type = "init" => InStep(Tail(u), l, p) /\ Rising(Tail(u), d, v)
<1> DEFINE a == Tail(u)
           x == u[1].value
           b == Append(l, x)
<1>1. Shrunk(a, u) /\ Head(u) = u[1]
  BY HeadDropped DEF Shrunk
<1>2. \A k \in DOMAIN u : u[k] \in Mail /\ u[k].value \in Nat
  <2>1. \A k \in DOMAIN u : u[k] \in Mail
    BY LenProperties, ElementOfSeq
  <2> QED
    BY <2>1 DEF Mail
<1>3. x \in Nat /\ Grown(b, l, x)
  BY <1>1, <1>2, Appended DEF Shrunk
<1>4. /\ Len(l) \in Nat /\ Len(p) \in Nat /\ DOMAIN p = 1..Len(p) /\ DOMAIN l = 1..Len(l)
      /\ \A k \in DOMAIN p : p[k] \in Nat
  BY LenProperties, ElementOfSeq
<1> HIDE DEF a, b
<1>5. ASSUME NEW j \in DOMAIN a, NEW k \in DOMAIN a, j < k
       PROVE  j + 1 \in DOMAIN u /\ k + 1 \in DOMAIN u /\ j + 1 < k + 1
              /\ a[j] = u[j + 1] /\ a[k] = u[k + 1]
  BY <1>1, <1>5 DEF Shrunk
<1>6. /\ \A k \in DOMAIN a : a[k].type = "setParam" => d <= a[k].value /\ a[k].value <= v
      /\ \A j, k \in DOMAIN a :
           j < k /\ a[j].type = "setParam" /\ a[k].type = "setParam" => a[j].value <= a[k].value
  <2>1. ASSUME NEW k \in DOMAIN a, a[k].type = "setParam"
        PROVE  d <= a[k].value /\ a[k].value <= v
    <3>1. k + 1 \in DOMAIN u /\ a[k] = u[k + 1]
      BY <1>1 DEF Shrunk
    <3> QED
      BY <2>1, <3>1 DEF Rising
  <2>2. ASSUME NEW j \in DOMAIN a, NEW k \in DOMAIN a,
               j < k, a[j].type = "setParam", a[k].type = "setParam"
        PROVE  a[j].value <= a[k].value
    BY <1>5, <2>2 DEF Rising
  <2> QED
    BY <2>1, <2>2
<1>7. Rising(a, d, v)
  BY <1>6 DEF Rising
<1>8. /\ \A k \in DOMAIN a : a[k].type = "message" =>
           \E i \in DOMAIN p : i > Len(l) /\ p[i] = a[k].value
      /\ \A j, k \in DOMAIN a :
           j < k /\ a[j].type = "message" /\ a[k].type = "message" => a[j].value < a[k].value
  <2>1. ASSUME NEW k \in DOMAIN a, a[k].type = "message"
        PROVE  \E i \in DOMAIN p : i > Len(l) /\ p[i] = a[k].value
    <3>1. k + 1 \in DOMAIN u /\ a[k] = u[k + 1]
      BY <1>1 DEF Shrunk
    <3> QED
      BY <2>1, <3>1 DEF InStep
  <2>2. ASSUME NEW j \in DOMAIN a, NEW k \in DOMAIN a,
               j < k, a[j].type = "message", a[k].type = "message"
        PROVE  a[j].value < a[k].value
    <3>1. \A y, z \in DOMAIN u : y < z /\ u[y].type = "message" /\ u[z].type = "message" =>
                                 u[y].value < u[z].value
      BY DEF InStep
    <3> QED
      BY <1>5, <2>2, <3>1
  <2> QED
    BY <2>1, <2>2
<1>9. ASSUME u[1].type # "message"
      PROVE  InStep(a, l, p)
  <2>1. ASSUME NEW i \in DOMAIN p, i > Len(l)
        PROVE  \E k \in DOMAIN a : a[k].type = "message" /\ a[k].value = p[i]
    <3>1. PICK k \in DOMAIN u : u[k].type = "message" /\ u[k].value = p[i]
      BY <2>1 DEF InStep
    <3>2. k - 1 \in DOMAIN a /\ a[k - 1] = u[k]
      BY <1>1, <1>9, <3>1 DEF Shrunk
    <3> QED
      BY <3>1, <3>2
  <2> QED
    BY <1>8, <2>1 DEF InStep
<1>10. ASSUME u[1].type = "setParam"
      PROVE  Rising(a, x, v) /\ d <= x
  <2>1. \A k \in DOMAIN a : a[k].type = "setParam" => x <= a[k].value
    <3>1. ASSUME NEW k \in DOMAIN a, a[k].type = "setParam"
          PROVE  x <= a[k].value
      <4>1. /\ 1 \in DOMAIN u /\ k + 1 \in DOMAIN u /\ 1 < k + 1 /\ a[k] = u[k + 1]
        BY <1>1 DEF Shrunk
      <4> QED
        BY <1>10, <3>1, <4>1 DEF Rising
    <3> QED
      BY <3>1
  <2>2. d <= x /\ x <= v
    BY <1>1, <1>10 DEF Rising, Shrunk
  <2> QED
    BY <1>6, <2>1, <2>2 DEF Rising
<1>11. ASSUME u[1].type = "message"
       PROVE  InStep(a, b, p)
  <2>1. PICK n \in DOMAIN p : n > Len(l) /\ p[n] = x
    BY <1>1, <1>11 DEF InStep, Shrunk
  <2>2. ASSUME NEW k \in DOMAIN u, u[k].type = "message", k # 1
        PROVE  x < u[k].value
    <3>1. 1 \in DOMAIN u /\ 1 < k
      BY <1>1, <2>2 DEF Shrunk
    <3> QED
      BY <1>11, <2>2, <3>1 DEF InStep
  <2>3. n = Len(l) + 1
    <3> SUFFICES ASSUME n # Len(l) + 1 PROVE FALSE
      OBVIOUS
    <3> DEFINE i == Len(l) + 1
    <3>1. i \in DOMAIN p /\ i > Len(l) /\ i < n
      BY <1>4, <2>1
    <3> HIDE DEF i
    <3>2. p[i] < x
      BY <2>1, <3>1 DEF Numbered
    <3>3. PICK k \in DOMAIN u : u[k].type = "message" /\ u[k].value = p[i]
      BY <3>1 DEF InStep
    <3>4. p[i] \in Nat /\ x <= p[i]
      BY <1>3, <1>4, <2>2, <3>1, <3>3
    <3> QED
      BY <1>3, <3>2, <3>4
  <2>4. Len(b) = n /\ Len(b) <= Len(p)
    BY <1>3, <1>4, <2>1, <2>3 DEF Grown
  <2>5. \A i \in DOMAIN b : b[i] = p[i]
    BY <1>3, <2>1, <2>4 DEF Grown, InStep
  <2>6. ASSUME NEW k \in DOMAIN a, a[k].type = "message"
        PROVE  \E i \in DOMAIN p : i > Len(b) /\ p[i] = a[k].value
    <3>1. PICK i \in DOMAIN p : i > Len(l) /\ p[i] = a[k].value
      BY <1>8, <2>6
    <3>2. k + 1 \in DOMAIN u /\ k + 1 # 1 /\ a[k] = u[k + 1]
      BY <1>1 DEF Shrunk
    <3>3. x < p[i]
      BY <2>2, <2>6, <3>1, <3>2
    <3>4. i # n
      BY <1>3, <2>1, <3>3
    <3>5. i > Len(b)
      BY <1>4, <2>3, <2>4, <3>1, <3>4
    <3> QED
      BY <3>1, <3>5
  <2>7. ASSUME NEW i \in DOMAIN p, i > Len(b)
        PROVE  \E k \in DOMAIN a : a[k].type = "message" /\ a[k].value = p[i]
    <3>1. i > Len(l) /\ n < i
      BY <1>4, <2>3, <2>4, <2>7
    <3>2. PICK k \in DOMAIN u : u[k].type = "message" /\ u[k].value = p[i]
      BY <3>1 DEF InStep
    <3>3. p[n] < p[i]
      BY <3>1 DEF Numbered
    <3>4. k # 1
      BY <1>3, <2>1, <3>2, <3>3
    <3>5. k - 1 \in DOMAIN a /\ a[k - 1] = u[k]
      BY <1>1, <3>4 DEF Shrunk
    <3> QED
      BY <3>2, <3>5
  <2> QED
    BY <1>8, <2>4, <2>5, <2>6, <2>7 DEF InStep
<1> QED
  BY <1>1, <1>7, <1>9, <1>10, <1>11 DEF a, b

\* The queue is what waits followed by what is in the port: a message that is
\* put aside keeps its place.
LEMMA Queued ==
  ASSUME NEW q \in Seq(Mail), NEW t \in Seq(Mail)
  PROVE  /\ q \o t \in Seq(Mail)
         /\ \A m \in Mail : q \o Append(t, m) = Append(q \o t, m)
         /\ t # <<>> => /\ Append(q, Head(t)) \o Tail(t) = q \o t
                        /\ Head(t) \in Mail /\ Head(t) = t[1]
         /\ q # <<>> => /\ Tail(q) \o t = Tail(q \o t) /\ q \o t # <<>>
                        /\ Head(q \o t) = Head(q) /\ Head(q) \in Mail /\ Head(q) = q[1]
         /\ q = <<>> => q \o t = t
<1>1. q \o t \in Seq(Mail)
  BY ConcatProperties
<1>2. ASSUME NEW m \in Mail PROVE q \o Append(t, m) = Append(q \o t, m)
  <2>1. <<m>> \in Seq(Mail)
    OBVIOUS
  <2>2. Append(t, m) = t \o <<m>> /\ Append(q \o t, m) = (q \o t) \o <<m>>
    BY <1>1, AppendIsConcat
  <2> QED
    BY <2>1, <2>2, ConcatAssociative
<1>3. ASSUME t # <<>>
      PROVE  /\ Append(q, Head(t)) \o Tail(t) = q \o t
             /\ Head(t) \in Mail /\ Head(t) = t[1]
  <2>1. /\ Head(t) \in Mail /\ Tail(t) \in Seq(Mail) /\ Len(Tail(t)) = Len(t) - 1
        /\ \A i \in 1..Len(Tail(t)) : Tail(t)[i] = t[i + 1]
        /\ Head(t) = t[1] /\ Len(t) \in Nat
    BY <1>3, HeadTailProperties, LenProperties
  <2> DEFINE a == Append(q, Head(t))
             b == Tail(t)
  <2>2. /\ a \in Seq(Mail) /\ Len(a) = Len(q) + 1 /\ Len(q) \in Nat
        /\ (\A i \in 1..Len(q) : a[i] = q[i]) /\ a[Len(q) + 1] = t[1]
    BY <2>1, AppendProperties, LenProperties
  <2>3. /\ a \o b \in Seq(Mail) /\ Len(a \o b) = Len(a) + Len(b)
        /\ \A i \in 1..Len(a) + Len(b) :
             (a \o b)[i] = IF i <= Len(a) THEN a[i] ELSE b[i - Len(a)]
    BY <2>1, <2>2, ConcatProperties
  <2>4. /\ Len(q \o t) = Len(q) + Len(t)
        /\ \A i \in 1..Len(q) + Len(t) :
             (q \o t)[i] = IF i <= Len(q) THEN q[i] ELSE t[i - Len(q)]
    BY ConcatProperties
  <2> HIDE DEF a, b
  <2>5. Len(a \o b) = Len(q \o t) /\ Len(b) = Len(t) - 1
    BY <2>1, <2>2, <2>3, <2>4 DEF b
  <2>6. ASSUME NEW i \in 1..Len(a \o b) PROVE (a \o b)[i] = (q \o t)[i]
    <3>1. CASE i <= Len(q)
      BY <2>2, <2>3, <2>4, <2>5, <3>1
    <3>2. CASE i = Len(q) + 1
      <4>1. (a \o b)[i] = t[1]
        BY <2>2, <2>3, <2>5, <3>2
      <4>2. (q \o t)[i] = t[i - Len(q)] /\ i - Len(q) = 1
        BY <2>1, <2>2, <2>4, <2>5, <3>2
      <4> QED
        BY <4>1, <4>2
    <3>3. CASE i > Len(q) + 1
      <4> DEFINE k == i - Len(a)
      <4>1. (a \o b)[i] = b[k] /\ k \in 1..Len(b) /\ k + 1 = i - Len(q)
        BY <2>1, <2>2, <2>3, <2>5, <3>3
      <4>2. b[k] = t[k + 1]
        BY <2>1, <4>1 DEF b
      <4>3. (q \o t)[i] = t[i - Len(q)]
        BY <2>1, <2>2, <2>4, <2>5, <3>3
      <4> QED
        BY <4>1, <4>2, <4>3
    <3> QED
      BY <2>2, <2>5, <3>1, <3>2, <3>3
  <2> QED
    BY <1>1, <2>1, <2>3, <2>5, <2>6, SeqEqual DEF a, b
<1>4. ASSUME q # <<>>
      PROVE  /\ Tail(q) \o t = Tail(q \o t) /\ q \o t # <<>>
             /\ Head(q \o t) = Head(q) /\ Head(q) \in Mail /\ Head(q) = q[1]
  <2> DEFINE u == q \o t
             b == Tail(q)
             a == Tail(u)
  <2>1. /\ Head(q) \in Mail /\ Head(q) = q[1] /\ b \in Seq(Mail) /\ Len(b) = Len(q) - 1
        /\ (\A i \in 1..Len(b) : b[i] = q[i + 1])
        /\ Len(q) \in Nat \ {0} /\ Len(t) \in Nat
    BY <1>4, HeadTailProperties, LenProperties, EmptySeq
  <2>2. /\ Len(u) = Len(q) + Len(t)
        /\ \A i \in 1..Len(q) + Len(t) : u[i] = IF i <= Len(q) THEN q[i] ELSE t[i - Len(q)]
    BY ConcatProperties
  <2>3. u # <<>>
    BY <2>1, <2>2, EmptySeq
  <2>4. /\ a \in Seq(Mail) /\ Len(a) = Len(u) - 1 /\ Head(u) = u[1]
        /\ \A i \in 1..Len(a) : a[i] = u[i + 1]
    BY <1>1, <2>3, HeadTailProperties
  <2>5. /\ b \o t \in Seq(Mail) /\ Len(b \o t) = Len(b) + Len(t)
        /\ \A i \in 1..Len(b) + Len(t) :
             (b \o t)[i] = IF i <= Len(b) THEN b[i] ELSE t[i - Len(b)]
    BY <2>1, ConcatProperties
  <2> HIDE DEF u, a, b
  <2>6. Len(b \o t) = Len(a) /\ Head(u) = q[1]
    BY <2>1, <2>2, <2>4, <2>5
  <2>7. ASSUME NEW i \in 1..Len(a) PROVE (b \o t)[i] = a[i]
    <3>1. a[i] = u[i + 1] /\ i + 1 \in 1..Len(q) + Len(t)
      BY <2>1, <2>2, <2>4
    <3>2. CASE i <= Len(b)
      BY <2>1, <2>2, <2>5, <2>6, <3>1, <3>2
    <3>3. CASE i > Len(b)
      <4>1. (b \o t)[i] = t[i - Len(b)]
        BY <2>1, <2>5, <2>6, <3>3
      <4>2. u[i + 1] = t[(i + 1) - Len(q)]
        BY <2>1, <2>2, <3>1, <3>3
      <4>3. (i + 1) - Len(q) = i - Len(b)
        BY <2>1
      <4> QED
        BY <3>1, <4>1, <4>2, <4>3
    <3>4. i <= Len(b) \/ i > Len(b)
      BY <2>1
    <3> QED
      BY <3>2, <3>3, <3>4, Zenon
  <2>8. b \o t = a
    BY <2>4, <2>5, <2>6, <2>7, SeqEqual
  <2> QED
    BY <2>1, <2>3, <2>6, <2>8 DEF u, a, b
<1>5. q = <<>> => q \o t = t
  BY ConcatEmptySeq
<1> QED
  BY <1>1, <1>2, <1>3, <1>4, <1>5

\* What the page does to a line: it posts to a node that is there, and the last
\* value and the next number grow.
LEMMA LinePosted ==
  ASSUME NEW s, NEW q \in Seq(Mail), NEW t \in Seq(Mail),
         NEW l \in Seq(Nat), NEW p \in Seq(Nat), NEW d \in Nat, NEW next \in Nat,
         NEW v \in Nat, NEW w \in Nat, v <= w,
         Line(s, q, t, l, p, d, next, v)
  PROVE  /\ s # "absent" =>
              /\ Line(s, q, Append(t, SetParam(w)), l, p, d, next, w)
              /\ Line(s, q, Append(t, Message(next)), l, Append(p, next), d, next + 1, v)
         /\ Line(s, q, t, l, p, d, next, w)
         /\ Line(s, q, t, l, p, d, next + 1, v)
<1> DEFINE u == q \o t
<1>1. /\ u \in Seq(Mail)
      /\ Numbered(p, next) /\ InStep(u, l, p) /\ Rising(u, d, v)
  BY Queued DEF Line
<1>2. /\ SetParam(w) \in Mail /\ Message(next) \in Mail
      /\ SetParam(w).type = "setParam" /\ SetParam(w).value = w
      /\ Message(next).type = "message" /\ Message(next).value = next
  BY DEF SetParam, Message, Mail
<1>3. \A m \in Mail : q \o Append(t, m) = Append(u, m)
  BY Queued
<1> HIDE DEF u
<1>4. /\ InStep(Append(u, SetParam(w)), l, p) /\ Rising(Append(u, SetParam(w)), d, w)
      /\ Rising(u, d, w) /\ Numbered(p, next + 1)
  BY <1>1, <1>2, Posted
<1>5. /\ Numbered(Append(p, next), next + 1)
      /\ InStep(Append(u, Message(next)), l, Append(p, next))
      /\ Rising(Append(u, Message(next)), d, v)
  BY <1>1, <1>2, Posted
<1>6. Line(s, q, t, l, p, d, next, w) /\ Line(s, q, t, l, p, d, next + 1, v)
  BY <1>1, <1>4 DEF Line, u
<1>7. ASSUME s # "absent", NEW m \in Mail, m.type # "init"
      PROVE  /\ s = "waiting" => Append(t, m) # <<>> /\ Append(t, m)[1].type = "init"
             /\ \A k \in DOMAIN Append(t, m) :
                  Append(t, m)[k].type = "init" => k = 1 /\ s = "waiting"
  <2> DEFINE a == Append(t, m)
  <2>1. Grown(a, t, m) /\ a # <<>>
    BY Appended, AppendProperties
  <2>2. t # <<>> => 1 \in DOMAIN t
    BY LenProperties, EmptySeq
  <2> HIDE DEF a
  <2>3. /\ s = "waiting" => t # <<>> /\ t[1].type = "init"
        /\ \A k \in DOMAIN t : t[k].type = "init" => k = 1 /\ s = "waiting"
    BY DEF Line
  <2>4. s = "waiting" => a # <<>> /\ a[1].type = "init"
    BY <2>1, <2>2, <2>3 DEF Grown
  <2>5. \A k \in DOMAIN a : a[k].type = "init" => k = 1 /\ s = "waiting"
    BY <1>7, <2>1, <2>3 DEF Grown
  <2> QED
    BY <2>4, <2>5 DEF a
<1>8. ASSUME s # "absent"
      PROVE  /\ Line(s, q, Append(t, SetParam(w)), l, p, d, next, w)
             /\ Line(s, q, Append(t, Message(next)), l, Append(p, next), d, next + 1, v)
  <2>1. Line(s, q, Append(t, SetParam(w)), l, p, d, next, w)
    BY <1>1, <1>2, <1>3, <1>4, <1>7, <1>8 DEF Line
  <2>2. Line(s, q, Append(t, Message(next)), l, Append(p, next), d, next + 1, v)
    BY <1>2, <1>3, <1>5, <1>7, <1>8 DEF Line
  <2> QED
    BY <2>1, <2>2
<1> QED
  BY <1>6, <1>8

\* What the worklet does to a line: the plug-in is there, it takes the head of
\* what waited or of the port, or a message is put aside.
LEMMA LineTaken ==
  ASSUME NEW s, NEW q \in Seq(Mail), NEW t \in Seq(Mail),
         NEW l \in Seq(Nat), NEW p \in Seq(Nat), NEW d \in Nat, NEW next \in Nat,
         NEW v \in Nat, Line(s, q, t, l, p, d, next, v)
  PROVE  /\ t # <<>> /\ Head(t).type = "init" =>
              Line("loading", q, Tail(t), l, p, d, next, v)
         /\ t # <<>> /\ Head(t).type # "init" /\ s # "ready" =>
              Line(s, Append(q, Head(t)), Tail(t), l, p, d, next, v)
         /\ t # <<>> /\ s = "ready" =>
              /\ Head(t).type = "message" =>
                   Line(s, q, Tail(t), Append(l, Head(t).value), p, d, next, v)
              /\ Head(t).type = "setParam" =>
                   Line(s, q, Tail(t), l, p, Head(t).value, next, v) /\ d <= Head(t).value
         /\ q # <<>> =>
              /\ Head(q).type = "message" =>
                   Line(s, Tail(q), t, Append(l, Head(q).value), p, d, next, v)
              /\ Head(q).type = "setParam" =>
                   Line(s, Tail(q), t, l, p, Head(q).value, next, v) /\ d <= Head(q).value
<1>1. /\ Numbered(p, next) /\ InStep(q \o t, l, p) /\ Rising(q \o t, d, v)
      /\ q \o t \in Seq(Mail)
  BY Queued DEF Line
<1>2. ASSUME t # <<>>
      PROVE  /\ s # "absent"
             /\ Head(t) \in Mail /\ Head(t) = t[1] /\ Tail(t) \in Seq(Mail) /\ Shrunk(Tail(t), t)
             /\ \A k \in DOMAIN Tail(t) : Tail(t)[k].type # "init"
             /\ s = "waiting" <=> Head(t).type = "init"
  <2> DEFINE a == Tail(t)
  <2>1. Head(t) \in Mail /\ a \in Seq(Mail) /\ Shrunk(a, t)
    BY <1>2, HeadTailProperties, HeadDropped
  <2> HIDE DEF a
  <2>2. s # "absent"
    BY <1>2 DEF Line
  <2>3. 1 \in DOMAIN t /\ Head(t) = t[1]
    BY <2>1 DEF Shrunk
  <2>4. \A k \in DOMAIN t : t[k].type = "init" => k = 1 /\ s = "waiting"
    BY DEF Line
  <2>5. \A k \in DOMAIN a : a[k].type # "init"
    BY <2>1, <2>4 DEF Shrunk
  <2>6. s = "waiting" <=> Head(t).type = "init"
    BY <2>3, <2>4 DEF Line
  <2> QED
    BY <2>1, <2>2, <2>3, <2>5, <2>6 DEF a
<1>3. ASSUME q # <<>>
      PROVE  /\ s \notin {"absent", "waiting", "ready"}
             /\ Head(q) \in Mail /\ Tail(q) \in Seq(Mail) /\ Shrunk(Tail(q), q)
             /\ \A k \in DOMAIN Tail(q) : Tail(q)[k].type # "init"
  <2> DEFINE a == Tail(q)
  <2>1. Head(q) \in Mail /\ a \in Seq(Mail) /\ Shrunk(a, q)
    BY <1>3, HeadTailProperties, HeadDropped
  <2> HIDE DEF a
  <2>2. \A k \in DOMAIN a : a[k].type # "init"
    BY <2>1 DEF Shrunk, Line
  <2>3. s \notin {"absent", "waiting", "ready"}
    BY <1>3 DEF Line
  <2> QED
    BY <2>1, <2>2, <2>3 DEF a
<1>4. ASSUME t # <<>>, Head(t).type = "init"
      PROVE  Line("loading", q, Tail(t), l, p, d, next, v)
  <2>1. q = <<>> /\ q \o t = t /\ q \o Tail(t) = Tail(t)
    BY <1>2, <1>4, Queued DEF Line
  <2>2. InStep(Tail(t), l, p) /\ Rising(Tail(t), d, v)
    BY <1>1, <1>4, <2>1, HeadApplied
  <2>3. \A k \in DOMAIN q : q[k].type # "init"
    BY DEF Line
  <2> QED
    BY <1>1, <1>2, <1>4, <2>1, <2>2, <2>3 DEF Line
<1>5. ASSUME t # <<>>, Head(t).type # "init", s # "ready"
      PROVE  Line(s, Append(q, Head(t)), Tail(t), l, p, d, next, v)
  <2> DEFINE b == Append(q, Head(t))
  <2>1. Grown(b, q, Head(t))
    BY <1>2, <1>5, Appended
  <2>2. b \o Tail(t) = q \o t
    BY <1>5, Queued
  <2> HIDE DEF b
  <2>3. \A k \in DOMAIN q : q[k].type # "init"
    BY DEF Line
  <2>4. \A k \in DOMAIN b : b[k].type # "init"
    BY <1>5, <2>1, <2>3 DEF Grown
  <2>5. Line(s, b, Tail(t), l, p, d, next, v)
    BY <1>1, <1>2, <1>5, <2>2, <2>4 DEF Line
  <2> QED
    BY <2>5 DEF b
<1>6. ASSUME t # <<>>, s = "ready"
      PROVE  /\ Head(t).type = "message" =>
                  Line(s, q, Tail(t), Append(l, Head(t).value), p, d, next, v)
             /\ Head(t).type = "setParam" =>
                  Line(s, q, Tail(t), l, p, Head(t).value, next, v) /\ d <= Head(t).value
  <2>1. q = <<>> /\ q \o t = t /\ q \o Tail(t) = Tail(t)
    BY <1>2, <1>6, Queued DEF Line
  <2>2. \A k \in DOMAIN q : q[k].type # "init"
    BY DEF Line
  <2>3. CASE Head(t).type = "message"
    <3>1. InStep(Tail(t), Append(l, Head(t).value), p) /\ Rising(Tail(t), d, v)
      BY <1>1, <1>6, <2>1, <2>3, HeadApplied
    <3> QED
      BY <1>1, <1>2, <1>6, <2>1, <2>2, <2>3, <3>1 DEF Line
  <2>4. CASE Head(t).type = "setParam"
    <3>1. InStep(Tail(t), l, p) /\ Rising(Tail(t), Head(t).value, v) /\ d <= Head(t).value
      BY <1>1, <1>6, <2>1, <2>4, HeadApplied
    <3> QED
      BY <1>1, <1>2, <1>6, <2>1, <2>2, <2>4, <3>1 DEF Line
  <2> QED
    BY <2>3, <2>4
<1>7. ASSUME q # <<>>
      PROVE  /\ Head(q).type = "message" =>
                  Line(s, Tail(q), t, Append(l, Head(q).value), p, d, next, v)
             /\ Head(q).type = "setParam" =>
                  Line(s, Tail(q), t, l, p, Head(q).value, next, v) /\ d <= Head(q).value
  <2>1. /\ Tail(q) \o t = Tail(q \o t) /\ Head(q \o t) = Head(q) /\ q \o t # <<>>
    BY <1>7, Queued
  <2>2. /\ s # "waiting"
        /\ \A k \in DOMAIN t : t[k].type = "init" => k = 1 /\ s = "waiting"
    BY <1>3, <1>7 DEF Line
  <2>3. CASE Head(q).type = "message"
    <3>1. InStep(Tail(q) \o t, Append(l, Head(q).value), p) /\ Rising(Tail(q) \o t, d, v)
      BY <1>1, <2>1, <2>3, HeadApplied
    <3>2. Line(s, Tail(q), t, Append(l, Head(q).value), p, d, next, v)
      BY <1>1, <1>3, <1>7, <2>2, <3>1 DEF Line
    <3> QED
      BY <2>3, <3>2
  <2>4. CASE Head(q).type = "setParam"
    <3>1. /\ InStep(Tail(q) \o t, l, p) /\ Rising(Tail(q) \o t, Head(q).value, v)
          /\ d <= Head(q).value
      BY <1>1, <2>1, <2>4, HeadApplied
    <3>2. Line(s, Tail(q), t, l, p, Head(q).value, next, v)
      BY <1>1, <1>3, <1>7, <2>2, <3>1 DEF Line
    <3> QED
      BY <2>4, <3>1, <3>2
  <2> QED
    BY <2>3, <2>4
<1> QED
  BY <1>4, <1>5, <1>6, <1>7

\* How the state of a worklet goes on: a node appears, and a module is loaded.
LEMMA LinePhase ==
  ASSUME NEW s, NEW q \in Seq(Mail), NEW t \in Seq(Mail), NEW l, NEW p, NEW d,
         NEW next \in Nat, NEW v \in Nat,
         Line(s, q, t, l, p, d, next, v)
  PROVE  /\ s \in {"loading", "draining"} =>
              /\ Line("draining", q, t, l, p, d, next, v)
              /\ Line("failed", q, t, l, p, d, next, v)
              /\ q = <<>> => Line("ready", q, t, l, p, d, next, v)
         /\ s = "absent" => Line("waiting", q, <<[type |-> "init", value |-> None]>>, l, p, d, next, v)
<1>1. s \in {"loading", "draining"} =>
              /\ Line("draining", q, t, l, p, d, next, v)
              /\ Line("failed", q, t, l, p, d, next, v)
              /\ q = <<>> => Line("ready", q, t, l, p, d, next, v)
  BY DEF Line
<1>2. ASSUME s = "absent"
      PROVE  Line("waiting", q, <<[type |-> "init", value |-> None]>>, l, p, d, next, v)
  <2> DEFINE m == [type |-> "init", value |-> None]
             u == <<m>>
  <2>1. q = <<>> /\ l = <<>> /\ p = <<>> /\ d = None
    BY <1>2 DEF Line
  <2>2. m \in Mail /\ m.type = "init" /\ u \in Seq(Mail) /\ u # <<>> /\ u[1] = m /\ DOMAIN u = {1}
    BY DEF Mail, None
  <2> HIDE DEF m, u
  <2>3. q \o u = u
    BY <2>1, <2>2, Queued
  <2>4. InStep(u, l, p) /\ Rising(u, d, v) /\ Numbered(p, next)
    BY <2>1, <2>2 DEF InStep, Rising, Numbered, None
  <2>5. \A k \in DOMAIN q : q[k].type # "init"
    BY DEF Line
  <2>6. Line("waiting", q, u, l, p, d, next, v)
    BY <2>1, <2>2, <2>3, <2>4, <2>5 DEF Line
  <2> QED
    BY <2>6 DEF m, u
<1> QED
  BY <1>1, <1>2

LEMMA WorkletInitial == Init => WorkletInv
<1> SUFFICES ASSUME Init PROVE WorkletInv
  OBVIOUS
<1>1. WorkletTypeOK
  BY WorkletAssumption DEF Init, WorkletTypeOK, None
<1>2. ASSUME NEW n \in Node PROVE Kept(n)
  <2>1. <<>> \o <<>> = <<>>
    OBVIOUS
  <2>2. ~(n <= 0)
    BY WorkletAssumption DEF Node
  <2>3. Line("absent", <<>>, <<>>, <<>>, <<>>, None, 1, None)
    BY <2>1 DEF Line, Numbered, InStep, Rising, None
  <2> QED
    BY <2>2, <2>3 DEF Init, Kept, None
<1> QED
  BY <1>1, <1>2 DEF WorkletInv

\* The types of one node's part.
LEMMA WorkletTypes ==
  ASSUME WorkletInv, NEW n \in Node
  PROVE  /\ toWorklet[n] \in Seq(Mail) /\ pendingParams[n] \in Seq(Mail)
         /\ log[n] \in Seq(Nat) /\ posted[n] \in Seq(Nat)
         /\ dsp[n] \in Nat /\ paramValue \in Nat /\ nextMessage \in Nat
         /\ n \in Nat /\ created \in Nat
         /\ Kept(n)
BY WorkletAssumption DEF WorkletInv, WorkletTypeOK, Node

LEMMA StartKeeps == WorkletInv /\ Start => WorkletInv'
<1> SUFFICES ASSUME WorkletInv, Start PROVE WorkletInv'
  OBVIOUS
<1> DEFINE new == created + 1
           init == <<[type |-> "init", value |-> None]>>
<1>1. new \in Node /\ new \in 0..MaxNodes /\ init \in Seq(Mail)
  BY WorkletAssumption DEF WorkletInv, WorkletTypeOK, Start, Node, Mail, None
<1>2. WorkletTypeOK'
  BY <1>1, WorkletAssumption DEF WorkletInv, WorkletTypeOK, Start, None
<1>3. ASSUME NEW k \in Node PROVE Kept(k)'
  <2>1. CASE k = new
    <3>1. /\ ~(k <= created) /\ k <= created'
      BY <2>1, WorkletTypes DEF Start
    <3>2. state[k] = "absent"
      BY <3>1, WorkletTypes DEF Kept
    <3>3. Line("waiting", pendingParams[k], init, log[k], posted[k], dsp[k], nextMessage, paramValue)
      BY <3>2, WorkletTypes, LinePhase DEF Kept
    <3>4. state'[k] = "waiting" /\ toWorklet'[k] = init
      BY <2>1 DEF Start, WorkletInv, WorkletTypeOK
    <3> QED
      BY <3>1, <3>3, <3>4 DEF Kept, Start
  <2>2. CASE k # new
    <3>1. (k <= created') = (k <= created) /\ state'[k] = state[k] /\ toWorklet'[k] = toWorklet[k]
      BY <2>2, WorkletTypes DEF Start, WorkletInv, WorkletTypeOK
    <3> QED
      BY <3>1, WorkletTypes DEF Kept, Start
  <2> QED
    BY <2>1, <2>2
<1> QED
  BY <1>2, <1>3 DEF WorkletInv

\* The page posts nothing, or something to its node.
LEMMA SendParamKeeps == WorkletInv /\ SendParam => WorkletInv'
<1> SUFFICES ASSUME WorkletInv, SendParam PROVE WorkletInv'
  OBVIOUS
<1> DEFINE w == paramValue + 1
<1>1. w \in Nat /\ paramValue <= w /\ SetParam(w) \in Mail
  BY DEF WorkletInv, WorkletTypeOK, SetParam, Mail
<1>2. node # None => node \in Node /\ node = created
  BY WorkletAssumption DEF WorkletInv, WorkletTypeOK, Node, None
<1>3. /\ paramValue' = w
      /\ UNCHANGED <<node, created, nextMessage, posted, state, pendingParams, dsp, log, toMain>>
  BY DEF SendParam, worklet
<1>4. /\ \A k \in Node : toWorklet'[k] = IF node # None /\ k = node
                                         THEN Append(toWorklet[k], SetParam(w))
                                         ELSE toWorklet[k]
      /\ toWorklet' \in [Node -> Seq(Mail)]
  BY <1>1, <1>2 DEF SendParam, WorkletInv, WorkletTypeOK
<1> HIDE DEF w
<1>5. WorkletTypeOK'
  BY <1>1, <1>3, <1>4 DEF WorkletInv, WorkletTypeOK
<1>6. ASSUME NEW k \in Node PROVE Kept(k)'
  <2>1. /\ state[k] # "absent" =>
             Line(state[k], pendingParams[k], Append(toWorklet[k], SetParam(w)), log[k], posted[k],
                  dsp[k], nextMessage, w)
        /\ Line(state[k], pendingParams[k], toWorklet[k], log[k], posted[k], dsp[k], nextMessage, w)
    BY <1>1, WorkletTypes, LinePosted DEF Kept
  <2>2. k <= created <=> state[k] # "absent"
    BY WorkletTypes DEF Kept
  <2>3. node # None /\ k = node => k <= created
    BY <1>2, WorkletTypes
  <2> QED
    BY <1>3, <1>4, <2>1, <2>2, <2>3 DEF Kept
<1> QED
  BY <1>5, <1>6 DEF WorkletInv

\* One sequence of a family grows.
LEMMA AppendedAt ==
  ASSUME NEW S, NEW f \in [Node -> Seq(S)], NEW g, NEW n \in Node, NEW m \in S,
         g = [f EXCEPT ![n] = Append(@, m)]
  PROVE  /\ g \in [Node -> Seq(S)] /\ g[n] = Append(f[n], m)
         /\ \A k \in Node : k # n => g[k] = f[k]
<1>1. Append(f[n], m) \in Seq(S)
  BY AppendProperties
<1> QED
  BY <1>1

LEMMA SendMessageKeeps == WorkletInv /\ SendMessage => WorkletInv'
<1> SUFFICES ASSUME WorkletInv, SendMessage PROVE WorkletInv'
  OBVIOUS
<1>1. /\ nextMessage \in Nat /\ nextMessage + 1 \in Nat /\ Message(nextMessage) \in Mail
      /\ paramValue \in Nat /\ paramValue <= paramValue
  BY DEF WorkletInv, WorkletTypeOK, Message, Mail
<1>2. node # None => node \in Node /\ node = created
  BY WorkletAssumption DEF WorkletInv, WorkletTypeOK, Node, None
<1>3. /\ nextMessage' = nextMessage + 1
      /\ UNCHANGED <<node, created, paramValue, state, pendingParams, dsp, log, toMain>>
  BY DEF SendMessage, worklet
<1>4. /\ \A k \in Node : toWorklet'[k] = IF node # None /\ k = node
                                         THEN Append(toWorklet[k], Message(nextMessage))
                                         ELSE toWorklet[k]
      /\ toWorklet' \in [Node -> Seq(Mail)]
  <2>1. toWorklet \in [Node -> Seq(Mail)]
    BY DEF WorkletInv, WorkletTypeOK
  <2>2. CASE node = None
    BY <2>1, <2>2 DEF SendMessage
  <2>3. CASE node # None
    <3>1. toWorklet' = [toWorklet EXCEPT ![node] = Append(@, Message(nextMessage))]
      BY <2>3 DEF SendMessage
    <3> QED
      BY <1>1, <1>2, <2>1, <2>3, <3>1, AppendedAt
  <2> QED
    BY <2>2, <2>3
<1>5. /\ \A k \in Node : posted'[k] = IF node # None /\ k = node
                                      THEN Append(posted[k], nextMessage)
                                      ELSE posted[k]
      /\ posted' \in [Node -> Seq(Nat)]
  <2>1. posted \in [Node -> Seq(Nat)]
    BY DEF WorkletInv, WorkletTypeOK
  <2>2. CASE node = None
    BY <2>1, <2>2 DEF SendMessage
  <2>3. CASE node # None
    <3>1. posted' = [posted EXCEPT ![node] = Append(@, nextMessage)]
      BY <2>3 DEF SendMessage
    <3> QED
      BY <1>1, <1>2, <2>1, <2>3, <3>1, AppendedAt
  <2> QED
    BY <2>2, <2>3
<1>6. WorkletTypeOK'
  BY <1>1, <1>3, <1>4, <1>5 DEF WorkletInv, WorkletTypeOK
<1>7. ASSUME NEW k \in Node PROVE Kept(k)'
  <2>1. /\ state[k] # "absent" =>
             Line(state[k], pendingParams[k], Append(toWorklet[k], Message(nextMessage)), log[k],
                  Append(posted[k], nextMessage), dsp[k], nextMessage + 1, paramValue)
        /\ Line(state[k], pendingParams[k], toWorklet[k], log[k], posted[k], dsp[k],
                nextMessage + 1, paramValue)
    BY <1>1, WorkletTypes, LinePosted DEF Kept
  <2>2. k <= created <=> state[k] # "absent"
    BY WorkletTypes DEF Kept
  <2>3. node # None /\ k = node => k <= created
    BY <1>2, WorkletTypes
  <2> QED
    BY <1>3, <1>4, <1>5, <2>1, <2>2, <2>3 DEF Kept
<1> QED
  BY <1>6, <1>7 DEF WorkletInv

\* The ready message may belong to another node than the one that is seeded.
LEMMA OnWorkletMessageKeeps ==
  ASSUME WorkletInv, NEW n \in Node, OnWorkletMessage(n)
  PROVE  WorkletInv'
<1>1. paramValue \in Nat /\ paramValue <= paramValue /\ SetParam(paramValue) \in Mail
  BY DEF WorkletInv, WorkletTypeOK, SetParam, Mail
<1>2. node # None => node \in Node /\ node = created
  BY WorkletAssumption DEF WorkletInv, WorkletTypeOK, Node, None
<1>3. /\ UNCHANGED <<node, created, paramValue, nextMessage, posted, state, pendingParams, dsp, log>>
      /\ DOMAIN toMain' = Node
  BY DEF OnWorkletMessage, worklet, WorkletInv, WorkletTypeOK
<1>4. /\ \A k \in Node : \/ toWorklet'[k] = toWorklet[k]
                         \/ /\ node # None /\ k = node
                            /\ toWorklet'[k] = Append(toWorklet[k], SetParam(paramValue))
      /\ toWorklet' \in [Node -> Seq(Mail)]
  <2>1. toWorklet \in [Node -> Seq(Mail)]
    BY DEF WorkletInv, WorkletTypeOK
  <2>2. CASE toWorklet' = toWorklet
    BY <2>1, <2>2
  <2>3. CASE toWorklet' # toWorklet
    <3>1. /\ node # None
          /\ toWorklet' = [toWorklet EXCEPT ![node] = Append(@, SetParam(paramValue))]
      BY <2>3 DEF OnWorkletMessage, OnReady
    <3> QED
      BY <1>1, <1>2, <2>1, <3>1, AppendedAt
  <2> QED
    BY <2>2, <2>3
<1>5. WorkletTypeOK'
  BY <1>3, <1>4 DEF WorkletInv, WorkletTypeOK
<1>6. ASSUME NEW k \in Node PROVE Kept(k)'
  <2>1. state[k] # "absent" =>
          Line(state[k], pendingParams[k], Append(toWorklet[k], SetParam(paramValue)), log[k],
               posted[k], dsp[k], nextMessage, paramValue)
    BY <1>1, WorkletTypes, LinePosted DEF Kept
  <2>2. /\ k <= created <=> state[k] # "absent"
        /\ Line(state[k], pendingParams[k], toWorklet[k], log[k], posted[k], dsp[k],
                nextMessage, paramValue)
    BY WorkletTypes DEF Kept
  <2>3. node # None /\ k = node => k <= created
    BY <1>2, WorkletTypes
  <2> QED
    BY <1>3, <1>4, <2>1, <2>2, <2>3 DEF Kept
<1> QED
  BY <1>5, <1>6 DEF WorkletInv

\* What a step of one worklet leaves alone, and what it may not do to its own
\* line, is enough for all of them.
LEMMA OneWorklet ==
  ASSUME WorkletInv, NEW n \in Node, NEW s, NEW q \in Seq(Mail), NEW t \in Seq(Mail),
         NEW l \in Seq(Nat), NEW d \in Nat,
         s \in {"loading", "draining", "ready", "failed", state[n]}, state[n] # "absent",
         UNCHANGED page, DOMAIN toMain' = Node,
         state' = [state EXCEPT ![n] = s], pendingParams' = [pendingParams EXCEPT ![n] = q],
         toWorklet' = [toWorklet EXCEPT ![n] = t], log' = [log EXCEPT ![n] = l],
         dsp' = [dsp EXCEPT ![n] = d],
         dsp[n] <= d,
         Line(s, q, t, l, posted[n], d, nextMessage, paramValue)
  PROVE  WorkletInv' /\ \A k \in Node : dsp'[k] >= dsp[k]
<1>1. UNCHANGED <<node, created, paramValue, nextMessage, posted>>
  BY DEF page
<1>2. WorkletTypeOK'
  BY <1>1 DEF WorkletInv, WorkletTypeOK
<1>3. ASSUME NEW k \in Node PROVE Kept(k)' /\ dsp'[k] >= dsp[k]
  <2>1. Kept(k) /\ dsp[k] \in Nat /\ Kept(n)
    BY WorkletTypes
  <2>2. CASE k = n
    <3>1. /\ state'[k] = s /\ pendingParams'[k] = q /\ toWorklet'[k] = t /\ log'[k] = l /\ dsp'[k] = d
      BY <2>2 DEF WorkletInv, WorkletTypeOK
    <3>2. k <= created' <=> s # "absent"
      BY <1>1, <2>1, <2>2 DEF Kept
    <3> QED
      BY <1>1, <2>2, <3>1, <3>2 DEF Kept
  <2>3. CASE k # n
    <3>1. /\ state'[k] = state[k] /\ pendingParams'[k] = pendingParams[k] /\ toWorklet'[k] = toWorklet[k]
          /\ log'[k] = log[k] /\ dsp'[k] = dsp[k]
      BY <2>3 DEF WorkletInv, WorkletTypeOK
    <3> QED
      BY <1>1, <2>1, <3>1 DEF Kept
  <2> QED
    BY <2>2, <2>3
<1> QED
  BY <1>2, <1>3 DEF WorkletInv

\* A part that is assigned to itself.
LEMMA Itself ==
  ASSUME NEW S, NEW f \in [Node -> S], NEW n \in Node
  PROVE  f = [f EXCEPT ![n] = f[n]]
OBVIOUS

\* What _applyParam() does to the parts of its worklet.
LEMMA Applies ==
  ASSUME WorkletInv, NEW n \in Node, NEW m \in Mail, Apply(n, m)
  PROVE  /\ m.type \in {"setParam", "message"} /\ DOMAIN toMain' = Node
         /\ m.type = "setParam" =>
              /\ m.value \in Nat
              /\ dsp' = [dsp EXCEPT ![n] = m.value] /\ log' = [log EXCEPT ![n] = log[n]]
         /\ m.type = "message" =>
              /\ Append(log[n], m.value) \in Seq(Nat)
              /\ dsp' = [dsp EXCEPT ![n] = dsp[n]]
              /\ log' = [log EXCEPT ![n] = Append(log[n], m.value)]
<1>1. m.value \in Nat
  BY DEF Mail
<1>2. dsp \in [Node -> Nat] /\ log \in [Node -> Seq(Nat)] /\ DOMAIN toMain = Node
  BY DEF WorkletInv, WorkletTypeOK
<1>3. dsp = [dsp EXCEPT ![n] = dsp[n]] /\ log = [log EXCEPT ![n] = log[n]]
  BY <1>2, Itself
<1>4. Append(log[n], m.value) \in Seq(Nat)
  BY <1>1, <1>2
<1> QED
  BY <1>1, <1>2, <1>3, <1>4 DEF Apply

\* The worklet reads a message of its port.
LEMMA OnMessageKeeps ==
  ASSUME WorkletInv, NEW n \in Node, OnMessage(n)
  PROVE  WorkletInv' /\ \A k \in Node : dsp'[k] >= dsp[k]
<1> DEFINE m == Head(toWorklet[n])
           t == Tail(toWorklet[n])
<1>1. /\ toWorklet[n] \in Seq(Mail) /\ pendingParams[n] \in Seq(Mail) /\ log[n] \in Seq(Nat)
      /\ posted[n] \in Seq(Nat) /\ dsp[n] \in Nat
      /\ nextMessage \in Nat /\ paramValue \in Nat
      /\ Line(state[n], pendingParams[n], toWorklet[n], log[n], posted[n], dsp[n], nextMessage, paramValue)
  BY WorkletTypes DEF Kept
<1>2. /\ toWorklet[n] # <<>> /\ m \in Mail /\ t \in Seq(Mail) /\ state[n] # "absent"
      /\ UNCHANGED page /\ toWorklet' = [toWorklet EXCEPT ![n] = t]
  BY <1>1, HeadTailProperties DEF OnMessage, Line
<1>3. /\ pendingParams \in [Node -> Seq(Mail)] /\ dsp \in [Node -> Nat] /\ log \in [Node -> Seq(Nat)]
      /\ DOMAIN toMain = Node /\ dsp[n] <= dsp[n]
      /\ state \in [Node -> {"absent", "waiting", "loading", "draining", "ready", "failed"}]
  BY <1>1 DEF WorkletInv, WorkletTypeOK
<1>4. /\ state = [state EXCEPT ![n] = state[n]] /\ pendingParams = [pendingParams EXCEPT ![n] = pendingParams[n]]
      /\ dsp = [dsp EXCEPT ![n] = dsp[n]] /\ log = [log EXCEPT ![n] = log[n]]
  BY <1>3, Itself
<1>5. \/ /\ m.type = "init"
         /\ state' = [state EXCEPT ![n] = "loading"]
         /\ UNCHANGED <<pendingParams, dsp, log, toMain>>
      \/ /\ m.type # "init" /\ state[n] = "ready"
         /\ Apply(n, m)
         /\ UNCHANGED <<state, pendingParams>>
      \/ /\ m.type # "init" /\ state[n] # "ready"
         /\ pendingParams' = [pendingParams EXCEPT ![n] = Append(@, m)]
         /\ UNCHANGED <<state, dsp, log, toMain>>
  BY DEF OnMessage
<1>6. /\ m.type = "init" =>
           Line("loading", pendingParams[n], t, log[n], posted[n], dsp[n], nextMessage, paramValue)
      /\ m.type # "init" /\ state[n] # "ready" =>
           Line(state[n], Append(pendingParams[n], m), t, log[n], posted[n], dsp[n], nextMessage, paramValue)
      /\ m.type = "message" /\ state[n] = "ready" =>
           Line(state[n], pendingParams[n], t, Append(log[n], m.value), posted[n], dsp[n],
                nextMessage, paramValue)
      /\ m.type = "setParam" /\ state[n] = "ready" =>
           /\ Line(state[n], pendingParams[n], t, log[n], posted[n], m.value, nextMessage, paramValue)
           /\ dsp[n] <= m.value
  BY <1>1, <1>2, LineTaken
<1> HIDE DEF m, t
<1>7. CASE m.type = "init" /\ state' = [state EXCEPT ![n] = "loading"]
           /\ UNCHANGED <<pendingParams, dsp, log, toMain>>
  BY <1>1, <1>2, <1>3, <1>4, <1>6, <1>7, OneWorklet
<1>8. CASE m.type # "init" /\ state[n] = "ready" /\ Apply(n, m) /\ UNCHANGED <<state, pendingParams>>
  <2>1. CASE m.type = "setParam"
    <3>1. /\ m.value \in Nat /\ DOMAIN toMain' = Node
          /\ dsp' = [dsp EXCEPT ![n] = m.value] /\ log' = [log EXCEPT ![n] = log[n]]
      BY <1>2, <1>8, <2>1, Applies
    <3> QED
      BY <1>1, <1>2, <1>4, <1>6, <1>8, <2>1, <3>1, OneWorklet
  <2>2. CASE m.type = "message"
    <3>1. /\ Append(log[n], m.value) \in Seq(Nat) /\ DOMAIN toMain' = Node
          /\ dsp' = [dsp EXCEPT ![n] = dsp[n]]
          /\ log' = [log EXCEPT ![n] = Append(log[n], m.value)]
      BY <1>2, <1>8, <2>2, Applies
    <3> QED
      BY <1>1, <1>2, <1>3, <1>4, <1>6, <1>8, <2>2, <3>1, OneWorklet
  <2>3. m.type \in {"setParam", "message"}
    BY <1>2, <1>8, Applies
  <2> QED
    BY <2>1, <2>2, <2>3
<1>9. CASE m.type # "init" /\ state[n] # "ready" /\ pendingParams' = [pendingParams EXCEPT ![n] = Append(@, m)]
           /\ UNCHANGED <<state, dsp, log, toMain>>
  <2>1. Append(pendingParams[n], m) \in Seq(Mail)
    BY <1>1, <1>2, AppendProperties
  <2> QED
    BY <1>1, <1>2, <1>3, <1>4, <1>6, <1>9, <2>1, OneWorklet
<1> QED
  BY <1>5, <1>7, <1>8, <1>9

\* The module is there, what waited is applied, the worklet is ready; or it fails.
LEMMA LoadKeeps ==
  ASSUME WorkletInv, NEW n \in Node, Load(n)
  PROVE  WorkletInv' /\ \A k \in Node : dsp'[k] >= dsp[k]
<1> DEFINE m == Head(pendingParams[n])
           q == Tail(pendingParams[n])
<1>1. /\ toWorklet[n] \in Seq(Mail) /\ pendingParams[n] \in Seq(Mail) /\ log[n] \in Seq(Nat)
      /\ posted[n] \in Seq(Nat) /\ dsp[n] \in Nat
      /\ nextMessage \in Nat /\ paramValue \in Nat
      /\ Line(state[n], pendingParams[n], toWorklet[n], log[n], posted[n], dsp[n], nextMessage, paramValue)
  BY WorkletTypes DEF Kept
<1>2. /\ pendingParams \in [Node -> Seq(Mail)] /\ dsp \in [Node -> Nat] /\ log \in [Node -> Seq(Nat)]
      /\ toWorklet \in [Node -> Seq(Mail)]
      /\ DOMAIN toMain = Node /\ dsp[n] <= dsp[n]
      /\ state \in [Node -> {"absent", "waiting", "loading", "draining", "ready", "failed"}]
  BY <1>1 DEF WorkletInv, WorkletTypeOK
<1>3. /\ state = [state EXCEPT ![n] = state[n]] /\ pendingParams = [pendingParams EXCEPT ![n] = pendingParams[n]]
      /\ dsp = [dsp EXCEPT ![n] = dsp[n]] /\ log = [log EXCEPT ![n] = log[n]]
      /\ toWorklet = [toWorklet EXCEPT ![n] = toWorklet[n]]
  BY <1>2, Itself
<1>4. /\ state[n] \in {"loading", "draining"} /\ UNCHANGED page
      /\ toWorklet' = [toWorklet EXCEPT ![n] = toWorklet[n]] /\ state[n] # "absent"
  BY <1>3 DEF Load, Instantiated, Drain, Loaded, LoadFailed
<1>5. /\ Line("draining", pendingParams[n], toWorklet[n], log[n], posted[n], dsp[n], nextMessage, paramValue)
      /\ Line("failed", pendingParams[n], toWorklet[n], log[n], posted[n], dsp[n], nextMessage, paramValue)
      /\ pendingParams[n] = <<>> =>
           Line("ready", pendingParams[n], toWorklet[n], log[n], posted[n], dsp[n], nextMessage, paramValue)
  BY <1>1, <1>4, LinePhase
<1>6. CASE Instantiated(n)
  <2>1. /\ state' = [state EXCEPT ![n] = "draining"]
        /\ UNCHANGED <<toMain, pendingParams, dsp, log>>
    BY <1>6 DEF Instantiated
  <2> QED
    BY <1>1, <1>2, <1>3, <1>4, <1>5, <2>1, OneWorklet
<1>7. CASE Loaded(n)
  <2>1. /\ pendingParams[n] = <<>> /\ state' = [state EXCEPT ![n] = "ready"]
        /\ DOMAIN toMain' = Node /\ UNCHANGED <<pendingParams, dsp, log>>
    BY <1>2, <1>7 DEF Loaded
  <2> QED
    BY <1>1, <1>2, <1>3, <1>4, <1>5, <2>1, OneWorklet
<1>8. CASE LoadFailed(n)
  <2>1. /\ state' = [state EXCEPT ![n] = "failed"]
        /\ DOMAIN toMain' = Node /\ UNCHANGED <<pendingParams, dsp, log>>
    BY <1>2, <1>8 DEF LoadFailed
  <2> QED
    BY <1>1, <1>2, <1>3, <1>4, <1>5, <2>1, OneWorklet
<1>9. CASE Drain(n)
  <2>1. /\ pendingParams[n] # <<>> /\ m \in Mail /\ q \in Seq(Mail) /\ Apply(n, m)
        /\ pendingParams' = [pendingParams EXCEPT ![n] = q] /\ state' = state
    BY <1>1, <1>9, HeadTailProperties DEF Drain
  <2>2. /\ m.type = "message" =>
             Line(state[n], q, toWorklet[n], Append(log[n], m.value), posted[n], dsp[n],
                  nextMessage, paramValue)
        /\ m.type = "setParam" =>
             /\ Line(state[n], q, toWorklet[n], log[n], posted[n], m.value, nextMessage, paramValue)
             /\ dsp[n] <= m.value
    BY <1>1, <2>1, LineTaken
  <2> HIDE DEF m, q
  <2>3. CASE m.type = "setParam"
    <3>1. /\ m.value \in Nat /\ DOMAIN toMain' = Node
          /\ dsp' = [dsp EXCEPT ![n] = m.value] /\ log' = [log EXCEPT ![n] = log[n]]
      BY <2>1, <2>3, Applies
    <3> QED
      BY <1>1, <1>3, <1>4, <2>1, <2>2, <2>3, <3>1, OneWorklet
  <2>4. CASE m.type = "message"
    <3>1. /\ Append(log[n], m.value) \in Seq(Nat) /\ DOMAIN toMain' = Node
          /\ dsp' = [dsp EXCEPT ![n] = dsp[n]]
          /\ log' = [log EXCEPT ![n] = Append(log[n], m.value)]
      BY <2>1, <2>4, Applies
    <3> QED
      BY <1>1, <1>2, <1>3, <1>4, <2>1, <2>2, <2>4, <3>1, OneWorklet
  <2>5. m.type \in {"setParam", "message"}
    BY <2>1, Applies
  <2> QED
    BY <2>3, <2>4, <2>5
<1> QED
  BY <1>6, <1>7, <1>8, <1>9 DEF Load

LEMMA WorkletStep ==
  ASSUME WorkletInv, [Next]_vars
  PROVE  WorkletInv' /\ \A n \in Node : dsp'[n] >= dsp[n]
<1>1. \A n \in Node : dsp[n] \in Nat /\ dsp[n] >= dsp[n]
  BY WorkletTypes
<1>2. CASE Start
  BY <1>1, <1>2, StartKeeps DEF Start
<1>3. CASE Stop
  BY <1>1, <1>3 DEF Stop, worklet, WorkletInv, WorkletTypeOK, Kept
<1>4. CASE SendParam
  BY <1>1, <1>4, SendParamKeeps DEF SendParam, worklet
<1>5. CASE SendMessage
  BY <1>1, <1>5, SendMessageKeeps DEF SendMessage, worklet
<1>6. ASSUME NEW n \in Node, OnWorkletMessage(n)
      PROVE  WorkletInv' /\ \A k \in Node : dsp'[k] >= dsp[k]
  BY <1>1, <1>6, OnWorkletMessageKeeps DEF OnWorkletMessage, worklet
<1>7. ASSUME NEW n \in Node, OnMessage(n)
      PROVE  WorkletInv' /\ \A k \in Node : dsp'[k] >= dsp[k]
  BY <1>7, OnMessageKeeps
<1>8. ASSUME NEW n \in Node, Load(n)
      PROVE  WorkletInv' /\ \A k \in Node : dsp'[k] >= dsp[k]
  BY <1>8, LoadKeeps
<1>9. CASE UNCHANGED vars
  BY <1>1, <1>9 DEF vars, page, worklet, WorkletInv, WorkletTypeOK, Kept
<1> QED
  BY <1>2, <1>3, <1>4, <1>5, <1>6, <1>7, <1>8, <1>9 DEF Next

LEMMA WorkletInvariant == Spec => []WorkletInv
<1>1. WorkletInv /\ [Next]_vars => WorkletInv'
  BY WorkletStep
<1> QED
  BY <1>1, WorkletInitial, PTL DEF Spec

\* The plug-in of a node has received a prefix of the messages that were posted
\* to it, whenever its module came and whichever node is the page's.
THEOREM MessagesInOrderAlways == Spec => []MessagesInOrder
<1>1. WorkletInv => MessagesInOrder
  BY DEF WorkletInv, Kept, Line, InStep, MessagesInOrder
<1> QED
  BY <1>1, WorkletInvariant, PTL

\* ... and all of them, when the worklet is ready and its port is empty.
THEOREM NoMessageLost == Spec => []MessagesArrive
<1>1. ASSUME WorkletInv, NEW n \in Node, Drained(n)
      PROVE  log[n] = posted[n]
  <2>1. /\ toWorklet[n] = <<>> /\ pendingParams[n] = <<>>
        /\ log[n] \in Seq(Nat) /\ posted[n] \in Seq(Nat)
        /\ InStep(pendingParams[n] \o toWorklet[n], log[n], posted[n])
    BY <1>1, WorkletTypes DEF Drained, Kept, Line
  <2>2. pendingParams[n] \o toWorklet[n] = <<>>
    BY <2>1
  <2>3. /\ Len(log[n]) \in Nat /\ Len(posted[n]) \in Nat
        /\ DOMAIN log[n] = 1..Len(log[n]) /\ DOMAIN posted[n] = 1..Len(posted[n])
    BY <2>1, LenProperties
  <2>4. ASSUME Len(log[n]) < Len(posted[n]) PROVE FALSE
    <3>1. Len(posted[n]) \in DOMAIN posted[n] /\ Len(posted[n]) > Len(log[n])
      BY <2>3, <2>4
    <3>2. \E k \in DOMAIN (pendingParams[n] \o toWorklet[n]) : TRUE
      BY <2>1, <3>1 DEF InStep
    <3> QED
      BY <2>2, <3>2
  <2>5. Len(log[n]) = Len(posted[n])
    BY <2>1, <2>3, <2>4 DEF InStep
  <2>6. \A i \in 1..Len(log[n]) : log[n][i] = posted[n][i]
    BY <2>1, <2>3 DEF InStep
  <2> QED
    BY <2>1, <2>5, <2>6, SeqEqual
<1>2. WorkletInv => MessagesArrive
  BY <1>1 DEF MessagesArrive
<1> QED
  BY <1>2, WorkletInvariant, PTL

\* A plug-in never goes back to an older value of the parameter, although the
\* seed of the ready message and the edits of the page reach it by one queue
\* that starts to move only when the module is there.
THEOREM ValuesRise == Spec => NoStaleParam
<1> DEFINE Rises == \A n \in Node : dsp'[n] >= dsp[n]
<1>1. WorkletInv /\ [Next]_vars => [Rises]_dsp
  BY WorkletStep
<1> QED
  BY <1>1, WorkletInvariant, PTL DEF Spec, NoStaleParam

-----------------------------------------------------------------------------
(* The Web Audio Module.  A write that reached the processor is the last    *)
(* one of its id that waits, or none waits and the plug-in has it.          *)

WamWrite == [type : {"setParam"}, id : ParamId, value : 1..MaxWrites]

Waits(u, id, v) ==
  \E k \in DOMAIN u : /\ u[k].id = id /\ u[k].value = v
                      /\ \A j \in DOMAIN u : j > k => u[j].id # id
NoneWaits(u, id) == \A k \in DOMAIN u : u[k].id # id

Current(u, id, d, x) == d # Default => Waits(u, id, d) \/ (NoneWaits(u, id) /\ x = d)

\* A vector is what the plug-in has; one that was never begun is at its default.
VectorsAgree ==
  /\ DOMAIN vec \subseteq {i \in DOMAIN Components : Components[i] # 1}
  /\ \A i \in DOMAIN vec : vec[i] = [c \in 1..Components[i] |-> params[<<i, c>>]]
  /\ \A i \in DOMAIN Components : i \notin DOMAIN vec /\ Components[i] # 1 =>
       \A c \in 1..Components[i] : params[<<i, c>>] = Default

WamTyped ==
  /\ toProcessor \in Seq({AvndLoad} \cup WamWrite)
  /\ pending \in Seq(WamWrite)
  /\ params \in [ParamId -> Int]
  /\ delivered \in [ParamId -> Nat]
  /\ plugin \in {"none", "live"} /\ destroyed \in BOOLEAN
  /\ writes \in Nat

WamInv ==
  /\ WamTyped
  /\ VectorsAgree
  /\ phase = "ready" => pending = <<>>
  /\ phase = "replaying" => plugin = "live"
  /\ phase = "ready" /\ ~destroyed => plugin = "live"
  /\ ~destroyed => \A id \in ParamId : Current(pending, id, delivered[id], params[id])

\* A parameter and a component of it.
LEMMA ParamIds ==
  /\ \A id \in ParamId : /\ id[1] \in DOMAIN Components /\ id[2] \in 1..Components[id[1]]
                         /\ id = <<id[1], id[2]>>
  /\ \A i \in DOMAIN Components : \A c \in 1..Components[i] : <<i, c>> \in ParamId
BY DEF ParamId

\* A vector is set as a whole: the component written has its value, and no other
\* one changes that was ever set.
LEMMA RawApplied ==
  ASSUME params \in [ParamId -> Int], VectorsAgree, NEW m \in WamWrite,
         plugin = "live", ApplyRaw(m)
  PROVE  /\ params' \in [ParamId -> Int] /\ VectorsAgree'
         /\ params'[m.id] = m.value
         /\ \A id \in ParamId : id # m.id => params'[id] = params[id] \/ params[id] = Default
<1> DEFINE i == m.id[1]
           e == m.id[2]
           old == IF i \in DOMAIN vec THEN vec[i] ELSE NewVector(i)
           new == [old EXCEPT ![e] = m.value]
<1>1. /\ m.id \in ParamId /\ m.value \in Int
      /\ i \in DOMAIN Components /\ e \in 1..Components[i] /\ m.id = <<i, e>>
  BY WamAssumption, ParamIds DEF WamWrite
<1>2. /\ vec' = IF Components[i] = 1 THEN vec
                ELSE [j \in DOMAIN vec \cup {i} |-> IF j = i THEN new ELSE vec[j]]
      /\ params' = [id \in ParamId |-> IF id[1] = i THEN new[id[2]] ELSE params[id]]
  BY DEF ApplyRaw, Combined
<1>3. /\ DOMAIN old = 1..Components[i]
      /\ \A c \in 1..Components[i] : old[c] \in Int
      /\ \A c \in 1..Components[i] :
           old[c] = params[<<i, c>>] \/ params[<<i, c>>] = Default \/ Components[i] = 1
  <2>1. CASE i \in DOMAIN vec
    <3>1. old = [c \in 1..Components[i] |-> params[<<i, c>>]]
      BY <2>1 DEF VectorsAgree
    <3>2. \A c \in 1..Components[i] : params[<<i, c>>] \in Int
      BY <1>1, ParamIds
    <3> QED
      BY <3>1, <3>2
  <2>2. CASE i \notin DOMAIN vec
    BY <1>1, <2>2 DEF VectorsAgree, NewVector, Zero
  <2> QED
    BY <2>1, <2>2
<1> HIDE DEF old
<1>4. new = [c \in 1..Components[i] |-> new[c]]
  BY <1>3
<1>5. /\ DOMAIN new = 1..Components[i] /\ new[e] = m.value
      /\ \A c \in 1..Components[i] : new[c] \in Int
      /\ \A c \in 1..Components[i] : c # e => new[c] = old[c]
  BY <1>1, <1>3
<1> HIDE DEF new, i, e
<1>6. /\ \A id \in ParamId : id[1] = i => params'[id] = new[id[2]]
      /\ \A id \in ParamId : id[1] # i => params'[id] = params[id]
  BY <1>2
<1>7. params' \in [ParamId -> Int]
  <2>1. ASSUME NEW id \in ParamId PROVE params'[id] \in Int
    BY <1>5, <1>6, ParamIds
  <2> QED
    BY <1>2, <2>1
<1>8. params'[m.id] = m.value
  BY <1>1, <1>5, <1>6
<1>9. ASSUME NEW id \in ParamId, id # m.id
      PROVE  params'[id] = params[id] \/ params[id] = Default
  <2>1. CASE id[1] # i
    BY <1>6, <2>1
  <2>2. CASE id[1] = i
    <3>1. id[2] \in 1..Components[i] /\ id = <<i, id[2]>> /\ id[2] # e
      BY <1>1, <1>9, <2>2, ParamIds
    <3>2. Components[i] # 1
      BY <1>1, <3>1
    <3>3. params'[id] = old[id[2]]
      BY <1>5, <1>6, <2>2, <3>1
    <3> QED
      BY <1>3, <3>1, <3>2, <3>3
  <2> QED
    BY <2>1, <2>2
<1>10. VectorsAgree'
  <2>1. \A c \in 1..Components[i] : params'[<<i, c>>] = new[c]
    BY <1>1, <1>6, ParamIds
  <2>2. \A j \in DOMAIN Components : j # i =>
          \A c \in 1..Components[j] : params'[<<j, c>>] = params[<<j, c>>]
    BY <1>6, ParamIds
  <2>3. CASE Components[i] = 1
    <3>1. vec' = vec
      BY <1>2, <2>3
    <3>2. ASSUME NEW j \in DOMAIN vec
          PROVE  vec[j] = [c \in 1..Components[j] |-> params'[<<j, c>>]]
      <4>1. vec[j] = [c \in 1..Components[j] |-> params[<<j, c>>]] /\ j \in DOMAIN Components
        BY DEF VectorsAgree
      <4>2. CASE j # i
        BY <2>2, <4>1, <4>2
      <4> QED
        BY <2>3, <4>2 DEF VectorsAgree
    <3>3. ASSUME NEW j \in DOMAIN Components, j \notin DOMAIN vec, Components[j] # 1,
                 NEW c \in 1..Components[j]
          PROVE  params'[<<j, c>>] = Default
      BY <2>2, <2>3, <3>3 DEF VectorsAgree
    <3> QED
      BY <3>1, <3>2, <3>3 DEF VectorsAgree
  <2>4. CASE Components[i] # 1
    <3>1. vec' = [j \in DOMAIN vec \cup {i} |-> IF j = i THEN new ELSE vec[j]]
      BY <1>2, <2>4
    <3>2. DOMAIN vec' = DOMAIN vec \cup {i}
      BY <3>1
    <3>3. ASSUME NEW j \in DOMAIN vec'
          PROVE  vec'[j] = [c \in 1..Components[j] |-> params'[<<j, c>>]]
      <4>1. CASE j = i
        <5>1. vec'[j] = new
          BY <3>1, <4>1
        <5> QED
          BY <1>4, <2>1, <4>1, <5>1
      <4>2. CASE j # i
        <5>1. j \in DOMAIN vec /\ vec'[j] = vec[j]
          BY <3>1, <3>2, <4>2
        <5>2. vec[j] = [c \in 1..Components[j] |-> params[<<j, c>>]] /\ j \in DOMAIN Components
          BY <5>1 DEF VectorsAgree
        <5> QED
          BY <2>2, <4>2, <5>1, <5>2
      <4> QED
        BY <4>1, <4>2
    <3>4. ASSUME NEW j \in DOMAIN Components, j \notin DOMAIN vec', Components[j] # 1,
                 NEW c \in 1..Components[j]
          PROVE  params'[<<j, c>>] = Default
      BY <2>2, <3>2, <3>4 DEF VectorsAgree
    <3>5. DOMAIN vec' \subseteq {j \in DOMAIN Components : Components[j] # 1}
      BY <1>1, <2>4, <3>2 DEF VectorsAgree
    <3> QED
      BY <3>3, <3>4, <3>5 DEF VectorsAgree
  <2> QED
    BY <2>3, <2>4
<1> QED
  BY <1>7, <1>8, <1>9, <1>10

\* A write that arrives is the last of its id; one that is applied was the last
\* of its id, or there is a later one.
LEMMA Arrives ==
  ASSUME NEW u \in Seq(WamWrite), NEW m \in WamWrite, NEW id \in ParamId, NEW v \in Nat
  PROVE  /\ id = m.id => Waits(Append(u, m), id, m.value)
         /\ id # m.id /\ Waits(u, id, v) => Waits(Append(u, m), id, v)
         /\ id # m.id /\ NoneWaits(u, id) => NoneWaits(Append(u, m), id)
<1> DEFINE a == Append(u, m)
<1>1. Grown(a, u, m)
  BY Appended
<1> HIDE DEF a
<1>2. /\ Len(a) \in DOMAIN a /\ a[Len(a)] = m /\ Len(a) \in Nat
      /\ \A k \in DOMAIN a : k \in Nat /\ (k # Len(a) => k \in DOMAIN u /\ a[k] = u[k] /\ k < Len(a))
      /\ \A k \in DOMAIN u : k \in DOMAIN a /\ a[k] = u[k]
  BY <1>1 DEF Grown
<1>3. id = m.id => Waits(a, id, m.value)
  <2>1. \A j \in DOMAIN a : ~(j > Len(a))
    BY <1>2
  <2> QED
    BY <1>2, <2>1 DEF Waits
<1>4. ASSUME id # m.id, Waits(u, id, v) PROVE Waits(a, id, v)
  <2>1. PICK k \in DOMAIN u : /\ u[k].id = id /\ u[k].value = v
                              /\ \A j \in DOMAIN u : j > k => u[j].id # id
    BY <1>4 DEF Waits
  <2>2. \A j \in DOMAIN a : j > k => a[j].id # id
    BY <1>2, <1>4, <2>1
  <2> QED
    BY <1>2, <2>1, <2>2 DEF Waits
<1>5. id # m.id /\ NoneWaits(u, id) => NoneWaits(a, id)
  BY <1>2 DEF NoneWaits
<1> QED
  BY <1>3, <1>4, <1>5 DEF a

LEMMA TakenOut ==
  ASSUME NEW u \in Seq(WamWrite), u # <<>>, NEW id \in ParamId, NEW v \in Nat
  PROVE  /\ Head(u) \in WamWrite /\ Tail(u) \in Seq(WamWrite)
         /\ id = Head(u).id /\ Waits(u, id, v) =>
              Waits(Tail(u), id, v) \/ (NoneWaits(Tail(u), id) /\ Head(u).value = v)
         /\ id # Head(u).id /\ Waits(u, id, v) => Waits(Tail(u), id, v)
         /\ NoneWaits(u, id) => NoneWaits(Tail(u), id) /\ id # Head(u).id
<1> DEFINE a == Tail(u)
<1>1. Head(u) \in WamWrite /\ a \in Seq(WamWrite) /\ Shrunk(a, u)
  BY HeadTailProperties, HeadDropped
<1> HIDE DEF a
<1>2. /\ 1 \in DOMAIN u /\ Head(u) = u[1]
      /\ \A k \in DOMAIN a : k \in Nat \ {0} /\ k + 1 \in DOMAIN u /\ a[k] = u[k + 1]
      /\ \A k \in DOMAIN u : k \in Nat \ {0} /\ (k # 1 => k - 1 \in DOMAIN a /\ a[k - 1] = u[k])
  BY <1>1 DEF Shrunk
<1>3. NoneWaits(u, id) => NoneWaits(a, id) /\ id # u[1].id
  BY <1>2 DEF NoneWaits
<1>4. ASSUME Waits(u, id, v)
      PROVE  Waits(a, id, v) \/ (NoneWaits(a, id) /\ u[1].value = v /\ u[1].id = id)
  <2>1. PICK k \in DOMAIN u : /\ u[k].id = id /\ u[k].value = v
                              /\ \A j \in DOMAIN u : j > k => u[j].id # id
    BY <1>4 DEF Waits
  <2>2. CASE k = 1
    <3>1. ASSUME NEW j \in DOMAIN a PROVE a[j].id # id
      <4>1. j + 1 \in DOMAIN u /\ j + 1 > k /\ a[j] = u[j + 1]
        BY <1>2, <2>2
      <4> QED
        BY <2>1, <4>1
    <3> QED
      BY <2>1, <2>2, <3>1 DEF NoneWaits
  <2>3. CASE k # 1
    <3>1. k - 1 \in DOMAIN a /\ a[k - 1] = u[k]
      BY <1>2, <2>3
    <3>2. ASSUME NEW j \in DOMAIN a, j > k - 1 PROVE a[j].id # id
      <4>1. j + 1 \in DOMAIN u /\ j + 1 > k /\ a[j] = u[j + 1]
        BY <1>2, <3>2
      <4> QED
        BY <2>1, <4>1
    <3> QED
      BY <2>1, <3>1, <3>2 DEF Waits
  <2> QED
    BY <2>2, <2>3
<1> QED
  BY <1>1, <1>2, <1>3, <1>4 DEF a

\* The writes of one call.
LEMMA CallWrites ==
  ASSUME NEW call \in Seq(ParamId), NEW v \in 1..MaxWrites
  PROVE  Writes(call, v) \in Seq({AvndLoad} \cup WamWrite)
<1>1. Len(call) \in Nat /\ DOMAIN call = 1..Len(call) /\ \A k \in 1..Len(call) : call[k] \in ParamId
  BY LenProperties, ElementOfSeq
<1>2. \A k \in 1..Len(call) : AvndSetParam(call[k], v) \in WamWrite
  BY <1>1 DEF AvndSetParam, WamWrite
<1>3. Writes(call, v) \in [1..Len(call) -> {AvndLoad} \cup WamWrite]
  BY <1>1, <1>2 DEF Writes
<1> QED
  BY <1>1, <1>3, SeqDef

LEMMA WamInitial == WamInit => WamInv
<1> SUFFICES ASSUME WamInit PROVE WamInv
  OBVIOUS
<1>1. PICK call \in Calls : toProcessor = <<AvndLoad>> \o Writes(call, 1)
  BY DEF WamInit
<1>2. Writes(call, 1) \in Seq({AvndLoad} \cup WamWrite)
  <2>1. call \in Seq(ParamId) /\ 1 \in 1..MaxWrites
    BY WamAssumption
  <2> QED
    BY <2>1, CallWrites
<1>3. toProcessor \in Seq({AvndLoad} \cup WamWrite)
  <2>1. <<AvndLoad>> \in Seq({AvndLoad} \cup WamWrite)
    OBVIOUS
  <2> QED
    BY <1>1, <1>2, <2>1, ConcatProperties
<1>4. /\ params = [id \in ParamId |-> Default] /\ delivered = params
      /\ pending = <<>> /\ vec = <<>> /\ plugin = "none" /\ destroyed = FALSE
      /\ phase = "waiting" /\ writes = 1
  BY DEF WamInit
<1>5. WamTyped
  <2>1. params \in [ParamId -> Int] /\ delivered \in [ParamId -> Nat]
    BY <1>4 DEF Default
  <2>2. pending \in Seq(WamWrite)
    BY <1>4
  <2> QED
    BY <1>3, <1>4, <2>1, <2>2 DEF WamTyped
<1>6. VectorsAgree
  BY <1>4, ParamIds DEF VectorsAgree
<1>7. \A id \in ParamId : Current(pending, id, delivered[id], params[id])
  BY <1>4 DEF Current
<1> QED
  BY <1>4, <1>5, <1>6, <1>7 DEF WamInv

\* The port gets writes only.
LEMMA PostedWrites ==
  ASSUME WamInv, NEW call \in Calls, SetParameterValues(call)
  PROVE  WamInv'
<1>1. writes + 1 \in 1..MaxWrites /\ call \in Seq(ParamId) /\ writes + 1 \in Nat
  BY WamAssumption DEF SetParameterValues, WamInv, WamTyped
<1>2. toProcessor \o Writes(call, writes + 1) \in Seq({AvndLoad} \cup WamWrite)
  BY <1>1, CallWrites, ConcatProperties DEF WamInv, WamTyped
<1>3. /\ toProcessor' \in Seq({AvndLoad} \cup WamWrite) /\ writes' \in Nat
      /\ UNCHANGED <<phase, pending, vec, plugin, params, delivered, destroyed>>
  BY <1>1, <1>2 DEF SetParameterValues, processor
<1> QED
  BY <1>3 DEF WamInv, WamTyped, VectorsAgree

LEMMA PostedByGui ==
  ASSUME WamInv, NEW id \in ParamId, MoveControl(id)
  PROVE  WamInv'
<1>1. AvndSetParam(id, writes + 1) \in WamWrite /\ writes + 1 \in Nat
  BY WamAssumption DEF MoveControl, WamInv, WamTyped, AvndSetParam, WamWrite
<1>2. Append(toProcessor, AvndSetParam(id, writes + 1)) \in Seq({AvndLoad} \cup WamWrite)
  BY <1>1, AppendProperties DEF WamInv, WamTyped
<1>3. /\ toProcessor' \in Seq({AvndLoad} \cup WamWrite) /\ writes' \in Nat
      /\ UNCHANGED <<phase, pending, vec, plugin, params, delivered, destroyed>>
  BY <1>1, <1>2 DEF MoveControl, processor
<1> QED
  BY <1>3 DEF WamInv, WamTyped, VectorsAgree

\* What is there and current stays so under the application of the only or the
\* first write that waits.
LEMMA ReplayKeeps == WamInv /\ Replay => WamInv'
<1> SUFFICES ASSUME WamInv, Replay PROVE WamInv'
  OBVIOUS
<1> DEFINE m == Head(pending)
           q == Tail(pending)
<1>1. /\ pending \in Seq(WamWrite) /\ pending # <<>> /\ phase = "replaying" /\ plugin = "live"
      /\ params \in [ParamId -> Int] /\ delivered \in [ParamId -> Nat] /\ VectorsAgree
      /\ ApplyRaw(m) /\ pending' = q
      /\ UNCHANGED <<toProcessor, phase, plugin, delivered, destroyed, writes>>
  BY DEF Replay, WamInv, WamTyped, wamNode
<1>2. m \in WamWrite /\ q \in Seq(WamWrite)
  BY <1>1, HeadTailProperties
<1>3. /\ params' \in [ParamId -> Int] /\ VectorsAgree'
      /\ params'[m.id] = m.value
      /\ \A id \in ParamId : id # m.id => params'[id] = params[id] \/ params[id] = Default
  BY <1>1, <1>2, RawApplied
<1>4. ASSUME ~destroyed, NEW id \in ParamId, delivered[id] # Default
      PROVE  Waits(q, id, delivered[id]) \/ (NoneWaits(q, id) /\ params'[id] = delivered[id])
  <2>1. delivered[id] \in Nat
    BY <1>1
  <2>2. \/ Waits(pending, id, delivered[id])
        \/ NoneWaits(pending, id) /\ params[id] = delivered[id]
    BY <1>4 DEF WamInv, Current
  <2>3. CASE Waits(pending, id, delivered[id]) /\ id = m.id
    BY <1>1, <1>3, <2>1, <2>3, TakenOut
  <2>4. CASE Waits(pending, id, delivered[id]) /\ id # m.id
    BY <1>1, <2>1, <2>4, TakenOut
  <2>5. CASE NoneWaits(pending, id) /\ params[id] = delivered[id]
    <3>1. NoneWaits(q, id) /\ id # m.id
      BY <1>1, <2>1, <2>5, TakenOut
    <3> QED
      BY <1>3, <1>4, <2>5, <3>1
  <2> QED
    BY <2>2, <2>3, <2>4, <2>5
<1> HIDE DEF m, q
<1>5. ~destroyed => \A id \in ParamId : Current(q, id, delivered[id], params'[id])
  BY <1>4 DEF Current
<1>6. WamTyped'
  BY <1>1, <1>2, <1>3 DEF WamInv, WamTyped
<1> QED
  BY <1>1, <1>3, <1>5, <1>6 DEF WamInv

LEMMA OnAvndMessageKeeps == WamInv /\ OnAvndMessage => WamInv'
<1> SUFFICES ASSUME WamInv, OnAvndMessage PROVE WamInv'
  OBVIOUS
<1> DEFINE m == Head(toProcessor)
<1>1. /\ toProcessor \in Seq({AvndLoad} \cup WamWrite) /\ toProcessor # <<>>
      /\ pending \in Seq(WamWrite)
      /\ params \in [ParamId -> Int] /\ delivered \in [ParamId -> Nat] /\ VectorsAgree
      /\ phase # "replaying" /\ toProcessor' = Tail(toProcessor)
      /\ UNCHANGED <<plugin, destroyed, writes>>
  BY DEF OnAvndMessage, WamInv, WamTyped, wamNode
<1>2. m \in {AvndLoad} \cup WamWrite /\ toProcessor' \in Seq({AvndLoad} \cup WamWrite)
  BY <1>1, HeadTailProperties
<1>3. m.type = "setParam" => m \in WamWrite
  BY <1>2 DEF AvndLoad
<1>4. \/ /\ m.type = "load" /\ phase' = "loading" /\ UNCHANGED <<pending, vec, params, delivered>>
      \/ /\ m.type = "setParam" /\ phase = "ready" /\ ApplyRaw(m)
         /\ delivered' = [delivered EXCEPT ![m.id] = m.value] /\ UNCHANGED <<phase, pending>>
      \/ /\ m.type = "setParam" /\ phase # "ready" /\ pending' = Append(pending, m)
         /\ delivered' = [delivered EXCEPT ![m.id] = m.value]
         /\ UNCHANGED <<phase, vec, params>>
  BY DEF OnAvndMessage
<1> HIDE DEF m
<1>5. ASSUME m \in WamWrite, delivered' = [delivered EXCEPT ![m.id] = m.value]
      PROVE  /\ delivered' \in [ParamId -> Nat]
             /\ m.id \in ParamId /\ m.value \in Nat /\ delivered'[m.id] = m.value
             /\ \A id \in ParamId : id # m.id => delivered'[id] = delivered[id]
  <2>1. m.id \in ParamId /\ m.value \in Nat
    BY <1>5, WamAssumption DEF WamWrite
  <2> QED
    BY <1>1, <1>5, <2>1
<1>6. CASE m.type = "load" /\ phase' = "loading" /\ UNCHANGED <<pending, vec, params, delivered>>
  BY <1>1, <1>2, <1>6 DEF WamInv, WamTyped, VectorsAgree
<1>7. CASE /\ m.type = "setParam" /\ phase = "ready" /\ ApplyRaw(m)
           /\ delivered' = [delivered EXCEPT ![m.id] = m.value] /\ UNCHANGED <<phase, pending>>
  <2>1. /\ m \in WamWrite /\ pending = <<>> /\ delivered' \in [ParamId -> Nat]
        /\ m.id \in ParamId /\ m.value \in Nat /\ delivered'[m.id] = m.value
        /\ \A id \in ParamId : id # m.id => delivered'[id] = delivered[id]
    BY <1>3, <1>5, <1>7 DEF WamInv
  <2>2. \A id, v : ~Waits(pending, id, v)
    BY <2>1 DEF Waits
  <2>3. \A id : NoneWaits(pending, id)
    BY <2>1 DEF NoneWaits
  <2>4. CASE plugin = "none"
    <3>1. UNCHANGED <<vec, params>>
      BY <1>7, <2>4 DEF ApplyRaw
    <3>2. destroyed
      BY <1>7, <2>4 DEF WamInv
    <3> QED
      BY <1>1, <1>2, <1>7, <2>1, <3>1, <3>2 DEF WamInv, WamTyped, VectorsAgree
  <2>5. CASE plugin = "live"
    <3>1. /\ params' \in [ParamId -> Int] /\ VectorsAgree'
          /\ params'[m.id] = m.value
          /\ \A id \in ParamId : id # m.id => params'[id] = params[id] \/ params[id] = Default
      BY <1>1, <1>7, <2>1, <2>5, RawApplied
    <3>2. ASSUME ~destroyed, NEW id \in ParamId, delivered'[id] # Default
          PROVE  NoneWaits(pending, id) /\ params'[id] = delivered'[id]
      <4>1. CASE id = m.id
        BY <2>1, <2>3, <3>1, <4>1
      <4>2. CASE id # m.id
        <5>1. Current(pending, id, delivered[id], params[id])
          BY <3>2 DEF WamInv
        <5>2. params[id] = delivered[id] /\ delivered'[id] = delivered[id]
          BY <2>1, <2>2, <3>2, <4>2, <5>1 DEF Current
        <5> QED
          BY <2>3, <3>1, <3>2, <4>2, <5>2
      <4> QED
        BY <4>1, <4>2
    <3>3. ~destroyed => \A id \in ParamId : Current(pending, id, delivered'[id], params'[id])
      BY <3>2 DEF Current
    <3> QED
      BY <1>1, <1>2, <1>7, <2>1, <2>5, <3>1, <3>3 DEF WamInv, WamTyped
  <2> QED
    BY <2>4, <2>5 DEF WamInv, WamTyped
<1>8. CASE /\ m.type = "setParam" /\ phase # "ready" /\ pending' = Append(pending, m)
           /\ delivered' = [delivered EXCEPT ![m.id] = m.value]
           /\ UNCHANGED <<phase, vec, params>>
  <2>1. /\ m \in WamWrite /\ delivered' \in [ParamId -> Nat]
        /\ m.id \in ParamId /\ m.value \in Nat /\ delivered'[m.id] = m.value
        /\ \A id \in ParamId : id # m.id => delivered'[id] = delivered[id]
    BY <1>3, <1>5, <1>8
  <2>2. Append(pending, m) \in Seq(WamWrite)
    BY <1>1, <2>1, AppendProperties
  <2>3. ASSUME ~destroyed, NEW id \in ParamId, delivered'[id] # Default
        PROVE  \/ Waits(Append(pending, m), id, delivered'[id])
               \/ NoneWaits(Append(pending, m), id) /\ params[id] = delivered'[id]
    <3>1. CASE id = m.id
      BY <1>1, <2>1, <3>1, Arrives
    <3>2. CASE id # m.id
      <4>1. Current(pending, id, delivered[id], params[id]) /\ delivered'[id] = delivered[id]
            /\ delivered[id] \in Nat
        BY <1>1, <2>1, <2>3, <3>2 DEF WamInv
      <4>2. CASE Waits(pending, id, delivered[id])
        BY <1>1, <2>1, <3>2, <4>1, <4>2, Arrives
      <4>3. CASE NoneWaits(pending, id) /\ params[id] = delivered[id]
        BY <1>1, <2>1, <3>2, <4>1, <4>3, Arrives
      <4> QED
        BY <2>3, <4>1, <4>2, <4>3 DEF Current
    <3> QED
      BY <3>1, <3>2
  <2>4. ~destroyed => \A id \in ParamId : Current(pending', id, delivered'[id], params'[id])
    BY <1>8, <2>3 DEF Current
  <2> QED
    BY <1>1, <1>2, <1>8, <2>1, <2>2, <2>4 DEF WamInv, WamTyped, VectorsAgree
<1> QED
  BY <1>4, <1>6, <1>7, <1>8

LEMMA WamStep == WamInv /\ [WamNext]_wamVars => WamInv'
<1> SUFFICES ASSUME WamInv, [WamNext]_wamVars PROVE WamInv'
  OBVIOUS
<1> USE DEF WamInv, WamTyped, VectorsAgree
<1>1. ASSUME NEW call \in Calls, SetParameterValues(call) PROVE WamInv'
  BY <1>1, PostedWrites
<1>2. ASSUME NEW id \in ParamId, MoveControl(id) PROVE WamInv'
  BY <1>2, PostedByGui
<1>3. CASE OnProcMessage
  BY <1>3 DEF OnProcMessage, processor
<1>4. CASE OpenGui \/ Refresh \/ Disconnected
  BY <1>4 DEF OpenGui, Refresh, Disconnected, processor, wamNode
<1>5. CASE OnAvndMessage
  BY <1>5, OnAvndMessageKeeps
<1>6. CASE WasmInstantiated
  BY <1>6 DEF WasmInstantiated, wamNode
<1>7. CASE Replay
  BY <1>7, ReplayKeeps
<1>8. CASE WasmReady
  BY <1>8 DEF WasmReady, wamNode
<1>9. CASE WasmFailed
  BY <1>9 DEF WasmFailed, wamNode
<1>10. CASE Destroy
  BY <1>10 DEF Destroy, wamNode
<1>11. CASE UNCHANGED wamVars
  BY <1>11 DEF wamVars, processor, wamNode
<1> QED
  BY <1>1, <1>2, <1>3, <1>4, <1>5, <1>6, <1>7, <1>8, <1>9, <1>10, <1>11 DEF WamNext, LoadWasm

\* A running plug-in has the last value of each parameter or component that
\* reached the processor: for any parameters and components, and any calls.
THEOREM WamLatestDelivered == WamSpec => []LatestDelivered
<1>1. ASSUME WamInv, Running, NEW id \in ParamId, delivered[id] # Default
      PROVE  params[id] = delivered[id]
  <2>1. pending = <<>> /\ Current(pending, id, delivered[id], params[id])
    BY <1>1 DEF WamInv, Running
  <2>2. ~Waits(pending, id, delivered[id])
    BY <2>1 DEF Waits
  <2> QED
    BY <1>1, <2>1, <2>2 DEF Current
<1>2. WamInv => LatestDelivered
  BY <1>1 DEF LatestDelivered
<1> QED
  BY <1>2, WamInitial, WamStep, PTL DEF WamSpec
=============================================================================
