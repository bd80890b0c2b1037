--------------------------- MODULE OssiaNodeProofs ---------------------------
(***************************************************************************)
(* The properties of a node of an ossia graph, for any processor, channel  *)
(* counts, buffer sizes and controls: every instance is prepared for what  *)
(* the node has, the counts of ports, processor and manager agree, the     *)
(* interface shows what the instances have, and a tick with the channels   *)
(* of the last one configures nothing.                                     *)
(*                                                                         *)
(* The totals of the channel manager are sums over busses, and its loops   *)
(* go over busses.  Both are recursive functions; Recursion and Induction  *)
(* are what the proofs need to know of these.                              *)
(***************************************************************************)
EXTENDS OssiaNode, EffectContainerProofs, WellFoundedInduction

-----------------------------------------------------------------------------
(* Recursion on an index                                                   *)

\* Every set of natural numbers that is not empty has a least one.
LEMMA Least ==
  ASSUME NEW S \in SUBSET Nat, S # {}
  PROVE  \E m \in S : \A k \in S : m <= k
<1> DEFINE R == {ss \in Nat \X Nat : ss[1] < ss[2]}
<1>1. IsWellFoundedOn(R, Nat)
  BY NatLessThanWellFounded DEF OpToRel
<1>2. PICK x \in S : \A y \in S : ~ (<<y, x>> \in R)
  BY <1>1, WFMin
<1>3. \A y \in S : y < x => <<y, x>> \in R
  OBVIOUS
<1> HIDE DEF R
<1>4. \A y \in S : y \in Nat /\ ~(y < x)
  BY <1>2, <1>3
<1> QED
  BY <1>4

\* What holds of the first index and is passed on holds of all.
LEMMA Induction ==
  ASSUME NEW lo \in Nat, NEW hi \in Nat, NEW S,
         lo \in S, \A k \in lo..(hi - 1) : k \in S => k + 1 \in S
  PROVE  \A k \in lo..hi : k \in S
<1> DEFINE T == {k \in lo..hi : k \notin S}
<1>1. SUFFICES ASSUME T # {} PROVE FALSE
  OBVIOUS
<1>2. T \in SUBSET Nat
  OBVIOUS
<1>3. PICK m \in T : \A k \in T : m <= k
  <2> HIDE DEF T
  <2> QED
    BY <1>1, <1>2, Least
<1>4. m \in Nat /\ m - 1 \in lo..(hi - 1) /\ m - 1 \notin T
  BY <1>3
<1>5. m \in S
  <2>1. m - 1 \in S
    BY <1>4
  <2> QED
    BY <1>4, <2>1
<1> QED
  BY <1>5, <1>3

\* f goes through the indices from lo to hi, in M, by the given steps.
GoesThrough(lo, hi, M, first, step, f) ==
  /\ f \in [lo..hi -> M]
  /\ \A k \in lo..hi : f[k] = IF k = lo THEN first ELSE step[k][f[k - 1]]

\* A function that is defined by recursion on an index exists.
LEMMA Recursion ==
  ASSUME NEW lo \in Nat, NEW hi \in Nat, lo <= hi, NEW M, NEW first \in M,
         NEW step \in [lo..hi -> [M -> M]]
  PROVE  \E f : GoesThrough(lo, hi, M, first, step, f)
<1> DEFINE Good(n, f) == GoesThrough(lo, n, M, first, step, f)
           S == {n \in lo..hi : \E f : Good(n, f)}
<1>1. lo \in S
  <2>1. Good(lo, [k \in lo..lo |-> first])
    BY DEF GoesThrough
  <2> HIDE DEF Good
  <2> QED
    BY <2>1
<1>2. ASSUME NEW n \in lo..(hi - 1), n \in S PROVE n + 1 \in S
  <2>1. \E f : Good(n, f)
    <3> HIDE DEF Good
    <3> QED
      BY <1>2
  <2>2. PICK f : Good(n, f)
    BY <2>1
  <2> DEFINE g == [k \in lo..(n + 1) |-> IF k <= n THEN f[k] ELSE step[n + 1][f[n]]]
  <2>3. f[n] \in M /\ step[n + 1] \in [M -> M]
    BY <2>2 DEF GoesThrough
  <2>4. g \in [lo..(n + 1) -> M]
    BY <2>2, <2>3 DEF GoesThrough
  <2>5. ASSUME NEW k \in lo..(n + 1)
        PROVE  g[k] = IF k = lo THEN first ELSE step[k][g[k - 1]]
    <3>1. CASE k <= n
      BY <2>2, <3>1 DEF GoesThrough
    <3>2. CASE k = n + 1
      BY <2>2, <3>2 DEF GoesThrough
    <3> QED
      BY <3>1, <3>2
  <2>6. Good(n + 1, g)
    <3> HIDE DEF g
    <3> QED
      BY <2>4, <2>5 DEF GoesThrough
  <2> HIDE DEF Good, g
  <2> QED
    BY <2>6
<1>3. hi \in S
  <2>1. \A n \in lo..(hi - 1) : n \in S => n + 1 \in S
    BY <1>2
  <2>2. \A n \in lo..hi : n \in S
    <3> HIDE DEF S
    <3> QED
      BY <1>1, <2>1, Induction
  <2> HIDE DEF S
  <2> QED
    BY <2>2
<1>4. \E f : Good(hi, f)
  <2> HIDE DEF Good
  <2> QED
    BY <1>3
<1> QED
  BY <1>4

-----------------------------------------------------------------------------
(* The totals                                                              *)

\* The partial sums of some counts.
PartialSums(counts, sum) ==
  /\ sum \in [0..Len(counts) -> Nat]
  /\ sum[0] = 0
  /\ \A k \in 1..Len(counts) : sum[k] = sum[k - 1] + counts[k]

\* A total is the last of the partial sums.
LEMMA TotalIsLast ==
  ASSUME NEW counts \in Seq(Nat), NEW f, PartialSums(counts, f)
  PROVE  Total(counts) = f[Len(counts)]
<1> DEFINE sum[k \in 0..Len(counts)] == IF k = 0 THEN 0 ELSE sum[k - 1] + counts[k]
<1>1. sum = CHOOSE g : g = [k \in 0..Len(counts) |->
                              IF k = 0 THEN 0 ELSE g[k - 1] + counts[k]]
  BY DEF sum
<1>2. f = [k \in 0..Len(counts) |-> IF k = 0 THEN 0 ELSE f[k - 1] + counts[k]]
  BY DEF PartialSums
<1>3. sum = [k \in 0..Len(counts) |-> IF k = 0 THEN 0 ELSE sum[k - 1] + counts[k]]
  <2> HIDE DEF sum
  <2> QED
    BY <1>1, <1>2
<1>4. Total(counts) = sum[Len(counts)]
  BY DEF Total
<1> HIDE DEF sum
<1>5. Len(counts) \in Nat
  OBVIOUS
<1> DEFINE Same == {k \in 0..Len(counts) : sum[k] = f[k]}
<1>6. 0 \in Same
  BY <1>3, <1>5 DEF PartialSums
<1>7. \A k \in 0..(Len(counts) - 1) : k \in Same => k + 1 \in Same
  BY <1>3, <1>5 DEF PartialSums
<1>8. \A k \in 0..Len(counts) : k \in Same
  <2> HIDE DEF Same
  <2> QED
    BY <1>5, <1>6, <1>7, Induction
<1> QED
  BY <1>4, <1>5, <1>8

\* Counts have partial sums.
LEMMA SumsExist ==
  ASSUME NEW counts \in Seq(Nat)
  PROVE  \E f : PartialSums(counts, f)
<1> DEFINE N == Len(counts)
           step == [k \in 0..N |->
                      [v \in Nat |-> IF k = 0 THEN v ELSE v + counts[k]]]
<1>1. N \in Nat /\ \A k \in 1..N : counts[k] \in Nat
  BY LenProperties, ElementOfSeq
<1>2. step \in [0..N -> [Nat -> Nat]]
  BY <1>1
<1>3. PICK f : GoesThrough(0, N, Nat, 0, step, f)
  <2>1. 0 \in Nat /\ 0 <= N
    BY <1>1
  <2> HIDE DEF step, N
  <2> QED
    BY <1>1, <1>2, <2>1, Recursion
<1>4. \A k \in 1..N : k \in 0..N /\ k - 1 \in 0..N /\ k # 0
  BY <1>1
<1>5. \A k \in 1..N : f[k - 1] \in Nat /\ f[k] = step[k][f[k - 1]]
  <2> HIDE DEF step, N
  <2> QED
    BY <1>1, <1>3, <1>4 DEF GoesThrough
<1>6. \A k \in 1..N : f[k] = f[k - 1] + counts[k]
  <2> HIDE DEF N
  <2> QED
    BY <1>4, <1>5
<1>7. f \in [0..N -> Nat] /\ f[0] = 0
  <2> HIDE DEF step, N
  <2> QED
    BY <1>1, <1>3 DEF GoesThrough
<1> QED
  BY <1>6, <1>7 DEF PartialSums

LEMMA TotalType ==
  ASSUME NEW counts \in Seq(Nat)
  PROVE  Total(counts) \in Nat
<1>1. PICK f : PartialSums(counts, f)
  BY SumsExist
<1>2. Total(counts) = f[Len(counts)]
  BY <1>1, TotalIsLast
<1> QED
  BY <1>1, <1>2, LenProperties DEF PartialSums

\* One count replaced: what the manager's subtraction and addition compute.
LEMMA TotalChange ==
  ASSUME NEW counts \in Seq(Nat), NEW k \in DOMAIN counts, NEW n \in Nat
  PROVE  /\ [counts EXCEPT ![k] = n] \in Seq(Nat)
         /\ Total([counts EXCEPT ![k] = n]) = Total(counts) - counts[k] + n
<1> DEFINE new == [counts EXCEPT ![k] = n]
           N == Len(counts)
<1>1. N \in Nat /\ k \in 1..N /\ \A j \in 1..N : counts[j] \in Nat
  BY LenProperties, ElementOfSeq
<1>2. new \in Seq(Nat) /\ Len(new) = N /\ new \in [1..N -> Nat]
  BY <1>1, ExceptSeq
<1>3. PICK f : PartialSums(counts, f)
  BY SumsExist
<1>4. PICK g : PartialSums(new, g)
  <2> HIDE DEF new
  <2> QED
    BY <1>2, SumsExist
<1> DEFINE Moved == {j \in 0..N : g[j] = IF j < k THEN f[j] ELSE f[j] - counts[k] + n}
<1>5. 0 \in Moved
  BY <1>1, <1>2, <1>3, <1>4 DEF PartialSums
<1>6. ASSUME NEW j \in 0..(N - 1), j \in Moved PROVE j + 1 \in Moved
  <2>1. j \in 0..N /\ j + 1 \in 1..N /\ j + 1 \in 0..N /\ (j + 1) - 1 = j
    BY <1>1
  <2>2. f[j + 1] = f[j] + counts[j + 1] /\ f[j] \in Nat /\ counts[j + 1] \in Nat
    BY <1>1, <1>3, <2>1 DEF PartialSums
  <2>3. g[j + 1] = g[j] + new[j + 1]
    <3> HIDE DEF new
    <3> QED
      BY <1>2, <1>4, <2>1 DEF PartialSums
  <2>4. g[j] = IF j < k THEN f[j] ELSE f[j] - counts[k] + n
    BY <1>6
  <2>5. new[j + 1] = IF j + 1 = k THEN n ELSE counts[j + 1]
    BY <1>1
  <2>6. g[j + 1] = IF j + 1 < k THEN f[j + 1] ELSE f[j + 1] - counts[k] + n
    <3> HIDE DEF new, N
    <3>1. CASE j + 1 = k
      BY <1>1, <2>1, <2>2, <2>3, <2>4, <2>5, <3>1
    <3>2. CASE j + 1 # k
      BY <1>1, <2>1, <2>2, <2>3, <2>4, <2>5, <3>2
    <3> QED
      BY <3>1, <3>2
  <2> QED
    BY <2>1, <2>6
<1>7. \A j \in 0..N : j \in Moved
  <2>1. \A j \in 0..(N - 1) : j \in Moved => j + 1 \in Moved
    BY <1>6
  <2> HIDE DEF Moved, N
  <2> QED
    BY <1>1, <1>5, <2>1, Induction
<1>8. g[N] = f[N] - counts[k] + n
  BY <1>1, <1>7
<1>9. Total(counts) = f[N] /\ Total(new) = g[N]
  <2> HIDE DEF new
  <2> QED
    BY <1>2, <1>3, <1>4, TotalIsLast
<1> QED
  BY <1>2, <1>8, <1>9

-----------------------------------------------------------------------------
(* What a manager keeps                                                    *)

\* The managers of a processor with these busses.
Managers(ins, outs) ==
  [in : [DOMAIN ins -> Nat], out : [DOMAIN outs -> Nat],
   portIn : [DOMAIN ins -> Nat], portOut : [DOMAIN outs -> Nat], ins : Int, outs : Int]

\* ... whose totals are right.
Summed(ins, outs) == {m \in Managers(ins, outs) : TotalsAreSums(m)}

\* Busses are sequences, and so are the counts of a manager.
LEMMA BussesType ==
  ASSUME NEW ins, NEW outs, WellFormed(ins, outs)
  PROVE  /\ Len(ins) \in Nat /\ DOMAIN ins = 1..Len(ins) /\ 1 \in DOMAIN ins
         /\ Len(outs) \in Nat /\ DOMAIN outs = 1..Len(outs) /\ 1 \in DOMAIN outs
         /\ \A k \in DOMAIN ins : /\ ins[k].type \in {"fixed", "dynamic", "variable"}
                                  /\ ins[k].n \in Nat
         /\ \A k \in DOMAIN outs : /\ outs[k].type \in BusType /\ outs[k].n \in Nat
                                   /\ outs[k].type = "mimic" => outs[k].n \in DOMAIN ins
<1>1. ins \in Seq([type : BusType \ {"mimic"}, n : Nat]) /\ ins # <<>>
  BY DEF WellFormed
<1>2. outs \in Seq([type : BusType, n : Nat]) /\ outs # <<>>
  BY DEF WellFormed
<1>3. Len(ins) \in Nat /\ DOMAIN ins = 1..Len(ins) /\ 1 \in DOMAIN ins
  BY <1>1, EmptySeq, LenProperties
<1>4. Len(outs) \in Nat /\ DOMAIN outs = 1..Len(outs) /\ 1 \in DOMAIN outs
  BY <1>2, EmptySeq, LenProperties
<1>5. \A k \in DOMAIN ins : ins[k] \in [type : BusType \ {"mimic"}, n : Nat]
  BY <1>1, <1>3, ElementOfSeq
<1>6. \A k \in DOMAIN outs : outs[k] \in [type : BusType, n : Nat]
  BY <1>2, <1>4, ElementOfSeq
<1> QED
  BY <1>3, <1>4, <1>5, <1>6 DEF BusType, WellFormed

LEMMA CountsAreSeq ==
  ASSUME NEW busses, NEW counts \in [DOMAIN busses -> Nat],
         Len(busses) \in Nat, DOMAIN busses = 1..Len(busses)
  PROVE  counts \in Seq(Nat) /\ Len(counts) = Len(busses)
<1>1. counts \in [1..Len(busses) -> Nat]
  OBVIOUS
<1> QED
  BY <1>1, FunctionIsSeq

\* The totals of a manager are natural numbers.
LEMMA TotalsAreNat ==
  ASSUME NEW ins, NEW outs, WellFormed(ins, outs), NEW m \in Summed(ins, outs)
  PROVE  m.ins \in Nat /\ m.outs \in Nat
<1>1. m \in Managers(ins, outs) /\ TotalsAreSums(m)
  BY DEF Summed
<1>2. m.in \in [DOMAIN ins -> Nat] /\ m.out \in [DOMAIN outs -> Nat]
  BY <1>1 DEF Managers
<1>3. m.in \in Seq(Nat) /\ m.out \in Seq(Nat)
  BY <1>2, BussesType, CountsAreSeq
<1> QED
  BY <1>1, <1>3, TotalType DEF TotalsAreSums

\* set_input_impl() and set_output_impl() keep the totals right.
LEMMA SetInputCountKeeps ==
  ASSUME NEW ins, NEW outs, WellFormed(ins, outs), NEW m \in Summed(ins, outs),
         NEW k \in DOMAIN ins, NEW n \in Nat
  PROVE  /\ SetInputCount(m, k, n) \in Summed(ins, outs)
         /\ SetInputCount(m, k, n).in = [m.in EXCEPT ![k] = n]
         /\ SetInputCount(m, k, n).portIn = m.portIn
         /\ SetInputCount(m, k, n).out = m.out
         /\ SetInputCount(m, k, n).portOut = m.portOut
<1>1. m \in Managers(ins, outs) /\ TotalsAreSums(m)
  BY DEF Summed
<1>2. m.in \in [DOMAIN ins -> Nat]
  BY <1>1 DEF Managers
<1>3. m.in \in Seq(Nat) /\ k \in DOMAIN m.in
  BY <1>2, BussesType, CountsAreSeq
<1>4. Total([m.in EXCEPT ![k] = n]) = Total(m.in) - m.in[k] + n
  BY <1>3, TotalChange
<1>5. SetInputCount(m, k, n) =
        [m EXCEPT !.in = [m.in EXCEPT ![k] = n], !.ins = m.ins - m.in[k] + n]
  BY <1>1 DEF SetInputCount, Managers
<1>6. [m.in EXCEPT ![k] = n] \in [DOMAIN ins -> Nat] /\ m.ins - m.in[k] + n \in Int
  BY <1>1, <1>2 DEF Managers
<1>7. SetInputCount(m, k, n) \in Managers(ins, outs)
  BY <1>1, <1>5, <1>6 DEF Managers
<1>8. /\ SetInputCount(m, k, n).in = [m.in EXCEPT ![k] = n]
      /\ SetInputCount(m, k, n).portIn = m.portIn
      /\ SetInputCount(m, k, n).out = m.out
      /\ SetInputCount(m, k, n).portOut = m.portOut
      /\ SetInputCount(m, k, n).ins = m.ins - m.in[k] + n
      /\ SetInputCount(m, k, n).outs = m.outs
  BY <1>1, <1>5 DEF Managers
<1>9. TotalsAreSums(SetInputCount(m, k, n))
  BY <1>1, <1>4, <1>8 DEF TotalsAreSums
<1> QED
  BY <1>7, <1>8, <1>9 DEF Summed

LEMMA SetOutputCountKeeps ==
  ASSUME NEW ins, NEW outs, WellFormed(ins, outs), NEW m \in Summed(ins, outs),
         NEW k \in DOMAIN outs, NEW n \in Nat
  PROVE  /\ SetOutputCount(m, k, n) \in Summed(ins, outs)
         /\ SetOutputCount(m, k, n).out = [m.out EXCEPT ![k] = n]
         /\ SetOutputCount(m, k, n).portOut = m.portOut
         /\ SetOutputCount(m, k, n).in = m.in
         /\ SetOutputCount(m, k, n).portIn = m.portIn
<1>1. m \in Managers(ins, outs) /\ TotalsAreSums(m)
  BY DEF Summed
<1>2. m.out \in [DOMAIN outs -> Nat]
  BY <1>1 DEF Managers
<1>3. m.out \in Seq(Nat) /\ k \in DOMAIN m.out
  BY <1>2, BussesType, CountsAreSeq
<1>4. Total([m.out EXCEPT ![k] = n]) = Total(m.out) - m.out[k] + n
  BY <1>3, TotalChange
<1>5. SetOutputCount(m, k, n) =
        [m EXCEPT !.out = [m.out EXCEPT ![k] = n], !.outs = m.outs - m.out[k] + n]
  BY <1>1 DEF SetOutputCount, Managers
<1>6. [m.out EXCEPT ![k] = n] \in [DOMAIN outs -> Nat] /\ m.outs - m.out[k] + n \in Int
  BY <1>1, <1>2 DEF Managers
<1>7. SetOutputCount(m, k, n) \in Managers(ins, outs)
  BY <1>1, <1>5, <1>6 DEF Managers
<1>8. /\ SetOutputCount(m, k, n).out = [m.out EXCEPT ![k] = n]
      /\ SetOutputCount(m, k, n).portOut = m.portOut
      /\ SetOutputCount(m, k, n).in = m.in
      /\ SetOutputCount(m, k, n).portIn = m.portIn
      /\ SetOutputCount(m, k, n).outs = m.outs - m.out[k] + n
      /\ SetOutputCount(m, k, n).ins = m.ins
  BY <1>1, <1>5 DEF Managers
<1>9. TotalsAreSums(SetOutputCount(m, k, n))
  BY <1>1, <1>4, <1>8 DEF TotalsAreSums
<1> QED
  BY <1>7, <1>8, <1>9 DEF Summed

\* The `channels` of the port objects are in no total.
LEMMA PortsKeep ==
  ASSUME NEW ins, NEW outs, NEW m \in Summed(ins, outs),
         NEW p \in [DOMAIN ins -> Nat], NEW q \in [DOMAIN outs -> Nat]
  PROVE  /\ [m EXCEPT !.portIn = p] \in Summed(ins, outs)
         /\ [m EXCEPT !.portOut = q] \in Summed(ins, outs)
         /\ [m EXCEPT !.portIn = p, !.portOut = q] \in Summed(ins, outs)
BY DEF Summed, Managers, TotalsAreSums

\* The port of an output and the manager get the same count.
BothCounts(m, k, n) == SetOutputCount([m EXCEPT !.portOut[k] = n], k, n)

LEMMA BothCountsKeeps ==
  ASSUME NEW ins, NEW outs, WellFormed(ins, outs), NEW m \in Summed(ins, outs),
         NEW k \in DOMAIN outs, NEW n \in Nat
  PROVE  /\ BothCounts(m, k, n) \in Summed(ins, outs)
         /\ BothCounts(m, k, n).out = [m.out EXCEPT ![k] = n]
         /\ BothCounts(m, k, n).portOut = [m.portOut EXCEPT ![k] = n]
         /\ BothCounts(m, k, n).in = m.in
         /\ BothCounts(m, k, n).portIn = m.portIn
<1> DEFINE port == [m EXCEPT !.portOut[k] = n]
<1>1. m \in Managers(ins, outs)
  BY DEF Summed
<1>2. port = [m EXCEPT !.portOut = [m.portOut EXCEPT ![k] = n]]
  BY <1>1 DEF Managers
<1>3. [m.portOut EXCEPT ![k] = n] \in [DOMAIN outs -> Nat]
  BY <1>1 DEF Managers
<1>4. port \in Summed(ins, outs)
  BY <1>2, <1>3, PortsKeep, <1>1 DEF Managers
<1>5. /\ port.portOut = [m.portOut EXCEPT ![k] = n] /\ port.out = m.out
      /\ port.in = m.in /\ port.portIn = m.portIn
  BY <1>1, <1>2 DEF Managers
<1> HIDE DEF port
<1>6. /\ SetOutputCount(port, k, n) \in Summed(ins, outs)
      /\ SetOutputCount(port, k, n).out = [port.out EXCEPT ![k] = n]
      /\ SetOutputCount(port, k, n).portOut = port.portOut
      /\ SetOutputCount(port, k, n).in = port.in
      /\ SetOutputCount(port, k, n).portIn = port.portIn
  BY <1>4, SetOutputCountKeeps
<1>7. BothCounts(m, k, n) = SetOutputCount(port, k, n)
  BY DEF BothCounts, port
<1> QED
  BY <1>5, <1>6, <1>7

-----------------------------------------------------------------------------
(* The loops over the busses                                               *)

\* What m has after its outputs up to k, from the given one on, are mimicked.
MimickedUpTo(m, outs, from, k, r) ==
  /\ r.in = m.in /\ r.portIn = m.portIn
  /\ \A j \in DOMAIN outs :
       IF j \in from..k /\ outs[j].type = "mimic"
       THEN r.out[j] = m.portIn[outs[j].n] /\ r.portOut[j] = m.portIn[outs[j].n]
       ELSE r.out[j] = m.out[j] /\ r.portOut[j] = m.portOut[j]

LEMMA MimickOutputStep ==
  ASSUME NEW ins, NEW outs, WellFormed(ins, outs), NEW m \in Summed(ins, outs),
         NEW from \in Nat, NEW k \in DOMAIN outs, k >= from,
         NEW v \in Summed(ins, outs), MimickedUpTo(m, outs, from, k - 1, v)
  PROVE  /\ MimickOutput(v, outs, k) \in Summed(ins, outs)
         /\ MimickedUpTo(m, outs, from, k, MimickOutput(v, outs, k))
<1>1. k \in Nat /\ \A j \in DOMAIN outs : j \in Nat
  BY BussesType
<1>2. CASE outs[k].type # "mimic"
  <2>1. MimickOutput(v, outs, k) = v
    BY <1>2 DEF MimickOutput
  <2> QED
    BY <1>1, <1>2, <2>1 DEF MimickedUpTo
<1>3. CASE outs[k].type = "mimic"
  <2> DEFINE n == m.portIn[outs[k].n]
  <2>1. outs[k].n \in DOMAIN ins
    BY <1>3, BussesType
  <2>2. n \in Nat
    BY <2>1 DEF Summed, Managers
  <2>3. MimickOutput(v, outs, k) = BothCounts(v, k, n)
    BY <1>3 DEF MimickOutput, BothCounts, MimickedUpTo
  <2> HIDE DEF n
  <2>4. /\ BothCounts(v, k, n) \in Summed(ins, outs)
        /\ BothCounts(v, k, n).out = [v.out EXCEPT ![k] = n]
        /\ BothCounts(v, k, n).portOut = [v.portOut EXCEPT ![k] = n]
        /\ BothCounts(v, k, n).in = v.in
        /\ BothCounts(v, k, n).portIn = v.portIn
    BY <2>2, BothCountsKeeps
  <2>5. v.out \in [DOMAIN outs -> Nat] /\ v.portOut \in [DOMAIN outs -> Nat]
    BY DEF Summed, Managers
  <2>6. \A j \in DOMAIN outs :
          /\ BothCounts(v, k, n).out[j] = IF j = k THEN n ELSE v.out[j]
          /\ BothCounts(v, k, n).portOut[j] = IF j = k THEN n ELSE v.portOut[j]
    BY <2>4, <2>5
  <2>7. \A j \in DOMAIN outs : j # k => (j \in from..k <=> j \in from..(k - 1))
    BY <1>1
  <2>8. k \in from..k
    BY <1>1
  <2>9. MimickedUpTo(m, outs, from, k, BothCounts(v, k, n))
    <3>1. ASSUME NEW j \in DOMAIN outs
          PROVE  IF j \in from..k /\ outs[j].type = "mimic"
                 THEN /\ BothCounts(v, k, n).out[j] = m.portIn[outs[j].n]
                      /\ BothCounts(v, k, n).portOut[j] = m.portIn[outs[j].n]
                 ELSE /\ BothCounts(v, k, n).out[j] = m.out[j]
                      /\ BothCounts(v, k, n).portOut[j] = m.portOut[j]
      <4>1. CASE j = k
        BY <1>3, <2>6, <2>8, <4>1 DEF n
      <4>2. CASE j # k
        BY <2>6, <2>7, <4>2 DEF MimickedUpTo
      <4> QED
        BY <4>1, <4>2
    <3> QED
      BY <2>4, <3>1 DEF MimickedUpTo
  <2> QED
    BY <2>3, <2>4, <2>9
<1> QED
  BY <1>2, <1>3

\* The loop over the outputs, from the first or the second one.
LEMMA MimickOutputsKeeps ==
  ASSUME NEW ins, NEW outs, WellFormed(ins, outs), NEW m \in Summed(ins, outs),
         NEW from \in {1, 2}
  PROVE  /\ MimickOutputs(m, outs, from) \in Summed(ins, outs)
         /\ MimickedUpTo(m, outs, from, Len(outs), MimickOutputs(m, outs, from))
<1> DEFINE N == Len(outs)
           M == Summed(ins, outs)
           lo == from - 1
           after[k \in lo..N] ==
             IF k < from THEN m ELSE MimickOutput(after[k - 1], outs, k)
           step == [k \in lo..N |->
                      [v \in M |-> IF k = lo \/ ~(MimickOutput(v, outs, k) \in M) THEN v
                                   ELSE MimickOutput(v, outs, k)]]
<1>1. N \in Nat /\ lo \in Nat /\ lo <= N /\ DOMAIN outs = 1..N
  BY BussesType
<1>2. MimickOutputs(m, outs, from) = after[N]
  BY DEF MimickOutputs
<1>3. after = CHOOSE g : g = [k \in lo..N |->
                IF k < from THEN m ELSE MimickOutput(g[k - 1], outs, k)]
  BY DEF after
<1>4. \A v \in M, k \in DOMAIN outs : MimickOutput(v, outs, k) \in M
  <2> SUFFICES ASSUME NEW v \in M, NEW k \in DOMAIN outs
               PROVE  MimickOutput(v, outs, k) \in M
    OBVIOUS
  <2>1. k \in Nat /\ k >= k
    BY BussesType
  <2>2. MimickedUpTo(v, outs, k, k - 1, v)
    BY <2>1 DEF MimickedUpTo
  <2> QED
    BY <2>1, <2>2, MimickOutputStep
<1>5. PICK f : GoesThrough(lo, N, M, m, step, f)
  <2>1. step \in [lo..N -> [M -> M]]
    BY <1>1
  <2> HIDE DEF step, N, M, lo
  <2> QED
    BY <1>1, <2>1, Recursion DEF M
<1>6. \A k \in lo..N : f[k] \in M
  BY <1>5 DEF GoesThrough
<1>7. f = [k \in lo..N |-> IF k < from THEN m ELSE MimickOutput(f[k - 1], outs, k)]
  <2>1. ASSUME NEW k \in lo..N
        PROVE  f[k] = IF k < from THEN m ELSE MimickOutput(f[k - 1], outs, k)
    <3>1. CASE k = lo
      <4>1. f[k] = m
        <5> HIDE DEF step, M, lo
        <5> QED
          BY <1>5, <3>1 DEF GoesThrough
      <4> QED
        BY <1>1, <3>1, <4>1
    <3>2. CASE k # lo
      <4>1. k - 1 \in lo..N /\ ~(k < from) /\ k \in DOMAIN outs
        BY <1>1, <3>2
      <4>2. f[k] = step[k][f[k - 1]]
        <5> HIDE DEF step
        <5> QED
          BY <1>5, <3>2 DEF GoesThrough
      <4>3. f[k - 1] \in M /\ MimickOutput(f[k - 1], outs, k) \in M
        BY <1>4, <1>6, <4>1
      <4> QED
        BY <3>2, <4>1, <4>2, <4>3
    <3> QED
      BY <3>1, <3>2
  <2>2. f = [k \in lo..N |-> f[k]]
    BY <1>5 DEF GoesThrough
  <2> QED
    BY <2>1, <2>2
<1>8. after = [k \in lo..N |-> IF k < from THEN m ELSE MimickOutput(after[k - 1], outs, k)]
  <2> HIDE DEF after
  <2> QED
    BY <1>3, <1>7
<1> HIDE DEF after, step
<1> DEFINE Done == {k \in lo..N : after[k] \in M /\ MimickedUpTo(m, outs, from, k, after[k])}
<1>9. lo \in Done
  <2>1. after[lo] = m
    BY <1>1, <1>8
  <2>2. \A j \in DOMAIN outs : j \notin from..lo
    BY <1>1
  <2> QED
    BY <1>1, <2>1, <2>2 DEF MimickedUpTo
<1>10. ASSUME NEW k \in lo..(N - 1), k \in Done PROVE k + 1 \in Done
  <2>1. /\ k + 1 \in lo..N /\ k + 1 >= from /\ ~(k + 1 < from) /\ k + 1 \in DOMAIN outs
        /\ (k + 1) - 1 = k /\ from \in Nat
    BY <1>1
  <2>2. after[k + 1] = MimickOutput(after[k], outs, k + 1)
    BY <1>8, <2>1
  <2>3. after[k] \in M /\ MimickedUpTo(m, outs, from, k, after[k])
    BY <1>10
  <2>4. /\ MimickOutput(after[k], outs, k + 1) \in M
        /\ MimickedUpTo(m, outs, from, k + 1, MimickOutput(after[k], outs, k + 1))
    <3> HIDE DEF M
    <3> QED
      BY <2>1, <2>3, MimickOutputStep DEF M
  <2> QED
    BY <2>1, <2>2, <2>4
<1>11. \A k \in lo..N : k \in Done
  <2>1. \A k \in lo..(N - 1) : k \in Done => k + 1 \in Done
    BY <1>10
  <2> HIDE DEF Done, N, lo
  <2> QED
    BY <1>1, <1>9, <2>1, Induction
<1>12. N \in Done
  BY <1>1, <1>11
<1> QED
  BY <1>2, <1>12

\* A first output that gets the count of the input that changed.
FirstFollows(outs) == outs[1].type \in {"dynamic", "mimic"}

\* What m has after an input got n channels and its outputs were updated.
Updated(m, outs, n, r) ==
  /\ r.in = m.in /\ r.portIn = m.portIn
  /\ \A j \in DOMAIN outs :
       IF j = 1 /\ FirstFollows(outs) THEN r.out[j] = n /\ r.portOut[j] = n
       ELSE IF outs[j].type = "mimic"
       THEN r.out[j] = m.portIn[outs[j].n] /\ r.portOut[j] = m.portIn[outs[j].n]
       ELSE r.out[j] = m.out[j] /\ r.portOut[j] = m.portOut[j]

LEMMA UpdateOutputsKeeps ==
  ASSUME NEW ins, NEW outs, WellFormed(ins, outs), NEW m \in Summed(ins, outs),
         NEW n \in Nat
  PROVE  /\ UpdateOutputs(m, outs, n) \in Summed(ins, outs)
         /\ Updated(m, outs, n, UpdateOutputs(m, outs, n))
<1>1. Len(outs) \in Nat /\ DOMAIN outs = 1..Len(outs) /\ 1 \in DOMAIN outs
  BY BussesType
<1>2. CASE FirstFollows(outs)
  <2> DEFINE first == BothCounts(m, 1, n)
             r == MimickOutputs(first, outs, 2)
  <2>1. /\ first \in Summed(ins, outs)
        /\ first.out = [m.out EXCEPT ![1] = n]
        /\ first.portOut = [m.portOut EXCEPT ![1] = n]
        /\ first.in = m.in
        /\ first.portIn = m.portIn
    BY <1>1, BothCountsKeeps
  <2>2. UpdateOutputs(m, outs, n) = r
    BY <1>2 DEF UpdateOutputs, FirstFollows, BothCounts
  <2> HIDE DEF first
  <2>3. r \in Summed(ins, outs) /\ MimickedUpTo(first, outs, 2, Len(outs), r)
    BY <2>1, MimickOutputsKeeps
  <2> HIDE DEF r
  <2>4. m.out \in [DOMAIN outs -> Nat] /\ m.portOut \in [DOMAIN outs -> Nat]
    BY DEF Summed, Managers
  <2>5. \A j \in DOMAIN outs : j # 1 => j \in 2..Len(outs)
    BY <1>1
  <2>6. 1 \notin 2..Len(outs)
    BY <1>1
  <2>7. r.in = m.in /\ r.portIn = m.portIn
    BY <2>1, <2>3 DEF MimickedUpTo
  <2>8. r.out[1] = n /\ r.portOut[1] = n
    BY <1>1, <2>1, <2>3, <2>4, <2>6 DEF MimickedUpTo
  <2>9. ASSUME NEW j \in DOMAIN outs, j # 1
        PROVE  IF outs[j].type = "mimic"
               THEN r.out[j] = m.portIn[outs[j].n] /\ r.portOut[j] = m.portIn[outs[j].n]
               ELSE r.out[j] = m.out[j] /\ r.portOut[j] = m.portOut[j]
    BY <2>1, <2>3, <2>4, <2>5, <2>9 DEF MimickedUpTo
  <2> QED
    BY <1>2, <2>2, <2>3, <2>7, <2>8, <2>9 DEF Updated
<1>3. CASE ~FirstFollows(outs)
  <2>1. UpdateOutputs(m, outs, n) = MimickOutputs(m, outs, 1)
    BY <1>3 DEF UpdateOutputs, FirstFollows
  <2>2. /\ MimickOutputs(m, outs, 1) \in Summed(ins, outs)
        /\ MimickedUpTo(m, outs, 1, Len(outs), MimickOutputs(m, outs, 1))
    BY MimickOutputsKeeps
  <2> QED
    BY <1>1, <1>3, <2>1, <2>2 DEF MimickedUpTo, Updated
<1> QED
  BY <1>2, <1>3

\* What m has after input k took n channels.
InputTaken(m, outs, k, n, r) ==
  /\ r.in = [m.in EXCEPT ![k] = n] /\ r.portIn = [m.portIn EXCEPT ![k] = n]
  /\ \A j \in DOMAIN outs :
       IF j = 1 /\ FirstFollows(outs) THEN r.out[j] = n /\ r.portOut[j] = n
       ELSE IF outs[j].type = "mimic"
       THEN r.out[j] = r.portIn[outs[j].n] /\ r.portOut[j] = r.portIn[outs[j].n]
       ELSE r.out[j] = m.out[j] /\ r.portOut[j] = m.portOut[j]

LEMMA SetInputChannelsKeeps ==
  ASSUME NEW ins, NEW outs, WellFormed(ins, outs), NEW m \in Summed(ins, outs),
         NEW k \in DOMAIN ins, NEW n \in Nat
  PROVE  /\ SetInputChannels(m, ins, outs, k, n) \in Summed(ins, outs)
         /\ IF TakesInput(m, ins, k, n)
            THEN InputTaken(m, outs, k, n, SetInputChannels(m, ins, outs, k, n))
            ELSE SetInputChannels(m, ins, outs, k, n) = m
<1>1. CASE ~TakesInput(m, ins, k, n)
  BY <1>1 DEF SetInputChannels
<1>2. CASE TakesInput(m, ins, k, n)
  <2> DEFINE port == [m EXCEPT !.portIn[k] = n]
             set == SetInputCount(port, k, n)
             r == UpdateOutputs(set, outs, n)
  <2>1. m \in Managers(ins, outs)
    BY DEF Summed
  <2>2. port = [m EXCEPT !.portIn = [m.portIn EXCEPT ![k] = n]]
    BY <2>1 DEF Managers
  <2>3. [m.portIn EXCEPT ![k] = n] \in [DOMAIN ins -> Nat] /\ m.portOut \in [DOMAIN outs -> Nat]
    BY <2>1 DEF Managers
  <2>4. port \in Summed(ins, outs)
    BY <2>2, <2>3, PortsKeep
  <2>5. /\ port.portIn = [m.portIn EXCEPT ![k] = n] /\ port.in = m.in
        /\ port.out = m.out /\ port.portOut = m.portOut
    BY <2>1, <2>2 DEF Managers
  <2> HIDE DEF port
  <2>6. /\ set \in Summed(ins, outs)
        /\ set.in = [port.in EXCEPT ![k] = n] /\ set.portIn = port.portIn
        /\ set.out = port.out /\ set.portOut = port.portOut
    BY <2>4, SetInputCountKeeps
  <2> HIDE DEF set
  <2>7. r \in Summed(ins, outs) /\ Updated(set, outs, n, r)
    BY <2>6, UpdateOutputsKeeps
  <2>8. SetInputChannels(m, ins, outs, k, n) = r
    BY <1>2 DEF SetInputChannels, r, set, port
  <2> HIDE DEF r
  <2>9. InputTaken(m, outs, k, n, r)
    BY <2>5, <2>6, <2>7 DEF Updated, InputTaken
  <2> QED
    BY <1>2, <2>7, <2>8, <2>9
<1> QED
  BY <1>1, <1>2

-----------------------------------------------------------------------------
(* The scan of a node that asks the manager                                *)

\* Whether a bus takes n channels, whatever the manager has.
Takes(bus, n) ==
  \/ bus.type = "dynamic"
  \/ bus.type = "variable" /\ n = 0
  \/ bus.type = "fixed" /\ bus.n = n

\* What always holds of the manager of such a node.
Sound(ins, outs, m) ==
  /\ m \in Summed(ins, outs) /\ m.in = m.portIn
  /\ \A k \in DOMAIN ins : /\ ins[k].type = "fixed" => m.in[k] = ins[k].n
                           /\ ins[k].type = "variable" => m.in[k] = 0
  /\ \A k \in DOMAIN outs : (k = 1 /\ outs[k].type = "mimic") \/ m.out[k] = m.portOut[k]
  /\ \A k \in 2..Len(outs) :
       outs[k].type = "mimic" /\ ins[outs[k].n].type # "fixed" => m.out[k] = m.in[outs[k].n]

\* The last of the first j inputs that took its count decided about the outputs.
NoneTaken(ins, counts, j) == \A t \in 1..j : ~Takes(ins[t], counts[t])
LastTaken(ins, outs, counts, j, m) ==
  \E t \in 1..j :
    /\ Takes(ins[t], counts[t]) /\ \A u \in (t + 1)..j : ~Takes(ins[u], counts[u])
    /\ FirstFollows(outs) => m.out[1] = counts[t] /\ m.portOut[1] = counts[t]
    /\ \A k \in 2..Len(outs) : outs[k].type = "mimic" => m.out[k] = m.in[outs[k].n]

\* What the scan of the first j inputs has made of m.
ScannedUpTo(m, ins, outs, counts, j, r) ==
  /\ Sound(ins, outs, r)
  /\ \A k \in 1..j : ins[k].type = "dynamic" => r.in[k] = counts[k]
  /\ \A k \in DOMAIN outs :
       outs[k].type = "mimic" \/ (k = 1 /\ FirstFollows(outs)) \/ r.out[k] = m.out[k]
  /\ \/ NoneTaken(ins, counts, j) /\ r = m
     \/ LastTaken(ins, outs, counts, j, r)

LEMMA ScanStep ==
  ASSUME NEW ins, NEW outs, WellFormed(ins, outs), NEW m,
         NEW counts \in [DOMAIN ins -> Nat], NEW j \in 0..(Len(ins) - 1),
         NEW v, ScannedUpTo(m, ins, outs, counts, j, v)
  PROVE  ScannedUpTo(m, ins, outs, counts, j + 1,
                     SetInputChannels(v, ins, outs, j + 1, counts[j + 1]))
<1> DEFINE k == j + 1
           n == counts[k]
           r == SetInputChannels(v, ins, outs, k, n)
<1>1. /\ Len(ins) \in Nat /\ DOMAIN ins = 1..Len(ins)
      /\ Len(outs) \in Nat /\ DOMAIN outs = 1..Len(outs)
      /\ \A i \in DOMAIN ins : ins[i].type \in {"fixed", "dynamic", "variable"}
      /\ \A i \in DOMAIN outs : outs[i].type = "mimic" => outs[i].n \in DOMAIN ins
  BY BussesType
<1>2. k \in DOMAIN ins /\ k \in Nat /\ j \in Nat /\ n \in Nat
  BY <1>1
<1>3. Sound(ins, outs, v) /\ v \in Summed(ins, outs)
  BY DEF ScannedUpTo, Sound
<1>4. TakesInput(v, ins, k, n) <=> Takes(ins[k], n)
  BY <1>2, <1>3 DEF TakesInput, Takes, Sound
<1>5. /\ r \in Summed(ins, outs)
      /\ IF TakesInput(v, ins, k, n) THEN InputTaken(v, outs, k, n, r) ELSE r = v
  <2> HIDE DEF k, n
  <2> QED
    BY <1>2, <1>3, SetInputChannelsKeeps
<1>6. \A i \in 1..k : i = k \/ i \in 1..j
  BY <1>2
<1> HIDE DEF r
<1>7. CASE ~Takes(ins[k], n)
  <2>1. r = v /\ ins[k].type # "dynamic"
    BY <1>4, <1>5, <1>7 DEF Takes
  <2>2. NoneTaken(ins, counts, j) => NoneTaken(ins, counts, k)
    BY <1>6, <1>7 DEF NoneTaken
  <2>3. LastTaken(ins, outs, counts, j, v) => LastTaken(ins, outs, counts, k, v)
    <3> SUFFICES ASSUME LastTaken(ins, outs, counts, j, v)
                 PROVE  LastTaken(ins, outs, counts, k, v)
      OBVIOUS
    <3>1. PICK t \in 1..j :
            /\ Takes(ins[t], counts[t]) /\ \A u \in (t + 1)..j : ~Takes(ins[u], counts[u])
            /\ FirstFollows(outs) => v.out[1] = counts[t] /\ v.portOut[1] = counts[t]
            /\ \A i \in 2..Len(outs) : outs[i].type = "mimic" => v.out[i] = v.in[outs[i].n]
      BY DEF LastTaken
    <3>2. t \in 1..k /\ \A u \in (t + 1)..k : ~Takes(ins[u], counts[u])
      BY <1>2, <1>7, <3>1
    <3> QED
      BY <3>1, <3>2 DEF LastTaken
  <2> QED
    BY <1>6, <2>1, <2>2, <2>3 DEF ScannedUpTo, k, r
<1>8. CASE Takes(ins[k], n)
  <2>1. InputTaken(v, outs, k, n, r)
    BY <1>4, <1>5, <1>8
  <2>2. /\ v.in \in [DOMAIN ins -> Nat] /\ v.portIn = v.in
        /\ v.out \in [DOMAIN outs -> Nat] /\ v.portOut \in [DOMAIN outs -> Nat]
    BY <1>3 DEF Sound, Summed, Managers
  <2>3. r.in = [v.in EXCEPT ![k] = n] /\ r.portIn = r.in
    BY <2>1, <2>2 DEF InputTaken
  <2>4. r.in[k] = n /\ \A i \in DOMAIN ins : i # k => r.in[i] = v.in[i]
    BY <1>2, <2>2, <2>3
  <2>5. \A i \in DOMAIN ins : /\ ins[i].type = "fixed" => r.in[i] = ins[i].n
                              /\ ins[i].type = "variable" => r.in[i] = 0
    BY <1>3, <1>8, <2>4 DEF Sound, Takes
  <2>6. \A i \in DOMAIN outs : (i = 1 /\ outs[i].type = "mimic") \/ r.out[i] = r.portOut[i]
    BY <1>3, <2>1 DEF Sound, InputTaken
  <2>7. \A i \in 2..Len(outs) : i \in DOMAIN outs /\ i # 1
    BY <1>1
  <2>8. \A i \in 2..Len(outs) : outs[i].type = "mimic" => r.out[i] = r.in[outs[i].n]
    BY <2>1, <2>3, <2>7 DEF InputTaken
  <2>9. Sound(ins, outs, r)
    <3>1. r \in Summed(ins, outs) /\ r.in = r.portIn
      BY <1>5, <2>3
    <3> QED
      BY <2>5, <2>6, <2>8, <3>1 DEF Sound
  <2>10. \A i \in 1..k : ins[i].type = "dynamic" => r.in[i] = counts[i]
    <3>1. \A i \in 1..j : i \in DOMAIN ins
      BY <1>1, <1>2
    <3>2. \A i \in 1..j : ins[i].type = "dynamic" => v.in[i] = counts[i]
      BY DEF ScannedUpTo
    <3> QED
      BY <1>6, <2>4, <3>1, <3>2
  <2>11. \A i \in DOMAIN outs :
           outs[i].type = "mimic" \/ (i = 1 /\ FirstFollows(outs)) \/ r.out[i] = m.out[i]
    BY <2>1 DEF InputTaken, ScannedUpTo
  <2>12. LastTaken(ins, outs, counts, k, r)
    <3>1. k \in 1..k /\ \A u \in (k + 1)..k : ~Takes(ins[u], counts[u])
      BY <1>2
    <3>2. FirstFollows(outs) => r.out[1] = counts[k] /\ r.portOut[1] = counts[k]
      BY <2>1, BussesType DEF InputTaken
    <3> HIDE DEF k
    <3> QED
      BY <1>8, <2>8, <3>1, <3>2 DEF LastTaken, n
  <2> QED
    BY <2>9, <2>10, <2>11, <2>12 DEF ScannedUpTo, k, r
<1> QED
  BY <1>7, <1>8

\* The scan of all the inputs.
LEMMA SetInputsKeeps ==
  ASSUME NEW s, WellFormed(s.in, s.out), NEW m, Sound(s.in, s.out, m),
         NEW counts \in [DOMAIN s.in -> Nat]
  PROVE  ScannedUpTo(m, s.in, s.out, counts, Len(s.in), SetInputs(s, m, counts))
<1> DEFINE N == Len(s.in)
           M == Summed(s.in, s.out)
           after[k \in 0..N] ==
             IF k = 0 THEN m ELSE SetInputChannels(after[k - 1], s.in, s.out, k, counts[k])
           step == [k \in 0..N |-> [v \in M |->
                      IF k = 0 THEN v ELSE SetInputChannels(v, s.in, s.out, k, counts[k])]]
<1>1. /\ N \in Nat /\ DOMAIN s.in = 1..N /\ Len(counts) = N
      /\ \A k \in 1..N : counts[k] \in Nat
  BY BussesType, CountsAreSeq
<1>2. SetInputs(s, m, counts) = after[N]
  BY <1>1 DEF SetInputs
<1>3. after = CHOOSE g : g = [k \in 0..N |->
                IF k = 0 THEN m ELSE SetInputChannels(g[k - 1], s.in, s.out, k, counts[k])]
  BY DEF after
<1>4. \A v \in M, k \in 1..N : SetInputChannels(v, s.in, s.out, k, counts[k]) \in M
  BY <1>1, SetInputChannelsKeeps
<1>5. m \in M
  BY DEF Sound
<1>6. PICK f : GoesThrough(0, N, M, m, step, f)
  <2>1. step \in [0..N -> [M -> M]]
    BY <1>1, <1>4
  <2>2. 0 \in Nat /\ 0 <= N
    BY <1>1
  <2> HIDE DEF step, N, M
  <2> QED
    BY <1>1, <1>5, <2>1, <2>2, Recursion
<1>7. f = [k \in 0..N |->
             IF k = 0 THEN m ELSE SetInputChannels(f[k - 1], s.in, s.out, k, counts[k])]
  <2>1. ASSUME NEW k \in 0..N
        PROVE  f[k] = IF k = 0 THEN m
                      ELSE SetInputChannels(f[k - 1], s.in, s.out, k, counts[k])
    <3>1. CASE k = 0
      <4> HIDE DEF step, M
      <4> QED
        BY <1>6, <3>1 DEF GoesThrough
    <3>2. CASE k # 0
      <4>1. k - 1 \in 0..N /\ k \in 1..N
        BY <1>1, <3>2
      <4>2. f[k] = step[k][f[k - 1]] /\ f[k - 1] \in M
        <5> HIDE DEF step, M
        <5> QED
          BY <1>6, <3>2, <4>1 DEF GoesThrough
      <4> QED
        BY <3>2, <4>1, <4>2
    <3> QED
      BY <3>1, <3>2
  <2>2. f = [k \in 0..N |-> f[k]]
    <3> HIDE DEF step, M
    <3> QED
      BY <1>6 DEF GoesThrough
  <2> QED
    BY <2>1, <2>2
<1>8. after = [k \in 0..N |->
                IF k = 0 THEN m ELSE SetInputChannels(after[k - 1], s.in, s.out, k, counts[k])]
  <2> HIDE DEF after
  <2> QED
    BY <1>3, <1>7
<1> HIDE DEF after, step
<1> DEFINE Done == {k \in 0..N : ScannedUpTo(m, s.in, s.out, counts, k, after[k])}
<1>9. 0 \in Done
  <2>1. after[0] = m
    BY <1>1, <1>8
  <2>2. NoneTaken(s.in, counts, 0)
    BY DEF NoneTaken
  <2> QED
    BY <1>1, <2>1, <2>2 DEF ScannedUpTo
<1>10. ASSUME NEW k \in 0..(N - 1), k \in Done PROVE k + 1 \in Done
  <2>1. k + 1 \in 0..N /\ k + 1 # 0 /\ (k + 1) - 1 = k
    BY <1>1
  <2>2. after[k + 1] = SetInputChannels(after[k], s.in, s.out, k + 1, counts[k + 1])
    BY <1>8, <2>1
  <2>3. ScannedUpTo(m, s.in, s.out, counts, k, after[k])
    BY <1>10
  <2>4. ScannedUpTo(m, s.in, s.out, counts, k + 1, after[k + 1])
    BY <2>2, <2>3, ScanStep
  <2> QED
    BY <2>1, <2>4
<1>11. \A k \in 0..N : k \in Done
  <2>1. \A k \in 0..(N - 1) : k \in Done => k + 1 \in Done
    BY <1>10
  <2>2. 0 \in Nat
    OBVIOUS
  <2> HIDE DEF Done, N
  <2> QED
    BY <1>1, <1>9, <2>1, <2>2, Induction
<1>12. N \in Done
  BY <1>1, <1>11
<1> QED
  BY <1>2, <1>12

\* Where the last scan has left the manager.
Settled(ins, outs, counts, m) ==
  /\ \A k \in DOMAIN ins : ins[k].type = "dynamic" => m.in[k] = counts[k]
  /\ NoneTaken(ins, counts, Len(ins)) \/ LastTaken(ins, outs, counts, Len(ins), m)

LEMMA ScanSettles ==
  ASSUME NEW s, WellFormed(s.in, s.out), NEW m, Sound(s.in, s.out, m),
         NEW counts \in [DOMAIN s.in -> Nat]
  PROVE  /\ Sound(s.in, s.out, SetInputs(s, m, counts))
         /\ Settled(s.in, s.out, counts, SetInputs(s, m, counts))
<1>1. ScannedUpTo(m, s.in, s.out, counts, Len(s.in), SetInputs(s, m, counts))
  BY SetInputsKeeps
<1>2. DOMAIN s.in = 1..Len(s.in)
  BY BussesType
<1> QED
  BY <1>1, <1>2 DEF ScannedUpTo, Settled

\* A second scan with the same channels leaves the counts as they are.
LEMMA ScanAgain ==
  ASSUME NEW s, WellFormed(s.in, s.out), NEW m, Sound(s.in, s.out, m),
         NEW counts \in [DOMAIN s.in -> Nat], Settled(s.in, s.out, counts, m)
  PROVE  /\ SetInputs(s, m, counts).in = m.in
         /\ SetInputs(s, m, counts).ins = m.ins
         /\ SetInputs(s, m, counts).outs = m.outs
<1> DEFINE r == SetInputs(s, m, counts)
           N == Len(s.in)
<1>1. ScannedUpTo(m, s.in, s.out, counts, N, r)
  BY SetInputsKeeps
<1>2. /\ N \in Nat /\ DOMAIN s.in = 1..N /\ DOMAIN s.out = 1..Len(s.out)
      /\ Len(s.out) \in Nat /\ 1 \in DOMAIN s.out
      /\ \A k \in DOMAIN s.in : s.in[k].type \in {"fixed", "dynamic", "variable"}
      /\ \A k \in DOMAIN s.out : s.out[k].type = "mimic" => s.out[k].n \in DOMAIN s.in
  BY BussesType
<1> HIDE DEF r
<1>3. Sound(s.in, s.out, r)
  BY <1>1 DEF ScannedUpTo
<1>4. /\ m.in \in [DOMAIN s.in -> Nat] /\ m.out \in [DOMAIN s.out -> Nat]
      /\ r.in \in [DOMAIN s.in -> Nat] /\ r.out \in [DOMAIN s.out -> Nat]
      /\ TotalsAreSums(m) /\ TotalsAreSums(r)
  BY <1>3 DEF Sound, Summed, Managers
<1>5. \A k \in DOMAIN s.in : r.in[k] = m.in[k]
  BY <1>1, <1>2, <1>3 DEF ScannedUpTo, Settled, Sound
<1>6. r.in = m.in
  BY <1>4, <1>5
<1>7. CASE NoneTaken(s.in, counts, N)
  <2>1. ~LastTaken(s.in, s.out, counts, N, r)
    BY <1>7 DEF NoneTaken, LastTaken
  <2>2. r = m
    BY <1>1, <2>1 DEF ScannedUpTo
  <2> QED
    BY <2>2 DEF r
<1>8. CASE ~NoneTaken(s.in, counts, N)
  <2>1. LastTaken(s.in, s.out, counts, N, m) /\ LastTaken(s.in, s.out, counts, N, r)
    BY <1>1, <1>8 DEF Settled, ScannedUpTo
  <2>2. PICK t \in 1..N :
          /\ Takes(s.in[t], counts[t])
          /\ \A u \in (t + 1)..N : ~Takes(s.in[u], counts[u])
          /\ FirstFollows(s.out) => m.out[1] = counts[t] /\ m.portOut[1] = counts[t]
          /\ \A k \in 2..Len(s.out) : s.out[k].type = "mimic" => m.out[k] = m.in[s.out[k].n]
    BY <2>1 DEF LastTaken
  <2>3. PICK w \in 1..N :
          /\ Takes(s.in[w], counts[w])
          /\ \A u \in (w + 1)..N : ~Takes(s.in[u], counts[u])
          /\ FirstFollows(s.out) => r.out[1] = counts[w] /\ r.portOut[1] = counts[w]
          /\ \A k \in 2..Len(s.out) : s.out[k].type = "mimic" => r.out[k] = r.in[s.out[k].n]
    BY <2>1 DEF LastTaken
  <2>4. t = w
    <3>1. ~(t < w)
      <4> SUFFICES ASSUME t < w PROVE FALSE
        OBVIOUS
      <4>1. w \in (t + 1)..N
        BY <1>2
      <4> QED
        BY <2>2, <2>3, <4>1
    <3>2. ~(w < t)
      <4> SUFFICES ASSUME w < t PROVE FALSE
        OBVIOUS
      <4>1. t \in (w + 1)..N
        BY <1>2
      <4> QED
        BY <2>2, <2>3, <4>1
    <3> QED
      BY <1>2, <3>1, <3>2
  <2>5. ASSUME NEW k \in DOMAIN s.out PROVE r.out[k] = m.out[k]
    <3>1. CASE k = 1 /\ FirstFollows(s.out)
      BY <2>2, <2>3, <2>4, <3>1
    <3>2. CASE k # 1 /\ s.out[k].type = "mimic"
      <4>1. k \in 2..Len(s.out)
        BY <1>2, <3>2
      <4> QED
        BY <1>6, <2>2, <2>3, <3>2, <4>1
    <3>3. CASE ~(k = 1 /\ FirstFollows(s.out)) /\ s.out[k].type # "mimic"
      BY <1>1, <3>3 DEF ScannedUpTo
    <3> QED
      BY <3>1, <3>2, <3>3 DEF FirstFollows
  <2>6. r.out = m.out
    BY <1>4, <2>5
  <2> QED
    BY <1>4, <1>6, <2>6 DEF TotalsAreSums, r
<1> QED
  BY <1>7, <1>8

\* A count of the first output, of its port or of both.
LEMMA FirstOutputKeeps ==
  ASSUME NEW ins, NEW outs, WellFormed(ins, outs), NEW m, Sound(ins, outs, m),
         NEW r \in Summed(ins, outs), r.in = m.in, r.portIn = m.portIn,
         \A k \in DOMAIN outs : k # 1 => r.out[k] = m.out[k] /\ r.portOut[k] = m.portOut[k],
         outs[1].type = "mimic" \/ r.out[1] = r.portOut[1]
  PROVE  Sound(ins, outs, r)
<1>1. \A k \in 2..Len(outs) : k \in DOMAIN outs /\ k # 1
  BY BussesType
<1>2. r.in = r.portIn
  BY DEF Sound
<1>3. \A k \in DOMAIN outs : (k = 1 /\ outs[k].type = "mimic") \/ r.out[k] = r.portOut[k]
  BY DEF Sound
<1>4. \A k \in 2..Len(outs) :
        outs[k].type = "mimic" /\ ins[outs[k].n].type # "fixed" => r.out[k] = r.in[outs[k].n]
  BY <1>1 DEF Sound
<1> QED
  BY <1>2, <1>3, <1>4 DEF Sound

LEMMA SetOutputChannelsKeeps ==
  ASSUME NEW ins, NEW outs, WellFormed(ins, outs), NEW m, Sound(ins, outs, m),
         NEW n \in Nat
  PROVE  Sound(ins, outs, SetOutputChannels(m, outs, 1, n))
<1> DEFINE port == IF outs[1].type = "mimic" THEN m.portIn[outs[1].n]
                   ELSE IF outs[1].type = "dynamic" THEN n ELSE m.portOut[1]
           set == [m EXCEPT !.portOut[1] = port]
<1>1. 1 \in DOMAIN outs /\ (outs[1].type = "mimic" => outs[1].n \in DOMAIN ins)
  BY BussesType
<1>2. m \in Summed(ins, outs) /\ m \in Managers(ins, outs)
  BY DEF Sound, Summed
<1>3. /\ m.portIn \in [DOMAIN ins -> Nat] /\ m.portOut \in [DOMAIN outs -> Nat]
      /\ m.out \in [DOMAIN outs -> Nat]
  BY <1>2 DEF Managers
<1>4. port \in Nat
  BY <1>1, <1>3
<1>5. SetOutputChannels(m, outs, 1, n) = IF port = n THEN SetOutputCount(set, 1, n) ELSE set
  BY DEF SetOutputChannels
<1> HIDE DEF port
<1>6. set = [m EXCEPT !.portOut = [m.portOut EXCEPT ![1] = port]]
  BY <1>2 DEF Managers
<1>7. set \in Summed(ins, outs)
  BY <1>2, <1>3, <1>4, <1>6, PortsKeep
<1>8. /\ set.portOut = [m.portOut EXCEPT ![1] = port] /\ set.out = m.out
      /\ set.in = m.in /\ set.portIn = m.portIn
  BY <1>2, <1>6 DEF Managers
<1> HIDE DEF set
<1>9. set.portOut[1] = port /\ \A k \in DOMAIN outs : k # 1 => set.portOut[k] = m.portOut[k]
  BY <1>1, <1>3, <1>8
<1>10. CASE port = n
  <2>1. /\ SetOutputCount(set, 1, n) \in Summed(ins, outs)
        /\ SetOutputCount(set, 1, n).out = [m.out EXCEPT ![1] = n]
        /\ SetOutputCount(set, 1, n).portOut = set.portOut
        /\ SetOutputCount(set, 1, n).in = m.in
        /\ SetOutputCount(set, 1, n).portIn = m.portIn
    BY <1>1, <1>7, <1>8, SetOutputCountKeeps
  <2>2. /\ SetOutputCount(set, 1, n).out[1] = n
        /\ \A k \in DOMAIN outs : k # 1 => SetOutputCount(set, 1, n).out[k] = m.out[k]
    BY <1>1, <1>3, <2>1
  <2> QED
    BY <1>5, <1>9, <1>10, <2>1, <2>2, FirstOutputKeeps
<1>11. CASE port # n
  <2>1. outs[1].type = "mimic" \/ set.out[1] = set.portOut[1]
    BY <1>1, <1>8, <1>9, <1>11 DEF Sound, port
  <2>2. SetOutputChannels(m, outs, 1, n) = set
    BY <1>5, <1>11
  <2>3. \A k \in DOMAIN outs : k # 1 => set.out[k] = m.out[k] /\ set.portOut[k] = m.portOut[k]
    BY <1>8, <1>9
  <2>4. Sound(ins, outs, set)
    BY <1>7, <1>8, <2>1, <2>3, FirstOutputKeeps
  <2> QED
    BY <2>2, <2>4
<1> QED
  BY <1>10, <1>11

\* The constructor of a processor with busses.
LEMMA ConstructedSound ==
  ASSUME NEW s, WellFormed(s.in, s.out), s.node # "mono"
  PROVE  Sound(s.in, s.out, ConstructedManager(s))
<1> DEFINE new == NewManager(s.in, s.out)
           counts == [k \in DOMAIN s.in |-> 2]
           set == SetInputChannels(new, s.in, s.out, 1, 2)
<1>1. /\ DOMAIN s.in = 1..Len(s.in) /\ Len(s.in) \in Nat /\ 1 \in DOMAIN s.in
      /\ DOMAIN s.out = 1..Len(s.out) /\ Len(s.out) \in Nat
      /\ \A k \in DOMAIN s.in : /\ s.in[k].type \in {"fixed", "dynamic", "variable"}
                                /\ s.in[k].n \in Nat
      /\ \A k \in DOMAIN s.out : s.out[k].type = "mimic" => s.out[k].n \in DOMAIN s.in
      /\ \A k \in 2..Len(s.out) : k \in DOMAIN s.out
  BY BussesType
<1>2. \A k \in DOMAIN s.out : s.out[k].n \in Nat
  BY BussesType
<1>3. InitialCounts(s.in) \in [DOMAIN s.in -> Nat] /\ InitialCounts(s.out) \in [DOMAIN s.out -> Nat]
  BY <1>1, <1>2 DEF InitialCounts
<1>4. Total(InitialCounts(s.in)) \in Nat /\ Total(InitialCounts(s.out)) \in Nat
  BY <1>1, <1>3, CountsAreSeq, TotalType
<1>5. new \in Summed(s.in, s.out)
  BY <1>3, <1>4 DEF NewManager, Summed, Managers, TotalsAreSums
<1>6. Sound(s.in, s.out, new)
  <2>1. /\ new.in = InitialCounts(s.in) /\ new.portIn = new.in
        /\ new.out = InitialCounts(s.out) /\ new.portOut = new.out
    BY DEF NewManager
  <2> HIDE DEF new
  <2> QED
    BY <1>1, <1>5, <2>1 DEF Sound, InitialCounts
<1> HIDE DEF new
<1>7. counts \in [DOMAIN s.in -> Nat] /\ counts[1] = 2
  BY <1>1
<1> HIDE DEF counts
<1>8. ScannedUpTo(new, s.in, s.out, counts, 0, new)
  BY <1>6 DEF ScannedUpTo, NoneTaken
<1>9. 0 \in 0..(Len(s.in) - 1) /\ 0 + 1 = 1
  BY <1>1
<1>10. ScannedUpTo(new, s.in, s.out, counts, 0 + 1,
                   SetInputChannels(new, s.in, s.out, 0 + 1, counts[0 + 1]))
  BY <1>7, <1>8, <1>9, ScanStep
<1>11. Sound(s.in, s.out, set)
  BY <1>7, <1>9, <1>10 DEF ScannedUpTo
<1>12. ConstructedManager(s) = SetOutputChannels(set, s.out, 1, 2)
  BY DEF ConstructedManager, new
<1> HIDE DEF set
<1> QED
  BY <1>11, <1>12, SetOutputChannelsKeeps

\* request_channels() of a variable output.
LEMMA RequestChannelsKeeps ==
  ASSUME NEW s, WellFormed(s.in, s.out), s.out[1].type = "variable",
         NEW m \in Summed(s.in, s.out), NEW n \in Nat
  PROVE  /\ RequestChannels(s, m, n) \in Summed(s.in, s.out)
         /\ RequestChannels(s, m, n).in = m.in
         /\ RequestChannels(s, m, n).portIn = m.portIn
         /\ Sound(s.in, s.out, m) => Sound(s.in, s.out, RequestChannels(s, m, n))
         /\ \A counts : Settled(s.in, s.out, counts, m) =>
                         Settled(s.in, s.out, counts, RequestChannels(s, m, n))
<1> DEFINE r == BothCounts(m, 1, n)
           port == [m EXCEPT !.portOut[1] = n]
<1>1. 1 \in DOMAIN s.out /\ \A k \in 2..Len(s.out) : k \in DOMAIN s.out /\ k # 1
  BY BussesType
<1>2. /\ r \in Summed(s.in, s.out)
      /\ r.out = [m.out EXCEPT ![1] = n] /\ r.portOut = [m.portOut EXCEPT ![1] = n]
      /\ r.in = m.in /\ r.portIn = m.portIn
  BY <1>1, BothCountsKeeps
<1>3. m \in Managers(s.in, s.out)
  BY DEF Summed
<1>4. RequestChannels(s, m, n) = r
  <2>1. port.portOut[1] = n
    BY <1>1, <1>3 DEF Managers
  <2>2. [port EXCEPT !.portOut[1] = n] = port
    BY <1>1, <1>3, <2>1 DEF Managers
  <2>3. SetOutputChannels(port, s.out, 1, n) = SetOutputCount(port, 1, n)
    <3> HIDE DEF port
    <3> QED
      BY <2>1, <2>2 DEF SetOutputChannels
  <2> QED
    BY <2>3 DEF RequestChannels, BothCounts
<1>5. /\ m.out \in [DOMAIN s.out -> Nat] /\ m.portOut \in [DOMAIN s.out -> Nat]
  BY <1>3 DEF Managers
<1> HIDE DEF r, port
<1>6. /\ r.out[1] = r.portOut[1]
      /\ \A k \in DOMAIN s.out : k # 1 => r.out[k] = m.out[k] /\ r.portOut[k] = m.portOut[k]
  BY <1>1, <1>2, <1>5
<1>7. Sound(s.in, s.out, m) => Sound(s.in, s.out, r)
  BY <1>2, <1>6, FirstOutputKeeps
<1>8. ASSUME NEW counts, Settled(s.in, s.out, counts, m)
      PROVE  Settled(s.in, s.out, counts, r)
  <2>1. ~FirstFollows(s.out)
    BY DEF FirstFollows
  <2>2. LastTaken(s.in, s.out, counts, Len(s.in), m) =>
          LastTaken(s.in, s.out, counts, Len(s.in), r)
    BY <1>1, <1>2, <1>6, <2>1 DEF LastTaken
  <2> QED
    BY <1>2, <1>8, <2>2 DEF Settled
<1> QED
  BY <1>2, <1>4, <1>7, <1>8

-----------------------------------------------------------------------------
(* The node                                                                 *)

\* The manager of a monophonic processor has no busses.
MonoManagers ==
  LET none == InitialCounts(<<>>)
  IN [in : {none}, out : {none}, portIn : {none}, portOut : {none}, ins : Nat, outs : Nat]

ManagersOf(s) == IF s.node = "mono" THEN MonoManagers ELSE Summed(s.in, s.out)
Storage == [Smoothed -> [current : Value, target : Value]]

NodeTypeOK ==
  /\ shape \in Shapes
  /\ effect \in Seq(Instance) /\ effect # <<>>
  /\ manager \in ManagersOf(shape)
  /\ buffer_size \in Nat \ {0} /\ outlet_frames \in Nat
  /\ audio_channels_changed \in BOOLEAN /\ running \in BOOLEAN
  /\ smoothed_inputs \in Storage
  /\ inputs_set \subseteq Param
  /\ ins_queue \in Seq(Inputs) /\ shown \in Inputs
  /\ delivered \in [DOMAIN shape.in -> Counts] /\ DOMAIN inlet = DOMAIN shape.in

\* What holds of the counts at any time, requests pending or not.
CountsInv ==
  CASE shape.node = "mono" ->
         /\ manager.ins = delivered[1] /\ manager.outs = delivered[1]
         /\ inlet = <<manager.ins>> /\ outlet = <<manager.outs>>
         /\ running => Len(effect) = manager.ins
    [] shape.node = "bus" ->
         /\ Sound(shape.in, shape.out, manager)
         /\ Settled(shape.in, shape.out, delivered, manager)
         /\ inlet = manager.in
         /\ ~audio_channels_changed => outlet = manager.out
    [] shape.node = "native" ->
         /\ ~running => outlet_frames = 0
         /\ SettledPorts /\ ~audio_channels_changed =>
              /\ inlet = manager.portIn /\ outlet = manager.portOut
              /\ \A k \in DOMAIN outlet : Follows(k)

\* The last report tells of the first instance, unless another is due.
LastReport == IF ins_queue = <<>> THEN shown ELSE ins_queue[Len(ins_queue)]

ReportsInv ==
  /\ \A i, j \in DOMAIN effect, p \in Plain : effect[i].inputs[p] = effect[j].inputs[p]
  /\ inputs_set = {} => \A p \in Plain : LastReport[p] = effect[1].inputs[p]

NodeInv ==
  /\ NodeTypeOK
  /\ ~running => ~audio_channels_changed
  /\ PreparedOrPending
  /\ CountsInv
  /\ ReportsInv

\* The number of a setup says which one it is only for counts and a size that
\* are numbers.
LEMMA ManagersType ==
  ASSUME NEW s \in Shapes, NEW m \in ManagersOf(s)
  PROVE  m.ins \in Nat /\ m.outs \in Nat
<1>1. CASE s.node = "mono"
  BY <1>1 DEF ManagersOf, MonoManagers
<1>2. CASE s.node # "mono"
  BY <1>2, TotalsAreNat, ShapesAssumption DEF ManagersOf
<1> QED
  BY <1>1, <1>2

\* A container is never empty: it has a first instance.
LEMMA FirstInstance ==
  ASSUME NEW container \in Seq(Instance), container # <<>>
  PROVE  /\ Len(container) \in Nat \ {0} /\ DOMAIN container = 1..Len(container)
         /\ 1 \in DOMAIN container
         /\ \A i \in DOMAIN container : container[i] \in Instance
<1>1. DOMAIN container = 1..Len(container) /\ Len(container) \in Nat /\ Len(container) # 0
  BY EmptySeq, LenProperties
<1> QED
  BY <1>1, ElementOfSeq

\* audio_configuration_changed() prepares every instance there is then, and new
\* ones have the controls of one that was there.
LEMMA ConfigureKeeps ==
  ASSUME NEW s \in Shapes, NEW container \in Seq(Instance), container # <<>>,
         NEW m \in ManagersOf(s), s.node = "mono" => m.ins > 0, NEW size \in Nat
  PROVE  /\ Configure(s, container, m, size).effect \in Seq(Instance)
         /\ Configure(s, container, m, size).effect # <<>>
         /\ s.node = "mono" /\ m.ins = m.outs =>
              Len(Configure(s, container, m, size).effect) = m.ins
         /\ AllPrepared(Configure(s, container, m, size).effect, SetupId(m.ins, m.outs, size))
         /\ \A i \in DOMAIN Configure(s, container, m, size).effect :
              /\ \E j \in DOMAIN container :
                   Configure(s, container, m, size).effect[i].inputs = container[j].inputs
              /\ i = 1 =>
                   Configure(s, container, m, size).effect[i].inputs = container[1].inputs
<1> DEFINE made == Instances(s, container, m)
           id == SetupId(m.ins, m.outs, size)
<1>1. m.ins \in Nat /\ m.outs \in Nat
  BY ManagersType
<1>2. id \in Nat
  BY <1>1 DEF SetupId
<1>3. /\ made \in Seq(Instance) /\ made # <<>>
      /\ s.node = "mono" /\ m.ins = m.outs => Len(made) = m.ins
      /\ \A i \in DOMAIN made :
           /\ \E j \in DOMAIN container : made[i].inputs = container[j].inputs
           /\ i = 1 => made[i].inputs = container[1].inputs
  <2>1. CASE s.node = "mono"
    <3>1. made = InitChannels(container, m.ins, m.outs)
      BY <2>1 DEF Instances
    <3>2. made \in Seq(Instance) /\ Len(made) = Larger(m.ins, m.outs)
      BY <1>1, <3>1, InitChannelsType
    <3>3. Len(made) > 0
      BY <1>1, <2>1, <3>2 DEF Larger
    <3>4. made # <<>>
      BY <3>2, <3>3, EmptySeq
    <3>5. m.ins = m.outs => Len(made) = m.ins
      BY <1>1, <3>2 DEF Larger
    <3> QED
      BY <1>1, <3>1, <3>2, <3>4, <3>5, InitChannelsCopies
  <2>2. CASE s.node # "mono"
    BY <2>2 DEF Instances
  <2> QED
    BY <2>1, <2>2
<1>4. Configure(s, container, m, size).effect = Prepare(made, id)
  BY DEF Configure
<1> HIDE DEF made, id
<1>5. /\ Prepare(made, id) \in Seq(Instance) /\ Len(Prepare(made, id)) = Len(made)
      /\ \A i \in DOMAIN made : Prepare(made, id)[i].inputs = made[i].inputs
      /\ AllPrepared(Prepare(made, id), id)
  BY <1>2, <1>3, PrepareKeeps
<1>6. DOMAIN Prepare(made, id) = DOMAIN made /\ Prepare(made, id) # <<>>
  BY <1>3, <1>5, LenProperties, EmptySeq
<1> QED
  BY <1>3, <1>4, <1>5, <1>6 DEF id

\* What the processor asks for while it is prepared changes only what the manager
\* keeps of the first output; and the node knows that it asked.
LEMMA ConfigureAsks ==
  ASSUME NEW s \in Shapes, NEW container \in Seq(Instance), container # <<>>,
         NEW m \in ManagersOf(s), NEW size
  PROVE  /\ Configure(s, container, m, size).asked \in BOOLEAN
         /\ ~Configure(s, container, m, size).asked =>
              Configure(s, container, m, size).manager = m
         /\ Configure(s, container, m, size).asked =>
              /\ s.node # "mono" /\ s.out[1].type = "variable"
              /\ \E n \in Nat : Configure(s, container, m, size).manager = RequestChannels(s, m, n)
<1>1. container[1].inputs[Asker] \in Nat
  BY FirstInstance, InstanceInputs, OssiaAssumption DEF Inputs
<1> QED
  BY <1>1, ShapesAssumption DEF Configure

\* A smoothed value goes from a value to a value.
LEMMA TowardType ==
  ASSUME NEW c \in Value, NEW t \in Value, NEW steps \in Nat
  PROVE  Toward(c, t, steps) \in Value
<1>1. c \in Nat /\ t \in Nat /\ \A v \in Value : 0..v \subseteq Value
  BY OssiaAssumption
<1>2. Toward(c, t, steps) \in 0..c \/ Toward(c, t, steps) \in 0..t
  BY <1>1 DEF Toward
<1> QED
  BY <1>1, <1>2

LEMMA TargetsType ==
  ASSUME NEW storage \in Storage, NEW P \in SUBSET Param, NEW new \in [P -> Value]
  PROVE  Targets(storage, new) \in Storage
<1>1. \A p \in Smoothed : storage[p] \in [current : Value, target : Value]
  BY DEF Storage
<1>2. \A p \in Smoothed : Targets(storage, new)[p] \in [current : Value, target : Value]
  BY <1>1 DEF Targets
<1> QED
  BY <1>2 DEF Targets, Storage

LEMMA SmoothedStorageType ==
  ASSUME NEW container \in Seq(Instance), NEW storage \in Storage
  PROVE  SmoothedStorage(container, storage) \in Storage
<1>1. Len(container) \in Nat
  BY LenProperties
<1>2. \A p \in Smoothed : /\ storage[p] \in [current : Value, target : Value]
                          /\ storage[p].current \in Value /\ storage[p].target \in Value
  BY DEF Storage
<1>3. \A p \in Smoothed : SmoothedStorage(container, storage)[p] \in [current : Value, target : Value]
  BY <1>1, <1>2, TowardType DEF SmoothedStorage
<1> QED
  BY <1>3 DEF SmoothedStorage, Storage

\* smooth_all() reaches every instance, and moves the smoothed controls only.
LEMMA SmoothedEffectKeeps ==
  ASSUME NEW container \in Seq(Instance), NEW storage \in Storage
  PROVE  /\ SmoothedEffect(container, storage) \in Seq(Instance)
         /\ Len(SmoothedEffect(container, storage)) = Len(container)
         /\ \A i \in DOMAIN container :
              /\ SmoothedEffect(container, storage)[i].prepared = container[i].prepared
              /\ \A p \in Plain :
                   SmoothedEffect(container, storage)[i].inputs[p] = container[i].inputs[p]
<1> DEFINE inputs(i) == [p \in Param |-> IF p \in Smoothed
                          THEN Toward(storage[p].current, storage[p].target, i)
                          ELSE container[i].inputs[p]]
<1>1. DOMAIN container = 1..Len(container) /\ Len(container) \in Nat
  BY LenProperties
<1>2. \A i \in DOMAIN container : container[i] \in Instance /\ container[i].inputs \in Inputs
  BY <1>1, InstanceInputs
<1>3. ASSUME NEW i \in DOMAIN container PROVE inputs(i) \in Inputs
  <2>1. i \in Nat
    BY <1>1
  <2>2. \A p \in Smoothed : storage[p].current \in Value /\ storage[p].target \in Value
    BY DEF Storage
  <2>3. \A p \in Smoothed : Toward(storage[p].current, storage[p].target, i) \in Value
    BY <2>1, <2>2, TowardType
  <2> QED
    BY <1>2, <2>3 DEF Inputs
<1>4. \A i \in DOMAIN container :
        SmoothedEffect(container, storage)[i] = [container[i] EXCEPT !.inputs = inputs(i)]
  BY DEF SmoothedEffect
<1>5. \A i \in DOMAIN container : \A p \in Plain : inputs(i)[p] = container[i].inputs[p]
  BY DEF Plain
<1> HIDE DEF inputs
<1>6. \A i \in DOMAIN container :
        /\ SmoothedEffect(container, storage)[i] \in Instance
        /\ SmoothedEffect(container, storage)[i].inputs = inputs(i)
        /\ SmoothedEffect(container, storage)[i].prepared = container[i].prepared
  BY <1>2, <1>3, <1>4 DEF Instance
<1>7. /\ SmoothedEffect(container, storage) \in Seq(Instance)
      /\ Len(SmoothedEffect(container, storage)) = Len(container)
  BY <1>1, <1>6, FunctionIsSeq DEF SmoothedEffect
<1> QED
  BY <1>5, <1>6, <1>7

\* The ports of a native node get the counts of the graph, and the manager is not
\* told of them.
LEMMA FollowPortsKeeps ==
  ASSUME NEW s \in Shapes, s.node # "mono", NEW m \in ManagersOf(s),
         NEW counts \in [DOMAIN s.in -> Nat]
  PROVE  /\ FollowPorts(s, m, counts) \in ManagersOf(s)
         /\ FollowPorts(s, m, counts).ins = m.ins /\ FollowPorts(s, m, counts).outs = m.outs
         /\ FollowPorts(s, m, counts).portIn =
              [k \in DOMAIN s.in |-> IF s.in[k].type = "fixed" THEN s.in[k].n ELSE counts[k]]
         /\ DOMAIN FollowPorts(s, m, counts).portOut = DOMAIN s.out
         /\ \A k \in DOMAIN s.out : s.out[k].type = "mimic" =>
              FollowPorts(s, m, counts).portOut[k] =
                FollowPorts(s, m, counts).portIn[s.out[k].n]
<1> DEFINE port == [k \in DOMAIN s.in |-> IF s.in[k].type = "fixed" THEN s.in[k].n ELSE counts[k]]
           set == [m EXCEPT !.portIn = port]
           r == [set EXCEPT !.portOut = OutputChannels(s, set)]
<1>1. WellFormed(s.in, s.out) /\ m \in Summed(s.in, s.out)
  BY ShapesAssumption DEF ManagersOf
<1>2. /\ 1 \in DOMAIN s.in /\ \A k \in DOMAIN s.in : s.in[k].n \in Nat
      /\ \A k \in DOMAIN s.out : /\ s.out[k].type \in {"fixed", "dynamic", "variable", "mimic"}
                                 /\ s.out[k].type = "mimic" => s.out[k].n \in DOMAIN s.in
  BY <1>1, BussesType DEF BusType
<1>3. port \in [DOMAIN s.in -> Nat]
  BY <1>2
<1> HIDE DEF port
<1>4. /\ set \in Summed(s.in, s.out) /\ set.portIn = port /\ set.portOut = m.portOut
      /\ set.ins = m.ins /\ set.outs = m.outs
  <2>1. set \in Summed(s.in, s.out)
    <3>1. m.portOut \in [DOMAIN s.out -> Nat]
      BY <1>1 DEF Summed, Managers
    <3> QED
      BY <1>1, <1>3, <3>1, PortsKeep
  <2>2. m \in Managers(s.in, s.out)
    BY <1>1 DEF Summed
  <2> QED
    BY <2>1, <2>2 DEF Managers
<1> HIDE DEF set
<1>5. m.portOut \in [DOMAIN s.out -> Nat]
  BY <1>1 DEF Summed, Managers
<1>6. \A k \in DOMAIN s.out : OutputChannels(s, set)[k] \in Nat
  <2> SUFFICES ASSUME NEW k \in DOMAIN s.out PROVE OutputChannels(s, set)[k] \in Nat
    OBVIOUS
  <2>1. CASE s.out[k].type \in {"fixed", "variable"}
    BY <1>4, <1>5, <2>1 DEF OutputChannels
  <2>2. CASE s.out[k].type = "mimic"
    BY <1>2, <1>3, <1>4, <2>2 DEF OutputChannels
  <2>3. CASE s.out[k].type = "dynamic"
    BY <1>2, <1>3, <1>4, <2>3 DEF OutputChannels
  <2> QED
    BY <1>2, <2>1, <2>2, <2>3
<1>7. OutputChannels(s, set) \in [DOMAIN s.out -> Nat]
  BY <1>6 DEF OutputChannels
<1>8. \A k \in DOMAIN s.out : s.out[k].type = "mimic" =>
        OutputChannels(s, set)[k] = port[s.out[k].n]
  BY <1>4 DEF OutputChannels
<1>9. /\ r \in Summed(s.in, s.out) /\ r.portIn = port /\ r.portOut = OutputChannels(s, set)
      /\ r.ins = m.ins /\ r.outs = m.outs
  <2> DEFINE o == OutputChannels(s, set)
  <2>1. o \in [DOMAIN s.out -> Nat]
    BY <1>7
  <2> HIDE DEF o
  <2>2. /\ [set EXCEPT !.portOut = o] \in Summed(s.in, s.out)
        /\ [set EXCEPT !.portOut = o].portIn = port /\ [set EXCEPT !.portOut = o].portOut = o
        /\ [set EXCEPT !.portOut = o].ins = m.ins /\ [set EXCEPT !.portOut = o].outs = m.outs
    BY <1>4, <2>1, PortsKeep DEF Summed, Managers
  <2> QED
    BY <2>2 DEF o
<1>10. FollowPorts(s, m, counts) = r
  BY DEF FollowPorts, set, port
<1> HIDE DEF r
<1> QED
  BY <1>7, <1>8, <1>9, <1>10 DEF ManagersOf, port

\* What the scan of a tick finds, for each kind of node.
Scanned(s, m, counts, r) ==
  /\ r.manager \in ManagersOf(s) /\ r.changed \in BOOLEAN
  /\ ~r.changed => r.manager.ins = m.ins /\ r.manager.outs = m.outs
  /\ DOMAIN r.inlet = DOMAIN s.in
  /\ s.node = "mono" =>
       /\ r.manager.ins = counts[1] /\ r.manager.outs = counts[1]
       /\ r.inlet = <<counts[1]>> /\ r.outlet = <<counts[1]>>
       /\ r.changed <=> counts[1] # m.ins
  /\ s.node = "bus" =>
       /\ Sound(s.in, s.out, r.manager) /\ Settled(s.in, s.out, counts, r.manager)
       /\ r.inlet = r.manager.in /\ r.outlet = r.manager.out
       /\ Settled(s.in, s.out, counts, m) /\ ~Mixed(s) => ~r.changed
  /\ s.node = "native" =>
       /\ r.manager = FollowPorts(s, m, counts) /\ r.inlet = r.manager.portIn
       /\ ~r.changed

LEMMA CountsType ==
  ASSUME NEW s \in Shapes, NEW counts \in [DOMAIN s.in -> Counts]
  PROVE  counts \in [DOMAIN s.in -> Nat] /\ 1 \in DOMAIN s.in /\ counts[1] \in Nat \ {0}
<1>1. 1 \in DOMAIN s.in
  BY ShapesAssumption, BussesType
<1> QED
  BY <1>1, OssiaAssumption

LEMMA ScanMonoKeeps ==
  ASSUME NEW s \in Shapes, s.node = "mono", NEW m \in ManagersOf(s),
         m.ins = m.outs, NEW counts \in [DOMAIN s.in -> Counts]
  PROVE  Scanned(s, m, counts, Scan(s, m, counts))
<1> DEFINE n == counts[1]
           set == [SetMonoChannels(m, n) EXCEPT !.ins = n, !.outs = n]
<1>1. n \in Nat \ {0}
  BY CountsType
<1>2. DOMAIN s.in = {1}
  BY ShapesAssumption, BussesType
<1>3. m \in MonoManagers
  BY DEF ManagersOf
<1>4. counts = <<n>>
  BY <1>2
<1> HIDE DEF n
<1>5. set \in MonoManagers /\ set.ins = n /\ set.outs = n
  BY <1>1, <1>3 DEF SetMonoChannels, MonoManagers
<1>6. Scan(s, m, counts) =
        [manager |-> IF n # m.ins THEN set ELSE m, inlet |-> counts, outlet |-> counts,
         changed |-> n # m.ins]
  BY DEF Scan, ScanMono, n
<1>7. Scan(s, m, counts).manager = IF n # m.ins THEN set ELSE m
  BY <1>6
<1>8. /\ Scan(s, m, counts).inlet = counts /\ Scan(s, m, counts).outlet = counts
      /\ Scan(s, m, counts).changed = (n # m.ins)
  BY <1>6
<1> HIDE DEF set
<1>9. /\ Scan(s, m, counts).manager \in ManagersOf(s)
      /\ Scan(s, m, counts).manager.ins = n /\ Scan(s, m, counts).manager.outs = n
  BY <1>3, <1>5, <1>7 DEF ManagersOf
<1> QED
  BY <1>4, <1>8, <1>9 DEF Scanned, n

LEMMA ScanBusKeeps ==
  ASSUME NEW s \in Shapes, s.node = "bus", NEW m, Sound(s.in, s.out, m),
         NEW counts \in [DOMAIN s.in -> Counts]
  PROVE  Scanned(s, m, counts, Scan(s, m, counts))
<1> DEFINE set == SetInputs(s, m, counts)
           ok == set.in = counts \/ \A k \in DOMAIN s.in : s.in[k].type = "fixed"
           changed == ~ok \/ set.ins # m.ins \/ set.outs # m.outs
           r == [manager |-> set, inlet |-> set.in, outlet |-> set.out, changed |-> changed]
<1>1. WellFormed(s.in, s.out) /\ counts \in [DOMAIN s.in -> Nat]
  BY CountsType, ShapesAssumption
<1>2. Sound(s.in, s.out, set) /\ Settled(s.in, s.out, counts, set)
  BY <1>1, ScanSettles
<1>3. Scan(s, m, counts) = r
  BY DEF Scan, ScanBus
<1>4. Settled(s.in, s.out, counts, m) =>
        set.in = m.in /\ set.ins = m.ins /\ set.outs = m.outs
  BY <1>1, ScanAgain
<1> HIDE DEF set
<1>5. /\ set \in ManagersOf(s) /\ DOMAIN set.in = DOMAIN s.in
      /\ m.in \in [DOMAIN s.in -> Nat]
  BY <1>2 DEF Sound, ManagersOf, Summed, Managers
<1>6. ASSUME Settled(s.in, s.out, counts, m), ~Mixed(s)
      PROVE  ok /\ set.ins = m.ins /\ set.outs = m.outs
  <2>1. CASE \A k \in DOMAIN s.in : s.in[k].type = "fixed"
    BY <1>4, <1>6, <2>1
  <2>2. CASE \A k \in DOMAIN s.in : s.in[k].type = "dynamic"
    <3>1. \A k \in DOMAIN s.in : m.in[k] = counts[k]
      BY <1>6, <2>2 DEF Settled
    <3>2. m.in = counts
      BY <1>1, <1>5, <3>1
    <3> QED
      BY <1>4, <1>6, <3>2
  <2> QED
    BY <1>6, <2>1, <2>2 DEF Mixed
<1>7. changed \in BOOLEAN
  OBVIOUS
<1> HIDE DEF ok, changed
<1>8. /\ Scan(s, m, counts).manager = set
      /\ Scan(s, m, counts).inlet = set.in /\ Scan(s, m, counts).outlet = set.out
      /\ Scan(s, m, counts).changed = changed
  BY <1>3
<1>9. ~changed => set.ins = m.ins /\ set.outs = m.outs
  BY DEF changed
<1>10. Settled(s.in, s.out, counts, m) /\ ~Mixed(s) => ~changed
  BY <1>6 DEF changed
<1> HIDE DEF r
<1> QED
  BY <1>2, <1>5, <1>7, <1>8, <1>9, <1>10 DEF Scanned

LEMMA ScanNativeKeeps ==
  ASSUME NEW s \in Shapes, s.node = "native", NEW m \in ManagersOf(s),
         NEW counts \in [DOMAIN s.in -> Counts]
  PROVE  Scanned(s, m, counts, Scan(s, m, counts))
<1> DEFINE set == FollowPorts(s, m, counts)
<1>1. counts \in [DOMAIN s.in -> Nat]
  BY CountsType
<1>2. /\ set \in ManagersOf(s) /\ set.ins = m.ins /\ set.outs = m.outs
      /\ DOMAIN set.portIn = DOMAIN s.in
  <2>1. s.node # "mono"
    OBVIOUS
  <2> HIDE DEF set
  <2>2. /\ set \in ManagersOf(s) /\ set.ins = m.ins /\ set.outs = m.outs
        /\ set.portIn = [k \in DOMAIN s.in |->
                           IF s.in[k].type = "fixed" THEN s.in[k].n ELSE counts[k]]
    BY <1>1, <2>1, FollowPortsKeeps DEF set
  <2> QED
    BY <2>2
<1>3. Scan(s, m, counts) = [manager |-> set, inlet |-> set.portIn,
                            outlet |-> set.portOut, changed |-> FALSE]
  BY DEF Scan, ScanNative
<1> HIDE DEF set
<1> QED
  BY <1>2, <1>3 DEF Scanned, set

LEMMA RequestsKeep ==
  ASSUME NEW s \in Shapes, s.asks # "never", NEW m \in ManagersOf(s), NEW n \in Nat
  PROVE  /\ RequestChannels(s, m, n) \in ManagersOf(s)
         /\ RequestChannels(s, m, n).in = m.in
         /\ Sound(s.in, s.out, m) => Sound(s.in, s.out, RequestChannels(s, m, n))
         /\ \A counts : Settled(s.in, s.out, counts, m) =>
                         Settled(s.in, s.out, counts, RequestChannels(s, m, n))
<1>1. /\ s.node # "mono" /\ WellFormed(s.in, s.out) /\ s.out[1].type = "variable"
  BY ShapesAssumption
<1>2. m \in Summed(s.in, s.out)
  BY <1>1 DEF ManagersOf
<1> QED
  BY <1>1, <1>2, RequestChannelsKeeps DEF ManagersOf

\* The manager and the container after the node has been configured, whether or
\* not the processor asked for channels.
Configured(s, container, m, size, r) ==
  /\ r.effect \in Seq(Instance) /\ r.effect # <<>>
  /\ s.node = "mono" => Len(r.effect) = m.ins
  /\ AllPrepared(r.effect, SetupId(m.ins, m.outs, size))
  /\ \A i \in DOMAIN r.effect :
       /\ \E j \in DOMAIN container : r.effect[i].inputs = container[j].inputs
       /\ i = 1 => r.effect[i].inputs = container[1].inputs
  /\ r.manager \in ManagersOf(s) /\ r.asked \in BOOLEAN
  /\ ~r.asked => r.manager = m
  /\ s.node = "mono" => r.manager = m
  /\ r.manager.in = m.in
  /\ s.node = "bus" =>
       /\ Sound(s.in, s.out, m) => Sound(s.in, s.out, r.manager)
       /\ \A counts : Settled(s.in, s.out, counts, m) =>
                        Settled(s.in, s.out, counts, r.manager)

LEMMA ConfigureConfigures ==
  ASSUME NEW s \in Shapes, NEW container \in Seq(Instance), container # <<>>,
         NEW m \in ManagersOf(s), s.node = "mono" => m.ins > 0 /\ m.outs = m.ins,
         NEW size \in Nat
  PROVE  Configured(s, container, m, size, Configure(s, container, m, size))
<1> DEFINE r == Configure(s, container, m, size)
<1>1. /\ r.effect \in Seq(Instance) /\ r.effect # <<>>
      /\ s.node = "mono" => Len(r.effect) = m.ins
      /\ AllPrepared(r.effect, SetupId(m.ins, m.outs, size))
      /\ \A i \in DOMAIN r.effect :
           /\ \E j \in DOMAIN container : r.effect[i].inputs = container[j].inputs
           /\ i = 1 => r.effect[i].inputs = container[1].inputs
  BY ConfigureKeeps
<1>2. /\ r.asked \in BOOLEAN
      /\ ~r.asked => r.manager = m
      /\ r.asked => /\ s.asks # "never" /\ s.node # "mono"
                    /\ \E n \in Nat : r.manager = RequestChannels(s, m, n)
  <2>1. r.asked => s.asks # "never"
    BY DEF Configure
  <2> HIDE DEF r
  <2> QED
    BY <2>1, ConfigureAsks DEF r
<1> HIDE DEF r
<1> SUFFICES Configured(s, container, m, size, r)
  BY DEF r
<1>3. CASE r.asked
  <2>1. PICK n \in Nat : r.manager = RequestChannels(s, m, n)
    BY <1>2, <1>3
  <2>2. s.asks # "never" /\ s.node # "mono"
    BY <1>2, <1>3
  <2>3. /\ RequestChannels(s, m, n) \in ManagersOf(s) /\ RequestChannels(s, m, n).in = m.in
        /\ Sound(s.in, s.out, m) => Sound(s.in, s.out, RequestChannels(s, m, n))
        /\ \A counts : Settled(s.in, s.out, counts, m) =>
                         Settled(s.in, s.out, counts, RequestChannels(s, m, n))
    BY <2>2, RequestsKeep
  <2> QED
    BY <1>1, <1>2, <1>3, <2>1, <2>2, <2>3 DEF Configured
<1>4. CASE ~r.asked
  <2>1. r.manager = m
    BY <1>2, <1>4
  <2> QED
    BY <1>1, <1>2, <1>4, <2>1 DEF Configured
<1> QED
  BY <1>3, <1>4

\* What the node starts a tick with: NodeInv, with the counts of each kind of node.
LEMMA TickScans ==
  ASSUME NodeTypeOK, CountsInv, NEW counts \in [DOMAIN inlet -> Counts]
  PROVE  Scanned(shape, manager, counts, Scan(shape, manager, counts))
<1>1. /\ shape \in Shapes /\ counts \in [DOMAIN shape.in -> Counts]
      /\ manager \in ManagersOf(shape) /\ shape.node \in {"mono", "bus", "native"}
  BY ShapesAssumption DEF NodeTypeOK
<1>2. CASE shape.node = "mono"
  BY <1>1, <1>2, ScanMonoKeeps DEF CountsInv
<1>3. CASE shape.node = "bus"
  BY <1>1, <1>3, ScanBusKeeps DEF CountsInv
<1>4. CASE shape.node = "native"
  BY <1>1, <1>4, ScanNativeKeeps
<1> QED
  BY <1>1, <1>2, <1>3, <1>4

\* The instances after a tick that gave values to the controls in P.
Run(container, storage, new) ==
  SmoothedEffect(SetControls(container, [p \in DOMAIN new \ Smoothed |-> new[p]]),
                 Targets(storage, new))

RanWith(container, P, new, r) ==
  /\ r \in Seq(Instance) /\ Len(r) = Len(container)
  /\ \A i \in DOMAIN container :
       /\ r[i].prepared = container[i].prepared
       /\ \A p \in Plain : r[i].inputs[p] =
            IF p \in P THEN new[p] ELSE container[i].inputs[p]

LEMMA RunKeeps ==
  ASSUME NEW container \in Seq(Instance), NEW storage \in Storage,
         NEW P \in SUBSET Param, NEW new \in [P -> Value]
  PROVE  RanWith(container, P, new, Run(container, storage, new))
<1> DEFINE plain == [p \in P \ Smoothed |-> new[p]]
           set == SetControls(container, plain)
           ran == SmoothedEffect(set, Targets(storage, new))
<1>1. plain \in [P \ Smoothed -> Value] /\ P \ Smoothed \in SUBSET Param
  OBVIOUS
<1>2. \A p \in P \ Smoothed : plain[p] = new[p]
  OBVIOUS
<1> HIDE DEF plain
<1>3. /\ set \in Seq(Instance) /\ Len(set) = Len(container)
      /\ \A i \in DOMAIN container :
           /\ set[i].inputs = Changed(container[i].inputs, plain)
           /\ set[i].prepared = container[i].prepared
  BY <1>1, SetControlsKeeps
<1>4. DOMAIN set = DOMAIN container
  BY <1>3, LenProperties
<1>5. Targets(storage, new) \in Storage
  BY TargetsType
<1> HIDE DEF set
<1>6. /\ ran \in Seq(Instance) /\ Len(ran) = Len(set)
      /\ \A i \in DOMAIN set : /\ ran[i].prepared = set[i].prepared
                               /\ \A p \in Plain : ran[i].inputs[p] = set[i].inputs[p]
  BY <1>3, <1>5, SmoothedEffectKeeps
<1>7. \A i \in DOMAIN container, p \in Plain : Changed(container[i].inputs, plain)[p] =
        IF p \in P THEN new[p] ELSE container[i].inputs[p]
  <2> SUFFICES ASSUME NEW i \in DOMAIN container, NEW p \in Plain
               PROVE  Changed(container[i].inputs, plain)[p] =
                        IF p \in P THEN new[p] ELSE container[i].inputs[p]
    OBVIOUS
  <2>1. container[i].inputs \in Inputs
    BY InstanceInputs
  <2>2. p \in Param /\ (p \in P \ Smoothed <=> p \in P)
    BY DEF Plain
  <2> DEFINE Q == P \ Smoothed
             inputs == container[i].inputs
  <2>3. Q \in SUBSET Param /\ plain \in [Q -> Value] /\ inputs \in Inputs
    BY <1>1, <2>1
  <2>4. (p \in Q <=> p \in P) /\ (p \notin P => p \in Param \ Q)
    BY <2>2
  <2> HIDE DEF Q, inputs
  <2>5. /\ \A q \in Q : Changed(inputs, plain)[q] = plain[q]
        /\ \A q \in Param \ Q : Changed(inputs, plain)[q] = inputs[q]
    BY <2>3, ChangedControls
  <2> QED
    BY <1>2, <2>4, <2>5 DEF Q, inputs
<1> HIDE DEF ran
<1>8. /\ ran \in Seq(Instance) /\ Len(ran) = Len(container)
      /\ \A i \in DOMAIN container :
           /\ ran[i].prepared = container[i].prepared
           /\ \A p \in Plain : ran[i].inputs[p] =
                IF p \in P THEN new[p] ELSE container[i].inputs[p]
  BY <1>3, <1>4, <1>6, <1>7
<1>9. Run(container, storage, new) = ran
  BY DEF Run, ran, set, plain
<1> QED
  BY <1>8, <1>9 DEF RanWith

\* The buffer the node has after a tick of that length.
LEMMA SizeType ==
  ASSUME NEW length \in Lengths, buffer_size \in Nat \ {0}
  PROVE  (IF length > buffer_size THEN length ELSE buffer_size) \in Nat \ {0}
BY OssiaAssumption

\* A tick in parts: what it reads and computes, in the order of run().
TickParts(counts, length, new, scan, size, changed, conf, after, ran, asks) ==
  /\ scan = Scan(shape, manager, counts)
  /\ size = IF length > buffer_size THEN length ELSE buffer_size
  /\ changed = (scan.changed \/ length > buffer_size \/ audio_channels_changed)
  /\ conf = IF changed THEN Configure(shape, effect, scan.manager, size)
            ELSE [effect |-> effect, manager |-> scan.manager, asked |-> FALSE]
  /\ after = IF shape.node = "native"
             THEN FollowPorts(shape, conf.manager, counts) ELSE conf.manager
  /\ ran = Run(conf.effect, smoothed_inputs, new)
  /\ asks = AsksInRun(shape, after, ran)
  /\ effect' = ran
  /\ manager' = IF asks THEN RequestChannels(shape, after, ran[1].inputs[Asker]) ELSE after
  /\ inlet' = scan.inlet
  /\ outlet' = IF shape.node = "native" THEN after.portOut ELSE scan.outlet
  /\ buffer_size' = size
  /\ audio_channels_changed' = (conf.asked \/ asks)
  /\ smoothed_inputs' = SmoothedStorage(ran, Targets(smoothed_inputs, new))
  /\ inputs_set' = {}
  /\ ins_queue' = IF inputs_set \cup DOMAIN new = {} THEN ins_queue
                  ELSE Append(ins_queue, Report(inputs_set \cup DOMAIN new, ran))
  /\ reconfigured' = changed
  /\ delivered' = counts
  /\ outlet_frames' = IF shape.node = "native" THEN size ELSE buffer_size
  /\ UNCHANGED <<shape, shown, running>>

LEMMA TickHasParts ==
  ASSUME NEW counts, NEW length, NEW new, Tick(counts, length, new)
  PROVE  \E scan, size, changed, conf, after, ran, asks :
           TickParts(counts, length, new, scan, size, changed, conf, after, ran, asks)
<1> DEFINE scan == Scan(shape, manager, counts)
           size == IF length > buffer_size THEN length ELSE buffer_size
           changed == scan.changed \/ length > buffer_size \/ audio_channels_changed
           conf == IF changed THEN Configure(shape, effect, scan.manager, size)
                   ELSE [effect |-> effect, manager |-> scan.manager, asked |-> FALSE]
           after == IF shape.node = "native"
                    THEN FollowPorts(shape, conf.manager, counts) ELSE conf.manager
           plain == [p \in DOMAIN new \ Smoothed |-> new[p]]
           ran == SmoothedEffect(SetControls(conf.effect, plain),
                                 Targets(smoothed_inputs, new))
           asks == AsksInRun(shape, after, ran)
<1>1. TickParts(counts, length, new, scan, size, changed, conf, after, ran, asks)
  BY Zenon DEF Tick, TickParts, Run
<1> QED
  BY <1>1, Zenon

\* A tick keeps the invariant, and is quiet when the graph has changed nothing.
LEMMA TickKeeps ==
  ASSUME NodeInv, NEW counts \in [DOMAIN inlet -> Counts], NEW length \in Lengths,
         NEW P \in SUBSET Param, NEW new \in [P -> Value], Tick(counts, length, new)
  PROVE  /\ NodeInv'
         /\ /\ delivered' = delivered /\ buffer_size' = buffer_size
            /\ ~audio_channels_changed /\ ~Mixed(shape)
            => ~reconfigured'
<1>1. PICK scan, size, changed, conf, after, ran, asks :
        TickParts(counts, length, new, scan, size, changed, conf, after, ran, asks)
  BY TickHasParts
<1>2. /\ NodeTypeOK /\ CountsInv /\ ReportsInv /\ PreparedOrPending /\ running
      /\ shape \in Shapes /\ shape.node \in {"mono", "bus", "native"}
      /\ manager \in ManagersOf(shape) /\ effect \in Seq(Instance) /\ effect # <<>>
      /\ smoothed_inputs \in Storage /\ buffer_size \in Nat \ {0}
      /\ counts \in [DOMAIN shape.in -> Counts] /\ counts \in [DOMAIN shape.in -> Nat]
      /\ 1 \in DOMAIN shape.in /\ counts[1] \in Nat \ {0}
  BY ShapesAssumption, CountsType DEF NodeInv, NodeTypeOK, Tick
<1>3. Scanned(shape, manager, counts, scan)
  BY <1>1, <1>2, TickScans DEF TickParts
<1>4. size \in Nat \ {0}
  BY <1>1, <1>2, SizeType DEF TickParts
<1>5. /\ changed = (scan.changed \/ length > buffer_size \/ audio_channels_changed)
      /\ scan.manager \in ManagersOf(shape)
      /\ scan.manager.ins \in Nat /\ scan.manager.outs \in Nat
      /\ shape.node = "mono" =>
           scan.manager.ins > 0 /\ scan.manager.outs = scan.manager.ins
  BY <1>1, <1>2, <1>3, ManagersType DEF TickParts, Scanned
<1>6. Configured(shape, effect, scan.manager, size, conf)
  <2>1. CASE changed
    BY <1>1, <1>2, <1>4, <1>5, <2>1, ConfigureConfigures DEF TickParts
  <2>2. CASE ~changed
    <3>1. /\ ~scan.changed /\ ~audio_channels_changed /\ size = buffer_size
          /\ conf = [effect |-> effect, manager |-> scan.manager, asked |-> FALSE]
      BY <1>1, <1>5, <2>2 DEF TickParts
    <3>2. scan.manager.ins = manager.ins /\ scan.manager.outs = manager.outs
      BY <1>3, <3>1 DEF Scanned
    <3>3. AllPrepared(effect, SetupId(scan.manager.ins, scan.manager.outs, size))
      BY <1>2, <3>1, <3>2 DEF PreparedOrPending
    <3>4. shape.node = "mono" => Len(effect) = scan.manager.ins
      BY <1>2, <3>2 DEF CountsInv
    <3> QED
      BY <1>2, <1>5, <3>1, <3>3, <3>4 DEF Configured
  <2> QED
    BY <2>1, <2>2
<1>7. /\ conf.effect \in Seq(Instance) /\ conf.effect # <<>>
      /\ conf.manager \in ManagersOf(shape) /\ conf.asked \in BOOLEAN
      /\ ~conf.asked => conf.manager = scan.manager
      /\ conf.manager.in = scan.manager.in
  BY <1>6 DEF Configured
<1>8. /\ after \in ManagersOf(shape)
      /\ shape.node # "native" => after = conf.manager
      /\ shape.node = "native" => after = FollowPorts(shape, conf.manager, counts)
      /\ after.ins = conf.manager.ins /\ after.outs = conf.manager.outs
  <2>1. CASE shape.node = "native"
    <3>1. after = FollowPorts(shape, conf.manager, counts) /\ shape.node # "mono"
      BY <1>1, <2>1 DEF TickParts
    <3> QED
      BY <1>2, <1>7, <2>1, <3>1, FollowPortsKeeps
  <2>2. CASE shape.node # "native"
    BY <1>1, <1>7, <2>2 DEF TickParts
  <2> QED
    BY <2>1, <2>2
<1>9. DOMAIN new = P
  OBVIOUS
<1>10. /\ ran \in Seq(Instance) /\ Len(ran) = Len(conf.effect)
       /\ \A i \in DOMAIN conf.effect :
            /\ ran[i].prepared = conf.effect[i].prepared
            /\ \A p \in Plain : ran[i].inputs[p] =
                 IF p \in P THEN new[p] ELSE conf.effect[i].inputs[p]
  <2>1. ran = Run(conf.effect, smoothed_inputs, new)
    BY <1>1 DEF TickParts
  <2>2. RanWith(conf.effect, P, new, ran)
    BY <1>2, <1>7, <2>1, RunKeeps
  <2> QED
    BY <2>2 DEF RanWith
<1>11. /\ ran # <<>> /\ DOMAIN ran = DOMAIN conf.effect /\ 1 \in DOMAIN ran
       /\ ran[1].inputs \in Inputs /\ ran[1].inputs[Asker] \in Nat
  <2>1. DOMAIN ran = DOMAIN conf.effect /\ 1 \in DOMAIN ran /\ ran # <<>>
    BY <1>7, <1>10, FirstInstance, LenProperties, EmptySeq
  <2>2. ran[1].inputs \in Inputs
    BY <1>10, <2>1, InstanceInputs
  <2>3. ran[1].inputs[Asker] \in Nat
    BY <2>2, OssiaAssumption DEF Inputs
  <2> QED
    BY <2>1, <2>2, <2>3
<1>12. /\ asks \in BOOLEAN
       /\ asks => shape.asks # "never"
  BY <1>1 DEF TickParts, AsksInRun
<1>13. /\ effect' = ran /\ buffer_size' = size /\ inputs_set' = {}
       /\ audio_channels_changed' = (conf.asked \/ asks)
       /\ reconfigured' = changed /\ delivered' = counts /\ inlet' = scan.inlet
       /\ shape' = shape /\ shown' = shown /\ running' = running
       /\ ~asks => manager' = after
       /\ asks => manager' = RequestChannels(shape, after, ran[1].inputs[Asker])
  BY <1>1 DEF TickParts
<1>14. /\ manager' \in ManagersOf(shape)
       /\ ~audio_channels_changed' => manager' = after /\ conf.manager = scan.manager
  BY <1>2, <1>7, <1>8, <1>11, <1>12, <1>13, RequestsKeep
<1>15. NodeTypeOK'
  <2>1. Targets(smoothed_inputs, new) \in Storage
    BY <1>2, TargetsType
  <2>2. smoothed_inputs' \in Storage
    BY <1>1, <1>10, <2>1, SmoothedStorageType DEF TickParts
  <2>3. ins_queue' \in Seq(Inputs)
    <3>1. ins_queue \in Seq(Inputs)
      BY <1>2 DEF NodeTypeOK
    <3>2. ins_queue' = ins_queue \/ ins_queue' = Append(ins_queue, ran[1].inputs)
      BY <1>1 DEF TickParts, Report
    <3> QED
      BY <1>11, <3>1, <3>2, AppendProperties
  <2>4. outlet_frames' \in Nat
    BY <1>1, <1>2, <1>4 DEF TickParts
  <2>5. DOMAIN inlet' = DOMAIN shape.in
    BY <1>3, <1>13 DEF Scanned
  <2> QED
    BY <1>2, <1>4, <1>7, <1>10, <1>11, <1>12, <1>13, <1>14, <2>2, <2>3, <2>4, <2>5
    DEF NodeTypeOK
<1>16. PreparedOrPending'
  <2> SUFFICES ASSUME ~audio_channels_changed'
               PROVE  AllPrepared(effect', SetupId(manager'.ins, manager'.outs, buffer_size'))
    BY DEF PreparedOrPending
  <2>1. manager'.ins = scan.manager.ins /\ manager'.outs = scan.manager.outs
    BY <1>8, <1>14
  <2>2. AllPrepared(conf.effect, SetupId(scan.manager.ins, scan.manager.outs, size))
    BY <1>6 DEF Configured
  <2> QED
    BY <1>10, <1>11, <1>13, <2>1, <2>2 DEF AllPrepared
<1>17. CountsInv'
  <2>1. CASE shape.node = "mono"
    <3>1. ~asks /\ shape.node # "native"
      BY <1>2, <1>12, <2>1, ShapesAssumption
    <3>2. manager' = scan.manager
      BY <1>6, <1>8, <1>13, <2>1, <3>1 DEF Configured
    <3>3. /\ scan.manager.ins = counts[1] /\ scan.manager.outs = counts[1]
          /\ scan.inlet = <<counts[1]>> /\ scan.outlet = <<counts[1]>>
      BY <1>3, <2>1 DEF Scanned
    <3>4. outlet' = scan.outlet
      BY <1>1, <3>1 DEF TickParts
    <3>5. Len(effect') = scan.manager.ins
      BY <1>6, <1>10, <1>13, <2>1 DEF Configured
    <3> QED
      BY <1>13, <2>1, <3>2, <3>3, <3>4, <3>5 DEF CountsInv
  <2>2. CASE shape.node = "bus"
    <3>1. shape.node # "native" /\ shape.node # "mono"
      BY <2>2
    <3>2. /\ Sound(shape.in, shape.out, scan.manager)
          /\ Settled(shape.in, shape.out, counts, scan.manager)
          /\ scan.inlet = scan.manager.in /\ scan.outlet = scan.manager.out
      BY <1>3, <2>2 DEF Scanned
    <3>3. /\ Sound(shape.in, shape.out, conf.manager)
          /\ Settled(shape.in, shape.out, counts, conf.manager)
      BY <1>6, <2>2, <3>2 DEF Configured
    <3>4. outlet' = scan.outlet /\ after = conf.manager
      BY <1>1, <3>1 DEF TickParts
    <3>5. /\ Sound(shape.in, shape.out, manager')
          /\ Settled(shape.in, shape.out, counts, manager')
          /\ manager'.in = scan.manager.in
        <4>1. CASE asks
        <5> DEFINE n == ran[1].inputs[Asker]
                   asked == RequestChannels(shape, after, n)
        <5>1. n \in Nat /\ shape.asks # "never" /\ manager' = asked
          BY <1>11, <1>12, <1>13, <4>1
        <5> HIDE DEF n
        <5>2. /\ asked.in = after.in
              /\ Sound(shape.in, shape.out, after) => Sound(shape.in, shape.out, asked)
              /\ \A c : Settled(shape.in, shape.out, c, after) =>
                          Settled(shape.in, shape.out, c, asked)
          BY <1>2, <1>8, <5>1, RequestsKeep
        <5> HIDE DEF asked
        <5> QED
          BY <1>7, <3>3, <3>4, <5>1, <5>2
      <4>2. CASE ~asks
        BY <1>7, <1>13, <3>3, <3>4, <4>2
      <4> QED
        BY <1>12, <4>1, <4>2
    <3>6. ~audio_channels_changed' => outlet' = manager'.out
      BY <1>14, <3>2, <3>4
    <3> QED
      BY <1>13, <2>2, <3>2, <3>5, <3>6 DEF CountsInv
  <2>3. CASE shape.node = "native"
    <3>1. shape.node # "mono"
      BY <2>3
    <3>2. running' /\ outlet' = after.portOut
      BY <1>1, <1>2, <1>13, <2>3 DEF TickParts
    <3>3. scan.manager = FollowPorts(shape, manager, counts) /\ scan.inlet = scan.manager.portIn
      BY <1>3, <2>3 DEF Scanned
    <3> DEFINE follow(m) == FollowPorts(shape, m, counts)
    <3>4. scan.manager.portIn = after.portIn
      <4>1. follow(manager).portIn = [k \in DOMAIN shape.in |->
              IF shape.in[k].type = "fixed" THEN shape.in[k].n ELSE counts[k]]
        BY <1>2, <3>1, FollowPortsKeeps
      <4>2. follow(conf.manager).portIn = [k \in DOMAIN shape.in |->
              IF shape.in[k].type = "fixed" THEN shape.in[k].n ELSE counts[k]]
        BY <1>2, <1>7, <3>1, FollowPortsKeeps
      <4> QED
        BY <1>8, <2>3, <3>3, <4>1, <4>2
    <3>5. /\ DOMAIN after.portOut = DOMAIN shape.out
          /\ \A k \in DOMAIN shape.out : shape.out[k].type = "mimic" =>
               after.portOut[k] = after.portIn[shape.out[k].n]
      <4> DEFINE m == conf.manager
                 r == FollowPorts(shape, m, counts)
      <4>1. after = r /\ m \in ManagersOf(shape)
        BY <1>7, <1>8, <2>3
      <4> HIDE DEF m
      <4>2. /\ DOMAIN r.portOut = DOMAIN shape.out
            /\ \A k \in DOMAIN shape.out : shape.out[k].type = "mimic" =>
                 r.portOut[k] = r.portIn[shape.out[k].n]
        BY <1>2, <3>1, <4>1, FollowPortsKeeps
      <4> HIDE DEF r
      <4> QED
        BY <4>1, <4>2
    <3>6. (\A k \in DOMAIN outlet : Follows(k))'
      BY <1>13, <3>2, <3>3, <3>4, <3>5 DEF Follows, Mimics
    <3> QED
      BY <1>13, <1>14, <2>3, <3>2, <3>3, <3>4, <3>6 DEF CountsInv
  <2> QED
    BY <1>2, <2>1, <2>2, <2>3
<1>18. ReportsInv'
  <2>1. \A i \in DOMAIN conf.effect : \E j \in DOMAIN effect :
          conf.effect[i].inputs = effect[j].inputs
    BY <1>6 DEF Configured
  <2>2. \A i, j \in DOMAIN effect, p \in Plain : effect[i].inputs[p] = effect[j].inputs[p]
    BY <1>2 DEF ReportsInv
  <2>3. \A i, j \in DOMAIN conf.effect, p \in Plain :
          conf.effect[i].inputs[p] = conf.effect[j].inputs[p]
    BY <2>1, <2>2
  <2>4. \A i, j \in DOMAIN ran, p \in Plain : ran[i].inputs[p] = ran[j].inputs[p]
    BY <1>10, <1>11, <2>3
  <2>5. \A p \in Plain : LastReport'[p] = ran[1].inputs[p]
    <3>1. CASE inputs_set \cup DOMAIN new = {}
      <4>1. ins_queue' = ins_queue /\ P = {} /\ inputs_set = {}
        BY <1>1, <1>9, <3>1 DEF TickParts
      <4>2. LastReport' = LastReport
        BY <1>13, <4>1 DEF LastReport
      <4>3. \A p \in Plain : LastReport[p] = effect[1].inputs[p]
        BY <1>2, <4>1 DEF ReportsInv
      <4>4. conf.effect[1].inputs = effect[1].inputs
        BY <1>6, <1>11 DEF Configured
      <4> QED
        BY <1>10, <1>11, <4>1, <4>2, <4>3, <4>4
    <3>2. CASE inputs_set \cup DOMAIN new # {}
      <4>1. ins_queue' = Append(ins_queue, ran[1].inputs) /\ ins_queue \in Seq(Inputs)
        BY <1>1, <1>2, <3>2 DEF TickParts, Report, NodeTypeOK
      <4>2. ins_queue' # <<>> /\ ins_queue'[Len(ins_queue')] = ran[1].inputs
        BY <1>11, <4>1, AppendProperties, EmptySeq
      <4> QED
        BY <4>2 DEF LastReport
    <3> QED
      BY <3>1, <3>2
  <2> QED
    BY <1>13, <2>4, <2>5 DEF ReportsInv
<1>19. ASSUME delivered' = delivered, buffer_size' = buffer_size,
              ~audio_channels_changed, ~Mixed(shape)
       PROVE  ~reconfigured'
  <2>1. length \in Nat /\ ~(length > buffer_size)
    <3>1. length \in Nat /\ buffer_size \in Nat
      BY <1>2, OssiaAssumption
    <3>2. size = IF length > buffer_size THEN length ELSE buffer_size
      BY <1>1 DEF TickParts
    <3>3. size = buffer_size
      BY <1>13, <1>19
    <3> QED
      BY <3>1, <3>2, <3>3
  <2>2. counts = delivered
    BY <1>13, <1>19
  <2>3. ~scan.changed
    BY <1>2, <1>3, <1>19, <2>2 DEF CountsInv, Scanned
  <2> QED
    BY <1>5, <1>13, <1>19, <2>1, <2>3
<1> QED
  BY <1>2, <1>13, <1>15, <1>16, <1>17, <1>18, <1>19 DEF NodeInv

\* The constructor and finish_init().
LEMMA ConstructedManagerType ==
  ASSUME NEW s \in Shapes
  PROVE  /\ ConstructedManager(s) \in ManagersOf(s)
         /\ s.node = "mono" =>
              ConstructedManager(s).ins = 2 /\ ConstructedManager(s).outs = 2
         /\ s.node # "mono" => Sound(s.in, s.out, ConstructedManager(s))
<1>1. CASE s.node = "mono"
  <2>1. ConstructedManager(s) = SetMonoChannels(NewManager(<<>>, <<>>), 2)
    BY <1>1 DEF ConstructedManager
  <2> DEFINE none == InitialCounts(<<>>)
             total == Total(none)
  <2>2. NewManager(<<>>, <<>>) = [in |-> none, out |-> none, portIn |-> none,
                                  portOut |-> none, ins |-> total, outs |-> total]
    BY DEF NewManager
  <2> HIDE DEF none, total
  <2>3. ConstructedManager(s) = [NewManager(<<>>, <<>>) EXCEPT !.ins = 2, !.outs = 2]
    BY <2>1 DEF SetMonoChannels
  <2>4. NewManager(<<>>, <<>>) \in [in : {none}, out : {none}, portIn : {none},
                                    portOut : {none}, ins : {total}, outs : {total}]
    BY <2>2
  <2>5. /\ ConstructedManager(s) \in [in : {none}, out : {none}, portIn : {none},
                                      portOut : {none}, ins : Nat, outs : Nat]
        /\ ConstructedManager(s).ins = 2 /\ ConstructedManager(s).outs = 2
    <3>1. ASSUME NEW m \in [in : {none}, out : {none}, portIn : {none},
                            portOut : {none}, ins : {total}, outs : {total}]
          PROVE  /\ [m EXCEPT !.ins = 2, !.outs = 2] \in
                      [in : {none}, out : {none}, portIn : {none},
                       portOut : {none}, ins : Nat, outs : Nat]
                 /\ [m EXCEPT !.ins = 2, !.outs = 2].ins = 2
                 /\ [m EXCEPT !.ins = 2, !.outs = 2].outs = 2
      OBVIOUS
    <3> QED
      BY <2>3, <2>4, <3>1, Zenon
  <2> QED
    BY <1>1, <2>5 DEF ManagersOf, MonoManagers, none
<1>2. CASE s.node # "mono"
  BY <1>2, ConstructedSound, ShapesAssumption DEF ManagersOf, Sound
<1> QED
  BY <1>1, <1>2

\* A container that has been made for a kind of node, initialized.
LEMMA InitialInstances ==
  ASSUME NEW s \in Shapes, NEW m \in ManagersOf(s), s.node = "mono" => m.ins > 0,
         NEW one, one = IF s.node = "mono" THEN <<>> ELSE <<NewInstance>>
  PROVE  /\ InitControls(WireFallbacks(Instances(s, one, m))) \in Seq(Instance)
         /\ InitControls(WireFallbacks(Instances(s, one, m))) # <<>>
         /\ \A i \in DOMAIN InitControls(WireFallbacks(Instances(s, one, m))) :
              InitControls(WireFallbacks(Instances(s, one, m)))[i].inputs =
                [p \in Param |-> RangeInit]
<1> DEFINE made == Instances(s, one, m)
           wired == WireFallbacks(made)
           init == InitControls(wired)
<1> HIDE DEF made
<1>1. made \in Seq(Instance) /\ Len(made) > 0
  <2>1. CASE s.node = "mono"
    <3>1. made = InitChannels(<<>>, m.ins, m.outs) /\ <<>> \in Seq(Instance)
      BY <2>1 DEF Instances, made
    <3>2. m.ins \in Nat /\ m.outs \in Nat
      BY ManagersType
    <3>3. made \in Seq(Instance) /\ Len(made) = Larger(m.ins, m.outs)
      BY <3>1, <3>2, InitChannelsType
    <3>4. m.ins > 0 /\ Larger(m.ins, m.outs) >= m.ins /\ Larger(m.ins, m.outs) \in Nat
      BY <2>1, <3>2, LargerType
    <3> QED
      BY <3>2, <3>3, <3>4
  <2>2. CASE s.node # "mono"
    <3>1. made = <<NewInstance>>
      BY <2>2 DEF Instances, made
    <3> QED
      BY <3>1, NewInstanceType
  <2> QED
    BY <2>1, <2>2
<1>2. wired \in Seq(Instance) /\ Len(wired) = Len(made)
  BY <1>1, WireFallbacksKeeps
<1> HIDE DEF wired
<1>3. /\ init \in Seq(Instance) /\ Len(init) = Len(wired)
      /\ \A i \in DOMAIN wired : init[i].inputs = [p \in Param |-> RangeInit]
  BY <1>2, InitControlsKeeps
<1> HIDE DEF init
<1>4. init # <<>> /\ DOMAIN init = DOMAIN wired
  BY <1>1, <1>2, <1>3, EmptySeq, LenProperties
<1> QED
  BY <1>3, <1>4 DEF init, wired, made

LEMMA InitKeeps == Init => NodeInv
<1> SUFFICES ASSUME Init PROVE NodeInv
  OBVIOUS
<1>1. shape \in Shapes /\ shape.node \in {"mono", "bus", "native"}
  BY ShapesAssumption DEF Init
<1> DEFINE made == ConstructedManager(shape)
           one == IF shape.node = "mono" THEN <<>> ELSE <<NewInstance>>
<1>2. PICK counts \in [DOMAIN shape.in -> Counts] :
        /\ delivered = counts
        /\ effect = InitControls(WireFallbacks(Instances(shape, one, made)))
        /\ manager = IF shape.node = "native" THEN made
                     ELSE Scan(shape, made, counts).manager
        /\ inlet = IF shape.node = "native" THEN counts
                   ELSE Scan(shape, made, counts).inlet
        /\ outlet = IF shape.node = "native" THEN [k \in DOMAIN shape.out |-> 0]
                    ELSE Scan(shape, made, counts).outlet
  BY DEF Init
<1>3. /\ made \in ManagersOf(shape)
      /\ shape.node = "mono" => made.ins = 2 /\ made.outs = 2
      /\ shape.node # "mono" => Sound(shape.in, shape.out, made)
  BY <1>1, ConstructedManagerType
<1> HIDE DEF made
<1>4. shape.node # "native" => Scanned(shape, made, counts, Scan(shape, made, counts))
  <2>1. CASE shape.node = "mono"
    BY <1>1, <1>3, <2>1, ScanMonoKeeps
  <2>2. CASE shape.node = "bus"
    BY <1>1, <1>3, <2>2, ScanBusKeeps
  <2> QED
    BY <1>1, <2>1, <2>2
<1>5. /\ effect \in Seq(Instance) /\ effect # <<>>
      /\ \A i \in DOMAIN effect : effect[i].inputs = [p \in Param |-> RangeInit]
  <2>1. shape.node = "mono" => made.ins > 0
    BY <1>3
  <2> QED
    BY <1>1, <1>2, <1>3, <2>1, InitialInstances
<1>6. 1 \in DOMAIN effect /\ effect[1].inputs \in Inputs
  BY <1>5, FirstInstance, InstanceInputs
<1>7. /\ buffer_size = BufferSize
      /\ outlet_frames = IF shape.node = "native" THEN 0 ELSE BufferSize
      /\ audio_channels_changed = FALSE /\ running = FALSE /\ inputs_set = {}
      /\ ins_queue = <<>> /\ shown = effect[1].inputs
      /\ smoothed_inputs = [p \in Smoothed |-> [current |-> 0, target |-> 0]]
  BY DEF Init
<1>8. NodeTypeOK
  <2>1. 0 \in Value
    BY OssiaAssumption, ContainerAssumption
  <2>2. smoothed_inputs \in Storage
    BY <1>7, <2>1 DEF Storage
  <2>3. manager \in ManagersOf(shape) /\ DOMAIN inlet = DOMAIN shape.in
    BY <1>2, <1>3, <1>4 DEF Scanned
  <2>4. ins_queue \in Seq(Inputs)
    BY <1>7
  <2> QED
    BY <1>1, <1>2, <1>5, <1>6, <1>7, <2>2, <2>3, <2>4, OssiaAssumption DEF NodeTypeOK
<1>9. CountsInv
  BY <1>1, <1>2, <1>4, <1>7 DEF CountsInv, Scanned, SettledPorts
<1>10. ReportsInv
  BY <1>5, <1>6, <1>7 DEF ReportsInv, LastReport
<1> QED
  BY <1>7, <1>8, <1>9, <1>10 DEF NodeInv, PreparedOrPending

LEMMA ConfigurationChangedKeeps ==
  ASSUME NodeInv, ConfigurationChanged
  PROVE  NodeInv'
<1> DEFINE conf == Configure(shape, effect, manager, buffer_size)
<1>1. /\ effect' = conf.effect /\ manager' = conf.manager
      /\ audio_channels_changed' = conf.asked /\ running' = TRUE /\ ~running
      /\ UNCHANGED <<shape, inlet, outlet, outlet_frames, buffer_size, smoothed_inputs,
                     inputs_set, ins_queue, shown, edits, delivered, parity, reconfigured>>
  BY DEF ConfigurationChanged
<1>2. /\ NodeTypeOK /\ CountsInv /\ ReportsInv /\ ~audio_channels_changed
      /\ shape \in Shapes /\ shape.node \in {"mono", "bus", "native"}
      /\ manager \in ManagersOf(shape) /\ effect \in Seq(Instance) /\ effect # <<>>
      /\ buffer_size \in Nat /\ delivered \in [DOMAIN shape.in -> Counts]
  BY <1>1, ShapesAssumption DEF NodeInv, NodeTypeOK
<1>3. shape.node = "mono" => manager.ins > 0 /\ manager.outs = manager.ins
  BY <1>2, CountsType DEF CountsInv
<1>4. Configured(shape, effect, manager, buffer_size, conf)
  BY <1>2, <1>3, ConfigureConfigures
<1> HIDE DEF conf
<1>5. /\ conf.effect \in Seq(Instance) /\ conf.effect # <<>>
      /\ conf.manager \in ManagersOf(shape) /\ conf.asked \in BOOLEAN
      /\ ~conf.asked => conf.manager = manager
      /\ conf.manager.in = manager.in
  BY <1>4 DEF Configured
<1>6. NodeTypeOK'
  BY <1>1, <1>2, <1>5 DEF NodeTypeOK
<1>7. PreparedOrPending'
  <2>1. AllPrepared(conf.effect, SetupId(manager.ins, manager.outs, buffer_size))
    BY <1>4 DEF Configured
  <2> QED
    BY <1>1, <1>5, <2>1 DEF PreparedOrPending
<1>8. CountsInv'
  <2>1. CASE shape.node = "mono"
    BY <1>1, <1>2, <1>4, <2>1 DEF CountsInv, Configured
  <2>2. CASE shape.node = "bus"
    BY <1>1, <1>2, <1>4, <1>5, <2>2 DEF CountsInv, Configured
  <2>3. CASE shape.node = "native"
    <3>1. outlet_frames' = 0
      BY <1>1, <1>2, <2>3 DEF CountsInv
    <3>2. ~SettledPorts'
      BY <3>1 DEF SettledPorts
    <3> QED
      BY <1>1, <2>3, <3>1, <3>2 DEF CountsInv
  <2> QED
    BY <1>2, <2>1, <2>2, <2>3
<1>9. ReportsInv'
  <2>1. \A i \in DOMAIN conf.effect :
          /\ \E j \in DOMAIN effect : conf.effect[i].inputs = effect[j].inputs
          /\ i = 1 => conf.effect[i].inputs = effect[1].inputs
    BY <1>4 DEF Configured
  <2>2. \A i, j \in DOMAIN effect, p \in Plain : effect[i].inputs[p] = effect[j].inputs[p]
    BY <1>2 DEF ReportsInv
  <2>3. \A i, j \in DOMAIN conf.effect, p \in Plain :
          conf.effect[i].inputs[p] = conf.effect[j].inputs[p]
    BY <2>1, <2>2
  <2>4. conf.effect[1].inputs = effect[1].inputs
    BY <1>5, <2>1, FirstInstance
  <2>5. LastReport' = LastReport
    BY <1>1 DEF LastReport
  <2> QED
    BY <1>1, <1>2, <2>3, <2>4, <2>5 DEF ReportsInv
<1> QED
  BY <1>1, <1>6, <1>7, <1>8, <1>9 DEF NodeInv

LEMMA ControlUpdatedKeeps ==
  ASSUME NodeInv, NEW p \in Param, NEW v \in Value, ControlUpdatedFromUi(p, v)
  PROVE  NodeInv'
<1> DEFINE new == [q \in {p} |-> v]
<1>1. /\ effect' = SetControls(effect, new) /\ inputs_set' = inputs_set \cup {p}
      /\ UNCHANGED <<shape, manager, inlet, outlet, outlet_frames, buffer_size,
                     audio_channels_changed, smoothed_inputs, running, ins_queue, shown,
                     delivered, parity>>
  BY DEF ControlUpdatedFromUi
<1>2. NodeTypeOK /\ CountsInv /\ ReportsInv /\ PreparedOrPending /\ effect \in Seq(Instance)
      /\ (~running => ~audio_channels_changed)
  BY DEF NodeInv, NodeTypeOK
<1>3. new \in [{p} -> Value] /\ {p} \in SUBSET Param
  OBVIOUS
<1> HIDE DEF new
<1>4. /\ effect' \in Seq(Instance) /\ Len(effect') = Len(effect)
      /\ \A i \in DOMAIN effect : /\ effect'[i].inputs = Changed(effect[i].inputs, new)
                                  /\ effect'[i].prepared = effect[i].prepared
  BY <1>1, <1>2, <1>3, SetControlsKeeps
<1>5. DOMAIN effect' = DOMAIN effect /\ (effect # <<>> => effect' # <<>>)
  BY <1>2, <1>4, LenProperties, EmptySeq
<1>6. NodeTypeOK'
  BY <1>1, <1>2, <1>4, <1>5 DEF NodeTypeOK
<1>7. PreparedOrPending'
  BY <1>1, <1>2, <1>4, <1>5 DEF PreparedOrPending, AllPrepared
<1>8. CountsInv'
  <2>1. SettledPorts' = SettledPorts /\ (\A k \in DOMAIN outlet : Follows(k))' =
                                        (\A k \in DOMAIN outlet : Follows(k))
    BY <1>1 DEF SettledPorts, Follows, Mimics
  <2> QED
    BY <1>1, <1>2, <1>4, <2>1 DEF CountsInv
<1>9. ReportsInv'
  <2>1. \A i \in DOMAIN effect : effect[i].inputs \in Inputs
    BY <1>2, InstanceInputs
  <2>2. \A i \in DOMAIN effect, q \in Param :
          Changed(effect[i].inputs, new)[q] = IF q = p THEN new[q] ELSE effect[i].inputs[q]
    BY <1>3, <2>1, ChangedControls
  <2>3. Plain \subseteq Param
    BY DEF Plain
  <2>4. \A i, j \in DOMAIN effect', q \in Plain : effect'[i].inputs[q] = effect'[j].inputs[q]
    BY <1>2, <1>4, <1>5, <2>2, <2>3 DEF ReportsInv
  <2>5. inputs_set' # {}
    BY <1>1
  <2> QED
    BY <2>4, <2>5 DEF ReportsInv
<1> QED
  BY <1>1, <1>2, <1>6, <1>7, <1>8, <1>9 DEF NodeInv

\* A step that leaves the node as it is, and what the interface has or will have.
LEMMA ShowKeeps ==
  ASSUME NodeInv, Show \/ UNCHANGED vars
  PROVE  NodeInv'
<1>1. UNCHANGED nodeVars /\ UNCHANGED delivered
  BY DEF Show, vars
<1>2. NodeTypeOK /\ CountsInv /\ ReportsInv /\ PreparedOrPending
      /\ (~running => ~audio_channels_changed)
  BY DEF NodeInv
<1>3. /\ LastReport' = LastReport /\ ins_queue' \in Seq(Inputs) /\ shown' \in Inputs
  <2>1. ins_queue \in Seq(Inputs) /\ shown \in Inputs
    BY <1>2 DEF NodeTypeOK
  <2>2. CASE Show
    <3>1. Len(ins_queue) \in DOMAIN ins_queue
      BY <2>1, <2>2, EmptySeq, LenProperties DEF Show
    <3> QED
      BY <2>1, <2>2, <3>1, ElementOfSeq, LenProperties DEF Show, LastReport
  <2>3. CASE UNCHANGED vars
    BY <2>1, <2>3 DEF vars, LastReport
  <2> QED
    BY <2>2, <2>3
<1>4. NodeTypeOK'
  BY <1>1, <1>2, <1>3 DEF NodeTypeOK, nodeVars
<1>5. PreparedOrPending'
  BY <1>1, <1>2 DEF PreparedOrPending, nodeVars
<1>6. CountsInv'
  <2>1. SettledPorts' = SettledPorts /\ (\A k \in DOMAIN outlet : Follows(k))' =
                                        (\A k \in DOMAIN outlet : Follows(k))
    BY <1>1 DEF SettledPorts, Follows, Mimics, nodeVars
  <2> QED
    BY <1>1, <1>2, <2>1 DEF CountsInv, nodeVars
<1>7. ReportsInv'
  BY <1>1, <1>2, <1>3 DEF ReportsInv, nodeVars
<1> QED
  BY <1>1, <1>2, <1>4, <1>5, <1>6, <1>7 DEF NodeInv, nodeVars

\* The values of one tick, as RunKeeps and TickKeeps take them.
LEMMA PortValuesType ==
  ASSUME NEW new \in PortValues
  PROVE  \E P \in SUBSET Param : new \in [P -> Value]
BY DEF PortValues

LEMMA NextKeeps == NodeInv /\ [Next]_vars => NodeInv'
<1> SUFFICES ASSUME NodeInv, [Next]_vars PROVE NodeInv'
  OBVIOUS
<1>1. CASE ConfigurationChanged
  BY <1>1, ConfigurationChangedKeeps
<1>2. ASSUME NEW counts \in [DOMAIN inlet -> Counts], NEW length \in Lengths,
             NEW new \in PortValues, Tick(counts, length, new)
      PROVE  NodeInv'
  <2>1. PICK P \in SUBSET Param : new \in [P -> Value]
    BY PortValuesType
  <2> QED
    BY <1>2, <2>1, TickKeeps
<1>3. ASSUME NEW p \in Param, NEW v \in Value, ControlUpdatedFromUi(p, v)
      PROVE  NodeInv'
  BY <1>3, ControlUpdatedKeeps
<1>4. CASE Show \/ UNCHANGED vars
  BY <1>4, ShowKeeps
<1> QED
  BY <1>1, <1>2, <1>3, <1>4 DEF Next

LEMMA Invariance == Spec => []NodeInv
BY InitKeeps, NextKeeps, PTL DEF Spec

-----------------------------------------------------------------------------
(* The theorems                                                             *)

\* Whatever the processor, the graph and the interface do, every instance was
\* prepared for the channels and the buffer the node has, also those that were
\* added last, or a request is pending (node.hpp prepare_run()).
THEOREM InstancesPrepared == Spec => []PreparedOrPending
<1>1. NodeInv => PreparedOrPending
  BY DEF NodeInv
<1> QED
  BY <1>1, Invariance, PTL

\* When no request is pending the graph's ports, the processor's and the channel
\* manager agree on the channels of any number of busses, and the totals are
\* their sums (poly_audio_node.hpp, audio_channel_manager.hpp).
THEOREM ChannelsAgree == Spec => []PortsAgree
<1>1. NodeInv => PortsAgree
  <2> SUFFICES ASSUME NodeInv, SettledPorts, ~audio_channels_changed PROVE PortsAgree
    BY DEF PortsAgree
  <2>1. CountsInv /\ shape \in Shapes /\ shape.node \in {"mono", "bus", "native"}
    BY ShapesAssumption DEF NodeInv, NodeTypeOK
  <2>2. CASE shape.node = "mono"
    BY <2>1, <2>2 DEF CountsInv, PortsAgree, SettledPorts
  <2>3. CASE shape.node = "bus"
    <3>1. /\ Sound(shape.in, shape.out, manager) /\ inlet = manager.in /\ outlet = manager.out
      BY <2>1, <2>3 DEF CountsInv
    <3>2. /\ manager \in Summed(shape.in, shape.out) /\ manager.in = manager.portIn
          /\ DOMAIN outlet = DOMAIN shape.out
      BY <3>1 DEF Sound, Summed, Managers
    <3>3. DOMAIN shape.out = 1..Len(shape.out) /\ Len(shape.out) \in Nat
          /\ WellFormed(shape.in, shape.out)
      BY <2>1, ShapesAssumption, BussesType
    <3>4. \A k \in DOMAIN outlet :
            manager.out[k] = manager.portOut[k] \/ (k = 1 /\ Mimics(1) /\ Mimicked(1) # "dynamic")
      <4>1. Settled(shape.in, shape.out, delivered, manager)
        BY <2>1, <2>3 DEF CountsInv
      <4>2. ASSUME Mimics(1), Mimicked(1) = "dynamic"
            PROVE  manager.out[1] = manager.portOut[1]
        <5>1. shape.out[1].n \in 1..Len(shape.in) /\ Takes(shape.in[shape.out[1].n],
                                                           delivered[shape.out[1].n])
          BY <3>3, <4>2, BussesType DEF Mimics, Mimicked, Takes
        <5>2. ~NoneTaken(shape.in, delivered, Len(shape.in))
          BY <5>1 DEF NoneTaken
        <5>3. FirstFollows(shape.out)
          BY <4>2 DEF FirstFollows, Mimics
        <5> QED
          BY <4>1, <5>2, <5>3 DEF Settled, LastTaken
      <4>3. \A k \in DOMAIN outlet :
              manager.out[k] = manager.portOut[k] \/ (k = 1 /\ Mimics(1))
        BY <3>1, <3>2 DEF Sound, Mimics
      <4> QED
        BY <4>2, <4>3
    <3>5. Len(outlet) = Len(shape.out)
      BY <3>1, <3>2, <3>3, CountsAreSeq DEF Summed, Managers
    <3>6. \A k \in 2..Len(outlet) : Follows(k) \/ MimicsFixed(k)
      BY <3>1, <3>5 DEF Sound, Follows, MimicsFixed, Mimics, Mimicked
    <3> QED
      BY <2>3, <3>1, <3>2, <3>4, <3>6 DEF PortsAgree, Summed
  <2>4. CASE shape.node = "native"
    BY <2>1, <2>4 DEF CountsInv, PortsAgree
  <2> QED
    BY <2>1, <2>2, <2>3, <2>4
<1> QED
  BY <1>1, Invariance, PTL

\* The plain controls of all the instances are the same, and the interface shows
\* those of the first one as soon as no change or report is under way (node.hpp).
THEOREM InterfaceAgrees == Spec => []ReportsAgree
<1>1. NodeInv => ReportsAgree
  BY DEF NodeInv, ReportsInv, ReportsAgree, LastReport
<1> QED
  BY <1>1, Invariance, PTL

\* A tick with the channels and the length of the last one prepares nothing again,
\* of a processor all of whose inputs are fixed, or all dynamic (node.hpp
\* prepare_run()).
THEOREM QuietTicks == Spec => QuietTick
<1> DEFINE Quiet ==
      /\ SettledPorts /\ delivered' = delivered /\ buffer_size' = buffer_size
      /\ ~audio_channels_changed /\ ~Mixed(shape)
      => ~reconfigured'
<1>1. NodeInv /\ [Next]_vars => [Quiet]_vars
  <2>1. ASSUME NodeInv, Next, SettledPorts, delivered' = delivered,
               buffer_size' = buffer_size, ~audio_channels_changed, ~Mixed(shape)
        PROVE  ~reconfigured'
    <3>1. CASE ConfigurationChanged
      BY <2>1, <3>1 DEF ConfigurationChanged, SettledPorts
    <3>2. ASSUME NEW counts \in [DOMAIN inlet -> Counts], NEW length \in Lengths,
                 NEW new \in PortValues, Tick(counts, length, new)
          PROVE  ~reconfigured'
      <4>1. PICK P \in SUBSET Param : new \in [P -> Value]
        BY PortValuesType
      <4> QED
        BY <2>1, <3>2, <4>1, TickKeeps
    <3>3. ASSUME NEW p \in Param, NEW v \in Value, ControlUpdatedFromUi(p, v)
          PROVE  ~reconfigured'
      BY <3>3 DEF ControlUpdatedFromUi
    <3>4. CASE Show
      BY <3>4 DEF Show
    <3> QED
      BY <2>1, <3>1, <3>2, <3>3, <3>4 DEF Next
  <2>2. NodeInv /\ Next => Quiet
    BY <2>1
  <2> HIDE DEF Quiet
  <2> QED
    BY <2>2
<1> QED
  BY <1>1, Invariance, PTL DEF Spec, QuietTick, Quiet
=============================================================================
