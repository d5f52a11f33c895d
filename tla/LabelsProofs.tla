---------------------------- MODULE LabelsProofs ----------------------------
(***************************************************************************)
(* Labels lead to the nodes they are kept for, and back again, in every    *)
(* line of switches whose labels fit, whatever schemes and slots the       *)
(* switches use.                                                           *)
(*                                                                         *)
(* The label that node i keeps for node j is determined: the port of i     *)
(* towards j in as many bits as that port needs, the ports of the nodes    *)
(* between in as many bits as the wider of their two ports needs, and the  *)
(* end mark.  A packet's label is what is left of it, followed by the      *)
(* ports it came in by, in the same widths, written backwards.             *)
(***************************************************************************)
EXTENDS Labels, SequenceTheorems, WellFoundedInduction, TLAPS

Scheme == {"4", "8", "dyn"}

\* The widths in which a scheme writes a port that is not the router's.
Widths(s) == CASE s = "4" -> {4} [] s = "8" -> {8} [] s = "dyn" -> {4, 7, 10}

code(s, port, w) == bitsOf(getCompressed(s, port, w), w)

\* Codes of w bits.
Code(w) == [1..w -> 0..1]

-----------------------------------------------------------------------------
(* Lines *)

toward(l, i, j) == IF i < j THEN l[i].fwd ELSE IF j < i THEN l[i].back ELSE RouterPort
next(i, j) == IF i < j THEN i + 1 ELSE i - 1
between(i, m, j) == (i < m /\ m < j) \/ (j < m /\ m < i)

\* Bits that node i needs for its port towards j.
need(l, i, j) == bitsUsedForNumber(l[i].scheme, toward(l, i, j))

\* Bits that node i needs for either port.
widest(l, i) ==
    LET back == bitsUsedForNumber(l[i].scheme, l[i].back)
        fwd == bitsUsedForNumber(l[i].scheme, l[i].fwd)
    IN  IF back < fwd THEN fwd ELSE back

\* Bits of all nodes before one.
before(l) ==
    CHOOSE upTo : upTo = [k \in 1..Len(l) |-> IF k = 1 THEN 0 ELSE upTo[k - 1] + widest(l, k - 1)]

\* Bits of the nodes strictly between two.
Bits(l, i, j) == IF i < j THEN before(l)[j] - before(l)[i + 1] ELSE before(l)[i] - before(l)[j + 1]

\* Label x leads from node i to node j, with the port of i in w bits.
Path(l, i, j, w, x) ==
    /\ x \in Label
    /\ w + Bits(l, i, j) < Width
    /\ \A b \in 1..w : x[b] = code(l[i].scheme, toward(l, i, j), w)[b]
    /\ \A m \in 1..Len(l) : between(i, m, j) =>
          \A b \in 1..widest(l, m) :
              x[w + Bits(l, i, m) + b] = code(l[m].scheme, toward(l, m, j), widest(l, m))[b]
    /\ x[w + Bits(l, i, j) + 1] = 1
    /\ \A b \in w + Bits(l, i, j) + 2..Width : x[b] = 0

\* Bits that are gone from a label at node k.
used(l, o, d, k) == IF k = o THEN 0 ELSE need(l, o, d) + Bits(l, o, k)

\* Bits that node k uses of a label from o to d.
hop(l, o, d, k) == IF k = o THEN need(l, o, d) ELSE widest(l, k)

\* Node k is on the way from o to d, but not its end.
OnWay(l, o, d, k) ==
    /\ o \in 1..Len(l) /\ d \in 1..Len(l) /\ k \in 1..Len(l)
    /\ o # d
    /\ k = o \/ between(o, k, d)

\* What has become at node k of label x, on its way from o to d.
Forward(l, o, d, x, k, label) ==
    /\ label \in Label
    /\ \A b \in 1..Width - used(l, o, d, k) : label[b] = x[used(l, o, d, k) + b]
    /\ k # o =>
          /\ \A m \in 1..Len(l) : between(o, m, k) =>
                \A b \in 1..widest(l, m) :
                    label[Width + 1 - Bits(l, k, m) - b] = code(l[m].scheme, toward(l, m, o), widest(l, m))[b]
          /\ \A b \in 1..need(l, o, d) :
                label[Width + 1 - Bits(l, k, o) - b] = ending(need(l, o, d))[b]

\* A packet on its way to where it was sent.
Going(l, p) ==
    LET o == p.origin
        d == p.to
    IN  /\ {o, d, p.at} \subseteq 1..Len(l)
        /\ o # d
        /\ p.at \in {o, d} \/ between(o, p.at, d)
        /\ p.from = toward(l, p.at, o)
        /\ Path(l, o, d, need(l, o, d), p.sent)
        /\ Forward(l, o, d, p.sent, p.at, p.label)

\* A packet that goes back the way a label x took from o towards d.
Coming(l, p, o, d, x) ==
    /\ {o, d, p.at} \subseteq 1..Len(l)
    /\ o # d
    /\ p.at = o \/ between(o, p.at, d)
    /\ p.from = toward(l, p.at, d)
    /\ Path(l, o, d, need(l, o, d), x)
    /\ Forward(l, o, d, x, next(p.at, d), bitReverse64(p.label))

\* The label that a node answers, from the label of its answer.
answered(label, w) ==
    [b \in 1..Width |-> IF b <= w THEN ending(w)[b] ELSE label[Width + 1 + w - b]]

\* A packet at d that is about to go back where label x came from.
Turned(l, p, o, d, x) ==
    LET w == need(l, d, o)
    IN  /\ {o, d} \subseteq 1..Len(l)
        /\ o # d
        /\ p.at = d /\ p.from = RouterPort
        /\ Path(l, o, d, need(l, o, d), x)
        /\ \A b \in 1..w : p.label[b] = code(l[d].scheme, toward(l, d, o), w)[b]
        /\ Forward(l, o, d, x, d, answered(p.label, w))

Query == [kind : {"query"}, at : Nat, from : Nat, label : Label, origin : Nat, sent : Label, to : Nat]
Error == [kind : {"error"}, at : Nat, from : Nat, label : Label, origin : Nat, sent : Label, to : Nat]
Reply == [kind : {"reply"}, at : Nat, from : Nat, label : Label, origin : Nat, sent : Label, to : Nat,
          asked : Label, node : Nat \union {None}, path : Label \union {None}]

\* Node i tells o of a node j beyond it, and of label x that leads from i to j.
Tells(l, o, i, j, x) ==
    /\ j \in 1..Len(l) /\ between(o, i, j)
    /\ Path(l, i, j, widest(l, i), x)

Carried(l, p) ==
    \/ p \in Query /\ Going(l, p)
    \/ /\ p \in Reply /\ Going(l, p)
       /\ Turned(l, p, p.to, p.origin, p.asked) \/ Coming(l, p, p.to, p.origin, p.asked)
       /\ p.node # None => Tells(l, p.to, p.origin, p.node, p.path)
    \/ p \in Error /\ Coming(l, p, p.origin, p.to, p.sent)

Kept(l, i, e) ==
    /\ e.node \in 1..Len(l) /\ e.node # i
    /\ Path(l, i, e.node, need(l, i, e.node), e.path)

IInv ==
    /\ line \in Lines
    /\ DOMAIN store = Node
    /\ \A i \in Node : \A e \in store[i] : Kept(line, i, e)
    /\ packet # None => Carried(line, packet)

\* A label that fits still fits when its first port is written as wide as the wider port of
\* that node needs.
LabelsFit ==
    \A l \in Lines : \A i, j \in 1..Len(l) :
        1 < i /\ i < Len(l) /\ i # j /\ need(l, i, j) + Bits(l, i, j) < Width =>
            widest(l, i) + Bits(l, i, j) < Width

-----------------------------------------------------------------------------
(* Codes: NumberCompress.h *)

\* The bits of a code are bits.
LEMMA CodeBits ==
    ASSUME NEW n \in Nat, NEW w \in Nat
    PROVE  bitsOf(n, w) \in [1..w -> 0..1] /\ Len(bitsOf(n, w)) = w
BY DEF bitsOf

\* The number that four bits make up.
LEMMA Four ==
    ASSUME NEW n \in 0..15
    PROVE  LET f == bitsOf(n, 4) IN n = f[1] + 2 * f[2] + 4 * f[3] + 8 * f[4]
BY DEF bitsOf

\* The number that eight bits make up.
LEMMA Eight ==
    ASSUME NEW n \in 0..255
    PROVE  LET f == bitsOf(n, 8) IN
           n = f[1] + 2 * f[2] + 4 * f[3] + 8 * f[4] + 16 * f[5] + 32 * f[6] + 64 * f[7] + 128 * f[8]
BY DEF bitsOf

\* The code of 7 bits: its prefix, and the number in the rest.
LEMMA Seven ==
    ASSUME NEW n \in 0..31
    PROVE  LET f == bitsOf(n * 4 + 2, 7) IN
           /\ f[1] = 0 /\ f[2] = 1
           /\ n = f[3] + 2 * f[4] + 4 * f[5] + 8 * f[6] + 16 * f[7]
BY DEF bitsOf

\* The code of 10 bits: its prefix, and the number in the rest.
LEMMA Ten ==
    ASSUME NEW n \in 0..255
    PROVE  LET f == bitsOf(n * 4, 10) IN
           /\ f[1] = 0 /\ f[2] = 0
           /\ n = f[3] + 2 * f[4] + 4 * f[5] + 8 * f[6] + 16 * f[7] + 32 * f[8] + 64 * f[9] + 128 * f[10]
BY DEF bitsOf

\* What each scheme writes for the number of a slot.
LEMMA Compressed4 ==
    ASSUME NEW p \in 0..INTERFACES("4") - 1, NEW w \in Widths("4")
    PROVE  w = 4 /\ p \in 0..15 /\ getCompressed("4", p, w) = p
BY DEF INTERFACES, Widths, getCompressed

\* The codes of the scheme of 8 bits.
LEMMA Compressed8 ==
    ASSUME NEW p \in 0..INTERFACES("8") - 1, NEW w \in Widths("8")
    PROVE  w = 8 /\ p \in 0..240 /\ getCompressed("8", p, w) = getCompressed8(p)
BY DEF INTERFACES, Widths, getCompressed

\* The codes of the dynamic scheme, of 4, 7 and 10 bits.
LEMMA CompressedDyn ==
    ASSUME NEW p \in 0..INTERFACES("dyn") - 1, p # 1, NEW w \in Widths("dyn"),
           bitsUsedForNumber("dyn", p) <= w
    PROVE  /\ getCompressed("dyn", p, w) = getCompressedDyn(p, w)
           /\ w \in {4, 7, 10}
           /\ w = 4 => p \in 0..7
           /\ w = 7 => p \in 0..32
           /\ w = 10 => p \in 0..256
<1>1. p \in 0..256 /\ w \in {4, 7, 10}
    BY DEF INTERFACES, Widths
<1>2. bitsUsedForNumber("dyn", p) = IF p < 8 THEN 4 ELSE IF p < 33 THEN 7 ELSE 10
    BY DEF bitsUsedForNumber, bitsUsedForNumberDyn
<1>3. getCompressed("dyn", p, w) = getCompressedDyn(p, w)
    BY DEF getCompressed
<1> QED BY <1>1, <1>2, <1>3

\* Bits that begin with a code are read as the number and the width it was written with.
LEMMA Decode ==
    ASSUME NEW s \in Scheme, NEW p \in 0..INTERFACES(s) - 1, p # 1,
           NEW w \in Widths(s), bitsUsedForNumber(s, p) <= w,
           NEW x, \A b \in 1..w : x[b] = code(s, p, w)[b]
    PROVE  bitsUsedForLabel(s, x) = w /\ getDecompressed(s, x, w) = p
<1>1. CASE s = "4"
    <2>1. w = 4 /\ p \in 0..15 /\ getCompressed(s, p, w) = p
        BY <1>1, Compressed4
    <2>2. x[1] = bitsOf(p, 4)[1] /\ x[2] = bitsOf(p, 4)[2] /\ x[3] = bitsOf(p, 4)[3] /\ x[4] = bitsOf(p, 4)[4]
        BY <2>1 DEF code
    <2>3. p = x[1] + 2 * x[2] + 4 * x[3] + 8 * x[4]
        BY <2>1, <2>2, Four
    <2>4. bitsUsedForLabel(s, x) = 4 /\ getDecompressed(s, x, w) = field(x, 0, 4)
        BY <1>1 DEF bitsUsedForLabel, getDecompressed
    <2>5. \A b \in 1..4 : x[b] \in 0..1
        <3>1. bitsOf(p, 4) \in [1..4 -> 0..1]
            <4>1. p \in Nat /\ 4 \in Nat
                BY <2>1
            <4> QED BY <4>1, CodeBits
        <3> QED BY <2>2, <3>1
    <2>6. field(x, 0, 4) = x[1] + 2 * x[2] + 4 * x[3] + 8 * x[4]
        BY <2>5 DEF field
    <2> QED BY <2>1, <2>3, <2>4, <2>6
<1>2. CASE s = "8"
    <2> DEFINE n == getCompressed8(p)
    <2>1. w = 8 /\ p \in 0..240 /\ getCompressed(s, p, w) = n
        BY <1>2, Compressed8
    <2>2. /\ n \in 0..255
          /\ n % 16 # 1
          /\ n = 16 => p = 240
          /\ n # 16 => p = (IF n % 16 = 0 THEN 0 ELSE (n % 16) - 1) * 16 + n \div 16
        <3>1. CASE p = 240
            BY <3>1 DEF getCompressed8
        <3>2. CASE p # 240
            <4>1. n = (p % 16) * 16 + (IF p < 16 THEN 0 ELSE p \div 16 + 1)
                BY <2>1, <3>2 DEF getCompressed8
            <4> HIDE DEF n
            <4> QED BY <2>1, <3>2, <4>1
        <3> QED BY <3>1, <3>2
    <2> HIDE DEF n
    <2>3. \A b \in 1..8 : x[b] = bitsOf(n, 8)[b]
        BY <2>1 DEF code
    <2>4. \A b \in 1..8 : x[b] \in 0..1
        <3>1. bitsOf(n, 8) \in [1..8 -> 0..1]
            <4>1. n \in Nat /\ 8 \in Nat
                BY <2>2
            <4> QED BY <4>1, CodeBits
        <3> QED BY <2>3, <3>1
    <2>5. n = x[1] + 2 * x[2] + 4 * x[3] + 8 * x[4] + 16 * x[5] + 32 * x[6] + 64 * x[7] + 128 * x[8]
        <3>1. /\ x[1] = bitsOf(n, 8)[1] /\ x[2] = bitsOf(n, 8)[2] /\ x[3] = bitsOf(n, 8)[3] /\ x[4] = bitsOf(n, 8)[4]
              /\ x[5] = bitsOf(n, 8)[5] /\ x[6] = bitsOf(n, 8)[6] /\ x[7] = bitsOf(n, 8)[7] /\ x[8] = bitsOf(n, 8)[8]
            BY <2>3
        <3>2. n \in 0..255
            BY <2>2
        <3>3. n = bitsOf(n, 8)[1] + 2 * bitsOf(n, 8)[2] + 4 * bitsOf(n, 8)[3] + 8 * bitsOf(n, 8)[4]
                    + 16 * bitsOf(n, 8)[5] + 32 * bitsOf(n, 8)[6] + 64 * bitsOf(n, 8)[7] + 128 * bitsOf(n, 8)[8]
            BY ONLY <3>2, Eight
        <3> QED BY ONLY <3>1, <3>3
    <2>6. field(x, 0, 8) = n
        BY <2>4, <2>5 DEF field
    <2>7. field(x, 0, 4) = x[1] + 2 * x[2] + 4 * x[3] + 8 * x[4] /\ field(x, 4, 4) = x[5] + 2 * x[6] + 4 * x[7] + 8 * x[8]
        BY <2>4 DEF field
    <2>8. field(x, 0, 4) = n % 16 /\ field(x, 4, 4) = n \div 16
        <3> DEFINE a == x[1] + 2 * x[2] + 4 * x[3] + 8 * x[4]
                   c == x[5] + 2 * x[6] + 4 * x[7] + 8 * x[8]
        <3>1. x[1] \in 0..1 /\ x[2] \in 0..1 /\ x[3] \in 0..1 /\ x[4] \in 0..1
            BY <2>4
        <3>2. x[5] \in 0..1 /\ x[6] \in 0..1 /\ x[7] \in 0..1 /\ x[8] \in 0..1
            BY <2>4
        <3>3. a \in 0..15 /\ c \in 0..15 /\ n = a + 16 * c
            BY <2>5, <3>1, <3>2
        <3> HIDE DEF a, c
        <3>4. n % 16 = a /\ n \div 16 = c
            BY <3>3
        <3> QED BY <2>7, <3>4 DEF a, c
    <2>9. bitsUsedForLabel(s, x) = 8
        BY <1>2, <2>2, <2>8 DEF bitsUsedForLabel, bitsUsedForLabel8
    <2>10. getDecompressed(s, x, w) = getDecompressed8(x)
        BY <1>2 DEF getDecompressed
    <2> QED BY <2>1, <2>2, <2>6, <2>8, <2>9, <2>10 DEF getDecompressed8
<1>3. CASE s = "dyn"
    <2> SUFFICES bitsUsedForLabel(s, x) = w /\ getDecompressedDyn(x, w) = p
        BY <1>3 DEF getDecompressed
    <2>1. bitsUsedForLabel(s, x) = IF x[1] = 1 THEN 4 ELSE IF x[2] = 1 THEN 7 ELSE 10
        BY <1>3 DEF bitsUsedForLabel, bitsUsedForLabelDyn
    <2>2. getCompressed(s, p, w) = getCompressedDyn(p, w)
        BY <1>3, CompressedDyn
    <2>3. CASE w = 4
        <3> DEFINE n == IF p = 0 THEN 1 ELSE p
        <3>1. p \in 0..7 /\ n \in 1..7
            BY <1>3, <2>3, CompressedDyn
        <3>2. getCompressedDyn(p, w) = n * 2 + 1
            BY <2>3, <3>1 DEF getCompressedDyn
        <3>3. \A b \in 1..4 : x[b] = bitsOf(n * 2 + 1, 4)[b]
            BY <2>2, <2>3, <3>2 DEF code
        <3> HIDE DEF n
        <3>4. /\ bitsOf(n * 2 + 1, 4)[1] = 1
              /\ n = bitsOf(n * 2 + 1, 4)[2] + 2 * bitsOf(n * 2 + 1, 4)[3] + 4 * bitsOf(n * 2 + 1, 4)[4]
            BY <3>1 DEF bitsOf
        <3>5. x[1] = 1 /\ n = x[2] + 2 * x[3] + 4 * x[4]
            BY <3>3, <3>4
        <3>6. \A b \in 1..4 : x[b] \in 0..1
            <4>1. n * 2 + 1 \in Nat
                BY <3>1
            <4>2. bitsOf(n * 2 + 1, 4) \in [1..4 -> 0..1]
                BY <4>1, CodeBits
            <4> QED BY <3>3, <4>2
        <3>7. field(x, 1, 3) = n
            BY <3>5, <3>6 DEF field
        <3> QED BY <2>1, <2>3, <3>1, <3>5, <3>7 DEF getDecompressedDyn, n
    <2>4. CASE w = 7
        <3> DEFINE n == IF p = 0 THEN 0 ELSE p - 1
        <3>1. p \in 0..32 /\ n \in 0..31
            BY <1>3, <2>4, CompressedDyn
        <3>2. getCompressedDyn(p, w) = n * 4 + 2
            BY <2>4, <3>1 DEF getCompressedDyn
        <3>3. \A b \in 1..7 : x[b] = bitsOf(n * 4 + 2, 7)[b]
            BY <2>2, <2>4, <3>2 DEF code
        <3> HIDE DEF n
        <3>5. x[1] = 0 /\ x[2] = 1 /\ n = x[3] + 2 * x[4] + 4 * x[5] + 8 * x[6] + 16 * x[7]
            BY <3>1, <3>3, Seven, SMTT(40)
        <3>6. \A b \in 1..7 : x[b] \in 0..1
            <4>1. n * 4 + 2 \in Nat
                BY <3>1
            <4>2. bitsOf(n * 4 + 2, 7) \in [1..7 -> 0..1]
                BY <4>1, CodeBits
            <4> QED BY <3>3, <4>2
        <3>7. field(x, 2, 5) = n
            BY <3>5, <3>6 DEF field
        <3> QED BY <2>1, <2>4, <3>1, <3>5, <3>7 DEF getDecompressedDyn, n
    <2>5. CASE w = 10
        <3> DEFINE n == IF p = 0 THEN 0 ELSE p - 1
        <3>1. p \in 0..256 /\ n \in 0..255
            BY <1>3, <2>5, CompressedDyn
        <3>2. getCompressedDyn(p, w) = n * 4
            BY <2>5, <3>1 DEF getCompressedDyn
        <3>3. \A b \in 1..10 : x[b] = bitsOf(n * 4, 10)[b]
            BY <2>2, <2>5, <3>2 DEF code
        <3> HIDE DEF n
        <3>5. /\ x[1] = 0 /\ x[2] = 0
              /\ n = x[3] + 2 * x[4] + 4 * x[5] + 8 * x[6] + 16 * x[7] + 32 * x[8] + 64 * x[9] + 128 * x[10]
            <4>1. /\ x[1] = bitsOf(n * 4, 10)[1] /\ x[2] = bitsOf(n * 4, 10)[2] /\ x[3] = bitsOf(n * 4, 10)[3]
                  /\ x[4] = bitsOf(n * 4, 10)[4] /\ x[5] = bitsOf(n * 4, 10)[5] /\ x[6] = bitsOf(n * 4, 10)[6]
                  /\ x[7] = bitsOf(n * 4, 10)[7] /\ x[8] = bitsOf(n * 4, 10)[8]
                  /\ x[9] = bitsOf(n * 4, 10)[9] /\ x[10] = bitsOf(n * 4, 10)[10]
                BY <3>3
            <4> QED BY <3>1, <4>1, Ten
        <3>6. \A b \in 1..10 : x[b] \in 0..1
            <4>1. n * 4 \in Nat
                BY <3>1
            <4>2. bitsOf(n * 4, 10) \in [1..10 -> 0..1]
                BY <4>1, CodeBits
            <4> QED BY <3>3, <4>2
        <3>7. field(x, 2, 8) = n
            BY <3>5, <3>6 DEF field
        <3> QED BY <2>1, <2>5, <3>1, <3>5, <3>7 DEF getDecompressedDyn, n
    <2> QED BY <1>3, <2>3, <2>4, <2>5, CompressedDyn
<1> QED BY <1>1, <1>2, <1>3 DEF Scheme

\* The widths of a scheme, with the bits a number needs among them.
LEMMA NumberBits ==
    ASSUME NEW s \in Scheme, NEW p \in 0..INTERFACES(s) - 1, p # 1
    PROVE  /\ bitsUsedForNumber(s, p) \in Widths(s)
           /\ Widths(s) \subseteq 4..10
<1>1. CASE s = "4" BY <1>1 DEF bitsUsedForNumber, Widths
<1>2. CASE s = "8" BY <1>2 DEF bitsUsedForNumber, bitsUsedForNumber8, Widths
<1>3. CASE s = "dyn" BY <1>3 DEF bitsUsedForNumber, bitsUsedForNumberDyn, Widths
<1> QED BY <1>1, <1>2, <1>3 DEF Scheme

\* The code of a slot is a sequence of bits.
LEMMA CodeType ==
    ASSUME NEW s \in Scheme, NEW p \in 0..INTERFACES(s) - 1, NEW w \in Widths(s)
    PROVE  code(s, p, w) \in Code(w)
<1>1. p \in Nat /\ w \in Nat
    <2>1. CASE s = "4" BY <2>1 DEF INTERFACES, Widths
    <2>2. CASE s = "8" BY <2>2 DEF INTERFACES, Widths
    <2>3. CASE s = "dyn" BY <2>3 DEF INTERFACES, Widths
    <2> QED BY <2>1, <2>2, <2>3 DEF Scheme
<1>2. getCompressed(s, p, w) \in Nat
    <2>1. CASE s = "4" BY <1>1, <2>1 DEF getCompressed
    <2>2. CASE s = "8"
        <3>1. getCompressed8(p) \in Nat
            BY <1>1 DEF getCompressed8
        <3> QED BY <2>2, <3>1 DEF getCompressed
    <2>3. CASE s = "dyn"
        <3>1. w \in {4, 7, 10}
            BY <2>3 DEF Widths
        <3>2. getCompressedDyn(p, w) \in Nat
            BY <1>1, <3>1 DEF getCompressedDyn
        <3> QED BY <2>3, <3>2 DEF getCompressed
    <2> QED BY <2>1, <2>2, <2>3 DEF Scheme
<1> QED BY <1>1, <1>2, CodeBits DEF code, Code

\* The code of the router is 1, in every width.
LEMMA RouterCode ==
    ASSUME NEW s \in Scheme, NEW w \in Widths(s)
    PROVE  /\ code(s, RouterPort, w) = ending(w)
           /\ bitsUsedForNumber(s, RouterPort) = 4
<1>1. getCompressed(s, RouterPort, w) = 1 /\ w \in {4, 7, 8, 10}
    <2>1. CASE s = "4" BY <2>1 DEF getCompressed, RouterPort, Widths
    <2>2. CASE s = "8" BY <2>2 DEF getCompressed, getCompressed8, RouterPort, Widths
    <2>3. CASE s = "dyn" BY <2>3 DEF getCompressed, getCompressedDyn, RouterPort, Widths
    <2> QED BY <2>1, <2>2, <2>3 DEF Scheme
<1>2. bitsOf(1, w) = ending(w)
    <2>1. ASSUME NEW b \in 1..w PROVE bitsOf(1, w)[b] = ending(w)[b]
        <3>1. b \in 1..10
            BY <1>1
        <3>2. (1 \div 2^(b - 1)) % 2 = IF b = 1 THEN 1 ELSE 0
            <4>1. CASE b = 1 BY <4>1
            <4>2. CASE b = 2 BY <4>2
            <4>3. CASE b = 3 BY <4>3
            <4>4. CASE b = 4 BY <4>4
            <4>5. CASE b = 5 BY <4>5
            <4>6. CASE b = 6 BY <4>6
            <4>7. CASE b = 7 BY <4>7
            <4>8. CASE b = 8 BY <4>8
            <4>9. CASE b = 9 BY <4>9
            <4>10. CASE b = 10 BY <4>10
            <4> QED BY <3>1, <4>1, <4>2, <4>3, <4>4, <4>5, <4>6, <4>7, <4>8, <4>9, <4>10
        <3> QED BY <3>2 DEF bitsOf, ending
    <2> QED BY <2>1 DEF bitsOf, ending
<1>3. bitsUsedForNumber(s, RouterPort) = 4
    BY DEF bitsUsedForNumber, bitsUsedForNumber8, bitsUsedForNumberDyn, RouterPort, Scheme
<1> QED BY <1>1, <1>2, <1>3 DEF code

\* The end mark is read as the router, in every scheme.
LEMMA ReadRouter ==
    ASSUME NEW s \in Scheme, NEW x \in Label, x[1] = 1, x[2] = 0, x[3] = 0, x[4] = 0
    PROVE  /\ bitsUsedForLabel(s, x) = 4
           /\ getDecompressed(s, x, 4) = RouterPort
           /\ field(x, 0, 4) = 1
<1>1. field(x, 0, 4) = 1 /\ field(x, 1, 3) = 0
    BY DEF field
<1>2. CASE s = "4" BY <1>1, <1>2 DEF bitsUsedForLabel, getDecompressed, RouterPort
<1>3. CASE s = "8"
    <2>1. field(x, 0, 8) # 16
        <3>1. x[5] \in 0..1 /\ x[6] \in 0..1 /\ x[7] \in 0..1 /\ x[8] \in 0..1
            BY WidthAssumption DEF Label
        <3>2. field(x, 0, 8) = 1 + 16 * x[5] + 32 * x[6] + 64 * x[7] + 128 * x[8]
            BY <3>1 DEF field
        <3> QED BY <3>1, <3>2
    <2>2. getDecompressed8(x) = 1
        BY <1>1, <2>1 DEF getDecompressed8
    <2> QED BY <1>1, <1>3, <2>2 DEF bitsUsedForLabel, bitsUsedForLabel8, getDecompressed, RouterPort
<1>4. CASE s = "dyn" BY <1>1, <1>4 DEF bitsUsedForLabel, bitsUsedForLabelDyn, getDecompressed, getDecompressedDyn, RouterPort
<1> QED BY <1>1, <1>2, <1>3, <1>4 DEF Scheme

-----------------------------------------------------------------------------
(* Lines *)

\* The switches of a line: schemes, slots and widths.
LEMMA AtSwitch ==
    ASSUME NEW l \in Seq(Switch), NEW i \in 1..Len(l)
    PROVE  /\ l[i].scheme \in Scheme
           /\ l[i].back \in 0..INTERFACES(l[i].scheme) - 1 /\ l[i].back # 1
           /\ l[i].fwd \in 0..INTERFACES(l[i].scheme) - 1 /\ l[i].fwd # 1
           /\ l[i].back # l[i].fwd
           /\ widest(l, i) \in Widths(l[i].scheme) /\ widest(l, i) \in 4..10 /\ widest(l, i) \in Nat
           /\ bitsUsedForNumber(l[i].scheme, l[i].back) \in 4..widest(l, i)
           /\ bitsUsedForNumber(l[i].scheme, l[i].fwd) \in 4..widest(l, i)
           /\ widest(l, i) \in {bitsUsedForNumber(l[i].scheme, l[i].back), bitsUsedForNumber(l[i].scheme, l[i].fwd)}
<1> DEFINE s == l[i].scheme
<1>1. l[i] \in Switch
    OBVIOUS
<1>2. s \in Scheme /\ l[i].back \in Nat \ {1} /\ l[i].fwd \in Nat \ {1} /\ l[i].back # l[i].fwd
        /\ l[i].back < INTERFACES(s) /\ l[i].fwd < INTERFACES(s)
    BY <1>1 DEF Switch, Scheme
<1>3. INTERFACES(s) \in Nat
    BY <1>2 DEF INTERFACES, Scheme
<1>4. l[i].back \in 0..INTERFACES(s) - 1 /\ l[i].fwd \in 0..INTERFACES(s) - 1
    BY <1>2, <1>3
<1> HIDE DEF s
<1>5. /\ bitsUsedForNumber(s, l[i].back) \in Widths(s)
      /\ bitsUsedForNumber(s, l[i].fwd) \in Widths(s)
      /\ Widths(s) \subseteq 4..10
    BY <1>2, <1>4, NumberBits
<1>6. widest(l, i) = IF bitsUsedForNumber(s, l[i].back) < bitsUsedForNumber(s, l[i].fwd)
                     THEN bitsUsedForNumber(s, l[i].fwd) ELSE bitsUsedForNumber(s, l[i].back)
    BY DEF widest, s
<1>7. /\ widest(l, i) \in 4..10 /\ widest(l, i) \in Nat
      /\ bitsUsedForNumber(s, l[i].back) \in 4..widest(l, i)
      /\ bitsUsedForNumber(s, l[i].fwd) \in 4..widest(l, i)
    BY <1>5, <1>6
<1> QED BY <1>2, <1>4, <1>5, <1>6, <1>7 DEF s

\* The port of a node towards another, and the bits it needs.
LEMMA AtPort ==
    ASSUME NEW l \in Seq(Switch), NEW i \in 1..Len(l), NEW j \in 1..Len(l), i # j
    PROVE  /\ toward(l, i, j) \in 0..INTERFACES(l[i].scheme) - 1 /\ toward(l, i, j) # RouterPort
           /\ toward(l, i, j) \in {l[i].back, l[i].fwd}
           /\ need(l, i, j) \in Widths(l[i].scheme) /\ need(l, i, j) \in 4..10 /\ need(l, i, j) \in Nat
           /\ need(l, i, j) <= widest(l, i)
<1>1. CASE i < j
    <2>1. toward(l, i, j) = l[i].fwd
        BY <1>1 DEF toward
    <2>2. need(l, i, j) = bitsUsedForNumber(l[i].scheme, l[i].fwd)
        BY <2>1 DEF need
    <2>3. need(l, i, j) \in Widths(l[i].scheme) /\ need(l, i, j) \in 4..widest(l, i) /\ widest(l, i) \in 4..10
        BY <2>2, AtSwitch, NumberBits
    <2>4. need(l, i, j) \in 4..10 /\ need(l, i, j) \in Nat /\ need(l, i, j) <= widest(l, i)
        BY ONLY <2>3
    <2>5. toward(l, i, j) \in 0..INTERFACES(l[i].scheme) - 1 /\ toward(l, i, j) # 1
        BY <2>1, AtSwitch
    <2> QED BY <2>1, <2>3, <2>4, <2>5 DEF RouterPort
<1>2. CASE j < i
    <2>1. toward(l, i, j) = l[i].back
        BY <1>2 DEF toward
    <2>2. need(l, i, j) = bitsUsedForNumber(l[i].scheme, l[i].back)
        BY <2>1 DEF need
    <2>3. need(l, i, j) \in Widths(l[i].scheme) /\ need(l, i, j) \in 4..widest(l, i) /\ widest(l, i) \in 4..10
        BY <2>2, AtSwitch, NumberBits
    <2>4. need(l, i, j) \in 4..10 /\ need(l, i, j) \in Nat /\ need(l, i, j) <= widest(l, i)
        BY ONLY <2>3
    <2>5. toward(l, i, j) \in 0..INTERFACES(l[i].scheme) - 1 /\ toward(l, i, j) # 1
        BY <2>1, AtSwitch
    <2> QED BY <2>1, <2>3, <2>4, <2>5 DEF RouterPort
<1> QED BY <1>1, <1>2

\* A label that begins with the port towards a node, in either width, is read as that.
LEMMA ReadPort ==
    ASSUME NEW l \in Seq(Switch), NEW i \in 1..Len(l), NEW j \in 1..Len(l), i # j,
           NEW w \in {need(l, i, j), widest(l, i)}, NEW x,
           \A b \in 1..w : x[b] = code(l[i].scheme, toward(l, i, j), w)[b]
    PROVE  /\ bitsUsedForLabel(l[i].scheme, x) = w
           /\ getDecompressed(l[i].scheme, x, w) = toward(l, i, j)
           /\ getSwitchIndex(l[i].scheme, x) = toward(l, i, j)
<1> DEFINE s == l[i].scheme
          p == toward(l, i, j)
<1>1. s \in Scheme /\ p \in 0..INTERFACES(s) - 1 /\ p # 1 /\ w \in Widths(s)
    BY AtSwitch, AtPort, SMTT(40) DEF RouterPort
<1>2. bitsUsedForNumber(s, p) <= w
    BY AtPort DEF need
<1> HIDE DEF s, p
<1>3. \A b \in 1..w : x[b] = code(s, p, w)[b]
    BY DEF s, p
<1>4. bitsUsedForLabel(s, x) = w /\ getDecompressed(s, x, w) = p
    BY ONLY <1>1, <1>2, <1>3, Decode
<1> QED BY <1>4 DEF s, p, getSwitchIndex

\* A set of naturals has a least element.
LEMMA Least ==
    ASSUME NEW S \in SUBSET Nat, S # {}
    PROVE  \E i \in S : \A j \in S : i <= j
<1>1. PICK i \in S : \A j \in S : ~(<<j, i>> \in OpToRel(<, Nat))
    <2> HIDE DEF OpToRel
    <2> QED BY WFMin, NatLessThanWellFounded
<1>2. \A j \in S : ~(j < i)
    BY <1>1 DEF OpToRel
<1> QED BY <1>2

\* The bits before each node, counted from the first.
LEMMA Before ==
    ASSUME NEW l \in Seq(Switch)
    PROVE  /\ before(l) \in [1..Len(l) -> Nat]
           /\ \A k \in 1..Len(l) : before(l)[k] = IF k = 1 THEN 0 ELSE before(l)[k - 1] + widest(l, k - 1)
<1> DEFINE Counts(n, g) ==
        /\ g \in [1..n -> Nat]
        /\ \A k \in 1..n : g[k] = IF k = 1 THEN 0 ELSE g[k - 1] + widest(l, k - 1)
      Bad == {n \in 0..Len(l) : ~ \E g : Counts(n, g)}
<1>0. Len(l) \in Nat /\ \A k \in 1..Len(l) : widest(l, k) \in Nat
    BY AtSwitch
<1>1. Bad = {}
    <2>1. SUFFICES ASSUME Bad # {} PROVE FALSE
        OBVIOUS
    <2>2. Bad \in SUBSET Nat
        BY <1>0
    <2>3. PICK n \in Bad : \A m \in Bad : n <= m
        BY <2>1, <2>2, Least
    <2>4. n # 0
        <3>1. Counts(0, [k \in 1..0 |-> 0])
            OBVIOUS
        <3> QED BY <2>3, <3>1
    <2>5. n \in 1..Len(l) /\ n - 1 \in 0..Len(l) /\ n - 1 \notin Bad
        <3> HIDE DEF Counts
        <3>1. n \in 0..Len(l)
            BY <2>3
        <3>2. n \in 1..Len(l) /\ n - 1 \in 0..Len(l) /\ ~(n <= n - 1)
            BY <1>0, <2>4, <3>1
        <3> HIDE DEF Bad
        <3> QED BY <2>3, <3>2
    <2>6. PICK g : Counts(n - 1, g)
        <3> HIDE DEF Counts
        <3> QED BY <2>5
    <2> DEFINE h == [k \in 1..n |-> IF k < n THEN g[k] ELSE IF n = 1 THEN 0 ELSE g[n - 1] + widest(l, n - 1)]
    <2>7. h \in [1..n -> Nat]
        <3> SUFFICES ASSUME NEW k \in 1..n
                     PROVE  (IF k < n THEN g[k] ELSE IF n = 1 THEN 0 ELSE g[n - 1] + widest(l, n - 1)) \in Nat
            OBVIOUS
        <3>1. g \in [1..n - 1 -> Nat]
            BY <2>6
        <3>2. k < n => g[k] \in Nat
            BY <1>0, <2>5, <3>1
        <3>3. n # 1 => g[n - 1] \in Nat /\ widest(l, n - 1) \in Nat
            BY <1>0, <2>5, <3>1
        <3> QED BY <3>2, <3>3
    <2>8. ASSUME NEW k \in 1..n PROVE h[k] = IF k = 1 THEN 0 ELSE h[k - 1] + widest(l, k - 1)
        <3>1. CASE k < n
            <4>1. k \in 1..n - 1 /\ h[k] = g[k] /\ (k # 1 => h[k - 1] = g[k - 1])
                BY <1>0, <2>5, <3>1
            <4> QED BY <2>6, <4>1
        <3>2. CASE k = n
            <4>1. n # 1 => h[n - 1] = g[n - 1]
                BY <1>0, <2>5
            <4> QED BY <2>5, <3>2, <4>1
        <3> QED BY <1>0, <2>5, <3>1, <3>2
    <2>9. Counts(n, h)
        BY <2>7, <2>8
    <2> HIDE DEF Counts
    <2> QED BY <2>3, <2>9
<1>2. PICK g : Counts(Len(l), g)
    <2> HIDE DEF Counts
    <2>1. Len(l) \in 0..Len(l) /\ Len(l) \notin Bad
        BY <1>0, <1>1
    <2> QED BY <2>1
<1>3. g = [k \in 1..Len(l) |-> IF k = 1 THEN 0 ELSE g[k - 1] + widest(l, k - 1)]
    BY <1>2
<1>4. before(l) = [k \in 1..Len(l) |-> IF k = 1 THEN 0 ELSE before(l)[k - 1] + widest(l, k - 1)]
    BY <1>3 DEF before
<1>5. ASSUME NEW k \in 1..Len(l) PROVE before(l)[k] = IF k = 1 THEN 0 ELSE before(l)[k - 1] + widest(l, k - 1)
    BY <1>4
<1>6. ASSUME NEW k \in 1..Len(l), before(l)[k] \notin Nat PROVE FALSE
    <2> DEFINE Odd == {m \in 1..Len(l) : before(l)[m] \notin Nat}
    <2>1. Odd \in SUBSET Nat /\ Odd # {}
        BY <1>0, <1>6
    <2>2. PICK m \in Odd : \A q \in Odd : m <= q
        BY <2>1, Least
    <2>3. m # 1
        BY <1>5, <2>2
    <2>4. m - 1 \in 1..Len(l) /\ m - 1 \notin Odd
        BY <1>0, <2>2, <2>3
    <2>5. before(l)[m] = before(l)[m - 1] + widest(l, m - 1)
        BY <1>5, <2>2, <2>3
    <2> QED BY <1>0, <2>2, <2>4, <2>5
<1> QED BY <1>4, <1>5, <1>6

\* Every node adds at least 4 bits.
LEMMA Grows ==
    ASSUME NEW l \in Seq(Switch), NEW a \in 1..Len(l), NEW c \in 1..Len(l), a <= c
    PROVE  before(l)[a] \in Nat /\ before(l)[c] \in Nat /\ before(l)[a] + 4 * (c - a) <= before(l)[c]
<1> DEFINE Bad == {m \in a..Len(l) : ~(before(l)[a] + 4 * (m - a) <= before(l)[m])}
<1>0. Len(l) \in Nat /\ \A k \in 1..Len(l) : widest(l, k) \in Nat /\ widest(l, k) >= 4
    <2>1. \A k \in 1..Len(l) : widest(l, k) \in 4..10
        BY AtSwitch
    <2> QED BY <2>1
<1>1. \A k \in 1..Len(l) : before(l)[k] \in Nat
    BY Before
<1>2. \A k \in 1..Len(l) : k # 1 => before(l)[k] = before(l)[k - 1] + widest(l, k - 1)
    BY Before
<1>3. SUFFICES ASSUME c \in Bad PROVE FALSE
    BY <1>0, <1>1
<1>4. Bad \in SUBSET Nat /\ Bad # {}
    BY <1>0, <1>3
<1>5. PICK m \in Bad : \A q \in Bad : m <= q
    BY <1>4, Least
<1>6. m \in a..Len(l) /\ m # a
    <2>1. m \in a..Len(l) /\ ~(before(l)[a] + 4 * (m - a) <= before(l)[m])
        BY <1>5
    <2>2. before(l)[a] + 4 * (a - a) <= before(l)[a]
        BY <1>1
    <2> QED BY <2>1, <2>2
<1>7. m - 1 \in a..Len(l) /\ m - 1 \notin Bad /\ m - 1 \in 1..Len(l) /\ m # 1 /\ m \in 1..Len(l)
    BY <1>0, <1>5, <1>6
<1>8. before(l)[a] + 4 * (m - 1 - a) <= before(l)[m - 1]
    BY <1>7
<1>9. before(l)[m] = before(l)[m - 1] + widest(l, m - 1) /\ widest(l, m - 1) \in Nat /\ widest(l, m - 1) >= 4
    BY <1>0, <1>2, <1>7
<1>10. before(l)[m] \in Nat /\ before(l)[m - 1] \in Nat /\ before(l)[a] \in Nat /\ m \in Nat /\ a \in Nat
    BY <1>0, <1>1, <1>7
<1>11. before(l)[a] + 4 * (m - a) <= before(l)[m]
    BY <1>8, <1>9, <1>10
<1> QED BY <1>5, <1>11

\* The bits between two nodes: the same both ways, none between neighbours only, and those
\* of a node between are what it adds.
LEMMA BitsBetween ==
    ASSUME NEW l \in Seq(Switch), NEW i \in 1..Len(l), NEW j \in 1..Len(l), i # j
    PROVE  /\ Bits(l, i, j) \in Nat /\ Bits(l, i, j) = Bits(l, j, i)
           /\ Bits(l, i, j) = 0 <=> j \in {i - 1, i + 1}
<1>1. CASE i < j
    <2>1. i + 1 \in 1..Len(l) /\ i + 1 <= j
        BY <1>1
    <2>2. Bits(l, i, j) = before(l)[j] - before(l)[i + 1] /\ Bits(l, j, i) = before(l)[j] - before(l)[i + 1]
        BY <1>1 DEF Bits
    <2>3. before(l)[i + 1] \in Nat /\ before(l)[j] \in Nat /\ before(l)[i + 1] + 4 * (j - (i + 1)) <= before(l)[j]
        BY <2>1, Grows
    <2> QED BY <1>1, <2>1, <2>2, <2>3
<1>2. CASE j < i
    <2>1. j + 1 \in 1..Len(l) /\ j + 1 <= i
        BY <1>2
    <2>2. Bits(l, i, j) = before(l)[i] - before(l)[j + 1] /\ Bits(l, j, i) = before(l)[i] - before(l)[j + 1]
        BY <1>2 DEF Bits
    <2>3. before(l)[j + 1] \in Nat /\ before(l)[i] \in Nat /\ before(l)[j + 1] + 4 * (i - (j + 1)) <= before(l)[i]
        BY <2>1, Grows
    <2> QED BY <1>2, <2>1, <2>2, <2>3
<1> QED BY <1>1, <1>2

\* The bits between two nodes, from those on either side of a node between them.
LEMMA BitsSplit ==
    ASSUME NEW l \in Seq(Switch), NEW i \in 1..Len(l), NEW j \in 1..Len(l), NEW k \in 1..Len(l), between(i, k, j)
    PROVE  /\ i # k /\ k # j /\ i # j
           /\ Bits(l, i, k) \in Nat /\ Bits(l, k, j) \in Nat /\ widest(l, k) \in 4..10 /\ widest(l, k) \in Nat
           /\ Bits(l, i, j) = Bits(l, i, k) + widest(l, k) + Bits(l, k, j)
<1>1. i # k /\ k # j /\ i # j
    BY DEF between
<1>2. Bits(l, i, k) \in Nat /\ Bits(l, k, j) \in Nat /\ widest(l, k) \in 4..10 /\ widest(l, k) \in Nat
    BY <1>1, BitsBetween, AtSwitch
<1>3. \A m \in 1..Len(l) : before(l)[m] \in Nat
    BY Before
<1>4. k + 1 \in 1..Len(l) /\ k + 1 # 1 /\ (k + 1) - 1 = k
    BY DEF between
<1>5. before(l)[k + 1] = before(l)[k] + widest(l, k)
    BY <1>4, Before
<1>6. CASE i < k /\ k < j
    <2>1. /\ Bits(l, i, j) = before(l)[j] - before(l)[i + 1]
          /\ Bits(l, i, k) = before(l)[k] - before(l)[i + 1]
          /\ Bits(l, k, j) = before(l)[j] - before(l)[k + 1]
        BY <1>6 DEF Bits
    <2>2. before(l)[i + 1] \in Nat /\ before(l)[j] \in Nat /\ before(l)[k] \in Nat
        BY <1>3, <1>6
    <2>3. widest(l, k) \in Nat
        BY <1>2
    <2>4. Bits(l, i, j) = Bits(l, i, k) + widest(l, k) + Bits(l, k, j)
        BY ONLY <1>5, <2>1, <2>2, <2>3, SMTT(40)
    <2> QED BY <1>1, <1>2, <2>4
<1>7. CASE j < k /\ k < i
    <2>1. /\ Bits(l, i, j) = before(l)[i] - before(l)[j + 1]
          /\ Bits(l, i, k) = before(l)[i] - before(l)[k + 1]
          /\ Bits(l, k, j) = before(l)[k] - before(l)[j + 1]
        BY <1>7 DEF Bits
    <2>2. before(l)[j + 1] \in Nat /\ before(l)[i] \in Nat /\ before(l)[k] \in Nat
        BY <1>3, <1>7
    <2>3. widest(l, k) \in Nat
        BY <1>2
    <2>4. Bits(l, i, j) = Bits(l, i, k) + widest(l, k) + Bits(l, k, j)
        BY ONLY <1>5, <2>1, <2>2, <2>3, SMTT(40)
    <2> QED BY <1>1, <1>2, <2>4
<1> QED BY <1>6, <1>7 DEF between

\* The next node of a way, from where its port leads to it and back.
LEMMA NextNode ==
    ASSUME NEW l \in Seq(Switch), NEW o \in 1..Len(l), NEW d \in 1..Len(l), o # d,
           NEW k \in 1..Len(l), k = o \/ between(o, k, d)
    PROVE  LET n == next(k, d) IN
           /\ k # d
           /\ n \in 1..Len(l) /\ n # k /\ n # o /\ (n = d \/ between(o, n, d))
           /\ next(n, o) = k
           /\ Bits(l, n, k) = 0
           /\ toward(l, k, n) = toward(l, k, d) /\ toward(l, n, k) = toward(l, n, o)
           /\ between(o, k, n) <=> k # o
           /\ \A m \in 1..Len(l) : between(o, m, n) <=> between(o, m, k) \/ (m = k /\ k # o)
           /\ \A m \in 1..Len(l) : between(o, m, k) => between(n, k, m)
           /\ k # o => between(n, k, o)
<1> DEFINE n == next(k, d)
<1>1. k # d
    BY DEF between
<1>2. /\ n \in 1..Len(l) /\ n # k /\ n # o /\ (n = d \/ between(o, n, d))
      /\ next(n, o) = k
      /\ k \in {n - 1, n + 1}
    BY <1>1 DEF next, between
<1>3. Bits(l, n, k) = 0
    <2> HIDE DEF n
    <2> QED BY <1>2, BitsBetween
<1>4. toward(l, k, n) = toward(l, k, d) /\ toward(l, n, k) = toward(l, n, o)
    BY <1>1 DEF next, between, toward
<1>5. between(o, k, n) <=> k # o
    BY <1>1 DEF next, between
<1>6. \A m \in 1..Len(l) : between(o, m, n) <=> between(o, m, k) \/ (m = k /\ k # o)
    BY <1>1 DEF next, between
<1>7. (\A m \in 1..Len(l) : between(o, m, k) => between(n, k, m)) /\ (k # o => between(n, k, o))
    BY <1>1 DEF next, between
<1> QED BY <1>1, <1>2, <1>3, <1>4, <1>5, <1>6, <1>7

-----------------------------------------------------------------------------
(* Labels *)

\* A sequence of bits, from its function and back.
LEMMA BitSequence ==
    ASSUME NEW n \in Nat, NEW f \in [1..n -> 0..1]
    PROVE  f \in Seq(0..1) /\ Len(f) = n
OBVIOUS

\* One sequence after another.
LEMMA Joined ==
    ASSUME NEW f \in Seq(0..1), NEW g \in Seq(0..1)
    PROVE  /\ f \o g \in Seq(0..1) /\ Len(f \o g) = Len(f) + Len(g)
           /\ \A b \in 1..Len(f) : (f \o g)[b] = f[b]
           /\ \A b \in Len(f) + 1..Len(f) + Len(g) : (f \o g)[b] = g[b - Len(f)]
<1>1. /\ f \o g \in Seq(0..1)
      /\ Len(f \o g) = Len(f) + Len(g)
      /\ \A b \in 1..Len(f) + Len(g) : (f \o g)[b] = IF b <= Len(f) THEN f[b] ELSE g[b - Len(f)]
    BY ConcatProperties
<1>2. Len(f) \in Nat /\ Len(g) \in Nat
    OBVIOUS
<1>3. ASSUME NEW b \in Len(f) + 1..Len(f) + Len(g) PROVE (f \o g)[b] = g[b - Len(f)]
    <2>1. b \in 1..Len(f) + Len(g) /\ ~(b <= Len(f))
        BY <1>2
    <2> QED BY ONLY <1>1, <2>1
<1>4. ASSUME NEW b \in 1..Len(f) PROVE (f \o g)[b] = f[b]
    BY <1>2
<1> QED BY <1>1, <1>3, <1>4

\* Labels with the same bits are the same.
LEMMA SameBits ==
    ASSUME NEW x \in Label, NEW y \in Label, \A b \in 1..Width : x[b] = y[b]
    PROVE  x = y
<1>1. x = [b \in 1..Width |-> x[b]] /\ y = [b \in 1..Width |-> y[b]]
    BY DEF Label
<1>2. [b \in 1..Width |-> x[b]] = [b \in 1..Width |-> y[b]]
    OBVIOUS
<1> QED BY <1>1, <1>2

\* A sequence of as many bits as a label has is one.
LEMMA LabelSequence ==
    ASSUME NEW f \in Seq(0..1), Len(f) = Width
    PROVE  f \in Label
BY DEF Label

\* The first bits of a longer sequence.
LEMMA Cut ==
    ASSUME NEW z \in Seq(0..1), Len(z) >= Width
    PROVE  SubSeq(z, 1, Width) \in Label /\ \A b \in 1..Width : SubSeq(z, 1, Width)[b] = z[b]
<1>1. Width \in Nat
    BY WidthAssumption
<1>2. SubSeq(z, 1, Width) \in Seq(0..1) /\ Len(SubSeq(z, 1, Width)) = Width
    BY <1>1
<1>3. SubSeq(z, 1, Width) \in Label
    BY ONLY <1>2, LabelSequence
<1> QED BY <1>1, <1>3

\* A label reversed, bit by bit; reversed again it is itself.
LEMMA Reversed ==
    ASSUME NEW label \in Label
    PROVE  /\ bitReverse64(label) \in Label
           /\ \A b \in 1..Width : bitReverse64(label)[b] = label[Width + 1 - b]
<1>1. Len(label) = Width /\ label \in Seq(0..1) /\ Width \in Nat
    BY BitSequence, WidthAssumption DEF Label
<1>2. Reverse(label) = [b \in 1..Width |-> label[(Width - b) + 1]]
    BY <1>1 DEF Reverse
<1>3. \A b \in 1..Width : (Width - b) + 1 \in 1..Width /\ (Width - b) + 1 = Width + 1 - b
    BY <1>1
<1>4. Reverse(label) \in [1..Width -> 0..1]
    BY <1>2, <1>3 DEF Label
<1>5. Reverse(label) \in Seq(0..1) /\ Len(Reverse(label)) = Width
    BY <1>1, <1>4, BitSequence
<1>6. bitReverse64(label) = Reverse(label)
    BY <1>5 DEF bitReverse64
<1> QED BY <1>2, <1>3, <1>4, <1>6 DEF Label

\* A label reversed twice is that label.
LEMMA ReversedTwice ==
    ASSUME NEW label \in Label
    PROVE  bitReverse64(bitReverse64(label)) = label
<1>1. bitReverse64(label) \in Label /\ bitReverse64(bitReverse64(label)) \in Label
    BY Reversed
<1>2. ASSUME NEW b \in 1..Width PROVE bitReverse64(bitReverse64(label))[b] = label[b]
    <2>1. Width + 1 - b \in 1..Width /\ Width + 1 - (Width + 1 - b) = b
        BY WidthAssumption
    <2>2. bitReverse64(bitReverse64(label))[b] = bitReverse64(label)[Width + 1 - b]
        BY <1>1, Reversed
    <2>3. \A a \in 1..Width : bitReverse64(label)[a] = label[Width + 1 - a]
        BY Reversed
    <2> QED BY <2>1, <2>2, <2>3
<1> QED BY <1>1, <1>2, SameBits

\* A label new is what is left of a label without its first w bits, with a code in their
\* place at the other end.
Replaced(label, c, w, new) ==
    /\ new \in Label
    /\ \A b \in 1..Width - w : new[b] = label[b + w]
    /\ \A b \in 1..w : new[Width + 1 - b] = c[b]
    /\ bitReverse64(new) \in Label
    /\ \A b \in 1..w : bitReverse64(new)[b] = c[b]
    /\ \A b \in w + 1..Width : bitReverse64(new)[b] = label[Width + 1 - b + w]

\* The label a packet leaves with, and its reverse, bit by bit.
LEMMA Leaving ==
    ASSUME NEW s, NEW from, NEW label \in Label, NEW w \in 1..Width,
           code(s, from, w) \in Code(w), NEW new, new = withSource(s, label, from, w)
    PROVE  Replaced(label, code(s, from, w), w, new)
<1> DEFINE c == code(s, from, w)
          head == SubSeq(label, w + 1, Width)
<1>1. Len(label) = Width /\ label \in Seq(0..1) /\ Width \in Nat /\ w \in Nat
    BY BitSequence, WidthAssumption DEF Label
<1>2. Len(c) = w /\ c \in Seq(0..1)
    BY <1>1, BitSequence DEF Code
<1>3. new = head \o Reverse(c)
    BY DEF withSource, code
<1>4. head \in Seq(0..1) /\ Len(head) = Width - w /\ \A b \in 1..Width - w : head[b] = label[b + w]
    BY <1>1
<1> HIDE DEF c, head
<1>5. Reverse(c) = [b \in 1..w |-> c[(w - b) + 1]]
    BY <1>2 DEF Reverse
<1>6. \A b \in 1..w : (w - b) + 1 \in 1..w /\ (w - b) + 1 = w + 1 - b
    BY <1>1
<1>7. Reverse(c) \in [1..w -> 0..1]
    BY <1>5, <1>6 DEF c, Code
<1>8. Reverse(c) \in Seq(0..1) /\ Len(Reverse(c)) = w /\ \A b \in 1..w : Reverse(c)[b] = c[w + 1 - b]
    BY <1>1, <1>5, <1>6, <1>7, BitSequence
<1>9. new \in Seq(0..1) /\ Len(new) = Width
    <2>1. head \o Reverse(c) \in Seq(0..1) /\ Len(head \o Reverse(c)) = Len(head) + Len(Reverse(c))
        BY <1>4, <1>8, Joined
    <2>2. Len(head) + Len(Reverse(c)) = Width
        BY <1>1, <1>4, <1>8
    <2> QED BY ONLY <1>3, <2>1, <2>2
<1>10. new \in Label
    BY <1>9 DEF Label
<1>11. ASSUME NEW b \in 1..Width - w PROVE new[b] = label[b + w]
    BY <1>1, <1>3, <1>4, <1>8
<1>12. ASSUME NEW b \in 1..w PROVE new[Width + 1 - b] = c[b]
    <2>1. Width + 1 - b = (Width - w) + (w + 1 - b) /\ w + 1 - b \in 1..w /\ w + 1 - (w + 1 - b) = b
        BY <1>1
    <2>2. new[(Width - w) + (w + 1 - b)] = Reverse(c)[w + 1 - b]
        <3>1. (Width - w) + (w + 1 - b) \in Len(head) + 1..Len(head) + Len(Reverse(c))
            BY ONLY <1>1, <1>4, <1>8, <2>1
        <3>2. (head \o Reverse(c))[(Width - w) + (w + 1 - b)] = Reverse(c)[(Width - w) + (w + 1 - b) - Len(head)]
            <4>1. head \in Seq(0..1) /\ Reverse(c) \in Seq(0..1)
                BY <1>4, <1>8
            <4>2. \A q \in Len(head) + 1..Len(head) + Len(Reverse(c)) : (head \o Reverse(c))[q] = Reverse(c)[q - Len(head)]
                BY ONLY <4>1, Joined
            <4> QED BY ONLY <1>1, <3>1, <4>2
        <3>3. (Width - w) + (w + 1 - b) - Len(head) = w + 1 - b
            BY ONLY <1>1, <1>4, <2>1
        <3> QED BY ONLY <1>3, <3>2, <3>3
    <2> QED BY <1>8, <2>1, <2>2
<1>13. bitReverse64(new) \in Label /\ \A b \in 1..Width : bitReverse64(new)[b] = new[Width + 1 - b]
    BY <1>10, Reversed
<1>14. ASSUME NEW b \in 1..w PROVE bitReverse64(new)[b] = c[b]
    BY <1>1, <1>12, <1>13
<1>15. ASSUME NEW b \in w + 1..Width PROVE bitReverse64(new)[b] = label[Width + 1 - b + w]
    BY <1>1, <1>11, <1>13
<1> QED BY <1>10, <1>11, <1>12, <1>13, <1>14, <1>15 DEF c, Replaced

-----------------------------------------------------------------------------
(* Hops *)

\* What is used of a label grows by what each node uses.
LEMMA Used ==
    ASSUME NEW l \in Seq(Switch), NEW o, NEW d, NEW k, OnWay(l, o, d, k)
    PROVE  LET n == next(k, d)
               h == hop(l, o, d, k)
           IN  /\ k # o => between(n, k, o)
               /\ h \in 4..10 /\ h \in Nat /\ h \in {need(l, k, d), widest(l, k)} /\ h \in Widths(l[k].scheme)
               /\ used(l, o, d, k) \in Nat
               /\ used(l, o, d, n) = used(l, o, d, k) + h
               /\ used(l, o, d, n) = need(l, o, d) + Bits(l, o, n)
               /\ used(l, o, d, n) <= need(l, o, d) + Bits(l, o, d)
<1> USE DEF OnWay
<1> DEFINE n == next(k, d)
          h == hop(l, o, d, k)
<1>1. /\ k # d /\ n \in 1..Len(l) /\ n # k /\ n # o /\ (n = d \/ between(o, n, d))
      /\ Bits(l, n, k) = 0
      /\ between(o, k, n) <=> k # o
      /\ k # o => between(n, k, o)
    BY NextNode
<1> HIDE DEF n
<1>2. need(l, o, d) \in 4..10 /\ need(l, o, d) \in Nat /\ need(l, o, d) \in Widths(l[o].scheme)
    BY AtPort
<1>3. widest(l, k) \in 4..10 /\ widest(l, k) \in Nat /\ widest(l, k) \in Widths(l[k].scheme)
    BY AtSwitch
<1>4. h \in 4..10 /\ h \in Nat /\ h \in {need(l, k, d), widest(l, k)} /\ h \in Widths(l[k].scheme)
    BY <1>2, <1>3 DEF hop
<1>5. Bits(l, o, n) \in Nat /\ Bits(l, o, d) \in Nat /\ Bits(l, o, n) <= Bits(l, o, d)
    <2>1. CASE n = d BY <2>1, BitsBetween
    <2>2. CASE n # d
        <3>1. /\ Bits(l, o, n) \in Nat /\ Bits(l, n, d) \in Nat /\ widest(l, n) \in Nat
              /\ Bits(l, o, d) = Bits(l, o, n) + widest(l, n) + Bits(l, n, d)
            BY <1>1, <2>2, BitsSplit
        <3> QED BY <3>1
    <2> QED BY <2>1, <2>2
<1>6. used(l, o, d, n) = need(l, o, d) + Bits(l, o, n)
    BY <1>1 DEF used
<1>7. used(l, o, d, k) \in Nat /\ used(l, o, d, n) = used(l, o, d, k) + h
    <2>1. CASE k = o
        <3>1. Bits(l, o, n) = 0
            BY <1>1, <2>1, BitsBetween
        <3> QED BY <1>2, <1>6, <2>1, <3>1 DEF used, hop
    <2>2. CASE k # o
        <3>1. /\ Bits(l, o, k) \in Nat
              /\ Bits(l, o, n) = Bits(l, o, k) + widest(l, k) + Bits(l, k, n)
            BY <1>1, <2>2, BitsSplit
        <3>2. Bits(l, k, n) = 0
            BY <1>1, BitsBetween
        <3>3. used(l, o, d, k) = need(l, o, d) + Bits(l, o, k) /\ h = widest(l, k)
            BY <2>2 DEF used, hop
        <3> HIDE DEF h
        <3>4. need(l, o, d) \in Nat /\ widest(l, k) \in Nat
            BY <1>2, <1>3
        <3> QED BY ONLY <1>6, <3>1, <3>2, <3>3, <3>4
    <2> QED BY <2>1, <2>2
<1>8. used(l, o, d, n) <= need(l, o, d) + Bits(l, o, d)
    BY <1>2, <1>5, <1>6
<1> QED BY <1>1, <1>4, <1>6, <1>7, <1>8 DEF n

\* A label has at a node what its path has there: the code of the port that leads on.
LEMMA PathAt ==
    ASSUME NEW l \in Seq(Switch), NEW o, NEW d, NEW k, OnWay(l, o, d, k),
           NEW x, Path(l, o, d, need(l, o, d), x)
    PROVE  \A b \in 1..hop(l, o, d, k) :
               x[used(l, o, d, k) + b] = code(l[k].scheme, toward(l, k, d), hop(l, o, d, k))[b]
<1>1. CASE k = o
    <2> SUFFICES ASSUME NEW b \in 1..need(l, o, d)
                 PROVE  x[0 + b] = code(l[o].scheme, toward(l, o, d), need(l, o, d))[b]
        BY <1>1 DEF hop, used
    <2>1. need(l, o, d) \in 4..10
        BY AtPort DEF OnWay
    <2>2. 0 + b = b
        BY <2>1
    <2> QED BY <2>2 DEF Path
<1>2. CASE k # o
    <2>1. k \in 1..Len(l) /\ between(o, k, d)
        BY <1>2 DEF OnWay
    <2> QED BY <1>2, <2>1 DEF hop, used, Path
<1> QED BY <1>1, <1>2

\* The same in the label of a packet on its way.
LEMMA LabelAt ==
    ASSUME NEW l \in Seq(Switch), NEW o, NEW d, NEW k, OnWay(l, o, d, k),
           NEW x, Path(l, o, d, need(l, o, d), x),
           NEW label, Forward(l, o, d, x, k, label)
    PROVE  \A b \in 1..hop(l, o, d, k) : label[b] = code(l[k].scheme, toward(l, k, d), hop(l, o, d, k))[b]
<1> DEFINE u == used(l, o, d, k)
          h == hop(l, o, d, k)
<1> SUFFICES ASSUME NEW b \in 1..h PROVE label[b] = code(l[k].scheme, toward(l, k, d), h)[b]
    OBVIOUS
<1>1. h \in 4..10 /\ u \in Nat /\ u + h <= need(l, o, d) + Bits(l, o, d)
    BY Used
<1>2. need(l, o, d) + Bits(l, o, d) < Width
    BY DEF Path
<1>3. need(l, o, d) \in Nat /\ Bits(l, o, d) \in Nat
    <2>1. need(l, o, d) \in 4..10 /\ Bits(l, o, d) \in Nat
        BY AtPort, BitsBetween DEF OnWay
    <2> QED BY <2>1
<1>4. x[u + b] = code(l[k].scheme, toward(l, k, d), h)[b]
    BY PathAt
<1>5. \A a \in 1..Width - u : label[a] = x[u + a]
    BY DEF Forward
<1> HIDE DEF u, h
<1>6. b \in 1..Width - u
    BY <1>1, <1>2, <1>3, WidthAssumption
<1> QED BY <1>4, <1>5, <1>6

\* The bits of the way back that lie behind node k lie behind the next node too, further by
\* what node k adds.
LEMMA Behind ==
    ASSUME NEW l \in Seq(Switch), NEW o, NEW d, NEW k, OnWay(l, o, d, k), k # o,
           NEW m \in 1..Len(l), m = o \/ between(o, m, k)
    PROVE  LET n == next(k, d) IN
           /\ Bits(l, k, m) \in Nat
           /\ Bits(l, n, m) = hop(l, o, d, k) + Bits(l, k, m)
           /\ m # o => widest(l, m) \in Nat /\ Bits(l, n, m) + widest(l, m) <= Bits(l, o, n)
           /\ Bits(l, n, o) = Bits(l, o, n)
<1> USE DEF OnWay
<1> DEFINE n == next(k, d)
<1>1. /\ n \in 1..Len(l) /\ n # k /\ n # o
      /\ Bits(l, n, k) = 0
      /\ between(o, m, k) => between(n, k, m)
      /\ k # o => between(n, k, o)
      /\ between(o, m, n) <=> between(o, m, k) \/ (m = k /\ k # o)
    BY NextNode
<1> HIDE DEF n
<1>2. between(n, k, m)
    BY <1>1
<1>3. /\ Bits(l, k, m) \in Nat /\ widest(l, k) \in Nat
      /\ Bits(l, n, m) = Bits(l, n, k) + widest(l, k) + Bits(l, k, m)
    BY <1>1, <1>2, BitsSplit
<1>4. hop(l, o, d, k) = widest(l, k)
    BY DEF hop
<1>5. Bits(l, n, o) = Bits(l, o, n)
    BY <1>1, BitsBetween
<1>6. m # o => widest(l, m) \in Nat /\ Bits(l, n, m) + widest(l, m) <= Bits(l, o, n)
    <2> SUFFICES ASSUME m # o PROVE widest(l, m) \in Nat /\ Bits(l, n, m) + widest(l, m) <= Bits(l, o, n)
        OBVIOUS
    <2>1. between(n, m, o)
        BY <1>1 DEF between
    <2>2. /\ Bits(l, n, m) \in Nat /\ widest(l, m) \in Nat /\ Bits(l, m, o) \in Nat
          /\ Bits(l, n, o) = Bits(l, n, m) + widest(l, m) + Bits(l, m, o)
        BY <1>1, <2>1, BitsSplit
    <2> QED BY ONLY <1>5, <2>2
<1>7. Bits(l, n, m) = hop(l, o, d, k) + Bits(l, k, m)
    BY ONLY <1>1, <1>3, <1>4
<1> QED BY <1>3, <1>5, <1>6, <1>7 DEF n

\* A hop: the label that leaves node k towards d is what it should be at the next node.
LEMMA HopOn ==
    ASSUME NEW l \in Seq(Switch), NEW o, NEW d, NEW k, OnWay(l, o, d, k),
           NEW x, Path(l, o, d, need(l, o, d), x),
           NEW label, Forward(l, o, d, x, k, label),
           NEW new \in Label,
           \A b \in 1..Width - hop(l, o, d, k) : new[b] = label[b + hop(l, o, d, k)],
           \A b \in 1..hop(l, o, d, k) :
               new[Width + 1 - b] = code(l[k].scheme, toward(l, k, o), hop(l, o, d, k))[b]
    PROVE  Forward(l, o, d, x, next(k, d), new)
<1> DEFINE n == next(k, d)
          h == hop(l, o, d, k)
          u == used(l, o, d, k)
          w == need(l, o, d)
<1>1. /\ n \in 1..Len(l) /\ n # o
      /\ \A m \in 1..Len(l) : between(o, m, n) <=> between(o, m, k) \/ (m = k /\ k # o)
      /\ Bits(l, n, k) = 0
    BY NextNode DEF OnWay
<1>2. /\ h \in Nat /\ u \in Nat /\ used(l, o, d, n) = u + h
      /\ used(l, o, d, n) = w + Bits(l, o, n)
      /\ used(l, o, d, n) <= w + Bits(l, o, d)
    BY Used
<1>3. w \in Nat /\ Bits(l, o, d) \in Nat /\ Bits(l, o, n) \in Nat
    BY <1>1, AtPort, BitsBetween DEF OnWay
<1>4. w + Bits(l, o, d) < Width /\ Width \in Nat
    BY WidthAssumption DEF Path
<1>5. \A b \in 1..Width - u : label[b] = x[u + b]
    BY DEF Forward
<1>6. \A b \in 1..Width - h : new[b] = label[b + h]
    OBVIOUS
<1>7. k # o => /\ \A m \in 1..Len(l) : between(o, m, k) =>
                    \A b \in 1..widest(l, m) :
                        label[Width + 1 - Bits(l, k, m) - b] = code(l[m].scheme, toward(l, m, o), widest(l, m))[b]
               /\ \A b \in 1..w : label[Width + 1 - Bits(l, k, o) - b] = ending(w)[b]
    BY DEF Forward
<1>8. \A b \in 1..h : new[Width + 1 - b] = code(l[k].scheme, toward(l, k, o), h)[b]
    OBVIOUS
<1>9. k # o => \A m \in 1..Len(l) : m = o \/ between(o, m, k) =>
            /\ Bits(l, k, m) \in Nat
            /\ Bits(l, n, m) = h + Bits(l, k, m)
            /\ m # o => widest(l, m) \in Nat /\ Bits(l, n, m) + widest(l, m) <= Bits(l, o, n)
            /\ Bits(l, n, o) = Bits(l, o, n)
    BY Behind
<1>10. h = IF k = o THEN w ELSE widest(l, k)
    BY DEF hop
<1>11. k = o => Bits(l, n, o) = 0 /\ \A b \in 1..w : code(l[k].scheme, toward(l, k, o), h)[b] = ending(w)[b]
    <2> SUFFICES ASSUME k = o PROVE code(l[o].scheme, toward(l, o, o), w) = ending(w)
        BY <1>1, <1>10
    <2>1. toward(l, o, o) = RouterPort
        BY DEF toward, OnWay
    <2>2. l[o].scheme \in Scheme /\ w \in Widths(l[o].scheme)
        BY AtSwitch, AtPort DEF OnWay
    <2> QED BY <2>1, <2>2, RouterCode
<1> HIDE DEF n, h, u, w
<1>12. ASSUME NEW b \in 1..Width - (u + h) PROVE new[b] = x[u + h + b]
    <2>1. b \in 1..Width - h /\ b + h \in 1..Width - u /\ u + (b + h) = u + h + b
        BY <1>2, <1>4
    <2> QED BY <1>5, <1>6, <2>1
<1>13. ASSUME NEW m \in 1..Len(l), between(o, m, n), NEW b \in 1..widest(l, m)
       PROVE  new[Width + 1 - Bits(l, n, m) - b] = code(l[m].scheme, toward(l, m, o), widest(l, m))[b]
    <2>1. CASE m = k /\ k # o
        <3>1. Width + 1 - Bits(l, n, m) - b = Width + 1 - b /\ b \in 1..h /\ h = widest(l, m)
            BY <1>1, <1>2, <1>4, <1>10, <2>1
        <3> QED BY <1>8, <2>1, <3>1
    <2>2. CASE between(o, m, k) /\ k # o
        <3>1. /\ Bits(l, k, m) \in Nat
              /\ Bits(l, n, m) = h + Bits(l, k, m)
              /\ m # o /\ widest(l, m) \in Nat /\ Bits(l, n, m) + widest(l, m) <= Bits(l, o, n)
            BY <1>9, <2>2 DEF between
        <3>2. /\ Width + 1 - Bits(l, n, m) - b \in 1..Width - h
              /\ Width + 1 - Bits(l, n, m) - b + h = Width + 1 - Bits(l, k, m) - b
            <4>1. b \in Nat /\ 1 <= b /\ b <= widest(l, m)
                BY <3>1
            <4>2. w + Bits(l, o, n) < Width
                BY <1>2, <1>3, <1>4
            <4>3. h + Bits(l, k, m) + b <= Width
                BY ONLY <1>2, <1>3, <1>4, <3>1, <4>1, <4>2
            <4>4. /\ Width + 1 - (h + Bits(l, k, m)) - b \in 1..Width - h
                  /\ Width + 1 - (h + Bits(l, k, m)) - b + h = Width + 1 - Bits(l, k, m) - b
                BY ONLY <1>2, <1>4, <3>1, <4>1, <4>3, SMTT(40)
            <4> QED BY ONLY <3>1, <4>4, Zenon
        <3> QED BY <1>6, <1>7, <2>2, <3>2
    <2>3. CASE k = o
        BY <1>1, <1>13, <2>3 DEF between, OnWay
    <2> QED BY <1>1, <1>13, <2>1, <2>2, <2>3
<1>14. ASSUME NEW b \in 1..w
       PROVE  new[Width + 1 - Bits(l, n, o) - b] = ending(w)[b]
    <2>1. CASE k = o
        <3>1. Width + 1 - Bits(l, n, o) - b = Width + 1 - b /\ b \in 1..h
            BY <1>3, <1>4, <1>10, <1>11, <2>1
        <3> QED BY <1>8, <1>11, <2>1, <3>1
    <2>2. CASE k # o
        <3>1. /\ Bits(l, k, o) \in Nat
              /\ Bits(l, n, o) = h + Bits(l, k, o)
              /\ Bits(l, n, o) = Bits(l, o, n)
            BY <1>9, <2>2 DEF OnWay
        <3>2. /\ Width + 1 - Bits(l, n, o) - b \in 1..Width - h
              /\ Width + 1 - Bits(l, n, o) - b + h = Width + 1 - Bits(l, k, o) - b
            <4>1. b \in Nat /\ 1 <= b /\ b <= w
                BY <1>3
            <4>2. w + Bits(l, o, n) < Width
                BY <1>2, <1>3, <1>4
            <4>3. h + Bits(l, k, o) + b <= Width
                BY ONLY <1>2, <1>3, <1>4, <3>1, <4>1, <4>2
            <4>4. /\ Width + 1 - (h + Bits(l, k, o)) - b \in 1..Width - h
                  /\ Width + 1 - (h + Bits(l, k, o)) - b + h = Width + 1 - Bits(l, k, o) - b
                BY ONLY <1>2, <1>4, <3>1, <4>1, <4>3
            <4> QED BY ONLY <3>1, <4>4, Zenon
        <3> QED BY <1>6, <1>7, <2>2, <3>2
    <2> QED BY <2>1, <2>2
<1>15. used(l, o, d, n) = u + h
    BY <1>2
<1> QED BY <1>12, <1>13, <1>14, <1>15 DEF Forward, n, w

\* A hop back: if the reverse of a label is what it should be at the node after k, the
\* reverse of the label that leaves k is what it should be at k.
LEMMA HopBack ==
    ASSUME NEW l \in Seq(Switch), NEW o, NEW d, NEW k, OnWay(l, o, d, k),
           NEW x, Path(l, o, d, need(l, o, d), x),
           NEW rev, Forward(l, o, d, x, next(k, d), rev),
           NEW new \in Label,
           \A b \in 1..hop(l, o, d, k) : new[b] = code(l[k].scheme, toward(l, k, d), hop(l, o, d, k))[b],
           \A b \in hop(l, o, d, k) + 1..Width : new[b] = rev[b - hop(l, o, d, k)]
    PROVE  Forward(l, o, d, x, k, new)
<1> DEFINE n == next(k, d)
          h == hop(l, o, d, k)
          u == used(l, o, d, k)
          w == need(l, o, d)
<1>1. /\ n \in 1..Len(l) /\ n # o
      /\ \A m \in 1..Len(l) : between(o, m, n) <=> between(o, m, k) \/ (m = k /\ k # o)
    BY NextNode DEF OnWay
<1>2. /\ h \in Nat /\ u \in Nat /\ used(l, o, d, n) = u + h
      /\ used(l, o, d, n) = w + Bits(l, o, n)
      /\ used(l, o, d, n) <= w + Bits(l, o, d)
    BY Used
<1>3. w \in Nat /\ Bits(l, o, d) \in Nat /\ Bits(l, o, n) \in Nat
    BY <1>1, AtPort, BitsBetween DEF OnWay
<1>4. w + Bits(l, o, d) < Width /\ Width \in Nat
    BY WidthAssumption DEF Path
<1>5. /\ \A b \in 1..Width - (u + h) : rev[b] = x[u + h + b]
      /\ \A m \in 1..Len(l) : between(o, m, n) =>
            \A b \in 1..widest(l, m) :
                rev[Width + 1 - Bits(l, n, m) - b] = code(l[m].scheme, toward(l, m, o), widest(l, m))[b]
      /\ \A b \in 1..w : rev[Width + 1 - Bits(l, n, o) - b] = ending(w)[b]
    BY <1>1, <1>2 DEF Forward
<1>6. \A b \in h + 1..Width : new[b] = rev[b - h]
    OBVIOUS
<1>7. \A b \in 1..h : new[b] = x[u + b]
    <2>1. \A b \in 1..h : x[u + b] = code(l[k].scheme, toward(l, k, d), h)[b]
        BY PathAt
    <2> QED BY <2>1
<1>8. k # o => \A m \in 1..Len(l) : m = o \/ between(o, m, k) =>
            /\ Bits(l, k, m) \in Nat
            /\ Bits(l, n, m) = h + Bits(l, k, m)
            /\ m # o => widest(l, m) \in Nat /\ Bits(l, n, m) + widest(l, m) <= Bits(l, o, n)
            /\ Bits(l, n, o) = Bits(l, o, n)
    BY Behind
<1> HIDE DEF n, h, u, w
<1>9. ASSUME NEW b \in 1..Width - u PROVE new[b] = x[u + b]
    <2>1. CASE b <= h
        BY <1>2, <1>7, <2>1
    <2>2. CASE ~(b <= h)
        <3>1. b \in h + 1..Width /\ b - h \in 1..Width - (u + h) /\ u + h + (b - h) = u + b
            BY <1>2, <1>4, <2>2
        <3> QED BY <1>5, <1>6, <3>1
    <2> QED BY <2>1, <2>2
<1>10. ASSUME k # o, NEW m \in 1..Len(l), between(o, m, k), NEW b \in 1..widest(l, m)
       PROVE  new[Width + 1 - Bits(l, k, m) - b] = code(l[m].scheme, toward(l, m, o), widest(l, m))[b]
    <2>1. /\ Bits(l, k, m) \in Nat
          /\ Bits(l, n, m) = h + Bits(l, k, m)
          /\ m # o /\ widest(l, m) \in Nat /\ Bits(l, n, m) + widest(l, m) <= Bits(l, o, n)
        BY <1>8, <1>10 DEF between
    <2>2. b \in Nat /\ 1 <= b /\ b <= widest(l, m) /\ Bits(l, n, m) \in Nat
        BY <1>2, <2>1
    <2>3. w + Bits(l, o, n) < Width
        BY <1>2, <1>3, <1>4
    <2> DEFINE q == Width + 1 - Bits(l, k, m) - b
    <2>4. h + Bits(l, k, m) + b <= Width
        BY ONLY <1>2, <1>3, <1>4, <2>1, <2>2, <2>3, SMTT(40)
    <2>5. q \in h + 1..Width
        BY ONLY <1>2, <1>4, <2>1, <2>2, <2>4, SMTT(40)
    <2>6. q - h = Width + 1 - Bits(l, n, m) - b
        BY ONLY <1>2, <1>4, <2>1, <2>2, SMTT(40)
    <2> HIDE DEF q
    <2>7. between(o, m, n)
        BY <1>1, <1>10
    <2>8. new[q] = code(l[m].scheme, toward(l, m, o), widest(l, m))[b]
        BY <1>5, <1>6, <2>5, <2>6, <2>7
    <2> QED BY <2>8 DEF q
<1>11. ASSUME k # o, NEW b \in 1..w PROVE new[Width + 1 - Bits(l, k, o) - b] = ending(w)[b]
    <2>1. /\ Bits(l, k, o) \in Nat
          /\ Bits(l, n, o) = h + Bits(l, k, o)
          /\ Bits(l, n, o) = Bits(l, o, n)
        BY <1>8, <1>11 DEF OnWay
    <2>2. b \in Nat /\ 1 <= b /\ b <= w /\ Bits(l, n, o) \in Nat
        BY <1>2, <1>3, <2>1
    <2>3. w + Bits(l, o, n) < Width
        BY <1>2, <1>3, <1>4
    <2> DEFINE q == Width + 1 - Bits(l, k, o) - b
    <2>4. h + Bits(l, k, o) + b <= Width
        BY ONLY <1>2, <1>3, <1>4, <2>1, <2>2, <2>3
    <2>5. q \in h + 1..Width
        BY ONLY <1>2, <1>4, <2>1, <2>2, <2>4
    <2>6. q - h = Width + 1 - Bits(l, n, o) - b
        BY ONLY <1>2, <1>4, <2>1, <2>2
    <2> HIDE DEF q
    <2>7. new[q] = ending(w)[b]
        BY <1>5, <1>6, <2>5, <2>6
    <2> QED BY <2>7 DEF q
<1> QED BY <1>9, <1>10, <1>11 DEF Forward, u, w

\* The label of a packet at the end of its way: the end mark, zeros up to the mark of the
\* way back, and the way back.
LEMMA AtEnd ==
    ASSUME NEW l \in Seq(Switch), NEW o \in 1..Len(l), NEW d \in 1..Len(l), o # d,
           NEW x, Path(l, o, d, need(l, o, d), x),
           NEW label, Forward(l, o, d, x, d, label)
    PROVE  /\ label \in Label
           /\ Bits(l, d, o) \in Nat /\ Width - Bits(l, d, o) > 4
           /\ label[1] = 1
           /\ \A b \in 2..Width - Bits(l, d, o) - 1 : label[b] = 0
           /\ label[Width - Bits(l, d, o)] = 1
           /\ \A m \in 1..Len(l) : between(d, m, o) =>
                \A b \in 1..widest(l, m) :
                    label[Width + 1 - Bits(l, d, m) - b] = code(l[m].scheme, toward(l, m, o), widest(l, m))[b]
<1> DEFINE B == Bits(l, d, o)
          w == need(l, o, d)
          u == w + B
<1>1. B \in Nat /\ Bits(l, o, d) = B /\ w \in Nat /\ w \in 4..10
    BY AtPort, BitsBetween
<1>2. used(l, o, d, d) = u
    BY <1>1 DEF used
<1>3. /\ label \in Label
      /\ \A b \in 1..Width - u : label[b] = x[u + b]
      /\ \A m \in 1..Len(l) : between(o, m, d) =>
            \A b \in 1..widest(l, m) :
                label[Width + 1 - Bits(l, d, m) - b] = code(l[m].scheme, toward(l, m, o), widest(l, m))[b]
      /\ \A b \in 1..w : label[Width + 1 - B - b] = ending(w)[b]
    BY <1>2 DEF Forward
<1>4. u < Width /\ Width \in Nat /\ x[u + 1] = 1 /\ \A b \in u + 2..Width : x[b] = 0
    BY <1>1, WidthAssumption DEF Path
<1>5. \A m \in 1..Len(l) : between(d, m, o) => between(o, m, d)
    BY DEF between
<1> HIDE DEF B, w
<1>6. Width - B > 4
    <2>1. w \in Nat /\ w >= 4
        BY ONLY <1>1
    <2> QED BY <1>1, <1>4, <2>1
<1>7. label[1] = 1
    <2>1. 1 \in 1..Width - u
        BY <1>1, <1>4
    <2> QED BY <1>3, <1>4, <2>1
<1>8. ASSUME NEW b \in 2..Width - B - 1 PROVE label[b] = 0
    <2>1. CASE b <= Width - u
        <3>1. b \in 1..Width - u /\ u + b \in u + 2..Width
            BY <1>1, <1>4, <2>1
        <3> QED BY <1>3, <1>4, <3>1
    <2>2. CASE b > Width - u
        <3> DEFINE a == Width + 1 - B - b
        <3>1. a \in 2..w /\ a \in 1..w
            BY <1>1, <1>4, <2>2
        <3>2. Width + 1 - B - a = b
            BY <1>1, <1>4
        <3> HIDE DEF a
        <3>3. ending(w)[a] = 0
            BY <1>1, <3>1 DEF ending
        <3> QED BY <1>3, <3>1, <3>2, <3>3
    <2> QED BY <1>1, <1>4, <2>1, <2>2
<1>9. label[Width - B] = 1
    <2>1. 1 \in 1..w /\ Width + 1 - B - 1 = Width - B
        BY <1>1, <1>4
    <2>2. ending(w)[1] = 1
        BY <1>1, <2>1 DEF ending
    <2> QED BY <1>3, <2>1, <2>2
<1> QED BY <1>1, <1>3, <1>5, <1>6, <1>7, <1>8, <1>9 DEF B

\* What a node answers on is a label back to where the packet came from, and still has all
\* that the packet had.
LEMMA Answer ==
    ASSUME NEW l \in Seq(Switch), NEW o \in 1..Len(l), NEW d \in 1..Len(l), o # d,
           NEW x, Path(l, o, d, need(l, o, d), x),
           NEW label, Forward(l, o, d, x, d, label),
           need(l, d, o) + Bits(l, d, o) < Width,
           NEW src \in Label,
           \A b \in 1..need(l, d, o) : src[b] = code(l[d].scheme, toward(l, d, o), need(l, d, o))[b],
           \A b \in need(l, d, o) + 1..Width : src[b] = label[Width + 1 - b + need(l, d, o)]
    PROVE  /\ Path(l, d, o, need(l, d, o), src)
           /\ Forward(l, o, d, x, d, answered(src, need(l, d, o)))
<1> DEFINE v == need(l, d, o)
          B == Bits(l, d, o)
<1>1. /\ label \in Label
      /\ B \in Nat
      /\ label[1] = 1
      /\ \A b \in 2..Width - B - 1 : label[b] = 0
      /\ label[Width - B] = 1
    BY AtEnd
<1>2. \A m \in 1..Len(l) : between(d, m, o) =>
          \A b \in 1..widest(l, m) :
              label[Width + 1 - Bits(l, d, m) - b] = code(l[m].scheme, toward(l, m, o), widest(l, m))[b]
    BY AtEnd
<1>3. v \in Nat /\ v >= 4 /\ v + B < Width /\ Width \in Nat
    <2>1. v \in 4..10 /\ v \in Nat
        BY AtPort
    <2> QED BY ONLY <2>1, WidthAssumption, v + B < Width
<1>4. /\ \A b \in 1..v : src[b] = code(l[d].scheme, toward(l, d, o), v)[b]
      /\ \A b \in v + 1..Width : src[b] = label[Width + 1 - b + v]
    OBVIOUS
<1>5. \A m \in 1..Len(l) : between(d, m, o) =>
          /\ Bits(l, d, m) \in Nat /\ widest(l, m) \in Nat
          /\ Bits(l, d, m) + widest(l, m) <= B
    <2> SUFFICES ASSUME NEW m \in 1..Len(l), between(d, m, o)
                 PROVE  /\ Bits(l, d, m) \in Nat /\ widest(l, m) \in Nat
                        /\ Bits(l, d, m) + widest(l, m) <= B
        OBVIOUS
    <2>1. /\ Bits(l, d, m) \in Nat /\ widest(l, m) \in Nat /\ Bits(l, m, o) \in Nat
          /\ B = Bits(l, d, m) + widest(l, m) + Bits(l, m, o)
        BY BitsSplit
    <2> QED BY ONLY <1>1, <2>1
<1> HIDE DEF v, B
<1>6. ASSUME NEW m \in 1..Len(l), between(d, m, o), NEW b \in 1..widest(l, m)
      PROVE  src[v + Bits(l, d, m) + b] = code(l[m].scheme, toward(l, m, o), widest(l, m))[b]
    <2> DEFINE q == v + Bits(l, d, m) + b
    <2>1. Bits(l, d, m) \in Nat /\ widest(l, m) \in Nat /\ Bits(l, d, m) + widest(l, m) <= B
        BY <1>5, <1>6
    <2>2. b \in Nat /\ 1 <= b /\ b <= widest(l, m)
        BY <2>1
    <2>3. q \in v + 1..Width
        BY ONLY <1>1, <1>3, <2>1, <2>2
    <2>4. Width + 1 - q + v = Width + 1 - Bits(l, d, m) - b
        BY ONLY <1>3, <2>1, <2>2, SMTT(40)
    <2>5. src[q] = label[Width + 1 - q + v]
        <3> HIDE DEF q
        <3> QED BY <1>4, <2>3
    <2> QED BY <1>2, <1>6, <2>4, <2>5
<1>7. src[v + B + 1] = 1
    <2>1. v + B + 1 \in v + 1..Width /\ Width + 1 - (v + B + 1) + v = Width - B
        BY <1>1, <1>3
    <2> QED BY <1>1, <1>4, <2>1
<1>8. ASSUME NEW b \in v + B + 2..Width PROVE src[b] = 0
    <2>1. b \in v + 1..Width /\ Width + 1 - b + v \in 2..Width - B - 1
        BY <1>1, <1>3
    <2> QED BY <1>1, <1>4, <2>1
<1>9. Path(l, d, o, v, src)
    BY <1>3, <1>4, <1>6, <1>7, <1>8 DEF Path, B
<1>10. answered(src, v) = label
    <2> DEFINE a == answered(src, v)
    <2>1. ASSUME NEW b \in 1..Width PROVE a[b] = label[b] /\ a[b] \in 0..1
        <3>0. label[b] \in 0..1
            BY <1>1 DEF Label
        <3>1. CASE b <= v
            <4>1. a[b] = IF b = 1 THEN 1 ELSE 0
                BY <1>3, <3>1 DEF answered, ending
            <4>2. b # 1 => b \in 2..Width - B - 1
                BY <1>1, <1>3, <3>1
            <4> QED BY <1>1, <3>0, <4>1, <4>2
        <3>2. CASE ~(b <= v)
            <4>1. a[b] = src[Width + 1 + v - b]
                BY <3>2 DEF answered
            <4>2. Width + 1 + v - b \in v + 1..Width /\ Width + 1 - (Width + 1 + v - b) + v = b
                BY <1>3, <3>2
            <4> QED BY <1>4, <3>0, <4>1, <4>2
        <3> QED BY <3>1, <3>2
    <2>2. a \in Label
        <3>1. a = [b \in 1..Width |-> a[b]]
            BY DEF answered
        <3> HIDE DEF a
        <3> QED BY <2>1, <3>1 DEF Label
    <2> HIDE DEF a
    <2>3. a = label
        BY <1>1, <2>1, <2>2, SameBits
    <2> QED BY <2>3 DEF a
<1> QED BY <1>9, <1>10 DEF v

-----------------------------------------------------------------------------
(* The switch: SwitchCore.c *)

\* The port towards a node has an interface, and leads to the next node.
LEMMA Across ==
    ASSUME line \in Seq(Switch), NEW k \in 1..Len(line), NEW d \in 1..Len(line), k # d
    PROVE  /\ toward(line, k, d) \in ports(k)
           /\ across(k, toward(line, k, d)).at = next(k, d)
           /\ across(k, toward(line, k, d)).from = toward(line, next(k, d), k)
<1>1. line[k].back # line[k].fwd
    BY AtSwitch
<1>2. CASE k < d
    <2>1. toward(line, k, d) = line[k].fwd /\ next(k, d) = k + 1
        BY <1>2 DEF toward, next
    <2>2. toward(line, k + 1, k) = line[k + 1].back
        BY <1>2 DEF toward
    <2> QED BY <1>2, <2>1, <2>2 DEF ports, across
<1>3. CASE d < k
    <2>1. toward(line, k, d) = line[k].back /\ next(k, d) = k - 1
        BY <1>3 DEF toward, next
    <2>2. toward(line, k - 1, k) = line[k - 1].fwd
        BY <1>3 DEF toward
    <2> QED BY <1>1, <1>3, <2>1, <2>2 DEF ports, across
<1> QED BY <1>2, <1>3

\* The greater of two numbers.
LEMMA MaxOfTwo ==
    ASSUME NEW a \in Nat, NEW c \in Nat
    PROVE  Max({a, c}) = IF a < c THEN c ELSE a
<1>1. CASE a < c
    BY <1>1 DEF Max
<1>2. CASE ~(a < c)
    BY <1>2 DEF Max
<1> QED BY <1>1, <1>2

\* A switch that reads a port from h bits, and writes one that needs no more.
LEMMA Passed ==
    ASSUME line \in Seq(Switch), NEW k \in 1..Len(line), NEW from, NEW label,
           NEW h \in Nat, bitsUsedForLabel(line[k].scheme, label) = h,
           NEW p \in ports(k), p # RouterPort, getDecompressed(line[k].scheme, label, h) = p,
           NEW c \in Nat, bitsUsedForNumber(line[k].scheme, from) = c, c <= h
    PROVE  LET out == receiveMessage(k, from, label) IN
           out.ok /\ out.port = p /\ out.label = withSource(line[k].scheme, label, from, h)
<1>1. Max({h, c}) = h
    BY MaxOfTwo
<1>2. fits(label, p, c, h)
    BY DEF fits
<1> QED BY <1>1, <1>2 DEF receiveMessage

\* A packet on its way is passed on by every switch, to the next node and with the label it
\* should have there.
LEMMA SwitchOn ==
    ASSUME line \in Seq(Switch), NEW o, NEW d, NEW k, OnWay(line, o, d, k),
           NEW x, Path(line, o, d, need(line, o, d), x),
           NEW label, Forward(line, o, d, x, k, label)
    PROVE  LET out == receiveMessage(k, toward(line, k, o), label) IN
           /\ out.ok /\ out.port = toward(line, k, d) /\ out.port # RouterPort
           /\ out.label \in Label
           /\ Forward(line, o, d, x, next(k, d), out.label)
           /\ k = o => bitReverse64(out.label) = answered(label, need(line, o, d))
<1> DEFINE s == line[k].scheme
          h == hop(line, o, d, k)
          from == toward(line, k, o)
          c == bitsUsedForNumber(s, from)
          out == receiveMessage(k, from, label)
          new == withSource(s, label, from, h)
<1>1. /\ o \in 1..Len(line) /\ d \in 1..Len(line) /\ k \in 1..Len(line) /\ o # d /\ k # d
    BY DEF OnWay, between
<1>2. h \in 4..10 /\ h \in Nat /\ h \in {need(line, k, d), widest(line, k)} /\ h \in Widths(s)
    BY Used
<1>3. \A b \in 1..h : label[b] = code(s, toward(line, k, d), h)[b]
    BY LabelAt
<1>4. bitsUsedForLabel(s, label) = h /\ getDecompressed(s, label, h) = toward(line, k, d)
    <2> HIDE DEF h
    <2> QED BY <1>1, <1>2, <1>3, ReadPort, ZenonT(40)
<1>5. c \in Nat /\ c <= h
    <2>1. CASE k = o
        <3>1. from = RouterPort
            BY <1>1, <2>1 DEF toward
        <3>2. c = 4
            BY <1>1, <1>2, <3>1, AtSwitch, RouterCode
        <3> QED BY <1>2, <3>2
    <2>2. CASE k # o
        <3>1. h = widest(line, k) /\ c = need(line, k, o)
            BY <2>2 DEF hop, need
        <3> QED BY <1>1, <2>2, <3>1, AtPort
    <2> QED BY <2>1, <2>2
<1>6. toward(line, k, d) \in ports(k) /\ toward(line, k, d) # RouterPort
    BY <1>1, Across, AtPort
<1>7. out.ok /\ out.port = toward(line, k, d) /\ out.label = new
    <2> HIDE DEF h, from
    <2> QED BY <1>1, <1>2, <1>4, <1>5, <1>6, Passed
<1>8. label \in Label /\ h \in 1..Width
    <2>1. Width \in Nat /\ Width > 14
        BY WidthAssumption
    <2> QED BY <1>2, <2>1 DEF Forward
<1>9. code(s, from, h) \in Code(h)
    <2>1. s \in Scheme
        BY <1>1, AtSwitch
    <2>2. CASE k = o
        <3>1. from = RouterPort
            BY <1>1, <2>2 DEF toward
        <3>2. code(s, from, h) = ending(h)
            BY <1>2, <2>1, <3>1, RouterCode
        <3> QED BY <3>2 DEF ending, Code
    <2>3. CASE k # o
        <3>1. from \in 0..INTERFACES(s) - 1
            BY <1>1, <2>3, AtPort
        <3> QED BY <1>2, <2>1, <3>1, CodeType
    <2> QED BY <2>2, <2>3
<1>10. /\ new \in Label
       /\ \A b \in 1..Width - h : new[b] = label[b + h]
       /\ \A b \in 1..h : new[Width + 1 - b] = code(s, from, h)[b]
       /\ bitReverse64(new) \in Label
       /\ \A b \in 1..h : bitReverse64(new)[b] = code(s, from, h)[b]
       /\ \A b \in h + 1..Width : bitReverse64(new)[b] = label[Width + 1 - b + h]
    <2> HIDE DEF s, h, from
    <2> HIDE DEF new
    <2>1. new = withSource(s, label, from, h)
        BY DEF new
    <2>2. label \in Label /\ h \in 1..Width /\ code(s, from, h) \in Code(h)
        BY <1>8, <1>9
    <2>3. Replaced(label, code(s, from, h), h, new)
        BY ONLY <2>1, <2>2, Leaving
    <2> QED BY ONLY <2>3 DEF Replaced
<1>11. Forward(line, o, d, x, next(k, d), new)
    <2> HIDE DEF new
    <2> QED BY <1>10, HopOn
<1>12. ASSUME k = o PROVE bitReverse64(new) = answered(label, need(line, o, d))
    <2>1. h = need(line, o, d) /\ code(s, from, h) = ending(h)
        <3>1. from = RouterPort
            BY <1>1, <1>12 DEF toward
        <3> QED BY <1>1, <1>2, <1>12, <3>1, RouterCode, AtSwitch DEF hop
    <2> HIDE DEF new, h, from
    <2> DEFINE r == bitReverse64(new)
    <2>2. ASSUME NEW b \in 1..Width
          PROVE  r[b] = IF b <= h THEN ending(h)[b] ELSE label[Width + 1 + h - b]
        <3>1. CASE b <= h
            BY <1>2, <1>10, <2>1, <3>1
        <3>2. CASE ~(b <= h)
            <4>1. b \in h + 1..Width /\ Width + 1 - b + h = Width + 1 + h - b
                BY <1>2, <3>2, WidthAssumption
            <4> QED BY <1>10, <3>2, <4>1
        <3> QED BY <3>1, <3>2
    <2>3. r = [b \in 1..Width |-> r[b]]
        BY <1>10 DEF Label
    <2> HIDE DEF r
    <2>4. r = answered(label, h)
        BY <2>2, <2>3 DEF answered
    <2> QED BY <2>1, <2>4 DEF r
<1> QED BY <1>6, <1>7, <1>10, <1>11, <1>12

\* A switch that reads the end mark, and writes a port that needs w bits.
LEMMA Ended ==
    ASSUME line \in Seq(Switch), NEW k \in 1..Len(line), NEW from, NEW label \in Label,
           label[1] = 1, label[2] = 0, label[3] = 0, label[4] = 0,
           NEW w \in Nat, w >= 4, bitsUsedForNumber(line[k].scheme, from) = w
    PROVE  LET out == receiveMessage(k, from, label) IN
           /\ out.ok <=> (w > 4 => \A b \in 2..w : label[b] = 0)
           /\ out.port = RouterPort
           /\ out.label = withSource(line[k].scheme, label, from, w)
<1> DEFINE s == line[k].scheme
<1>1. bitsUsedForLabel(s, label) = 4 /\ getDecompressed(s, label, 4) = RouterPort /\ field(label, 0, 4) = 1
    BY AtSwitch, ReadRouter
<1>2. Max({4, w}) = w
    BY MaxOfTwo
<1>3. RouterPort \in ports(k)
    BY DEF ports
<1>4. fits(label, RouterPort, w, 4) <=> (w > 4 => \A b \in 2..w : label[b] = 0)
    BY DEF fits
<1> QED BY <1>1, <1>2, <1>3, <1>4 DEF receiveMessage

\* A packet that goes back is passed on by every switch, to the node before; at the origin it
\* is taken, and its label reversed is the label that was used.
LEMMA SwitchBack ==
    ASSUME line \in Seq(Switch), NEW o, NEW d, NEW k, OnWay(line, o, d, k),
           NEW x, Path(line, o, d, need(line, o, d), x),
           NEW label \in Label, Forward(line, o, d, x, next(k, d), bitReverse64(label))
    PROVE  LET out == receiveMessage(k, toward(line, k, d), label) IN
           /\ out.ok /\ out.port = toward(line, k, o)
           /\ out.label \in Label
           /\ Forward(line, o, d, x, k, bitReverse64(out.label))
           /\ k = o => bitReverse64(out.label) = x
<1> DEFINE s == line[k].scheme
          h == hop(line, o, d, k)
          n == next(k, d)
          w == need(line, o, d)
          from == toward(line, k, d)
          out == receiveMessage(k, from, label)
          rev == bitReverse64(label)
          new == withSource(s, label, from, h)
<1>1. /\ o \in 1..Len(line) /\ d \in 1..Len(line) /\ k \in 1..Len(line) /\ o # d /\ k # d
    BY DEF OnWay, between
<1>2. /\ n \in 1..Len(line) /\ n # o /\ Bits(line, n, k) = 0
      /\ between(o, k, n) <=> k # o
    BY <1>1, NextNode DEF OnWay
<1>3. h \in 4..10 /\ h \in Nat /\ h >= 4 /\ h \in {need(line, k, d), widest(line, k)} /\ h \in Widths(s) /\ h \in 1..Width
    <2>1. h \in 4..10 /\ h \in Nat /\ h \in {need(line, k, d), widest(line, k)} /\ h \in Widths(s)
        BY Used
    <2>2. Width \in Nat /\ Width > 14
        BY WidthAssumption
    <2> QED BY <2>1, <2>2
<1>4. rev \in Label /\ \A b \in 1..Width : rev[b] = label[Width + 1 - b]
    BY Reversed
<1>5. s \in Scheme
    BY <1>1, AtSwitch
<1>6. from \in 0..INTERFACES(s) - 1 /\ from # RouterPort /\ bitsUsedForNumber(s, from) = need(line, k, d)
    BY <1>1, AtPort DEF need
<1>7. need(line, k, d) \in Nat /\ need(line, k, d) <= h
    BY <1>1, <1>3, AtPort DEF hop
<1>8. code(s, from, h) \in Code(h)
    BY <1>3, <1>5, <1>6, CodeType
<1>9. \A b \in 1..h : label[b] = IF k = o THEN ending(w)[b] ELSE code(s, toward(line, k, o), h)[b]
    <2> SUFFICES ASSUME NEW b \in 1..h
                 PROVE  label[b] = IF k = o THEN ending(w)[b] ELSE code(s, toward(line, k, o), h)[b]
        OBVIOUS
    <2>1. Width + 1 - b \in 1..Width /\ Width + 1 - (Width + 1 - b) = b /\ Width + 1 - 0 - b = Width + 1 - b
        BY <1>3, WidthAssumption
    <2>2. label[b] = rev[Width + 1 - b]
        <3> HIDE DEF rev
        <3> QED BY <1>4, <2>1
    <2>3. CASE k = o
        <3>1. \A a \in 1..w : rev[Width + 1 - Bits(line, n, o) - a] = ending(w)[a]
            BY <1>2 DEF Forward
        <3>2. h = w
            BY <2>3 DEF hop
        <3>3. rev[Width + 1 - Bits(line, n, o) - b] = ending(w)[b]
            BY <3>1, <3>2
        <3> QED BY <1>2, <2>1, <2>2, <2>3, <3>3
    <2>4. CASE k # o
        <3>1. \A a \in 1..widest(line, k) :
                rev[Width + 1 - Bits(line, n, k) - a] = code(s, toward(line, k, o), widest(line, k))[a]
            BY <1>1, <1>2, <2>4 DEF Forward
        <3>2. h = widest(line, k)
            BY <2>4 DEF hop
        <3>3. rev[Width + 1 - Bits(line, n, k) - b] = code(s, toward(line, k, o), h)[b]
            BY <3>1, <3>2
        <3> QED BY <1>2, <2>1, <2>2, <2>4, <3>3
    <2> QED BY <2>3, <2>4
<1> HIDE DEF rev
<1>10. out.ok /\ out.port = toward(line, k, o) /\ out.label = new
    <2>1. CASE k = o
        <3>1. h = w /\ need(line, k, d) = h /\ toward(line, k, o) = RouterPort
            BY <1>1, <2>1 DEF hop, toward
        <3>2. \A b \in 1..h : label[b] = IF b = 1 THEN 1 ELSE 0
            BY <1>9, <2>1, <3>1 DEF ending
        <3>3. label[1] = 1 /\ label[2] = 0 /\ label[3] = 0 /\ label[4] = 0 /\ \A b \in 2..h : label[b] = 0
            <4> HIDE DEF h
            <4> QED BY <1>3, <3>2
        <3> HIDE DEF h, from
        <3>4. out.port = RouterPort /\ out.label = new /\ (out.ok <=> (h > 4 => \A b \in 2..h : label[b] = 0))
            BY <1>1, <1>3, <1>6, <3>1, <3>3, Ended
        <3> QED BY <3>1, <3>3, <3>4
    <2>2. CASE k # o
        <3>1. \A b \in 1..h : label[b] = code(s, toward(line, k, o), h)[b]
            BY <1>9, <2>2
        <3>2. h = widest(line, k)
            BY <2>2 DEF hop
        <3> HIDE DEF h, from
        <3>3. bitsUsedForLabel(s, label) = h /\ getDecompressed(s, label, h) = toward(line, k, o)
            BY <1>1, <2>2, <3>1, <3>2, ReadPort
        <3>4. toward(line, k, o) \in ports(k) /\ toward(line, k, o) # RouterPort
            BY <1>1, <2>2, Across, AtPort
        <3> QED BY <1>1, <1>3, <1>6, <1>7, <3>3, <3>4, Passed
    <2> QED BY <2>1, <2>2
<1>11. Replaced(label, code(s, from, h), h, new)
    <2> HIDE DEF s, h, from, new
    <2>1. new = withSource(s, label, from, h)
        BY DEF new
    <2>2. label \in Label /\ h \in 1..Width /\ code(s, from, h) \in Code(h)
        BY <1>3, <1>8
    <2> QED BY ONLY <2>1, <2>2, Leaving
<1> DEFINE r == bitReverse64(new)
<1>12. /\ new \in Label /\ r \in Label
       /\ \A b \in 1..h : r[b] = code(s, from, h)[b]
       /\ \A b \in h + 1..Width : r[b] = rev[b - h]
    <2>1. /\ new \in Label /\ r \in Label
          /\ \A b \in 1..h : r[b] = code(s, from, h)[b]
          /\ \A b \in h + 1..Width : r[b] = label[Width + 1 - b + h]
        BY ONLY <1>11 DEF Replaced
    <2> HIDE DEF r, h
    <2>2. ASSUME NEW b \in h + 1..Width PROVE r[b] = rev[b - h]
        <3>1. b - h \in 1..Width /\ Width + 1 - (b - h) = Width + 1 - b + h
            BY <1>3, WidthAssumption
        <3> QED BY <1>4, <2>1, <3>1
    <2> QED BY <2>1, <2>2
<1>13. Forward(line, o, d, x, k, r)
    <2>1. Forward(line, o, d, x, next(k, d), rev)
        BY DEF rev
    <2> HIDE DEF r
    <2> QED BY <1>12, <2>1, HopBack
<1>14. ASSUME k = o PROVE r = x
    <2>1. used(line, o, d, k) = 0
        BY <1>14 DEF used
    <2>2. x \in Label
        BY DEF Path
    <2>3. \A b \in 1..Width : r[b] = x[b]
        <3>1. \A b \in 1..Width - 0 : r[b] = x[0 + b]
            BY <1>13, <2>1 DEF Forward
        <3> HIDE DEF r
        <3>2. ASSUME NEW b \in 1..Width PROVE b \in 1..Width - 0 /\ 0 + b = b
            BY WidthAssumption
        <3> QED BY <3>1, <3>2
    <2> HIDE DEF r
    <2> QED BY <1>12, <2>2, <2>3, SameBits
<1> QED BY <1>10, <1>12, <1>13, <1>14

\* At the end of its way a packet is for the router; if there is room for the port it came
\* in by, its source address is a label back.
LEMMA SwitchEnd ==
    ASSUME line \in Seq(Switch), NEW o \in 1..Len(line), NEW d \in 1..Len(line), o # d,
           NEW x, Path(line, o, d, need(line, o, d), x),
           NEW label, Forward(line, o, d, x, d, label)
    PROVE  LET out == receiveMessage(d, toward(line, d, o), label)
               source == bitReverse64(out.label)
           IN  /\ out.port = RouterPort
               /\ out.ok => /\ source \in Label
                            /\ Path(line, d, o, need(line, d, o), source)
                            /\ Forward(line, o, d, x, d, answered(source, need(line, d, o)))
<1> DEFINE s == line[d].scheme
          v == need(line, d, o)
          B == Bits(line, d, o)
          from == toward(line, d, o)
          out == receiveMessage(d, from, label)
          new == withSource(s, label, from, v)
          source == bitReverse64(new)
<1>1. /\ label \in Label
      /\ B \in Nat /\ Width - B > 4
      /\ label[1] = 1
      /\ \A b \in 2..Width - B - 1 : label[b] = 0
      /\ label[Width - B] = 1
    BY AtEnd
<1>2. s \in Scheme /\ from \in 0..INTERFACES(s) - 1 /\ bitsUsedForNumber(s, from) = v /\ v \in Widths(s)
    BY AtSwitch, AtPort DEF need
<1>3. v \in Nat /\ v >= 4 /\ v \in 1..Width /\ Width \in Nat
    <2>1. v \in 4..10
        BY AtPort
    <2> QED BY <2>1, WidthAssumption
<1>4. label[2] = 0 /\ label[3] = 0 /\ label[4] = 0
    <2>1. 2 \in 2..Width - B - 1 /\ 3 \in 2..Width - B - 1 /\ 4 \in 2..Width - B - 1
        BY <1>1, <1>3
    <2> QED BY <1>1, <2>1
<1>5. /\ out.ok <=> (v > 4 => \A b \in 2..v : label[b] = 0)
      /\ out.port = RouterPort
      /\ out.label = new
    <2> HIDE DEF v, from
    <2> QED BY <1>1, <1>2, <1>3, <1>4, Ended, SMTT(40)
<1>6. ASSUME out.ok PROVE v + B < Width
    <2>1. CASE v > 4
        <3>1. \A b \in 2..v : label[b] = 0
            BY <1>5, <1>6, <2>1
        <3> HIDE DEF v, B
        <3>2. Width - B \notin 2..v
            BY <1>1, <3>1
        <3> QED BY <1>1, <1>3, <3>2
    <2>2. CASE ~(v > 4)
        BY <1>1, <1>3, <2>2
    <2> QED BY <2>1, <2>2
<1>7. code(s, from, v) \in Code(v)
    BY <1>2, CodeType
<1>8. Replaced(label, code(s, from, v), v, new)
    <2> HIDE DEF s, v, from, new
    <2>1. new = withSource(s, label, from, v)
        BY DEF new
    <2>2. label \in Label /\ v \in 1..Width /\ code(s, from, v) \in Code(v)
        BY <1>1, <1>3, <1>7
    <2> QED BY ONLY <2>1, <2>2, Leaving
<1>9. /\ source \in Label
      /\ \A b \in 1..v : source[b] = code(s, from, v)[b]
      /\ \A b \in v + 1..Width : source[b] = label[Width + 1 - b + v]
    BY ONLY <1>8 DEF Replaced
<1>10. ASSUME out.ok
       PROVE  /\ Path(line, d, o, v, source)
              /\ Forward(line, o, d, x, d, answered(source, v))
    <2> HIDE DEF source
    <2> QED BY <1>6, <1>9, <1>10, Answer
<1> QED BY <1>5, <1>9, <1>10

-----------------------------------------------------------------------------
(* Labels that routers keep, give and splice: LabelSplicer.h *)

\* What is read from the beginning of a label.
LEMMA ReadPath ==
    ASSUME NEW l \in Seq(Switch), NEW i \in 1..Len(l), NEW j \in 1..Len(l), i # j,
           NEW w \in {need(l, i, j), widest(l, i)}, NEW x, Path(l, i, j, w, x)
    PROVE  /\ bitsUsedForLabel(l[i].scheme, x) = w
           /\ getDecompressed(l[i].scheme, x, w) = toward(l, i, j)
           /\ getSwitchIndex(l[i].scheme, x) = toward(l, i, j)
<1>1. \A b \in 1..w : x[b] = code(l[i].scheme, toward(l, i, j), w)[b]
    BY DEF Path
<1> QED BY <1>1, ReadPort

\* A label with its first port written in other bits.
LEMMA Rewritten ==
    ASSUME NEW l \in Seq(Switch), NEW i \in 1..Len(l), NEW j \in 1..Len(l), i # j,
           NEW t \in Nat, NEW x, Path(l, i, j, t, x),
           NEW a \in Nat, a >= t, a + Bits(l, i, j) < Width,
           NEW new \in Label,
           \A b \in 1..a : new[b] = code(l[i].scheme, toward(l, i, j), a)[b],
           \A b \in a + 1..Width : new[b] = x[b - a + t]
    PROVE  Path(l, i, j, a, new)
<1> DEFINE B == Bits(l, i, j)
<1>1. B \in Nat /\ Width \in Nat
    BY BitsBetween, WidthAssumption
<1>2. /\ \A m \in 1..Len(l) : between(i, m, j) =>
            \A b \in 1..widest(l, m) :
                x[t + Bits(l, i, m) + b] = code(l[m].scheme, toward(l, m, j), widest(l, m))[b]
      /\ x[t + B + 1] = 1
      /\ \A b \in t + B + 2..Width : x[b] = 0
    BY DEF Path
<1>3. ASSUME NEW m \in 1..Len(l), between(i, m, j), NEW b \in 1..widest(l, m)
      PROVE  new[a + Bits(l, i, m) + b] = code(l[m].scheme, toward(l, m, j), widest(l, m))[b]
    <2> DEFINE q == a + Bits(l, i, m) + b
    <2>1. /\ Bits(l, i, m) \in Nat /\ widest(l, m) \in Nat /\ Bits(l, m, j) \in Nat
          /\ B = Bits(l, i, m) + widest(l, m) + Bits(l, m, j)
        BY <1>3, BitsSplit
    <2>2. b \in Nat /\ 1 <= b /\ b <= widest(l, m)
        BY <2>1
    <2>3. a + B < Width /\ a \in Nat /\ t \in Nat
        OBVIOUS
    <2> HIDE DEF B
    <2>4. q \in a + 1..Width /\ q - a + t = t + Bits(l, i, m) + b
        <3>1. Bits(l, i, m) + b <= B
            BY ONLY <1>1, <2>1, <2>2
        <3>2. q \in a + 1..Width
            BY ONLY <1>1, <2>1, <2>2, <2>3, <3>1, SMTT(40)
        <3>3. q - a + t = t + Bits(l, i, m) + b
            BY ONLY <2>1, <2>2, <2>3, SMTT(40)
        <3> QED BY <3>2, <3>3
    <2> HIDE DEF q
    <2>5. new[q] = code(l[m].scheme, toward(l, m, j), widest(l, m))[b]
        BY <1>2, <1>3, <2>4
    <2> QED BY <2>5 DEF q
<1>4. new[a + B + 1] = 1
    <2>1. a + B + 1 \in a + 1..Width /\ (a + B + 1) - a + t = t + B + 1
        BY <1>1
    <2> HIDE DEF B
    <2> QED BY <1>2, <2>1
<1>5. ASSUME NEW b \in a + B + 2..Width PROVE new[b] = 0
    <2>1. b \in a + 1..Width /\ b - a + t \in t + B + 2..Width
        BY <1>1, SMTT(40)
    <2> HIDE DEF B
    <2> QED BY <1>2, <2>1
<1> QED BY <1>3, <1>4, <1>5 DEF Path

\* What a router gives as a label to the nodes on one side, when it is asked from the other.
LEMMA LabelFor ==
    ASSUME NEW l \in Seq(Switch), NEW i \in 1..Len(l), NEW j \in 1..Len(l), NEW k \in 1..Len(l), between(k, i, j),
           NEW x, Path(l, i, j, need(l, i, j), x),
           NEW y, Path(l, i, k, need(l, i, k), y),
           widest(l, i) + Bits(l, i, j) < Width
    PROVE  /\ getLabelFor(l[i].scheme, x, y) \in Label
           /\ Path(l, i, j, widest(l, i), getLabelFor(l[i].scheme, x, y))
<1> DEFINE s == l[i].scheme
          t == need(l, i, j)
          a == need(l, i, k)
          port == toward(l, i, j)
          given == getLabelFor(s, x, y)
          c == code(s, port, a)
          tail == SubSeq(x, t + 1, Width)
<1>1. i # j /\ i # k
    BY DEF between
<1>2. bitsUsedForLabel(s, x) = t /\ getDecompressed(s, x, t) = port /\ bitsUsedForLabel(s, y) = a
    BY <1>1, ReadPath
<1>3. t \in Nat /\ a \in Nat /\ a \in 4..10 /\ t \in 4..10 /\ a \in Widths(s) /\ t <= widest(l, i) /\ a <= widest(l, i)
        /\ widest(l, i) \in Nat
    BY <1>1, AtPort, AtSwitch
<1>4. widest(l, i) \in {t, a}
    <2>1. widest(l, i) \in {bitsUsedForNumber(s, l[i].back), bitsUsedForNumber(s, l[i].fwd)}
        BY AtSwitch
    <2>2. CASE k < i /\ i < j
        BY <2>1, <2>2 DEF need, toward
    <2>3. CASE j < i /\ i < k
        BY <2>1, <2>3 DEF need, toward
    <2> QED BY <2>2, <2>3 DEF between
<1>5. x \in Label
    BY DEF Path
<1>6. CASE t >= a
    <2>1. given = x
        BY <1>2, <1>6 DEF getLabelFor
    <2>2. widest(l, i) = t
        <3> HIDE DEF t, a
        <3> QED BY <1>3, <1>4, <1>6
    <2> QED BY <1>5, <2>1, <2>2
<1>7. CASE ~(t >= a)
    <2>1. widest(l, i) = a
        <3> HIDE DEF t, a
        <3> QED BY <1>3, <1>4, <1>7
    <2>2. given = SubSeq(c \o tail, 1, Width)
        BY <1>2, <1>7 DEF getLabelFor, code
    <2>3. c \in Code(a)
        BY <1>1, <1>3, AtSwitch, AtPort, CodeType
    <2>4. c \in Seq(0..1) /\ Len(c) = a
        BY <1>3, <2>3, BitSequence DEF Code
    <2>5. Width \in Nat /\ Width > 14
        BY WidthAssumption
    <2>6. x \in Seq(0..1) /\ Len(x) = Width
        BY <1>5, <2>5, BitSequence DEF Label
    <2> HIDE DEF c, t, a
    <2>7. t <= Width /\ a <= Width
        BY <1>3, <2>5
    <2>8. tail \in Seq(0..1) /\ Len(tail) = Width - t /\ \A b \in 1..Width - t : tail[b] = x[b + t]
        BY <1>3, <2>6, <2>7, SMTT(40)
    <2> HIDE DEF tail
    <2> DEFINE z == c \o tail
    <2>9. /\ z \in Seq(0..1) /\ Len(z) = a + (Width - t)
          /\ \A b \in 1..a : z[b] = c[b]
          /\ \A b \in a + 1..a + (Width - t) : z[b] = tail[b - a]
        <3>1. /\ c \o tail \in Seq(0..1) /\ Len(c \o tail) = Len(c) + Len(tail)
              /\ \A b \in 1..Len(c) : (c \o tail)[b] = c[b]
              /\ \A b \in Len(c) + 1..Len(c) + Len(tail) : (c \o tail)[b] = tail[b - Len(c)]
            BY ONLY <2>4, <2>8, Joined
        <3> HIDE DEF z
        <3>2. z = c \o tail
            BY DEF z
        <3> QED BY ONLY <2>4, <2>8, <3>1, <3>2
    <2> HIDE DEF z
    <2>10. a + (Width - t) >= Width /\ a + (Width - t) \in Nat
        BY <1>3, <1>7, <2>5, <2>7
    <2>11. SubSeq(z, 1, Width) \in Label /\ \A b \in 1..Width : SubSeq(z, 1, Width)[b] = z[b]
        BY <2>9, <2>10, Cut
    <2> HIDE DEF given
    <2>12. given \in Label /\ \A b \in 1..Width : given[b] = z[b]
        <3>1. given = SubSeq(z, 1, Width)
            BY <2>2 DEF z
        <3> QED BY ONLY <2>11, <3>1
    <2>13. \A b \in 1..a : given[b] = code(s, port, a)[b]
        <3>1. ASSUME NEW b \in 1..a PROVE given[b] = c[b]
            <4>1. b \in 1..Width
                BY <1>3, <2>5, <2>7
            <4> QED BY <2>9, <2>12, <4>1
        <3> QED BY <3>1 DEF c
    <2>14. ASSUME NEW b \in a + 1..Width PROVE given[b] = x[b - a + t]
        <3>1. b \in 1..Width /\ b \in a + 1..a + (Width - t) /\ b - a \in 1..Width - t
            BY <1>3, <1>7, <2>5, <2>7, <2>10
        <3> QED BY <2>8, <2>9, <2>12, <3>1
    <2>15. Path(l, i, j, a, given)
        <3>1. a >= t /\ a + Bits(l, i, j) < Width
            BY <1>3, <1>7, <2>1
        <3>2. Path(l, i, j, t, x)
            BY DEF t
        <3>3. \A b \in a + 1..Width : given[b] = x[b - a + t]
            BY <2>14
        <3>4. t \in Nat /\ a \in Nat /\ given \in Label /\ i # j
            BY <1>1, <1>3, <2>12
        <3> HIDE DEF s, port
        <3>5. \A b \in 1..a : given[b] = code(l[i].scheme, toward(l, i, j), a)[b]
            BY <2>13 DEF s, port
        <3> QED BY <3>1, <3>2, <3>3, <3>4, <3>5, Rewritten
    <2> QED BY <2>1, <2>12, <2>15 DEF given
<1> QED BY <1>6, <1>7

\* The label of a neighbour's slot.
LEMMA LabelOut ==
    ASSUME NEW l \in Seq(Switch), NEW i \in 1..Len(l), NEW j \in 1..Len(l), j \in {i - 1, i + 1}
    PROVE  Path(l, i, j, need(l, i, j), labelOut(l[i].scheme, toward(l, i, j)))
<1> DEFINE s == l[i].scheme
          w == need(l, i, j)
          c == code(s, toward(l, i, j), w)
          e == ending(Width - w)
          x == labelOut(s, toward(l, i, j))
<1>1. i # j /\ Bits(l, i, j) = 0
    BY BitsBetween
<1>2. w \in Nat /\ w \in 4..10 /\ w \in Widths(s) /\ w + 1 < Width /\ Width \in Nat
    <2>1. w \in Nat /\ w \in 4..10 /\ w \in Widths(s)
        BY <1>1, AtPort
    <2> QED BY <2>1, WidthAssumption
<1>3. c \in Code(w)
    BY <1>1, <1>2, AtSwitch, AtPort, CodeType
<1>4. x = c \o e
    BY DEF labelOut, need, code
<1> HIDE DEF w, c
<1>5. Width - w \in Nat /\ e \in [1..Width - w -> 0..1] /\ \A b \in 1..Width - w : e[b] = IF b = 1 THEN 1 ELSE 0
    BY <1>2 DEF ending
<1>6. c \in Seq(0..1) /\ Len(c) = w
    BY <1>2, <1>3, BitSequence DEF Code
<1>7. e \in Seq(0..1) /\ Len(e) = Width - w
    BY <1>5, BitSequence
<1> HIDE DEF e
<1>8. /\ c \o e \in Seq(0..1) /\ Len(c \o e) = Len(c) + Len(e)
      /\ \A b \in 1..Len(c) : (c \o e)[b] = c[b]
      /\ \A b \in Len(c) + 1..Len(c) + Len(e) : (c \o e)[b] = e[b - Len(c)]
    BY ONLY <1>6, <1>7, Joined
<1> HIDE DEF x
<1>9. w + (Width - w) = Width
    BY <1>2
<1>10. x \in Seq(0..1) /\ Len(x) = Width
    BY ONLY <1>4, <1>6, <1>7, <1>8, <1>9
<1>11. x \in Label
    BY <1>10 DEF Label
<1>12. \A b \in 1..w : x[b] = c[b]
    BY ONLY <1>4, <1>6, <1>8
<1>13. \A b \in w + 1..Width : x[b] = e[b - w]
    BY ONLY <1>4, <1>6, <1>7, <1>8, <1>9
<1>14. x[w + 1] = 1
    <2>1. w + 1 \in w + 1..Width /\ (w + 1) - w = 1 /\ 1 \in 1..Width - w
        BY <1>2
    <2> QED BY <1>5, <1>13, <2>1
<1>15. ASSUME NEW b \in w + 2..Width PROVE x[b] = 0
    <2>1. b \in w + 1..Width /\ b - w \in 1..Width - w /\ b - w # 1
        BY <1>2
    <2> QED BY <1>5, <1>13, <2>1
<1>16. \A m \in 1..Len(l) : ~between(i, m, j)
    BY DEF between
<1>17. w + 0 = w
    BY <1>2
<1>18. Path(l, i, j, w, x)
    BY <1>1, <1>2, <1>11, <1>12, <1>14, <1>15, <1>16, <1>17 DEF Path, c
<1> QED BY <1>18 DEF x, w

\* The mark of a label is its highest bit.
LEMMA Log2 ==
    ASSUME NEW l \in Seq(Switch), NEW i \in 1..Len(l), NEW j \in 1..Len(l), i # j,
           NEW w \in Nat, w >= 1, NEW x, Path(l, i, j, w, x)
    PROVE  log2(x) = w + Bits(l, i, j)
<1> DEFINE M == w + Bits(l, i, j) + 1
          S == {b \in 2..Width : x[b] = 1} \union {1}
<1>1. Bits(l, i, j) \in Nat /\ Width \in Nat
    BY BitsBetween, WidthAssumption
<1>2. w + Bits(l, i, j) < Width /\ x[M] = 1 /\ \A b \in w + Bits(l, i, j) + 2..Width : x[b] = 0
    BY DEF Path
<1>3. M \in 2..Width
    BY <1>1, <1>2
<1>4. M \in S
    BY <1>2, <1>3
<1>5. \A b \in S : b \in Nat /\ b <= M
    <2> SUFFICES ASSUME NEW b \in S PROVE b \in Nat /\ b <= M
        OBVIOUS
    <2>1. CASE b = 1 BY <1>3, <2>1
    <2>2. CASE b \in 2..Width /\ x[b] = 1
        <3>1. b \notin w + Bits(l, i, j) + 2..Width
            BY <1>2, <2>2
        <3> QED BY <1>1, <1>3, <2>2, <3>1
    <2> QED BY <2>1, <2>2
<1> HIDE DEF M, S
<1>6. Max(S) = M
    <2>0. M \in Nat
        BY <1>3
    <2>1. \A b \in S : M >= b
        BY <1>5, <2>0
    <2>2. Max(S) \in S /\ \A b \in S : Max(S) >= b
        BY <1>4, <2>1 DEF Max
    <2>3. Max(S) >= M /\ Max(S) \in Nat /\ Max(S) <= M
        BY <1>4, <1>5, <2>2
    <2> QED BY <2>0, <2>3
<1>7. log2(x) = M - 1
    BY <1>6 DEF log2, S
<1> QED BY <1>1, <1>7 DEF M

\* Exclusive or, and a shift to the left, bit by bit.
LEMMA Xor ==
    ASSUME NEW x \in Label, NEW y \in Label
    PROVE  xor(x, y) \in Label /\ \A b \in 1..Width : xor(x, y)[b] = (x[b] + y[b]) % 2
<1> DEFINE z == [b \in 1..Width |-> (x[b] + y[b]) % 2]
<1>1. Width \in Nat
    BY WidthAssumption
<1>2. z \in [1..Width -> 0..1]
    BY DEF Label
<1>3. \A b \in 1..Width : z[b] = (x[b] + y[b]) % 2
    OBVIOUS
<1> HIDE DEF z
<1>4. z \in Seq(0..1) /\ Len(z) = Width
    BY <1>1, <1>2, BitSequence
<1>5. SubSeq(z, 1, Width) \in Label /\ \A b \in 1..Width : SubSeq(z, 1, Width)[b] = z[b]
    BY <1>1, <1>4, Cut
<1>6. xor(x, y) = SubSeq(z, 1, Width)
    BY DEF xor, z
<1> QED BY ONLY <1>3, <1>5, <1>6

\* A label shifted left: zeros, and then its bits as far as there is room.
LEMMA ShiftLeft ==
    ASSUME NEW x \in Label, NEW n \in Nat
    PROVE  /\ shiftLeft(x, n) \in Label
           /\ \A b \in 1..Width : shiftLeft(x, n)[b] = IF b <= n THEN 0 ELSE x[b - n]
<1> DEFINE z == zeros(n) \o x
<1>1. Width \in Nat
    BY WidthAssumption
<1>2. x \in Seq(0..1) /\ Len(x) = Width
    BY <1>1, BitSequence DEF Label
<1>3. zeros(n) \in [1..n -> 0..1] /\ \A b \in 1..n : zeros(n)[b] = 0
    BY DEF zeros
<1>4. zeros(n) \in Seq(0..1) /\ Len(zeros(n)) = n
    BY <1>3, BitSequence
<1>5. /\ zeros(n) \o x \in Seq(0..1) /\ Len(zeros(n) \o x) = Len(zeros(n)) + Len(x)
      /\ \A b \in 1..Len(zeros(n)) : (zeros(n) \o x)[b] = zeros(n)[b]
      /\ \A b \in Len(zeros(n)) + 1..Len(zeros(n)) + Len(x) : (zeros(n) \o x)[b] = x[b - Len(zeros(n))]
    BY ONLY <1>2, <1>4, Joined
<1> HIDE DEF z
<1>6. z = zeros(n) \o x
    BY DEF z
<1>7. /\ z \in Seq(0..1) /\ Len(z) = n + Width
      /\ \A b \in 1..n : z[b] = 0
      /\ \A b \in n + 1..n + Width : z[b] = x[b - n]
    BY ONLY <1>2, <1>3, <1>4, <1>5, <1>6
<1>8. Len(z) >= Width
    BY <1>1, <1>7
<1>9. SubSeq(z, 1, Width) \in Label /\ \A b \in 1..Width : SubSeq(z, 1, Width)[b] = z[b]
    BY <1>7, <1>8, Cut
<1>10. shiftLeft(x, n) = SubSeq(z, 1, Width)
    BY DEF shiftLeft, z
<1>11. shiftLeft(x, n) \in Label /\ \A b \in 1..Width : shiftLeft(x, n)[b] = z[b]
    BY ONLY <1>9, <1>10
<1>12. ASSUME NEW b \in 1..Width PROVE shiftLeft(x, n)[b] = IF b <= n THEN 0 ELSE x[b - n]
    <2>1. CASE b <= n
        BY <1>1, <1>7, <1>11, <2>1
    <2>2. CASE ~(b <= n)
        <3>1. b \in n + 1..n + Width
            BY <1>1, <2>2
        <3> QED BY <1>7, <1>11, <2>2, <3>1
    <2> QED BY <2>1, <2>2
<1> QED BY <1>11, <1>12

\* A label spliced onto one with its mark above bit v has the bits of the one up to v, and
\* above v those of the other.
LEMMA Spliced ==
    ASSUME NEW go \in Label, NEW via \in Label, NEW v \in Nat, v < Width,
           log2(via) = v, ~(log2(go) + log2(via) > Width - 4),
           via[v + 1] = 1, \A b \in v + 2..Width : via[b] = 0
    PROVE  /\ splice(go, via) \in Label
           /\ \A b \in 1..v : splice(go, via)[b] = via[b]
           /\ \A b \in v + 1..Width : splice(go, via)[b] = go[b - v]
<1>1. Width \in Nat /\ Width > 14
    BY WidthAssumption
<1>2. one \in Label /\ \A b \in 1..Width : one[b] = IF b = 1 THEN 1 ELSE 0
    BY <1>1 DEF one, ending, Label
<1> DEFINE y == xor(go, one)
          z == shiftLeft(y, v)
          r == xor(z, via)
<1>3. y \in Label /\ \A b \in 1..Width : y[b] = (go[b] + one[b]) % 2
    BY <1>2, Xor
<1> HIDE DEF y
<1>4. z \in Label /\ \A b \in 1..Width : z[b] = IF b <= v THEN 0 ELSE y[b - v]
    BY <1>3, ShiftLeft
<1> HIDE DEF z
<1>5. r \in Label /\ \A b \in 1..Width : r[b] = (z[b] + via[b]) % 2
    BY <1>4, Xor
<1>6. splice(go, via) = r
    BY DEF splice, r, z, y
<1> HIDE DEF r
<1>7. \A b \in 1..Width : go[b] \in 0..1 /\ via[b] \in 0..1
    BY DEF Label
<1>8. ASSUME NEW b \in 1..v PROVE r[b] = via[b]
    <2>1. b \in 1..Width /\ b <= v
        BY <1>1
    <2>2. z[b] = 0 /\ r[b] = (z[b] + via[b]) % 2 /\ via[b] \in 0..1
        BY <1>4, <1>5, <1>7, <2>1
    <2> QED BY <2>2
<1>9. ASSUME NEW b \in v + 1..Width PROVE r[b] = go[b - v]
    <2>1. b \in 1..Width /\ ~(b <= v) /\ b - v \in 1..Width
        BY <1>1
    <2>2. z[b] = y[b - v] /\ r[b] = (z[b] + via[b]) % 2 /\ y[b - v] = (go[b - v] + one[b - v]) % 2 /\ go[b - v] \in 0..1
        BY <1>3, <1>4, <1>5, <1>7, <2>1
    <2>3. CASE b = v + 1
        <3>1. one[b - v] = 1 /\ via[b] = 1
            BY <1>1, <1>2, <2>1, <2>3
        <3> QED BY <2>2, <3>1
    <2>4. CASE b # v + 1
        <3>1. b - v # 1 /\ b \in v + 2..Width
            BY <1>1, <2>4
        <3>2. one[b - v] = 0 /\ via[b] = 0
            BY <1>2, <2>1, <3>1
        <3> QED BY <2>2, <3>2
    <2> QED BY <2>3, <2>4
<1> QED BY <1>5, <1>6, <1>8, <1>9

\* The label to a node k, with the label that k gave to a node further on spliced onto it,
\* is the label to that node.
LEMMA SplicePath ==
    ASSUME NEW l \in Seq(Switch), NEW i \in 1..Len(l), NEW k \in 1..Len(l), NEW j \in 1..Len(l), between(i, k, j),
           NEW go, Path(l, k, j, widest(l, k), go),
           NEW via, Path(l, i, k, need(l, i, k), via),
           splice(go, via) # UINT64_MAX
    PROVE  Path(l, i, j, need(l, i, j), splice(go, via))
<1> DEFINE w == need(l, i, k)
          v == w + Bits(l, i, k)
          h == widest(l, k)
          g == h + Bits(l, k, j)
          r == splice(go, via)
          B == Bits(l, i, j)
<1>1. /\ i # k /\ k # j /\ i # j
      /\ Bits(l, i, k) \in Nat /\ Bits(l, k, j) \in Nat /\ h \in 4..10 /\ h \in Nat
      /\ B = Bits(l, i, k) + h + Bits(l, k, j)
    BY BitsSplit
<1>2. w \in Nat /\ w \in 4..10
    BY <1>1, AtPort
<1>3. log2(go) = g /\ log2(via) = v
    <2>1. h >= 1 /\ w >= 1
        <3> HIDE DEF h, w
        <3> QED BY <1>1, <1>2
    <2> QED BY <1>1, <1>2, <2>1, Log2
<1>4. ~(log2(go) + log2(via) > Width - 4)
    BY DEF splice
<1>5. Width \in Nat
    BY WidthAssumption
<1>6. v \in Nat /\ g \in Nat /\ g + v <= Width - 4 /\ w + B = v + g
    <2>1. ~(g + v > Width - 4)
        BY <1>3, <1>4
    <2> HIDE DEF w, h, B
    <2>2. v \in Nat /\ g \in Nat
        BY <1>1, <1>2, SMTT(40)
    <2>3. w + B = v + g
        BY <1>1, <1>2
    <2> HIDE DEF v, g
    <2> QED BY <1>5, <2>1, <2>2, <2>3
<1>7. /\ go \in Label
      /\ \A b \in 1..h : go[b] = code(l[k].scheme, toward(l, k, j), h)[b]
      /\ \A m \in 1..Len(l) : between(k, m, j) =>
            \A b \in 1..widest(l, m) :
                go[h + Bits(l, k, m) + b] = code(l[m].scheme, toward(l, m, j), widest(l, m))[b]
      /\ go[g + 1] = 1
      /\ \A b \in g + 2..Width : go[b] = 0
    BY DEF Path
<1>8. /\ via \in Label /\ v < Width
      /\ \A b \in 1..w : via[b] = code(l[i].scheme, toward(l, i, k), w)[b]
      /\ \A m \in 1..Len(l) : between(i, m, k) =>
            \A b \in 1..widest(l, m) :
                via[w + Bits(l, i, m) + b] = code(l[m].scheme, toward(l, m, k), widest(l, m))[b]
      /\ via[v + 1] = 1
      /\ \A b \in v + 2..Width : via[b] = 0
    BY DEF Path
<1>9. /\ r \in Label
      /\ \A b \in 1..v : r[b] = via[b]
      /\ \A b \in v + 1..Width : r[b] = go[b - v]
    <2> HIDE DEF v
    <2> QED BY <1>3, <1>4, <1>6, <1>7, <1>8, Spliced
<1>10. toward(l, i, j) = toward(l, i, k) /\ need(l, i, j) = w
    BY DEF between, toward, need
<1> HIDE DEF w, r, B, h
<1>11. \A b \in 1..w : r[b] = code(l[i].scheme, toward(l, i, j), w)[b]
    <2> SUFFICES ASSUME NEW b \in 1..w PROVE r[b] = code(l[i].scheme, toward(l, i, j), w)[b]
        OBVIOUS
    <2>1. b \in 1..v
        BY <1>1, <1>2
    <2> HIDE DEF v
    <2> QED BY <1>8, <1>9, <1>10, <2>1
<1>12. ASSUME NEW m \in 1..Len(l), between(i, m, j), NEW b \in 1..widest(l, m)
       PROVE  r[w + Bits(l, i, m) + b] = code(l[m].scheme, toward(l, m, j), widest(l, m))[b]
    <2> DEFINE q == w + Bits(l, i, m) + b
    <2>0. Bits(l, i, m) \in Nat /\ widest(l, m) \in Nat
        BY <1>12, BitsSplit
    <2>1. b \in Nat /\ 1 <= b /\ b <= widest(l, m)
        BY <2>0
    <2>2. CASE m = k
        <3>1. b \in 1..h /\ q = v + b
            BY <1>1, <1>2, <2>1, <2>2 DEF h
        <3>2. q \in v + 1..Width /\ q - v = b
            <4>1. b \in Nat /\ 1 <= b /\ b <= h /\ h <= g /\ h \in Nat
                BY <1>1, <3>1
            <4> HIDE DEF v, g, q
            <4>2. q = v + b
                BY <3>1
            <4> QED BY ONLY <1>5, <1>6, <4>1, <4>2
        <3>3. r[q] = go[b]
            <4> HIDE DEF v, q
            <4> QED BY <1>9, <3>2
        <3> QED BY <1>7, <2>2, <3>1, <3>3 DEF h
    <2>3. CASE between(i, m, k)
        <3>1. /\ Bits(l, m, k) \in Nat
              /\ Bits(l, i, k) = Bits(l, i, m) + widest(l, m) + Bits(l, m, k)
            BY <2>3, BitsSplit
        <3>2. q \in 1..v
            <4>1. Bits(l, i, m) + b <= Bits(l, i, k)
                BY ONLY <2>0, <2>1, <3>1
            <4>2. w \in Nat /\ w >= 1 /\ Bits(l, i, k) \in Nat
                BY <1>1, <1>2
            <4>3. q \in Nat /\ 1 <= q /\ q <= v
                BY ONLY <2>0, <2>1, <4>1, <4>2
            <4>4. v \in Nat
                BY ONLY <4>2
            <4> HIDE DEF q, v
            <4> QED BY ONLY <4>3, <4>4
        <3>3. r[q] = via[q]
            <4> HIDE DEF v, q
            <4> QED BY <1>9, <3>2
        <3>4. toward(l, m, j) = toward(l, m, k)
            BY <2>3 DEF between, toward
        <3> QED BY <1>8, <2>3, <3>3, <3>4
    <2>4. CASE between(k, m, j)
        <3>1. between(i, k, m)
            BY <2>4 DEF between
        <3>2. /\ Bits(l, k, m) \in Nat
              /\ Bits(l, i, m) = Bits(l, i, k) + h + Bits(l, k, m)
            BY <3>1, BitsSplit DEF h
        <3>3. /\ Bits(l, m, j) \in Nat
              /\ Bits(l, k, j) = Bits(l, k, m) + widest(l, m) + Bits(l, m, j)
            BY <2>4, BitsSplit
        <3>4. q = v + (h + Bits(l, k, m) + b) /\ h + Bits(l, k, m) + b <= g /\ h + Bits(l, k, m) + b \in Nat
              /\ 1 <= h + Bits(l, k, m) + b
            <4>1. Bits(l, k, m) + b <= Bits(l, k, j)
                BY ONLY <2>0, <2>1, <3>2, <3>3
            <4>2. h + Bits(l, k, m) + b <= g /\ h + Bits(l, k, m) + b \in Nat /\ 1 <= h + Bits(l, k, m) + b
                <5>1. h \in Nat /\ Bits(l, k, j) \in Nat
                    BY <1>1
                <5> QED BY ONLY <2>1, <3>2, <4>1, <5>1
            <4>3. q = v + (h + Bits(l, k, m) + b)
                <5>1. w \in Nat /\ h \in Nat /\ Bits(l, i, k) \in Nat
                    BY <1>1, <1>2
                <5> QED BY ONLY <2>1, <3>2, <5>1
            <4> QED BY <4>2, <4>3
        <3>5. q \in v + 1..Width /\ q - v = h + Bits(l, k, m) + b
            <4> HIDE DEF v, g, q
            <4> QED BY <1>5, <1>6, <3>4
        <3>6. r[q] = go[h + Bits(l, k, m) + b]
            <4> HIDE DEF v, q
            <4> QED BY <1>9, <3>5
        <3> QED BY <1>7, <2>4, <3>6
    <2>5. m = k \/ between(i, m, k) \/ between(k, m, j)
        BY <1>12 DEF between
    <2> QED BY <2>2, <2>3, <2>4, <2>5
<1> HIDE DEF v, g
<1>13. r[w + B + 1] = 1
    <2>1. w + B + 1 \in v + 1..Width /\ (w + B + 1) - v = g + 1
        BY <1>5, <1>6
    <2> QED BY <1>7, <1>9, <2>1
<1>14. ASSUME NEW b \in w + B + 2..Width PROVE r[b] = 0
    <2>1. b \in v + 1..Width /\ b - v \in g + 2..Width
        BY <1>5, <1>6
    <2> QED BY <1>7, <1>9, <2>1
<1>15. w + B < Width
    BY <1>5, <1>6
<1> QED BY <1>9, <1>10, <1>11, <1>12, <1>13, <1>14, <1>15 DEF Path, r, B

\* Every bit between two nodes is one of a node between them.
LEMMA Located ==
    ASSUME NEW l \in Seq(Switch), NEW i \in 1..Len(l), NEW j \in 1..Len(l), i # j, NEW b \in 1..Bits(l, i, j)
    PROVE  \E m \in 1..Len(l) : between(i, m, j) /\ Bits(l, i, m) < b /\ b <= Bits(l, i, m) + widest(l, m)
<1> DEFINE Up(m) == m \in 1..Len(l) /\ between(i, m, j) /\ b <= Bits(l, i, m) + widest(l, m)
          S == {n \in Nat : \E m \in 1..Len(l) : Up(m) /\ n = distance(i, m)}
<1>0. \A m \in 1..Len(l) : distance(i, m) \in Nat
    BY DEF distance
<1>1. Bits(l, i, j) \in Nat /\ b \in Nat /\ 1 <= b /\ b <= Bits(l, i, j)
    <2>1. Bits(l, i, j) \in Nat
        BY BitsBetween
    <2> QED BY <2>1
<1>2. j \notin {i - 1, i + 1}
    BY <1>1, BitsBetween
<1>3. Up(next(j, i))
    <2> DEFINE m == next(j, i)
    <2>1. m \in 1..Len(l) /\ between(i, m, j) /\ j \in {m - 1, m + 1} /\ m # j
        BY <1>2 DEF next, between
    <2> HIDE DEF m
    <2>2. /\ Bits(l, i, m) \in Nat /\ widest(l, m) \in Nat
          /\ Bits(l, i, j) = Bits(l, i, m) + widest(l, m) + Bits(l, m, j)
        BY <2>1, BitsSplit
    <2>3. Bits(l, m, j) = 0
        BY <2>1, BitsBetween
    <2>4. b <= Bits(l, i, m) + widest(l, m)
        BY <1>1, <2>2, <2>3
    <2> QED BY <2>1, <2>4 DEF m
<1> HIDE DEF Up
<1>4. S \in SUBSET Nat /\ S # {}
    <2>1. next(j, i) \in 1..Len(l)
        BY <1>3 DEF Up
    <2> QED BY <1>0, <1>3, <2>1
<1>5. PICK n \in S : \A a \in S : n <= a
    BY <1>4, Least
<1>6. PICK m \in 1..Len(l) : Up(m) /\ n = distance(i, m)
    BY <1>5
<1>7. \A a \in 1..Len(l) : Up(a) => distance(i, m) <= distance(i, a)
    BY <1>0, <1>5, <1>6
<1>8. between(i, m, j) /\ b <= Bits(l, i, m) + widest(l, m)
    BY <1>6 DEF Up
<1>9. CASE m \in {i - 1, i + 1}
    <2>1. Bits(l, i, m) = 0
        BY <1>8, <1>9, BitsBetween DEF between
    <2> QED BY <1>1, <1>8, <2>1
<1>10. CASE m \notin {i - 1, i + 1}
    <2> DEFINE a == next(m, i)
    <2>1. /\ a \in 1..Len(l) /\ between(i, a, j) /\ between(i, a, m) /\ m \in {a - 1, a + 1} /\ m # a
          /\ distance(i, a) < distance(i, m)
        BY <1>8, <1>10 DEF next, between, distance
    <2> HIDE DEF a
    <2>2. ~Up(a)
        <3>1. distance(i, a) \in Nat /\ distance(i, m) \in Nat
            BY <1>0, <2>1
        <3> QED BY <1>7, <2>1, <3>1
    <2>3. /\ Bits(l, i, a) \in Nat /\ widest(l, a) \in Nat
          /\ Bits(l, i, m) = Bits(l, i, a) + widest(l, a) + Bits(l, a, m)
        BY <2>1, BitsSplit
    <2>4. Bits(l, a, m) = 0
        BY <2>1, BitsBetween
    <2>5. ~(b <= Bits(l, i, a) + widest(l, a))
        BY <2>1, <2>2 DEF Up
    <2>6. Bits(l, i, m) < b
        BY <1>1, <2>3, <2>4, <2>5
    <2> QED BY <1>8, <2>6
<1> QED BY <1>9, <1>10

\* Labels to two nodes on one side agree up to the mark of the nearer one.
LEMMA Agree ==
    ASSUME NEW l \in Seq(Switch), NEW i \in 1..Len(l), NEW j \in 1..Len(l), NEW k \in 1..Len(l),
           i # j, k = j \/ between(i, k, j),
           NEW x, Path(l, i, j, need(l, i, j), x),
           NEW y, Path(l, i, k, need(l, i, k), y)
    PROVE  \A b \in 1..need(l, i, k) + Bits(l, i, k) : x[b] = y[b]
<1> DEFINE w == need(l, i, k)
<1>1. i # k
    BY DEF between
<1>2. toward(l, i, j) = toward(l, i, k) /\ need(l, i, j) = w
    BY DEF between, toward, need
<1>3. w \in Nat /\ Bits(l, i, k) \in Nat
    BY <1>1, AtPort, BitsBetween
<1> SUFFICES ASSUME NEW b \in 1..w + Bits(l, i, k) PROVE x[b] = y[b]
    OBVIOUS
<1>4. CASE b <= w
    <2>1. b \in 1..w
        BY <1>3, <1>4
    <2> QED BY <1>2, <2>1 DEF Path
<1>5. CASE ~(b <= w)
    <2> DEFINE c == b - w
    <2>1. c \in 1..Bits(l, i, k) /\ b = w + c
        BY <1>3, <1>5
    <2> HIDE DEF c
    <2>2. PICK m \in 1..Len(l) : between(i, m, k) /\ Bits(l, i, m) < c /\ c <= Bits(l, i, m) + widest(l, m)
        BY <1>1, <2>1, Located
    <2>3. Bits(l, i, m) \in Nat /\ widest(l, m) \in Nat
        BY <2>2, BitsSplit
    <2> DEFINE a == c - Bits(l, i, m)
    <2>4. a \in 1..widest(l, m) /\ b = w + Bits(l, i, m) + a
        BY <1>3, <2>1, <2>2, <2>3, SMTT(40)
    <2> HIDE DEF a
    <2>5. between(i, m, j) /\ toward(l, m, j) = toward(l, m, k)
        BY <2>2 DEF between, toward
    <2>6. x[w + Bits(l, i, m) + a] = code(l[m].scheme, toward(l, m, j), widest(l, m))[a]
        BY <1>2, <2>4, <2>5 DEF Path
    <2>7. y[w + Bits(l, i, m) + a] = code(l[m].scheme, toward(l, m, k), widest(l, m))[a]
        BY <2>2, <2>4 DEF Path
    <2> QED BY <2>4, <2>5, <2>6, <2>7
<1> QED BY <1>4, <1>5

\* The first bits of two labels are the same sequence if they are the same bits.
LEMMA SamePrefix ==
    ASSUME NEW x \in Label, NEW y \in Label, NEW n \in 1..Width
    PROVE  SubSeq(x, 1, n) = SubSeq(y, 1, n) <=> \A b \in 1..n : x[b] = y[b]
<1>1. Width \in Nat /\ n \in Nat
    BY WidthAssumption
<1>2. x \in Seq(0..1) /\ Len(x) = Width /\ y \in Seq(0..1) /\ Len(y) = Width
    BY <1>1, BitSequence DEF Label
<1>3. SubSeq(x, 1, n) = [b \in 1..n |-> x[b]] /\ SubSeq(y, 1, n) = [b \in 1..n |-> y[b]]
    BY <1>1, <1>2
<1> DEFINE f == [b \in 1..n |-> x[b]]
          g == [b \in 1..n |-> y[b]]
<1>4. ASSUME f = g, NEW b \in 1..n PROVE x[b] = y[b]
    <2>1. f[b] = x[b] /\ g[b] = y[b]
        OBVIOUS
    <2> HIDE DEF f, g
    <2> QED BY <1>4, <2>1
<1>5. ASSUME \A b \in 1..n : x[b] = y[b] PROVE f = g
    BY <1>5
<1> QED BY ONLY <1>3, <1>4, <1>5

\* Of two labels, the one with the higher mark is greater.
LEMMA HigherMark ==
    ASSUME NEW x \in Label, NEW X \in 0..Width - 1, x[X + 1] = 1, \A b \in X + 2..Width : x[b] = 0,
           NEW y \in Label, NEW Y \in 0..Width - 1, y[Y + 1] = 1, \A b \in Y + 2..Width : y[b] = 0
    PROVE  /\ Y > X => greater(y, x)
           /\ X > Y => ~greater(y, x)
<1>1. Width \in Nat
    BY WidthAssumption
<1>2. ASSUME Y > X PROVE greater(y, x)
    <2>1. Y + 1 \in 1..Width /\ Y + 1 \in X + 2..Width
        BY <1>1, <1>2
    <2>2. y[Y + 1] > x[Y + 1]
        BY <2>1
    <2>3. ASSUME NEW b \in (Y + 1) + 1..Width PROVE y[b] = x[b]
        <3>1. b \in Y + 2..Width /\ b \in X + 2..Width
            BY <1>1, <1>2
        <3> QED BY <3>1
    <2> QED BY <2>1, <2>2, <2>3 DEF greater
<1>3. ASSUME X > Y, greater(y, x) PROVE FALSE
    <2>1. PICK a \in 1..Width : y[a] > x[a] /\ \A c \in a + 1..Width : y[c] = x[c]
        BY <1>3 DEF greater
    <2>2. y[a] \in 0..1 /\ x[a] \in 0..1
        BY DEF Label
    <2>3. y[a] = 1
        BY <2>1, <2>2
    <2>4. a \notin Y + 2..Width
        BY <2>3
    <2>5. X + 1 \in a + 1..Width /\ X + 1 \in Y + 2..Width
        BY <1>1, <1>3, <2>4
    <2>6. y[X + 1] = x[X + 1] /\ y[X + 1] = 0
        BY <2>1, <2>5
    <2> QED BY <2>6
<1> QED BY <1>2, <1>3

\* LabelSplicer_routesThrough on the labels of two nodes.
LEMMA Through ==
    ASSUME NEW l \in Seq(Switch), NEW i \in 1..Len(l), NEW j \in 1..Len(l), NEW k \in 1..Len(l), i # j, i # k,
           NEW x, Path(l, i, j, need(l, i, j), x),
           NEW y, Path(l, i, k, need(l, i, k), y)
    PROVE  routesThrough(x, y) <=> (i < k /\ k <= j) \/ (j <= k /\ k < i)
<1> DEFINE X == need(l, i, j) + Bits(l, i, j)
          Y == need(l, i, k) + Bits(l, i, k)
<1>1. /\ need(l, i, j) \in Nat /\ Bits(l, i, j) \in Nat
      /\ need(l, i, k) \in Nat /\ Bits(l, i, k) \in Nat
      /\ need(l, i, j) >= 1 /\ need(l, i, k) >= 1 /\ Width \in Nat
    <2>1. need(l, i, j) \in 4..10 /\ need(l, i, k) \in 4..10 /\ Bits(l, i, j) \in Nat /\ Bits(l, i, k) \in Nat
        BY AtPort, BitsBetween
    <2> QED BY <2>1, WidthAssumption
<1>2. /\ x \in Label /\ X < Width /\ x[X + 1] = 1 /\ \A b \in X + 2..Width : x[b] = 0
      /\ y \in Label /\ Y < Width /\ y[Y + 1] = 1 /\ \A b \in Y + 2..Width : y[b] = 0
    BY DEF Path
<1>3. X \in 0..Width - 1 /\ Y \in 0..Width - 1 /\ Y \in 1..Width /\ X \in Nat /\ Y \in Nat /\ need(l, i, k) <= Y
    BY <1>1, <1>2
<1>4. log2(y) = Y
    BY <1>1, Log2
<1> HIDE DEF X, Y
<1>5. SubSeq(x, 1, Y) = SubSeq(y, 1, Y) <=> \A b \in 1..Y : x[b] = y[b]
    BY <1>2, <1>3, SamePrefix
<1>6. (Y > X => greater(y, x)) /\ (X > Y => ~greater(y, x))
    BY ONLY <1>2, <1>3, HigherMark
<1>7. routesThrough(x, y) <=> ~greater(y, x) /\ \A b \in 1..Y : x[b] = y[b]
    BY <1>4, <1>5 DEF routesThrough
<1>8. CASE k = j
    <2>1. X = Y
        BY <1>8 DEF X, Y
    <2>2. \A b \in 1..Y : x[b] = y[b]
        BY <1>8, Agree DEF Y
    <2>3. ASSUME NEW b \in 1..Width PROVE x[b] = y[b]
        <3>1. b \in 1..Y \/ b = Y + 1 \/ b \in Y + 2..Width
            BY <1>1, <1>3
        <3> QED BY <1>2, <2>1, <2>2, <3>1
    <2>4. ~greater(y, x)
        <3> SUFFICES ASSUME NEW a \in 1..Width, y[a] > x[a] PROVE FALSE
            BY DEF greater
        <3>1. x[a] = y[a] /\ y[a] \in 0..1
            BY <1>2, <2>3 DEF Label
        <3> QED BY <3>1
    <2> QED BY <1>7, <1>8, <2>2, <2>4
<1>9. CASE between(i, k, j)
    <2>1. \A b \in 1..Y : x[b] = y[b]
        BY <1>9, Agree DEF Y
    <2>2. X > Y
        <3>1. /\ Bits(l, i, k) \in Nat /\ Bits(l, k, j) \in Nat /\ widest(l, k) \in Nat /\ widest(l, k) \in 4..10
              /\ Bits(l, i, j) = Bits(l, i, k) + widest(l, k) + Bits(l, k, j)
            BY <1>9, BitsSplit
        <3>2. widest(l, k) > 0
            BY ONLY <3>1
        <3>3. need(l, i, j) = need(l, i, k)
            BY <1>9 DEF between, need, toward
        <3> QED BY <1>1, <3>1, <3>2, <3>3 DEF X, Y
    <2> QED BY <1>6, <1>7, <1>9, <2>1, <2>2 DEF between
<1>10. CASE between(i, j, k)
    <2>1. Y > X
        <3>1. /\ Bits(l, i, j) \in Nat /\ Bits(l, j, k) \in Nat /\ widest(l, j) \in Nat /\ widest(l, j) \in 4..10
              /\ Bits(l, i, k) = Bits(l, i, j) + widest(l, j) + Bits(l, j, k)
            BY <1>10, BitsSplit
        <3>2. widest(l, j) > 0
            BY ONLY <3>1
        <3>3. need(l, i, j) = need(l, i, k)
            BY <1>10 DEF between, need, toward
        <3> QED BY <1>1, <3>1, <3>2, <3>3 DEF X, Y
    <2> QED BY <1>6, <1>7, <1>10, <2>1 DEF between
<1>11. CASE between(j, i, k)
    <2>1. toward(l, i, j) # toward(l, i, k)
        <3>1. l[i].back # l[i].fwd
            BY AtSwitch
        <3> QED BY <1>11, <3>1 DEF between, toward
    <2>2. getSwitchIndex(l[i].scheme, x) = toward(l, i, j)
        BY ReadPath
    <2>3. ASSUME \A b \in 1..Y : x[b] = y[b] PROVE FALSE
        <3>1. ASSUME NEW b \in 1..need(l, i, k) PROVE x[b] = code(l[i].scheme, toward(l, i, k), need(l, i, k))[b]
            <4>1. b \in 1..Y
                BY <1>1, <1>3
            <4> QED BY <2>3, <4>1 DEF Path
        <3>2. getSwitchIndex(l[i].scheme, x) = toward(l, i, k)
            BY <3>1, ReadPort
        <3> QED BY <2>1, <2>2, <3>2
    <2> QED BY <1>7, <1>11, <2>3 DEF between
<1>12. k = j \/ between(i, k, j) \/ between(i, j, k) \/ between(j, i, k)
    BY DEF between
<1> QED BY <1>8, <1>9, <1>10, <1>11, <1>12

\* LabelSplicer_isOneHop on the label of a node.
LEMMA OneHop ==
    ASSUME NEW l \in Seq(Switch), NEW i \in 1..Len(l), NEW j \in 1..Len(l), i # j,
           NEW x, Path(l, i, j, need(l, i, j), x)
    PROVE  isOneHop(l[i].scheme, x) <=> j \in {i - 1, i + 1}
<1>1. need(l, i, j) \in Nat /\ need(l, i, j) >= 1 /\ Bits(l, i, j) \in Nat
    <2>1. need(l, i, j) \in 4..10 /\ Bits(l, i, j) \in Nat
        BY AtPort, BitsBetween
    <2> QED BY <2>1
<1>2. log2(x) = need(l, i, j) + Bits(l, i, j)
    BY <1>1, Log2
<1>3. bitsUsedForLabel(l[i].scheme, x) = need(l, i, j)
    BY ReadPath
<1>4. Bits(l, i, j) = 0 <=> j \in {i - 1, i + 1}
    BY BitsBetween
<1>5. isOneHop(l[i].scheme, x) <=> Bits(l, i, j) = 0
    BY <1>1, <1>2, <1>3 DEF isOneHop
<1> QED BY <1>4, <1>5

-----------------------------------------------------------------------------
(* Packets *)

\* Packet q is what packet p becomes when a switch passes it on.
PassedOn(p, q) ==
    LET out == receiveMessage(p.at, p.from, p.label)
    IN  /\ q.at = across(p.at, out.port).at
        /\ q.from = across(p.at, out.port).from
        /\ q.label = out.label

\* The node before on a way.
LEMMA NodeBefore ==
    ASSUME NEW l \in Seq(Switch), NEW o \in 1..Len(l), NEW d \in 1..Len(l), o # d,
           NEW k \in 1..Len(l), k # o, k = d \/ between(o, k, d)
    PROVE  LET e == next(k, o) IN
           /\ OnWay(l, o, d, e)
           /\ next(e, d) = k
           /\ toward(l, e, k) = toward(l, e, d)
BY DEF next, between, toward, OnWay

\* A packet on its way gets to the next node.
LEMMA GoOn ==
    ASSUME line \in Seq(Switch), NEW p, Going(line, p), p.at # p.to
    PROVE  LET out == receiveMessage(p.at, p.from, p.label) IN
           /\ out.ok /\ out.port # RouterPort /\ out.label \in Label
           /\ \A q : PassedOn(p, q) /\ q.origin = p.origin /\ q.to = p.to /\ q.sent = p.sent =>
                /\ Going(line, q)
                /\ q.at = next(p.at, p.to)
                /\ q.at \in 1..Len(line)
<1> DEFINE o == p.origin
          d == p.to
          k == p.at
          x == p.sent
          out == receiveMessage(k, p.from, p.label)
<1>1. /\ o \in 1..Len(line) /\ d \in 1..Len(line) /\ k \in 1..Len(line) /\ o # d
      /\ k \in {o, d} \/ between(o, k, d)
      /\ p.from = toward(line, k, o)
      /\ Path(line, o, d, need(line, o, d), x)
      /\ Forward(line, o, d, x, k, p.label)
    BY DEF Going
<1>2. OnWay(line, o, d, k)
    BY <1>1 DEF OnWay
<1>3. /\ out.ok /\ out.port = toward(line, k, d) /\ out.port # RouterPort
      /\ out.label \in Label
      /\ Forward(line, o, d, x, next(k, d), out.label)
    <2> HIDE DEF o, d, k, x
    <2> QED BY <1>1, <1>2, SwitchOn
<1> HIDE DEF out
<1>4. across(k, out.port).at = next(k, d) /\ across(k, out.port).from = toward(line, next(k, d), k)
    BY <1>1, <1>3, Across
<1>5. /\ next(k, d) \in 1..Len(line) /\ (next(k, d) = d \/ between(o, next(k, d), d))
      /\ toward(line, next(k, d), k) = toward(line, next(k, d), o)
    <2> HIDE DEF o, d, k, x
    <2> QED BY <1>1, <1>2, NextNode DEF OnWay
<1>6. ASSUME NEW q, PassedOn(p, q), q.origin = o, q.to = d, q.sent = x
      PROVE  Going(line, q) /\ q.at = next(k, d) /\ q.at \in 1..Len(line)
    <2>1. q.at = next(k, d) /\ q.from = toward(line, next(k, d), o) /\ q.label = out.label
        BY <1>4, <1>5, <1>6 DEF PassedOn, out
    <2>2. /\ q.origin \in 1..Len(line) /\ q.to \in 1..Len(line) /\ q.at \in 1..Len(line) /\ q.origin # q.to
          /\ q.at \in {q.origin, q.to} \/ between(q.origin, q.at, q.to)
          /\ q.from = toward(line, q.at, q.origin)
        BY <1>1, <1>5, <1>6, <2>1
    <2>3. Path(line, q.origin, q.to, need(line, q.origin, q.to), q.sent)
        BY <1>1, <1>6
    <2>4. Forward(line, q.origin, q.to, q.sent, q.at, q.label)
        BY <1>3, <1>6, <2>1
    <2> QED BY <2>1, <2>2, <2>3, <2>4 DEF Going
<1> QED BY <1>3, <1>6 DEF out

\* At its end it is for the router, and its source address a label back.
LEMMA GoneTo ==
    ASSUME line \in Seq(Switch), NEW p, Going(line, p), p.at = p.to
    PROVE  LET out == receiveMessage(p.at, p.from, p.label)
               source == bitReverse64(out.label)
           IN  /\ out.port = RouterPort
               /\ out.ok => /\ source \in Label
                            /\ Path(line, p.to, p.origin, need(line, p.to, p.origin), source)
                            /\ Forward(line, p.origin, p.to, p.sent, p.to,
                                       answered(source, need(line, p.to, p.origin)))
<1> DEFINE o == p.origin
          d == p.to
          x == p.sent
<1>1. /\ o \in 1..Len(line) /\ d \in 1..Len(line) /\ o # d
      /\ p.from = toward(line, d, o)
      /\ Path(line, o, d, need(line, o, d), x)
      /\ Forward(line, o, d, x, d, p.label)
    BY DEF Going
<1> HIDE DEF o, d, x
<1>2. p.at = d
    BY DEF d
<1>3. LET out == receiveMessage(d, toward(line, d, o), p.label)
          source == bitReverse64(out.label)
      IN  /\ out.port = RouterPort
          /\ out.ok => /\ source \in Label
                       /\ Path(line, d, o, need(line, d, o), source)
                       /\ Forward(line, o, d, x, d, answered(source, need(line, d, o)))
    BY ONLY <1>1, line \in Seq(Switch), SwitchEnd
<1> QED BY <1>1, <1>2, <1>3 DEF o, d, x

\* A packet that goes back gets to the node before, and is taken at the origin.
LEMMA ComeOn ==
    ASSUME line \in Seq(Switch), NEW o, NEW d, NEW x, NEW p, Coming(line, p, o, d, x), p.label \in Label
    PROVE  LET out == receiveMessage(p.at, p.from, p.label) IN
           /\ out.ok /\ out.label \in Label
           /\ out.port = RouterPort <=> p.at = o
           /\ p.at = o => bitReverse64(out.label) = x
           /\ p.at # o => \A q : PassedOn(p, q) =>
                Coming(line, q, o, d, x) /\ q.at = next(p.at, o) /\ q.at \in 1..Len(line)
<1> DEFINE k == p.at
          out == receiveMessage(k, p.from, p.label)
          e == next(k, o)
<1>1. /\ o \in 1..Len(line) /\ d \in 1..Len(line) /\ k \in 1..Len(line) /\ o # d
      /\ k = o \/ between(o, k, d)
      /\ p.from = toward(line, k, d)
      /\ Path(line, o, d, need(line, o, d), x)
      /\ Forward(line, o, d, x, next(k, d), bitReverse64(p.label))
    BY DEF Coming
<1>2. OnWay(line, o, d, k)
    BY <1>1 DEF OnWay
<1>3. /\ out.ok /\ out.port = toward(line, k, o)
      /\ out.label \in Label
      /\ Forward(line, o, d, x, k, bitReverse64(out.label))
      /\ k = o => bitReverse64(out.label) = x
    <2> HIDE DEF k
    <2> QED BY <1>1, <1>2, SwitchBack
<1> HIDE DEF out
<1>4. out.port = RouterPort <=> k = o
    <2>1. CASE k = o
        BY <1>1, <1>3, <2>1 DEF toward
    <2>2. CASE k # o
        BY <1>1, <1>3, <2>2, AtPort
    <2> QED BY <2>1, <2>2
<1>5. ASSUME k # o, NEW q, PassedOn(p, q)
      PROVE  Coming(line, q, o, d, x) /\ q.at = e /\ q.at \in 1..Len(line)
    <2>1. across(k, out.port).at = e /\ across(k, out.port).from = toward(line, e, k)
        BY <1>1, <1>3, <1>5, Across
    <2>2. OnWay(line, o, d, e) /\ next(e, d) = k /\ toward(line, e, k) = toward(line, e, d)
        <3> HIDE DEF k
        <3> QED BY <1>1, <1>5, NodeBefore
    <2>3. q.at = e /\ q.from = toward(line, e, d) /\ q.label = out.label
        BY <1>5, <2>1, <2>2 DEF PassedOn, out
    <2>4. Forward(line, o, d, x, next(q.at, d), bitReverse64(q.label))
        BY <1>3, <2>2, <2>3
    <2>5. (q.at = o \/ between(o, q.at, d)) /\ q.at \in 1..Len(line)
        BY <2>2, <2>3 DEF OnWay
    <2> HIDE DEF e
    <2> QED BY <1>1, <2>3, <2>4, <2>5 DEF Coming
<1> QED BY <1>3, <1>4, <1>5 DEF out

\* An answer takes its first hop.
LEMMA TurnOn ==
    ASSUME line \in Seq(Switch), NEW x, NEW p, Going(line, p), Turned(line, p, p.to, p.origin, x),
           NEW q, PassedOn(p, q)
    PROVE  Coming(line, q, p.to, p.origin, x)
<1> DEFINE o == p.to
          d == p.origin
          w == need(line, d, o)
          e == next(d, o)
          out == receiveMessage(d, p.from, p.label)
<1>1. /\ o \in 1..Len(line) /\ d \in 1..Len(line) /\ o # d
      /\ p.at = d /\ p.from = RouterPort
      /\ Path(line, o, d, need(line, o, d), x)
      /\ Forward(line, o, d, x, d, answered(p.label, w))
    BY DEF Turned
<1>2. /\ Path(line, d, o, w, p.sent)
      /\ Forward(line, d, o, p.sent, d, p.label)
    BY <1>1 DEF Going
<1>3. toward(line, d, d) = RouterPort
    BY <1>1 DEF toward
<1>4. OnWay(line, d, o, d)
    BY <1>1 DEF OnWay
<1>5. /\ out.port = toward(line, d, o)
      /\ bitReverse64(out.label) = answered(p.label, w)
    <2> HIDE DEF o, d
    <2> QED BY <1>1, <1>2, <1>3, <1>4, SwitchOn
<1> HIDE DEF out
<1>6. across(d, out.port).at = e /\ across(d, out.port).from = toward(line, e, d)
    BY <1>1, <1>5, Across
<1>7. OnWay(line, o, d, e) /\ next(e, d) = d
    <2> HIDE DEF o, d
    <2> QED BY <1>1, NodeBefore
<1>8. q.at = e /\ q.from = toward(line, e, d) /\ q.label = out.label
    BY <1>1, <1>6 DEF PassedOn, out
<1>9. Forward(line, o, d, x, next(q.at, d), bitReverse64(q.label))
    BY <1>1, <1>5, <1>7, <1>8
<1>10. (q.at = o \/ between(o, q.at, d)) /\ q.at \in 1..Len(line)
    BY <1>7, <1>8 DEF OnWay
<1>11. q.from = toward(line, q.at, d)
    BY <1>8
<1> HIDE DEF e, o, d
<1>12. Coming(line, q, o, d, x)
    BY <1>1, <1>9, <1>10, <1>11 DEF Coming
<1> QED BY <1>12 DEF o, d

\* An error leaves for the node before on the label reversed.
LEMMA TurnBack ==
    ASSUME line \in Seq(Switch), NEW p, Going(line, p), p.from # RouterPort,
           NEW q, q.at = across(p.at, p.from).at, q.from = across(p.at, p.from).from,
           q.label = bitReverse64(p.label)
    PROVE  Coming(line, q, p.origin, p.to, p.sent) /\ q.label \in Label
<1> DEFINE o == p.origin
          d == p.to
          k == p.at
          x == p.sent
          e == next(k, o)
<1>1. /\ o \in 1..Len(line) /\ d \in 1..Len(line) /\ k \in 1..Len(line) /\ o # d
      /\ k \in {o, d} \/ between(o, k, d)
      /\ p.from = toward(line, k, o)
      /\ Path(line, o, d, need(line, o, d), x)
      /\ Forward(line, o, d, x, k, p.label)
    BY DEF Going
<1>2. k # o
    BY <1>1 DEF toward
<1>3. across(k, p.from).at = e /\ across(k, p.from).from = toward(line, e, k)
    BY <1>1, <1>2, Across
<1>4. OnWay(line, o, d, e) /\ next(e, d) = k /\ toward(line, e, k) = toward(line, e, d)
    <2> HIDE DEF o, d, k
    <2> QED BY <1>1, <1>2, NodeBefore
<1>5. q.at = e /\ q.from = toward(line, e, d)
    BY <1>3, <1>4
<1>6. p.label \in Label
    BY <1>1 DEF Forward
<1>7. bitReverse64(q.label) = p.label /\ q.label \in Label
    BY <1>6, Reversed, ReversedTwice
<1>8. Forward(line, o, d, x, next(q.at, d), bitReverse64(q.label))
    BY <1>1, <1>4, <1>5, <1>7
<1>9. (q.at = o \/ between(o, q.at, d)) /\ q.at \in 1..Len(line)
    BY <1>4, <1>5 DEF OnWay
<1>10. q.from = toward(line, q.at, d)
    BY <1>5
<1> HIDE DEF e, o, d, x
<1>11. Coming(line, q, o, d, x)
    BY <1>1, <1>8, <1>9, <1>10 DEF Coming
<1> QED BY <1>7, <1>11 DEF o, d, x

-----------------------------------------------------------------------------
(* The invariant *)

\* Every line is one of switches.
LEMMA OneLine ==
    ASSUME line \in Lines
    PROVE  line \in Seq(Switch) /\ Node = 1..Len(line) /\ Len(line) \in Nat
<1>1. line \in Seq(Switch)
    BY LinesAssumption
<1> QED BY <1>1 DEF Node

\* Ports are numbers.
LEMMA PortNumber ==
    ASSUME NEW l \in Seq(Switch), NEW i \in 1..Len(l), NEW j \in 1..Len(l)
    PROVE  toward(l, i, j) \in Nat
<1>1. CASE i = j
    BY <1>1 DEF toward, RouterPort
<1>2. CASE i # j
    <2>1. l[i] \in Switch
        OBVIOUS
    <2>2. l[i].back \in Nat /\ l[i].fwd \in Nat
        BY <2>1 DEF Switch
    <2> QED BY <1>2, <2>2 DEF toward
<1> QED BY <1>1, <1>2

\* A label is what it should be where it is used first.
LEMMA Starting ==
    ASSUME NEW l \in Seq(Switch), NEW o \in 1..Len(l), NEW d \in 1..Len(l), NEW w, NEW x, Path(l, o, d, w, x)
    PROVE  Forward(l, o, d, x, o, x)
<1>1. x \in Label /\ used(l, o, d, o) = 0
    BY DEF Path, used
<1>2. ASSUME NEW b \in 1..Width - 0 PROVE x[b] = x[0 + b]
    <2>1. 0 + b = b
        BY WidthAssumption
    <2> QED BY <2>1
<1> QED BY <1>1, <1>2 DEF Forward

\* What a packet is, from its kind, and that its fields have their types.
LEMMA Kinds ==
    ASSUME NEW l, NEW p, Carried(l, p)
    PROVE  /\ p.kind \in {"query", "reply", "error"}
           /\ p.kind = "query" => p \in Query /\ Going(l, p)
           /\ p.kind = "reply" => p \in Reply /\ Going(l, p)
           /\ p.kind = "error" => p \in Error /\ Coming(l, p, p.origin, p.to, p.sent)
           /\ p.label \in Label
BY DEF Carried, Query, Reply, Error

\* What is known of a reply: it goes back the way of the query, and the label it tells, if it
\* tells one, leads on.
LEMMA ReplyCarried ==
    ASSUME NEW l, NEW p, Carried(l, p), p.kind = "reply"
    PROVE  /\ Turned(l, p, p.to, p.origin, p.asked) \/ Coming(l, p, p.to, p.origin, p.asked)
           /\ p.node # None => Tells(l, p.to, p.origin, p.node, p.path)
BY DEF Carried, Query, Reply, Error

\* The outcome at a switch.
LEMMA OutcomeIs ==
    LET out == receiveMessage(packet.at, packet.from, packet.label)
    IN  /\ outcome.ok = out.ok /\ outcome.port = out.port /\ outcome.label = out.label
        /\ outcome.source = bitReverse64(out.label)
BY DEF outcome

\* Stores that are kept, with one of them changed.
LEMMA StoreKept ==
    ASSUME line \in Lines, DOMAIN store = Node, \A i \in Node : \A e \in store[i] : Kept(line, i, e),
           NEW i \in Node, NEW S, \A e \in S : Kept(line, i, e),
           store' = [store EXCEPT ![i] = S], line' = line
    PROVE  DOMAIN store' = Node' /\ \A j \in Node' : \A e \in store'[j] : Kept(line', j, e)
<1>1. Node' = Node
    BY DEF Node
<1>2. DOMAIN store' = DOMAIN store
    OBVIOUS
<1>3. ASSUME NEW j \in Node, NEW e \in store'[j] PROVE Kept(line, j, e)
    <2>1. CASE j = i
        BY <1>3, <2>1
    <2>2. CASE j # i
        <3>1. store'[j] = store[j]
            BY <2>2
        <3> QED BY <1>3, <3>1
    <2> QED BY <2>1, <2>2
<1> QED BY <1>1, <1>2, <1>3

\* Nodes are only added as they are given, and paths are only taken away.
LEMMA Additions ==
    ASSUME NEW nodes, NEW new, NEW heard
    PROVE  addNode(nodes, new, heard) \subseteq nodes \union {new}
<1> DEFINE same == {e \in nodes : e.node = new.node}
          longer == {e \in same : routesThrough(e.path, new.path)}
          others == {e \in nodes \ same : e.path = new.path}
          known == \E e \in same : e.path = new.path \/ routesThrough(new.path, e.path)
<1>1. CASE known
    BY <1>1 DEF addNode
<1>2. CASE ~known /\ others # {}
    BY <1>2 DEF addNode
<1>3. CASE ~known /\ others = {}
    BY <1>3 DEF addNode
<1> QED BY <1>1, <1>2, <1>3

\* The invariant holds at the beginning: every node keeps the labels of its neighbours.
LEMMA InitInv == Init => IInv
<1> SUFFICES ASSUME Init PROVE IInv
    OBVIOUS
<1>1. line \in Lines /\ line \in Seq(Switch) /\ Node = 1..Len(line) /\ Len(line) \in Nat
    BY OneLine DEF Init
<1>2. DOMAIN store = Node
    BY DEF Init
<1>3. ASSUME NEW i \in Node, NEW e \in store[i] PROVE Kept(line, i, e)
    <2>1. PICK port \in ports(i) \ {RouterPort} :
              e = [node |-> across(i, port).at, path |-> labelOut(line[i].scheme, port)]
        BY <1>3 DEF Init
    <2>2. \E j \in 1..Len(line) : j \in {i - 1, i + 1} /\ port = toward(line, i, j)
        <3>1. CASE i > 1 /\ port = line[i].back
            <4>1. i - 1 \in 1..Len(line) /\ toward(line, i, i - 1) = line[i].back
                BY <1>1, <3>1 DEF toward
            <4> QED BY <3>1, <4>1
        <3>2. CASE i < Len(line) /\ port = line[i].fwd
            <4>1. i + 1 \in 1..Len(line) /\ toward(line, i, i + 1) = line[i].fwd
                BY <1>1, <3>2 DEF toward
            <4> QED BY <3>2, <4>1
        <3> QED BY <2>1, <3>1, <3>2 DEF ports
    <2>3. PICK j \in 1..Len(line) : j \in {i - 1, i + 1} /\ port = toward(line, i, j)
        BY <2>2
    <2>4. i # j /\ next(i, j) = j
        BY <1>1, <2>3 DEF next
    <2>5. across(i, port).at = j
        BY <1>1, <2>3, <2>4, Across
    <2>6. Path(line, i, j, need(line, i, j), labelOut(line[i].scheme, port))
        BY <1>1, <2>3, LabelOut
    <2>7. e.node = j /\ e.path = labelOut(line[i].scheme, port)
        BY <2>1, <2>5
    <2> QED BY <2>4, <2>6, <2>7 DEF Kept
<1> QED BY <1>1, <1>2, <1>3 DEF IInv, Init

\* A query starts on a label of the store.
LEMMA SendQueryInv ==
    ASSUME IInv, NEW i \in Asker, NEW e \in store[i], sendQuery(i, e)
    PROVE  IInv'
<1>1. line \in Lines /\ line \in Seq(Switch) /\ Node = 1..Len(line) /\ Len(line) \in Nat
    BY OneLine DEF IInv
<1>2. i \in 1..Len(line)
    BY <1>1, AskerAssumption
<1>3. e.node \in 1..Len(line) /\ e.node # i /\ Path(line, i, e.node, need(line, i, e.node), e.path)
    BY <1>1, <1>2 DEF IInv, Kept
<1>4. e.path \in Label
    BY <1>3 DEF Path
<1>5. Forward(line, i, e.node, e.path, i, e.path)
    BY <1>1, <1>2, <1>3, Starting
<1>6. RouterPort = toward(line, i, i)
    BY <1>2 DEF toward
<1> DEFINE q == [kind |-> "query", at |-> i, from |-> RouterPort, label |-> e.path,
                origin |-> i, sent |-> e.path, to |-> e.node]
<1>7. packet' = q /\ line' = line /\ store' = store
    BY DEF sendQuery
<1>8. q \in Query
    BY <1>2, <1>3, <1>4 DEF Query, RouterPort
<1>9. Going(line, q)
    BY <1>2, <1>3, <1>5, <1>6 DEF Going
<1>10. Carried(line, q)
    BY <1>8, <1>9 DEF Carried
<1>11. Node' = Node
    BY <1>7 DEF Node
<1> HIDE DEF q
<1> QED BY <1>7, <1>10, <1>11 DEF IInv

\* What is at a switch, from the invariant.
LEMMA Carrying ==
    ASSUME IInv, packet # None
    PROVE  /\ line \in Lines /\ line \in Seq(Switch) /\ Node = 1..Len(line) /\ Len(line) \in Nat
           /\ Carried(line, packet)
           /\ packet.kind \in {"query", "reply", "error"}
           /\ packet.kind # "error" => Going(line, packet)
           /\ packet.at \in 1..Len(line) /\ packet.label \in Label
<1>1. /\ line \in Lines /\ line \in Seq(Switch) /\ Node = 1..Len(line) /\ Len(line) \in Nat
      /\ Carried(line, packet)
    BY OneLine DEF IInv
<1>2. /\ packet.kind \in {"query", "reply", "error"}
      /\ packet.kind # "error" => Going(line, packet)
      /\ packet.kind = "error" => Coming(line, packet, packet.origin, packet.to, packet.sent)
      /\ packet.label \in Label
    BY <1>1, Kinds
<1>3. packet.at \in 1..Len(line)
    <2>1. CASE packet.kind = "error"
        BY <1>2, <2>1 DEF Coming
    <2>2. CASE packet.kind # "error"
        BY <1>2, <2>2 DEF Going
    <2> QED BY <2>1, <2>2
<1> QED BY <1>1, <1>2, <1>3

\* Packet q is packet p with other fields for a switch.
Readdressed(p, q) == q = [p EXCEPT !.at = q.at, !.from = q.from, !.label = q.label]

\* The packet that a switch passes on is carried.
LEMMA Onward ==
    ASSUME line \in Seq(Switch), NEW p, Carried(line, p),
           receiveMessage(p.at, p.from, p.label).port # RouterPort,
           NEW q, Readdressed(p, q), PassedOn(p, q)
    PROVE  Carried(line, q) /\ q.kind = p.kind
<1> DEFINE out == receiveMessage(p.at, p.from, p.label)
<1>1. PICK kind \in {"query", "reply", "error"} : p.kind = kind
    BY Kinds
<1>2. p.label \in Label
    BY Kinds
<1>3. CASE p.kind = "query"
    <2>1. p \in Query /\ Going(line, p)
        BY <1>3, Kinds
    <2>2. p.at # p.to
        BY <2>1, GoneTo
    <2>3. q.kind = "query" /\ q.origin = p.origin /\ q.to = p.to /\ q.sent = p.sent
        BY <2>1 DEF Query, Readdressed
    <2>4. Going(line, q) /\ q.at \in 1..Len(line) /\ out.label \in Label
        BY <2>1, <2>2, <2>3, GoOn
    <2>5. q.label \in Label
        BY <2>4 DEF PassedOn
    <2>6. q.at \in Nat
        BY <2>4
    <2>7. q.from \in Nat
        BY <2>4, PortNumber DEF Going
    <2>8. q \in Query
        BY <2>1, <2>3, <2>5, <2>6, <2>7 DEF Query, Readdressed
    <2> QED BY <1>3, <2>3, <2>4, <2>8 DEF Carried
<1>4. CASE p.kind = "reply"
    <2>1. p \in Reply /\ Going(line, p)
        BY <1>4, Kinds
    <2>2. p.at # p.to
        BY <2>1, GoneTo
    <2>3. /\ q.kind = "reply" /\ q.origin = p.origin /\ q.to = p.to /\ q.sent = p.sent
         
          /\ q.asked = p.asked /\ q.node = p.node /\ q.path = p.path
        BY <2>1 DEF Reply, Readdressed
    <2>4. Going(line, q) /\ q.at \in 1..Len(line) /\ out.label \in Label
        BY <2>1, <2>2, <2>3, GoOn
    <2>5. q.label \in Label
        BY <2>4 DEF PassedOn
    <2>6. q.at \in Nat
        BY <2>4
    <2>7. q.from \in Nat
        BY <2>4, PortNumber DEF Going
    <2>8. q \in Reply
        BY <2>1, <2>3, <2>5, <2>6, <2>7 DEF Reply, Readdressed
    <2>9. Coming(line, q, p.to, p.origin, p.asked)
        <3>1. CASE Turned(line, p, p.to, p.origin, p.asked)
            BY <2>1, <3>1, TurnOn
        <3>2. CASE Coming(line, p, p.to, p.origin, p.asked)
            BY <1>2, <2>2, <3>2, ComeOn
        <3> QED BY <1>4, <3>1, <3>2, ReplyCarried
    <2>10. p.node # None => Tells(line, p.to, p.origin, p.node, p.path)
        BY <1>4, ReplyCarried
    <2> QED BY <1>4, <2>3, <2>4, <2>8, <2>9, <2>10 DEF Carried
<1>5. CASE p.kind = "error"
    <2>1. p \in Error /\ Coming(line, p, p.origin, p.to, p.sent)
        BY <1>5, Kinds
    <2>2. p.at # p.origin
        BY <1>2, <2>1, ComeOn
    <2>3. q.kind = "error" /\ q.origin = p.origin /\ q.to = p.to /\ q.sent = p.sent
        BY <2>1 DEF Error, Readdressed
    <2>4. Coming(line, q, p.origin, p.to, p.sent) /\ q.at \in 1..Len(line) /\ out.label \in Label
        <3>1. Coming(line, q, p.origin, p.to, p.sent) /\ q.at \in 1..Len(line)
            <4> DEFINE o == p.origin
                      d == p.to
                      x == p.sent
            <4>1. Coming(line, p, o, d, x) /\ p.at # o
                BY <2>1, <2>2
            <4> HIDE DEF o, d, x
            <4>2. Coming(line, q, o, d, x) /\ q.at \in 1..Len(line)
                BY <1>2, <4>1, ComeOn
            <4> QED BY <4>2 DEF o, d, x
        <3>2. out.label \in Label
            BY <1>2, <2>1, ComeOn
        <3> QED BY <3>1, <3>2
    <2>5. q.label \in Label
        BY <2>4 DEF PassedOn
    <2>6. q.at \in Nat
        BY <2>4
    <2>7. q.from \in Nat
        BY <2>4, PortNumber DEF Coming
    <2>8. q \in Error
        BY <2>1, <2>3, <2>5, <2>6, <2>7 DEF Error, Readdressed
    <2> QED BY <1>5, <2>3, <2>4, <2>8 DEF Carried
<1> QED BY <1>1, <1>3, <1>4, <1>5

\* A switch passes a packet on.
LEMMA ForwardInv ==
    ASSUME IInv, NEW out \in Outcome, forward(out)
    PROVE  /\ IInv'
           /\ receiveMessage(packet.at, packet.from, packet.label).port # RouterPort
           /\ Readdressed(packet, packet') /\ PassedOn(packet, packet') /\ packet'.kind = packet.kind
<1>1. packet # None /\ out = outcome
    BY DEF Outcome
<1>2. line \in Seq(Switch) /\ Carried(line, packet)
    BY <1>1, Carrying
<1> DEFINE o == receiveMessage(packet.at, packet.from, packet.label)
          n == across(packet.at, o.port)
<1>3. o.ok /\ o.port # RouterPort /\ out.port = o.port /\ out.label = o.label
    BY <1>1, OutcomeIs DEF forward
<1>4. /\ packet' = [packet EXCEPT !.at = n.at, !.from = n.from, !.label = o.label]
      /\ line' = line /\ store' = store
    BY <1>3 DEF forward
<1> HIDE DEF o, n
<1>5. packet'.at = n.at /\ packet'.from = n.from /\ packet'.label = o.label
    <2>1. packet \in Query \/ packet \in Reply \/ packet \in Error
        BY <1>2 DEF Carried
    <2> QED BY <1>4, <2>1 DEF Query, Reply, Error
<1>6. PassedOn(packet, packet')
    BY <1>3, <1>5 DEF PassedOn, o, n
<1>7. /\ receiveMessage(packet.at, packet.from, packet.label).port # RouterPort
      /\ Readdressed(packet, packet')
    BY <1>3, <1>4, <1>5 DEF o, Readdressed
<1>8. Carried(line, packet') /\ packet'.kind = packet.kind
    BY <1>2, <1>6, <1>7, Onward
<1>9. Node' = Node
    BY <1>4 DEF Node
<1> QED BY <1>4, <1>6, <1>7, <1>8, <1>9 DEF IInv

\* A store that loses nodes, where a packet ends.
LEMMA LearnBrokenInv ==
    ASSUME IInv, NEW i \in Node, NEW path, learnBroken(i, path), line' = line
    PROVE  IInv' /\ packet' = None
<1>1. packet' = None /\ line \in Lines /\ DOMAIN store = Node /\ \A j \in Node : \A e \in store[j] : Kept(line, j, e)
    BY DEF learnBroken, IInv
<1> DEFINE S == brokenPath(line[i].scheme, store[i], path)
<1>2. store' = [store EXCEPT ![i] = S]
    BY <1>1 DEF learnBroken
<1>3. \A e \in S : Kept(line, i, e)
    BY <1>1 DEF brokenPath
<1> HIDE DEF S
<1>4. DOMAIN store' = Node' /\ \A j \in Node' : \A e \in store'[j] : Kept(line', j, e)
    BY <1>1, <1>2, <1>3, StoreKept
<1> QED BY <1>1, <1>4 DEF IInv

\* An error starts back, or is not sent at all.
LEMMA SendErrorInv ==
    ASSUME IInv, packet # None, sendError
    PROVE  IInv' /\ (packet' # None => packet'.kind # packet.kind)
<1>1. /\ line \in Lines /\ line \in Seq(Switch) /\ Node = 1..Len(line)
      /\ packet.kind \in {"query", "reply", "error"}
      /\ packet.kind # "error" => Going(line, packet)
      /\ packet.at \in 1..Len(line)
    BY Carrying
<1>2. line' = line /\ Node' = Node
    BY DEF sendError, Node
<1>3. CASE packet.kind = "error"
    <2>1. packet' = None /\ store' = store
        BY <1>3 DEF sendError
    <2> QED BY <1>2, <2>1 DEF IInv
<1>4. CASE packet.kind # "error" /\ packet.from = RouterPort
    <2>1. learnBroken(packet.at, packet.label)
        BY <1>4 DEF sendError
    <2>2. packet.at \in Node
        BY <1>1
    <2> QED BY <1>2, <2>1, <2>2, LearnBrokenInv
<1>5. CASE packet.kind # "error" /\ packet.from # RouterPort
    <2> DEFINE back == across(packet.at, packet.from)
              q == [kind |-> "error", at |-> back.at, from |-> back.from,
                    label |-> bitReverse64(packet.label), origin |-> packet.origin,
                    sent |-> packet.sent, to |-> packet.to]
    <2>1. packet' = q /\ store' = store
        BY <1>5 DEF sendError
    <2>2. /\ q.kind = "error" /\ q.at = back.at /\ q.from = back.from /\ q.label = bitReverse64(packet.label)
          /\ q.origin = packet.origin /\ q.sent = packet.sent /\ q.to = packet.to
        OBVIOUS
    <2>3. Coming(line, q, packet.origin, packet.to, packet.sent) /\ q.label \in Label
        <3> HIDE DEF q
        <3> QED BY <1>1, <1>5, <2>2, TurnBack
    <2>4. q.at \in Nat /\ q.from \in Nat
        <3> HIDE DEF q
        <3>1. q.at \in 1..Len(line) /\ packet.to \in 1..Len(line) /\ q.from = toward(line, q.at, packet.to)
            BY <2>3 DEF Coming
        <3> QED BY <1>1, <3>1, PortNumber
    <2>5. packet.origin \in Nat /\ packet.to \in Nat /\ packet.sent \in Label
        <3>1. /\ packet.origin \in 1..Len(line) /\ packet.to \in 1..Len(line)
              /\ Path(line, packet.origin, packet.to, need(line, packet.origin, packet.to), packet.sent)
            BY <1>1, <1>5 DEF Going
        <3> QED BY <3>1 DEF Path
    <2>6. q \in Error
        BY <2>3, <2>4, <2>5 DEF Error
    <2>7. Carried(line, q)
        <3> HIDE DEF q
        <3> QED BY <2>2, <2>3, <2>6 DEF Carried
    <2> HIDE DEF q
    <2> QED BY <1>2, <1>5, <2>1, <2>2, <2>7 DEF IInv
<1> QED BY <1>3, <1>4, <1>5

\* A query that is taken is at its end: its source address is the label of its origin, which
\* its origin is added to the store with.
LEMMA Queried ==
    ASSUME IInv, packet # None, packet.kind = "query", NEW out, out = outcome, arrives(out),
           NEW i, i = packet.at, NEW o, o = packet.origin,
           NEW known, known = addNode(store[i], [node |-> o, path |-> out.source], TRUE)
    PROVE  /\ i \in 1..Len(line) /\ o \in 1..Len(line) /\ i # o
           /\ out.source \in Label
           /\ Path(line, i, o, need(line, i, o), out.source)
           /\ packet.sent \in Label
           /\ Path(line, o, i, need(line, o, i), packet.sent)
           /\ Forward(line, o, i, packet.sent, i, answered(out.source, need(line, i, o)))
           /\ \A e \in known : Kept(line, i, e)
<1>1. line \in Seq(Switch) /\ Node = 1..Len(line) /\ Going(line, packet)
    BY Carrying
<1> DEFINE r == receiveMessage(packet.at, packet.from, packet.label)
<1>2. r.ok /\ r.port = RouterPort /\ out.source = bitReverse64(r.label)
    BY OutcomeIs DEF arrives
<1>3. packet.at = packet.to
    BY <1>1, <1>2, GoOn
<1>4. /\ out.source \in Label
      /\ Path(line, packet.to, packet.origin, need(line, packet.to, packet.origin), out.source)
      /\ Forward(line, packet.origin, packet.to, packet.sent, packet.to,
                 answered(out.source, need(line, packet.to, packet.origin)))
    BY <1>1, <1>2, <1>3, GoneTo
<1>5. i = packet.to
    BY <1>3
<1>6. /\ i \in 1..Len(line) /\ o \in 1..Len(line) /\ i # o
      /\ Path(line, o, i, need(line, o, i), packet.sent)
    BY <1>1, <1>5 DEF Going
<1>7. Path(line, i, o, need(line, i, o), out.source)
    BY <1>4, <1>5
<1>8. Forward(line, o, i, packet.sent, i, answered(out.source, need(line, i, o)))
    BY <1>4, <1>5
<1>9. packet.sent \in Label
    BY <1>6 DEF Path
<1>10. ASSUME NEW e \in known PROVE Kept(line, i, e)
    <2> DEFINE new == [node |-> o, path |-> out.source]
    <2>1. new.node = o /\ new.path = out.source
        OBVIOUS
    <2> HIDE DEF new
    <2>2. Kept(line, i, new)
        BY <1>6, <1>7, <2>1 DEF Kept
    <2>3. e \in store[i] \union {new}
        <3>1. known = addNode(store[i], new, TRUE)
            BY DEF new
        <3>2. addNode(store[i], new, TRUE) \subseteq store[i] \union {new}
            BY Additions
        <3> QED BY <1>10, <3>1, <3>2
    <2>4. CASE e \in store[i]
        BY <1>1, <1>6, <2>4 DEF IInv
    <2> QED BY <2>2, <2>3, <2>4
<1> QED BY <1>4, <1>6, <1>7, <1>8, <1>9, <1>10

\* The node that an asker is told of is beyond the node it asks, and so is its label.
LEMMA Told ==
    ASSUME LabelsFit, line \in Lines, NEW i \in 1..Len(line), NEW o \in 1..Len(line), i # o,
           NEW source, Path(line, i, o, need(line, i, o), source),
           NEW e, Kept(line, i, e),
           getSwitchIndex(line[i].scheme, e.path) # getSwitchIndex(line[i].scheme, source)
    PROVE  Tells(line, o, i, e.node, getLabelFor(line[i].scheme, e.path, source))
<1> DEFINE j == e.node
<1>1. line \in Seq(Switch) /\ Len(line) \in Nat
    BY OneLine
<1>2. j \in 1..Len(line) /\ j # i /\ Path(line, i, j, need(line, i, j), e.path)
    BY DEF Kept
<1> HIDE DEF j
<1>3. /\ getSwitchIndex(line[i].scheme, e.path) = toward(line, i, j)
      /\ getSwitchIndex(line[i].scheme, source) = toward(line, i, o)
    BY <1>1, <1>2, ReadPath
<1>4. between(o, i, j)
    BY <1>2, <1>3 DEF between, toward
<1>5. need(line, i, j) + Bits(line, i, j) < Width
    BY <1>2 DEF Path
<1>6. 1 < i /\ i < Len(line)
    BY <1>1, <1>2, <1>4 DEF between
<1>7. widest(line, i) + Bits(line, i, j) < Width
    BY <1>2, <1>5, <1>6 DEF LabelsFit
<1>8. /\ getLabelFor(line[i].scheme, e.path, source) \in Label
      /\ Path(line, i, j, widest(line, i), getLabelFor(line[i].scheme, e.path, source))
    BY <1>1, <1>2, <1>4, <1>7, LabelFor
<1> QED BY <1>2, <1>4, <1>8 DEF j, Tells

\* The answer of a node to a query, with a node in it or without, is carried.
LEMMA Answering ==
    ASSUME line \in Seq(Switch), NEW i \in 1..Len(line), NEW o \in 1..Len(line), i # o,
           NEW source \in Label, Path(line, i, o, need(line, i, o), source),
           NEW x \in Label, Path(line, o, i, need(line, o, i), x),
           Forward(line, o, i, x, i, answered(source, need(line, i, o))),
           NEW j, NEW given, (j = None /\ given = None) \/ Tells(line, o, i, j, given)
    PROVE  Carried(line, [kind |-> "reply", at |-> i, from |-> RouterPort, label |-> source,
                          origin |-> i, sent |-> source, to |-> o, asked |-> x, node |-> j, path |-> given])
<1> DEFINE q == [kind |-> "reply", at |-> i, from |-> RouterPort, label |-> source,
                 origin |-> i, sent |-> source, to |-> o, asked |-> x, node |-> j, path |-> given]
<1>1. j \in Nat \union {None} /\ given \in Label \union {None}
    <2>1. Len(line) \in Nat
        OBVIOUS
    <2> QED BY <2>1 DEF Tells, Path
<1>2. q \in Reply
    <2>1. i \in Nat /\ o \in Nat /\ RouterPort \in Nat
        BY DEF RouterPort
    <2> QED BY <1>1, <2>1 DEF Reply
<1>3. /\ q.at = i /\ q.from = RouterPort /\ q.label = source /\ q.origin = i /\ q.sent = source
      /\ q.to = o /\ q.asked = x /\ q.node = j /\ q.path = given /\ q.kind = "reply"
    OBVIOUS
<1> HIDE DEF q
<1>4. Going(line, q)
    <2>1. Forward(line, i, o, source, i, source)
        BY Starting
    <2>2. toward(line, i, i) = RouterPort
        BY DEF toward
    <2> QED BY <1>3, <2>1, <2>2 DEF Going
<1>5. Turned(line, q, o, i, x)
    <2>1. \A b \in 1..need(line, i, o) :
              source[b] = code(line[i].scheme, toward(line, i, o), need(line, i, o))[b]
        BY DEF Path
    <2> QED BY <1>3, <2>1 DEF Turned
<1>6. Carried(line, q)
    BY <1>2, <1>3, <1>4, <1>5 DEF Carried
<1> QED BY <1>6 DEF q

\* A node takes a query, and answers it.
LEMMA HandleQueryInv ==
    ASSUME LabelsFit, IInv, NEW out \in Outcome, handleQuery(out)
    PROVE  IInv' /\ packet'.kind # packet.kind
<1> DEFINE i == packet.at
          o == packet.origin
          x == packet.sent
          scheme == line[i].scheme
          known == addNode(store[i], [node |-> o, path |-> out.source], TRUE)
<1>1. packet # None /\ out = outcome /\ packet.kind = "query" /\ arrives(out)
    BY DEF Outcome, handleQuery
<1>2. line \in Lines /\ line \in Seq(Switch) /\ Node = 1..Len(line)
    BY <1>1, Carrying
<1>3. /\ i \in 1..Len(line) /\ o \in 1..Len(line) /\ i # o
      /\ out.source \in Label
      /\ Path(line, i, o, need(line, i, o), out.source)
      /\ x \in Label
      /\ Path(line, o, i, need(line, o, i), x)
      /\ Forward(line, o, i, x, i, answered(out.source, need(line, i, o)))
      /\ \A e \in known : Kept(line, i, e)
    BY <1>1, Queried
<1>4. PICK e \in known :
          /\ getSwitchIndex(scheme, e.path) # getSwitchIndex(scheme, out.source)
          /\ packet' = [kind |-> "reply", at |-> i, from |-> RouterPort, label |-> out.source,
                        origin |-> i, sent |-> out.source, to |-> o, asked |-> x,
                        node |-> e.node, path |-> getLabelFor(scheme, e.path, out.source)]
    BY DEF handleQuery
<1>5. line' = line /\ store' = [store EXCEPT ![i] = known]
    BY DEF handleQuery
<1> DEFINE j == e.node
          given == getLabelFor(scheme, e.path, out.source)
          source == out.source
<1>6. Tells(line, o, i, j, given)
    BY <1>2, <1>3, <1>4, Told
<1>7. packet' = [kind |-> "reply", at |-> i, from |-> RouterPort, label |-> source,
                origin |-> i, sent |-> source, to |-> o, asked |-> x, node |-> j, path |-> given]
    BY <1>4
<1>8. source \in Label /\ Path(line, i, o, need(line, i, o), source)
      /\ Forward(line, o, i, x, i, answered(source, need(line, i, o)))
    BY <1>3
<1> HIDE DEF known, given, j, source, scheme
<1>9. DOMAIN store' = Node' /\ \A m \in Node' : \A n \in store'[m] : Kept(line', m, n)
    <2>1. i \in Node /\ DOMAIN store = Node /\ \A m \in Node : \A n \in store[m] : Kept(line, m, n)
        BY <1>2, <1>3 DEF IInv
    <2> HIDE DEF i
    <2> QED BY <1>2, <1>3, <1>5, <2>1, StoreKept
<1> HIDE DEF i, o, x
<1>10. Carried(line, packet')
    BY <1>2, <1>3, <1>6, <1>7, <1>8, Answering
<1>11. packet'.kind = "reply"
    BY <1>7
<1> QED BY <1>1, <1>2, <1>5, <1>9, <1>10, <1>11 DEF IInv

\* A node takes a query, and answers it without a node.
LEMMA HandleQueryNobodyInv ==
    ASSUME IInv, NEW out \in Outcome, handleQueryNobody(out)
    PROVE  IInv' /\ packet'.kind # packet.kind
<1> DEFINE i == packet.at
          o == packet.origin
          x == packet.sent
          source == out.source
          known == addNode(store[i], [node |-> o, path |-> out.source], TRUE)
<1>1. packet # None /\ out = outcome /\ packet.kind = "query" /\ arrives(out)
    BY DEF Outcome, handleQueryNobody
<1>2. line \in Lines /\ line \in Seq(Switch) /\ Node = 1..Len(line)
    BY <1>1, Carrying
<1>3. /\ i \in 1..Len(line) /\ o \in 1..Len(line) /\ i # o
      /\ source \in Label
      /\ Path(line, i, o, need(line, i, o), source)
      /\ x \in Label
      /\ Path(line, o, i, need(line, o, i), x)
      /\ Forward(line, o, i, x, i, answered(source, need(line, i, o)))
      /\ \A e \in known : Kept(line, i, e)
    BY <1>1, Queried
<1>4. line' = line /\ store' = [store EXCEPT ![i] = known]
    BY DEF handleQueryNobody
<1>5. packet' = [kind |-> "reply", at |-> i, from |-> RouterPort, label |-> source,
                origin |-> i, sent |-> source, to |-> o, asked |-> x, node |-> None, path |-> None]
    BY DEF handleQueryNobody
<1> HIDE DEF known, source
<1>6. DOMAIN store' = Node' /\ \A m \in Node' : \A n \in store'[m] : Kept(line', m, n)
    <2>1. i \in Node /\ DOMAIN store = Node /\ \A m \in Node : \A n \in store[m] : Kept(line, m, n)
        BY <1>2, <1>3 DEF IInv
    <2> HIDE DEF i
    <2> QED BY <1>2, <1>3, <1>4, <2>1, StoreKept
<1> HIDE DEF i, o, x
<1>7. Carried(line, packet')
    BY <1>2, <1>3, <1>5, Answering
<1>8. packet'.kind = "reply"
    BY <1>5
<1> QED BY <1>1, <1>2, <1>4, <1>6, <1>7, <1>8 DEF IInv

\* A reply that is taken is at its end, and its source address is the label that was asked on.
LEMMA Replied ==
    ASSUME IInv, packet # None, packet.kind = "reply", outcome.port = RouterPort
    PROVE  /\ packet.at = packet.to
           /\ outcome.source = packet.asked
           /\ Path(line, packet.to, packet.origin, need(line, packet.to, packet.origin), packet.asked)
<1>1. /\ line \in Seq(Switch) /\ Going(line, packet) /\ packet.label \in Label
      /\ Carried(line, packet)
    BY Carrying
<1> DEFINE r == receiveMessage(packet.at, packet.from, packet.label)
<1>2. r.port = RouterPort /\ outcome.source = bitReverse64(r.label)
    BY OutcomeIs
<1>3. packet.at = packet.to
    BY <1>1, <1>2, GoOn
<1>4. packet.origin # packet.to
    BY <1>1 DEF Going
<1>5. ~Turned(line, packet, packet.to, packet.origin, packet.asked)
    BY <1>3, <1>4 DEF Turned
<1>6. Coming(line, packet, packet.to, packet.origin, packet.asked)
    BY <1>1, <1>5, ReplyCarried
<1>7. bitReverse64(r.label) = packet.asked
    BY <1>1, <1>3, <1>6, ComeOn
<1>8. Path(line, packet.to, packet.origin, need(line, packet.to, packet.origin), packet.asked)
    BY <1>6 DEF Coming
<1> QED BY <1>2, <1>3, <1>7, <1>8

\* A node takes a reply: the label it is told is one to that node, from where it is.
LEMMA HandleReplyInv ==
    ASSUME IInv, NEW out \in Outcome, handleReply(out)
    PROVE  IInv' /\ packet' = None
<1> DEFINE i == packet.at
          k == packet.origin
          j == packet.node
          path == splice(packet.path, out.source)
          nodes == store[i]
          broken == brokenPath(line[i].scheme, nodes, packet.path)
          new == [node |-> j, path |-> path]
          added == addNode(nodes, new, FALSE)
          S == CASE \/ j = None
                    \/ [node |-> k, path |-> out.source] \notin nodes -> nodes
                 [] j = i -> broken
                 [] j # i /\ path = UINT64_MAX -> nodes
                 [] OTHER -> added
<1>1. packet # None /\ out = outcome /\ packet.kind = "reply" /\ outcome.port = RouterPort
    BY DEF Outcome, handleReply, arrives
<1>2. line \in Lines /\ line \in Seq(Switch) /\ Node = 1..Len(line) /\ Carried(line, packet)
      /\ packet.at \in 1..Len(line) /\ Going(line, packet)
    BY <1>1, Carrying
<1>3. i = packet.to /\ Path(line, i, k, need(line, i, k), out.source)
    BY <1>1, Replied
<1>4. j # None => Tells(line, i, k, j, packet.path)
    BY <1>1, <1>2, <1>3, ReplyCarried
<1>5. k \in 1..Len(line) /\ i \in Nat /\ i # j
    <2>1. k \in 1..Len(line) /\ i \in Nat
        BY <1>2 DEF Going
    <2>2. CASE j = None
        BY <2>1, <2>2, NoneAssumption
    <2>3. CASE j # None
        BY <1>4, <2>1, <2>3 DEF Tells, between
    <2> QED BY <2>1, <2>2, <2>3
<1>6. line' = line /\ packet' = None
    BY DEF handleReply
<1>7. i \in Node /\ DOMAIN store = Node /\ \A m \in Node : \A n \in store[m] : Kept(line, m, n)
    BY <1>2 DEF IInv
<1>8. store' = [store EXCEPT ![i] = S]
    BY <1>7 DEF handleReply
<1> HIDE DEF i, k, j
<1>9. \A e \in nodes : Kept(line, i, e)
    BY <1>7
<1>10. j # None /\ path # UINT64_MAX => Kept(line, i, new)
    <2>1. SUFFICES ASSUME j # None, path # UINT64_MAX PROVE Kept(line, i, new)
        OBVIOUS
    <2>2. j \in 1..Len(line) /\ between(i, k, j) /\ Path(line, k, j, widest(line, k), packet.path)
        BY <1>4, <2>1 DEF Tells
    <2>3. Path(line, i, j, need(line, i, j), path)
        BY <1>2, <1>3, <1>5, <1>7, <2>1, <2>2, SplicePath
    <2> QED BY <1>5, <2>2, <2>3 DEF Kept
<1>11. added \subseteq nodes \union {new}
    <2> HIDE DEF nodes, new
    <2> QED BY Additions
<1> HIDE DEF nodes, new, path, added, broken
<1>12. ASSUME NEW e \in S PROVE Kept(line, i, e)
    <2>1. CASE j = None \/ [node |-> k, path |-> out.source] \notin nodes
        BY <1>5, <1>9, <1>12, <2>1
    <2>2. CASE j # None /\ [node |-> k, path |-> out.source] \in nodes /\ path = UINT64_MAX
        BY <1>5, <1>9, <1>12, <2>2
    <2>3. CASE j # None /\ [node |-> k, path |-> out.source] \in nodes /\ path # UINT64_MAX
        <3>1. e \in added
            BY <1>5, <1>12, <2>3
        <3> QED BY <1>9, <1>10, <1>11, <2>3, <3>1
    <2> QED BY <2>1, <2>2, <2>3
<1> HIDE DEF S
<1>13. DOMAIN store' = Node' /\ \A m \in Node' : \A n \in store'[m] : Kept(line', m, n)
    BY <1>2, <1>6, <1>7, <1>8, <1>12, StoreKept
<1> QED BY <1>2, <1>6, <1>13 DEF IInv

\* A node takes an error.
LEMMA HandleErrorInv ==
    ASSUME IInv, NEW out \in Outcome, handleError(out)
    PROVE  IInv' /\ packet' = None
<1>1. packet # None /\ learnBroken(packet.at, out.source) /\ line' = line
    BY DEF Outcome, handleError
<1>2. packet.at \in Node
    BY <1>1, Carrying
<1> QED BY <1>1, <1>2, LearnBrokenInv

\* Every step keeps the invariant.
LEMMA NextInv == LabelsFit /\ IInv /\ [Next]_vars => IInv'
<1> SUFFICES ASSUME LabelsFit, IInv, [Next]_vars PROVE IInv'
    OBVIOUS
<1>1. CASE \E i \in Asker : \E e \in store[i] : sendQuery(i, e)
    BY <1>1, SendQueryInv
<1>2. CASE \E out \in Outcome : forward(out)
    BY <1>2, ForwardInv
<1>3. CASE \E out \in Outcome : refuse(out)
    <2>1. packet # None /\ sendError
        BY <1>3 DEF refuse, Outcome
    <2> QED BY <2>1, SendErrorInv
<1>4. CASE \E out \in Outcome : linkFails(out)
    <2>1. packet # None /\ sendError
        BY <1>4 DEF linkFails, Outcome
    <2> QED BY <2>1, SendErrorInv
<1>5. CASE \E out \in Outcome : handleQuery(out)
    BY <1>5, HandleQueryInv
<1>6. CASE \E out \in Outcome : handleQueryNobody(out)
    BY <1>6, HandleQueryNobodyInv
<1>7. CASE \E out \in Outcome : handleReply(out)
    BY <1>7, HandleReplyInv
<1>8. CASE \E out \in Outcome : handleError(out)
    BY <1>8, HandleErrorInv
<1>9. CASE UNCHANGED vars
    <2>1. line' = line /\ store' = store /\ packet' = packet /\ Node' = Node
        BY <1>9 DEF vars, Node
    <2> QED BY <2>1 DEF IInv
<1> QED BY <1>1, <1>2, <1>3, <1>4, <1>5, <1>6, <1>7, <1>8, <1>9 DEF Next

-----------------------------------------------------------------------------
(* What the invariant shows *)

\* The invariant holds always, where labels fit.
LEMMA AlwaysCarried == LabelsFit => (Spec => []IInv)
<1> SUFFICES ASSUME LabelsFit PROVE Spec => []IInv
    OBVIOUS
<1>1. IInv /\ [Next]_vars => IInv'
    BY NextInv
<1> QED BY <1>1, InitInv, PTL DEF Spec

\* Routers keep labels of other nodes only, and a switch is only given packets by interfaces
\* it has.
THEOREM LabelsHaveTypes == LabelsFit => (Spec => []TypeOK)
<1>1. IInv => TypeOK
    <2> SUFFICES ASSUME IInv PROVE TypeOK
        OBVIOUS
    <2>1. line \in Lines /\ line \in Seq(Switch) /\ Node = 1..Len(line) /\ DOMAIN store = Node
        BY OneLine DEF IInv
    <2>2. ASSUME NEW i \in Node, NEW e \in store[i] PROVE e.node \in Node \ {i} /\ e.path \in Label
        BY <2>1, <2>2 DEF IInv, Kept, Path
    <2>3. ASSUME packet # None
          PROVE  /\ packet.kind \in {"query", "reply", "error"}
                 /\ packet.at \in Node /\ packet.from \in ports(packet.at)
                 /\ packet.label \in Label
        <3>1. /\ packet.kind \in {"query", "reply", "error"}
              /\ packet.at \in 1..Len(line) /\ packet.label \in Label
              /\ Carried(line, packet) /\ (packet.kind # "error" => Going(line, packet))
            BY <2>3, Carrying
        <3>2. \E j \in 1..Len(line) : packet.from = toward(line, packet.at, j)
            <4>1. CASE packet.kind = "error"
                <5>1. Coming(line, packet, packet.origin, packet.to, packet.sent)
                    BY <3>1, <4>1, Kinds
                <5> QED BY <5>1 DEF Coming
            <4>2. CASE packet.kind # "error"
                BY <3>1, <4>2 DEF Going
            <4> QED BY <4>1, <4>2
        <3>3. PICK j \in 1..Len(line) : packet.from = toward(line, packet.at, j)
            BY <3>2
        <3>4. packet.from \in ports(packet.at)
            <4>1. CASE j = packet.at
                BY <3>3, <4>1 DEF toward, ports
            <4>2. CASE j # packet.at
                BY <2>1, <3>1, <3>3, <4>2, Across
            <4> QED BY <4>1, <4>2
        <3> QED BY <2>1, <3>1, <3>4
    <2> QED BY <2>1, <2>2, <2>3 DEF TypeOK
<1> QED BY <1>1, AlwaysCarried, PTL

\* Whatever schemes and slots the switches of a line use, a packet on a label of the store is
\* refused by no switch on its way and comes to the node the label is kept for.
THEOREM LabelsLead == LabelsFit => (Spec => []QueryEndsAtNode)
<1>1. IInv => QueryEndsAtNode
    <2> SUFFICES ASSUME IInv, packet # None, packet.kind = "query", ~outcome.ok \/ outcome.port = RouterPort
                 PROVE  packet.at = packet.to
        BY DEF QueryEndsAtNode
    <2>1. line \in Seq(Switch) /\ Going(line, packet)
        BY Carrying
    <2> DEFINE r == receiveMessage(packet.at, packet.from, packet.label)
    <2>2. ~r.ok \/ r.port = RouterPort
        BY OutcomeIs
    <2> QED BY <2>1, <2>2, GoOn
<1> QED BY <1>1, AlwaysCarried, PTL

\* What goes back on a bit reversed label is refused nowhere, comes to where the label was
\* used and shows that label, bit for bit, as its source address: a reply from the end of
\* the way, and an error from wherever on it.
THEOREM LabelsLeadBack == LabelsFit => (Spec => []AnswersComeBack)
<1>1. IInv => AnswersComeBack
    <2> SUFFICES ASSUME IInv, packet # None, packet.kind # "query"
                 PROVE  /\ outcome.ok
                        /\ outcome.port = RouterPort =>
                              IF packet.kind = "reply"
                              THEN packet.at = packet.to /\ outcome.source = packet.asked
                              ELSE packet.at = packet.origin /\ outcome.source = packet.sent
        BY DEF AnswersComeBack
    <2>1. /\ line \in Seq(Switch) /\ packet.kind \in {"query", "reply", "error"} /\ packet.label \in Label
          /\ Carried(line, packet)
        BY Carrying
    <2> DEFINE r == receiveMessage(packet.at, packet.from, packet.label)
    <2>2. /\ outcome.ok = r.ok /\ outcome.port = r.port
          /\ outcome.source = bitReverse64(r.label)
        BY OutcomeIs
    <2>3. CASE packet.kind = "reply"
        <3>1. Going(line, packet)
            BY <2>3, Carrying
        <3>2. r.ok
            <4>1. CASE packet.at # packet.to
                BY <2>1, <3>1, <4>1, GoOn
            <4>2. CASE packet.at = packet.to
                <5>1. packet.origin # packet.to
                    BY <3>1 DEF Going
                <5>2. ~Turned(line, packet, packet.to, packet.origin, packet.asked)
                    BY <4>2, <5>1 DEF Turned
                <5>3. Coming(line, packet, packet.to, packet.origin, packet.asked)
                    BY <2>1, <2>3, <5>2, ReplyCarried
                <5> QED BY <2>1, <5>3, ComeOn
            <4> QED BY <4>1, <4>2
        <3>3. outcome.port = RouterPort => packet.at = packet.to /\ outcome.source = packet.asked
            BY <2>3, Replied
        <3> QED BY <2>2, <2>3, <3>2, <3>3
    <2>4. CASE packet.kind = "error"
        <3>1. Coming(line, packet, packet.origin, packet.to, packet.sent)
            BY <2>1, <2>4, Kinds
        <3>2. r.ok
            BY <2>1, <3>1, ComeOn
        <3>3. r.port = RouterPort => packet.at = packet.origin
            BY <2>1, <3>1, ComeOn
        <3>4. packet.at = packet.origin => bitReverse64(r.label) = packet.sent
            BY <2>1, <3>1, ComeOn
        <3> QED BY <2>2, <2>4, <3>2, <3>3, <3>4
    <2> QED BY <2>1, <2>3, <2>4
<1> QED BY <1>1, AlwaysCarried, PTL

\* The two tests of LabelSplicer.h, which see nothing but bits, tell for any two labels of a
\* store whether one node is on the way to the other and whether a node is a peer.
THEOREM LabelsTell == LabelsFit => (Spec => []LabelsTellTopology)
<1>1. IInv => LabelsTellTopology
    <2> SUFFICES ASSUME IInv, NEW i \in Node, NEW e \in store[i], NEW f \in store[i]
                 PROVE  /\ routesThrough(e.path, f.path) <=>
                              (i < f.node /\ f.node <= e.node) \/ (e.node <= f.node /\ f.node < i)
                        /\ isOneHop(line[i].scheme, e.path) <=> e.node \in {i - 1, i + 1}
        BY DEF LabelsTellTopology
    <2>1. line \in Seq(Switch) /\ i \in 1..Len(line)
        BY OneLine DEF IInv
    <2> DEFINE j == e.node
              k == f.node
              x == e.path
              y == f.path
    <2>2. /\ j \in 1..Len(line) /\ i # j /\ Path(line, i, j, need(line, i, j), x)
          /\ k \in 1..Len(line) /\ i # k /\ Path(line, i, k, need(line, i, k), y)
        BY DEF IInv, Kept
    <2> HIDE DEF j, k, x, y
    <2>3. routesThrough(x, y) <=> (i < k /\ k <= j) \/ (j <= k /\ k < i)
        BY <2>1, <2>2, Through
    <2>4. isOneHop(line[i].scheme, x) <=> j \in {i - 1, i + 1}
        BY <2>1, <2>2, OneHop
    <2> QED BY <2>3, <2>4 DEF j, k, x, y
<1> QED BY <1>1, AlwaysCarried, PTL

\* A packet is passed on to the next node on its way.
LEMMA NextOnWay ==
    ASSUME line \in Seq(Switch), NEW p, Carried(line, p),
           receiveMessage(p.at, p.from, p.label).port # RouterPort,
           NEW q, Readdressed(p, q), PassedOn(p, q)
    PROVE  /\ p.at \in 1..Len(line) /\ destination(p) \in 1..Len(line)
           /\ p.at # destination(p) /\ q.at = next(p.at, destination(p))
<1>1. p.kind \in {"query", "reply", "error"} /\ p.label \in Label
    BY Kinds
<1>2. CASE p.kind # "error"
    <2>1. Going(line, p) /\ (p \in Query \/ p \in Reply)
        BY <1>1, <1>2, Kinds
    <2>2. q.origin = p.origin /\ q.to = p.to /\ q.sent = p.sent
        BY <2>1 DEF Query, Reply, Readdressed
    <2>3. p.at # p.to
        BY <2>1, GoneTo
    <2>4. q.at = next(p.at, p.to)
        BY <2>1, <2>2, <2>3, GoOn
    <2>5. p.at \in 1..Len(line) /\ p.to \in 1..Len(line)
        BY <2>1 DEF Going
    <2> QED BY <1>2, <2>3, <2>4, <2>5 DEF destination
<1>3. CASE p.kind = "error"
    <2> DEFINE o == p.origin
              d == p.to
              x == p.sent
    <2>1. Coming(line, p, o, d, x)
        BY <1>3, Kinds
    <2>2. destination(p) = o
        BY <1>3 DEF destination
    <2> HIDE DEF o, d, x
    <2>3. p.at # o
        BY <1>1, <2>1, ComeOn
    <2>4. q.at = next(p.at, o)
        BY <1>1, <2>1, <2>3, ComeOn
    <2>5. p.at \in 1..Len(line) /\ o \in 1..Len(line)
        BY <2>1 DEF Coming
    <2> QED BY <2>2, <2>3, <2>4, <2>5
<1> QED BY <1>2, <1>3

\* No packet goes around: each hop takes it nearer to the node it is for, so that it makes no
\* more hops than the line has nodes.
THEOREM HopsAreNearer == LabelsFit => (Spec => EveryHopIsNearer)
<1> DEFINE Hop == packet # None /\ packet' # None /\ packet'.kind = packet.kind
          Near == distance(packet'.at, destination(packet)) < distance(packet.at, destination(packet))
<1> SUFFICES ASSUME LabelsFit PROVE Spec => EveryHopIsNearer
    OBVIOUS
<1>1. IInv /\ [Next]_vars => [Hop => Near]_vars
    <2> SUFFICES ASSUME IInv, Next, Hop PROVE Near
        BY DEF vars
    <2>1. CASE \E i \in Asker : \E e \in store[i] : sendQuery(i, e)
        BY <2>1 DEF sendQuery
    <2>2. CASE \E out \in Outcome : forward(out)
        <3>1. /\ receiveMessage(packet.at, packet.from, packet.label).port # RouterPort
              /\ Readdressed(packet, packet') /\ PassedOn(packet, packet')
            BY <2>2, ForwardInv
        <3>2. line \in Seq(Switch) /\ Carried(line, packet) /\ Len(line) \in Nat
            BY Carrying
        <3> DEFINE k == packet.at
                  d == destination(packet)
                  n == packet'.at
        <3>3. k \in 1..Len(line) /\ d \in 1..Len(line) /\ k # d /\ n = next(k, d)
            BY <3>1, <3>2, NextOnWay
        <3> HIDE DEF k, d, n
        <3>4. distance(n, d) < distance(k, d)
            BY <3>2, <3>3 DEF next, distance
        <3> QED BY <3>4 DEF k, d, n
    <2>3. CASE \E out \in Outcome : refuse(out)
        <3>1. sendError
            BY <2>3 DEF refuse
        <3> QED BY <3>1, SendErrorInv
    <2>4. CASE \E out \in Outcome : linkFails(out)
        <3>1. sendError
            BY <2>4 DEF linkFails
        <3> QED BY <3>1, SendErrorInv
    <2>5. CASE \E out \in Outcome : handleQuery(out)
        BY <2>5, HandleQueryInv
    <2>6. CASE \E out \in Outcome : handleQueryNobody(out)
        BY <2>6, HandleQueryNobodyInv
    <2>7. CASE \E out \in Outcome : handleReply(out)
        BY <2>7, HandleReplyInv
    <2>8. CASE \E out \in Outcome : handleError(out)
        BY <2>8, HandleErrorInv
    <2> QED BY <2>1, <2>2, <2>3, <2>4, <2>5, <2>6, <2>7, <2>8 DEF Next
<1>2. IInv /\ [Next]_vars => IInv'
    BY NextInv
<1> QED BY <1>1, <1>2, InitInv, PTL DEF Spec, EveryHopIsNearer

-----------------------------------------------------------------------------
(* Where labels fit *)

\* No node adds more than 10 bits.
LEMMA GrowsAtMost ==
    ASSUME NEW l \in Seq(Switch), NEW a \in 1..Len(l), NEW c \in 1..Len(l), a <= c
    PROVE  before(l)[a] \in Nat /\ before(l)[c] \in Nat /\ before(l)[c] <= before(l)[a] + 10 * (c - a)
<1> DEFINE Bad == {m \in a..Len(l) : ~(before(l)[m] <= before(l)[a] + 10 * (m - a))}
<1>0. Len(l) \in Nat /\ \A k \in 1..Len(l) : widest(l, k) \in Nat /\ widest(l, k) <= 10
    <2>1. \A k \in 1..Len(l) : widest(l, k) \in 4..10
        BY AtSwitch
    <2> QED BY <2>1
<1>1. \A k \in 1..Len(l) : before(l)[k] \in Nat
    BY Before
<1>2. \A k \in 1..Len(l) : k # 1 => before(l)[k] = before(l)[k - 1] + widest(l, k - 1)
    BY Before
<1>3. SUFFICES ASSUME c \in Bad PROVE FALSE
    BY <1>0, <1>1
<1>4. Bad \in SUBSET Nat /\ Bad # {}
    BY <1>0, <1>3, SMTT(40)
<1>5. PICK m \in Bad : \A q \in Bad : m <= q
    BY <1>4, Least
<1>6. m \in a..Len(l) /\ m # a
    <2>1. m \in a..Len(l) /\ ~(before(l)[m] <= before(l)[a] + 10 * (m - a))
        BY <1>5
    <2>2. before(l)[a] <= before(l)[a] + 10 * (a - a)
        BY <1>1
    <2> QED BY <2>1, <2>2
<1>7. m - 1 \in a..Len(l) /\ m - 1 \notin Bad /\ m - 1 \in 1..Len(l) /\ m # 1 /\ m \in 1..Len(l)
    BY <1>0, <1>5, <1>6
<1>8. before(l)[m - 1] <= before(l)[a] + 10 * (m - 1 - a)
    BY <1>7
<1>9. before(l)[m] = before(l)[m - 1] + widest(l, m - 1) /\ widest(l, m - 1) \in Nat /\ widest(l, m - 1) <= 10
    BY <1>0, <1>2, <1>7
<1>10. before(l)[m] \in Nat /\ before(l)[m - 1] \in Nat /\ before(l)[a] \in Nat /\ m \in Nat /\ a \in Nat
    BY <1>0, <1>1, <1>7
<1>11. before(l)[m] <= before(l)[a] + 10 * (m - a)
    BY <1>8, <1>9, <1>10
<1> QED BY <1>5, <1>11

\* A line so short that no label of a router in the middle of it is full.
Short(l) == 10 * (Len(l) - 2) < Width

\* A line in which each switch in the middle needs as many bits for the one port as for the
\* other, as all do with a scheme of a fixed width.
Even(l) ==
    \A i \in 2..Len(l) - 1 :
        bitsUsedForNumber(l[i].scheme, l[i].back) = bitsUsedForNumber(l[i].scheme, l[i].fwd)

\* Labels fit in every line of 8 nodes, with the 64 bits of the code, and in lines of any
\* length whose switches need the same bits either way: what the theorems above assume.
THEOREM LabelsDoFit == (\A l \in Lines : Short(l) \/ Even(l)) => LabelsFit
<1> SUFFICES ASSUME NEW l \in Lines, Short(l) \/ Even(l), NEW i \in 1..Len(l), NEW j \in 1..Len(l),
                    1 < i, i < Len(l), i # j, need(l, i, j) + Bits(l, i, j) < Width
             PROVE  widest(l, i) + Bits(l, i, j) < Width
    BY DEF LabelsFit
<1>1. l \in Seq(Switch) /\ Len(l) \in Nat
    BY LinesAssumption
<1>2. Width \in Nat /\ widest(l, i) \in Nat /\ widest(l, i) <= 10
    <2>1. widest(l, i) \in 4..10 /\ widest(l, i) \in Nat
        BY <1>1, AtSwitch
    <2> QED BY <2>1, WidthAssumption
<1>3. CASE Even(l)
    <2>1. i \in 2..Len(l) - 1
        BY <1>1
    <2>2. bitsUsedForNumber(l[i].scheme, l[i].back) = bitsUsedForNumber(l[i].scheme, l[i].fwd)
        BY <1>3, <2>1 DEF Even
    <2>3. toward(l, i, j) \in {l[i].back, l[i].fwd}
        BY DEF toward
    <2>4. need(l, i, j) = widest(l, i)
        BY <2>2, <2>3 DEF need, widest
    <2> QED BY <2>4
<1>4. CASE Short(l)
    <2>1. 10 * (Len(l) - 2) < Width
        BY <1>4 DEF Short
    <2>2. Bits(l, i, j) \in Nat /\ Bits(l, i, j) <= 10 * (Len(l) - 3)
        <3>1. CASE i < j
            <4>1. i + 1 \in 1..Len(l) /\ i + 1 <= j
                BY <1>1, <3>1
            <4>2. /\ before(l)[i + 1] \in Nat /\ before(l)[j] \in Nat
                  /\ before(l)[j] <= before(l)[i + 1] + 10 * (j - (i + 1))
                BY <1>1, <4>1, GrowsAtMost
            <4>3. Bits(l, i, j) = before(l)[j] - before(l)[i + 1]
                BY <3>1 DEF Bits
            <4>4. Bits(l, i, j) \in Nat
                BY <1>1, BitsBetween
            <4> QED BY <1>1, <4>2, <4>3, <4>4
        <3>2. CASE j < i
            <4>1. j + 1 \in 1..Len(l) /\ j + 1 <= i
                BY <1>1, <3>2
            <4>2. /\ before(l)[j + 1] \in Nat /\ before(l)[i] \in Nat
                  /\ before(l)[i] <= before(l)[j + 1] + 10 * (i - (j + 1))
                BY <1>1, <4>1, GrowsAtMost
            <4>3. Bits(l, i, j) = before(l)[i] - before(l)[j + 1]
                BY <3>2 DEF Bits
            <4>4. Bits(l, i, j) \in Nat
                BY <1>1, BitsBetween
            <4> QED BY <1>1, <4>2, <4>3, <4>4
        <3> QED BY <3>1, <3>2
    <2> QED BY <1>1, <1>2, <2>1, <2>2
<1> QED BY <1>3, <1>4

=============================================================================
