----------------------------- MODULE WireProofs -----------------------------
(***************************************************************************)
(* Machine-checked proofs about the canonical codec and the RPC            *)
(* connection, for bytes of any radix above 4, any widths and limits, any  *)
(* requests and any bytes a client may write.                              *)
(***************************************************************************)
EXTENDS Wire, DataLemmas

LEMMA Product ==
    ASSUME NEW a \in Nat, NEW b \in Nat, NEW r \in Nat, a <= b
    PROVE  a * r <= b * r /\ a * r \in Nat
  OBVIOUS

LEMMA Number ==
    ASSUME NEW q \in Nat, NEW r \in Nat, NEW b \in Nat
    PROVE  q * r + b \in Nat
  OBVIOUS

LEMMA Division ==
    ASSUME NEW r \in Nat \ {0}, NEW n \in Nat
    PROVE  /\ n \div r \in Nat /\ n % r \in 0 .. r - 1
           /\ n = (n \div r) * r + (n % r)
  OBVIOUS

LEMMA UniqueDivision ==
    ASSUME NEW r \in Nat \ {0}, NEW q \in Nat, NEW b \in 0 .. r - 1,
           NEW p \in Nat, NEW c \in 0 .. r - 1, q * r + b = p * r + c
    PROVE  q = p /\ b = c
<1>1. ASSUME NEW x \in Nat, NEW y \in Nat, x < y, NEW d \in 0 .. r - 1, NEW e \in 0 .. r - 1
      PROVE  x * r + d < y * r + e
  <2>1. (x + 1) * r <= y * r
    BY <1>1, Product
  <2>2. (x + 1) * r = x * r + r
    OBVIOUS
  <2>3. PICK u, v : u = x * r /\ v = y * r
    OBVIOUS
  <2>4. u \in Nat /\ v \in Nat
    BY <2>3
  <2> QED BY <2>1, <2>2, <2>3, <2>4
<1>2. ~(q < p) /\ ~(p < q)
  <2>1. q * r \in Nat /\ p * r \in Nat
    OBVIOUS
  <2> QED BY <1>1, <2>1
<1>3. q = p
  BY <1>2
<1>4. PICK u : u = q * r
  OBVIOUS
<1>5. u \in Nat /\ u + b = u + c
  BY <1>3, <1>4
<1> QED BY <1>3, <1>5

LEMMA DivisionOf ==
    ASSUME NEW r \in Nat \ {0}, NEW q \in Nat, NEW b \in 0 .. r - 1
    PROVE  q * r + b \in Nat /\ (q * r + b) \div r = q /\ (q * r + b) % r = b
<1>1. PICK n : n = q * r + b
  OBVIOUS
<1>2. n \in Nat
  BY <1>1
<1>3. n \div r \in Nat /\ n % r \in 0 .. r - 1 /\ n = (n \div r) * r + (n % r)
  BY <1>2, Division
<1>4. PICK p, c : p = n \div r /\ c = n % r
  OBVIOUS
<1>5. p \in Nat /\ c \in 0 .. r - 1 /\ q * r + b = p * r + c
  BY <1>1, <1>3, <1>4
<1>6. q = p /\ b = c
  BY <1>5, UniqueDivision
<1> QED BY <1>1, <1>2, <1>4, <1>6

(* Which numbers a digit more can hold.                                    *)
LEMMA MoreDigits ==
    ASSUME NEW r \in Nat \ {0}, NEW v \in Nat
    PROVE  /\ \A n \in Nat : n < r * v => n \div r < v
           /\ \A q \in Nat, b \in 0 .. r - 1 : q < v => q * r + b < r * v
<1>1. ASSUME NEW q \in Nat, NEW b \in 0 .. r - 1, q < v PROVE q * r + b < r * v
  <2>1. (q + 1) * r <= v * r
    BY <1>1, Product
  <2>2. (q + 1) * r = q * r + r /\ v * r = r * v
    OBVIOUS
  <2>3. PICK u, w : u = q * r /\ w = r * v
    OBVIOUS
  <2>4. u \in Nat /\ w \in Nat
    BY <2>3
  <2> QED BY <2>1, <2>2, <2>3, <2>4
<1>2. ASSUME NEW n \in Nat, n < r * v PROVE n \div r < v
  <2>1. PICK q, b : q = n \div r /\ b = n % r
    OBVIOUS
  <2>2. q \in Nat /\ b \in 0 .. r - 1 /\ n = q * r + b
    BY <2>1, Division
  <2>3. ASSUME v <= q PROVE FALSE
    <3>1. v * r <= q * r /\ v * r \in Nat /\ q * r \in Nat
      BY <2>2, <2>3, Product
    <3>2. v * r = r * v
      OBVIOUS
    <3>3. PICK u, w : u = q * r /\ w = v * r
      OBVIOUS
    <3> QED BY <1>2, <2>2, <3>1, <3>2, <3>3
  <2> QED BY <2>1, <2>2, <2>3
<1> QED BY <1>1, <1>2
-----------------------------------------------------------------------------
(* What the recursive functions of the codec are.                          *)
LEMMA NumbersDef ==
    /\ Numbers = [n \in Nat |-> IF n = 0 THEN 1 ELSE Radix * Numbers[n - 1]]
    /\ Numbers \in [Nat -> Nat]
<1>1. PICK G : G = [v \in Nat |-> Radix * v]
  OBVIOUS
<1>2. G \in [Nat -> Nat] /\ 1 \in Nat
  BY <1>1, CodecAssumption
<1>3. PICK f \in [Nat -> Nat] : f[0] = 1 /\ \A n \in Nat : n # 0 => f[n] = G[f[n - 1]]
  <2>1. PICK S, base : S = Nat /\ base = 1
    OBVIOUS
  <2>2. base \in S /\ G \in [S -> S]
    BY <1>2, <2>1
  <2>3. \E f \in [Nat -> S] : f[0] = base /\ \A n \in Nat : n # 0 => f[n] = G[f[n - 1]]
    BY <2>2, Recursion
  <2> QED BY <2>1, <2>3
<1>4. f = [n \in Nat |-> IF n = 0 THEN 1 ELSE Radix * f[n - 1]]
  <2>1. \A n \in Nat : n # 0 => f[n - 1] \in Nat
    OBVIOUS
  <2>2. \A n \in Nat : n # 0 => G[f[n - 1]] = Radix * f[n - 1]
    BY <1>1, <2>1
  <2> QED BY <1>3, <2>2
<1> DEFINE Is(g) == g = [n \in Nat |-> IF n = 0 THEN 1 ELSE Radix * g[n - 1]]
<1>5. Numbers = CHOOSE g : Is(g)
  BY DEF Numbers
<1>6. Is(Numbers)
  <2> HIDE DEF Is
  <2>1. Is(f)
    BY <1>4 DEF Is
  <2> QED BY <1>5, <2>1
<1>7. ASSUME NEW g, Is(g) PROVE g \in [Nat -> Nat]
  <2> DEFINE Good == {n \in Nat : g[n] = f[n]}
  <2>1. 0 \in Good
    BY <1>4, <1>7
  <2>2. ASSUME NEW n \in Nat, n \in Good PROVE n + 1 \in Good
    BY <1>4, <1>7, <2>2
  <2>3. Good = Nat
    <3> HIDE DEF Good
    <3>1. Good \subseteq Nat
      BY DEF Good
    <3>2. Nat \subseteq Good
      BY <2>1, <2>2, SetInduction
    <3> QED BY <3>1, <3>2
  <2> QED BY <1>7, <2>3
<1> QED BY <1>6, <1>7

LEMMA BytesDef ==
    BytesOf = [width \in Nat |->
                  [n \in Nat |-> IF width = 0 THEN <<>>
                                 ELSE Append(BytesOf[width - 1][n \div Radix], n % Radix)]]
<1>0. PICK S : S = [Nat -> Seq(Byte)]
  OBVIOUS
<1>1. Radix \in Nat \ {0} /\ \A n \in Nat : n \div Radix \in Nat /\ n % Radix \in Byte
  <2>1. Radix \in Nat \ {0}
    BY CodecAssumption
  <2> QED BY <2>1, Division DEF Byte
<1>2. PICK G : G = [f \in S |-> [n \in Nat |-> Append(f[n \div Radix], n % Radix)]]
  OBVIOUS
<1>3. PICK base : base = [n \in Nat |-> <<>>]
  OBVIOUS
<1>4. base \in S /\ G \in [S -> S]
  <2>1. base \in S
    BY <1>0, <1>3
  <2>2. ASSUME NEW f \in S PROVE G[f] \in S
    <3>1. ASSUME NEW n \in Nat PROVE Append(f[n \div Radix], n % Radix) \in Seq(Byte)
      <4>1. f[n \div Radix] \in Seq(Byte) /\ n % Radix \in Byte
        BY <1>0, <1>1
      <4> QED BY <4>1, AppendParts
    <3> QED BY <1>0, <1>2, <3>1
  <2> QED BY <1>2, <2>1, <2>2
<1>5. PICK f \in [Nat -> S] : f[0] = base /\ \A n \in Nat : n # 0 => f[n] = G[f[n - 1]]
  BY <1>4, Recursion
<1> DEFINE Is(g) == g = [width \in Nat |->
                            [n \in Nat |-> IF width = 0 THEN <<>>
                                           ELSE Append(g[width - 1][n \div Radix], n % Radix)]]
<1>6. Is(f)
  <2>1. ASSUME NEW w \in Nat
        PROVE  f[w] = [n \in Nat |-> IF w = 0 THEN <<>>
                                     ELSE Append(f[w - 1][n \div Radix], n % Radix)]
    <3>1. CASE w = 0
      BY <1>3, <1>5, <3>1
    <3>2. CASE w # 0
      <4>1. f[w] = G[f[w - 1]] /\ f[w - 1] \in S
        BY <1>5, <3>2
      <4>2. G[f[w - 1]] = [n \in Nat |-> Append(f[w - 1][n \div Radix], n % Radix)]
        BY <1>2, <4>1
      <4> QED BY <3>2, <4>1, <4>2
    <3> QED BY <3>1, <3>2
  <2>2. f = [w \in Nat |-> f[w]]
    BY <1>5
  <2>3. PICK g : g = [w \in Nat |-> [n \in Nat |-> IF w = 0 THEN <<>>
                                     ELSE Append(f[w - 1][n \div Radix], n % Radix)]]
    OBVIOUS
  <2>4. \A w \in Nat : f[w] = g[w]
    BY <2>1, <2>3
  <2>5. f = g
    BY <2>2, <2>3, <2>4
  <2> QED BY <2>3, <2>5
<1>7. BytesOf = CHOOSE g : Is(g)
  BY DEF BytesOf
<1> HIDE DEF Is
<1>8. Is(BytesOf)
  BY <1>6, <1>7
<1> QED BY <1>8 DEF Is

LEMMA NumberDef ==
    /\ NumberOf = [width \in Nat |->
                      [bytes \in Seq(Byte) |->
                          IF width = 0 \/ bytes = <<>> THEN 0
                          ELSE NumberOf[width - 1][Front(bytes)] * Radix + Last(bytes)]]
    /\ NumberOf \in [Nat -> [Seq(Byte) -> Nat]]
<1>0. PICK S : S = [Seq(Byte) -> Nat]
  OBVIOUS
<1>1. /\ Radix \in Nat
      /\ \A b \in Seq(Byte) : b # <<>> => Front(b) \in Seq(Byte) /\ Last(b) \in Nat
  <2>1. ASSUME NEW b \in Seq(Byte), b # <<>> PROVE Front(b) \in Seq(Byte) /\ Last(b) \in Byte
    BY <2>1, LastParts
  <2>2. Byte \subseteq Nat
    BY DEF Byte
  <2> QED BY <2>1, <2>2, CodecAssumption
<1>2. PICK G : G = [f \in S |-> [b \in Seq(Byte) |-> IF b = <<>> THEN 0
                                                    ELSE f[Front(b)] * Radix + Last(b)]]
  OBVIOUS
<1>3. PICK base : base = [b \in Seq(Byte) |-> 0]
  OBVIOUS
<1>4. base \in S /\ G \in [S -> S]
  <2>1. base \in S
    BY <1>0, <1>3
  <2>2. ASSUME NEW f \in S PROVE G[f] \in S
    <3>1. ASSUME NEW b \in Seq(Byte), b # <<>> PROVE f[Front(b)] * Radix + Last(b) \in Nat
      <4>1. f[Front(b)] \in Nat /\ Last(b) \in Nat
        BY <1>0, <1>1, <3>1
      <4> QED BY <1>1, <4>1, Number
    <3> QED BY <1>0, <1>2, <3>1
  <2> QED BY <1>2, <2>1, <2>2
<1>5. PICK f \in [Nat -> S] : f[0] = base /\ \A n \in Nat : n # 0 => f[n] = G[f[n - 1]]
  BY <1>4, Recursion
<1> DEFINE Is(g) ==
        g = [width \in Nat |->
                [bytes \in Seq(Byte) |->
                    IF width = 0 \/ bytes = <<>> THEN 0
                    ELSE g[width - 1][Front(bytes)] * Radix + Last(bytes)]]
<1>6. Is(f)
  <2>1. PICK g : g = [w \in Nat |-> [b \in Seq(Byte) |->
                         IF w = 0 \/ b = <<>> THEN 0
                         ELSE f[w - 1][Front(b)] * Radix + Last(b)]]
    OBVIOUS
  <2>2. ASSUME NEW w \in Nat PROVE f[w] = g[w]
    <3>1. CASE w = 0
      BY <1>3, <1>5, <2>1, <3>1
    <3>2. CASE w # 0
      <4>1. f[w] = G[f[w - 1]] /\ f[w - 1] \in S
        BY <1>5, <3>2
      <4>2. G[f[w - 1]] = [b \in Seq(Byte) |-> IF b = <<>> THEN 0
                                               ELSE f[w - 1][Front(b)] * Radix + Last(b)]
        BY <1>2, <4>1
      <4> QED BY <2>1, <3>2, <4>1, <4>2
    <3> QED BY <3>1, <3>2
  <2>3. f = g
    BY <1>5, <2>1, <2>2
  <2> QED BY <2>1, <2>3
<1>7. NumberOf = CHOOSE g : Is(g)
  BY DEF NumberOf
<1>8. Is(NumberOf)
  <2> HIDE DEF Is
  <2> QED BY <1>6, <1>7
<1>9. ASSUME NEW g, Is(g) PROVE g \in [Nat -> S]
  <2> DEFINE Good == {n \in Nat : g[n] \in S}
  <2>1. 0 \in Good
    BY <1>0, <1>9
  <2>2. ASSUME NEW n \in Nat, n \in Good PROVE n + 1 \in Good
    <3>1. ASSUME NEW b \in Seq(Byte), b # <<>> PROVE g[n][Front(b)] * Radix + Last(b) \in Nat
      <4>1. g[n][Front(b)] \in Nat /\ Last(b) \in Nat
        BY <1>0, <1>1, <2>2, <3>1
      <4> QED BY <1>1, <4>1, Number
    <3>2. g[n + 1] = [b \in Seq(Byte) |-> IF b = <<>> THEN 0
                                          ELSE g[n][Front(b)] * Radix + Last(b)]
      <4>1. n + 1 \in Nat /\ n + 1 # 0 /\ (n + 1) - 1 = n
        OBVIOUS
      <4> QED BY <1>9, <4>1
    <3>3. g[n + 1] \in S
      BY <1>0, <3>1, <3>2
    <3> QED BY <3>3
  <2>3. Good = Nat
    <3> HIDE DEF Good
    <3>1. Good \subseteq Nat
      BY DEF Good
    <3>2. Nat \subseteq Good
      BY <2>1, <2>2, SetInduction
    <3> QED BY <3>1, <3>2
  <2> QED BY <1>9, <2>3
<1> QED BY <1>0, <1>8, <1>9

(* No digit, and one digit more.                                           *)
LEMMA NumbersFacts ==
    /\ Numbers[0] = 1
    /\ \A w \in Nat : Numbers[w] \in Nat /\ Numbers[w + 1] = Radix * Numbers[w]
<1>1. \A w \in Nat : w + 1 \in Nat /\ w + 1 # 0 /\ (w + 1) - 1 = w
  OBVIOUS
<1> QED BY <1>1, NumbersDef

LEMMA BytesFacts ==
    ASSUME NEW n \in Nat
    PROVE  /\ BytesOf[0][n] = <<>>
           /\ \A w \in Nat : BytesOf[w + 1][n] = Append(BytesOf[w][n \div Radix], n % Radix)
<1> DEFINE Of(w) == [m \in Nat |-> IF w = 0 THEN <<>>
                                   ELSE Append(BytesOf[w - 1][m \div Radix], m % Radix)]
<1>1. ASSUME NEW w \in Nat PROVE BytesOf[w] = Of(w)
  BY BytesDef
<1>2. BytesOf[0][n] = <<>>
  BY <1>1
<1>3. ASSUME NEW w \in Nat
      PROVE  BytesOf[w + 1][n] = Append(BytesOf[w][n \div Radix], n % Radix)
  <2>1. w + 1 \in Nat /\ w + 1 # 0 /\ (w + 1) - 1 = w
    OBVIOUS
  <2>2. BytesOf[w + 1] = Of(w + 1)
    BY <1>1, <2>1
  <2>3. Of(w + 1)[n] = Append(BytesOf[(w + 1) - 1][n \div Radix], n % Radix)
    BY <2>1
  <2> QED BY <2>1, <2>2, <2>3
<1> QED BY <1>2, <1>3

LEMMA NumberFacts ==
    ASSUME NEW b \in Seq(Byte)
    PROVE  /\ NumberOf[0][b] = 0
           /\ \A w \in Nat :
                 /\ NumberOf[w][b] \in Nat
                 /\ b # <<>> => NumberOf[w + 1][b] = NumberOf[w][Front(b)] * Radix + Last(b)
<1> DEFINE Of(w) == [c \in Seq(Byte) |->
                        IF w = 0 \/ c = <<>> THEN 0
                        ELSE NumberOf[w - 1][Front(c)] * Radix + Last(c)]
<1>1. ASSUME NEW w \in Nat PROVE NumberOf[w] = Of(w) /\ NumberOf[w] \in [Seq(Byte) -> Nat]
  BY NumberDef
<1>2. NumberOf[0][b] = 0
  BY <1>1
<1>3. ASSUME NEW w \in Nat PROVE NumberOf[w][b] \in Nat
  <2> HIDE DEF Of
  <2> QED BY <1>1
<1>4. ASSUME NEW w \in Nat, b # <<>>
      PROVE  NumberOf[w + 1][b] = NumberOf[w][Front(b)] * Radix + Last(b)
  <2>1. w + 1 \in Nat /\ w + 1 # 0 /\ (w + 1) - 1 = w
    OBVIOUS
  <2>2. NumberOf[w + 1] = Of(w + 1)
    BY <1>1, <2>1
  <2>3. Of(w + 1)[b] = NumberOf[(w + 1) - 1][Front(b)] * Radix + Last(b)
    BY <1>4, <2>1
  <2> QED BY <2>1, <2>2, <2>3
<1> QED BY <1>2, <1>3, <1>4

LEMMA Positive == \A w \in Nat : Numbers[w] \in Nat /\ Numbers[w] > 0
<1> DEFINE Good == {w \in Nat : Numbers[w] > 0}
<1>1. 0 \in Good
  BY NumbersFacts
<1>2. ASSUME NEW w \in Nat, w \in Good PROVE w + 1 \in Good
  <2>1. PICK n : n = Numbers[w]
    OBVIOUS
  <2>2. n \in Nat /\ n > 0 /\ Numbers[w + 1] = Radix * n /\ Radix \in Nat /\ 1 <= Radix
    BY <1>2, <2>1, NumbersFacts, CodecAssumption
  <2>3. 1 * n <= Radix * n /\ 1 * n = n /\ Radix * n \in Nat
    BY <2>2, Product
  <2>4. Radix * n > 0
    BY <2>2, <2>3
  <2> QED BY <2>2, <2>4
<1>3. Nat \subseteq Good
  <2> HIDE DEF Good
  <2> QED BY <1>1, <1>2, SetInduction
<1> QED BY <1>3, NumbersFacts

(* to_be_bytes and from_be_bytes are inverse to one another.               *)
LEMMA IntegerCodec ==
    ASSUME NEW w \in Nat
    PROVE  /\ \A n \in 0 .. Numbers[w] - 1 :
                  BE(n, w) \in Seq(Byte) /\ Len(BE(n, w)) = w /\ Num(BE(n, w)) = n
           /\ \A b \in Seq(Byte) :
                  Len(b) = w => Num(b) \in 0 .. Numbers[w] - 1 /\ BE(Num(b), w) = b
<1> DEFINE There(v) == \A n \in Nat :
                          n < Numbers[v] => /\ BytesOf[v][n] \in Seq(Byte)
                                            /\ Len(BytesOf[v][n]) = v
                                            /\ NumberOf[v][BytesOf[v][n]] = n
    Back(v) == \A b \in Seq(Byte) :
                   Len(b) = v => NumberOf[v][b] < Numbers[v] /\ BytesOf[v][NumberOf[v][b]] = b
    Good == {v \in Nat : There(v) /\ Back(v)}
<1>1. Radix \in Nat \ {0} /\ Byte = 0 .. Radix - 1 /\ Byte \subseteq Nat
  BY CodecAssumption DEF Byte
<1>2. 0 \in Good
  <2>1. ASSUME NEW n \in Nat, n < Numbers[0]
        PROVE  /\ BytesOf[0][n] \in Seq(Byte) /\ Len(BytesOf[0][n]) = 0
               /\ NumberOf[0][BytesOf[0][n]] = n
    <3>1. n = 0 /\ BytesOf[0][n] = <<>>
      BY <2>1, NumbersFacts, BytesFacts
    <3>2. <<>> \in Seq(Byte) /\ Len(<<>>) = 0
      OBVIOUS
    <3>3. NumberOf[0][<<>>] = 0
      BY <3>2, NumberFacts
    <3> QED BY <3>1, <3>2, <3>3
  <2>2. ASSUME NEW b \in Seq(Byte), Len(b) = 0
        PROVE  NumberOf[0][b] < Numbers[0] /\ BytesOf[0][NumberOf[0][b]] = b
    <3>0. b = <<>>
      BY <2>2
    <3>1. NumberOf[0][b] = 0 /\ Numbers[0] = 1
      BY NumbersFacts, NumberFacts
    <3>2. BytesOf[0][0] = <<>>
      BY BytesFacts
    <3> QED BY <3>0, <3>1, <3>2
  <2> QED BY <2>1, <2>2
<1>3. ASSUME NEW v \in Nat, v \in Good PROVE v + 1 \in Good
  <2>1. There(v) /\ Back(v) /\ Numbers[v] \in Nat
    BY <1>3, NumbersFacts
  <2>2. ASSUME NEW n \in Nat, n < Numbers[v + 1]
        PROVE  /\ BytesOf[v + 1][n] \in Seq(Byte)
               /\ Len(BytesOf[v + 1][n]) = v + 1
               /\ NumberOf[v + 1][BytesOf[v + 1][n]] = n
    <3>1. PICK q, d : q = n \div Radix /\ d = n % Radix
      OBVIOUS
    <3>2. q \in Nat /\ d \in Byte /\ n = q * Radix + d
      BY <1>1, <3>1, Division
    <3>3. q < Numbers[v]
      <4>1. n < Radix * Numbers[v]
        BY <2>2, NumbersFacts
      <4> QED BY <1>1, <2>1, <3>1, <4>1, MoreDigits
    <3>4. PICK s : s = BytesOf[v][q]
      OBVIOUS
    <3>5. s \in Seq(Byte) /\ Len(s) = v /\ NumberOf[v][s] = q
      BY <2>1, <3>2, <3>3, <3>4
    <3>6. BytesOf[v + 1][n] = Append(s, d)
      BY <3>1, <3>4, BytesFacts
    <3>7. PICK t : t = Append(s, d)
      OBVIOUS
    <3>8. t \in Seq(Byte) /\ Len(t) = v + 1 /\ Front(t) = s /\ Last(t) = d
      BY <3>2, <3>5, <3>7, AppendParts
    <3>9. t # <<>>
      BY <3>8
    <3>10. NumberOf[v + 1][t] = q * Radix + d
      BY <3>5, <3>8, <3>9, NumberFacts
    <3> QED BY <3>2, <3>6, <3>7, <3>8, <3>10
  <2>3. ASSUME NEW b \in Seq(Byte), Len(b) = v + 1
        PROVE  NumberOf[v + 1][b] < Numbers[v + 1] /\ BytesOf[v + 1][NumberOf[v + 1][b]] = b
    <3>1. b # <<>>
      BY <2>3
    <3>2. PICK s, d : s = Front(b) /\ d = Last(b)
      OBVIOUS
    <3>3. s \in Seq(Byte) /\ d \in Byte /\ Len(s) = v /\ Append(s, d) = b
      BY <2>3, <3>1, <3>2, LastParts
    <3>4. PICK q, n : q = NumberOf[v][s] /\ n = NumberOf[v + 1][b]
      OBVIOUS
    <3>5. q \in Nat /\ q < Numbers[v] /\ BytesOf[v][q] = s
      BY <2>1, <3>3, <3>4, NumberFacts
    <3>6. n = q * Radix + d /\ n \in Nat
      <4>1. v + 1 \in Nat
        OBVIOUS
      <4> QED BY <3>1, <3>2, <3>4, <4>1, NumberFacts
    <3>7. n < Numbers[v + 1]
      <4>1. q * Radix + d < Radix * Numbers[v]
        BY <1>1, <2>1, <3>3, <3>5, MoreDigits
      <4> QED BY <3>6, <4>1, NumbersFacts
    <3>8. n \div Radix = q /\ n % Radix = d
      BY <1>1, <3>3, <3>5, <3>6, DivisionOf
    <3>9. BytesOf[v + 1][n] = b
      <4>1. BytesOf[v + 1][n] = Append(BytesOf[v][n \div Radix], n % Radix)
        BY <3>6, BytesFacts
      <4> QED BY <3>3, <3>5, <3>8, <4>1
    <3> QED BY <3>4, <3>7, <3>9
  <2>4. There(v + 1) /\ Back(v + 1)
    BY <2>2, <2>3
  <2> QED BY <2>4
<1>4. w \in Good
  <2> HIDE DEF Good
  <2>1. Nat \subseteq Good
    BY <1>2, <1>3, SetInduction
  <2> QED BY <2>1
<1>5. There(w) /\ Back(w) /\ Numbers[w] \in Nat
  BY <1>4, NumbersFacts
<1>6. ASSUME NEW n \in 0 .. Numbers[w] - 1
      PROVE  BE(n, w) \in Seq(Byte) /\ Len(BE(n, w)) = w /\ Num(BE(n, w)) = n
  BY <1>5, <1>6 DEF BE, Num
<1>7. ASSUME NEW b \in Seq(Byte), Len(b) = w
      PROVE  Num(b) \in 0 .. Numbers[w] - 1 /\ BE(Num(b), w) = b
  <2>1. Num(b) = NumberOf[w][b] /\ Num(b) \in Nat
    BY <1>7, NumberFacts DEF Num
  <2> QED BY <1>5, <1>7, <2>1 DEF BE
<1> QED BY <1>6, <1>7

LEMMA Joined ==
    ASSUME NEW x \in Seq(Byte), NEW y \in Seq(Byte), NEW z \in Seq(Byte)
    PROVE  x \o y \in Seq(Byte) /\ (x \o y) \o z = x \o (y \o z)
  BY ConcatAssoc

(* Concatenation under a name of its own, which spares the provers its     *)
(* definition.                                                             *)
Glue(a, b) == a \o b

LEMMA Glued ==
    \A a, b, c \in Seq(Byte) :
        Glue(a, b) \in Seq(Byte) /\ Glue(Glue(a, b), c) = Glue(a, Glue(b, c))
  BY Joined DEF Glue

LEMMA GlueCut ==
    \A a, b \in Seq(Byte) :
        /\ Len(Glue(a, b)) = Len(a) + Len(b)
        /\ SubSeq(Glue(a, b), 1, Len(a)) = a
        /\ SubSeq(Glue(a, b), Len(a) + 1, Len(Glue(a, b))) = b
<1> SUFFICES ASSUME NEW a \in Seq(Byte), NEW b \in Seq(Byte)
             PROVE  /\ Len(a \o b) = Len(a) + Len(b)
                    /\ SubSeq(a \o b, 1, Len(a)) = a
                    /\ SubSeq(a \o b, Len(a) + 1, Len(a \o b)) = b
  BY DEF Glue
<1> QED BY ConcatCut

LEMMA TakeFacts ==
    ASSUME NEW n \in Nat, NEW c \in Seq(Byte)
    PROVE  /\ \A t \in Take(n, c) :
                  /\ t \in Seq(Byte) \X Seq(Byte)
                  /\ Len(t[1]) = n /\ t[1] \o t[2] = c
           /\ \A t, u \in Take(n, c) : t = u
           /\ \A x, y \in Seq(Byte) : x \o y = c /\ Len(x) = n => <<x, y>> \in Take(n, c)
<1>1. ASSUME NEW t \in Take(n, c)
      PROVE  t \in Seq(Byte) \X Seq(Byte) /\ Len(t[1]) = n /\ t[1] \o t[2] = c
  <2>1. n <= Len(c) /\ t = <<SubSeq(c, 1, n), SubSeq(c, n + 1, Len(c))>>
    BY DEF Take
  <2>2. PICK x, y : x = SubSeq(c, 1, n) /\ y = SubSeq(c, n + 1, Len(c))
    OBVIOUS
  <2>3. x \in Seq(Byte) /\ Len(x) = n /\ y \in Seq(Byte) /\ x \o y = c
    BY <2>1, <2>2, SplitAt
  <2> QED BY <2>1, <2>2, <2>3
<1>2. ASSUME NEW x \in Seq(Byte), NEW y \in Seq(Byte), x \o y = c, Len(x) = n
      PROVE  <<x, y>> \in Take(n, c)
  <2>1. Len(c) = Len(x) + Len(y) /\ SubSeq(c, 1, n) = x /\ SubSeq(c, n + 1, Len(c)) = y
    <3>1. /\ Len(Glue(x, y)) = Len(x) + Len(y)
          /\ SubSeq(Glue(x, y), 1, Len(x)) = x
          /\ SubSeq(Glue(x, y), Len(x) + 1, Len(Glue(x, y))) = y
      BY GlueCut
    <3>2. Glue(x, y) = c
      BY <1>2 DEF Glue
    <3> QED BY <1>2, <3>1, <3>2
  <2>2. n <= Len(c)
    BY <1>2, <2>1
  <2> QED BY <2>1, <2>2 DEF Take
<1>3. \A t, u \in Take(n, c) : t = u
  BY DEF Take
<1> QED BY <1>1, <1>2, <1>3
-----------------------------------------------------------------------------
(* What makes two functions the codec of a type: what is decoded is the    *)
(* encoding of the result and what is left, an encoding is decoded, and a  *)
(* cursor has at most one result.                                          *)
IsCodec(t) ==
    /\ t.enc \in [Values(t) -> Seq(Byte)]
    /\ t.dec \in [Seq(Byte) -> SUBSET (Values(t) \X Seq(Byte))]
    /\ \A c \in Seq(Byte) : \A d \in t.dec[c] : t.enc[d[1]] \o d[2] = c
    /\ \A v \in Values(t), rest \in Seq(Byte) : <<v, rest>> \in t.dec[t.enc[v] \o rest]
    /\ \A c \in Seq(Byte) : \A d, e \in t.dec[c] : d = e

LEMMA MakeCodec ==
    ASSUME NEW t, NEW V, t.enc \in [V -> Seq(Byte)], t.dec = [c \in Seq(Byte) |-> t.dec[c]],
           \A c \in Seq(Byte) : \A d \in t.dec[c] :
               /\ d \in V \X Seq(Byte) /\ t.enc[d[1]] \o d[2] = c
               /\ \A e \in t.dec[c] : d = e,
           \A v \in V, rest \in Seq(Byte) : <<v, rest>> \in t.dec[t.enc[v] \o rest]
    PROVE  IsCodec(t) /\ Values(t) = V
<1>1. Values(t) = V
  BY DEF Values
<1>2. \A c \in Seq(Byte) : t.dec[c] \in SUBSET (V \X Seq(Byte))
  OBVIOUS
<1>3. t.dec \in [Seq(Byte) -> SUBSET (V \X Seq(Byte))]
  BY <1>2
<1> QED BY <1>1, <1>3 DEF IsCodec

(* The laws, for one cursor and for one value.                             *)
LEMMA CodecLaws ==
    ASSUME NEW t, IsCodec(t)
    PROVE  /\ \A v \in Values(t) : t.enc[v] \in Seq(Byte)
           /\ \A c \in Seq(Byte) : \A d \in t.dec[c] :
                  /\ d[1] \in Values(t) /\ d[2] \in Seq(Byte) /\ d = <<d[1], d[2]>>
                  /\ t.enc[d[1]] \o d[2] = c
                  /\ \A e \in t.dec[c] : d = e
           /\ \A v \in Values(t), rest \in Seq(Byte) :
                  <<v, rest>> \in t.dec[t.enc[v] \o rest]
<1>1. ASSUME NEW c \in Seq(Byte), NEW d \in t.dec[c]
      PROVE  /\ d[1] \in Values(t) /\ d[2] \in Seq(Byte) /\ d = <<d[1], d[2]>>
             /\ t.enc[d[1]] \o d[2] = c
             /\ \A e \in t.dec[c] : d = e
  <2>1. d \in Values(t) \X Seq(Byte)
    BY DEF IsCodec
  <2>2. t.enc[d[1]] \o d[2] = c /\ \A e \in t.dec[c] : d = e
    BY DEF IsCodec
  <2> QED BY <2>1, <2>2
<1>2. \A v \in Values(t) : t.enc[v] \in Seq(Byte)
  BY DEF IsCodec
<1>3. \A v \in Values(t), rest \in Seq(Byte) : <<v, rest>> \in t.dec[t.enc[v] \o rest]
  BY DEF IsCodec
<1> QED BY <1>1, <1>2, <1>3

LEMMA UintCodec ==
    ASSUME NEW w \in Nat
    PROVE  IsCodec(Uint(w)) /\ Values(Uint(w)) = 0 .. Numbers[w] - 1
<1>1. PICK t, V : t = Uint(w) /\ V = 0 .. Numbers[w] - 1
  OBVIOUS
<1>2. /\ t.enc = [n \in V |-> BE(n, w)]
      /\ t.dec = [c \in Seq(Byte) |-> {<<Num(x[1]), x[2]>> : x \in Take(w, c)}]
  BY <1>1 DEF Uint
<1>3. Values(t) = V
  BY <1>2 DEF Values
<1>4. t.enc \in [V -> Seq(Byte)] /\ \A n \in V : t.enc[n] = BE(n, w)
  BY <1>1, <1>2, IntegerCodec
<1>5. ASSUME NEW c \in Seq(Byte)
      PROVE  \A d : d \in t.dec[c] <=> \E x \in Take(w, c) : d = <<Num(x[1]), x[2]>>
  BY <1>2
<1>6. ASSUME NEW c \in Seq(Byte), NEW d \in t.dec[c]
      PROVE  /\ d \in V \X Seq(Byte) /\ t.enc[d[1]] \o d[2] = c
             /\ \A e \in t.dec[c] : d = e
  <2>1. PICK x \in Take(w, c) : d = <<Num(x[1]), x[2]>>
    BY <1>5
  <2>2. x \in Seq(Byte) \X Seq(Byte) /\ Len(x[1]) = w /\ x[1] \o x[2] = c
    BY TakeFacts
  <2>3. PICK y, z : y = x[1] /\ z = x[2]
    OBVIOUS
  <2>4. y \in Seq(Byte) /\ z \in Seq(Byte) /\ Len(y) = w /\ y \o z = c
    BY <2>2, <2>3
  <2>5. Num(y) \in V /\ BE(Num(y), w) = y
    BY <1>1, <2>4, IntegerCodec
  <2>6. d = <<Num(y), z>>
    BY <2>1, <2>3
  <2>7. ASSUME NEW e \in t.dec[c] PROVE d = e
    <3>1. PICK u \in Take(w, c) : e = <<Num(u[1]), u[2]>>
      BY <1>5
    <3>2. u = x
      BY TakeFacts
    <3> QED BY <2>1, <3>1, <3>2
  <2> QED BY <1>4, <2>4, <2>5, <2>6, <2>7
<1>7. t.dec = [c \in Seq(Byte) |-> t.dec[c]]
  BY <1>2
<1>8. ASSUME NEW v \in V, NEW rest \in Seq(Byte)
      PROVE  <<v, rest>> \in t.dec[t.enc[v] \o rest]
  <2>1. PICK b, c : b = BE(v, w) /\ c = b \o rest
    OBVIOUS
  <2>2. b \in Seq(Byte) /\ Len(b) = w /\ Num(b) = v
    BY <1>1, <2>1, IntegerCodec
  <2>3. c \in Seq(Byte)
    BY <2>1, <2>2
  <2>4. <<b, rest>> \in Take(w, c)
    BY <2>1, <2>2, <2>3, TakeFacts
  <2>5. <<v, rest>> \in t.dec[c]
    BY <1>5, <2>2, <2>3, <2>4
  <2> QED BY <1>4, <2>1, <2>5
<1>9. IsCodec(t) /\ Values(t) = V
  BY <1>4, <1>6, <1>7, <1>8, MakeCodec
<1> QED BY <1>1, <1>9

LEMMA UnitCodec == IsCodec(Unit) /\ Values(Unit) = {<<>>}
<1>1. PICK t, V : t = Unit /\ V = {<<>>}
  OBVIOUS
<1>2. t.enc = [v \in V |-> <<>>] /\ t.dec = [c \in Seq(Byte) |-> {<<<<>>, c>>}]
  BY <1>1 DEF Unit
<1>3. t.enc \in [V -> Seq(Byte)] /\ \A v \in V : v = <<>> /\ t.enc[v] = <<>>
  BY <1>1, <1>2
<1>4. t.dec = [c \in Seq(Byte) |-> t.dec[c]]
  BY <1>2
<1>5. ASSUME NEW c \in Seq(Byte)
      PROVE  t.dec[c] = {<<<<>>, c>>} /\ <<>> \o c = c
  BY <1>2, ConcatEmpty
<1>6. ASSUME NEW c \in Seq(Byte), NEW d \in t.dec[c]
      PROVE  /\ d \in V \X Seq(Byte) /\ t.enc[d[1]] \o d[2] = c
             /\ \A e \in t.dec[c] : d = e
  <2>1. d = <<<<>>, c>> /\ <<>> \in V
    BY <1>1, <1>5
  <2>2. d[1] = <<>> /\ d[2] = c
    BY <2>1
  <2> QED BY <1>3, <1>5, <2>1, <2>2
<1>7. ASSUME NEW v \in V, NEW rest \in Seq(Byte)
      PROVE  <<v, rest>> \in t.dec[t.enc[v] \o rest]
  <2>1. v = <<>> /\ t.enc[v] \o rest = rest
    BY <1>3, <1>5
  <2> QED BY <1>5, <2>1
<1>8. IsCodec(t) /\ Values(t) = V
  BY <1>3, <1>4, <1>6, <1>7, MakeCodec
<1> QED BY <1>1, <1>8

LEMMA PairCodec ==
    ASSUME NEW a, NEW b, IsCodec(a), IsCodec(b)
    PROVE  IsCodec(Pair(a, b)) /\ Values(Pair(a, b)) = Values(a) \X Values(b)
<1>1. PICK t, V : t = Pair(a, b) /\ V = Values(a) \X Values(b)
  OBVIOUS
<1>2. /\ t.enc = [v \in V |-> a.enc[v[1]] \o b.enc[v[2]]]
      /\ t.dec = [c \in Seq(Byte) |->
                     UNION {{<<<<p[1], q[1]>>, q[2]>> : q \in b.dec[p[2]]} : p \in a.dec[c]}]
  BY <1>1 DEF Pair
<1>3. /\ t.enc \in [V -> Seq(Byte)]
      /\ \A x \in Values(a), y \in Values(b) : t.enc[<<x, y>>] = a.enc[x] \o b.enc[y]
  <2>1. \A v \in V : a.enc[v[1]] \in Seq(Byte) /\ b.enc[v[2]] \in Seq(Byte)
    BY <1>1, CodecLaws
  <2>2. \A v \in V : a.enc[v[1]] \o b.enc[v[2]] \in Seq(Byte)
    BY <2>1
  <2> QED BY <1>1, <1>2, <2>2
<1>4. t.dec = [c \in Seq(Byte) |-> t.dec[c]]
  BY <1>2
<1>5. ASSUME NEW c \in Seq(Byte)
      PROVE  \A d : d \in t.dec[c] <=> \E p \in a.dec[c] : \E q \in b.dec[p[2]] :
                                           d = <<<<p[1], q[1]>>, q[2]>>
  BY <1>2
<1>6. ASSUME NEW c \in Seq(Byte), NEW d \in t.dec[c]
      PROVE  /\ d \in V \X Seq(Byte) /\ t.enc[d[1]] \o d[2] = c
             /\ \A e \in t.dec[c] : d = e
  <2>1. PICK p \in a.dec[c] : \E q \in b.dec[p[2]] : d = <<<<p[1], q[1]>>, q[2]>>
    BY <1>5
  <2>2. PICK q \in b.dec[p[2]] : d = <<<<p[1], q[1]>>, q[2]>>
    BY <2>1
  <2>3. p[1] \in Values(a) /\ p[2] \in Seq(Byte) /\ a.enc[p[1]] \o p[2] = c
    BY CodecLaws
  <2>4. q[1] \in Values(b) /\ q[2] \in Seq(Byte) /\ b.enc[q[1]] \o q[2] = p[2]
    BY <2>3, CodecLaws
  <2>5. PICK x, y, z : x = a.enc[p[1]] /\ y = b.enc[q[1]] /\ z = q[2]
    OBVIOUS
  <2>6. x \in Seq(Byte) /\ y \in Seq(Byte) /\ z \in Seq(Byte)
    BY <2>3, <2>4, <2>5, CodecLaws
  <2>7. (x \o y) \o z = c
    <3>1. (x \o y) \o z = x \o (y \o z)
      BY <2>6, Joined
    <3> QED BY <2>3, <2>4, <2>5, <3>1
  <2>8. d[1] = <<p[1], q[1]>> /\ d[2] = z /\ d[1] \in V /\ d \in V \X Seq(Byte)
    BY <1>1, <2>2, <2>3, <2>4, <2>5
  <2>9. t.enc[d[1]] \o d[2] = c
    BY <1>3, <2>3, <2>4, <2>5, <2>7, <2>8
  <2>10. ASSUME NEW e \in t.dec[c] PROVE d = e
    <3>1. PICK f \in a.dec[c] : \E g \in b.dec[f[2]] : e = <<<<f[1], g[1]>>, g[2]>>
      BY <1>5
    <3>2. PICK g \in b.dec[f[2]] : e = <<<<f[1], g[1]>>, g[2]>>
      BY <3>1
    <3>3. f = p
      BY CodecLaws
    <3>4. g = q
      <4>1. PICK r : r = p[2]
        OBVIOUS
      <4>2. r \in Seq(Byte) /\ q \in b.dec[r] /\ g \in b.dec[r]
        BY <2>3, <3>3, <4>1
      <4>3. \A k \in Seq(Byte) : \A h, i \in b.dec[k] : h = i
        BY DEF IsCodec
      <4> QED BY <4>2, <4>3
    <3> QED BY <2>2, <3>2, <3>3, <3>4
  <2> QED BY <2>8, <2>9, <2>10
<1>7. ASSUME NEW v \in V, NEW rest \in Seq(Byte)
      PROVE  <<v, rest>> \in t.dec[t.enc[v] \o rest]
  <2>1. PICK m \in Values(a), n \in Values(b) : v = <<m, n>>
    BY <1>1
  <2>2. PICK x, y, z : x = a.enc[m] /\ y = b.enc[n] /\ z = y \o rest
    OBVIOUS
  <2>3. x \in Seq(Byte) /\ y \in Seq(Byte)
    BY <2>2, CodecLaws
  <2>4. z \in Seq(Byte)
    BY <2>2, <2>3, Joined
  <2>5. PICK c : c = x \o z
    OBVIOUS
  <2>6. c \in Seq(Byte) /\ (x \o y) \o rest = c
    <3>1. (x \o y) \o rest = x \o (y \o rest) /\ x \o z \in Seq(Byte)
      BY <2>3, <2>4, Joined
    <3> QED BY <2>2, <2>5, <3>1
  <2>7. t.enc[v] \o rest = c
    BY <1>3, <2>1, <2>2, <2>6
  <2>8. <<m, z>> \in a.dec[c] /\ <<n, rest>> \in b.dec[z]
    BY <2>2, <2>3, <2>4, <2>5, CodecLaws
  <2>9. PICK p, q : p = <<m, z>> /\ q = <<n, rest>>
    OBVIOUS
  <2>10. p \in a.dec[c] /\ q \in b.dec[p[2]] /\ <<v, rest>> = <<<<p[1], q[1]>>, q[2]>>
    BY <2>1, <2>8, <2>9
  <2>11. <<v, rest>> \in t.dec[c]
    BY <1>5, <2>6, <2>10
  <2> QED BY <2>7, <2>11
<1>8. IsCodec(t) /\ Values(t) = V
  BY <1>3, <1>4, <1>6, <1>7, MakeCodec
<1> QED BY <1>1, <1>8

LEMMA VecCodec ==
    ASSUME NEW w \in Nat, NEW max \in Nat, max < Numbers[w]
    PROVE  /\ IsCodec(Vec(w, max))
           /\ Values(Vec(w, max)) = {s \in Seq(Byte) : Len(s) <= max}
<1>1. PICK t, V, u : t = Vec(w, max) /\ V = {s \in Seq(Byte) : Len(s) <= max} /\ u = Uint(w)
  OBVIOUS
<1>2. /\ t.enc = [v \in V |-> BE(Len(v), w) \o v]
      /\ t.dec = [c \in Seq(Byte) |->
                     UNION {Take(l[1], l[2]) : l \in {m \in u.dec[c] : m[1] <= max}}]
  BY <1>1 DEF Vec
<1>3. IsCodec(u) /\ Values(u) = 0 .. Numbers[w] - 1 /\ Numbers[w] \in Nat
  BY <1>1, UintCodec, NumbersFacts
<1>4. ASSUME NEW v \in V
      PROVE  /\ v \in Seq(Byte) /\ Len(v) \in Values(u) /\ Len(v) \in Nat /\ Len(v) <= max
             /\ BE(Len(v), w) \in Seq(Byte) /\ u.enc[Len(v)] = BE(Len(v), w)
  <2>1. v \in Seq(Byte) /\ Len(v) \in Nat /\ Len(v) <= max /\ Len(v) \in 0 .. Numbers[w] - 1
    BY <1>1, <1>3
  <2>2. u.enc[Len(v)] = BE(Len(v), w)
    BY <1>1, <2>1 DEF Uint
  <2> QED BY <1>3, <2>1, <2>2, IntegerCodec
<1>5. t.enc \in [V -> Seq(Byte)] /\ \A v \in V : t.enc[v] = BE(Len(v), w) \o v
  <2>1. \A v \in V : BE(Len(v), w) \o v \in Seq(Byte)
    BY <1>4, Joined
  <2> QED BY <1>2, <2>1
<1>6. t.dec = [c \in Seq(Byte) |-> t.dec[c]]
  BY <1>2
<1>7. ASSUME NEW c \in Seq(Byte)
      PROVE  \A d : d \in t.dec[c] <=> \E l \in u.dec[c] : l[1] <= max /\ d \in Take(l[1], l[2])
  BY <1>2
<1>8. ASSUME NEW c \in Seq(Byte), NEW d \in t.dec[c]
      PROVE  /\ d \in V \X Seq(Byte) /\ t.enc[d[1]] \o d[2] = c
             /\ \A e \in t.dec[c] : d = e
  <2>1. PICK l \in u.dec[c] : l[1] <= max /\ d \in Take(l[1], l[2])
    BY <1>7
  <2>2. PICK n, r : n = l[1] /\ r = l[2]
    OBVIOUS
  <2>3. n \in Values(u) /\ r \in Seq(Byte) /\ u.enc[n] \o r = c
    BY <1>3, <2>2, CodecLaws
  <2>4. n \in Nat /\ d \in Take(n, r) /\ n <= max
    BY <1>3, <2>1, <2>2, <2>3
  <2>5. d \in Seq(Byte) \X Seq(Byte) /\ Len(d[1]) = n /\ d[1] \o d[2] = r
    BY <2>3, <2>4, TakeFacts
  <2>6. PICK x, y, h : x = d[1] /\ y = d[2] /\ h = BE(n, w)
    OBVIOUS
  <2>7. x \in Seq(Byte) /\ y \in Seq(Byte) /\ Len(x) = n /\ x \in V /\ d = <<x, y>>
    BY <1>1, <2>4, <2>5, <2>6
  <2>8. h \in Seq(Byte) /\ h = u.enc[n] /\ t.enc[x] = h \o x
    BY <1>4, <1>5, <2>6, <2>7
  <2>9. t.enc[d[1]] \o d[2] = c
    <3>1. (h \o x) \o y = h \o (x \o y)
      BY <2>7, <2>8, Joined
    <3> QED BY <2>3, <2>5, <2>6, <2>8, <3>1
  <2>10. ASSUME NEW e \in t.dec[c] PROVE d = e
    <3>1. PICK m \in u.dec[c] : m[1] <= max /\ e \in Take(m[1], m[2])
      BY <1>7
    <3>2. m = l
      BY <1>3, CodecLaws
    <3>3. e \in Take(n, r)
      BY <2>2, <3>1, <3>2
    <3> QED BY <2>3, <2>4, <3>3, TakeFacts
  <2> QED BY <2>7, <2>9, <2>10
<1>9. ASSUME NEW v \in V, NEW rest \in Seq(Byte)
      PROVE  <<v, rest>> \in t.dec[t.enc[v] \o rest]
  <2>1. PICK n, h, z, c : n = Len(v) /\ h = BE(n, w) /\ z = v \o rest /\ c = h \o z
    OBVIOUS
  <2>2. /\ n \in Values(u) /\ n \in Nat /\ n <= max
        /\ h \in Seq(Byte) /\ u.enc[n] = h /\ v \in Seq(Byte)
    BY <1>4, <2>1
  <2>3. z \in Seq(Byte)
    BY <2>1, <2>2, Joined
  <2>4. (h \o v) \o rest = h \o (v \o rest) /\ h \o z \in Seq(Byte)
    BY <2>2, <2>3, Joined
  <2>5. c \in Seq(Byte) /\ t.enc[v] \o rest = c
    BY <1>5, <2>1, <2>4
  <2>6. <<n, z>> \in u.dec[c]
    <3>1. <<n, z>> \in u.dec[u.enc[n] \o z]
      BY <1>3, <2>2, <2>3, CodecLaws
    <3> QED BY <2>1, <2>2, <3>1
  <2>7. <<v, rest>> \in Take(n, z)
    BY <2>1, <2>2, <2>3, TakeFacts
  <2>8. PICK l : l = <<n, z>>
    OBVIOUS
  <2>9. l \in u.dec[c] /\ l[1] <= max /\ <<v, rest>> \in Take(l[1], l[2])
    BY <2>2, <2>6, <2>7, <2>8
  <2> QED BY <1>7, <2>5, <2>9
<1>10. IsCodec(t) /\ Values(t) = V
  BY <1>5, <1>6, <1>8, <1>9, MakeCodec
<1> QED BY <1>1, <1>10

(* A String, and any other type of which only some values are.             *)
LEMMA TextCodec == IsCodec(Text)
<1>1. PICK t, a, V : t = Text /\ a = VecU8 /\ V = {u \in Values(a) : IsText(u)}
  OBVIOUS
<1>2. /\ t.enc = [v \in V |-> a.enc[v]]
      /\ t.dec = [c \in Seq(Byte) |-> {d \in a.dec[c] : IsText(d[1])}]
  BY <1>1 DEF Text
<1>3. IsCodec(a)
  <2>1. W32 \in Nat
    BY CodecAssumption
  <2>2. Numbers[W32] \in Nat /\ Numbers[W32] > 0
    BY <2>1, Positive
  <2>3. Numbers[W32] - 1 \in Nat /\ Numbers[W32] - 1 < Numbers[W32]
    BY <2>2
  <2> QED BY <1>1, <2>1, <2>3, VecCodec DEF VecU8
<1>4. t.enc \in [V -> Seq(Byte)] /\ \A v \in V : v \in Values(a) /\ IsText(v) /\ t.enc[v] = a.enc[v]
  <2>1. \A v \in V : v \in Values(a) /\ IsText(v)
    BY <1>1
  <2>2. \A v \in V : a.enc[v] \in Seq(Byte)
    BY <1>3, <2>1, CodecLaws
  <2> QED BY <1>2, <2>1, <2>2
<1>5. t.dec = [c \in Seq(Byte) |-> t.dec[c]]
  BY <1>2
<1>6. ASSUME NEW c \in Seq(Byte)
      PROVE  \A d : d \in t.dec[c] <=> d \in a.dec[c] /\ IsText(d[1])
  BY <1>2
<1>7. ASSUME NEW c \in Seq(Byte), NEW d \in t.dec[c]
      PROVE  /\ d \in V \X Seq(Byte) /\ t.enc[d[1]] \o d[2] = c
             /\ \A e \in t.dec[c] : d = e
  <2>1. d \in a.dec[c] /\ IsText(d[1])
    BY <1>6
  <2>2. PICK x, y : x = d[1] /\ y = d[2]
    OBVIOUS
  <2>3. x \in Values(a) /\ y \in Seq(Byte) /\ d = <<x, y>> /\ a.enc[x] \o y = c
    BY <1>3, <2>1, <2>2, CodecLaws
  <2>4. x \in V
    BY <1>1, <2>1, <2>2, <2>3
  <2>5. \A e \in t.dec[c] : d = e
    BY <1>3, <1>6, <2>1, CodecLaws
  <2> QED BY <1>4, <2>2, <2>3, <2>4, <2>5
<1>8. ASSUME NEW v \in V, NEW rest \in Seq(Byte)
      PROVE  <<v, rest>> \in t.dec[t.enc[v] \o rest]
  <2>1. PICK c, d : c = a.enc[v] \o rest /\ d = <<v, rest>>
    OBVIOUS
  <2>2. c \in Seq(Byte)
    BY <1>3, <1>4, <2>1, CodecLaws, Joined
  <2>3. d \in a.dec[c] /\ IsText(d[1])
    BY <1>3, <1>4, <2>1, CodecLaws
  <2> QED BY <1>4, <1>6, <2>1, <2>2, <2>3
<1>9. IsCodec(t) /\ Values(t) = V
  BY <1>4, <1>5, <1>7, <1>8, MakeCodec
<1> QED BY <1>1, <1>9

(* A type whose values begin with a tag of S, which is their first byte.   *)
Tagged(t, S) ==
    /\ IsCodec(t)
    /\ \A v \in Values(t) : v[1] \in S
    /\ \A c \in Seq(Byte) : \A d \in t.dec[c] : c # <<>> /\ Head(c) = d[1][1]

LEMMA CaseTagged ==
    ASSUME NEW a, IsCodec(a), NEW tag \in Byte
    PROVE  Tagged(Case(tag, a), {tag}) /\ Values(Case(tag, a)) = {tag} \X Values(a)
<1>1. PICK t, V : t = Case(tag, a) /\ V = {tag} \X Values(a)
  OBVIOUS
<1>2. /\ t.enc = [v \in V |-> <<tag>> \o a.enc[v[2]]]
      /\ t.dec = [c \in Seq(Byte) |->
                     IF c # <<>> /\ Head(c) = tag
                     THEN {<<<<tag, d[1]>>, d[2]>> : d \in a.dec[Tail(c)]} ELSE {}]
  BY <1>1 DEF Case
<1>3. ASSUME NEW v \in V
      PROVE  v[1] = tag /\ v[2] \in Values(a) /\ v = <<tag, v[2]>> /\ a.enc[v[2]] \in Seq(Byte)
  <2>1. v[1] = tag /\ v[2] \in Values(a) /\ v = <<tag, v[2]>>
    BY <1>1
  <2> QED BY <2>1, CodecLaws
<1>4. t.enc \in [V -> Seq(Byte)] /\ \A v \in V : t.enc[v] = <<tag>> \o a.enc[v[2]]
  <2>1. \A s \in Seq(Byte) : <<tag>> \o s \in Seq(Byte)
    BY ConsParts
  <2>2. \A v \in V : <<tag>> \o a.enc[v[2]] \in Seq(Byte)
    BY <1>3, <2>1
  <2> QED BY <1>2, <2>2
<1>5. t.dec = [c \in Seq(Byte) |-> t.dec[c]]
  BY <1>2
<1>6. ASSUME NEW c \in Seq(Byte)
      PROVE  \A d : d \in t.dec[c] <=> /\ c # <<>> /\ Head(c) = tag
                                       /\ \E e \in a.dec[Tail(c)] : d = <<<<tag, e[1]>>, e[2]>>
  BY <1>2
<1>7. ASSUME NEW c \in Seq(Byte), NEW d \in t.dec[c]
      PROVE  /\ d \in V \X Seq(Byte) /\ t.enc[d[1]] \o d[2] = c
             /\ \A e \in t.dec[c] : d = e
             /\ c # <<>> /\ Head(c) = d[1][1]
  <2>1. c # <<>> /\ Head(c) = tag
    BY <1>6
  <2>2. PICK e \in a.dec[Tail(c)] : d = <<<<tag, e[1]>>, e[2]>>
    BY <1>6
  <2>3. PICK r : r = Tail(c)
    OBVIOUS
  <2>4. r \in Seq(Byte) /\ <<tag>> \o r = c
    BY <2>1, <2>3, HeadParts
  <2>5. PICK x, y : x = e[1] /\ y = e[2]
    OBVIOUS
  <2>6. x \in Values(a) /\ y \in Seq(Byte) /\ a.enc[x] \o y = r /\ a.enc[x] \in Seq(Byte)
    BY <2>3, <2>4, <2>5, CodecLaws
  <2>7. d = <<<<tag, x>>, y>> /\ <<tag, x>> \in V
    BY <1>1, <2>2, <2>5, <2>6
  <2>8. t.enc[<<tag, x>>] \o y = c
    <3>1. t.enc[<<tag, x>>] = <<tag>> \o a.enc[x]
      BY <1>4, <2>7
    <3>2. <<tag>> \in Seq(Byte)
      OBVIOUS
    <3>3. PICK h, z : h = <<tag>> /\ z = a.enc[x]
      OBVIOUS
    <3>4. (h \o z) \o y = h \o (z \o y)
      BY <2>6, <3>2, <3>3, Joined
    <3> QED BY <2>4, <2>6, <3>1, <3>3, <3>4
  <2>9. ASSUME NEW f \in t.dec[c] PROVE d = f
    <3>1. PICK g \in a.dec[Tail(c)] : f = <<<<tag, g[1]>>, g[2]>>
      BY <1>6
    <3>2. g \in a.dec[r] /\ e \in a.dec[r]
      BY <2>3
    <3>3. g = e
      BY <2>4, <3>2 DEF IsCodec
    <3> QED BY <2>2, <3>1, <3>3
  <2>10. d[1] = <<tag, x>> /\ d[2] = y /\ d[1][1] = tag
    BY <2>7
  <2> QED BY <2>1, <2>6, <2>7, <2>8, <2>9, <2>10
<1>8. ASSUME NEW v \in V, NEW rest \in Seq(Byte)
      PROVE  <<v, rest>> \in t.dec[t.enc[v] \o rest]
  <2>1. PICK h, x, z, r, c : /\ h = <<tag>> /\ x = v[2] /\ z = a.enc[x]
                             /\ r = z \o rest /\ c = h \o r
    OBVIOUS
  <2>2. h \in Seq(Byte) /\ z \in Seq(Byte) /\ x \in Values(a) /\ v = <<tag, x>>
    BY <1>3, <2>1
  <2>3. r \in Seq(Byte) /\ (h \o z) \o rest = h \o (z \o rest)
    <3>1. z \o rest \in Seq(Byte) /\ (h \o z) \o rest = h \o (z \o rest)
      BY <2>2, Joined
    <3> QED BY <2>1, <3>1
  <2>4. c \in Seq(Byte) /\ c # <<>> /\ Head(c) = tag /\ Tail(c) = r
    BY <2>1, <2>3, ConsParts
  <2>5. <<x, rest>> \in a.dec[r]
    BY <2>1, <2>2, CodecLaws
  <2>6. PICK e : e = <<x, rest>>
    OBVIOUS
  <2>7. e \in a.dec[Tail(c)] /\ <<v, rest>> = <<<<tag, e[1]>>, e[2]>>
    BY <2>2, <2>4, <2>5, <2>6
  <2>8. t.enc[v] \o rest = c
    BY <1>4, <2>1, <2>3
  <2> QED BY <1>6, <2>4, <2>7, <2>8
<1>9. IsCodec(t) /\ Values(t) = V
  <2>1. \A c \in Seq(Byte) : \A d \in t.dec[c] :
            /\ d \in V \X Seq(Byte) /\ t.enc[d[1]] \o d[2] = c
            /\ \A e \in t.dec[c] : d = e
    BY <1>7
  <2> QED BY <1>4, <1>5, <1>8, <2>1, MakeCodec
<1>10. Tagged(t, {tag})
  BY <1>3, <1>7, <1>9 DEF Tagged
<1> QED BY <1>1, <1>9, <1>10

LEMMA EitherTagged ==
    ASSUME NEW a, NEW b, NEW S, NEW T, Tagged(a, S), Tagged(b, T), S \cap T = {}
    PROVE  /\ Tagged(Either(a, b), S \cup T)
           /\ Values(Either(a, b)) = Values(a) \cup Values(b)
<1>1. PICK t, V : t = Either(a, b) /\ V = Values(a) \cup Values(b)
  OBVIOUS
<1>2. /\ t.enc = [v \in V |-> IF v \in Values(a) THEN a.enc[v] ELSE b.enc[v]]
      /\ t.dec = [c \in Seq(Byte) |-> a.dec[c] \cup b.dec[c]]
  BY <1>1 DEF Either
<1>3. IsCodec(a) /\ IsCodec(b)
  BY DEF Tagged
<1>4. /\ \A v \in Values(a) : v \in V /\ v[1] \in S /\ t.enc[v] = a.enc[v]
      /\ \A v \in Values(b) : v \in V /\ v[1] \in T /\ t.enc[v] = b.enc[v]
  <2>1. /\ \A v \in Values(a) : v \in V /\ v[1] \in S
        /\ \A v \in Values(b) : v \in V /\ v[1] \in T
    BY <1>1 DEF Tagged
  <2>2. \A v \in Values(b) : v \notin Values(a)
    BY <2>1
  <2> QED BY <1>2, <2>1, <2>2
<1>5. t.enc \in [V -> Seq(Byte)]
  <2>1. \A v \in V : t.enc[v] \in Seq(Byte)
    BY <1>1, <1>3, <1>4, CodecLaws
  <2> QED BY <1>2, <2>1
<1>6. t.dec = [c \in Seq(Byte) |-> t.dec[c]]
  BY <1>2
<1>7. ASSUME NEW c \in Seq(Byte)
      PROVE  \A d : d \in t.dec[c] <=> d \in a.dec[c] \/ d \in b.dec[c]
  BY <1>2
<1>8. ASSUME NEW c \in Seq(Byte), NEW d \in t.dec[c]
      PROVE  /\ d \in V \X Seq(Byte) /\ t.enc[d[1]] \o d[2] = c
             /\ \A e \in t.dec[c] : d = e
             /\ c # <<>> /\ Head(c) = d[1][1]
  <2>1. PICK x, y : x = d[1] /\ y = d[2]
    OBVIOUS
  <2>2. d \in a.dec[c] \/ d \in b.dec[c]
    BY <1>7
  <2>3. ASSUME NEW e \in a.dec[c], NEW f \in b.dec[c] PROVE FALSE
    <3>1. e[1] \in Values(a) /\ f[1] \in Values(b)
      BY <1>3, CodecLaws
    <3>2. Head(c) = e[1][1] /\ Head(c) = f[1][1]
      BY DEF Tagged
    <3> QED BY <1>4, <3>1, <3>2
  <2>4. /\ x \in V /\ y \in Seq(Byte) /\ d = <<x, y>> /\ t.enc[x] \o y = c
        /\ c # <<>> /\ Head(c) = x[1]
    <3>1. CASE d \in a.dec[c]
      <4>1. x \in Values(a) /\ y \in Seq(Byte) /\ d = <<x, y>> /\ a.enc[x] \o y = c
        BY <1>3, <2>1, <3>1, CodecLaws
      <4>2. c # <<>> /\ Head(c) = x[1]
        BY <2>1, <3>1 DEF Tagged
      <4> QED BY <1>4, <4>1, <4>2
    <3>2. CASE d \in b.dec[c]
      <4>1. x \in Values(b) /\ y \in Seq(Byte) /\ d = <<x, y>> /\ b.enc[x] \o y = c
        BY <1>3, <2>1, <3>2, CodecLaws
      <4>2. c # <<>> /\ Head(c) = x[1]
        BY <2>1, <3>2 DEF Tagged
      <4> QED BY <1>4, <4>1, <4>2
    <3> QED BY <2>2, <3>1, <3>2
  <2>5. ASSUME NEW e \in t.dec[c] PROVE d = e
    <3>1. e \in a.dec[c] \/ e \in b.dec[c]
      BY <1>7
    <3>2. \/ d \in a.dec[c] /\ e \in a.dec[c]
          \/ d \in b.dec[c] /\ e \in b.dec[c]
      BY <2>2, <2>3, <3>1
    <3> QED BY <1>3, <3>2, CodecLaws
  <2> QED BY <2>1, <2>4, <2>5
<1>9. ASSUME NEW v \in V, NEW rest \in Seq(Byte)
      PROVE  <<v, rest>> \in t.dec[t.enc[v] \o rest]
  <2>1. PICK c, d : c = t.enc[v] \o rest /\ d = <<v, rest>>
    OBVIOUS
  <2>2. c \in Seq(Byte)
    <3>1. t.enc[v] \in Seq(Byte)
      BY <1>5
    <3> QED BY <2>1, <3>1, Joined
  <2>3. CASE v \in Values(a)
    <3>1. d \in a.dec[c]
      BY <1>3, <1>4, <2>1, <2>3, CodecLaws
    <3> QED BY <1>7, <2>1, <2>2, <3>1
  <2>4. CASE v \in Values(b)
    <3>1. d \in b.dec[c]
      BY <1>3, <1>4, <2>1, <2>4, CodecLaws
    <3> QED BY <1>7, <2>1, <2>2, <3>1
  <2> QED BY <1>1, <2>3, <2>4
<1>10. IsCodec(t) /\ Values(t) = V
  <2>1. \A c \in Seq(Byte) : \A d \in t.dec[c] :
            /\ d \in V \X Seq(Byte) /\ t.enc[d[1]] \o d[2] = c
            /\ \A e \in t.dec[c] : d = e
    BY <1>8
  <2> QED BY <1>5, <1>6, <1>9, <2>1, MakeCodec
<1>11. Tagged(t, S \cup T)
  BY <1>1, <1>4, <1>8, <1>10 DEF Tagged
<1> QED BY <1>1, <1>10, <1>11

(* The encodings of a list's elements, one after another.                  *)
Body(a, v) == FlattenSeq([i \in DOMAIN v |-> a.enc[v[i]]])

LEMMA BodyFacts ==
    ASSUME NEW a, IsCodec(a)
    PROVE  /\ Body(a, <<>>) = <<>>
           /\ \A v \in Seq(Values(a)) : Body(a, v) \in Seq(Byte)
           /\ \A v \in Seq(Values(a)), x \in Values(a) :
                  Body(a, Append(v, x)) = Body(a, v) \o a.enc[x]
<1> DEFINE Map(v) == [i \in DOMAIN v |-> a.enc[v[i]]]
<1>1. PICK V, S : V = Values(a) /\ S = Seq(Byte)
  OBVIOUS
<1>2. \A x \in V : a.enc[x] \in S
  BY <1>1, CodecLaws
<1>3. ASSUME NEW v \in Seq(V) PROVE Map(v) \in Seq(S) /\ Len(Map(v)) = Len(v)
  <2>1. PICK n : n = Len(v)
    OBVIOUS
  <2>2. n \in Nat /\ DOMAIN v = 1 .. n /\ \A i \in 1 .. n : v[i] \in V
    BY <2>1
  <2>3. Map(v) = [i \in 1 .. n |-> a.enc[v[i]]]
    BY <2>2
  <2>4. [i \in 1 .. n |-> a.enc[v[i]]] \in [1 .. n -> S]
    BY <1>2, <2>2
  <2> HIDE DEF Map
  <2> QED BY <2>1, <2>2, <2>3, <2>4
<1>4. ASSUME NEW v \in Seq(V), NEW x \in V PROVE Map(Append(v, x)) = Append(Map(v), a.enc[x])
  <2>1. PICK n, u : n = Len(v) /\ u = Append(v, x)
    OBVIOUS
  <2>2. /\ n \in Nat /\ DOMAIN u = 1 .. n + 1 /\ DOMAIN v = 1 .. n
        /\ u[n + 1] = x /\ \A i \in 1 .. n : u[i] = v[i]
    BY <2>1
  <2>3. Map(u) = [i \in 1 .. n + 1 |-> a.enc[u[i]]]
    BY <2>2
  <2>4. PICK m, y, w : m = Map(v) /\ y = a.enc[x] /\ w = Append(m, y)
    OBVIOUS
  <2>5. m \in Seq(S) /\ Len(m) = n /\ y \in S /\ \A i \in 1 .. n : m[i] = a.enc[v[i]]
    BY <1>2, <1>3, <2>1, <2>2, <2>4
  <2>6. w \in Seq(S) /\ Len(w) = n + 1 /\ w[n + 1] = y /\ \A i \in 1 .. n : w[i] = m[i]
    BY <2>4, <2>5
  <2>7. PICK z : z = Map(u)
    OBVIOUS
  <2>8. u \in Seq(V) /\ z \in Seq(S) /\ Len(z) = n + 1
    <3>1. u \in Seq(V) /\ Len(u) = n + 1
      BY <2>1, <2>2
    <3> HIDE DEF Map
    <3> QED BY <1>3, <2>7, <3>1
  <2>9. \A i \in 1 .. n + 1 : z[i] = w[i]
    <3>1. \A i \in 1 .. n + 1 : z[i] = a.enc[u[i]]
      BY <2>3, <2>7
    <3>2. \A i \in 1 .. n + 1 : i \in 1 .. n \/ i = n + 1
      BY <2>2
    <3> QED BY <2>2, <2>4, <2>5, <2>6, <3>1, <3>2
  <2>10. z = w
    BY <2>6, <2>8, <2>9, SameSequence
  <2> HIDE DEF Map
  <2> QED BY <2>1, <2>4, <2>7, <2>10
<1>5. Body(a, <<>>) = <<>>
  <2>1. Map(<<>>) = <<>> /\ Body(a, <<>>) = FlattenSeq(Map(<<>>))
    BY DEF Body
  <2>2. <<>> \in Seq(Seq(Byte))
    OBVIOUS
  <2>3. FlattenSeq(<<>>) = <<>>
    BY <2>2, FlattenType
  <2> HIDE DEF Map
  <2> QED BY <2>1, <2>3
<1>6. ASSUME NEW v \in Seq(V) PROVE Body(a, v) = FlattenSeq(Map(v)) /\ Body(a, v) \in Seq(Byte)
  <2>1. Body(a, v) = FlattenSeq(Map(v))
    BY DEF Body
  <2> HIDE DEF Map
  <2>2. Map(v) \in Seq(Seq(Byte))
    BY <1>1, <1>3
  <2> QED BY <2>1, <2>2, FlattenType
<1>7. ASSUME NEW v \in Seq(V), NEW x \in V PROVE Body(a, Append(v, x)) = Body(a, v) \o a.enc[x]
  <2> HIDE DEF Map
  <2>1. Append(v, x) \in Seq(V)
    OBVIOUS
  <2>2. PICK m, y : m = Map(v) /\ y = a.enc[x]
    OBVIOUS
  <2>3. m \in Seq(Seq(Byte)) /\ y \in Seq(Byte)
    BY <1>1, <1>2, <1>3, <2>2
  <2>4. FlattenSeq(Append(m, y)) = FlattenSeq(m) \o y
    BY <2>3, FlattenAppend
  <2> QED BY <1>4, <1>6, <2>1, <2>2, <2>4
<1> QED BY <1>1, <1>5, <1>6, <1>7

(* The results of decoding one more element after those of R.              *)
Further(a, R) == UNION {{<<Append(p[1], q[1]), q[2]>> : q \in a.dec[p[2]]} : p \in R}

LEMMA FurtherType ==
    ASSUME NEW a, IsCodec(a), NEW R \in SUBSET (Seq(Values(a)) \X Seq(Byte))
    PROVE  /\ Further(a, R) \in SUBSET (Seq(Values(a)) \X Seq(Byte))
           /\ \A d : d \in Further(a, R) <=>
                         \E p \in R : \E q \in a.dec[p[2]] : d = <<Append(p[1], q[1]), q[2]>>
<1>1. \A d : d \in Further(a, R) <=>
                 \E p \in R : \E q \in a.dec[p[2]] : d = <<Append(p[1], q[1]), q[2]>>
  BY DEF Further
<1>2. ASSUME NEW d \in Further(a, R) PROVE d \in Seq(Values(a)) \X Seq(Byte)
  <2>1. PICK p \in R : \E q \in a.dec[p[2]] : d = <<Append(p[1], q[1]), q[2]>>
    BY <1>1
  <2>2. PICK q \in a.dec[p[2]] : d = <<Append(p[1], q[1]), q[2]>>
    BY <2>1
  <2>3. p[1] \in Seq(Values(a)) /\ p[2] \in Seq(Byte)
    OBVIOUS
  <2>4. q[1] \in Values(a) /\ q[2] \in Seq(Byte)
    BY <2>3, CodecLaws
  <2>5. Append(p[1], q[1]) \in Seq(Values(a))
    BY <2>3, <2>4, AppendParts
  <2> QED BY <2>2, <2>4, <2>5
<1> QED BY <1>1, <1>2

LEMMA SinglePair ==
    ASSUME NEW A, NEW B, NEW x \in A, NEW y \in B
    PROVE  {<<x, y>>} \in SUBSET (A \X B)
  OBVIOUS

LEMMA NoElements ==
    ASSUME NEW W, NEW c \in Seq(Byte)
    PROVE  {<<<<>>, c>>} \in SUBSET (Seq(W) \X Seq(Byte))
<1>1. <<>> \in Seq(W)
  OBVIOUS
<1>2. PICK A : A = Seq(W)
  OBVIOUS
<1>3. \A x \in A : {<<x, c>>} \in SUBSET (A \X Seq(Byte))
  BY SinglePair
<1> QED BY <1>1, <1>2, <1>3

LEMMA ElementsDef ==
    ASSUME NEW a, IsCodec(a)
    PROVE  \A c \in Seq(Byte) :
               /\ Elements(a)[0][c] = {<<<<>>, c>>}
               /\ \A n \in Nat :
                     /\ Elements(a)[n][c] \in SUBSET (Seq(Values(a)) \X Seq(Byte))
                     /\ Elements(a)[n + 1][c] = Further(a, Elements(a)[n][c])
<1> DEFINE Is(g) ==
        g = [n \in Nat |->
                [c \in Seq(Byte) |->
                    IF n = 0 THEN {<<<<>>, c>>}
                    ELSE UNION {{<<Append(p[1], q[1]), q[2]>> : q \in a.dec[p[2]]} :
                                p \in g[n - 1][c]}]]
<1>1. PICK R, S : R = SUBSET (Seq(Values(a)) \X Seq(Byte)) /\ S = [Seq(Byte) -> R]
  OBVIOUS
<1>2. PICK G : G = [f \in S |-> [c \in Seq(Byte) |-> Further(a, f[c])]]
  OBVIOUS
<1>3. PICK base : base = [c \in Seq(Byte) |-> {<<<<>>, c>>}]
  OBVIOUS
<1>4. base \in S /\ G \in [S -> S]
  <2>1. base \in S
    <3>1. \A c \in Seq(Byte) : {<<<<>>, c>>} \in R
      BY <1>1, NoElements
    <3> QED BY <1>1, <1>3, <3>1
  <2>2. ASSUME NEW f \in S PROVE G[f] \in S
    <3>1. ASSUME NEW c \in Seq(Byte) PROVE Further(a, f[c]) \in R
      <4>1. f[c] \in R
        BY <1>1
      <4> QED BY <1>1, <4>1, FurtherType
    <3> QED BY <1>1, <1>2, <3>1
  <2> QED BY <1>2, <2>1, <2>2
<1>5. PICK f \in [Nat -> S] : f[0] = base /\ \A n \in Nat : n # 0 => f[n] = G[f[n - 1]]
  BY <1>4, Recursion
<1>6. Is(f)
  <2>1. PICK g : g = [n \in Nat |-> [c \in Seq(Byte) |->
                         IF n = 0 THEN {<<<<>>, c>>}
                         ELSE UNION {{<<Append(p[1], q[1]), q[2]>> : q \in a.dec[p[2]]} :
                                     p \in f[n - 1][c]}]]
    OBVIOUS
  <2>2. ASSUME NEW n \in Nat PROVE f[n] = g[n]
    <3>1. CASE n = 0
      BY <1>3, <1>5, <2>1, <3>1
    <3>2. CASE n # 0
      <4>1. f[n] = G[f[n - 1]] /\ f[n - 1] \in S
        BY <1>5, <3>2
      <4>2. G[f[n - 1]] = [c \in Seq(Byte) |-> Further(a, f[n - 1][c])]
        BY <1>2, <4>1
      <4>3. g[n] = [c \in Seq(Byte) |-> Further(a, f[n - 1][c])]
        BY <2>1, <3>2 DEF Further
      <4> QED BY <4>1, <4>2, <4>3
    <3> QED BY <3>1, <3>2
  <2>3. f = g
    BY <1>5, <2>1, <2>2
  <2> QED BY <2>1, <2>3
<1>7. Elements(a) = CHOOSE g : Is(g)
  BY DEF Elements
<1>8. PICK E : E = Elements(a)
  OBVIOUS
<1>9. Is(E)
  <2> HIDE DEF Is
  <2> QED BY <1>6, <1>7, <1>8
<1>10. ASSUME NEW c \in Seq(Byte)
       PROVE  E[0][c] = {<<<<>>, c>>} /\ \A n \in Nat : E[n + 1][c] = Further(a, E[n][c])
  <2>1. E[0][c] = {<<<<>>, c>>}
    BY <1>9
  <2>2. ASSUME NEW n \in Nat PROVE E[n + 1][c] = Further(a, E[n][c])
    <3>1. n + 1 \in Nat /\ n + 1 # 0 /\ (n + 1) - 1 = n
      OBVIOUS
    <3>2. E[n + 1] = [d \in Seq(Byte) |-> Further(a, E[n][d])]
      BY <1>9, <3>1 DEF Further
    <3> QED BY <3>2
  <2> QED BY <2>1, <2>2
<1> DEFINE Good == {n \in Nat : \A c \in Seq(Byte) : E[n][c] \in R}
<1>11. 0 \in Good
  <2>1. ASSUME NEW c \in Seq(Byte) PROVE E[0][c] \in R
    <3>1. {<<<<>>, c>>} \in R
      BY <1>1, NoElements
    <3> QED BY <1>10, <3>1
  <2> QED BY <2>1
<1>12. ASSUME NEW n \in Nat, n \in Good PROVE n + 1 \in Good
  <2>1. ASSUME NEW c \in Seq(Byte) PROVE E[n + 1][c] \in R
    <3>1. PICK r : r = E[n][c]
      OBVIOUS
    <3>2. E[n + 1][c] = Further(a, r) /\ r \in R
      BY <1>10, <1>12, <3>1
    <3>3. Further(a, r) \in R
      BY <1>1, <3>2, FurtherType
    <3> QED BY <3>2, <3>3
  <2> QED BY <2>1
<1>13. Nat \subseteq Good
  <2> HIDE DEF Good
  <2> QED BY <1>11, <1>12, SetInduction
<1>14. \A n \in Nat, c \in Seq(Byte) : E[n][c] \in R
  BY <1>13
<1> QED BY <1>1, <1>8, <1>10, <1>14

(* n elements are decoded from their encodings, and from nothing else.     *)
LEMMA ElementsCodec ==
    ASSUME NEW a, IsCodec(a), NEW n \in Nat
    PROVE  /\ \A c \in Seq(Byte) : \A d \in Elements(a)[n][c] :
                  /\ d \in Seq(Values(a)) \X Seq(Byte)
                  /\ Len(d[1]) = n /\ Body(a, d[1]) \o d[2] = c
                  /\ \A e \in Elements(a)[n][c] : d = e
           /\ \A v \in Seq(Values(a)), rest \in Seq(Byte) :
                  Len(v) = n => <<v, rest>> \in Elements(a)[n][Body(a, v) \o rest]
<1>1. PICK E, V : E = Elements(a) /\ V = Values(a)
  OBVIOUS
<1> DEFINE Right(m, c, d) == /\ d \in Seq(V) \X Seq(Byte)
                             /\ Len(d[1]) = m /\ Body(a, d[1]) \o d[2] = c
                             /\ \A e \in E[m][c] : d = e
    Found(m, v, rest) == Len(v) = m => <<v, rest>> \in E[m][Body(a, v) \o rest]
    Good == {m \in Nat : /\ \A c \in Seq(Byte) : \A d \in E[m][c] : Right(m, c, d)
                         /\ \A v \in Seq(V), rest \in Seq(Byte) : Found(m, v, rest)}
<1>2. 0 \in Good
  <2>1. ASSUME NEW c \in Seq(Byte), NEW d \in E[0][c] PROVE Right(0, c, d)
    <3>1. E[0][c] = {<<<<>>, c>>}
      BY <1>1, ElementsDef
    <3>2. d = <<<<>>, c>>
      BY <3>1
    <3>3. d[1] = <<>> /\ d[2] = c
      BY <3>2
    <3>4. d \in Seq(V) \X Seq(Byte)
      BY <3>2, NoElements
    <3>5. Body(a, d[1]) \o d[2] = c
      <4>1. Body(a, <<>>) = <<>>
        BY BodyFacts
      <4>2. <<>> \o c = c
        BY ConcatEmpty
      <4> QED BY <3>3, <4>1, <4>2
    <3>6. Len(d[1]) = 0 /\ \A e \in E[0][c] : d = e
      BY <3>1, <3>3
    <3> QED BY <3>4, <3>5, <3>6
  <2>2. ASSUME NEW v \in Seq(V), NEW rest \in Seq(Byte), Len(v) = 0
        PROVE  <<v, rest>> \in E[0][Body(a, v) \o rest]
    <3>1. v = <<>>
      BY <2>2
    <3>2. Body(a, v) \o rest = rest
      <4>1. Body(a, <<>>) = <<>>
        BY BodyFacts
      <4>2. <<>> \o rest = rest
        BY ConcatEmpty
      <4> QED BY <3>1, <4>1, <4>2
    <3>3. E[0][rest] = {<<<<>>, rest>>}
      BY <1>1, ElementsDef
    <3> QED BY <3>1, <3>2, <3>3
  <2> HIDE DEF Right
  <2> QED BY <2>1, <2>2
<1>3. ASSUME NEW m \in Nat, m \in Good PROVE m + 1 \in Good
  <2>1. /\ \A c \in Seq(Byte) : \A d \in E[m][c] : Right(m, c, d)
        /\ \A v \in Seq(V), rest \in Seq(Byte) : Found(m, v, rest)
    <3> HIDE DEF Right, Found
    <3> QED BY <1>3
  <2>2. ASSUME NEW c \in Seq(Byte)
        PROVE  \A d : d \in E[m + 1][c] <=>
                          \E p \in E[m][c] : \E q \in a.dec[p[2]] : d = <<Append(p[1], q[1]), q[2]>>
    <3>1. PICK r : r = E[m][c]
      OBVIOUS
    <3>2. r \in SUBSET (Seq(Values(a)) \X Seq(Byte))
      BY <1>1, <3>1, ElementsDef
    <3>3. E[m + 1][c] = Further(a, r)
      BY <1>1, <3>1, ElementsDef
    <3>4. \A d : d \in Further(a, r) <=>
                     \E p \in r : \E q \in a.dec[p[2]] : d = <<Append(p[1], q[1]), q[2]>>
      BY <3>2, FurtherType
    <3> QED BY <3>1, <3>3, <3>4
  <2>3. ASSUME NEW c \in Seq(Byte), NEW d \in E[m + 1][c] PROVE Right(m + 1, c, d)
    <3>1. PICK p \in E[m][c] : \E q \in a.dec[p[2]] : d = <<Append(p[1], q[1]), q[2]>>
      BY <2>2
    <3>2. PICK q \in a.dec[p[2]] : d = <<Append(p[1], q[1]), q[2]>>
      BY <3>1
    <3>3. Right(m, c, p)
      <4> HIDE DEF Right
      <4> QED BY <2>1
    <3>4. PICK w, r, x, z : w = p[1] /\ r = p[2] /\ x = q[1] /\ z = q[2]
      OBVIOUS
    <3>5. w \in Seq(V) /\ r \in Seq(Byte) /\ Len(w) = m /\ Body(a, w) \o r = c
      BY <3>3, <3>4
    <3>6. x \in V /\ z \in Seq(Byte) /\ a.enc[x] \o z = r /\ q \in a.dec[r]
      <4>1. r \in Seq(Byte) /\ q \in a.dec[r]
        BY <3>4, <3>5
      <4>2. q[1] \in Values(a) /\ q[2] \in Seq(Byte) /\ a.enc[q[1]] \o q[2] = r
        BY <4>1, CodecLaws
      <4> QED BY <1>1, <3>4, <4>1, <4>2
    <3>7. PICK h, b, u : h = Body(a, w) /\ b = a.enc[x] /\ u = Append(w, x)
      OBVIOUS
    <3>8. h \in Seq(Byte) /\ b \in Seq(Byte) /\ u \in Seq(V) /\ Len(u) = m + 1
      <4>1. h \in Seq(Byte)
        BY <1>1, <3>5, <3>7, BodyFacts
      <4>2. b \in Seq(Byte)
        BY <1>1, <3>6, <3>7, CodecLaws
      <4>3. u \in Seq(V) /\ Len(u) = m + 1
        BY <3>5, <3>6, <3>7, AppendParts
      <4> QED BY <4>1, <4>2, <4>3
    <3>9. Body(a, u) = h \o b
      BY <1>1, <3>5, <3>6, <3>7, BodyFacts
    <3>10. (h \o b) \o z = h \o (b \o z)
      BY <3>6, <3>8, Joined
    <3>11. d = <<u, z>> /\ d[1] = u /\ d[2] = z
      BY <3>2, <3>4, <3>7
    <3>12. Body(a, d[1]) \o d[2] = c
      BY <3>5, <3>6, <3>7, <3>9, <3>10, <3>11
    <3>13. ASSUME NEW e \in E[m + 1][c] PROVE d = e
      <4>1. PICK f \in E[m][c] : \E g \in a.dec[f[2]] : e = <<Append(f[1], g[1]), g[2]>>
        BY <2>2
      <4>2. PICK g \in a.dec[f[2]] : e = <<Append(f[1], g[1]), g[2]>>
        BY <4>1
      <4>3. f = p
        BY <3>3
      <4>4. g \in a.dec[r]
        BY <3>4, <4>3
      <4>5. g = q
        BY <3>5, <3>6, <4>4 DEF IsCodec
      <4> QED BY <3>2, <4>2, <4>3, <4>5
    <3> QED BY <3>6, <3>8, <3>11, <3>12, <3>13
  <2>4. ASSUME NEW v \in Seq(V), NEW rest \in Seq(Byte), Len(v) = m + 1
        PROVE  <<v, rest>> \in E[m + 1][Body(a, v) \o rest]
    <3>1. PICK w, x : w = Front(v) /\ x = Last(v)
      OBVIOUS
    <3>2. v # <<>>
      BY <2>4
    <3>3. w \in Seq(V) /\ x \in V /\ Len(w) = m /\ Append(w, x) = v
      BY <2>4, <3>1, <3>2, LastParts
    <3>4. PICK h, b, r, c : h = Body(a, w) /\ b = a.enc[x] /\ r = b \o rest /\ c = h \o r
      OBVIOUS
    <3>5. h \in Seq(Byte) /\ b \in Seq(Byte) /\ Body(a, v) = h \o b
      <4>1. Body(a, Append(w, x)) = h \o b /\ h \in Seq(Byte)
        BY <1>1, <3>3, <3>4, BodyFacts
      <4>2. b \in Seq(Byte)
        BY <1>1, <3>3, <3>4, CodecLaws
      <4> QED BY <3>3, <4>1, <4>2
    <3>6. b \o rest \in Seq(Byte) /\ (h \o b) \o rest = h \o (b \o rest)
      BY <3>5, Joined
    <3>7. r \in Seq(Byte) /\ Body(a, v) \o rest = c
      BY <3>4, <3>5, <3>6
    <3>8. c \in Seq(Byte)
      BY <3>4, <3>5, <3>7, Joined
    <3>9. <<w, r>> \in E[m][c]
      BY <2>1, <3>3, <3>4, <3>7
    <3>10. <<x, rest>> \in a.dec[r]
      BY <1>1, <3>3, <3>4, CodecLaws
    <3>11. PICK p, q : p = <<w, r>> /\ q = <<x, rest>>
      OBVIOUS
    <3>12. p \in E[m][c] /\ q \in a.dec[p[2]] /\ <<v, rest>> = <<Append(p[1], q[1]), q[2]>>
      BY <3>3, <3>9, <3>10, <3>11
    <3> QED BY <2>2, <3>7, <3>8, <3>12
  <2> HIDE DEF Right
  <2> QED BY <2>3, <2>4
<1>4. n \in Good
  <2> HIDE DEF Good
  <2>1. Nat \subseteq Good
    BY <1>2, <1>3, SetInduction
  <2> QED BY <2>1
<1>5. /\ \A c \in Seq(Byte) : \A d \in E[n][c] : Right(n, c, d)
      /\ \A v \in Seq(V), rest \in Seq(Byte) : Found(n, v, rest)
  <2> HIDE DEF Right, Found
  <2> QED BY <1>4
<1> QED BY <1>1, <1>5

LEMMA ListCodec ==
    ASSUME NEW a, IsCodec(a)
    PROVE  /\ IsCodec(ListOf(a))
           /\ Values(ListOf(a)) = {s \in Seq(Values(a)) : Len(s) < Numbers[W32]}
<1>1. PICK t, V, u : /\ t = ListOf(a) /\ V = {s \in Seq(Values(a)) : Len(s) < Numbers[W32]}
                     /\ u = Uint(W32)
  OBVIOUS
<1>2. /\ t.enc = [v \in V |-> BE(Len(v), W32) \o Body(a, v)]
      /\ t.dec = [c \in Seq(Byte) |-> UNION {Elements(a)[l[1]][l[2]] : l \in u.dec[c]}]
  BY <1>1 DEF ListOf, Body
<1>3. W32 \in Nat /\ IsCodec(u) /\ Values(u) = 0 .. Numbers[W32] - 1 /\ Numbers[W32] \in Nat
  BY <1>1, UintCodec, NumbersFacts, CodecAssumption
<1>4. ASSUME NEW v \in V
      PROVE  /\ v \in Seq(Values(a)) /\ Len(v) \in Values(u) /\ Len(v) \in Nat
             /\ BE(Len(v), W32) \in Seq(Byte) /\ u.enc[Len(v)] = BE(Len(v), W32)
             /\ Body(a, v) \in Seq(Byte)
  <2>1. v \in Seq(Values(a)) /\ Len(v) \in Nat /\ Len(v) \in 0 .. Numbers[W32] - 1
    BY <1>1, <1>3
  <2>2. u.enc[Len(v)] = BE(Len(v), W32)
    BY <1>1, <2>1 DEF Uint
  <2>3. BE(Len(v), W32) \in Seq(Byte)
    BY <1>3, <2>1, IntegerCodec
  <2>4. Body(a, v) \in Seq(Byte)
    BY <2>1, BodyFacts
  <2> QED BY <1>3, <2>1, <2>2, <2>3, <2>4
<1>5. t.enc \in [V -> Seq(Byte)] /\ \A v \in V : t.enc[v] = BE(Len(v), W32) \o Body(a, v)
  <2>1. \A v \in V : BE(Len(v), W32) \o Body(a, v) \in Seq(Byte)
    BY <1>4, Joined
  <2> QED BY <1>2, <2>1
<1>6. t.dec = [c \in Seq(Byte) |-> t.dec[c]]
  BY <1>2
<1>7. ASSUME NEW c \in Seq(Byte)
      PROVE  \A d : d \in t.dec[c] <=> \E l \in u.dec[c] : d \in Elements(a)[l[1]][l[2]]
  BY <1>2
<1>8. ASSUME NEW c \in Seq(Byte), NEW d \in t.dec[c]
      PROVE  /\ d \in V \X Seq(Byte) /\ t.enc[d[1]] \o d[2] = c
             /\ \A e \in t.dec[c] : d = e
  <2>1. PICK l \in u.dec[c] : d \in Elements(a)[l[1]][l[2]]
    BY <1>7
  <2>2. PICK n, r : n = l[1] /\ r = l[2]
    OBVIOUS
  <2>3. n \in Values(u) /\ r \in Seq(Byte) /\ u.enc[n] \o r = c
    BY <1>3, <2>2, CodecLaws
  <2>4. n \in Nat /\ n < Numbers[W32] /\ d \in Elements(a)[n][r]
    BY <1>3, <2>1, <2>2, <2>3
  <2>5. /\ d \in Seq(Values(a)) \X Seq(Byte) /\ Len(d[1]) = n /\ Body(a, d[1]) \o d[2] = r
        /\ \A e \in Elements(a)[n][r] : d = e
    <3>1. \A f \in Elements(a)[n][r] :
              /\ f \in Seq(Values(a)) \X Seq(Byte)
              /\ Len(f[1]) = n /\ Body(a, f[1]) \o f[2] = r
              /\ \A e \in Elements(a)[n][r] : f = e
      BY <2>3, <2>4, ElementsCodec
    <3> QED BY <2>4, <3>1
  <2>6. PICK x, y, h, b : x = d[1] /\ y = d[2] /\ h = BE(n, W32) /\ b = Body(a, x)
    OBVIOUS
  <2>7. y \in Seq(Byte) /\ Len(x) = n /\ x \in V /\ d = <<x, y>>
    BY <1>1, <2>4, <2>5, <2>6
  <2>8. h \in Seq(Byte) /\ b \in Seq(Byte)
    BY <1>4, <2>6, <2>7
  <2>9. h = u.enc[n] /\ t.enc[x] = h \o b
    BY <1>4, <1>5, <2>6, <2>7
  <2>10. t.enc[d[1]] \o d[2] = c
    <3>1. y \in Seq(Byte)
      BY <2>7
    <3>2. (h \o b) \o y = h \o (b \o y)
      BY <2>8, <3>1, Joined
    <3> QED BY <2>3, <2>5, <2>6, <2>9, <3>2
  <2>11. ASSUME NEW e \in t.dec[c] PROVE d = e
    <3>1. PICK m \in u.dec[c] : e \in Elements(a)[m[1]][m[2]]
      BY <1>7
    <3>2. m = l
      BY <1>3, CodecLaws
    <3>3. e \in Elements(a)[n][r]
      BY <2>2, <3>1, <3>2
    <3> QED BY <2>5, <3>3
  <2> QED BY <2>7, <2>10, <2>11
<1>9. ASSUME NEW v \in V, NEW rest \in Seq(Byte)
      PROVE  <<v, rest>> \in t.dec[t.enc[v] \o rest]
  <2>1. PICK n, h, b, z, c : /\ n = Len(v) /\ h = BE(n, W32) /\ b = Body(a, v)
                             /\ z = b \o rest /\ c = h \o z
    OBVIOUS
  <2>2. /\ n \in Values(u) /\ n \in Nat /\ v \in Seq(Values(a))
        /\ h \in Seq(Byte) /\ u.enc[n] = h /\ b \in Seq(Byte)
    BY <1>4, <2>1
  <2>3. z \in Seq(Byte)
    BY <2>1, <2>2, Joined
  <2>4. (h \o b) \o rest = h \o (b \o rest) /\ h \o z \in Seq(Byte)
    <3>1. Glue(Glue(h, b), rest) = Glue(h, Glue(b, rest)) /\ Glue(h, z) \in Seq(Byte)
      BY <2>2, <2>3, Glued
    <3> QED BY <3>1 DEF Glue
  <2>5. c \in Seq(Byte) /\ t.enc[v] \o rest = c
    BY <1>5, <2>1, <2>4
  <2>6. <<n, z>> \in u.dec[c]
    <3>1. <<n, z>> \in u.dec[u.enc[n] \o z]
      BY <1>3, <2>2, <2>3, CodecLaws
    <3> QED BY <2>1, <2>2, <3>1
  <2>7. <<v, rest>> \in Elements(a)[n][z]
    BY <2>1, <2>2, <2>3, ElementsCodec
  <2>8. PICK l : l = <<n, z>>
    OBVIOUS
  <2>9. l \in u.dec[c] /\ <<v, rest>> \in Elements(a)[l[1]][l[2]]
    BY <2>6, <2>7, <2>8
  <2> QED BY <1>7, <2>5, <2>9
<1>10. IsCodec(t) /\ Values(t) = V
  BY <1>5, <1>6, <1>8, <1>9, MakeCodec
<1> QED BY <1>1, <1>10
-----------------------------------------------------------------------------
(* The types of the code.                                                  *)
LEMMA NumberCodecs == IsCodec(U32) /\ IsCodec(U64) /\ IsCodec(Quantum) /\ IsCodec(Hash256)
  BY UintCodec, CodecAssumption DEF U32, U64, Quantum, Hash256

LEMMA VectorCodecs ==
    IsCodec(VecU8) /\ IsCodec(Vec(W16, MaxDatum)) /\ IsCodec(Vec(W16, MaxRedeemer))
<1>1. W16 \in Nat /\ W32 \in Nat /\ Numbers[W16] \in Nat
  BY NumbersFacts, CodecAssumption
<1>2. MaxDatum \in Nat /\ MaxDatum < Numbers[W16] /\ MaxRedeemer \in Nat /\ MaxRedeemer < Numbers[W16]
  BY <1>1, CodecAssumption
<1>3. Numbers[W32] - 1 \in Nat /\ Numbers[W32] - 1 < Numbers[W32]
  <2>1. Numbers[W32] \in Nat /\ Numbers[W32] > 0
    BY <1>1, Positive
  <2> QED BY <2>1
<1>4. IsCodec(VecU8)
  BY <1>1, <1>3, VecCodec DEF VecU8
<1> QED BY <1>1, <1>2, <1>4, VecCodec

LEMMA Tags == {0, 1, 2, 3, 4} \subseteq Byte
  BY CodecAssumption DEF Byte

LEMMA TransactionCodec ==
    /\ IsCodec(OutPoint) /\ IsCodec(Redeemer) /\ IsCodec(TxInput) /\ IsCodec(TxOutput)
    /\ IsCodec(Transaction)
<1>1. IsCodec(OutPoint)
  BY NumberCodecs, PairCodec DEF OutPoint
<1>2. IsCodec(Datum)
  <2>1. Tagged(Case(0, Unit), {0}) /\ Tagged(Case(1, Hash256), {1})
    BY UnitCodec, NumberCodecs, CaseTagged, Tags
  <2>2. Tagged(Case(2, Vec(W16, MaxDatum)), {2})
    BY VectorCodecs, CaseTagged, Tags
  <2>3. {0} \cap {1} = {} /\ ({0} \cup {1}) \cap {2} = {}
    OBVIOUS
  <2>4. Tagged(Either(Case(0, Unit), Case(1, Hash256)), {0} \cup {1})
    BY <2>1, <2>3, EitherTagged
  <2>5. Tagged(Datum, ({0} \cup {1}) \cup {2})
    BY <2>2, <2>3, <2>4, EitherTagged DEF Datum
  <2> QED BY <2>5 DEF Tagged
<1>3. IsCodec(Redeemer)
  <2>1. Tagged(Case(0, Unit), {0}) /\ Tagged(Case(1, Vec(W16, MaxRedeemer)), {1})
    BY UnitCodec, VectorCodecs, CaseTagged, Tags
  <2>2. {0} \cap {1} = {}
    OBVIOUS
  <2>3. Tagged(Redeemer, {0} \cup {1})
    BY <2>1, <2>2, EitherTagged DEF Redeemer
  <2> QED BY <2>3 DEF Tagged
<1>4. IsCodec(TxInput)
  BY <1>1, <1>3, NumberCodecs, VectorCodecs, PairCodec DEF TxInput, Quad, Triple
<1>5. IsCodec(TxOutput)
  BY <1>2, NumberCodecs, VectorCodecs, PairCodec DEF TxOutput, Triple
<1>6. IsCodec(ListOf(TxInput)) /\ IsCodec(ListOf(TxOutput))
  BY <1>4, <1>5, ListCodec
<1>7. IsCodec(Transaction)
  BY <1>6, NumberCodecs, PairCodec DEF Transaction, Quad, Triple
<1> QED BY <1>1, <1>3, <1>4, <1>5, <1>7

LEMMA BlockCodec == IsCodec(BlockHeader) /\ IsCodec(Block)
<1>1. IsCodec(Quad(U32, Hash256, Hash256, U64)) /\ IsCodec(Triple(U32, U64, U64))
  BY NumberCodecs, PairCodec DEF Quad, Triple
<1>2. IsCodec(BlockHeader)
  BY <1>1, PairCodec DEF BlockHeader
<1>3. IsCodec(ListOf(Transaction))
  BY TransactionCodec, ListCodec
<1> QED BY <1>2, <1>3, PairCodec DEF Block

LEMMA RequestCases ==
    /\ IsCodec(RpcRequest)
    /\ \A r \in Values(RpcRequest) :
          \/ r \in {0} \X Values(VecU8) \/ r \in {1} \X Values(Block)
          \/ r \in {2} \X Values(Transaction) \/ r \in {3} \X Values(Unit)
<1>1. IsCodec(Block)
  BY BlockCodec
<1>2. /\ Tagged(Case(0, VecU8), {0}) /\ Tagged(Case(1, Block), {1})
      /\ Tagged(Case(2, Transaction), {2}) /\ Tagged(Case(3, Unit), {3})
  BY <1>1, VectorCodecs, TransactionCodec, UnitCodec, CaseTagged, Tags
<1>3. /\ Values(Case(0, VecU8)) = {0} \X Values(VecU8)
      /\ Values(Case(1, Block)) = {1} \X Values(Block)
      /\ Values(Case(2, Transaction)) = {2} \X Values(Transaction)
      /\ Values(Case(3, Unit)) = {3} \X Values(Unit)
  BY <1>1, VectorCodecs, TransactionCodec, UnitCodec, CaseTagged, Tags
<1>4. {0} \cap {1} = {} /\ {2} \cap {3} = {} /\ ({0} \cup {1}) \cap ({2} \cup {3}) = {}
  OBVIOUS
<1>5. /\ Tagged(Either(Case(0, VecU8), Case(1, Block)), {0} \cup {1})
      /\ Tagged(Either(Case(2, Transaction), Case(3, Unit)), {2} \cup {3})
      /\ Values(Either(Case(0, VecU8), Case(1, Block)))
           = Values(Case(0, VecU8)) \cup Values(Case(1, Block))
      /\ Values(Either(Case(2, Transaction), Case(3, Unit)))
           = Values(Case(2, Transaction)) \cup Values(Case(3, Unit))
  BY <1>2, <1>4, EitherTagged
<1>6. /\ Tagged(RpcRequest, ({0} \cup {1}) \cup ({2} \cup {3}))
      /\ Values(RpcRequest) = Values(Either(Case(0, VecU8), Case(1, Block)))
                                \cup Values(Either(Case(2, Transaction), Case(3, Unit)))
  <2>1. PICK a, b, S, T :
            /\ a = Either(Case(0, VecU8), Case(1, Block)) /\ S = {0} \cup {1}
            /\ b = Either(Case(2, Transaction), Case(3, Unit)) /\ T = {2} \cup {3}
    OBVIOUS
  <2>2. Tagged(a, S) /\ Tagged(b, T) /\ S \cap T = {}
    BY <1>4, <1>5, <2>1
  <2>3. Tagged(Either(a, b), S \cup T) /\ Values(Either(a, b)) = Values(a) \cup Values(b)
    BY <2>2, EitherTagged
  <2> QED BY <2>1, <2>3 DEF RpcRequest
<1>7. IsCodec(RpcRequest)
  BY <1>6 DEF Tagged
<1> QED BY <1>3, <1>5, <1>6, <1>7

LEMMA RequestCodec == IsCodec(RpcRequest)
  BY RequestCases

LEMMA ResponseCodec == IsCodec(RpcResponse)
<1>1. IsCodec(BlockTemplate)
  <2>1. IsCodec(Quad(U64, Hash256, Hash256, U64))
    BY NumberCodecs, PairCodec DEF Quad, Triple
  <2>2. IsCodec(ListOf(Transaction))
    BY TransactionCodec, ListCodec
  <2>3. IsCodec(Triple(Quantum, Quantum, ListOf(Transaction)))
    BY <2>2, NumberCodecs, PairCodec DEF Triple
  <2> QED BY <2>1, <2>3, PairCodec DEF BlockTemplate
<1>2. IsCodec(SubmitResult)
  <2>1. IsCodec(Pair(Hash256, U64))
    BY NumberCodecs, PairCodec
  <2>2. Tagged(Case(0, Pair(Hash256, U64)), {0}) /\ Tagged(Case(1, Text), {1})
    BY <2>1, TextCodec, CaseTagged, Tags
  <2>3. {0} \cap {1} = {}
    OBVIOUS
  <2>4. Tagged(SubmitResult, {0} \cup {1})
    BY <2>2, <2>3, EitherTagged DEF SubmitResult
  <2> QED BY <2>4 DEF Tagged
<1>3. IsCodec(Triple(U64, Hash256, U64))
  BY NumberCodecs, PairCodec DEF Triple
<1>4. /\ Tagged(Case(0, BlockTemplate), {0}) /\ Tagged(Case(1, SubmitResult), {1})
      /\ Tagged(Case(2, Hash256), {2}) /\ Tagged(Case(3, Triple(U64, Hash256, U64)), {3})
      /\ Tagged(Case(4, Text), {4})
  BY <1>1, <1>2, <1>3, NumberCodecs, TextCodec, CaseTagged, Tags
<1>5. /\ {0} \cap {1} = {} /\ {2} \cap {3} = {} /\ ({0} \cup {1}) \cap ({2} \cup {3}) = {}
      /\ (({0} \cup {1}) \cup ({2} \cup {3})) \cap {4} = {}
  OBVIOUS
<1>6. /\ Tagged(Either(Case(0, BlockTemplate), Case(1, SubmitResult)), {0} \cup {1})
      /\ Tagged(Either(Case(2, Hash256), Case(3, Triple(U64, Hash256, U64))), {2} \cup {3})
  BY <1>4, <1>5, EitherTagged
<1>7. Tagged(Either(Either(Case(0, BlockTemplate), Case(1, SubmitResult)),
                    Either(Case(2, Hash256), Case(3, Triple(U64, Hash256, U64)))),
             ({0} \cup {1}) \cup ({2} \cup {3}))
  BY <1>5, <1>6, EitherTagged
<1>8. Tagged(RpcResponse, (({0} \cup {1}) \cup ({2} \cup {3})) \cup {4})
  BY <1>4, <1>5, <1>7, EitherTagged DEF RpcResponse
<1> QED BY <1>8 DEF Tagged

(* decode_canonical: bytes decode to the value they are the encoding of,   *)
(* if they are one.                                                        *)
LEMMA Decoded ==
    ASSUME NEW t, IsCodec(t)
    PROVE  /\ \A b \in Seq(Byte) : \A v \in decode_canonical(t, b) :
                  v \in Values(t) /\ Encode(t, v) = b
           /\ \A v \in Values(t) :
                  Encode(t, v) \in Seq(Byte) /\ decode_canonical(t, Encode(t, v)) = {v}
<1>1. ASSUME NEW b \in Seq(Byte), NEW v \in decode_canonical(t, b)
      PROVE  v \in Values(t) /\ Encode(t, v) = b /\ \A w \in decode_canonical(t, b) : v = w
  <2>1. PICK d \in t.dec[b] : d[2] = <<>> /\ v = d[1]
    BY DEF decode_canonical
  <2>2. v \in Values(t) /\ t.enc[v] \o <<>> = b /\ t.enc[v] \in Seq(Byte)
    <3>1. d[1] \in Values(t) /\ t.enc[d[1]] \o d[2] = b
      BY CodecLaws
    <3>2. t.enc[d[1]] \in Seq(Byte)
      BY <3>1, CodecLaws
    <3> QED BY <2>1, <3>1, <3>2
  <2>3. t.enc[v] = b
    BY <2>2, ConcatEmpty
  <2>4. ASSUME NEW w \in decode_canonical(t, b) PROVE v = w
    <3>1. PICK e \in t.dec[b] : e[2] = <<>> /\ w = e[1]
      BY DEF decode_canonical
    <3>2. d = e
      BY CodecLaws
    <3> QED BY <2>1, <3>1, <3>2
  <2> QED BY <2>2, <2>3, <2>4 DEF Encode
<1>2. ASSUME NEW v \in Values(t)
      PROVE  Encode(t, v) \in Seq(Byte) /\ decode_canonical(t, Encode(t, v)) = {v}
  <2>1. PICK b, none : b = Encode(t, v) /\ none = <<>>
    OBVIOUS
  <2>2. b \in Seq(Byte) /\ none \in Seq(Byte) /\ b = t.enc[v]
    <3>1. b = t.enc[v]
      BY <2>1 DEF Encode
    <3>2. t.enc[v] \in Seq(Byte)
      BY CodecLaws
    <3>3. none \in Seq(Byte)
      BY <2>1
    <3> QED BY <3>1, <3>2, <3>3
  <2>3. b \o none = b
    BY <2>1, <2>2, ConcatEmpty
  <2>4. <<v, none>> \in t.dec[b]
    BY <2>2, <2>3, CodecLaws
  <2>5. v \in decode_canonical(t, b)
    <3>1. PICK d : d = <<v, none>>
      OBVIOUS
    <3>2. d \in t.dec[b] /\ d[2] = <<>> /\ d[1] = v
      BY <2>1, <2>4, <3>1
    <3> QED BY <3>2 DEF decode_canonical
  <2> QED BY <1>1, <2>1, <2>2, <2>5
<1> QED BY <1>1, <1>2
-----------------------------------------------------------------------------
(* The payloads a client may write, and the bytes of their frames: a       *)
(* stream of frames is the body of a list of byte vectors.                 *)
Written == Payloads \cup Encodings(Later)

(* codec.rs, tx.rs, block.rs, protocol.rs: the encoding of these types is  *)
(* canonical. Bytes decode to a value exactly when they are its encoding,  *)
(* so that no two sequences of bytes stand for one transaction, block or   *)
(* message and no two of these for the same bytes, whatever their size.    *)
THEOREM CanonicalForm ==
    ASSUME NEW t \in {Transaction, BlockHeader, Block, RpcRequest, RpcResponse},
           NEW bytes \in Seq(Byte), NEW v
    PROVE  v \in decode_canonical(t, bytes) <=> v \in Values(t) /\ Encode(t, v) = bytes
<1>1. IsCodec(t)
  BY TransactionCodec, BlockCodec, RequestCodec, ResponseCodec
<1>2. ASSUME v \in decode_canonical(t, bytes) PROVE v \in Values(t) /\ Encode(t, v) = bytes
  BY <1>1, <1>2, Decoded
<1>3. ASSUME v \in Values(t), Encode(t, v) = bytes PROVE v \in decode_canonical(t, bytes)
  BY <1>1, <1>3, Decoded
<1> QED BY <1>2, <1>3

Stream(ps) == Body(VecU8, ps)

LEMMA WrittenBytes ==
    \A p \in Written : p \in Values(VecU8) /\ p \in Seq(Byte) /\ Len(p) < Numbers[W32]
<1>1. \A r \in Requests \cup Later : Encode(RpcRequest, r) \in Seq(Byte)
  BY RequestCodec, Decoded, WireAssumption
<1>2. ASSUME NEW p \in Seq(Byte), NEW q \in Altered(p) PROVE q \in Seq(Byte)
  <2>1. CASE \E i \in DOMAIN p, b \in Byte : q = [p EXCEPT ![i] = b]
    <3>1. PICK i \in DOMAIN p, b \in Byte : q = [p EXCEPT ![i] = b]
      BY <2>1
    <3>2. PICK n : n = Len(p)
      OBVIOUS
    <3>3. n \in Nat /\ p \in [1 .. n -> Byte] /\ i \in 1 .. n
      BY <3>2
    <3>4. q \in [1 .. n -> Byte]
      BY <3>1, <3>3
    <3> QED BY <3>3, <3>4
  <2>2. CASE \E k \in 0 .. Len(p) : q = SubSeq(p, 1, k)
    <3>1. PICK k \in 0 .. Len(p) : q = SubSeq(p, 1, k)
      BY <2>2
    <3> QED BY <3>1, SplitAt
  <2>3. CASE \E b \in Byte : q = Append(p, b)
    BY <2>3, AppendParts
  <2> QED BY <1>2, <2>1, <2>2, <2>3 DEF Altered
<1>3. ASSUME NEW p \in Written PROVE p \in Seq(Byte)
  <2>1. CASE p \in Payloads
    <3>1. PICK r \in Requests : p \in Altered(Encode(RpcRequest, r))
      BY <2>1 DEF Payloads, Encodings
    <3> QED BY <1>1, <1>2, <3>1
  <2>2. CASE p \in Encodings(Later)
    BY <1>1, <2>2 DEF Encodings
  <2> QED BY <2>1, <2>2 DEF Written
<1>4. Values(VecU8) = {s \in Seq(Byte) : Len(s) <= Numbers[W32] - 1}
  <2>1. W32 \in Nat
    BY CodecAssumption
  <2>2. Numbers[W32] \in Nat /\ Numbers[W32] > 0
    BY <2>1, Positive
  <2>3. Numbers[W32] - 1 \in Nat /\ Numbers[W32] - 1 < Numbers[W32]
    BY <2>2
  <2> QED BY <2>1, <2>3, VecCodec DEF VecU8
<1>5. ASSUME NEW p \in Written PROVE p \in Values(VecU8) /\ Len(p) < Numbers[W32]
  <2>1. Len(p) < Numbers[W32] /\ Numbers[W32] \in Nat
    BY NumbersFacts, WireAssumption, CodecAssumption DEF Written
  <2>2. p \in Seq(Byte) /\ Len(p) \in Nat
    BY <1>3
  <2> QED BY <1>4, <2>1, <2>2
<1> QED BY <1>3, <1>5

LEMMA FrameBytes ==
    \A p \in Written : Frame(p) = VecU8.enc[p] /\ Frame(p) \in Seq(Byte)
<1>1. ASSUME NEW p \in Written PROVE Frame(p) = VecU8.enc[p]
  BY WrittenBytes DEF Frame, VecU8, Vec, Values
<1>2. \A p \in Written : VecU8.enc[p] \in Seq(Byte)
  BY WrittenBytes, VectorCodecs, CodecLaws
<1> QED BY <1>1, <1>2

LEMMA BodyHead ==
    ASSUME NEW a, IsCodec(a), NEW x \in Values(a), NEW v \in Seq(Values(a))
    PROVE  Body(a, <<x>> \o v) = a.enc[x] \o Body(a, v)
<1> DEFINE Map(u) == [i \in DOMAIN u |-> a.enc[u[i]]]
<1>1. PICK n, u, y, m : n = Len(v) /\ u = <<x>> \o v /\ y = a.enc[x] /\ m = Map(v)
  OBVIOUS
<1>2. /\ n \in Nat /\ DOMAIN v = 1 .. n /\ DOMAIN u = 1 .. n + 1
      /\ u[1] = x /\ \A i \in 1 .. n : u[i + 1] = v[i] /\ v[i] \in Values(a)
  BY <1>1
<1>3. y \in Seq(Byte) /\ \A i \in 1 .. n : a.enc[v[i]] \in Seq(Byte)
  BY <1>1, <1>2, CodecLaws
<1>4. m = [i \in 1 .. n |-> a.enc[v[i]]]
  BY <1>1, <1>2
<1>5. m \in Seq(Seq(Byte)) /\ Len(m) = n
  <2>1. m \in [1 .. n -> Seq(Byte)]
    BY <1>3, <1>4
  <2> QED BY <1>2, <1>4, <2>1
<1>6. Map(u) = <<y>> \o m
  <2>1. PICK l, r : l = Map(u) /\ r = <<y>> \o m
    OBVIOUS
  <2>2. l = [i \in 1 .. n + 1 |-> a.enc[u[i]]]
    BY <1>2, <2>1
  <2>3. /\ r \in Seq(Seq(Byte)) /\ Len(r) = n + 1
        /\ r[1] = y /\ \A i \in 1 .. n : r[i + 1] = m[i]
    BY <1>2, <1>3, <1>5, <2>1
  <2>4. \A i \in 1 .. n + 1 : i = 1 \/ (i - 1 \in 1 .. n /\ i = (i - 1) + 1)
    BY <1>2
  <2>5. ASSUME NEW i \in 1 .. n + 1 PROVE l[i] = r[i]
    <3>1. CASE i = 1
      BY <1>1, <1>2, <2>2, <2>3, <3>1
    <3>2. CASE i # 1
      <4>1. PICK j \in 1 .. n : i = j + 1
        BY <2>4, <3>2
      <4>2. u[i] = v[j] /\ r[i] = m[j]
        BY <1>2, <2>3, <4>1
      <4>3. l[i] = a.enc[u[i]] /\ m[j] = a.enc[v[j]]
        BY <1>4, <2>2
      <4> QED BY <4>2, <4>3
    <3> QED BY <3>1, <3>2
  <2>6. \A i \in 1 .. n + 1 : l[i] \in Seq(Byte)
    <3>1. \A i \in 1 .. n + 1 : r[i] \in Seq(Byte)
      BY <2>3
    <3> QED BY <2>5, <3>1
  <2>7. l \in Seq(Seq(Byte)) /\ Len(l) = n + 1
    <3>1. l \in [1 .. n + 1 -> Seq(Byte)]
      BY <2>2, <2>6
    <3> QED BY <1>2, <2>2, <3>1
  <2>8. l = r
    BY <2>3, <2>5, <2>7, SameSequence
  <2> QED BY <2>1, <2>8
<1>7. FlattenSeq(<<y>> \o m) = y \o FlattenSeq(m)
  BY <1>3, <1>5, FlattenHead
<1>8. Body(a, u) = FlattenSeq(Map(u)) /\ Body(a, v) = FlattenSeq(Map(v))
  BY DEF Body
<1> HIDE DEF Map
<1> QED BY <1>1, <1>6, <1>7, <1>8

LEMMA StreamFacts ==
    /\ Stream(<<>>) = <<>>
    /\ \A ps \in Seq(Written) : Stream(ps) \in Seq(Byte)
    /\ \A ps \in Seq(Written), p \in Written :
          /\ Stream(Append(ps, p)) = Stream(ps) \o Frame(p)
          /\ Stream(<<p>> \o ps) = Frame(p) \o Stream(ps)
<1>1. IsCodec(VecU8)
  BY VectorCodecs
<1>2. PICK V : V = Values(VecU8)
  OBVIOUS
<1>3. \A p \in Written : p \in V /\ Frame(p) = VecU8.enc[p]
  BY <1>2, WrittenBytes, FrameBytes
<1>4. ASSUME NEW ps \in Seq(Written) PROVE ps \in Seq(V)
  BY <1>3
<1>5. Stream(<<>>) = <<>> /\ \A ps \in Seq(Written) : Stream(ps) \in Seq(Byte)
  BY <1>1, <1>2, <1>4, BodyFacts DEF Stream
<1>6. ASSUME NEW ps \in Seq(Written), NEW p \in Written
      PROVE  /\ Stream(Append(ps, p)) = Stream(ps) \o Frame(p)
             /\ Stream(<<p>> \o ps) = Frame(p) \o Stream(ps)
  <2>1. ps \in Seq(V) /\ p \in V
    BY <1>3, <1>4
  <2>2. Body(VecU8, Append(ps, p)) = Body(VecU8, ps) \o VecU8.enc[p]
    BY <1>1, <1>2, <2>1, BodyFacts
  <2>3. Body(VecU8, <<p>> \o ps) = VecU8.enc[p] \o Body(VecU8, ps)
    BY <1>1, <1>2, <2>1, BodyHead
  <2> QED BY <1>3, <2>2, <2>3 DEF Stream
<1> QED BY <1>5, <1>6

(* What a whole frame at the front of the stream is read as.               *)
LEMMA FirstFrame ==
    ASSUME NEW todo \in Seq(Written), NEW x \in Seq(Byte), NEW z \in Seq(Byte),
           Len(x) = W32, x \o z = Stream(todo)
    PROVE  /\ todo # <<>> /\ Head(todo) \in Written /\ Tail(todo) \in Seq(Written)
           /\ Num(x) = Len(Head(todo)) /\ z = Head(todo) \o Stream(Tail(todo))
<1>1. W32 \in Nat /\ W32 > 0
  BY CodecAssumption
<1>2. todo # <<>>
  <2>1. Len(x \o z) = Len(x) + Len(z) /\ Len(z) \in Nat
    BY ConcatCut
  <2>2. x \o z # <<>>
    BY <1>1, <2>1
  <2> QED BY <2>2, StreamFacts
<1>3. PICK p, ps : p = Head(todo) /\ ps = Tail(todo)
  OBVIOUS
<1>4. p \in Written /\ ps \in Seq(Written) /\ <<p>> \o ps = todo
  BY <1>2, <1>3, HeadParts
<1>5. PICK n, b, r : n = Len(p) /\ b = BE(n, W32) /\ r = Stream(ps)
  OBVIOUS
<1>6. p \in Seq(Byte) /\ n \in 0 .. Numbers[W32] - 1 /\ r \in Seq(Byte)
  <2>1. p \in Seq(Byte) /\ Len(p) < Numbers[W32]
    BY <1>4, WrittenBytes
  <2>2. Numbers[W32] \in Nat
    BY <1>1, NumbersFacts
  <2>3. n \in 0 .. Numbers[W32] - 1
    BY <1>5, <2>1, <2>2
  <2> QED BY <1>4, <1>5, <2>1, <2>3, StreamFacts
<1>7. b \in Seq(Byte) /\ Len(b) = W32 /\ Num(b) = n
  BY <1>1, <1>5, <1>6, IntegerCodec
<1>8. Stream(todo) = (b \o p) \o r
  <2>1. Stream(<<p>> \o ps) = Frame(p) \o Stream(ps)
    BY <1>4, StreamFacts
  <2> QED BY <1>4, <1>5, <2>1 DEF Frame
<1>9. (b \o p) \o r = b \o (p \o r) /\ p \o r \in Seq(Byte)
  BY <1>6, <1>7, Joined
<1>10. PICK q : q = p \o r
  OBVIOUS
<1>11. x \o z = b \o q /\ Len(x) = Len(b) /\ q \in Seq(Byte)
  BY <1>7, <1>8, <1>9, <1>10
<1>12. x = b /\ z = q
  BY <1>7, <1>11, ConcatCancel
<1> QED BY <1>2, <1>3, <1>4, <1>5, <1>7, <1>10, <1>12

LEMMA Regroup ==
    \A x, y, s, l \in Seq(Byte) :
        /\ Glue(Glue(y, s), l) \in Seq(Byte)
        /\ Glue(Glue(Glue(x, y), s), l) = Glue(x, Glue(Glue(y, s), l))
  BY Glued

(* What the connection is made of.                                         *)
WireType ==
    /\ written \in Seq(Written)
    /\ open \in BOOLEAN
    /\ transit \in Seq(Byte)
    /\ arrived \in Seq(Byte)
    /\ server \in [at : {"length", "payload", "respond", "closed"}, need : Nat]
    /\ server.at = "length" => server.need = W32
    /\ handled \in Seq(Values(RpcRequest))
    /\ replies \in Seq(Seq(Byte))

(* The bytes the server has not read, with those that were lost when the   *)
(* connection broke, are those of the payloads it has not taken: whole     *)
(* frames, or what follows the length of one.                              *)
Before(todo, lost) ==
    /\ open => lost = <<>>
    /\ server.at \in {"length", "respond"} => (arrived \o transit) \o lost = Stream(todo)
    /\ server.at = "payload" =>
          /\ todo # <<>> /\ server.need = Len(Head(todo))
          /\ (arrived \o transit) \o lost = Head(todo) \o Stream(Tail(todo))

Framed ==
    \E done, todo \in Seq(Written), lost \in Seq(Byte) :
        /\ written = done \o todo /\ Len(done) = Len(handled)
        /\ Before(todo, lost)

Understood ==
    \A i \in 1 .. Len(handled) : handled[i] \in decode_canonical(RpcRequest, written[i])

Answered ==
    /\ server.at = "respond" => Len(handled) = Len(replies) + 1
    /\ server.at \in {"length", "payload"} => Len(handled) = Len(replies)

WireInv == WireType /\ Framed /\ Understood /\ Answered

LEMMA WireInitial == WireInit => WireInv
<1> SUFFICES ASSUME WireInit PROVE WireInv
  OBVIOUS
<1> USE DEF WireInit
<1>1. W32 \in Nat
  BY CodecAssumption
<1>2. WireType
  <2>1. server \in [at : {"length", "payload", "respond", "closed"}, need : Nat]
    BY <1>1 DEF Waiting
  <2> QED BY <2>1 DEF WireType, Waiting
<1>3. Framed
  <2>1. PICK none : none = <<>>
    OBVIOUS
  <2>2. none \in Seq(Written) /\ none \in Seq(Byte) /\ none \o none = none /\ Len(none) = 0
    BY <2>1
  <2>3. (arrived \o transit) \o none = Stream(none)
    BY <2>1, <2>2, StreamFacts
  <2>4. Before(none, none)
    BY <2>1, <2>3 DEF Before, Waiting
  <2>5. written = none \o none /\ Len(none) = Len(handled)
    BY <2>1, <2>2
  <2> QED BY <2>2, <2>4, <2>5 DEF Framed
<1>4. Understood
  BY DEF Understood
<1>5. Answered
  BY DEF Answered, Waiting
<1> QED BY <1>2, <1>3, <1>4, <1>5 DEF WireInv

LEMMA AppendHead ==
    ASSUME NEW S, NEW s \in Seq(S), s # <<>>, NEW x \in S
    PROVE  /\ Append(s, x) # <<>> /\ Head(Append(s, x)) = Head(s)
           /\ Tail(Append(s, x)) = Append(Tail(s), x)
<1>1. PICK h, o, t : h = Head(s) /\ o = <<h>> /\ t = Tail(s)
  OBVIOUS
<1>2. h \in S /\ t \in Seq(S) /\ o \o t = s
  BY <1>1, HeadParts
<1>3. PICK q : q = <<x>>
  OBVIOUS
<1>4. Append(s, x) = o \o Append(t, x)
  <2>1. o \in Seq(S) /\ q \in Seq(S) /\ t \in Seq(S)
    BY <1>1, <1>2, <1>3
  <2>2. Append(s, x) = s \o q /\ Append(t, x) = t \o q
    BY <1>2, <1>3, AppendParts
  <2>3. (o \o t) \o q = o \o (t \o q)
    BY <2>1, ConcatAssoc
  <2> QED BY <1>2, <2>2, <2>3
<1>5. PICK u : u = Append(t, x)
  OBVIOUS
<1>6. u \in Seq(S)
  BY <1>2, <1>5, AppendParts
<1>7. o \o u # <<>> /\ Head(o \o u) = h /\ Tail(o \o u) = u
  BY <1>1, <1>2, <1>6, ConsParts
<1> QED BY <1>1, <1>2, <1>4, <1>5, <1>7

LEMMA WriteStep == WireInv /\ WriteRequest => WireInv'
<1> SUFFICES ASSUME WireInv, WriteRequest PROVE WireInv'
  OBVIOUS
<1>1. WireType /\ Framed /\ Understood /\ Answered
  BY DEF WireInv
<1>2. PICK p \in Written : written' = Append(written, p) /\ transit' = Frame(p)
  BY DEF WriteRequest, Written
<1>3. open /\ transit = <<>> /\ UNCHANGED <<open, arrived, server, handled, replies>>
  BY DEF WriteRequest
<1>4. WireType'
  <2>1. written' \in Seq(Written)
    BY <1>1, <1>2, AppendParts DEF WireType
  <2>2. transit' \in Seq(Byte)
    BY <1>2, FrameBytes
  <2> QED BY <1>1, <1>3, <2>1, <2>2 DEF WireType
<1>5. PICK done \in Seq(Written), todo \in Seq(Written), lost \in Seq(Byte) :
          written = done \o todo /\ Len(done) = Len(handled) /\ Before(todo, lost)
  BY <1>1 DEF Framed
<1>6. Framed'
  <2>1. PICK more, f, a : more = Append(todo, p) /\ f = Frame(p) /\ a = arrived
    OBVIOUS
  <2>2. more \in Seq(Written) /\ f \in Seq(Byte) /\ a \in Seq(Byte)
    BY <1>1, <2>1, AppendParts, FrameBytes DEF WireType
  <2>3. written' = done \o more
    <3>1. PICK q : q = <<p>>
      OBVIOUS
    <3>2. q \in Seq(Written) /\ more = todo \o q
      BY <2>1, <3>1, AppendParts
    <3>3. written' = written \o q
      BY <1>1, <1>2, <3>1, AppendParts DEF WireType
    <3>4. (done \o todo) \o q = done \o (todo \o q)
      BY <3>2, ConcatAssoc
    <3> QED BY <1>5, <3>2, <3>3, <3>4
  <2>4. lost = <<>> /\ (arrived \o transit) \o lost = a
    BY <1>3, <1>5, <2>1, <2>2, ConcatEmpty DEF Before
  <2>5. (arrived' \o transit') \o lost = a \o f
    <3>1. a \o f \in Seq(Byte)
      BY <2>2, Joined
    <3>2. (a \o f) \o <<>> = a \o f
      BY <3>1, ConcatEmpty
    <3> QED BY <1>2, <1>3, <2>1, <2>4, <3>2
  <2>6. CASE server.at \in {"length", "respond"}
    <3>1. Stream(more) = Stream(todo) \o f
      BY <2>1, StreamFacts
    <3>2. a = Stream(todo)
      BY <1>5, <2>4, <2>6 DEF Before
    <3>3. server'.at # "payload"
      BY <1>3, <2>6
    <3>4. Before(more, lost)'
      BY <2>4, <2>5, <3>1, <3>2, <3>3 DEF Before
    <3> QED BY <1>3, <1>5, <2>2, <2>3, <3>4 DEF Framed
  <2>7. CASE server.at = "payload"
    <3>1. todo # <<>> /\ server.need = Len(Head(todo)) /\ a = Head(todo) \o Stream(Tail(todo))
      BY <1>5, <2>4, <2>7 DEF Before
    <3>2. PICK h, t : h = Head(todo) /\ t = Tail(todo)
      OBVIOUS
    <3>3. h \in Written /\ t \in Seq(Written)
      BY <3>1, <3>2, HeadParts
    <3>4. more # <<>> /\ Head(more) = h /\ Tail(more) = Append(t, p)
      <4>1. /\ Append(todo, p) # <<>> /\ Head(Append(todo, p)) = Head(todo)
            /\ Tail(Append(todo, p)) = Append(Tail(todo), p)
        BY <3>1, AppendHead
      <4> QED BY <2>1, <3>2, <4>1
    <3>5. PICK r : r = Stream(t)
      OBVIOUS
    <3>6. r \in Seq(Byte) /\ h \in Seq(Byte)
      BY <3>3, <3>5, StreamFacts, WrittenBytes
    <3>7. Stream(Append(t, p)) = r \o f
      BY <2>1, <3>3, <3>5, StreamFacts
    <3>8. (h \o r) \o f = h \o (r \o f)
      <4>1. Glue(Glue(h, r), f) = Glue(h, Glue(r, f))
        BY <2>2, <3>6, Glued
      <4> QED BY <4>1 DEF Glue
    <3>9. (arrived' \o transit') \o lost = Head(more) \o Stream(Tail(more))
      BY <2>5, <3>1, <3>2, <3>4, <3>5, <3>7, <3>8
    <3>10. Before(more, lost)'
      BY <1>3, <2>4, <2>7, <3>1, <3>2, <3>4, <3>9 DEF Before
    <3> QED BY <1>3, <1>5, <2>2, <2>3, <3>10 DEF Framed
  <2>8. CASE server.at = "closed"
    <3>1. Before(more, lost)'
      BY <1>3, <2>4, <2>8 DEF Before
    <3> QED BY <1>3, <1>5, <2>2, <2>3, <3>1 DEF Framed
  <2>9. server.at \in {"length", "payload", "respond", "closed"}
    BY <1>1 DEF WireType
  <2> QED BY <2>6, <2>7, <2>8, <2>9
<1>7. Understood'
  <2>1. Len(handled) <= Len(written)
    BY <1>1, <1>5
  <2>2. \A i \in 1 .. Len(handled) : written'[i] = written[i]
    BY <1>1, <1>2, <2>1 DEF WireType
  <2> QED BY <1>1, <1>3, <2>2 DEF Understood
<1>8. Answered'
  BY <1>1, <1>3 DEF Answered
<1> QED BY <1>4, <1>6, <1>7, <1>8 DEF WireInv

LEMMA TransitStep == WireInv /\ (Disconnect \/ Arrive) => WireInv'
<1> SUFFICES ASSUME WireInv, Disconnect \/ Arrive PROVE WireInv'
  OBVIOUS
<1>1. WireType /\ Framed /\ Understood /\ Answered
  BY DEF WireInv
<1>2. UNCHANGED <<written, server, handled, replies>>
  BY DEF Disconnect, Arrive
<1>3. PICK done \in Seq(Written), todo \in Seq(Written), lost \in Seq(Byte) :
          written = done \o todo /\ Len(done) = Len(handled) /\ Before(todo, lost)
  BY <1>1 DEF Framed
<1>4. arrived \in Seq(Byte) /\ transit \in Seq(Byte) /\ open \in BOOLEAN
  BY <1>1 DEF WireType
<1>5. /\ open' \in BOOLEAN /\ transit' \in Seq(Byte) /\ arrived' \in Seq(Byte)
      /\ \E gone \in Seq(Byte) : /\ open' => gone = <<>>
                                 /\ (arrived' \o transit') \o gone = (arrived \o transit) \o lost
  <2>1. CASE Disconnect
    <3>1. open' = FALSE /\ transit' = <<>> /\ arrived' = arrived
      BY <2>1 DEF Disconnect
    <3>2. PICK gone : gone = transit \o lost
      OBVIOUS
    <3>3. gone \in Seq(Byte) /\ (arrived \o transit) \o lost = arrived \o gone
      BY <1>4, <3>2, Joined
    <3>4. arrived' \o transit' = arrived
      BY <1>4, <3>1, ConcatEmpty
    <3>5. transit' \in Seq(Byte) /\ arrived' \in Seq(Byte)
      BY <1>4, <3>1
    <3>6. (arrived' \o transit') \o gone = (arrived \o transit) \o lost
      BY <3>3, <3>4
    <3> QED BY <3>1, <3>3, <3>5, <3>6
  <2>2. CASE Arrive
    <3>1. /\ transit # <<>> /\ open' = open
          /\ arrived' = Append(arrived, Head(transit)) /\ transit' = Tail(transit)
      BY <2>2 DEF Arrive
    <3>2. PICK b, t : b = Head(transit) /\ t = Tail(transit)
      OBVIOUS
    <3>3. b \in Byte /\ t \in Seq(Byte) /\ <<b>> \o t = transit
      BY <1>4, <3>1, <3>2, HeadParts
    <3>4. PICK o : o = <<b>>
      OBVIOUS
    <3>5. o \in Seq(Byte) /\ arrived' = arrived \o o /\ arrived' \in Seq(Byte)
      BY <1>4, <3>1, <3>2, <3>3, <3>4, AppendParts
    <3>6. (arrived \o o) \o t = arrived \o (o \o t)
      <4>1. arrived \in Seq(Byte) /\ o \in Seq(Byte) /\ t \in Seq(Byte)
        BY <1>4, <3>3, <3>5
      <4> QED BY <4>1, Joined
    <3>7. arrived' \o transit' = arrived \o transit
      BY <3>1, <3>2, <3>3, <3>4, <3>5, <3>6
    <3>8. open' => lost = <<>>
      BY <1>3, <3>1 DEF Before
    <3> QED BY <1>4, <3>1, <3>2, <3>3, <3>5, <3>7, <3>8
  <2> QED BY <2>1, <2>2
<1>6. PICK gone \in Seq(Byte) : /\ open' => gone = <<>>
                                /\ (arrived' \o transit') \o gone = (arrived \o transit) \o lost
  BY <1>5
<1>7. Before(todo, gone)'
  BY <1>2, <1>3, <1>6 DEF Before
<1>8. Framed'
  BY <1>2, <1>3, <1>7 DEF Framed
<1>9. WireType'
  BY <1>1, <1>2, <1>5 DEF WireType
<1>10. Understood' /\ Answered'
  BY <1>1, <1>2 DEF Understood, Answered
<1> QED BY <1>8, <1>9, <1>10 DEF WireInv

LEMMA LengthStep == WireInv /\ ReadLength => WireInv'
<1> SUFFICES ASSUME WireInv, ReadLength PROVE WireInv'
  OBVIOUS
<1>1. WireType /\ Framed /\ Understood /\ Answered
  BY DEF WireInv
<1>2. server.at = "length" /\ UNCHANGED <<written, open, transit, handled, replies>>
  BY DEF ReadLength
<1>3. PICK c \in read_exact(server.need) :
          /\ server' = IF Num(c[1]) > MaxFrame THEN Waiting("closed", 0)
                       ELSE Waiting("payload", Num(c[1]))
          /\ arrived' = c[2]
  BY DEF ReadLength
<1>4. W32 \in Nat /\ server.need = W32
  BY <1>1, <1>2, CodecAssumption DEF WireType
<1>5. PICK x, y : x = c[1] /\ y = c[2]
  OBVIOUS
<1>6. arrived \in Seq(Byte) /\ transit \in Seq(Byte)
  BY <1>1 DEF WireType
<1>7. x \in Seq(Byte) /\ y \in Seq(Byte) /\ Len(x) = W32 /\ x \o y = arrived
  <2>1. c \in Take(W32, arrived)
    BY <1>4 DEF read_exact
  <2>2. c \in Seq(Byte) \X Seq(Byte) /\ Len(c[1]) = W32 /\ c[1] \o c[2] = arrived
    BY <1>4, <1>6, <2>1, TakeFacts
  <2> QED BY <1>5, <2>2
<1>8. Num(x) \in Nat
  BY <1>4, <1>7, IntegerCodec
<1>9. /\ server' \in [at : {"length", "payload", "respond", "closed"}, need : Nat]
      /\ server'.at \in {"payload", "closed"}
      /\ server'.at = "payload" => server'.need = Num(x)
  <2>1. CASE Num(x) > MaxFrame
    BY <1>3, <1>5, <2>1 DEF Waiting
  <2>2. CASE ~(Num(x) > MaxFrame)
    BY <1>3, <1>5, <1>8, <2>2 DEF Waiting
  <2> QED BY <2>1, <2>2
<1>10. PICK done \in Seq(Written), todo \in Seq(Written), lost \in Seq(Byte) :
           written = done \o todo /\ Len(done) = Len(handled) /\ Before(todo, lost)
  BY <1>1 DEF Framed
<1>11. PICK z : z = (y \o transit) \o lost
  OBVIOUS
<1>12. z \in Seq(Byte) /\ ((x \o y) \o transit) \o lost = x \o z
  <2>1. x \in Seq(Byte) /\ y \in Seq(Byte) /\ transit \in Seq(Byte) /\ lost \in Seq(Byte)
    BY <1>6, <1>7
  <2>2. /\ Glue(Glue(y, transit), lost) \in Seq(Byte)
        /\ Glue(Glue(Glue(x, y), transit), lost) = Glue(x, Glue(Glue(y, transit), lost))
    BY <2>1, Regroup
  <2> QED BY <1>11, <2>2 DEF Glue
<1>13. x \o z = Stream(todo)
  BY <1>2, <1>7, <1>10, <1>12 DEF Before
<1>14. /\ todo # <<>> /\ Num(x) = Len(Head(todo))
       /\ z = Head(todo) \o Stream(Tail(todo))
  BY <1>7, <1>12, <1>13, FirstFrame
<1>15. Before(todo, lost)'
  <2>1. (arrived' \o transit') \o lost = Head(todo) \o Stream(Tail(todo))
    BY <1>2, <1>3, <1>5, <1>11, <1>14
  <2>2. open' => lost = <<>>
    BY <1>2, <1>10 DEF Before
  <2>3. server'.at \notin {"length", "respond"}
    BY <1>9
  <2> QED BY <1>9, <1>14, <2>1, <2>2, <2>3 DEF Before
<1>16. Framed'
  BY <1>2, <1>10, <1>15 DEF Framed
<1>17. WireType'
  <2>1. arrived' \in Seq(Byte)
    BY <1>3, <1>5, <1>7
  <2> QED BY <1>1, <1>2, <1>9, <2>1 DEF WireType
<1>18. Understood' /\ Answered'
  <2>1. Understood'
    BY <1>1, <1>2 DEF Understood
  <2>2. Len(handled) = Len(replies)
    BY <1>1, <1>2 DEF Answered
  <2> QED BY <1>2, <1>9, <2>1, <2>2 DEF Answered
<1> QED BY <1>16, <1>17, <1>18 DEF WireInv

(* What ReadPayload takes off the stream: the payload that was written     *)
(* next, and nothing else.                                                 *)
LEMMA PayloadRead ==
    ASSUME WireInv, ReadPayload
    PROVE  \E done, rest \in Seq(Written), p \in Written, lost \in Seq(Byte) :
               /\ written = Append(done, p) \o rest /\ Len(done) = Len(handled)
               /\ open => lost = <<>>
               /\ arrived' \in Seq(Byte) /\ (arrived' \o transit') \o lost = Stream(rest)
               /\ \/ server' = Waiting("closed", 0) /\ handled' = handled
                  \/ /\ server' = Waiting("respond", 0)
                     /\ \E r \in decode_canonical(RpcRequest, p) : handled' = Append(handled, r)
<1>1. WireType /\ Framed
  BY DEF WireInv
<1>2. server.at = "payload" /\ UNCHANGED <<written, open, transit, replies>>
  BY DEF ReadPayload
<1>3. PICK c \in read_exact(server.need) :
          /\ arrived' = c[2]
          /\ \/ server' = Waiting("closed", 0) /\ handled' = handled
             \/ /\ server' = Waiting("respond", 0)
                /\ \E r \in decode_canonical(RpcRequest, c[1]) : handled' = Append(handled, r)
  BY DEF ReadPayload
<1>4. PICK x, y, n : x = c[1] /\ y = c[2] /\ n = server.need
  OBVIOUS
<1>5. arrived \in Seq(Byte) /\ transit \in Seq(Byte) /\ n \in Nat
  BY <1>1, <1>4 DEF WireType
<1>6. x \in Seq(Byte) /\ y \in Seq(Byte) /\ Len(x) = n /\ x \o y = arrived
  <2>1. c \in Take(n, arrived)
    BY <1>4 DEF read_exact
  <2>2. c \in Seq(Byte) \X Seq(Byte) /\ Len(c[1]) = n /\ c[1] \o c[2] = arrived
    BY <1>5, <2>1, TakeFacts
  <2> QED BY <1>4, <2>2
<1>7. PICK done \in Seq(Written), todo \in Seq(Written), lost \in Seq(Byte) :
          written = done \o todo /\ Len(done) = Len(handled) /\ Before(todo, lost)
  BY <1>1 DEF Framed
<1>8. PICK z, p, rest : z = (y \o transit) \o lost /\ p = Head(todo) /\ rest = Tail(todo)
  OBVIOUS
<1>9. z \in Seq(Byte) /\ ((x \o y) \o transit) \o lost = x \o z
  <2>1. x \in Seq(Byte) /\ y \in Seq(Byte) /\ transit \in Seq(Byte) /\ lost \in Seq(Byte)
    BY <1>5, <1>6
  <2>2. /\ Glue(Glue(y, transit), lost) \in Seq(Byte)
        /\ Glue(Glue(Glue(x, y), transit), lost) = Glue(x, Glue(Glue(y, transit), lost))
    BY <2>1, Regroup
  <2> QED BY <1>8, <2>2 DEF Glue
<1>10. /\ todo # <<>> /\ n = Len(p) /\ x \o z = p \o Stream(rest)
       /\ open => lost = <<>>
  BY <1>2, <1>4, <1>6, <1>7, <1>8, <1>9 DEF Before
<1>11. p \in Written /\ rest \in Seq(Written) /\ <<p>> \o rest = todo
  BY <1>8, <1>10, HeadParts
<1>12. PICK s : s = Stream(rest)
  OBVIOUS
<1>13. s \in Seq(Byte) /\ p \in Seq(Byte) /\ x \o z = p \o s /\ Len(x) = Len(p)
  BY <1>6, <1>10, <1>11, <1>12, StreamFacts, WrittenBytes
<1>14. x = p /\ z = s
  BY <1>6, <1>9, <1>13, ConcatCancel
<1>15. written = Append(done, p) \o rest
  <2>1. PICK o : o = <<p>>
    OBVIOUS
  <2>2. o \in Seq(Written) /\ Append(done, p) = done \o o
    BY <1>11, <2>1, AppendParts
  <2>3. (done \o o) \o rest = done \o (o \o rest)
    <3>1. done \in Seq(Written) /\ o \in Seq(Written) /\ rest \in Seq(Written)
      BY <1>11, <2>2
    <3> QED BY <3>1, ConcatAssoc
  <2> QED BY <1>7, <1>11, <2>1, <2>2, <2>3
<1>16. arrived' \in Seq(Byte) /\ (arrived' \o transit') \o lost = Stream(rest)
  BY <1>2, <1>3, <1>4, <1>6, <1>8, <1>12, <1>14
<1>17. \/ server' = Waiting("closed", 0) /\ handled' = handled
       \/ /\ server' = Waiting("respond", 0)
          /\ \E r \in decode_canonical(RpcRequest, p) : handled' = Append(handled, r)
  BY <1>3, <1>4, <1>14
<1> QED BY <1>7, <1>10, <1>11, <1>15, <1>16, <1>17

LEMMA PayloadStep == WireInv /\ ReadPayload => WireInv'
<1> SUFFICES ASSUME WireInv, ReadPayload PROVE WireInv'
  OBVIOUS
<1>1. WireType /\ Understood /\ Answered
  BY DEF WireInv
<1>2. server.at = "payload" /\ UNCHANGED <<written, open, transit, replies>>
  BY DEF ReadPayload
<1>3. PICK done \in Seq(Written), rest \in Seq(Written), p \in Written, lost \in Seq(Byte) :
          /\ written = Append(done, p) \o rest /\ Len(done) = Len(handled)
          /\ open => lost = <<>>
          /\ arrived' \in Seq(Byte) /\ (arrived' \o transit') \o lost = Stream(rest)
          /\ \/ server' = Waiting("closed", 0) /\ handled' = handled
             \/ /\ server' = Waiting("respond", 0)
                /\ \E r \in decode_canonical(RpcRequest, p) : handled' = Append(handled, r)
  BY PayloadRead
<1>4. Len(handled) = Len(replies) /\ handled \in Seq(Values(RpcRequest))
  BY <1>1, <1>2 DEF Answered, WireType
<1>5. CASE server' = Waiting("closed", 0) /\ handled' = handled
  <2>1. server'.at = "closed" /\ server' \in [at : {"length", "payload", "respond", "closed"}, need : Nat]
    BY <1>5 DEF Waiting
  <2>2. PICK todo : todo = <<p>> \o rest
    OBVIOUS
  <2>3. todo \in Seq(Written) /\ written' = done \o todo
    <3>1. PICK o : o = <<p>>
      OBVIOUS
    <3>2. o \in Seq(Written) /\ Append(done, p) = done \o o
      BY <3>1, AppendParts
    <3>3. (done \o o) \o rest = done \o (o \o rest) /\ o \o rest \in Seq(Written)
      BY <3>2, ConcatAssoc
    <3> QED BY <1>2, <1>3, <2>2, <3>1, <3>2, <3>3
  <2>4. Before(todo, lost)'
    BY <1>2, <1>3, <2>1 DEF Before
  <2>5. Framed'
    BY <1>3, <1>5, <2>3, <2>4 DEF Framed
  <2>6. WireType'
    BY <1>1, <1>2, <1>3, <1>5, <2>1 DEF WireType
  <2>7. Understood' /\ Answered'
    BY <1>1, <1>2, <1>5, <2>1 DEF Understood, Answered
  <2> QED BY <2>5, <2>6, <2>7 DEF WireInv
<1>6. CASE /\ server' = Waiting("respond", 0)
           /\ \E r \in decode_canonical(RpcRequest, p) : handled' = Append(handled, r)
  <2>1. PICK r \in decode_canonical(RpcRequest, p) : handled' = Append(handled, r)
    BY <1>6
  <2>2. r \in Values(RpcRequest)
    BY RequestCodec, Decoded, WrittenBytes
  <2>3. server'.at = "respond" /\ server' \in [at : {"length", "payload", "respond", "closed"}, need : Nat]
    BY <1>6 DEF Waiting
  <2>4. PICK more, n : more = Append(done, p) /\ n = Len(handled)
    OBVIOUS
  <2>5. /\ more \in Seq(Written) /\ Len(more) = n + 1 /\ more[n + 1] = p /\ n \in Nat
    BY <1>3, <1>4, <2>4
  <2>6. /\ handled' \in Seq(Values(RpcRequest)) /\ Len(handled') = n + 1
        /\ handled'[n + 1] = r /\ \A i \in 1 .. n : handled'[i] = handled[i]
    BY <1>4, <2>1, <2>2, <2>4
  <2>7. Before(rest, lost)'
    BY <1>2, <1>3, <2>3 DEF Before
  <2>8. Framed'
    BY <1>2, <1>3, <2>4, <2>5, <2>6, <2>7 DEF Framed
  <2>9. WireType'
    BY <1>1, <1>2, <1>3, <2>3, <2>6 DEF WireType
  <2>10. Understood'
    <3>1. written'[n + 1] = p
      <4>1. (more \o rest)[n + 1] = more[n + 1]
        BY <2>5
      <4> QED BY <1>2, <1>3, <2>4, <2>5, <4>1
    <3>2. \A i \in 1 .. n + 1 : i \in 1 .. n \/ i = n + 1
      BY <2>5
    <3>3. \A i \in 1 .. n : handled[i] \in decode_canonical(RpcRequest, written[i])
      BY <1>1, <2>4 DEF Understood
    <3> QED BY <1>2, <2>1, <2>6, <3>1, <3>2, <3>3 DEF Understood
  <2>11. Answered'
    BY <1>2, <1>4, <2>3, <2>4, <2>6 DEF Answered
  <2> QED BY <2>8, <2>9, <2>10, <2>11 DEF WireInv
<1> QED BY <1>3, <1>5, <1>6

LEMMA EndStep == WireInv /\ EndOfStream => WireInv'
<1> SUFFICES ASSUME WireInv, EndOfStream PROVE WireInv'
  OBVIOUS
<1>1. WireType /\ Framed /\ Understood /\ Answered
  BY DEF WireInv
<1>2. UNCHANGED <<written, open, transit, arrived, handled, replies>>
  BY DEF EndOfStream
<1>3. server'.at = "closed" /\ server' \in [at : {"length", "payload", "respond", "closed"}, need : Nat]
  BY DEF EndOfStream, Waiting
<1>4. PICK done \in Seq(Written), todo \in Seq(Written), lost \in Seq(Byte) :
          written = done \o todo /\ Len(done) = Len(handled) /\ Before(todo, lost)
  BY <1>1 DEF Framed
<1>5. Before(todo, lost)'
  BY <1>2, <1>3, <1>4 DEF Before
<1>6. Framed'
  BY <1>2, <1>4, <1>5 DEF Framed
<1>7. WireType'
  BY <1>1, <1>2, <1>3 DEF WireType
<1>8. Understood' /\ Answered'
  BY <1>1, <1>2, <1>3 DEF Understood, Answered
<1> QED BY <1>6, <1>7, <1>8 DEF WireInv

(* The request that is answered, and the answer.                           *)
LEMMA RespondFacts ==
    ASSUME WireInv, Respond
    PROVE  /\ server.at = "respond" /\ handled # <<>>
           /\ Last(handled) \in decode_canonical(RpcRequest, written[Len(handled)])
           /\ UNCHANGED <<written, open, transit, arrived, handled>>
           /\ \E response \in Answers(Last(handled)) :
                 /\ response \in Values(RpcResponse) /\ response[1] \in {Last(handled)[1], 4}
                 /\ \/ /\ replies' = Append(replies, Encode(RpcResponse, response))
                       /\ server' = Waiting("length", W32)
                    \/ server' = Waiting("closed", 0) /\ replies' = replies
<1>1. WireType /\ Framed /\ Understood /\ Answered
  BY DEF WireInv
<1>2. server.at = "respond" /\ UNCHANGED <<written, open, transit, arrived, handled>>
  BY DEF Respond
<1>3. PICK n : n = Len(handled)
  OBVIOUS
<1>4. n \in Nat /\ n >= 1 /\ handled # <<>>
  <2>1. handled \in Seq(Values(RpcRequest)) /\ replies \in Seq(Seq(Byte))
    BY <1>1 DEF WireType
  <2>2. n = Len(replies) + 1
    BY <1>1, <1>2, <1>3 DEF Answered
  <2>3. Len(replies) \in Nat
    BY <2>1
  <2>4. n \in Nat /\ n >= 1
    BY <2>2, <2>3
  <2>5. Len(handled) # 0
    BY <1>3, <2>4
  <2>6. handled # <<>>
    BY <2>1, <2>5
  <2> QED BY <2>4, <2>6
<1>5. PICK r, p : r = Last(handled) /\ p = written[n]
  OBVIOUS
<1>6. r \in decode_canonical(RpcRequest, p)
  BY <1>1, <1>3, <1>4, <1>5 DEF Understood, Last
<1>7. p \in Written
  <2>1. PICK done \in Seq(Written), todo \in Seq(Written) :
            written = done \o todo /\ Len(done) = n
    BY <1>1, <1>3 DEF Framed
  <2>2. n \in 1 .. Len(written) /\ written \in Seq(Written)
    BY <1>1, <1>4, <2>1 DEF WireType
  <2> QED BY <1>5, <2>2
<1>8. PICK d \in RpcRequest.dec[p] : r = d[1]
  BY <1>6 DEF decode_canonical
<1>9. \A response \in Answers(r) :
          response \in Values(RpcResponse) /\ response[1] \in {r[1], 4}
  BY <1>7, <1>8, WireAssumption DEF Written
<1>10. PICK response \in Answers(r) :
           \/ /\ replies' = Append(replies, Encode(RpcResponse, response))
              /\ server' = Waiting("length", W32)
           \/ server' = Waiting("closed", 0) /\ replies' = replies
  BY <1>5 DEF Respond
<1> QED BY <1>2, <1>3, <1>4, <1>5, <1>6, <1>9, <1>10

LEMMA RespondStep == WireInv /\ Respond => WireInv'
<1> SUFFICES ASSUME WireInv, Respond PROVE WireInv'
  OBVIOUS
<1>1. WireType /\ Framed /\ Understood /\ Answered
  BY DEF WireInv
<1>2. server.at = "respond" /\ UNCHANGED <<written, open, transit, arrived, handled>>
  BY RespondFacts
<1>3. PICK response \in Values(RpcResponse) :
          \/ /\ replies' = Append(replies, Encode(RpcResponse, response))
             /\ server' = Waiting("length", W32)
          \/ server' = Waiting("closed", 0) /\ replies' = replies
  BY RespondFacts
<1>4. W32 \in Nat /\ Encode(RpcResponse, response) \in Seq(Byte)
  BY ResponseCodec, Decoded, CodecAssumption
<1>5. /\ server' \in [at : {"length", "payload", "respond", "closed"}, need : Nat]
      /\ server'.at \in {"length", "closed"}
      /\ server'.at = "length" => server'.need = W32
  BY <1>3, <1>4 DEF Waiting
<1>6. replies \in Seq(Seq(Byte)) /\ Len(handled) = Len(replies) + 1
  BY <1>1, <1>2 DEF WireType, Answered
<1>7. /\ replies' \in Seq(Seq(Byte))
      /\ server'.at = "length" => Len(replies') = Len(replies) + 1
  <2>1. CASE replies' = Append(replies, Encode(RpcResponse, response))
    BY <1>4, <1>6, <2>1, AppendParts
  <2>2. CASE server' = Waiting("closed", 0) /\ replies' = replies
    BY <1>6, <2>2 DEF Waiting
  <2> QED BY <1>3, <2>1, <2>2
<1>8. PICK done \in Seq(Written), todo \in Seq(Written), lost \in Seq(Byte) :
          written = done \o todo /\ Len(done) = Len(handled) /\ Before(todo, lost)
  BY <1>1 DEF Framed
<1>9. Before(todo, lost)'
  BY <1>2, <1>5, <1>8 DEF Before
<1>10. Framed'
  BY <1>2, <1>8, <1>9 DEF Framed
<1>11. WireType'
  BY <1>1, <1>2, <1>5, <1>7 DEF WireType
<1>12. Understood' /\ Answered'
  <2>1. Understood'
    BY <1>1, <1>2 DEF Understood
  <2>2. Answered'
    BY <1>2, <1>5, <1>6, <1>7 DEF Answered
  <2> QED BY <2>1, <2>2
<1> QED BY <1>10, <1>11, <1>12 DEF WireInv

LEMMA WireStep == WireInv /\ [WireNext]_wireVars => WireInv'
<1> SUFFICES ASSUME WireInv, [WireNext]_wireVars PROVE WireInv'
  OBVIOUS
<1>1. CASE UNCHANGED wireVars
  BY <1>1 DEF wireVars, WireInv, WireType, Framed, Before, Understood, Answered
<1>2. CASE WriteRequest
  BY <1>2, WriteStep
<1>3. CASE Disconnect \/ Arrive
  BY <1>3, TransitStep
<1>4. CASE ReadLength
  BY <1>4, LengthStep
<1>5. CASE ReadPayload
  BY <1>5, PayloadStep
<1>6. CASE EndOfStream
  BY <1>6, EndStep
<1>7. CASE Respond
  BY <1>7, RespondStep
<1> QED BY <1>1, <1>2, <1>3, <1>4, <1>5, <1>6, <1>7 DEF WireNext, ServerStep, Over

LEMMA WireInvariant == WireSpec => []WireInv
  BY WireInitial, WireStep, PTL DEF WireSpec
-----------------------------------------------------------------------------
(* A request that is handed to the node is the value whose encoding was    *)
(* written at its place.                                                   *)
LEMMA Accepted ==
    ASSUME WireInv, [WireNext]_wireVars, handled' # handled
    PROVE  /\ Len(handled') <= Len(written)
           /\ Last(handled') \in Values(RpcRequest)
           /\ Encode(RpcRequest, Last(handled')) = written[Len(handled')]
<1>1. ReadPayload
  <2>1. CASE UNCHANGED wireVars
    BY <2>1 DEF wireVars
  <2>2. CASE WriteRequest \/ Disconnect \/ Arrive
    BY <2>2 DEF WriteRequest, Disconnect, Arrive
  <2>3. CASE ReadLength \/ EndOfStream \/ Respond
    BY <2>3 DEF ReadLength, EndOfStream, Respond
  <2> QED BY <2>1, <2>2, <2>3 DEF WireNext, ServerStep, Over
<1>2. PICK done \in Seq(Written), rest \in Seq(Written), p \in Written :
          /\ written = Append(done, p) \o rest /\ Len(done) = Len(handled)
          /\ \E r \in decode_canonical(RpcRequest, p) : handled' = Append(handled, r)
  BY <1>1, PayloadRead
<1>3. PICK r \in decode_canonical(RpcRequest, p) : handled' = Append(handled, r)
  BY <1>2
<1>4. r \in Values(RpcRequest) /\ Encode(RpcRequest, r) = p
  BY RequestCodec, Decoded, WrittenBytes
<1>5. PICK n, more : n = Len(handled) /\ more = Append(done, p)
  OBVIOUS
<1>6. n \in Nat /\ Len(handled') = n + 1 /\ handled'[n + 1] = r
  <2>1. handled \in Seq(Values(RpcRequest))
    BY DEF WireInv, WireType
  <2> QED BY <1>3, <1>4, <1>5, <2>1
<1>7. more \in Seq(Written) /\ Len(more) = n + 1 /\ more[n + 1] = p
  BY <1>2, <1>5, <1>6
<1>8. Len(more \o rest) = Len(more) + Len(rest) /\ (more \o rest)[n + 1] = more[n + 1]
      /\ Len(rest) \in Nat
  BY <1>6, <1>7
<1>9. Len(written) >= n + 1 /\ written[n + 1] = p
  BY <1>2, <1>5, <1>6, <1>7, <1>8
<1>10. Last(handled') = r
  BY <1>6 DEF Last
<1> QED BY <1>4, <1>6, <1>9, <1>10

(* frame.rs, codec.rs: whatever a client writes and however its bytes      *)
(* arrive, each request the node is asked for is the one whose encoding    *)
(* was written at its place. For frames of any number and length.          *)
THEOREM RequestsAreIntact == WireSpec => RequestsIntact
<1>1. WireInv /\ [WireNext]_wireVars =>
          [handled' # handled =>
              /\ Len(handled') <= Len(written)
              /\ Encode(RpcRequest, Last(handled')) = written[Len(handled')]]_wireVars
  BY Accepted
<1> QED BY <1>1, WireInvariant, PTL DEF WireSpec, RequestsIntact

(* client.rs, server.rs: each answer decodes to one response, of the kind  *)
(* the request at the same place asked for, or an error.                   *)
THEOREM AnswersAreMatched == WireSpec => AnswersMatch
<1>1. ASSUME WireInv, [WireNext]_wireVars, replies' # replies
      PROVE  \E request \in decode_canonical(RpcRequest, written[Len(replies')]) :
             \E response \in decode_canonical(RpcResponse, Last(replies')) :
                 /\ response[1] \in {request[1], 4}
                 /\ Encode(RpcResponse, response) = Last(replies')
  <2>1. Respond
    <3>1. CASE UNCHANGED wireVars
      BY <1>1, <3>1 DEF wireVars
    <3>2. CASE WriteRequest \/ Disconnect \/ Arrive
      BY <1>1, <3>2 DEF WriteRequest, Disconnect, Arrive
    <3>3. CASE ReadLength \/ ReadPayload \/ EndOfStream
      BY <1>1, <3>3 DEF ReadLength, ReadPayload, EndOfStream
    <3> QED BY <1>1, <3>1, <3>2, <3>3 DEF WireNext, ServerStep, Over
  <2>2. /\ server.at = "respond"
        /\ Last(handled) \in decode_canonical(RpcRequest, written[Len(handled)])
    BY <1>1, <2>1, RespondFacts
  <2>3. PICK response \in Values(RpcResponse) :
            /\ response[1] \in {Last(handled)[1], 4}
            /\ replies' = Append(replies, Encode(RpcResponse, response))
    BY <1>1, <2>1, RespondFacts
  <2>4. PICK b : b = Encode(RpcResponse, response)
    OBVIOUS
  <2>5. b \in Seq(Byte) /\ response \in decode_canonical(RpcResponse, b)
    BY <2>4, ResponseCodec, Decoded
  <2>6. PICK n : n = Len(replies)
    OBVIOUS
  <2>7. n \in Nat /\ Len(replies') = n + 1 /\ replies'[n + 1] = b /\ Len(handled) = n + 1
    <3>1. replies \in Seq(Seq(Byte)) /\ Len(handled) = Len(replies) + 1
      BY <1>1, <2>2 DEF WireInv, WireType, Answered
    <3> QED BY <2>3, <2>4, <2>5, <2>6, <3>1
  <2>8. Last(replies') = b
    BY <2>7 DEF Last
  <2> QED BY <2>2, <2>3, <2>4, <2>5, <2>7, <2>8
<1>2. WireInv /\ [WireNext]_wireVars =>
          [replies' # replies =>
              \E request \in decode_canonical(RpcRequest, written[Len(replies')]) :
              \E response \in decode_canonical(RpcResponse, Last(replies')) :
                  /\ response[1] \in {request[1], 4}
                  /\ Encode(RpcResponse, response) = Last(replies')]_wireVars
  BY <1>1
<1> QED BY <1>2, WireInvariant, PTL DEF WireSpec, AnswersMatch
-----------------------------------------------------------------------------
(* What a transaction is made of.                                          *)
LEMMA TransactionValues ==
    /\ Values(TxInput)
         = ((Values(OutPoint) \X Values(VecU8)) \X Values(U32)) \X Values(Redeemer)
    /\ Values(Transaction)
         = ((Values(U32) \X {s \in Seq(Values(TxInput)) : Len(s) < Numbers[W32]})
               \X Values(ListOf(TxOutput))) \X Values(U64)
    /\ <<>> \in Values(VecU8)
<1>1. /\ IsCodec(OutPoint) /\ IsCodec(Redeemer) /\ IsCodec(TxInput) /\ IsCodec(TxOutput)
      /\ IsCodec(U32) /\ IsCodec(U64) /\ IsCodec(VecU8)
  BY TransactionCodec, NumberCodecs, VectorCodecs
<1>2. Values(TxInput)
         = ((Values(OutPoint) \X Values(VecU8)) \X Values(U32)) \X Values(Redeemer)
  <2>1. /\ IsCodec(Pair(OutPoint, VecU8))
        /\ Values(Pair(OutPoint, VecU8)) = Values(OutPoint) \X Values(VecU8)
    BY <1>1, PairCodec
  <2>2. /\ IsCodec(Triple(OutPoint, VecU8, U32))
        /\ Values(Triple(OutPoint, VecU8, U32))
             = (Values(OutPoint) \X Values(VecU8)) \X Values(U32)
    BY <1>1, <2>1, PairCodec DEF Triple
  <2> QED BY <1>1, <2>2, PairCodec DEF TxInput, Quad
<1>3. /\ IsCodec(ListOf(TxInput)) /\ IsCodec(ListOf(TxOutput))
      /\ Values(ListOf(TxInput)) = {s \in Seq(Values(TxInput)) : Len(s) < Numbers[W32]}
  BY <1>1, ListCodec
<1>4. Values(Transaction)
         = ((Values(U32) \X Values(ListOf(TxInput))) \X Values(ListOf(TxOutput))) \X Values(U64)
  <2>1. /\ IsCodec(Pair(U32, ListOf(TxInput)))
        /\ Values(Pair(U32, ListOf(TxInput))) = Values(U32) \X Values(ListOf(TxInput))
    BY <1>1, <1>3, PairCodec
  <2>2. /\ IsCodec(Triple(U32, ListOf(TxInput), ListOf(TxOutput)))
        /\ Values(Triple(U32, ListOf(TxInput), ListOf(TxOutput)))
             = (Values(U32) \X Values(ListOf(TxInput))) \X Values(ListOf(TxOutput))
    BY <1>3, <2>1, PairCodec DEF Triple
  <2> QED BY <1>1, <2>2, PairCodec DEF Transaction, Quad
<1>5. <<>> \in Values(VecU8)
  <2>1. W32 \in Nat /\ Numbers[W32] - 1 \in Nat /\ Numbers[W32] - 1 < Numbers[W32]
    <3>1. W32 \in Nat /\ Numbers[W32] \in Nat /\ Numbers[W32] > 0
      BY CodecAssumption, Positive
    <3> QED BY <3>1
  <2>2. Values(VecU8) = {s \in Seq(Byte) : Len(s) <= Numbers[W32] - 1}
    BY <2>1, VecCodec DEF VecU8
  <2> QED BY <2>1, <2>2
<1> QED BY <1>2, <1>3, <1>4, <1>5

LEMMA RequestValues == \A r \in Values(RpcRequest) : r[1] = 2 => r[2] \in Values(Transaction)
<1>1. \A r \in Values(RpcRequest) :
          \/ r \in {0} \X Values(VecU8) \/ r \in {1} \X Values(Block)
          \/ r \in {2} \X Values(Transaction) \/ r \in {3} \X Values(Unit)
  BY RequestCases
<1> QED BY <1>1

(* What sighash is taken of: the transaction without unlocking scripts.    *)
Cleared(input) == Input(previous_output(input), <<>>, sequence(input), redeemer(input))

Copy(tx) ==
    Tx(version(tx), [i \in DOMAIN inputs(tx) |-> Cleared(inputs(tx)[i])], outputs(tx), locktime(tx))

LEMMA CopyValues ==
    ASSUME NEW tx \in Values(Transaction)
    PROVE  Copy(tx) \in Values(Transaction)
<1>1. PICK v, ins, outs, l : v = version(tx) /\ ins = inputs(tx) /\ outs = outputs(tx) /\ l = locktime(tx)
  OBVIOUS
<1>2. /\ v \in Values(U32) /\ ins \in Seq(Values(TxInput)) /\ Len(ins) < Numbers[W32]
      /\ outs \in Values(ListOf(TxOutput)) /\ l \in Values(U64)
  BY <1>1, TransactionValues DEF version, inputs, outputs, locktime
<1>3. ASSUME NEW input \in Values(TxInput) PROVE Cleared(input) \in Values(TxInput)
  <2>1. /\ previous_output(input) \in Values(OutPoint) /\ sequence(input) \in Values(U32)
        /\ redeemer(input) \in Values(Redeemer)
    BY TransactionValues DEF previous_output, sequence, redeemer
  <2> QED BY <2>1, TransactionValues DEF Cleared, Input
<1>4. PICK c : c = [i \in DOMAIN ins |-> Cleared(ins[i])]
  OBVIOUS
<1>5. c \in Seq(Values(TxInput)) /\ Len(c) = Len(ins)
  <2>1. DOMAIN ins = 1 .. Len(ins) /\ Len(ins) \in Nat /\ \A i \in 1 .. Len(ins) : ins[i] \in Values(TxInput)
    BY <1>2
  <2>2. c \in [1 .. Len(ins) -> Values(TxInput)]
    BY <1>3, <1>4, <2>1
  <2> QED BY <2>1, <2>2
<1>6. Copy(tx) = <<<<<<v, c>>, outs>>, l>>
  BY <1>1, <1>4 DEF Copy, Tx
<1> QED BY <1>2, <1>5, <1>6, TransactionValues

LEMMA CopiesAgree ==
    ASSUME NEW tx \in Values(Transaction), NEW other \in Values(Transaction)
    PROVE  Copy(tx) = Copy(other) <=> SameButScripts(tx, other)
<1>1. PICK v, ins, outs, l : v = version(tx) /\ ins = inputs(tx) /\ outs = outputs(tx) /\ l = locktime(tx)
  OBVIOUS
<1>2. PICK v2, ins2, outs2, l2 :
          v2 = version(other) /\ ins2 = inputs(other) /\ outs2 = outputs(other) /\ l2 = locktime(other)
  OBVIOUS
<1>3. PICK c, c2 : /\ c = [i \in DOMAIN ins |-> Cleared(ins[i])]
                   /\ c2 = [i \in DOMAIN ins2 |-> Cleared(ins2[i])]
  OBVIOUS
<1>4. Copy(tx) = <<<<<<v, c>>, outs>>, l>> /\ Copy(other) = <<<<<<v2, c2>>, outs2>>, l2>>
  BY <1>1, <1>2, <1>3 DEF Copy, Tx
<1>5. Copy(tx) = Copy(other) <=> v = v2 /\ c = c2 /\ outs = outs2 /\ l = l2
  BY <1>4
<1>6. c = c2 <=> DOMAIN ins = DOMAIN ins2 /\ \A i \in DOMAIN ins : Cleared(ins[i]) = Cleared(ins2[i])
  BY <1>3
<1>7. \A a, b : Cleared(a) = Cleared(b) <=>
          /\ previous_output(a) = previous_output(b) /\ sequence(a) = sequence(b)
          /\ redeemer(a) = redeemer(b)
  BY DEF Cleared, Input
<1>8. SameButScripts(tx, other) <=>
          /\ v = v2 /\ outs = outs2 /\ l = l2 /\ DOMAIN ins = DOMAIN ins2
          /\ \A i \in DOMAIN ins :
                 /\ previous_output(ins[i]) = previous_output(ins2[i])
                 /\ sequence(ins[i]) = sequence(ins2[i])
                 /\ redeemer(ins[i]) = redeemer(ins2[i])
  BY <1>1, <1>2 DEF SameButScripts
<1>9. (\A i \in DOMAIN ins : Cleared(ins[i]) = Cleared(ins2[i])) <=>
          \A i \in DOMAIN ins :
              /\ previous_output(ins[i]) = previous_output(ins2[i])
              /\ sequence(ins[i]) = sequence(ins2[i])
              /\ redeemer(ins[i]) = redeemer(ins2[i])
  BY <1>7
<1> QED BY <1>5, <1>6, <1>8, <1>9

(* A value and what follows its encoding can both be read off the bytes:   *)
(* no copy's encoding, with an index behind it, is another's.              *)
LEMMA SighashBinds ==
    ASSUME NEW tx \in Values(Transaction), NEW other \in Values(Transaction),
           NEW i \in 0 .. Numbers[W32] - 1, NEW j \in 0 .. Numbers[W32] - 1
    PROVE  sighash(tx, i) = sighash(other, j) <=> i = j /\ SameButScripts(tx, other)
<1>1. PICK x, y, b, c : x = Copy(tx) /\ y = Copy(other) /\ b = BE(i, W32) /\ c = BE(j, W32)
  OBVIOUS
<1>2. x \in Values(Transaction) /\ y \in Values(Transaction) /\ IsCodec(Transaction)
  BY <1>1, CopyValues, TransactionCodec
<1>3. b \in Seq(Byte) /\ c \in Seq(Byte) /\ Num(b) = i /\ Num(c) = j
  BY <1>1, IntegerCodec, CodecAssumption
<1>4. /\ sighash(tx, i) = Encode(Transaction, x) \o b
      /\ sighash(other, j) = Encode(Transaction, y) \o c
  BY <1>1 DEF sighash, Copy, Cleared
<1>5. ASSUME sighash(tx, i) = sighash(other, j) PROVE i = j /\ SameButScripts(tx, other)
  <2>1. PICK w : w = sighash(tx, i)
    OBVIOUS
  <2>2. w = Transaction.enc[x] \o b /\ w = Transaction.enc[y] \o c
    BY <1>4, <1>5, <2>1 DEF Encode
  <2>3. w \in Seq(Byte)
    <3>1. Transaction.enc[x] \in Seq(Byte)
      BY <1>2, CodecLaws
    <3>2. Transaction.enc[x] \o b \in Seq(Byte)
      BY <1>3, <3>1, Joined
    <3> QED BY <2>2, <3>2
  <2>4. \A v \in Values(Transaction), d \in Seq(Byte) :
            <<v, d>> \in Transaction.dec[Transaction.enc[v] \o d]
    BY <1>2, Zenon DEF IsCodec
  <2>5. <<x, b>> \in Transaction.dec[w]
    BY <1>2, <1>3, <2>2, <2>4
  <2>6. <<y, c>> \in Transaction.dec[w]
    BY <1>2, <1>3, <2>2, <2>4
  <2>7. <<x, b>> = <<y, c>>
    BY <1>2, <2>3, <2>5, <2>6, CodecLaws
  <2>8. x = y /\ b = c
    BY <2>7
  <2> QED BY <1>1, <1>3, <2>8, CopiesAgree
<1>6. ASSUME i = j, SameButScripts(tx, other) PROVE sighash(tx, i) = sighash(other, j)
  <2>1. x = y /\ b = c
    BY <1>1, <1>6, CopiesAgree
  <2> QED BY <1>4, <2>1
<1> QED BY <1>5, <1>6

LEMMA Indices == 0 .. 1 \subseteq 0 .. Numbers[W32] - 1
<1>1. PICK w \in Nat : W32 = w + 1
  <2>1. W32 \in Nat /\ W32 # 0
    BY CodecAssumption
  <2>2. W32 - 1 \in Nat /\ W32 = (W32 - 1) + 1
    BY <2>1
  <2> QED BY <2>2
<1>2. PICK n : n = Numbers[w]
  OBVIOUS
<1>3. n \in Nat /\ n > 0 /\ Numbers[W32] = Radix * n /\ Radix \in Nat /\ Radix > 4
  BY <1>1, <1>2, NumbersFacts, Positive, CodecAssumption
<1>4. Radix * n >= 2
  BY <1>3
<1> QED BY <1>3, <1>4

(* tx.rs: a signature made for one input of a transaction is good for no   *)
(* other input and no other transaction, unless they differ in unlocking   *)
(* scripts only: sighash is injective on the rest, for transactions of any *)
(* number of inputs and outputs and scripts of any length.                 *)
THEOREM SignaturesAreBound == WireSpec => SignaturesBind
<1>1. ASSUME WireInv, [WireNext]_wireVars, handled' # handled, NEW s \in Requests,
             Last(handled')[1] = 2, s[1] = 2, NEW i \in 0 .. 1, NEW j \in 0 .. 1
      PROVE  sighash(Last(handled')[2], i) = sighash(s[2], j)
                 <=> i = j /\ SameButScripts(Last(handled')[2], s[2])
  <2>1. Last(handled')[2] \in Values(Transaction)
    BY <1>1, Accepted, RequestValues
  <2>2. s[2] \in Values(Transaction)
    BY <1>1, WireAssumption, RequestValues
  <2>3. i \in 0 .. Numbers[W32] - 1 /\ j \in 0 .. Numbers[W32] - 1
    BY Indices
  <2> QED BY <2>1, <2>2, <2>3, SighashBinds
<1>2. WireInv /\ [WireNext]_wireVars =>
          [handled' # handled =>
              LET r == Last(handled')
              IN  \A s \in Requests :
                      r[1] = 2 /\ s[1] = 2 =>
                          \A i, j \in 0 .. 1 :
                              sighash(r[2], i) = sighash(s[2], j)
                                  <=> i = j /\ SameButScripts(r[2], s[2])]_wireVars
  BY <1>1
<1> QED BY <1>2, WireInvariant, PTL DEF WireSpec, SignaturesBind
=============================================================================
