--------------------------- MODULE NetworkProofs ---------------------------
(***************************************************************************)
(* Machine-checked proofs about the network: any number of nodes, miners,  *)
(* restarts and broken connections, with gossip that loses, repeats,       *)
(* reorders and damages what is published.                                 *)
(***************************************************************************)
EXTENDS Network, DataLemmas

(* The blocks that are ever mined: a hash is the content of the headers it *)
(* stands for, a root that of some list of transactions.                   *)
Txn == Tx \cup ({Payout[m] : m \in Miners} \X Nat \X Nat)

Roots == {compute_merkle_root(txs) : txs \in Seq(Txn)}

Content == [height : Nat, root : Roots, mark : Marks \cup {0}]

HeaderSet == [prev : Seq(Content), height : Nat, root : Roots, mark : Marks \cup {0}]

BlockSet == [header : HeaderSet, txs : Seq(Txn)]

ContentOf(h) == [height |-> h.height, root |-> h.root, mark |-> h.mark]

(* The coinbase of b carries the height of its header.                     *)
Keyed(b) == b.txs # <<>> /\ Head(b.txs)[2] = b.header.height

KeyedBlocks == {b \in BlockSet : Keyed(b)}

LEMMA PrefixFacts ==
    ASSUME NEW S, NEW s \in Seq(S), NEW t \in Seq(S)
    PROVE  IsPrefix(s, t) <=> Len(s) <= Len(t) /\ \A i \in 1 .. Len(s) : s[i] = t[i]
<1>1. Len(s) \in Nat /\ Len(t) \in Nat
  OBVIOUS
<1>2. /\ DOMAIN SubSeq(s, 1, Len(s)) = 1 .. Len(s)
      /\ \A i \in 1 .. Len(s) : SubSeq(s, 1, Len(s))[i] = s[i]
      /\ SubSeq(s, 1, Len(s)) \in Seq(S)
  BY <1>1
<1>3. Len(s) <= Len(t) =>
          /\ SubSeq(t, 1, Len(s)) \in Seq(S)
          /\ DOMAIN SubSeq(t, 1, Len(s)) = 1 .. Len(s)
          /\ Len(SubSeq(t, 1, Len(s))) = Len(s)
          /\ \A i \in 1 .. Len(s) : SubSeq(t, 1, Len(s))[i] = t[i]
  BY <1>1
<1>4. Len(SubSeq(s, 1, Len(s))) = Len(s)
  BY <1>1
<1>5. ASSUME NEW u \in Seq(S), NEW v \in Seq(S), Len(u) = Len(v), \A i \in 1 .. Len(u) : u[i] = v[i]
      PROVE  u = v
  BY <1>5
<1> QED BY <1>1, <1>2, <1>3, <1>4, <1>5 DEF IsPrefix

(* A template takes transactions that clients send.                        *)
LEMMA PendingType ==
    ASSUME NEW n
    PROVE  Pending(n) \in Seq(Txn)
<1> DEFINE N == Len(FeeOrder)
    e(f, i) == IF i = 0 THEN <<>>
               ELSE IF FeeOrder[i] \in pool[n] THEN Append(f[i - 1], FeeOrder[i])
               ELSE f[i - 1]
    IsLeft(f, m) == f = [i \in 0 .. m |-> e(f, i)]
    Exists(m) == \E f : IsLeft(f, m)
    Good == {m \in Nat : Exists(m)}
<1>1. N \in Nat /\ \A i \in 1 .. N : FeeOrder[i] \in Txn
  BY NetworkAssumption DEF Txn
<1>2. Exists(0)
  <2>1. IsLeft([i \in 0 .. 0 |-> <<>>], 0)
    OBVIOUS
  <2> QED BY <2>1
<1>3. ASSUME NEW m \in Nat, Exists(m) PROVE Exists(m + 1)
  <2>1. PICK f : IsLeft(f, m)
    BY <1>3
  <2> DEFINE g == [i \in 0 .. m + 1 |-> IF i = m + 1 THEN e(f, i) ELSE f[i]]
  <2>2. ASSUME NEW i \in 0 .. m + 1 PROVE g[i] = e(g, i)
    <3>1. i # 0 => i - 1 \in 0 .. m /\ g[i - 1] = f[i - 1]
      OBVIOUS
    <3>2. e(g, i) = e(f, i)
      <4> HIDE DEF g
      <4> QED BY <3>1
    <3>3. i # m + 1 => f[i] = e(f, i)
      <4> SUFFICES ASSUME i # m + 1 PROVE f[i] = e(f, i)
        OBVIOUS
      <4>1. i \in 0 .. m
        OBVIOUS
      <4> QED BY <2>1, <4>1
    <3> HIDE DEF e
    <3> QED BY <3>2, <3>3
  <2> HIDE DEF e
  <2>3. g = [i \in 0 .. m + 1 |-> e(g, i)]
    BY <2>2
  <2> QED BY <2>3
<1>4. Exists(N)
  <2> HIDE DEF Exists
  <2>1. 0 \in Good /\ \A m \in Nat : m \in Good => m + 1 \in Good
    BY <1>2, <1>3
  <2> HIDE DEF Good
  <2>2. Nat \subseteq Good
    BY <2>1, SetInduction
  <2> QED BY <2>2, <1>1 DEF Good
<1> DEFINE p == CHOOSE f : f = [i \in 0 .. N |-> e(f, i)]
<1>5. p = [i \in 0 .. N |-> e(p, i)]
  <2> HIDE DEF e
  <2> QED BY <1>4
<1>6. Pending(n) = p[N]
  BY DEF Pending
<1> HIDE DEF p
<1> DEFINE Typed == {m \in Nat : m <= N => p[m] \in Seq(Txn)}
<1>7. 0 \in Typed
  <2>1. p[0] = <<>> /\ <<>> \in Seq(Txn)
    BY <1>1, <1>5
  <2> QED BY <2>1
<1>8. ASSUME NEW m \in Nat, m \in Typed PROVE m + 1 \in Typed
  <2> SUFFICES ASSUME m + 1 <= N PROVE p[m + 1] \in Seq(Txn)
    OBVIOUS
  <2>1. p[m] \in Seq(Txn) /\ FeeOrder[m + 1] \in Txn /\ m + 1 \in 0 .. N /\ m + 1 # 0 /\ (m + 1) - 1 = m
    BY <1>1, <1>8
  <2>2. p[m + 1] = e(p, m + 1)
    <3> HIDE DEF e
    <3> QED BY <1>5, <2>1
  <2>3. p[m + 1] = p[m] \/ p[m + 1] = Append(p[m], FeeOrder[m + 1])
    BY <2>1, <2>2
  <2>4. PICK acc, t : acc = p[m] /\ t = FeeOrder[m + 1]
    OBVIOUS
  <2>5. Append(acc, t) \in Seq(Txn)
    BY <2>1, <2>4
  <2> QED BY <2>1, <2>3, <2>4, <2>5
<1>9. Nat \subseteq Typed
  <2> HIDE DEF Typed
  <2> QED BY <1>7, <1>8, SetInduction
<1> QED BY <1>1, <1>6, <1>9

(* Whatever happens to a frame, what is decoded from it has the header of  *)
(* the block that was published and, when it is not empty, its coinbase.   *)
LEMMA DecodedFrame ==
    ASSUME NEW b \in KeyedBlocks, NEW raw \in Arriving(b), NEW d \in decode_block_frame(raw)
    PROVE  d \in BlockSet /\ d.header = b.header /\ (d.txs # <<>> => d \in KeyedBlocks)
<1>0. b \in BlockSet /\ Keyed(b) /\ b.header \in HeaderSet /\ b.txs \in Seq(Txn) /\ b.txs # <<>>
  BY DEF KeyedBlocks, Keyed, BlockSet
<1>1. PICK txs \in {b.txs, Front(b.txs), Append(b.txs, Last(b.txs))} :
          raw.checksum = encode_block([b EXCEPT !.txs = txs])
  <2>1. b = [b EXCEPT !.txs = b.txs]
    BY <1>0 DEF BlockSet
  <2> QED BY <2>1 DEF Arriving, pack_frame
<1>2. txs \in Seq(Txn) /\ (txs # <<>> => Head(txs) = Head(b.txs))
  <2>1. Front(b.txs) \in Seq(Txn) /\ Append(b.txs, Last(b.txs)) \in Seq(Txn)
    BY <1>0 DEF Front, Last
  <2>2. Head(Append(b.txs, Last(b.txs))) = Head(b.txs)
    BY <1>0
  <2>3. Front(b.txs) # <<>> => Head(Front(b.txs)) = Head(b.txs)
    BY <1>0 DEF Front
  <2> QED BY <1>0, <1>1, <2>1, <2>2, <2>3
<1>3. PICK c : c = [header |-> b.header, txs |-> txs]
  OBVIOUS
<1>4. [b EXCEPT !.txs = txs] = c
  BY <1>0, <1>3 DEF BlockSet
<1>5. PICK u \in unpack_frame(raw) : d = [header |-> u.payload[1].header, txs |-> Tail(u.payload)]
  BY DEF decode_block_frame
<1>6. u.payload = encode_block(c)
  <2>1. PICK y : y = SubSeq(raw.body, 1, raw.length)
    OBVIOUS
  <2>2. y = raw.checksum /\ u = [command |-> raw.command, payload |-> y]
    BY <2>1 DEF unpack_frame
  <2>3. u.payload = raw.checksum
    BY <2>2
  <2> QED BY <1>1, <1>4, <2>3
<1>7. PICK x : x = [header |-> c.header, count |-> Len(c.txs)]
  OBVIOUS
<1>8. u.payload = <<x>> \o txs
  BY <1>3, <1>6, <1>7 DEF encode_block
<1>9. (<<x>> \o txs)[1] = x /\ Tail(<<x>> \o txs) = txs
  BY <1>2
<1>10. d = c
  <2>1. x.header = b.header /\ c.header = b.header
    BY <1>3, <1>7
  <2>2. u.payload[1] = x /\ Tail(u.payload) = txs
    BY <1>8, <1>9
  <2>3. d = [header |-> x.header, txs |-> txs]
    BY <1>5, <2>2
  <2> QED BY <1>3, <2>1, <2>3
<1> QED BY <1>0, <1>2, <1>3, <1>10 DEF BlockSet, KeyedBlocks, Keyed
-----------------------------------------------------------------------------
(***************************************************************************)
(* merkle.rs: two lists with the same root agree as far as both go, and    *)
(* have the same elements: all that one can have in excess is what the     *)
(* padding of an odd layer repeats.                                        *)
(***************************************************************************)
Proper(x) == (\E S : x \in Seq(S)) /\ Len(x) >= 1

Agree(x, y) == (\A i \in DOMAIN x \cap DOMAIN y : x[i] = y[i]) /\ ToSet(x) = ToSet(y)

LEMMA Halves ==
    ASSUME NEW L \in Nat, L > 1, NEW H, H = (L + 1) \div 2
    PROVE  /\ H \in Nat /\ H >= 1 /\ H < L /\ (L = 2 * H \/ L = 2 * H - 1)
           /\ \A i \in 1 .. H : /\ 2 * i - 1 \in 1 .. L
                                /\ (2 * i <= L => 2 * i \in 1 .. L)
                                /\ (i < H => 2 * i <= L)
  OBVIOUS

LEMMA LayerFacts ==
    ASSUME NEW x, Proper(x), Len(x) > 1
    PROVE  \E L, H \in Nat :
               /\ L = Len(x) /\ DOMAIN x = 1 .. L /\ H >= 1 /\ H < L
               /\ \A i \in 1 .. H : 2 * i - 1 \in 1 .. L
               /\ \A k \in 1 .. L : \E i \in 1 .. H : k = 2 * i - 1 \/ k = 2 * i
               /\ NextLayer(x) = [i \in 1 .. H |->
                      Digest(x[2 * i - 1], x[IF 2 * i <= L THEN 2 * i ELSE 2 * i - 1])]
<1>1. PICK S : x \in Seq(S)
  BY DEF Proper
<1>2. PICK L, H : L = Len(x) /\ H = (L + 1) \div 2
  OBVIOUS
<1>3. L \in Nat /\ L > 1 /\ DOMAIN x = 1 .. L
  BY <1>1, <1>2
<1>4. /\ H \in Nat /\ H >= 1 /\ H < L /\ (L = 2 * H \/ L = 2 * H - 1)
      /\ \A i \in 1 .. H : 2 * i - 1 \in 1 .. L
  <2>1. L \in Nat /\ L > 1 /\ H = (L + 1) \div 2
    BY <1>2, <1>3
  <2> QED BY <2>1
<1>5. ASSUME NEW k \in 1 .. L PROVE \E i \in 1 .. H : k = 2 * i - 1 \/ k = 2 * i
  <2>1. PICK i : i = (k + 1) \div 2
    OBVIOUS
  <2>2. i \in Nat /\ (k = 2 * i - 1 \/ k = 2 * i)
    BY <1>3, <2>1
  <2>3. i \in 1 .. H
    BY <1>3, <1>4, <2>2
  <2> QED BY <2>2, <2>3
<1>6. NextLayer(x) = [i \in 1 .. H |->
          Digest(x[2 * i - 1], x[IF 2 * i <= L THEN 2 * i ELSE 2 * i - 1])]
  BY <1>2 DEF NextLayer
<1> QED BY <1>2, <1>3, <1>4, <1>5, <1>6

LEMMA NextProper ==
    ASSUME NEW x, Proper(x), Len(x) > 1
    PROVE  /\ Proper(NextLayer(x)) /\ Len(NextLayer(x)) < Len(x)
           /\ \A i \in 1 .. Len(NextLayer(x)) : NextLayer(x)[i][1] = "node"
<1>1. PICK L \in Nat, H \in Nat :
          /\ L = Len(x) /\ H >= 1 /\ H < L
          /\ NextLayer(x) = [i \in 1 .. H |->
                 Digest(x[2 * i - 1], x[IF 2 * i <= L THEN 2 * i ELSE 2 * i - 1])]
  BY LayerFacts
<1> DEFINE entry(i) == Digest(x[2 * i - 1], x[IF 2 * i <= L THEN 2 * i ELSE 2 * i - 1])
    T == {entry(i) : i \in 1 .. H}
<1>2. PICK n : n = NextLayer(x)
  OBVIOUS
<1>3. n = [i \in 1 .. H |-> entry(i)]
  BY <1>1, <1>2
<1>4. \A i \in 1 .. H : entry(i)[1] = "node"
  BY DEF Digest
<1> HIDE DEF entry
<1>5. n \in [1 .. H -> T]
  BY <1>3
<1> HIDE DEF T
<1>6. n \in Seq(T) /\ Len(n) = H
  BY <1>5
<1>7. Proper(n)
  BY <1>1, <1>6 DEF Proper
<1>8. \A i \in 1 .. H : n[i][1] = "node"
  BY <1>3, <1>4
<1>9. H < Len(x)
  BY <1>1
<1> QED BY <1>2, <1>6, <1>7, <1>8, <1>9

(* A layer has the elements that the digests over it were taken of.        *)
LEMMA LayerElements ==
    ASSUME NEW x, Proper(x), Len(x) > 1
    PROVE  ToSet(x) = UNION {{d[2], d[3]} : d \in ToSet(NextLayer(x))}
<1>1. PICK L \in Nat, H \in Nat :
          /\ L = Len(x) /\ DOMAIN x = 1 .. L
          /\ \A i \in 1 .. H : 2 * i - 1 \in 1 .. L
          /\ \A k \in 1 .. L : \E i \in 1 .. H : k = 2 * i - 1 \/ k = 2 * i
          /\ NextLayer(x) = [i \in 1 .. H |->
                 Digest(x[2 * i - 1], x[IF 2 * i <= L THEN 2 * i ELSE 2 * i - 1])]
  BY LayerFacts
<1> DEFINE right(i) == IF 2 * i <= L THEN 2 * i ELSE 2 * i - 1
<1>2. PICK n : n = NextLayer(x)
  OBVIOUS
<1>3. n = [i \in 1 .. H |-> Digest(x[2 * i - 1], x[right(i)])]
  BY <1>1, <1>2
<1>4. \A i \in 1 .. H : right(i) \in 1 .. L
  BY <1>1
<1>5. \A i \in 1 .. H : 2 * i \in 1 .. L => right(i) = 2 * i
  OBVIOUS
<1> HIDE DEF right
<1>6. DOMAIN n = 1 .. H /\ \A i \in 1 .. H : n[i][2] = x[2 * i - 1] /\ n[i][3] = x[right(i)]
  BY <1>3 DEF Digest
<1>7. ToSet(n) = {n[i] : i \in 1 .. H} /\ ToSet(x) = {x[k] : k \in 1 .. L}
  BY <1>1, <1>6 DEF ToSet
<1>8. ASSUME NEW k \in 1 .. L PROVE \E d \in ToSet(n) : x[k] \in {d[2], d[3]}
  <2>1. PICK i \in 1 .. H : k = 2 * i - 1 \/ k = 2 * i
    BY <1>1
  <2>2. n[i] \in ToSet(n)
    BY <1>7
  <2>3. x[k] = n[i][2] \/ x[k] = n[i][3]
    BY <1>5, <1>6, <2>1
  <2> QED BY <2>2, <2>3
<1>9. ASSUME NEW d \in ToSet(n) PROVE d[2] \in ToSet(x) /\ d[3] \in ToSet(x)
  <2>1. PICK i \in 1 .. H : d = n[i]
    BY <1>7
  <2> QED BY <1>1, <1>4, <1>6, <1>7, <2>1
<1>10. ToSet(x) \subseteq UNION {{d[2], d[3]} : d \in ToSet(n)}
  <2> SUFFICES ASSUME NEW t \in ToSet(x) PROVE \E d \in ToSet(n) : t \in {d[2], d[3]}
    OBVIOUS
  <2>1. PICK k \in 1 .. L : t = x[k]
    BY <1>7
  <2> QED BY <1>8, <2>1
<1>11. UNION {{d[2], d[3]} : d \in ToSet(n)} \subseteq ToSet(x)
  BY <1>9
<1> QED BY <1>2, <1>10, <1>11

LEMMA LayersAgree ==
    ASSUME NEW x, NEW y, Proper(x), Proper(y), Len(x) > 1, Len(y) > 1,
           Agree(NextLayer(x), NextLayer(y))
    PROVE  Agree(x, y)
<1>1. PICK L \in Nat, H \in Nat :
          /\ L = Len(x) /\ DOMAIN x = 1 .. L
          /\ \A k \in 1 .. L : \E i \in 1 .. H : k = 2 * i - 1 \/ k = 2 * i
          /\ NextLayer(x) = [i \in 1 .. H |->
                 Digest(x[2 * i - 1], x[IF 2 * i <= L THEN 2 * i ELSE 2 * i - 1])]
  BY LayerFacts
<1>2. PICK M \in Nat, K \in Nat :
          /\ M = Len(y) /\ DOMAIN y = 1 .. M
          /\ \A k \in 1 .. M : \E i \in 1 .. K : k = 2 * i - 1 \/ k = 2 * i
          /\ NextLayer(y) = [i \in 1 .. K |->
                 Digest(y[2 * i - 1], y[IF 2 * i <= M THEN 2 * i ELSE 2 * i - 1])]
  BY LayerFacts
<1> DEFINE right(i, n) == IF 2 * i <= n THEN 2 * i ELSE 2 * i - 1
<1>3. ASSUME NEW k \in 1 .. L, k \in 1 .. M PROVE x[k] = y[k]
  <2>1. PICK i \in 1 .. H : k = 2 * i - 1 \/ k = 2 * i
    BY <1>1
  <2>2. PICK h \in 1 .. K : k = 2 * h - 1 \/ k = 2 * h
    BY <1>2, <1>3
  <2>3. h = i
    BY <2>1, <2>2
  <2>4. k = 2 * i => right(i, L) = k /\ right(i, M) = k
    BY <1>3
  <2> HIDE DEF right
  <2>5. NextLayer(x)[i] = Digest(x[2 * i - 1], x[right(i, L)])
    BY <1>1 DEF right
  <2>6. NextLayer(y)[i] = Digest(y[2 * i - 1], y[right(i, M)])
    BY <1>2, <2>3 DEF right
  <2>7. i \in DOMAIN NextLayer(x) /\ i \in DOMAIN NextLayer(y)
    BY <1>1, <1>2, <2>3
  <2>8. Digest(x[2 * i - 1], x[right(i, L)]) = Digest(y[2 * i - 1], y[right(i, M)])
    BY <2>5, <2>6, <2>7 DEF Agree
  <2>9. x[2 * i - 1] = y[2 * i - 1] /\ x[right(i, L)] = y[right(i, M)]
    BY <2>8 DEF Digest
  <2> QED BY <2>1, <2>4, <2>9
<1>4. ToSet(x) = ToSet(y)
  <2>1. ToSet(NextLayer(x)) = ToSet(NextLayer(y))
    BY DEF Agree
  <2> QED BY <2>1, LayerElements
<1> QED BY <1>1, <1>2, <1>3, <1>4 DEF Agree

(* f is the list of the layers over f[0], d passes up to a single one.     *)
Layered(f, d) ==
    /\ d \in Nat /\ Len(f[d]) = 1
    /\ \A n \in 0 .. d : Proper(f[n])
    /\ \A n \in Nat : n < d => Len(f[n]) > 1 /\ f[n + 1] = NextLayer(f[n])

LEMMA MerkleLayers ==
    ASSUME NEW x, Proper(x)
    PROVE  \E f, d : Layered(f, d) /\ f[0] = x /\ compute_merkle_root(x) = f[d][1]
<1> DEFINE N == Len(x)
    pass(layer) == IF Len(layer) > 1 THEN NextLayer(layer) ELSE layer
    e(f, n) == IF n = 0 THEN x ELSE pass(f[n - 1])
    AreLayers(f, m) == f = [n \in 0 .. m |-> e(f, n)]
    Exists(m) == \E f : AreLayers(f, m)
    Good == {m \in Nat : Exists(m)}
<1>0. N \in Nat /\ N >= 1
  BY DEF Proper
<1> HIDE DEF pass
<1>1. Exists(0)
  <2>1. AreLayers([n \in 0 .. 0 |-> x], 0)
    OBVIOUS
  <2> QED BY <2>1
<1>2. ASSUME NEW m \in Nat, Exists(m) PROVE Exists(m + 1)
  <2>1. PICK f : AreLayers(f, m)
    BY <1>2
  <2> DEFINE g == [n \in 0 .. m + 1 |-> IF n = m + 1 THEN e(f, n) ELSE f[n]]
  <2>2. ASSUME NEW n \in 0 .. m + 1 PROVE g[n] = e(g, n)
    <3>1. n # 0 => n - 1 \in 0 .. m /\ g[n - 1] = f[n - 1]
      OBVIOUS
    <3>2. e(g, n) = e(f, n)
      <4> HIDE DEF g
      <4> QED BY <3>1
    <3>3. ASSUME n # m + 1 PROVE f[n] = e(f, n)
      <4>1. n \in 0 .. m
        BY <3>3
      <4> HIDE DEF e
      <4> QED BY <2>1, <4>1
    <3> HIDE DEF e
    <3> QED BY <3>2, <3>3
  <2> HIDE DEF e
  <2>3. g = [n \in 0 .. m + 1 |-> e(g, n)]
    BY <2>2
  <2> QED BY <2>3
<1>3. Exists(N)
  <2> HIDE DEF Exists
  <2>1. 0 \in Good /\ \A m \in Nat : m \in Good => m + 1 \in Good
    BY <1>1, <1>2
  <2> HIDE DEF Good
  <2>2. Nat \subseteq Good
    BY <2>1, SetInduction
  <2> QED BY <2>2, <1>0 DEF Good
<1> DEFINE f == CHOOSE h : h = [n \in 0 .. N |-> e(h, n)]
<1>4. f = [n \in 0 .. N |-> e(f, n)]
  <2> HIDE DEF e
  <2> QED BY <1>3
<1>5. compute_merkle_root(x) = f[N][1]
  BY DEF compute_merkle_root, pass
<1> HIDE DEF f
<1>6. f[0] = x /\ \A m \in Nat : m + 1 <= N => f[m + 1] = pass(f[m])
  <2>1. \A n \in 0 .. N : f[n] = e(f, n)
    <3> HIDE DEF e
    <3> QED BY <1>4
  <2>2. 0 \in 0 .. N /\ \A m \in Nat : m + 1 <= N => m + 1 \in 0 .. N /\ m + 1 # 0 /\ (m + 1) - 1 = m
    BY <1>0
  <2> QED BY <2>1, <2>2
<1> HIDE DEF e
<1> DEFINE size(m) == Len(f[m])
    Shape(m) == Proper(f[m]) /\ (size(m) = 1 \/ size(m) + m <= N)
<1>7. ASSUME NEW m, Proper(f[m]) PROVE size(m) \in Nat /\ size(m) >= 1
  BY <1>7 DEF Proper
<1>8. Shape(0)
  BY <1>0, <1>6
<1>9. ASSUME NEW m \in Nat, m + 1 <= N, Shape(m) PROVE Shape(m + 1)
  <2>1. f[m + 1] = pass(f[m]) /\ Proper(f[m]) /\ size(m) \in Nat /\ size(m) >= 1
    BY <1>6, <1>7, <1>9
  <2>2. CASE size(m) > 1
    <3>1. f[m + 1] = NextLayer(f[m])
      BY <2>1, <2>2 DEF pass
    <3>2. Proper(f[m + 1]) /\ size(m + 1) < size(m)
      BY <2>1, <2>2, <3>1, NextProper
    <3>3. size(m + 1) \in Nat
      BY <1>7, <3>2
    <3> HIDE DEF N, size
    <3>4. size(m) + m <= N
      BY <1>9, <2>1, <2>2
    <3>5. size(m + 1) + (m + 1) <= N
      BY <1>0, <2>1, <3>2, <3>3, <3>4
    <3> QED BY <3>2, <3>5
  <2>3. CASE size(m) = 1
    <3>1. f[m + 1] = f[m]
      BY <2>1, <2>3 DEF pass
    <3> QED BY <2>1, <2>3, <3>1
  <2> HIDE DEF size
  <2> QED BY <2>1, <2>2, <2>3
<1> HIDE DEF N
<1>10. \A m \in Nat : m <= N => Shape(m)
  <2> DEFINE Shrunk == {m \in Nat : m <= N => Shape(m)}
  <2> HIDE DEF Shape
  <2>1. 0 \in Shrunk
    BY <1>8
  <2>2. ASSUME NEW m \in Nat, m \in Shrunk PROVE m + 1 \in Shrunk
    BY <1>0, <1>9, <2>2
  <2>3. Nat \subseteq Shrunk
    <3> HIDE DEF Shrunk
    <3> QED BY <2>1, <2>2, SetInduction
  <2> QED BY <2>3
<1> HIDE DEF size
<1> DEFINE Single == {m \in Nat : m <= N /\ size(m) = 1}
<1>11. N \in Single
  <2>1. Proper(f[N]) /\ (size(N) = 1 \/ size(N) + N <= N)
    BY <1>0, <1>10
  <2>2. size(N) \in Nat /\ size(N) >= 1
    BY <1>7, <2>1
  <2>3. size(N) = 1
    BY <1>0, <2>1, <2>2
  <2> QED BY <1>0, <2>3
<1>12. PICK d \in Single : \A m \in Single : d <= m
  BY <1>11, LeastNatural
<1>13. d \in Nat /\ d <= N /\ size(d) = 1
  BY <1>12
<1>14. ASSUME NEW n \in Nat, n < d PROVE Len(f[n]) > 1 /\ f[n + 1] = NextLayer(f[n])
  <2>1. n <= N /\ n + 1 <= N /\ n \notin Single
    BY <1>0, <1>12, <1>13, <1>14
  <2>2. Proper(f[n]) /\ size(n) # 1
    BY <1>10, <2>1
  <2>3. size(n) > 1
    BY <1>7, <2>2
  <2> QED BY <1>6, <2>1, <2>3 DEF pass, size
<1>15. f[N] = f[d]
  <2> DEFINE Stays == {m \in Nat : d <= m /\ m <= N => f[m] = f[d]}
  <2>1. 0 \in Stays
    <3>1. d <= 0 => d = 0
      BY <1>13
    <3> QED BY <3>1
  <2>2. ASSUME NEW m \in Nat, m \in Stays PROVE m + 1 \in Stays
    <3> SUFFICES ASSUME d <= m + 1, m + 1 <= N PROVE f[m + 1] = f[d]
      OBVIOUS
    <3>1. CASE d = m + 1
      BY <3>1
    <3>2. CASE d <= m
      <4>1. f[m] = f[d] /\ f[m + 1] = pass(f[m])
        BY <1>0, <1>6, <2>2, <3>2
      <4> QED BY <1>13, <4>1 DEF pass, size
    <3> QED BY <1>13, <3>1, <3>2
  <2>3. Nat \subseteq Stays
    <3> HIDE DEF Stays
    <3> QED BY <2>1, <2>2, SetInduction
  <2> QED BY <1>0, <1>13, <2>3
<1>16. Layered(f, d)
  <2>1. \A n \in 0 .. d : Proper(f[n])
    BY <1>0, <1>10, <1>13
  <2> QED BY <1>13, <1>14, <2>1 DEF Layered, size
<1> QED BY <1>5, <1>6, <1>15, <1>16

(* The lower of two trees with the same top would have a leaf that is a    *)
(* node.                                                                   *)
LEMMA Descend ==
    ASSUME NEW f, NEW g, NEW p, NEW q, Layered(f, p), Layered(g, q), p <= q,
           Agree(f[p], g[q]), f[0][1][1] # "node"
    PROVE  Agree(f[0], g[0])
<1>1. p \in Nat /\ q \in Nat
  BY DEF Layered
<1> DEFINE Same == {j \in Nat : j <= p => Agree(f[p - j], g[q - j])}
<1>2. 0 \in Same
  BY <1>1
<1>3. ASSUME NEW j \in Nat, j \in Same PROVE j + 1 \in Same
  <2> SUFFICES ASSUME j + 1 <= p PROVE Agree(f[p - (j + 1)], g[q - (j + 1)])
    OBVIOUS
  <2>1. PICK m, n : m = p - (j + 1) /\ n = q - (j + 1)
    OBVIOUS
  <2>2. m \in Nat /\ n \in Nat /\ m < p /\ n < q /\ m + 1 = p - j /\ n + 1 = q - j
        /\ m \in 0 .. p /\ n \in 0 .. q
    BY <1>1, <2>1
  <2>3. Agree(f[m + 1], g[n + 1])
    <3>1. j <= p
      BY <1>1
    <3>2. Agree(f[p - j], g[q - j])
      BY <1>3, <3>1
    <3> QED BY <2>2, <3>2
  <2>4. /\ Proper(f[m]) /\ Len(f[m]) > 1 /\ f[m + 1] = NextLayer(f[m])
        /\ Proper(g[n]) /\ Len(g[n]) > 1 /\ g[n + 1] = NextLayer(g[n])
    BY <2>2 DEF Layered
  <2>5. Agree(f[m], g[n])
    BY <2>3, <2>4, LayersAgree
  <2> QED BY <2>1, <2>5
<1>4. p \in Same
  <2> HIDE DEF Same
  <2> QED BY <1>1, <1>2, <1>3, SetInduction
<1>5. Agree(f[0], g[q - p])
  BY <1>1, <1>4
<1>6. p = q
  <2> SUFFICES ASSUME p # q PROVE FALSE
    OBVIOUS
  <2>1. PICK n : n = (q - p) - 1
    OBVIOUS
  <2>2. n \in Nat /\ n < q /\ n + 1 = q - p /\ n \in 0 .. q
    BY <1>1, <2>1
  <2>3. Proper(g[n]) /\ Len(g[n]) > 1 /\ g[n + 1] = NextLayer(g[n])
    BY <2>2 DEF Layered
  <2>4. PICK u, v : u = f[0] /\ v = NextLayer(g[n])
    OBVIOUS
  <2>5. Proper(v) /\ \A i \in 1 .. Len(v) : v[i][1] = "node"
    BY <2>3, <2>4, NextProper
  <2>6. Proper(u)
    <3>1. 0 \in 0 .. p
      BY <1>1
    <3> QED BY <2>4, <3>1 DEF Layered
  <2>7. 1 \in DOMAIN u /\ 1 \in DOMAIN v /\ 1 \in 1 .. Len(v)
    BY <2>5, <2>6 DEF Proper
  <2>8. u[1] = v[1]
    <3>1. Agree(u, v)
      BY <1>5, <2>2, <2>3, <2>4
    <3> QED BY <2>7, <3>1 DEF Agree
  <2> QED BY <2>4, <2>5, <2>7, <2>8
<1> QED BY <1>1, <1>5, <1>6

LEMMA MerkleRootBinds ==
    ASSUME NEW x, NEW y, Proper(x), Proper(y), x[1][1] # "node", y[1][1] # "node",
           compute_merkle_root(x) = compute_merkle_root(y)
    PROVE  Agree(x, y)
<1>1. PICK f, p : Layered(f, p) /\ f[0] = x /\ compute_merkle_root(x) = f[p][1]
  BY MerkleLayers
<1>2. PICK g, q : Layered(g, q) /\ g[0] = y /\ compute_merkle_root(y) = g[q][1]
  BY MerkleLayers
<1>3. f[p] = g[q]
  <2>1. PICK u, v : u = f[p] /\ v = g[q]
    OBVIOUS
  <2>2. Proper(u) /\ Proper(v) /\ Len(u) = 1 /\ Len(v) = 1 /\ u[1] = v[1]
    <3>1. p \in 0 .. p /\ q \in 0 .. q
      BY <1>1, <1>2 DEF Layered
    <3>2. Proper(f[p]) /\ Len(f[p]) = 1
      BY <1>1, <3>1 DEF Layered
    <3>3. Proper(g[q]) /\ Len(g[q]) = 1
      BY <1>2, <3>1 DEF Layered
    <3> QED BY <1>1, <1>2, <2>1, <3>2, <3>3
  <2>3. PICK S, T : u \in Seq(S) /\ v \in Seq(T)
    BY <2>2 DEF Proper
  <2>4. u = <<u[1]>> /\ v = <<v[1]>>
    BY <2>2, <2>3
  <2> QED BY <2>1, <2>2, <2>4
<1>4. p \in Nat /\ q \in Nat /\ Agree(f[p], g[q]) /\ Agree(g[q], f[p])
  BY <1>1, <1>2, <1>3 DEF Layered, Agree
<1>5. CASE p <= q
  BY <1>1, <1>2, <1>4, <1>5, Descend
<1>6. CASE q <= p
  <2>1. Agree(y, x)
    BY <1>1, <1>2, <1>4, <1>6, Descend
  <2> QED BY <2>1 DEF Agree
<1> QED BY <1>4, <1>5, <1>6
-----------------------------------------------------------------------------
(***************************************************************************)
(* CoinbasesDiffer needs that every block on its way carries its height in *)
(* its coinbase. FollowersTrail needs that a hash stands for all headers   *)
(* below it (Linked), and that whatever is gossiped stands in the chain of *)
(* some node that miners submit to (Mined).                                *)
(***************************************************************************)
Loops == [at : {"asking", "mining", "waiting"}, extra_nonce : Nat,
          block : KeyedBlocks \cup {NoBlock}]

NetTyped ==
    /\ chain \in [Nodes -> Seq(KeyedBlocks)]
    /\ tasks \in [Nodes -> SUBSET KeyedBlocks]
    /\ sent \subseteq KeyedBlocks
    /\ calls \subseteq Miners \X KeyedBlocks
    /\ miner \in [Miners -> Loops]
    /\ \A m \in Miners : miner[m].at # "asking" => miner[m].block \in KeyedBlocks

Linked(n) ==
    \A i \in 1 .. Len(chain[n]) :
        /\ chain[n][i].header.height = i
        /\ chain[n][i].header.prev = [j \in 1 .. i - 1 |-> ContentOf(chain[n][j].header)]

Mined(h) ==
    \E p \in Producers : h.height \in 1 .. Len(chain[p]) /\ chain[p][h.height].header = h

Trails(n, p) ==
    /\ Len(chain[n]) <= Len(chain[p])
    /\ \A i \in 1 .. Len(chain[n]) : chain[n][i].header = chain[p][i].header

NetInv ==
    /\ NetTyped
    /\ \A n \in Nodes : Linked(n)
    /\ \A n \in Nodes : \A b \in tasks[n] : Mined(b.header)
    /\ \A b \in sent : Mined(b.header)
    /\ \A n \in Nodes : \E p \in Producers : Trails(n, p)

LEMMA BlockFacts ==
    ASSUME NEW b \in KeyedBlocks
    PROVE  /\ b.header \in HeaderSet /\ b.header.height \in Nat /\ ContentOf(b.header) \in Content
           /\ b.header.prev \in Seq(Content)
           /\ b.txs \in Seq(Txn) /\ b.txs # <<>> /\ Head(b.txs)[2] = b.header.height
  BY DEF KeyedBlocks, BlockSet, HeaderSet, Content, ContentOf, Keyed

LEMMA ProducersAreNodes == Producers \subseteq Nodes /\ Producers # {}
  BY NetworkAssumption DEF Producers

(* The hash of the tip is the content of every header of the chain.        *)
LEMMA TipContent ==
    ASSUME NetTyped, NEW n \in Nodes, Linked(n)
    PROVE  tip(n) = [j \in 1 .. Len(chain[n]) |-> ContentOf(chain[n][j].header)]
<1>1. PICK c, L : c = chain[n] /\ L = Len(chain[n])
  OBVIOUS
<1>2. c \in Seq(KeyedBlocks) /\ L = Len(c) /\ L \in Nat
  BY <1>1 DEF NetTyped
<1>3. \A j \in 1 .. L : c[j] \in KeyedBlocks /\ ContentOf(c[j].header) \in Content
  BY <1>2, BlockFacts
<1>4. CASE L = 0
  <2>1. c = <<>>
    <3>1. ASSUME NEW S, NEW r \in Seq(S), Len(r) = 0 PROVE r = <<>>
      BY <3>1
    <3> QED BY <1>2, <1>4, <3>1
  <2>2. [j \in 1 .. L |-> ContentOf(c[j].header)] = <<>>
    BY <1>4
  <2> QED BY <1>1, <2>1, <2>2 DEF tip
<1>5. CASE L # 0
  <2>1. L \in 1 .. L /\ c # <<>>
    BY <1>2, <1>5
  <2>2. tip(n) = Append(c[L].header.prev, ContentOf(c[L].header))
    BY <1>1, <2>1 DEF tip, block_hash, Last, ContentOf
  <2>3. c[L].header.prev = [j \in 1 .. L - 1 |-> ContentOf(c[j].header)]
    BY <1>1, <2>1 DEF Linked
  <2>4. PICK s : s = [j \in 1 .. L - 1 |-> ContentOf(c[j].header)]
    OBVIOUS
  <2>5. s \in Seq(Content) /\ Len(s) = L - 1
    <3>1. L - 1 \in Nat /\ \A j \in 1 .. L - 1 : j \in 1 .. L
      BY <1>2, <1>5
    <3> QED BY <1>3, <2>4, <3>1
  <2>6. PICK x : x = ContentOf(c[L].header)
    OBVIOUS
  <2>7. Append(s, x) = [j \in 1 .. L |-> ContentOf(c[j].header)]
    <3>1. /\ DOMAIN Append(s, x) = 1 .. L
          /\ Append(s, x)[L] = x
          /\ \A j \in 1 .. L - 1 : Append(s, x)[j] = s[j]
      BY <1>2, <1>5, <2>5
    <3>2. \A j \in 1 .. L : j = L \/ j \in 1 .. L - 1
      BY <1>2
    <3>3. \A j \in 1 .. L : Append(s, x)[j] = ContentOf(c[j].header)
      BY <2>4, <2>6, <3>1, <3>2
    <3>4. Append(s, x) \in Seq(Content)
      BY <1>3, <2>1, <2>5, <2>6
    <3>5. Append(s, x) = [j \in 1 .. L |-> Append(s, x)[j]]
      <4>1. ASSUME NEW S, NEW z \in Seq(S) PROVE z = [j \in DOMAIN z |-> z[j]]
        OBVIOUS
      <4> QED BY <3>1, <3>4, <4>1
    <3> QED BY <3>3, <3>5
  <2> QED BY <1>1, <2>2, <2>3, <2>4, <2>6, <2>7
<1> QED BY <1>2, <1>4, <1>5

(* A header and the hash below it determine the header of that content.    *)
LEMMA SameContent ==
    ASSUME NEW g \in HeaderSet, NEW h \in HeaderSet, ContentOf(g) = ContentOf(h), g.prev = h.prev
    PROVE  g = h
<1>1. g.height = h.height /\ g.root = h.root /\ g.mark = h.mark
  BY DEF ContentOf
<1> QED BY <1>1 DEF HeaderSet

(* A block built on the tip of n that stands in the chain of p: all that   *)
(* is below it is the same in both.                                        *)
LEMMA SameBelow ==
    ASSUME NetTyped, NEW n \in Nodes, NEW p \in Nodes, Linked(n), Linked(p),
           Len(chain[n]) < Len(chain[p]), chain[p][Len(chain[n]) + 1].header.prev = tip(n)
    PROVE  \A i \in 1 .. Len(chain[n]) : chain[n][i].header = chain[p][i].header
<1>1. PICK c, d, L : c = chain[n] /\ d = chain[p] /\ L = Len(chain[n])
  OBVIOUS
<1>2. /\ c \in Seq(KeyedBlocks) /\ d \in Seq(KeyedBlocks) /\ L = Len(c) /\ L \in Nat
      /\ Len(d) \in Nat /\ L < Len(d)
  BY <1>1 DEF NetTyped
<1>3. tip(n) = [j \in 1 .. L |-> ContentOf(c[j].header)]
  BY <1>1, TipContent
<1>4. L + 1 \in 1 .. Len(d) /\ (L + 1) - 1 = L
  BY <1>2
<1>5. d[L + 1].header.prev = [j \in 1 .. L |-> ContentOf(d[j].header)]
  BY <1>1, <1>4 DEF Linked
<1>6. ASSUME NEW j \in 1 .. L PROVE ContentOf(c[j].header) = ContentOf(d[j].header)
  <2>1. [i \in 1 .. L |-> ContentOf(c[i].header)] = [i \in 1 .. L |-> ContentOf(d[i].header)]
    BY <1>1, <1>3, <1>5
  <2>2. [i \in 1 .. L |-> ContentOf(c[i].header)][j] = [i \in 1 .. L |-> ContentOf(d[i].header)][j]
    BY <2>1
  <2> QED BY <2>2
<1>7. ASSUME NEW i \in 1 .. L PROVE c[i].header = d[i].header
  <2>1. i \in 1 .. Len(d) /\ \A j \in 1 .. i - 1 : j \in 1 .. L
    BY <1>2
  <2>2. c[i].header \in HeaderSet /\ d[i].header \in HeaderSet
    BY <1>2, <2>1, BlockFacts
  <2>3. /\ c[i].header.prev = [j \in 1 .. i - 1 |-> ContentOf(c[j].header)]
        /\ d[i].header.prev = [j \in 1 .. i - 1 |-> ContentOf(d[j].header)]
    <3>1. i \in 1 .. Len(chain[n]) /\ i \in 1 .. Len(chain[p])
      BY <1>1, <2>1
    <3>2. chain[n][i].header.prev = [j \in 1 .. i - 1 |-> ContentOf(chain[n][j].header)]
      BY <3>1 DEF Linked
    <3>3. chain[p][i].header.prev = [j \in 1 .. i - 1 |-> ContentOf(chain[p][j].header)]
      BY <3>1 DEF Linked
    <3> QED BY <1>1, <3>2, <3>3
  <2>4. c[i].header.prev = d[i].header.prev
    BY <1>6, <2>1, <2>3
  <2> QED BY <1>6, <2>2, <2>4, SameContent
<1> QED BY <1>1, <1>7

(* A commit, by a submission or by the listener.                           *)
LEMMA CommitKeeps ==
    ASSUME NetInv, NEW n \in Nodes, NEW b \in KeyedBlocks, ExtendsTip(n, b.header), Commit(n, b),
           n \in Producers \/ Mined(b.header)
    PROVE  /\ chain' \in [Nodes -> Seq(KeyedBlocks)]
           /\ \A k \in Nodes : Linked(k)'
           /\ \A h : Mined(h) => Mined(h)'
           /\ n \in Producers => Mined(b.header)'
           /\ \A k \in Nodes : \E p \in Producers : Trails(k, p)'
<1>1. PICK c, L : c = chain[n] /\ L = Len(chain[n])
  OBVIOUS
<1>2. c \in Seq(KeyedBlocks) /\ L = Len(c) /\ L \in Nat /\ chain \in [Nodes -> Seq(KeyedBlocks)]
  BY <1>1 DEF NetInv, NetTyped
<1>3. chain'[n] = Append(c, b) /\ \A k \in Nodes \ {n} : chain'[k] = chain[k]
  BY <1>1, <1>2 DEF Commit
<1>4. /\ Append(c, b) \in Seq(KeyedBlocks) /\ Len(Append(c, b)) = L + 1
      /\ \A i \in 1 .. L : Append(c, b)[i] = c[i]
      /\ Append(c, b)[L + 1] = b
  BY <1>2
<1>5. chain' \in [Nodes -> Seq(KeyedBlocks)]
  BY <1>1, <1>2, <1>4 DEF Commit
<1>6. \A k \in Nodes : /\ Len(chain[k]) \in Nat /\ Len(chain'[k]) \in Nat
                       /\ Len(chain[k]) <= Len(chain'[k])
                       /\ \A i \in 1 .. Len(chain[k]) : chain'[k][i] = chain[k][i]
  <2> SUFFICES ASSUME NEW k \in Nodes
               PROVE  /\ Len(chain[k]) \in Nat /\ Len(chain'[k]) \in Nat
                      /\ Len(chain[k]) <= Len(chain'[k])
                      /\ \A i \in 1 .. Len(chain[k]) : chain'[k][i] = chain[k][i]
    OBVIOUS
  <2>1. CASE k = n
    BY <1>1, <1>2, <1>3, <1>4, <2>1
  <2>2. CASE k # n
    <3>1. chain[k] \in Seq(KeyedBlocks) /\ chain'[k] = chain[k]
      BY <1>2, <1>3, <2>2
    <3> QED BY <3>1
  <2> QED BY <2>1, <2>2
<1>7. \A k \in Nodes : Linked(k)
  BY DEF NetInv
<1>8. b.header.prev = [j \in 1 .. L |-> ContentOf(c[j].header)] /\ b.header.height = L + 1
  BY <1>1, <1>7, TipContent DEF ExtendsTip, NetInv
<1>9. ASSUME NEW k \in Nodes PROVE Linked(k)'
  <2>1. CASE k # n
    BY <1>3, <1>7, <2>1 DEF Linked
  <2>2. CASE k = n
    <3> SUFFICES Linked(n)'
      BY <2>2
    <3> SUFFICES ASSUME NEW i \in 1 .. Len(chain'[n])
                 PROVE  /\ chain'[n][i].header.height = i
                        /\ chain'[n][i].header.prev =
                               [j \in 1 .. i - 1 |-> ContentOf(chain'[n][j].header)]
      BY DEF Linked, ContentOf
    <3>0. i \in 1 .. L + 1
      BY <1>3, <1>4
    <3>1. \A j \in 1 .. i - 1 : j \in 1 .. L /\ chain'[n][j] = c[j]
      BY <1>2, <1>3, <1>4, <3>0
    <3>2. [j \in 1 .. i - 1 |-> ContentOf(chain'[n][j].header)] =
          [j \in 1 .. i - 1 |-> ContentOf(c[j].header)]
      BY <3>1
    <3>3. CASE i \in 1 .. L
      <4>1. chain'[n][i] = chain[n][i] /\ i \in 1 .. Len(chain[n])
        BY <1>1, <1>3, <1>4, <3>3
      <4>2. /\ chain[n][i].header.height = i
            /\ chain[n][i].header.prev = [j \in 1 .. i - 1 |-> ContentOf(chain[n][j].header)]
        BY <1>7, <4>1 DEF Linked
      <4> QED BY <1>1, <3>2, <4>1, <4>2
    <3>4. CASE i = L + 1
      <4>1. chain'[n][i] = b /\ i - 1 = L
        BY <1>2, <1>3, <1>4, <3>4
      <4> QED BY <1>8, <3>2, <3>4, <4>1
    <3> QED BY <1>2, <3>0, <3>3, <3>4
  <2> QED BY <2>1, <2>2
<1>10. ASSUME NEW h, Mined(h) PROVE Mined(h)'
  <2>1. PICK p \in Producers : h.height \in 1 .. Len(chain[p]) /\ chain[p][h.height].header = h
    BY <1>10 DEF Mined
  <2>2. p \in Nodes
    BY ProducersAreNodes
  <2>3. h.height \in 1 .. Len(chain'[p]) /\ chain'[p][h.height].header = h
    BY <1>6, <2>1, <2>2
  <2>4. Producers' = Producers
    BY DEF Producers
  <2> QED BY <2>3, <2>4 DEF Mined
<1>11. n \in Producers => Mined(b.header)'
  <2>1. Producers' = Producers
    BY DEF Producers
  <2>2. L + 1 \in 1 .. Len(chain'[n]) /\ chain'[n][L + 1].header = b.header
    BY <1>2, <1>3, <1>4
  <2> QED BY <1>8, <2>1, <2>2 DEF Mined
<1>12. ASSUME NEW k \in Nodes PROVE \E p \in Producers : Trails(k, p)'
  <2>1. CASE k # n
    <3>1. PICK p \in Producers : Trails(k, p)
      BY DEF NetInv
    <3>2. p \in Nodes /\ chain'[k] = chain[k]
      BY <1>3, <2>1, ProducersAreNodes
    <3>3. Trails(k, p)'
      BY <1>6, <3>1, <3>2 DEF Trails
    <3> QED BY <3>3
  <2>2. CASE k = n /\ n \in Producers
    <3>1. Trails(n, n)'
      BY <1>6 DEF Trails
    <3> QED BY <2>2, <3>1
  <2>3. CASE k = n /\ Mined(b.header)
    <3>1. PICK p \in Producers :
              b.header.height \in 1 .. Len(chain[p]) /\ chain[p][b.header.height].header = b.header
      BY <2>3 DEF Mined
    <3>2. p \in Nodes /\ L + 1 \in 1 .. Len(chain[p]) /\ chain[p][L + 1].header = b.header
      BY <1>8, <3>1, ProducersAreNodes
    <3>3. L < Len(chain[p]) /\ Len(chain[p]) \in Nat
      BY <1>2, <1>6, <3>2
    <3>4. p # n /\ chain'[p] = chain[p]
      BY <1>1, <1>2, <1>3, <3>2, <3>3
    <3>5. \A i \in 1 .. L : c[i].header = chain[p][i].header
      <4>1. chain[p][Len(chain[n]) + 1].header.prev = tip(n)
        BY <1>1, <3>2 DEF ExtendsTip
      <4> QED BY <1>1, <1>7, <3>2, <3>3, <4>1, SameBelow DEF NetInv
    <3>6. ASSUME NEW i \in 1 .. L + 1 PROVE chain'[n][i].header = chain'[p][i].header
      <4>1. i \in 1 .. L \/ i = L + 1
        BY <1>2
      <4> QED BY <1>3, <1>4, <3>2, <3>4, <3>5, <4>1
    <3>7. Len(chain'[n]) = L + 1 /\ L + 1 <= Len(chain'[p])
      BY <1>2, <1>3, <1>4, <3>3, <3>4
    <3>8. Trails(n, p)'
      BY <3>6, <3>7 DEF Trails
    <3> QED BY <2>3, <3>8
  <2> QED BY <2>1, <2>2, <2>3
<1> QED BY <1>5, <1>9, <1>10, <1>11, <1>12

(* A step that commits nothing and gossips nothing new.                    *)
LEMMA QuietStep ==
    ASSUME NetInv, UNCHANGED chain, NetTyped',
           \A n \in Nodes : tasks'[n] \subseteq tasks[n],
           \A b \in sent' : b \in sent \/ \E n \in Nodes : b \in tasks[n]
    PROVE  NetInv'
<1>1. \A h : Mined(h)' <=> Mined(h)
  BY DEF Mined, Producers
<1>2. \A n \in Nodes : Linked(n)'
  BY DEF NetInv, Linked
<1>3. \A n \in Nodes : \E p \in Producers : Trails(n, p)'
  BY DEF NetInv, Trails
<1>4. Producers' = Producers
  BY DEF Producers
<1> QED BY <1>1, <1>2, <1>3, <1>4 DEF NetInv

LEMMA AskingType ==
    ASSUME NEW e \in Nat
    PROVE  Asking(e) \in Loops /\ Asking(e).at = "asking"
  BY DEF Asking, Loops

(* A miner goes back to asking.                                            *)
LEMMA AskingAgain ==
    ASSUME NetTyped, NEW m \in Miners, NEW e \in Nat,
           miner' = [miner EXCEPT ![m] = Asking(e)]
    PROVE  /\ miner' \in [Miners -> Loops]
           /\ \A k \in Miners : miner'[k].at # "asking" => miner'[k].block \in KeyedBlocks
<1>1. miner \in [Miners -> Loops]
  BY DEF NetTyped
<1>2. Asking(e) \in Loops /\ Asking(e).at = "asking"
  BY AskingType
<1> QED BY <1>1, <1>2 DEF NetTyped

LEMMA FetchKeeps ==
    ASSUME NetInv, NEW m \in Miners, FetchTemplate(m)
    PROVE  NetInv'
<1> DEFINE n == Home[m]
    height == Len(chain[n]) + 1
    extra == (miner[m].extra_nonce + 1) % ExtraSpace
    coinbase == build_coinbase_transaction(height, Payout[m], extra)
    txs(body) == <<coinbase>> \o body
    h(body) == [prev |-> tip(n), height |-> height, mark |-> 0,
                root |-> compute_merkle_root(txs(body))]
    b(body) == [header |-> h(body), txs |-> txs(body)]
    loop(body) == [at |-> "mining", extra_nonce |-> extra, block |-> b(body)]
<1>0. NetTyped /\ miner \in [Miners -> Loops] /\ n \in Nodes /\ chain[n] \in Seq(KeyedBlocks)
      /\ Linked(n)
  BY NetworkAssumption DEF NetInv, NetTyped
<1>1. PICK body \in IF m \in Foreign THEN Bodies ELSE {Pending(n)} :
          miner' = [miner EXCEPT ![m] = loop(body)]
  BY DEF FetchTemplate
<1>2. UNCHANGED <<chain, tasks, sent, calls>>
  BY DEF FetchTemplate
<1>3. body \in Seq(Txn)
  <2>1. CASE m \in Foreign
    <3>1. body \in Seq(Tx) /\ Tx \subseteq Txn
      BY <1>1, <2>1, NetworkAssumption DEF Txn
    <3> QED BY <3>1
  <2>2. CASE m \notin Foreign
    BY <1>1, <2>2, PendingType
  <2> QED BY <2>1, <2>2
<1>4. height \in Nat /\ extra \in Nat
  BY <1>0, NetworkAssumption DEF Loops
<1>5. coinbase \in Txn /\ coinbase[2] = height
  BY <1>4 DEF Txn, build_coinbase_transaction
<1>6. txs(body) \in Seq(Txn) /\ txs(body) # <<>> /\ Head(txs(body)) = coinbase
  <2>1. PICK x : x = coinbase
    OBVIOUS
  <2>2. <<x>> \o body \in Seq(Txn) /\ <<x>> \o body # <<>> /\ Head(<<x>> \o body) = x
    BY <1>3, <1>5, <2>1
  <2> QED BY <2>1, <2>2
<1>7. tip(n) \in Seq(Content)
  <2>1. PICK c, L : c = chain[n] /\ L = Len(chain[n])
    OBVIOUS
  <2>2. c \in Seq(KeyedBlocks) /\ L = Len(c) /\ L \in Nat
    BY <1>0, <2>1
  <2>3. \A j \in 1 .. L : ContentOf(c[j].header) \in Content
    BY <2>2, BlockFacts
  <2>4. tip(n) = [j \in 1 .. L |-> ContentOf(c[j].header)]
    BY <1>0, <2>1, TipContent
  <2> QED BY <2>2, <2>3, <2>4
<1>8. compute_merkle_root(txs(body)) \in Roots
  BY <1>6 DEF Roots
<1> HIDE DEF txs, coinbase, extra, height
<1>9. h(body) \in HeaderSet /\ h(body).height = height
  BY <1>4, <1>7, <1>8 DEF HeaderSet
<1> HIDE DEF h
<1>10. b(body) \in KeyedBlocks
  BY <1>5, <1>6, <1>9 DEF KeyedBlocks, BlockSet, Keyed
<1> HIDE DEF b
<1>11. loop(body) \in Loops /\ loop(body).block \in KeyedBlocks
  BY <1>4, <1>10 DEF Loops
<1> HIDE DEF loop
<1>12. NetTyped'
  BY <1>0, <1>1, <1>2, <1>11 DEF NetTyped
<1> QED BY <1>2, <1>12, QuietStep

LEMMA SubmitKeeps ==
    ASSUME NetInv, NEW m \in Miners, Submit(m)
    PROVE  NetInv'
<1>1. PICK mark \in Marks :
          LET b == [miner[m].block EXCEPT !.header.mark = mark]
          IN  /\ miner' = [miner EXCEPT ![m].at = "waiting", ![m].block = b]
              /\ calls' = calls \cup {<<m, b>>}
  BY DEF Submit
<1>2. PICK a, b : a = miner[m].block /\ b = [miner[m].block EXCEPT !.header.mark = mark]
  OBVIOUS
<1>3. NetTyped /\ miner \in [Miners -> Loops] /\ a \in KeyedBlocks
  BY <1>2 DEF Submit, NetInv, NetTyped
<1>4. a \in BlockSet /\ a.header \in HeaderSet
  BY <1>3 DEF KeyedBlocks, BlockSet
<1>5. [a.header EXCEPT !.mark = mark] \in HeaderSet
      /\ [a.header EXCEPT !.mark = mark].height = a.header.height
  BY <1>4 DEF HeaderSet
<1>6. b = [a EXCEPT !.header = [a.header EXCEPT !.mark = mark]]
  BY <1>2, <1>4 DEF BlockSet
<1>7. b \in KeyedBlocks
  BY <1>3, <1>4, <1>5, <1>6 DEF KeyedBlocks, BlockSet, Keyed
<1>8. PICK loop : loop = [miner[m] EXCEPT !.at = "waiting", !.block = b]
  OBVIOUS
<1>9. loop \in Loops /\ loop.block \in KeyedBlocks
  BY <1>3, <1>7, <1>8 DEF Loops
<1>10. miner' = [miner EXCEPT ![m] = loop] /\ calls' = calls \cup {<<m, b>>}
  BY <1>1, <1>2, <1>3, <1>8
<1>11. UNCHANGED <<chain, tasks, sent>>
  BY DEF Submit
<1>12. NetTyped'
  BY <1>3, <1>7, <1>9, <1>10, <1>11 DEF NetTyped
<1> QED BY <1>11, <1>12, QuietStep

LEMMA AnswerType ==
    ASSUME NetTyped, NEW m \in Miners, NEW b, Answered(m, b)
    PROVE  /\ miner' \in [Miners -> Loops]
           /\ \A k \in Miners : miner'[k].at # "asking" => miner'[k].block \in KeyedBlocks
<1>1. miner[m].extra_nonce \in Nat
  BY DEF NetTyped, Loops
<1>2. miner' = miner \/ miner' = [miner EXCEPT ![m] = Asking(miner[m].extra_nonce)]
  BY DEF Answered, NetTyped
<1>3. CASE miner' = miner
  BY <1>3 DEF NetTyped
<1> QED BY <1>1, <1>2, <1>3, AskingAgain

LEMMA ServeKeeps ==
    ASSUME NetInv, NEW m \in Miners, Serve(m)
    PROVE  NetInv'
<1>1. PICK c \in calls : c[1] = m /\ (Accept(m, c[2]) \/ Reject(m, c[2]))
  BY DEF Serve
<1>2. PICK b : b = c[2]
  OBVIOUS
<1>3. NetTyped /\ b \in KeyedBlocks /\ Home[m] \in Nodes /\ Home[m] \in Producers
  BY <1>2, NetworkAssumption DEF NetInv, NetTyped, Producers
<1>4. CASE Reject(m, b)
  <2>1. NetTyped'
    BY <1>3, <1>4, AnswerType DEF Reject, NetTyped
  <2> QED BY <1>4, <2>1, QuietStep DEF Reject
<1>5. CASE Accept(m, b)
  <2> DEFINE n == Home[m]
  <2>1. /\ chain' \in [Nodes -> Seq(KeyedBlocks)]
        /\ \A k \in Nodes : Linked(k)'
        /\ \A h : Mined(h) => Mined(h)'
        /\ Mined(b.header)'
        /\ \A k \in Nodes : \E p \in Producers : Trails(k, p)'
    BY <1>3, <1>5, CommitKeeps DEF Accept, Acceptable
  <2>2. /\ miner' \in [Miners -> Loops]
        /\ \A k \in Miners : miner'[k].at # "asking" => miner'[k].block \in KeyedBlocks
    BY <1>3, <1>5, AnswerType DEF Accept
  <2>3. /\ tasks' = [tasks EXCEPT ![n] = tasks[n] \cup {b}] /\ sent' = sent
        /\ calls' \subseteq calls
    BY <1>5 DEF Accept
  <2>4. tasks \in [Nodes -> SUBSET KeyedBlocks]
    BY <1>3 DEF NetTyped
  <2>5. tasks' \in [Nodes -> SUBSET KeyedBlocks]
    BY <1>3, <2>3, <2>4
  <2>6. NetTyped'
    BY <1>3, <2>1, <2>2, <2>3, <2>5 DEF NetTyped
  <2>7. ASSUME NEW k \in Nodes, NEW a \in tasks'[k] PROVE Mined(a.header)'
    <3>1. a \in tasks[k] \/ a = b
      BY <1>3, <2>3, <2>4
    <3> QED BY <2>1, <3>1 DEF NetInv
  <2>8. \A a \in sent' : Mined(a.header)'
    BY <2>1, <2>3 DEF NetInv
  <2>9. Producers' = Producers
    BY DEF Producers
  <2> QED BY <2>1, <2>6, <2>7, <2>8, <2>9 DEF NetInv
<1> QED BY <1>1, <1>2, <1>4, <1>5

LEMMA ReceiveKeeps ==
    ASSUME NetInv, NEW n \in Nodes, Receive(n)
    PROVE  NetInv'
<1>1. PICK a \in sent : \E raw \in Arriving(a) : \E b \in decode_block_frame(raw) :
          Acceptable(n, b) /\ Commit(n, b)
  BY DEF Receive
<1>2. PICK raw \in Arriving(a) : \E b \in decode_block_frame(raw) : Acceptable(n, b) /\ Commit(n, b)
  BY <1>1
<1>3. PICK b \in decode_block_frame(raw) : Acceptable(n, b) /\ Commit(n, b)
  BY <1>2
<1>4. a \in KeyedBlocks /\ Mined(a.header)
  BY DEF NetInv, NetTyped
<1>5. b \in KeyedBlocks /\ b.header = a.header
  BY <1>3, <1>4, DecodedFrame DEF Acceptable
<1>6. /\ chain' \in [Nodes -> Seq(KeyedBlocks)]
      /\ \A k \in Nodes : Linked(k)'
      /\ \A h : Mined(h) => Mined(h)'
      /\ \A k \in Nodes : \E p \in Producers : Trails(k, p)'
  BY <1>3, <1>4, <1>5, CommitKeeps DEF Acceptable
<1>7. UNCHANGED <<tasks, sent, miner, calls>>
  BY DEF Receive
<1>8. NetTyped'
  BY <1>6, <1>7 DEF NetInv, NetTyped
<1>9. Producers' = Producers
  BY DEF Producers
<1> QED BY <1>6, <1>7, <1>8, <1>9 DEF NetInv

LEMMA PublishKeeps ==
    ASSUME NetInv, NEW n \in Nodes, NEW b, Publish(n, b) \/ PublishFails(n, b)
    PROVE  NetInv'
<1>1. NetTyped /\ tasks \in [Nodes -> SUBSET KeyedBlocks]
  BY DEF NetInv, NetTyped
<1>2. /\ b \in tasks[n] /\ tasks' = [tasks EXCEPT ![n] = tasks[n] \ {b}]
      /\ sent' = sent \/ sent' = sent \cup {b}
      /\ UNCHANGED <<chain, miner, calls>>
  BY DEF Publish, PublishFails
<1>3. b \in KeyedBlocks
  BY <1>1, <1>2
<1>4. tasks' \in [Nodes -> SUBSET KeyedBlocks] /\ \A k \in Nodes : tasks'[k] \subseteq tasks[k]
  BY <1>1, <1>2
<1>5. NetTyped'
  BY <1>1, <1>2, <1>3, <1>4 DEF NetTyped
<1> QED BY <1>2, <1>4, <1>5, QuietStep

LEMMA FaultKeeps ==
    ASSUME NetInv, NEW m \in Miners, ConnectionBreaks(m) \/ MinerRestarts(m)
    PROVE  NetInv'
<1>1. NetTyped /\ miner[m].extra_nonce \in Nat
  BY DEF NetInv, NetTyped, Loops
<1>2. PICK e \in Nat : miner' = [miner EXCEPT ![m] = Asking(e)]
  <2>1. ConnectionBreaks(m) => miner' = [miner EXCEPT ![m] = Asking(miner[m].extra_nonce)]
    BY <1>1 DEF ConnectionBreaks, NetTyped
  <2>2. MinerRestarts(m) => miner' = [miner EXCEPT ![m] = Asking(0)]
    BY DEF MinerRestarts
  <2> QED BY <1>1, <2>1, <2>2
<1>3. calls' \subseteq calls /\ UNCHANGED <<chain, tasks, sent>>
  BY DEF ConnectionBreaks, MinerRestarts
<1>4. NetTyped'
  BY <1>1, <1>2, <1>3, AskingAgain DEF NetTyped
<1> QED BY <1>3, <1>4, QuietStep

LEMMA RestartKeeps ==
    ASSUME NetInv, NEW n \in Nodes, NodeRestarts(n)
    PROVE  NetInv'
<1>1. NetTyped /\ miner \in [Miners -> Loops] /\ tasks \in [Nodes -> SUBSET KeyedBlocks]
  BY DEF NetInv, NetTyped
<1>2. /\ tasks' = [tasks EXCEPT ![n] = {}]
      /\ calls' \subseteq calls
      /\ UNCHANGED <<chain, sent>>
  BY DEF NodeRestarts
<1>3. /\ miner' = [m \in Miners |-> miner'[m]]
      /\ \A m \in Miners : miner'[m] = miner[m] \/ miner'[m] = Asking(miner[m].extra_nonce)
  BY DEF NodeRestarts
<1>4. ASSUME NEW m \in Miners
      PROVE  miner'[m] \in Loops /\ (miner'[m].at # "asking" => miner'[m].block \in KeyedBlocks)
  <2>1. miner[m] \in Loops /\ miner[m].extra_nonce \in Nat
    BY <1>1 DEF Loops
  <2> QED BY <1>1, <1>3, <2>1, AskingType DEF NetTyped
<1>5. miner' \in [Miners -> Loops]
  BY <1>3, <1>4
<1>6. tasks' \in [Nodes -> SUBSET KeyedBlocks] /\ \A k \in Nodes : tasks'[k] \subseteq tasks[k]
  BY <1>1, <1>2
<1>7. NetTyped'
  BY <1>1, <1>2, <1>4, <1>5, <1>6 DEF NetTyped
<1> QED BY <1>2, <1>6, <1>7, QuietStep

LEMMA NetInitial == NetInit => NetInv
<1> SUFFICES ASSUME NetInit PROVE NetInv
  OBVIOUS
<1>1. <<>> \in Seq(KeyedBlocks) /\ Len(<<>>) = 0
  OBVIOUS
<1>2. Asking(0) \in Loops /\ Asking(0).at = "asking"
  BY AskingType
<1>3. NetTyped
  BY <1>1, <1>2 DEF NetInit, NetTyped
<1>4. \A n \in Nodes : chain[n] = <<>> /\ Len(chain[n]) = 0 /\ tasks[n] = {}
  BY DEF NetInit
<1>5. \A n \in Nodes : Linked(n)
  BY <1>4 DEF Linked
<1>6. \A n \in Nodes : \E p \in Producers : Trails(n, p)
  BY <1>4, ProducersAreNodes DEF Trails
<1>7. sent = {}
  BY DEF NetInit
<1> QED BY <1>3, <1>4, <1>5, <1>6, <1>7 DEF NetInv

LEMMA NetStep == NetInv /\ [NetNext]_netVars => NetInv'
<1> SUFFICES ASSUME NetInv, [NetNext]_netVars PROVE NetInv'
  OBVIOUS
<1>1. CASE UNCHANGED netVars
  <2>1. UNCHANGED <<chain, tasks, sent, miner, calls>>
    BY <1>1 DEF netVars
  <2>2. NetTyped'
    BY <2>1 DEF NetInv, NetTyped
  <2> QED BY <2>1, <2>2, QuietStep
<1>2. ASSUME NEW m \in Miners, MinerStep(m) PROVE NetInv'
  <2>1. CASE TemplateFails(m)
    BY <1>1, <2>1 DEF TemplateFails
  <2>2. CASE FetchTemplate(m)
    BY <2>2, FetchKeeps
  <2>3. CASE Submit(m)
    BY <2>3, SubmitKeeps
  <2>4. CASE Serve(m)
    BY <2>4, ServeKeeps
  <2>5. CASE ConnectionBreaks(m) \/ MinerRestarts(m)
    BY <2>5, FaultKeeps
  <2> QED BY <1>2, <2>1, <2>2, <2>3, <2>4, <2>5 DEF MinerStep
<1>3. ASSUME NEW n \in Nodes, NodeStep(n) PROVE NetInv'
  <2>1. CASE \E b \in tasks[n] : Publish(n, b) \/ PublishFails(n, b)
    BY <2>1, PublishKeeps
  <2>2. CASE Receive(n)
    BY <2>2, ReceiveKeeps
  <2>3. CASE NodeRestarts(n)
    BY <2>3, RestartKeeps
  <2>4. CASE \E t \in ToSet(FeeOrder) : Stage(n, t)
    <3>1. UNCHANGED <<chain, tasks, sent, miner, calls>>
      BY <2>4 DEF Stage
    <3>2. NetTyped'
      BY <3>1 DEF NetInv, NetTyped
    <3> QED BY <3>1, <3>2, QuietStep
  <2> QED BY <1>3, <2>1, <2>2, <2>3, <2>4 DEF NodeStep
<1> QED BY <1>1, <1>2, <1>3 DEF NetNext

LEMMA NetInvariance == NetSpec => []NetInv
  BY NetInitial, NetStep, PTL DEF NetSpec
-----------------------------------------------------------------------------
(* mod.rs, coinbase.rs: no node's ledger has two coinbases of the same     *)
(* content, for any number of miners, payout scripts shared or not, and    *)
(* any width of extra_nonce: the height alone sets them apart.             *)
THEOREM CoinbasesAreDistinct == NetSpec => []CoinbasesDiffer
<1>1. NetInv => CoinbasesDiffer
  <2> SUFFICES ASSUME NetInv, NEW n \in Nodes, NEW i \in DOMAIN chain[n], NEW j \in DOMAIN chain[n],
                      i # j
               PROVE  Head(chain[n][i].txs) # Head(chain[n][j].txs)
    BY DEF CoinbasesDiffer
  <2>1. PICK c : c = chain[n]
    OBVIOUS
  <2>2. c \in Seq(KeyedBlocks) /\ DOMAIN c = 1 .. Len(c)
    BY <2>1 DEF NetInv, NetTyped
  <2>3. i \in 1 .. Len(chain[n]) /\ j \in 1 .. Len(chain[n]) /\ c[i] \in KeyedBlocks /\ c[j] \in KeyedBlocks
    BY <2>1, <2>2
  <2>4. chain[n][i].header.height = i /\ chain[n][j].header.height = j
    BY <2>3 DEF NetInv, Linked
  <2>5. Head(c[i].txs)[2] = i /\ Head(c[j].txs)[2] = j
    BY <2>1, <2>3, <2>4, BlockFacts
  <2> QED BY <2>1, <2>5
<1> QED BY <1>1, NetInvariance, PTL

(* The block listener: whatever gossip loses, repeats, reorders or damages *)
(* and whoever crashes, the headers of a node are an initial part of those *)
(* of one node that miners submit to.                                      *)
THEOREM FollowersNeverMix == NetSpec => []FollowersTrail
<1>1. NetInv => FollowersTrail
  <2> SUFFICES ASSUME NetInv, NEW n \in Nodes
               PROVE  \E p \in Producers : IsPrefix(Headers(n), Headers(p))
    BY DEF FollowersTrail
  <2>1. PICK p \in Producers : Trails(n, p)
    BY DEF NetInv
  <2>2. ASSUME NEW k \in Nodes
        PROVE  /\ Headers(k) \in Seq(HeaderSet) /\ Len(Headers(k)) = Len(chain[k])
               /\ \A i \in 1 .. Len(chain[k]) : Headers(k)[i] = chain[k][i].header
    <3>1. PICK c, L : c = chain[k] /\ L = Len(chain[k])
      OBVIOUS
    <3>2. c \in Seq(KeyedBlocks) /\ L = Len(c) /\ L \in Nat /\ DOMAIN c = 1 .. L
      BY <3>1 DEF NetInv, NetTyped
    <3>3. \A i \in 1 .. L : c[i].header \in HeaderSet
      BY <3>2, BlockFacts
    <3>4. Headers(k) = [i \in 1 .. L |-> c[i].header]
      BY <3>1, <3>2 DEF Headers
    <3> QED BY <3>1, <3>2, <3>3, <3>4
  <2>3. p \in Nodes /\ Len(chain[n]) \in Nat /\ Len(chain[p]) \in Nat
    BY ProducersAreNodes DEF NetInv, NetTyped
  <2>4. Len(Headers(n)) <= Len(Headers(p))
        /\ \A i \in 1 .. Len(Headers(n)) : Headers(n)[i] = Headers(p)[i]
    <3>1. \A i \in 1 .. Len(chain[n]) : i \in 1 .. Len(chain[p])
      BY <2>1, <2>3 DEF Trails
    <3> QED BY <2>1, <2>2, <2>3, <3>1 DEF Trails
  <2>5. IsPrefix(Headers(n), Headers(p))
    BY <2>2, <2>3, <2>4, PrefixFacts
  <2> QED BY <2>5
<1> QED BY <1>1, NetInvariance, PTL
-----------------------------------------------------------------------------
(* The root of b is that of its body, whose first transaction is the       *)
(* coinbase and alone in being one; no two of the others share an input.   *)
Whole(b) ==
    /\ b.header.root = compute_merkle_root(b.txs)
    /\ b.txs # <<>>
    /\ \A i \in DOMAIN b.txs : is_coinbase(b.txs[i]) <=> i = 1
    /\ \A i \in 2 .. Len(b.txs) : \A j \in 2 .. i - 1 :
           Inputs(b.txs[i]) \cap Inputs(b.txs[j]) = {}

BodiesWhole == \A n \in Nodes : \A i \in 1 .. Len(chain[n]) : Whole(chain[n][i])

LEMMA AcceptedWhole ==
    ASSUME NEW n, NEW b, Acceptable(n, b)
    PROVE  Whole(b)
  BY DEF Acceptable, SpendsOnce, Whole

(* The only way a chain changes.                                           *)
LEMMA ChainChanges ==
    ASSUME NetInv, [NetNext]_netVars
    PROVE  \/ UNCHANGED chain
           \/ \E n \in Nodes : \E b \in KeyedBlocks : Acceptable(n, b) /\ Commit(n, b)
<1>1. CASE UNCHANGED netVars
  BY <1>1 DEF netVars
<1>2. ASSUME NEW m \in Miners, MinerStep(m), ~ UNCHANGED chain
      PROVE  \E n \in Nodes : \E b \in KeyedBlocks : Acceptable(n, b) /\ Commit(n, b)
  <2>1. Serve(m)
    BY <1>2 DEF MinerStep, TemplateFails, netVars, FetchTemplate, Submit, ConnectionBreaks, MinerRestarts
  <2>2. PICK c \in calls : Accept(m, c[2]) \/ Reject(m, c[2])
    BY <2>1 DEF Serve
  <2>3. Accept(m, c[2])
    BY <1>2, <2>2 DEF Reject
  <2>4. c[2] \in KeyedBlocks /\ Home[m] \in Nodes
    BY NetworkAssumption DEF NetInv, NetTyped
  <2> QED BY <2>3, <2>4 DEF Accept
<1>3. ASSUME NEW n \in Nodes, NodeStep(n), ~ UNCHANGED chain
      PROVE  \E b \in KeyedBlocks : Acceptable(n, b) /\ Commit(n, b)
  <2>1. Receive(n)
    BY <1>3 DEF NodeStep, Publish, PublishFails, Stage, NodeRestarts
  <2>2. PICK a \in sent : \E raw \in Arriving(a) : \E b \in decode_block_frame(raw) :
            Acceptable(n, b) /\ Commit(n, b)
    BY <2>1 DEF Receive
  <2>3. PICK raw \in Arriving(a) : \E b \in decode_block_frame(raw) :
            Acceptable(n, b) /\ Commit(n, b)
    BY <2>2
  <2>4. PICK b \in decode_block_frame(raw) : Acceptable(n, b) /\ Commit(n, b)
    BY <2>3
  <2>5. b \in KeyedBlocks
    BY <2>4, DecodedFrame DEF Acceptable, NetInv, NetTyped
  <2> QED BY <2>4, <2>5
<1> QED BY <1>1, <1>2, <1>3 DEF NetNext

LEMMA BodiesStep == NetInv /\ BodiesWhole /\ [NetNext]_netVars => BodiesWhole'
<1> SUFFICES ASSUME NetInv, BodiesWhole, [NetNext]_netVars PROVE BodiesWhole'
  OBVIOUS
<1>1. \A b : Whole(b)' <=> Whole(b)
  BY DEF Whole, compute_merkle_root, NextLayer, Digest, is_coinbase, Inputs
<1>2. CASE UNCHANGED chain
  BY <1>1, <1>2 DEF BodiesWhole
<1>3. ASSUME NEW n \in Nodes, NEW b \in KeyedBlocks, Acceptable(n, b), Commit(n, b)
      PROVE  BodiesWhole'
  <2>1. chain \in [Nodes -> Seq(KeyedBlocks)] /\ Whole(b)
    BY <1>3, AcceptedWhole DEF NetInv, NetTyped
  <2>2. PICK c : c = chain[n]
    OBVIOUS
  <2>3. chain'[n] = Append(c, b) /\ \A k \in Nodes \ {n} : chain'[k] = chain[k]
    BY <1>3, <2>1, <2>2 DEF Commit
  <2>4. c \in Seq(KeyedBlocks)
    BY <2>1, <2>2
  <2>5. Len(Append(c, b)) = Len(c) + 1 /\ Len(c) \in Nat /\ Append(c, b)[Len(c) + 1] = b
        /\ \A i \in 1 .. Len(c) : Append(c, b)[i] = c[i]
    BY <2>4
  <2>6. \A i \in 1 .. Len(c) : Whole(c[i])
    BY <2>2 DEF BodiesWhole
  <2>7. ASSUME NEW i \in 1 .. Len(c) + 1 PROVE Whole(Append(c, b)[i])
    <3>1. i \in 1 .. Len(c) \/ i = Len(c) + 1
      BY <2>5
    <3> QED BY <2>1, <2>5, <2>6, <3>1
  <2>8. ASSUME NEW k \in Nodes, NEW i \in 1 .. Len(chain'[k]) PROVE Whole(chain'[k][i])
    <3>1. CASE k = n
      BY <2>3, <2>5, <2>7, <3>1
    <3>2. CASE k # n
      BY <2>3, <3>2 DEF BodiesWhole
    <3> QED BY <3>1, <3>2
  <2> QED BY <1>1, <2>8 DEF BodiesWhole
<1> QED BY <1>2, <1>3, ChainChanges

LEMMA BodiesInvariance == NetSpec => []BodiesWhole
<1>1. NetInit => BodiesWhole
  BY DEF NetInit, BodiesWhole
<1> QED BY <1>1, BodiesStep, NetInvariance, PTL DEF NetSpec

LEMMA EmptyRange ==
    ASSUME NEW S, NEW s \in Seq(S), ToSet(s) = {}
    PROVE  s = <<>>
<1>1. DOMAIN s = 1 .. Len(s) /\ Len(s) \in Nat
  OBVIOUS
<1>2. \A i \in 1 .. Len(s) : s[i] \in ToSet(s)
  BY <1>1 DEF ToSet
<1>3. Len(s) = 0
  BY <1>1, <1>2
<1> QED BY <1>3

(* What one of two bodies has beyond the other, the other has too, and so  *)
(* it is there twice: no input of it is.                                   *)
LEMMA BodiesAgree ==
    ASSUME NEW a \in KeyedBlocks, NEW b \in KeyedBlocks, Whole(a), Whole(b),
           Agree(a.txs, b.txs), NEW j \in DOMAIN a.txs
    PROVE  IF j \in DOMAIN b.txs THEN a.txs[j] = b.txs[j]
           ELSE a.txs[j] \in ToSet(b.txs) /\ TxIn[a.txs[j]] = <<>>
<1>1. PICK x, y : x = a.txs /\ y = b.txs
  OBVIOUS
<1>2. x \in Seq(Txn) /\ y \in Seq(Txn) /\ x # <<>> /\ y # <<>>
  BY <1>1, BlockFacts
<1>3. CASE j \in DOMAIN y
  BY <1>1, <1>3 DEF Agree
<1>4. CASE j \notin DOMAIN y
  <2>1. /\ Len(x) \in Nat /\ DOMAIN x = 1 .. Len(x) /\ j \in 1 .. Len(x)
        /\ Len(y) \in Nat /\ DOMAIN y = 1 .. Len(y) /\ Len(y) >= 1
    BY <1>1, <1>2
  <2>2. x[j] \in ToSet(x) /\ ToSet(x) = ToSet(y)
    BY <1>1, <2>1 DEF ToSet, Agree
  <2>3. PICK k \in 1 .. Len(y) : y[k] = x[j]
    BY <2>1, <2>2 DEF ToSet
  <2>4. k \in 1 .. Len(x) /\ k < j /\ j \in 2 .. Len(x)
    BY <1>4, <2>1, <2>3
  <2>5. x[k] = x[j]
    BY <1>1, <2>1, <2>3, <2>4 DEF Agree
  <2>6. ~is_coinbase(x[j]) /\ k # 1
    BY <1>1, <2>1, <2>4, <2>5 DEF Whole
  <2>7. k \in 2 .. j - 1
    BY <2>1, <2>4, <2>6
  <2>8. Inputs(x[j]) = {}
    BY <1>1, <2>4, <2>5, <2>7 DEF Whole
  <2>9. x[j] \in Tx
    BY <2>6 DEF is_coinbase
  <2>10. TxIn[x[j]] = <<>>
    <3>1. TxIn[x[j]] \in Seq(ToSet(TxIn[x[j]])) /\ ToSet(TxIn[x[j]]) = {}
      BY <2>8, <2>9, NetworkAssumption DEF Inputs
    <3> QED BY <3>1, EmptyRange
  <2> QED BY <1>1, <1>4, <2>2, <2>10
<1> QED BY <1>1, <1>3, <1>4

(* merkle.rs: blocks of the same header do the same to every ledger, for   *)
(* bodies of any length, by any miner, and whatever a peer sends under the *)
(* header: what one body has in excess consumes nothing.                   *)
THEOREM HeaderBindsEffect == NetSpec => []SameHashSameEffect
<1>1. NetInv /\ BodiesWhole => SameHashSameEffect
  <2> SUFFICES ASSUME NetInv, BodiesWhole, NEW n \in Nodes, NEW k \in Nodes,
                      NEW i \in DOMAIN chain[n] \cap DOMAIN chain[k],
                      chain[n][i].header = chain[k][i].header,
                      NEW j \in DOMAIN chain[n][i].txs
               PROVE  IF j \in DOMAIN chain[k][i].txs THEN chain[n][i].txs[j] = chain[k][i].txs[j]
                      ELSE /\ chain[n][i].txs[j] \in ToSet(chain[k][i].txs)
                           /\ TxIn[chain[n][i].txs[j]] = <<>>
    BY DEF SameHashSameEffect
  <2>1. PICK a, b : a = chain[n][i] /\ b = chain[k][i]
    OBVIOUS
  <2>2. ASSUME NEW l \in Nodes, i \in DOMAIN chain[l]
        PROVE  chain[l][i] \in KeyedBlocks /\ Whole(chain[l][i])
    <3>1. PICK c : c = chain[l]
      OBVIOUS
    <3>2. c \in Seq(KeyedBlocks)
      BY <3>1 DEF NetInv, NetTyped
    <3>3. i \in 1 .. Len(c) /\ c[i] \in KeyedBlocks
      BY <2>2, <3>1, <3>2
    <3> QED BY <3>1, <3>3 DEF BodiesWhole
  <2>3. a \in KeyedBlocks /\ b \in KeyedBlocks /\ Whole(a) /\ Whole(b) /\ a.header = b.header
    BY <2>1, <2>2
  <2>4. ASSUME NEW x \in Seq(Txn), x # <<>> PROVE Proper(x) /\ x[1][1] # "node"
    <3>1. PICK t : t = x[1]
      OBVIOUS
    <3>2. t \in Txn /\ Proper(x)
      BY <2>4, <3>1 DEF Proper
    <3>3. t[1] # "node"
      <4>1. CASE t \in Tx
        BY <4>1, LeafAssumption
      <4>2. CASE t \in {Payout[m] : m \in Miners} \X Nat \X Nat
        <5>1. PICK m \in Miners : t[1] = Payout[m]
          BY <4>2
        <5> QED BY <5>1, LeafAssumption
      <4> QED BY <3>2, <4>1, <4>2 DEF Txn
    <3> QED BY <3>1, <3>2, <3>3
  <2>5. PICK x, y : x = a.txs /\ y = b.txs
    OBVIOUS
  <2>6. /\ x \in Seq(Txn) /\ y \in Seq(Txn) /\ x # <<>> /\ y # <<>>
        /\ compute_merkle_root(x) = compute_merkle_root(y)
    BY <2>3, <2>5, BlockFacts DEF Whole
  <2>7. Agree(a.txs, b.txs)
    BY <2>4, <2>5, <2>6, MerkleRootBinds
  <2> QED BY <2>1, <2>3, <2>7, BodiesAgree
<1> QED BY <1>1, NetInvariance, BodiesInvariance, PTL
=============================================================================
