--------------------------- MODULE ProposerProofs ---------------------------
(***************************************************************************)
(* Proofs about Mempool and Proposer, for any transactions and any sizes.  *)
(***************************************************************************)
EXTENDS Proposer, SequenceTheorems, FiniteSetTheorems, TLAPS

(* The loop of build_block takes no iteration beyond block_size.           *)
LoopBounded == pc \in {"popping", "waiting"} => iteration < block_size

(* The inductive invariant.  in_flight must be finite for a tick to be     *)
(* able to list it.                                                        *)
IInv ==
    /\ TypeOK
    /\ LoopBounded
    /\ IsFiniteSet(mempool.in_flight)
    /\ NoTransactionLost
    /\ ProposedIsHeld

-----------------------------------------------------------------------------
(* Sequences as sets. *)

(* Appending adds one element.                                             *)
LEMMA AppendToSet ==
    ASSUME NEW S, NEW s \in Seq(S), NEW e \in S
    PROVE  Append(s, e) \in Seq(S) /\ ToSet(Append(s, e)) = ToSet(s) \cup {e}
<1>1. /\ Append(s, e) \in Seq(S)
      /\ Len(Append(s, e)) = Len(s) + 1
      /\ \A i \in 1 .. Len(s) : Append(s, e)[i] = s[i]
      /\ Append(s, e)[Len(s) + 1] = e
  BY AppendProperties
<1>2. /\ DOMAIN s = 1 .. Len(s)
      /\ DOMAIN Append(s, e) = 1 .. (Len(s) + 1)
      /\ Len(s) \in Nat
  BY <1>1, LenProperties
<1> QED  BY <1>1, <1>2 DEF ToSet

(* A sequence is its head and its tail.                                    *)
LEMMA HeadTailToSet ==
    ASSUME NEW S, NEW s \in Seq(S), s # <<>>
    PROVE  /\ Head(s) \in S /\ Tail(s) \in Seq(S)
           /\ ToSet(s) = {Head(s)} \cup ToSet(Tail(s))
<1>1. /\ Head(s) \in S /\ Tail(s) \in Seq(S)
      /\ Len(Tail(s)) = Len(s) - 1
      /\ \A i \in 1 .. Len(Tail(s)) : Tail(s)[i] = s[i + 1]
  BY HeadTailProperties
<1>2. /\ DOMAIN s = 1 .. Len(s) /\ DOMAIN Tail(s) = 1 .. (Len(s) - 1)
      /\ Len(s) \in Nat \ {0} /\ Head(s) = s[1]
  BY <1>1, LenProperties, EmptySeq
<1>3. ToSet(s) \subseteq {Head(s)} \cup ToSet(Tail(s))
  <2>1. ASSUME NEW i \in 1 .. Len(s) PROVE s[i] \in {Head(s)} \cup ToSet(Tail(s))
    <3>1. CASE i = 1  BY <3>1, <1>2
    <3>2. CASE i # 1
      <4>1. i - 1 \in DOMAIN Tail(s) /\ Tail(s)[i - 1] = s[i]
        BY <3>2, <1>1, <1>2
      <4> QED  BY <4>1 DEF ToSet
    <3> QED  BY <3>1, <3>2
  <2> QED  BY <2>1, <1>2 DEF ToSet
<1>4. {Head(s)} \cup ToSet(Tail(s)) \subseteq ToSet(s)
  BY <1>1, <1>2 DEF ToSet
<1> QED  BY <1>1, <1>3, <1>4

(* A sequence is its front and its last element.                           *)
LEMMA FrontLastToSet ==
    ASSUME NEW S, NEW s \in Seq(S), s # <<>>
    PROVE  /\ Last(s) \in S /\ Front(s) \in Seq(S)
           /\ s = Append(Front(s), Last(s))
           /\ ToSet(s) = ToSet(Front(s)) \cup {Last(s)}
<1>1. PICK f \in Seq(S), e \in S : s = Append(f, e)
  BY SequenceEmptyOrAppend
<1>2. /\ Len(s) = Len(f) + 1 /\ Last(s) = e
      /\ \A i \in 1 .. Len(f) : s[i] = f[i]
  BY <1>1, AppendProperties DEF Last
<1>3. Len(f) \in Nat  BY <1>1, LenProperties
<1>4. Front(s) = SubSeq(s, 1, Len(f))  BY <1>2, <1>3 DEF Front
<1>5. \A i \in 1 .. Len(f) : s[i] \in S
  BY <1>2, <1>1, ElementOfSeq
<1>6. /\ SubSeq(s, 1, Len(f)) \in Seq(S)
      /\ Len(SubSeq(s, 1, Len(f))) = Len(f)
      /\ \A i \in 1 .. Len(f) : SubSeq(s, 1, Len(f))[i] = s[i]
  BY <1>3, <1>5, SubSeqProperties
<1>7. Front(s) = f
  BY <1>1, <1>2, <1>4, <1>6, SeqEqual
<1> QED  BY <1>1, <1>2, <1>7, AppendToSet

(* A listing of a finite set leaves nothing out.                           *)
LEMMA ListingToSet ==
    ASSUME NEW S, IsFiniteSet(S), NEW s \in SetToSeqs(S)
    PROVE  s \in Seq(S) /\ ToSet(s) = S
<1> DEFINE D == 1 .. Cardinality(S)
<1>1. Cardinality(S) \in Nat  BY FS_CardinalityType
<1>2. s \in [D -> S] /\ \A i, j \in D : i # j => s[i] # s[j]
  BY DEF SetToSeqs
<1>3. s \in Injection(D, S)
  BY <1>2 DEF Injection, IsInjective
<1>4. IsFiniteSet(D) /\ Cardinality(D) = Cardinality(S)
  BY <1>1, FS_Interval
<1>5. s \in Surjection(D, S)
  BY <1>3, <1>4, FS_Injection
<1> QED  BY <1>1, <1>2, <1>5 DEF ToSet, Surjection

(* Concatenation joins the sets.                                           *)
LEMMA ConcatToSet ==
    ASSUME NEW S, NEW s \in Seq(S), NEW t \in Seq(S)
    PROVE  s \o t \in Seq(S) /\ ToSet(s \o t) = ToSet(s) \cup ToSet(t)
<1>1. s \o t \in Seq(S) /\ Range(s \o t) = Range(s) \cup Range(t)
  BY RangeConcatenation, ConcatProperties
<1>2. \A u : ToSet(u) = Range(u)  BY DEF ToSet, Range
<1> QED  BY <1>1, <1>2

-----------------------------------------------------------------------------
(* Counting occurrences. *)

(* The places of t in a sequence, and how many there are.                  *)
Places(t, s) == {i \in DOMAIN s : s[i] = t}

LEMMA PlacesFinite ==
    ASSUME NEW S, NEW s \in Seq(S), NEW t
    PROVE  /\ IsFiniteSet(Places(t, s))
           /\ Occurrences(t, s) = Cardinality(Places(t, s))
           /\ Occurrences(t, s) \in Nat
<1>1. DOMAIN s = 1 .. Len(s) /\ Len(s) \in Nat  BY LenProperties
<1>2. IsFiniteSet(1 .. Len(s))  BY <1>1, FS_Interval
<1>3. Places(t, s) \subseteq 1 .. Len(s)  BY <1>1 DEF Places
<1>4. IsFiniteSet(Places(t, s))  BY <1>2, <1>3, FS_Subset
<1>5. Cardinality(Places(t, s)) \in Nat  BY <1>4, FS_CardinalityType
<1> QED  BY <1>4, <1>5 DEF Occurrences, Places

(* A concatenation has the occurrences of both parts.                      *)
LEMMA ConcatCount ==
    ASSUME NEW S, NEW r \in Seq(S), NEW s \in Seq(S), NEW t
    PROVE  Occurrences(t, r \o s) = Occurrences(t, r) + Occurrences(t, s)
<1> DEFINE k == Len(r)
           moved == {i + k : i \in Places(t, s)}
           shift == [i \in Places(t, s) |-> i + k]
<1>1. /\ r \o s \in Seq(S) /\ Len(r \o s) = k + Len(s)
      /\ \A i \in 1 .. (k + Len(s)) :
            (r \o s)[i] = IF i <= k THEN r[i] ELSE s[i - k]
  BY ConcatProperties
<1>2. /\ k \in Nat /\ Len(s) \in Nat
      /\ DOMAIN r = 1 .. k /\ DOMAIN s = 1 .. Len(s)
      /\ DOMAIN (r \o s) = 1 .. (k + Len(s))
  BY <1>1, LenProperties
<1>3. Places(t, r \o s) = Places(t, r) \cup moved
  <2>1. ASSUME NEW i \in Places(t, r \o s) PROVE i \in Places(t, r) \cup moved
    <3>1. i \in 1 .. (k + Len(s)) /\ (r \o s)[i] = t  BY <1>2 DEF Places
    <3>2. CASE i <= k  BY <3>1, <3>2, <1>1, <1>2 DEF Places
    <3>3. CASE ~ (i <= k)
      <4>1. i - k \in 1 .. Len(s) /\ s[i - k] = t  BY <3>1, <3>3, <1>1, <1>2
      <4>2. i - k \in Places(t, s) /\ (i - k) + k = i
        BY <4>1, <3>1, <1>2 DEF Places
      <4> QED  BY <4>2
    <3> QED  BY <3>2, <3>3
  <2>2. ASSUME NEW i \in Places(t, r) PROVE i \in Places(t, r \o s)
    BY <1>1, <1>2 DEF Places
  <2>3. ASSUME NEW i \in Places(t, s) PROVE i + k \in Places(t, r \o s)
    <3>1. i \in 1 .. Len(s) /\ s[i] = t  BY <1>2 DEF Places
    <3>2. i + k \in 1 .. (k + Len(s)) /\ ~ (i + k <= k) /\ (i + k) - k = i
      BY <3>1, <1>2
    <3> QED  BY <3>1, <3>2, <1>1, <1>2 DEF Places
  <2> QED  BY <2>1, <2>2, <2>3
<1>4. Places(t, r) \cap moved = {}  BY <1>2 DEF Places
<1>5. IsFiniteSet(moved) /\ Cardinality(moved) = Cardinality(Places(t, s))
  <2>1. IsFiniteSet(Places(t, s))  BY PlacesFinite
  <2>2. Places(t, s) \subseteq Nat  BY <1>2 DEF Places
  <2>3. shift \in Bijection(Places(t, s), moved)
    <3>1. shift \in [Places(t, s) -> moved]  OBVIOUS
    <3>2. \A i, j \in Places(t, s) : shift[i] = shift[j] => i = j
      BY <2>2, <1>2
    <3>3. \A x \in moved : \E i \in Places(t, s) : shift[i] = x  OBVIOUS
    <3> QED  BY <3>1, <3>2, <3>3
             DEF Bijection, Injection, Surjection, IsInjective
  <2>4. ExistsBijection(Places(t, s), moved)  BY <2>3 DEF ExistsBijection
  <2> HIDE DEF moved
  <2> QED  BY <2>1, <2>4, FS_Bijection
<1>6. IsFiniteSet(Places(t, r))  BY PlacesFinite
<1>7. Cardinality(Places(t, r) \cup moved)
         = Cardinality(Places(t, r)) + Cardinality(moved)
           - Cardinality(Places(t, r) \cap moved)
  BY <1>5, <1>6, FS_Union
<1>8. Cardinality(Places(t, r) \cap moved) = 0  BY <1>4, FS_EmptySet
<1>9. /\ Occurrences(t, r) = Cardinality(Places(t, r)) /\ Occurrences(t, r) \in Nat
      /\ Occurrences(t, s) = Cardinality(Places(t, s)) /\ Occurrences(t, s) \in Nat
      /\ Occurrences(t, r \o s) = Cardinality(Places(t, r \o s))
  BY <1>1, PlacesFinite
<1> HIDE DEF moved, shift
<1>10. Occurrences(t, r \o s) = Cardinality(Places(t, r) \cup moved)
  BY <1>3, <1>9
<1> QED  BY <1>5, <1>7, <1>8, <1>9, <1>10

(* A sequence of one element.                                              *)
LEMMA SingleCount ==
    ASSUME NEW e, NEW t
    PROVE  Occurrences(t, <<e>>) = Present(e = t)
<1>1. DOMAIN <<e>> = {1} /\ <<e>>[1] = e  OBVIOUS
<1>2. CASE e = t
  <2>1. {i \in DOMAIN <<e>> : <<e>>[i] = t} = {1}  BY <1>1, <1>2
  <2>2. Cardinality({1}) = 1  BY FS_Singleton
  <2> QED  BY <1>2, <2>1, <2>2 DEF Occurrences, Present
<1>3. CASE e # t
  <2>1. {i \in DOMAIN <<e>> : <<e>>[i] = t} = {}  BY <1>1, <1>3
  <2>2. Cardinality({}) = 0  BY FS_EmptySet
  <2> QED  BY <1>3, <2>1, <2>2 DEF Occurrences, Present
<1> QED  BY <1>2, <1>3

(* One more element is one more occurrence at most.                        *)
LEMMA AppendCount ==
    ASSUME NEW S, NEW s \in Seq(S), NEW e \in S, NEW t
    PROVE  Occurrences(t, Append(s, e)) = Occurrences(t, s) + Present(e = t)
<1>1. <<e>> \in Seq(S) /\ Append(s, e) = s \o <<e>>
  BY AppendIsConcat
<1>2. Occurrences(t, <<e>>) = Present(e = t)  BY SingleCount
<1>3. Occurrences(t, s \o <<e>>) = Occurrences(t, s) + Occurrences(t, <<e>>)
  BY <1>1, ConcatCount
<1> QED  BY <1>1, <1>2, <1>3

(* A listing of a finite set has each element once.                        *)
LEMMA ListingCount ==
    ASSUME NEW S, IsFiniteSet(S), NEW s \in SetToSeqs(S), NEW t
    PROVE  Occurrences(t, s) = Present(t \in S)
<1> DEFINE D == 1 .. Cardinality(S)
<1>1. s \in [D -> S] /\ \A i, j \in D : i # j => s[i] # s[j]
  BY DEF SetToSeqs
<1>2. ToSet(s) = S  BY ListingToSet
<1>3. CASE t \in S
  <2>1. PICK i \in D : s[i] = t  BY <1>1, <1>2, <1>3 DEF ToSet
  <2>2. {j \in DOMAIN s : s[j] = t} = {i}  BY <2>1, <1>1
  <2>3. Cardinality({i}) = 1  BY FS_Singleton
  <2> QED  BY <1>3, <2>2, <2>3 DEF Occurrences, Present
<1>4. CASE t \notin S
  <2>1. {j \in DOMAIN s : s[j] = t} = {}  BY <1>4, <1>1
  <2>2. Cardinality({}) = 0  BY FS_EmptySet
  <2> QED  BY <1>4, <2>1, <2>2 DEF Occurrences, Present
<1> QED  BY <1>3, <1>4

(* The first element is one occurrence at most.                            *)
LEMMA HeadCount ==
    ASSUME NEW S, NEW s \in Seq(S), s # <<>>, NEW t
    PROVE  Occurrences(t, s) = Present(Head(s) = t) + Occurrences(t, Tail(s))
<1>1. Head(s) \in S /\ Tail(s) \in Seq(S)  BY HeadTailToSet
<1>2. <<Head(s)>> \in Seq(S)  BY <1>1
<1>3. s = <<Head(s)>> \o Tail(s)
  BY <1>1, <1>2, HeadTailProperties, ConcatProperties, LenProperties, SeqEqual
<1>4. Occurrences(t, <<Head(s)>> \o Tail(s))
         = Occurrences(t, <<Head(s)>>) + Occurrences(t, Tail(s))
  BY <1>1, <1>2, ConcatCount
<1>5. Occurrences(t, <<Head(s)>>) = Present(Head(s) = t)  BY SingleCount
<1> QED  BY <1>3, <1>4, <1>5

-----------------------------------------------------------------------------
(* What each operation does to what the mempool holds. *)

(* A push adds the transaction, unless it is held already.                 *)
LEMMA PushHeld ==
    ASSUME NEW m, IsMempool(m), NEW t \in Txn
    PROVE  /\ IsMempool(push_transaction(m, t))
           /\ Held(push_transaction(m, t)) = Held(m) \cup {t}
           /\ push_transaction(m, t).in_flight = m.in_flight
<1>1. CASE t \in m.in_flight
  BY <1>1 DEF push_transaction, is_transaction_acceptable, Held
<1>2. CASE t \notin m.in_flight
  <2>1. push_transaction(m, t)
           = [queue |-> Append(m.queue, t), in_flight |-> m.in_flight]
    BY <1>2 DEF push_transaction, is_transaction_acceptable,
       blockchain_has_transaction, IsMempool
  <2>2. /\ Append(m.queue, t) \in Seq(Txn)
        /\ ToSet(Append(m.queue, t)) = ToSet(m.queue) \cup {t}
    BY AppendToSet DEF IsMempool
  <2> QED  BY <2>1, <2>2 DEF Held, IsMempool
<1> QED  BY <1>1, <1>2

(* A pop moves a transaction, or drops a copy of one in flight.            *)
LEMMA PopHeld ==
    ASSUME NEW m, IsMempool(m)
    PROVE  LET pop == pop_transaction(m) IN
           /\ IsMempool(pop.mempool)
           /\ Held(pop.mempool) = Held(m)
           /\ pop.next = NoTxn => pop.mempool.in_flight = m.in_flight
           /\ pop.next # NoTxn =>
                 /\ pop.next \in Txn
                 /\ pop.next \in Held(m)
                 /\ pop.mempool.in_flight = m.in_flight \cup {pop.next}
<1>1. CASE m.queue = <<>>
  BY <1>1 DEF pop_transaction, IsMempool, Held
<1>2. CASE m.queue # <<>>
  <2> DEFINE t == Last(m.queue)
  <2>1. /\ t \in Txn /\ t # NoTxn /\ Front(m.queue) \in Seq(Txn)
        /\ ToSet(m.queue) = ToSet(Front(m.queue)) \cup {t}
    BY <1>2, FrontLastToSet, TxnAssumption DEF IsMempool
  <2>2. CASE t \in m.in_flight
    <3>1. pop_transaction(m)
             = [next |-> NoTxn,
                mempool |-> [queue |-> Front(m.queue), in_flight |-> m.in_flight]]
      BY <1>2, <2>2 DEF pop_transaction, IsMempool,
         is_transaction_deliverable, is_transaction_acceptable
    <3> QED  BY <2>1, <2>2, <3>1 DEF IsMempool, Held
  <2>3. CASE t \notin m.in_flight
    <3>1. pop_transaction(m)
             = [next |-> t,
                mempool |-> [queue |-> Front(m.queue),
                             in_flight |-> m.in_flight \cup {t}]]
      BY <1>2, <2>1, <2>3 DEF pop_transaction, IsMempool, blockchain_has_transaction,
         is_transaction_deliverable, is_transaction_acceptable
    <3>2. /\ pop_transaction(m).next = t
          /\ pop_transaction(m).mempool.queue = Front(m.queue)
          /\ pop_transaction(m).mempool.in_flight = m.in_flight \cup {t}
      BY <3>1
    <3>3. /\ t \in Held(m)
          /\ Held(pop_transaction(m).mempool) = Held(m)
      BY <2>1, <3>2 DEF Held
    <3>4. IsMempool(pop_transaction(m).mempool)
      <4>1. m.in_flight \cup {t} \subseteq Txn  BY <2>1 DEF IsMempool
      <4>2. pop_transaction(m).mempool
               = [queue |-> Front(m.queue), in_flight |-> m.in_flight \cup {t}]
        BY <3>1
      <4> HIDE DEF t
      <4> QED  BY <2>1, <4>1, <4>2 DEF IsMempool
    <3> QED  BY <2>1, <3>2, <3>3, <3>4
  <2> QED  BY <2>2, <2>3
<1> QED  BY <1>1, <1>2

(* A tick moves everything in flight back to the queue.                    *)
LEMMA TickHeld ==
    ASSUME NEW m, IsMempool(m), IsFiniteSet(m.in_flight), NEW n \in tick_mempool(m)
    PROVE  IsMempool(n) /\ Held(n) = Held(m) /\ n.in_flight = {}
<1>1. PICK s \in SetToSeqs(m.in_flight) :
          n = [queue |-> m.queue \o s, in_flight |-> {}]
  BY DEF tick_mempool
<1>2. s \in Seq(m.in_flight) /\ ToSet(s) = m.in_flight  BY ListingToSet
<1>3. s \in Seq(Txn)  BY <1>2, SeqMonotonic DEF IsMempool
<1>4. m.queue \o s \in Seq(Txn) /\ ToSet(m.queue \o s) = ToSet(m.queue) \cup m.in_flight
  BY <1>2, <1>3, ConcatToSet DEF IsMempool
<1> QED  BY <1>1, <1>4 DEF IsMempool, Held

-----------------------------------------------------------------------------
(* What each operation does to the copies of a transaction. *)

(* The copies of t that the mempool holds.                                 *)
Copies(t, m) == Occurrences(t, m.queue) + Present(t \in m.in_flight)

(* A push makes one copy at most.                                          *)
LEMMA PushCopies ==
    ASSUME NEW m, IsMempool(m), NEW u \in Txn, NEW t
    PROVE  /\ Copies(t, m) \in Nat /\ Copies(t, push_transaction(m, u)) \in Nat
           /\ Copies(t, push_transaction(m, u)) <= Copies(t, m) + Present(u = t)
<1>1. m.queue \in Seq(Txn)  BY DEF IsMempool
<1>2. Occurrences(t, m.queue) \in Nat  BY <1>1, PlacesFinite
<1>3. Occurrences(t, Append(m.queue, u)) = Occurrences(t, m.queue) + Present(u = t)
  BY <1>1, AppendCount
<1>4. CASE u \in m.in_flight
  <2>1. push_transaction(m, u) = m
    BY <1>4 DEF push_transaction, is_transaction_acceptable
  <2> QED  BY <2>1, <1>2 DEF Copies, Present
<1>5. CASE u \notin m.in_flight
  <2>1. push_transaction(m, u)
           = [queue |-> Append(m.queue, u), in_flight |-> m.in_flight]
    BY <1>5 DEF push_transaction, is_transaction_acceptable,
       blockchain_has_transaction, IsMempool
  <2> QED  BY <2>1, <1>2, <1>3 DEF Copies, Present
<1> QED  BY <1>4, <1>5

(* A pop makes none.                                                       *)
LEMMA PopCopies ==
    ASSUME NEW m, IsMempool(m), NEW t
    PROVE  /\ Copies(t, m) \in Nat /\ Copies(t, pop_transaction(m).mempool) \in Nat
           /\ Copies(t, pop_transaction(m).mempool) <= Copies(t, m)
<1>1. m.queue \in Seq(Txn)  BY DEF IsMempool
<1>2. Occurrences(t, m.queue) \in Nat  BY <1>1, PlacesFinite
<1>3. CASE m.queue = <<>>
  <2>1. pop_transaction(m).mempool = m  BY <1>3 DEF pop_transaction, IsMempool
  <2> QED  BY <2>1, <1>2 DEF Copies, Present
<1>4. CASE m.queue # <<>>
  <2> DEFINE u == Last(m.queue)
             f == Front(m.queue)
             popped == pop_transaction(m).mempool
  <2>1. u \in Txn /\ f \in Seq(Txn) /\ m.queue = Append(f, u)
    BY <1>1, <1>4, FrontLastToSet
  <2>2. u # NoTxn  BY <2>1, TxnAssumption
  <2>3. Occurrences(t, Append(f, u)) = Occurrences(t, f) + Present(u = t)
    BY <2>1, AppendCount
  <2>4. Occurrences(t, m.queue) = Occurrences(t, f) + Present(u = t)
    BY <2>1, <2>3
  <2>5. Occurrences(t, f) \in Nat  BY <2>1, PlacesFinite
  <2>6. CASE u \in m.in_flight
    <3>1. popped.queue = f /\ popped.in_flight = m.in_flight
      BY <1>4, <2>6 DEF pop_transaction, IsMempool,
         is_transaction_deliverable, is_transaction_acceptable
    <3> HIDE DEF f, u, popped
    <3> QED  BY <2>4, <2>5, <3>1 DEF Copies, Present, popped
  <2>7. CASE u \notin m.in_flight
    <3>1. popped.queue = f /\ popped.in_flight = m.in_flight \cup {u}
      BY <1>4, <2>2, <2>7 DEF pop_transaction, IsMempool, blockchain_has_transaction,
         is_transaction_deliverable, is_transaction_acceptable
    <3> HIDE DEF f, u, popped
    <3> QED  BY <2>4, <2>5, <2>7, <3>1 DEF Copies, Present, popped
  <2> QED  BY <2>6, <2>7
<1> QED  BY <1>3, <1>4

(* A tick makes none either.                                               *)
LEMMA TickCopies ==
    ASSUME NEW m, IsMempool(m), IsFiniteSet(m.in_flight), NEW n \in tick_mempool(m), NEW t
    PROVE  Copies(t, n) = Copies(t, m)
<1>1. PICK s \in SetToSeqs(m.in_flight) :
          n = [queue |-> m.queue \o s, in_flight |-> {}]
  BY DEF tick_mempool
<1>2. s \in Seq(Txn) /\ m.queue \in Seq(Txn)
  BY ListingToSet, SeqMonotonic DEF IsMempool
<1>3. Occurrences(t, s) = Present(t \in m.in_flight)  BY ListingCount
<1>4. Occurrences(t, m.queue \o s) = Occurrences(t, m.queue) + Occurrences(t, s)
  BY <1>2, ConcatCount
<1>5. Occurrences(t, m.queue) \in Nat  BY <1>2, PlacesFinite
<1> QED  BY <1>1, <1>3, <1>4, <1>5 DEF Copies, Present

-----------------------------------------------------------------------------
(* The invariant holds at the start and each action keeps it. *)

(* The empty mempool and the idle tasks satisfy the invariant.             *)
LEMMA InitIInv == Init => IInv
<1> SUFFICES ASSUME Init PROVE IInv  OBVIOUS
<1> USE DEF Init
<1>1. mempool.queue = <<>> /\ mempool.in_flight = {}  BY DEF EmptyMempool
<1>2. ToSet(<<>>) = {}  BY DEF ToSet
<1>3. TypeOK
  <2>1. IsMempool(mempool)  BY DEF EmptyMempool, IsMempool
  <2>2. <<>> \in Seq(Txn)   OBVIOUS
  <2> QED  BY <2>1, <2>2, ProposerAssumption DEF TypeOK
<1>4. IsFiniteSet(mempool.in_flight)  BY <1>1, FS_EmptySet
<1>5. LoopBounded /\ NoTransactionLost /\ ProposedIsHeld
  BY DEF LoopBounded, NoTransactionLost, ProposedIsHeld
<1> QED  BY <1>3, <1>4, <1>5 DEF IInv

(* A submission through the channel keeps it.                              *)
LEMMA SubmitToChannelIInv ==
    ASSUME IInv, NEW t \in Txn, SubmitToChannel(t)
    PROVE  IInv'
<1> USE DEF IInv, SubmitToChannel, CountSubmit, buildVars
<1>1. /\ Append(inbox, t) \in Seq(Txn)
      /\ ToSet(inbox') = ToSet(inbox) \cup {t}
  BY AppendToSet DEF TypeOK
<1>2. submits' \in [Txn -> 0 .. MaxSubmits]
  BY ProposerAssumption DEF TypeOK
<1>3. TypeOK'  BY <1>1, <1>2 DEF TypeOK
<1>4. NoTransactionLost'
  BY <1>1 DEF NoTransactionLost, TypeOK
<1>5. LoopBounded' /\ IsFiniteSet(mempool'.in_flight) /\ ProposedIsHeld'
  BY DEF LoopBounded, ProposedIsHeld
<1> QED  BY <1>3, <1>4, <1>5

(* A submission straight to the mempool keeps it.                          *)
LEMMA SubmitToMempoolIInv ==
    ASSUME IInv, NEW t \in Txn, SubmitToMempool(t)
    PROVE  IInv'
<1> USE DEF IInv, SubmitToMempool, CountSubmit, buildVars, serviceVars
<1>1. /\ IsMempool(mempool')
      /\ Held(mempool') = Held(mempool) \cup {t}
      /\ mempool'.in_flight = mempool.in_flight
  BY PushHeld DEF TypeOK
<1>2. submits' \in [Txn -> 0 .. MaxSubmits]
  BY ProposerAssumption DEF TypeOK
<1>3. TypeOK'  BY <1>1, <1>2 DEF TypeOK
<1>4. NoTransactionLost'
  BY <1>1 DEF NoTransactionLost, TypeOK
<1>5. LoopBounded' /\ IsFiniteSet(mempool'.in_flight) /\ ProposedIsHeld'
  BY <1>1 DEF LoopBounded, ProposedIsHeld
<1> QED  BY <1>3, <1>4, <1>5

(* Taking a transaction from the channel keeps it.                         *)
LEMMA ReceiveIInv == IInv /\ receive_mempool_transaction => IInv'
<1> SUFFICES ASSUME IInv, receive_mempool_transaction PROVE IInv'  OBVIOUS
<1> USE DEF IInv, receive_mempool_transaction, buildVars
<1>1. /\ received' \in Txn /\ inbox' \in Seq(Txn)
      /\ ToSet(inbox) = {received'} \cup ToSet(inbox')
  BY HeadTailToSet DEF TypeOK
<1>2. TypeOK'  BY <1>1 DEF TypeOK
<1>3. NoTransactionLost'
  BY <1>1, TxnAssumption DEF NoTransactionLost
<1>4. LoopBounded' /\ IsFiniteSet(mempool'.in_flight) /\ ProposedIsHeld'
  BY DEF LoopBounded, ProposedIsHeld
<1> QED  BY <1>2, <1>3, <1>4

(* Pushing the received transaction keeps it.                              *)
LEMMA AddToMempoolIInv == IInv /\ add_transaction_to_mempool => IInv'
<1> SUFFICES ASSUME IInv, add_transaction_to_mempool PROVE IInv'  OBVIOUS
<1> USE DEF IInv, add_transaction_to_mempool, buildVars
<1>1. /\ IsMempool(mempool')
      /\ Held(mempool') = Held(mempool) \cup {received}
      /\ mempool'.in_flight = mempool.in_flight
  BY PushHeld DEF TypeOK
<1>2. TypeOK'  BY <1>1 DEF TypeOK
<1>3. NoTransactionLost'
  BY <1>1 DEF NoTransactionLost
<1>4. LoopBounded' /\ IsFiniteSet(mempool'.in_flight) /\ ProposedIsHeld'
  BY <1>1 DEF LoopBounded, ProposedIsHeld
<1> QED  BY <1>2, <1>3, <1>4

(* A new, empty block keeps it.                                            *)
LEMMA StartBlockIInv == IInv /\ StartBlock => IInv'
<1> SUFFICES ASSUME IInv, StartBlock PROVE IInv'  OBVIOUS
<1> USE DEF IInv, StartBlock, serviceVars
<1>1. TypeOK' /\ LoopBounded'
  BY ProposerAssumption DEF TypeOK, LoopBounded
<1>2. NoTransactionLost' /\ IsFiniteSet(mempool'.in_flight) /\ ProposedIsHeld'
  BY DEF NoTransactionLost, ProposedIsHeld
<1> QED  BY <1>1, <1>2

(* The end of an iteration keeps the counter within the block size.        *)
LEMMA EndIterationBounded ==
    ASSUME TypeOK, LoopBounded, pc \in {"popping", "waiting"}, EndIteration
    PROVE  /\ iteration' \in 0 .. block_size
           /\ pc' \in {"popping", "sending"}
           /\ LoopBounded'
BY ProposerAssumption DEF TypeOK, LoopBounded, EndIteration

(* A pop into the block keeps it: what is offered is in flight.            *)
LEMMA PopIntoBlockIInv == IInv /\ PopIntoBlock => IInv'
<1> SUFFICES ASSUME IInv, PopIntoBlock PROVE IInv'  OBVIOUS
<1> DEFINE pop == pop_transaction(mempool)
<1> USE DEF IInv, serviceVars
<1>1. /\ pc = "popping" /\ pop.next # NoTxn
      /\ mempool' = pop.mempool /\ block' = block \cup {pop.next}
      /\ EndIteration
      /\ UNCHANGED <<serviceVars, elapsed, slept, proposed, submits>>
  BY DEF PopIntoBlock
<1>2. /\ IsMempool(mempool') /\ Held(mempool') = Held(mempool)
      /\ pop.next \in Txn /\ pop.next \in Held(mempool)
      /\ mempool'.in_flight = mempool.in_flight \cup {pop.next}
  BY <1>1, PopHeld DEF TypeOK
<1>3. /\ iteration' \in 0 .. block_size
      /\ pc' \in {"popping", "sending"}
      /\ LoopBounded'
  BY <1>1, EndIterationBounded
<1>4. TypeOK'  BY <1>1, <1>2, <1>3 DEF TypeOK
<1>5. IsFiniteSet(mempool'.in_flight)  BY <1>2, FS_AddElement
<1>6. NoTransactionLost' /\ ProposedIsHeld'
  BY <1>1, <1>2 DEF NoTransactionLost, ProposedIsHeld
<1> QED  BY <1>3, <1>4, <1>5, <1>6

(* A pop that delivers nothing keeps it.                                   *)
LEMMA PopNothingIInv == IInv /\ PopNothing => IInv'
<1> SUFFICES ASSUME IInv, PopNothing PROVE IInv'  OBVIOUS
<1> DEFINE pop == pop_transaction(mempool)
<1> USE DEF IInv, serviceVars
<1>1. /\ pc = "popping" /\ pop.next = NoTxn /\ pc' = "waiting"
      /\ mempool' = pop.mempool
      /\ UNCHANGED <<serviceVars, block, iteration, elapsed, slept, proposed, submits>>
  BY DEF PopNothing
<1>2. /\ IsMempool(mempool') /\ Held(mempool') = Held(mempool)
      /\ mempool'.in_flight = mempool.in_flight
  BY <1>1, PopHeld DEF TypeOK
<1>3. TypeOK' /\ LoopBounded'  BY <1>1, <1>2 DEF TypeOK, LoopBounded
<1>4. NoTransactionLost' /\ ProposedIsHeld' /\ IsFiniteSet(mempool'.in_flight)
  BY <1>1, <1>2 DEF NoTransactionLost, ProposedIsHeld
<1> QED  BY <1>3, <1>4

(* The end of proposer_wait_ms keeps it.                                   *)
LEMMA AwakeIInv == IInv /\ Awake => IInv'
<1> SUFFICES ASSUME IInv, Awake PROVE IInv'  OBVIOUS
<1> USE DEF IInv, Awake, serviceVars
<1>1. /\ iteration' \in 0 .. block_size
      /\ pc' \in {"popping", "sending"}
      /\ LoopBounded'
  BY EndIterationBounded
<1>2. TypeOK'  BY <1>1 DEF TypeOK
<1>3. NoTransactionLost' /\ ProposedIsHeld' /\ IsFiniteSet(mempool'.in_flight)
  BY DEF NoTransactionLost, ProposedIsHeld
<1> QED  BY <1>1, <1>2, <1>3

(* Sending the block keeps it.                                             *)
LEMMA SendIInv == IInv /\ send_proposed_block => IInv'
<1> SUFFICES ASSUME IInv, send_proposed_block PROVE IInv'  OBVIOUS
<1> USE DEF IInv, send_proposed_block, serviceVars
<1>1. TypeOK' /\ LoopBounded'  BY DEF TypeOK, LoopBounded
<1>2. NoTransactionLost' /\ ProposedIsHeld' /\ IsFiniteSet(mempool'.in_flight)
  BY DEF NoTransactionLost, ProposedIsHeld
<1> QED  BY <1>1, <1>2

(* Re-entering what is in flight keeps it.                                 *)
LEMMA TickIInv == IInv /\ Tick => IInv'
<1> SUFFICES ASSUME IInv, Tick PROVE IInv'  OBVIOUS
<1> USE DEF IInv, Tick, serviceVars, buildVars
<1>1. /\ IsMempool(mempool') /\ Held(mempool') = Held(mempool)
      /\ mempool'.in_flight = {}
  BY TickHeld DEF TypeOK
<1>2. TypeOK' /\ LoopBounded'
  BY <1>1, ProposerAssumption DEF TypeOK, LoopBounded
<1>3. NoTransactionLost' /\ ProposedIsHeld' /\ IsFiniteSet(mempool'.in_flight)
  BY <1>1, FS_EmptySet DEF NoTransactionLost, ProposedIsHeld
<1> QED  BY <1>2, <1>3

(* The passing of time keeps it.                                           *)
LEMMA SecondIInv == IInv /\ Second => IInv'
<1> SUFFICES ASSUME IInv, Second PROVE IInv'  OBVIOUS
<1> USE DEF IInv, Second, serviceVars
<1>1. TypeOK' /\ LoopBounded'
  BY ProposerAssumption DEF TypeOK, LoopBounded
<1>2. NoTransactionLost' /\ ProposedIsHeld' /\ IsFiniteSet(mempool'.in_flight)
  BY DEF NoTransactionLost, ProposedIsHeld
<1> QED  BY <1>1, <1>2

(* Every step, and every stutter, keeps the invariant.                     *)
LEMMA NextIInv == IInv /\ [Next]_vars => IInv'
<1> SUFFICES ASSUME IInv, [Next]_vars PROVE IInv'  OBVIOUS
<1>1. CASE UNCHANGED vars
  <2> USE <1>1 DEF IInv, vars, serviceVars, buildVars
  <2>1. TypeOK' /\ LoopBounded'  BY DEF TypeOK, LoopBounded
  <2>2. NoTransactionLost' /\ ProposedIsHeld' /\ IsFiniteSet(mempool'.in_flight)
    BY DEF NoTransactionLost, ProposedIsHeld
  <2> QED  BY <2>1, <2>2
<1> QED
  BY <1>1, SubmitToChannelIInv, SubmitToMempoolIInv, ReceiveIInv, AddToMempoolIInv,
     StartBlockIInv, PopIntoBlockIInv, PopNothingIInv, AwakeIInv, SendIInv,
     TickIInv, SecondIInv DEF Next

-----------------------------------------------------------------------------
(* The theorems. *)

(* The inductive invariant holds in every reachable state.                 *)
THEOREM Invariance == Spec => []IInv
<1>1. Init => IInv                    BY InitIInv
<1>2. IInv /\ [Next]_vars => IInv'    BY NextIInv
<1> QED  BY <1>1, <1>2, PTL DEF Spec

(* The mempool and its tasks always have their types.                      *)
THEOREM TypeCorrect == Spec => []TypeOK
<1>1. IInv => TypeOK  BY DEF IInv
<1> QED  BY <1>1, Invariance, PTL

(* However the service, the proposer and the ticks interleave, a submitted *)
(* transaction stays in the node: push_transaction, pop_transaction and    *)
(* tick_mempool only move it.                                              *)
THEOREM NothingLost == Spec => []NoTransactionLost
<1>1. IInv => NoTransactionLost  BY DEF IInv
<1> QED  BY <1>1, Invariance, PTL

(* Every transaction ever proposed is still held, ready for a retry.       *)
THEOREM ProposedHeld == Spec => []ProposedIsHeld
<1>1. IInv => ProposedIsHeld  BY DEF IInv
<1> QED  BY <1>1, Invariance, PTL

(* The block last built was sent before the next one is begun, so that     *)
(* what is in flight stays among what was offered.                         *)
OfferedOrSent ==
    /\ InFlightWasOffered
    /\ pc = "idle" => block \subseteq UNION proposed

(* The steps that pop, tick or begin and end a block keep it.              *)
LEMMA StepOfferedOrSent ==
    ASSUME TypeOK, OfferedOrSent, [Next]_vars, IsFiniteSet(mempool.in_flight)
    PROVE  OfferedOrSent'
<1> USE DEF OfferedOrSent, InFlightWasOffered
<1>1. ASSUME NEW t \in Txn, SubmitToMempool(t) PROVE OfferedOrSent'
  <2>1. mempool'.in_flight = mempool.in_flight
    BY <1>1, PushHeld DEF SubmitToMempool, TypeOK
  <2> QED  BY <1>1, <2>1 DEF SubmitToMempool, buildVars
<1>2. CASE add_transaction_to_mempool
  <2>1. received \in Txn  BY <1>2 DEF add_transaction_to_mempool, TypeOK
  <2>2. mempool'.in_flight = mempool.in_flight
    BY <1>2, <2>1, PushHeld DEF add_transaction_to_mempool, TypeOK
  <2> QED  BY <1>2, <2>2 DEF add_transaction_to_mempool, buildVars
<1>3. CASE PopIntoBlock
  <2>1. pc' # "idle"  BY <1>3 DEF PopIntoBlock, EndIteration
  <2>2. mempool'.in_flight = mempool.in_flight \cup {pop_transaction(mempool).next}
    BY <1>3, PopHeld DEF PopIntoBlock, TypeOK
  <2> QED  BY <1>3, <2>1, <2>2 DEF PopIntoBlock
<1>4. CASE PopNothing
  <2>1. mempool'.in_flight = mempool.in_flight
    BY <1>4, PopHeld DEF PopNothing, TypeOK
  <2> QED  BY <1>4, <2>1 DEF PopNothing
<1>5. CASE Tick
  <2>1. mempool'.in_flight = {}  BY <1>5, TickHeld DEF Tick, TypeOK
  <2> QED  BY <1>5, <2>1 DEF Tick, buildVars
<1>6. CASE send_proposed_block \/ StartBlock
  BY <1>6 DEF send_proposed_block, StartBlock
<1>7. CASE Awake  BY <1>7 DEF Awake, EndIteration
<1>8. CASE Second \/ receive_mempool_transaction \/ UNCHANGED vars
  BY <1>8 DEF Second, receive_mempool_transaction, vars, buildVars
<1>9. ASSUME NEW t \in Txn, SubmitToChannel(t) PROVE OfferedOrSent'
  BY <1>9 DEF SubmitToChannel, buildVars
<1> QED  BY <1>1, <1>2, <1>3, <1>4, <1>5, <1>6, <1>7, <1>8, <1>9 DEF Next

(* Nothing is in flight that no block has offered: however build_block     *)
(* ends, on count or on time, what it popped is sent.                      *)
THEOREM InFlightOffered == Spec => []InFlightWasOffered
<1>1. Init => OfferedOrSent
  BY DEF Init, EmptyMempool, OfferedOrSent, InFlightWasOffered
<1>2. IInv /\ OfferedOrSent /\ [Next]_vars => OfferedOrSent'
  BY StepOfferedOrSent DEF IInv
<1>3. OfferedOrSent => InFlightWasOffered  BY DEF OfferedOrSent
<1> QED  BY <1>1, <1>2, <1>3, Invariance, PTL DEF Spec

-----------------------------------------------------------------------------
(* Copies are never multiplied. *)

(* The copies of t outside the mempool.                                    *)
OnTheWay(t) == Occurrences(t, inbox) + Present(received = t)

(* CopiesBounded, said with the two counts, which are numbers.             *)
Counted ==
    /\ CopiesBounded <=>
          \A t \in Txn : OnTheWay(t) + Copies(t, mempool) <= submits[t]
    /\ \A t \in Txn : /\ OnTheWay(t) \in Nat
                      /\ Copies(t, mempool) \in Nat
                      /\ submits[t] \in Nat

(* Both counts are those of CopiesBounded.                                 *)
LEMMA CopiesAreCounted == TypeOK => Counted
<1> SUFFICES ASSUME TypeOK PROVE Counted  OBVIOUS
<1>1. ASSUME NEW t \in Txn
      PROVE  /\ Occurrences(t, inbox) \in Nat
             /\ Occurrences(t, mempool.queue) \in Nat
             /\ Present(received = t) \in Nat
             /\ Present(t \in mempool.in_flight) \in Nat
             /\ submits[t] \in Nat
  BY PlacesFinite, ProposerAssumption DEF TypeOK, IsMempool, Present
<1> QED  BY <1>1 DEF Counted, CopiesBounded, OnTheWay, Copies

(* The same in the next state.                                             *)
LEMMA CopiesAreCountedNext == TypeOK' => Counted'
BY CopiesAreCounted, PTL

(* Neither a submission nor any task makes more copies than it may.        *)
LEMMA StepCopies ==
    ASSUME IInv, IInv', [Next]_vars, NEW t \in Txn
    PROVE  OnTheWay(t)' + Copies(t, mempool') + submits[t]
              <= OnTheWay(t) + Copies(t, mempool) + submits'[t]
<1> DEFINE Goal == OnTheWay(t)' + Copies(t, mempool') + submits[t]
                      <= OnTheWay(t) + Copies(t, mempool) + submits'[t]
<1>1. /\ OnTheWay(t) \in Nat /\ OnTheWay(t)' \in Nat
      /\ Copies(t, mempool) \in Nat /\ Copies(t, mempool') \in Nat
      /\ submits[t] \in Nat /\ submits'[t] \in Nat
  <2>1. TypeOK /\ TypeOK'  BY DEF IInv
  <2> QED  BY <2>1, CopiesAreCounted, CopiesAreCountedNext DEF Counted
<1>2. /\ inbox \in Seq(Txn) /\ IsMempool(mempool) /\ IsFiniteSet(mempool.in_flight)
      /\ Occurrences(t, inbox) \in Nat /\ submits \in [Txn -> 0 .. MaxSubmits]
  BY PlacesFinite DEF IInv, TypeOK
<1>3. ASSUME NEW u \in Txn, SubmitToChannel(u) PROVE Goal
  <2>1. Occurrences(t, inbox') = Occurrences(t, inbox) + Present(u = t)
    BY <1>2, <1>3, AppendCount DEF SubmitToChannel
  <2>2. received' = received /\ mempool' = mempool
    BY <1>3 DEF SubmitToChannel
  <2>3. submits'[t] = submits[t] + Present(u = t)
    BY <1>1, <1>2, <1>3 DEF SubmitToChannel, CountSubmit, Present
  <2> QED  BY <1>1, <1>2, <2>1, <2>2, <2>3 DEF OnTheWay, Present
<1>4. ASSUME NEW u \in Txn, SubmitToMempool(u) PROVE Goal
  <2>1. Copies(t, mempool') <= Copies(t, mempool) + Present(u = t)
    BY <1>2, <1>4, PushCopies DEF SubmitToMempool
  <2>2. OnTheWay(t)' = OnTheWay(t)
    BY <1>4 DEF SubmitToMempool, serviceVars, OnTheWay
  <2>3. submits'[t] = submits[t] + Present(u = t)
    BY <1>1, <1>2, <1>4 DEF SubmitToMempool, CountSubmit, Present
  <2> QED  BY <1>1, <2>1, <2>2, <2>3 DEF Present
<1>5. CASE receive_mempool_transaction
  <2>1. /\ received = NoTxn /\ received' = Head(inbox) /\ inbox' = Tail(inbox)
        /\ inbox # <<>> /\ mempool' = mempool /\ submits' = submits
    BY <1>5 DEF receive_mempool_transaction
  <2>2. Occurrences(t, inbox) = Present(received' = t) + Occurrences(t, inbox')
    BY <1>2, <2>1, HeadCount
  <2>3. Present(received = t) = 0  BY <2>1, TxnAssumption DEF Present
  <2>4. OnTheWay(t)' = OnTheWay(t)
    <3>1. Occurrences(t, inbox') \in Nat
      BY PlacesFinite DEF IInv, TypeOK
    <3> QED  BY <2>2, <2>3, <3>1 DEF OnTheWay, Present
  <2> QED  BY <1>1, <2>1, <2>4
<1>6. CASE add_transaction_to_mempool
  <2>1. /\ received \in Txn /\ received' = NoTxn /\ inbox' = inbox
        /\ mempool' = push_transaction(mempool, received) /\ submits' = submits
    BY <1>6 DEF add_transaction_to_mempool, IInv, TypeOK
  <2>2. Copies(t, mempool') <= Copies(t, mempool) + Present(received = t)
    BY <1>2, <2>1, PushCopies
  <2>3. Present(received' = t) = 0  BY <2>1, TxnAssumption DEF Present
  <2> QED  BY <1>1, <1>2, <2>1, <2>2, <2>3 DEF OnTheWay, Present
<1>7. CASE PopIntoBlock \/ PopNothing
  <2>1. /\ mempool' = pop_transaction(mempool).mempool
        /\ inbox' = inbox /\ received' = received /\ submits' = submits
    BY <1>7 DEF PopIntoBlock, PopNothing, serviceVars
  <2>2. Copies(t, mempool') <= Copies(t, mempool)
    BY <1>2, <2>1, PopCopies
  <2>3. OnTheWay(t)' = OnTheWay(t)  BY <2>1 DEF OnTheWay
  <2> QED  BY <1>1, <2>1, <2>2, <2>3
<1>8. CASE Tick
  <2>1. /\ mempool' \in tick_mempool(mempool)
        /\ inbox' = inbox /\ received' = received /\ submits' = submits
    BY <1>8 DEF Tick, serviceVars
  <2>2. Copies(t, mempool') = Copies(t, mempool)
    BY <1>2, <2>1, TickCopies
  <2>3. OnTheWay(t)' = OnTheWay(t)  BY <2>1 DEF OnTheWay
  <2> QED  BY <1>1, <2>1, <2>2, <2>3
<1>9. CASE UNCHANGED <<serviceVars, mempool, submits>>
  <2>1. OnTheWay(t)' = OnTheWay(t)  BY <1>9 DEF OnTheWay, serviceVars
  <2> QED  BY <1>1, <1>9, <2>1
<1> QED
  BY <1>3, <1>4, <1>5, <1>6, <1>7, <1>8, <1>9
     DEF Next, vars, StartBlock, Awake, send_proposed_block, Second

(* Pops, ticks and submissions that meet, in any order, leave no more      *)
(* copies of a transaction than it was submitted times, although push does *)
(* not look for it in the queue.                                           *)
THEOREM NeverMultiplied == Spec => []CopiesBounded
<1>1. Init => CopiesBounded
  <2> SUFFICES ASSUME Init, NEW t \in Txn
               PROVE  Occurrences(t, inbox) + Present(received = t)
                        + Occurrences(t, mempool.queue) + Present(t \in mempool.in_flight)
                      <= submits[t]
    BY DEF CopiesBounded
  <2>1. Occurrences(t, <<>>) = 0
    <3>1. {i \in DOMAIN <<>> : <<>>[i] = t} = {}  OBVIOUS
    <3> QED  BY <3>1, FS_EmptySet DEF Occurrences
  <2>2. received # t  BY TxnAssumption DEF Init
  <2> QED  BY <2>1, <2>2 DEF Init, EmptyMempool, Present
<1>2. IInv /\ IInv' /\ CopiesBounded /\ [Next]_vars => CopiesBounded'
  <2> SUFFICES ASSUME IInv, IInv', CopiesBounded, [Next]_vars
               PROVE  CopiesBounded'
    OBVIOUS
  <2>1. TypeOK /\ TypeOK'  BY DEF IInv
  <2>2. \A t \in Txn : OnTheWay(t) + Copies(t, mempool) <= submits[t]
    BY <2>1, CopiesAreCounted DEF Counted
  <2>3. \A t \in Txn : /\ OnTheWay(t) \in Nat /\ OnTheWay(t)' \in Nat
                       /\ Copies(t, mempool) \in Nat /\ Copies(t, mempool') \in Nat
                       /\ submits[t] \in Nat /\ submits'[t] \in Nat
    BY <2>1, CopiesAreCounted, CopiesAreCountedNext DEF Counted
  <2>4. \A t \in Txn : OnTheWay(t)' + Copies(t, mempool') <= submits'[t]
    BY <2>2, <2>3, StepCopies
  <2> QED  BY <2>1, <2>4, CopiesAreCountedNext DEF Counted
<1> QED  BY <1>1, <1>2, Invariance, PTL DEF Spec

=============================================================================
